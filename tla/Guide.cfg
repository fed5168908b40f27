\* Everything the engine tells about a rally against what then happens.
CONSTANTS
  Null = Null
  DaysPerWeek = 2
  SlotsPerDay = 3
  Configs <- MCConfigs
  Proofs <- MCProofs
SPECIFICATION Spec
INVARIANTS
  AnnouncedOpeningIsNext
  ForeseenByPreflight
  SimulationReached
  MissingStampsAreFewest
  SuggestionsAreAccepted
CHECK_DEADLOCK FALSE
