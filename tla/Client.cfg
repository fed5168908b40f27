SPECIFICATION FairSpec
CONSTANTS
  Null = Null
  gate = gate tower = tower prize = prize guest = guest member = member
  Spots = {gate, tower}
  Rewards = {prize}
  Tickets = {"own", "issued"}
  SpotDef <- MCSpotDef
  RewardDef <- MCRewardDef
  MaxTime = 2
  Guest = guest
  Accounts = {}
  Stock = 1
  PassedBy = {"eachThenPull", "batch"}
  Uses = {"local", "reset"}
  MaxKeys = 2
  MaxCrashes = 1
  MaxRefusals = 1
INVARIANTS
  ShownIsBacked
  SavedIsShown
  ShownPrerequisitesClosed
PROPERTIES
  NoneLost
CHECK_DEADLOCK FALSE
