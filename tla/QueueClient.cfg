SPECIFICATION FairSpec
CONSTANTS
  Null = Null
  a = a b = b c = c t1 = t1 t2 = t2
  Settings <- ClientSettings
INVARIANTS
  UnansweredRetained
  RejectionsTrue
PROPERTIES
  SyncEnds
