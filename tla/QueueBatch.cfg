SPECIFICATION Spec
CONSTANTS
  Null = Null
  a = a b = b c = c t1 = t1 t2 = t2
  Settings <- BatchSettings
INVARIANTS
  UnansweredRetained
  RejectionsKept
  RetriedRetained
CHECK_DEADLOCK FALSE
