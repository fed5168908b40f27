SPECIFICATION Spec
CONSTANTS
  Absent = Absent
  Hosts = {"sync", "late", "keeps", "form"}
  ResettingHosts = {"sync"}
  Original <- TwoSpotsAndAReward
  MaxVersions = 3
  MaxLetters = 2
  Sensors = {"qr", "nfc", "gps"}
  MaxReadings = 3
  Adapters = {"fallback", "throw", "indexeddb"}
  MaxWrites = 3
  MaxOutages = 2
  MaxReloads = 1
  ConditionTypes = {"qr", "passcode", "gps", "nfc", "custom"}
  Viewers = {"ui", "mui"}
  LoadedAtMount = {TRUE}
  CheckInSpots = {"gate", "tower"}
  MaxCommits = 3
  NoField = NoField
  Blank = Blank
  Sessions = {"session1", "session2"}
  Accounts = {"alice", "bob"}
  Policies = {"authenticate", "reject", "session_scoped", "shared_global_opt_in_insecure"}
  MaxRequests = 2
  Users = {"guest", "alice"}
  Operations = {"op1", "op2"}
  MaxBreakdowns = 2
  MaxVisits = 2
INVARIANTS
  ShownIsAsked
  HostInformed
  EntitiesDistinct
  NeverOlder
  PublishedIsSafe
  OneClaimAtATime
  ActsForCaller
  AcceptedIsKept
PROPERTIES
  DetectionEnds
  StorageRecovers
CHECK_DEADLOCK FALSE
