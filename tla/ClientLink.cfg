SPECIFICATION FairSpec
CONSTANTS
  Null = Null
  gate = gate tower = tower prize = prize guest = guest member = member
  Spots = {gate, tower}
  Rewards = {prize}
  Tickets = {"own", "issued"}
  SpotDef <- MCSpotDef
  RewardDef <- MCRewardDef
  MaxTime = 1
  Guest = guest
  Accounts = {member}
  Stock = 1
  PassedBy = {"each"}
  Uses = {"switchUser", "clear", "restore", "linkAccount"}
  MaxKeys = 1
  MaxCrashes = 1
  MaxRefusals = 1
PROPERTIES
  LinkKeepsProgress
  CallsEnd
CHECK_DEADLOCK FALSE
