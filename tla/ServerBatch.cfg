SPECIFICATION FairBatchSpec
CONSTANTS
  Null = Null
  u1 = u1 u2 = u2 k1 = k1 k2 = k2 k3 = k3 k4 = k4
  gate = gate tower = tower pier = pier prize = prize medal = medal
  q1 = q1 q2 = q2 q3 = q3 q4 = q4 q5 = q5
  Users = {u1, u2}
  Spots = {gate, tower, pier}
  Rewards = {prize, medal}
  Requests = {q1, q2, q3, q4, q5}
  Tickets = {q1, q2, q3, q4, q5}
  Keys = {k1, k2, k3, k4}
  SpotDef <- SyncSpotDef
  RewardDef <- MCLimitedRewardDef
  Call <- CallBatch
  MaxTime = 1
  InventoryMode = "per_reward"
  SharedKey = "__shared__"
  ExtraStockKeys = {}
  SharedStock = 3
  Inventory <- NoStock
  StockPlan <- NoPlan
  SeedStock <- NoStock
  Faulty = {q1, q4}
  SlowHolders = FALSE
  RechecksKey = TRUE
  ResultsExpire = FALSE
  BatchUser = u1
  Batch <- TheBatch
INVARIANTS
  ReturnsAccepted
  ReturnsOnlySuccesses
  AcceptedPrerequisitesCount
  ClaimLimitRespected
PROPERTIES
  StampsKept
  EverythingEnds
CHECK_DEADLOCK FALSE
