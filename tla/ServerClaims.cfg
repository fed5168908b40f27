SPECIFICATION Spec
CONSTANTS
  Null = Null
  u1 = u1 u2 = u2 k1 = k1 k2 = k2 k3 = k3 k4 = k4
  gate = gate tower = tower pier = pier prize = prize medal = medal
  q1 = q1 q2 = q2 q3 = q3 q4 = q4
  Users = {u1, u2}
  Spots = {gate, tower, pier}
  Rewards = {prize, medal}
  Requests = {q1, q2, q3, q4}
  Tickets = {q1, q2, q3, q4}
  Keys = {k1, k2, k3, k4}
  SpotDef <- MCSpotDef
  RewardDef <- MCRewardDef
  Call <- CallClaims
  MaxTime = 0
  InventoryMode = "shared"
  SharedKey = "__shared__"
  ExtraStockKeys = {}
  SharedStock = 3
  Inventory <- NoStock
  StockPlan <- NoPlan
  SeedStock <- NoStock
  Faulty = {q1, q3}
  SlowHolders = TRUE
  RechecksKey = TRUE
  ResultsExpire = FALSE
INVARIANTS
  TypeOK
  StockConserved
  AnswersBacked
PROPERTIES
  ImplementsLedger
CHECK_DEADLOCK FALSE
