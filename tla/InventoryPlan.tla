---------------------------- MODULE InventoryPlan ----------------------------
(***************************************************************************)
(* inventoryPlan and rewardStock of packages/server/src/server.ts: the one *)
(* or two stock buckets a claim of a reward draws from, and the level each *)
(* starts with when storage holds none yet.                                *)
(***************************************************************************)
EXTENDS RallyRules

CONSTANTS
  InventoryMode,  \* config.inventoryMode: "shared" or "per_reward"
  SharedKey,      \* the bucket "__shared__"
  ExtraStockKeys, \* the other names of config.inventory that are no reward id
  SharedStock,    \* config.inventory.sharedStock
  Inventory,      \* config.inventory: [StockKeys -> limit], Null when unset
  StockPlan       \* [Rewards -> [stockKey, secondaryStockKey]], Null when unset

StockKeys == Rewards \union ExtraStockKeys \union {SharedKey}

(* validateConfig: a named bucket must be configured.                      *)
NamedBucketExists(key) ==
  key # Null => IF key = SharedKey THEN SharedStock # Null ELSE Inventory[key] # Null

ASSUME InventoryAssumption ==
  /\ Null \notin StockKeys
  /\ SharedKey \notin Rewards \union ExtraStockKeys
  /\ InventoryMode \in {"shared", "per_reward"}
  /\ SharedStock \in OptionalNat
  /\ Inventory \in [StockKeys -> OptionalNat]
  /\ StockPlan \in [Rewards -> [stockKey : StockKeys \union {Null},
                                secondaryStockKey : StockKeys \union {Null}]]
  /\ \A rw \in Rewards : /\ NamedBucketExists(StockPlan[rw].stockKey)
                         /\ NamedBucketExists(StockPlan[rw].secondaryStockKey)

(* The tighter of two limits, Null being no limit.                         *)
Tighter(a, b) ==
  IF a = Null THEN b ELSE IF b = Null THEN a ELSE IF a <= b THEN a ELSE b

RewardStock(rw) ==
  LET key == OrElse(StockPlan[rw].stockKey, rw)
  IN  Tighter(RewardDef[rw].stockLimit,
              IF key = SharedKey THEN SharedStock ELSE Inventory[key])

Pooled == InventoryMode = "shared" /\ SharedStock # Null

PrimaryKey(rw) == OrElse(StockPlan[rw].stockKey, IF Pooled THEN SharedKey ELSE rw)

PrimaryInitial(rw) ==
  IF Pooled /\ StockPlan[rw].stockKey = Null THEN SharedStock ELSE RewardStock(rw)

SecondaryKey(rw) ==
  IF StockPlan[rw].secondaryStockKey = Null /\ Pooled /\ RewardStock(rw) # Null
  THEN rw
  ELSE StockPlan[rw].secondaryStockKey

SecondaryInitial(rw) ==
  LET key == StockPlan[rw].secondaryStockKey
  IN  IF key = Null THEN RewardStock(rw)
      ELSE OrElse(Inventory[key], IF Pooled THEN RewardStock(rw) ELSE Null)

(* The buckets a claim of rw decrements.                                   *)
Buckets(rw) == {PrimaryKey(rw), SecondaryKey(rw)} \ {Null}

InitialLevel(rw, key) ==
  IF key = PrimaryKey(rw) THEN PrimaryInitial(rw) ELSE SecondaryInitial(rw)

(* A restriction of the model: no reward names one bucket twice.           *)
ASSUME BucketsDistinct == \A rw \in Rewards : PrimaryKey(rw) # SecondaryKey(rw)
==============================================================================
