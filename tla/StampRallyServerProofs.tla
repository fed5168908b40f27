----------------------- MODULE StampRallyServerProofs -----------------------
(* Type correctness of StampRallyServer, that it implements the ledger,    *)
(* and that what it stores and answers is right, for every set of          *)
(* requests, configuration and stock: the user states, the claim records   *)
(* and the audit log agree, and no stamp is lost while locks are leases    *)
(* that outlive their holders.                                             *)
EXTENDS StampRallyServer, FiniteSetTheorems, TLAPS

(***************************************************************************)
(* Types of the operators.                                                 *)
(***************************************************************************)

LEMMA ReconcileType ==
  ASSUME NEW rw \in Rewards, NEW current \in RewardStates, NEW stamps, NEW now
  PROVE  ReconcileReward(rw, current, stamps, now) \in RewardStates
BY DEF ReconcileReward, PlainReward, LockedReward, RewardStates, RewardStatus

LEMMA ReconcileStatesType ==
  ASSUME NEW rewards \in [Rewards -> RewardStates], NEW stamps, NEW now
  PROVE  ReconcileRewardStates(rewards, stamps, now) \in [Rewards -> RewardStates]
BY ReconcileType DEF ReconcileRewardStates

LEMMA InitialStateType ==
  ASSUME NEW now
  PROVE  InitialState(now) \in UserStates
<1>1. [rw \in Rewards |-> LockedReward] \in [Rewards -> RewardStates]
  BY DEF LockedReward, PlainReward, RewardStates, RewardStatus
<1> QED
  BY <1>1, ReconcileStatesType DEF InitialState, UserStates

LEMMA StampedType ==
  ASSUME NEW state \in UserStates, NEW spot \in Spots, NEW now
  PROVE  Stamped(state, spot, now) \in UserStates
BY ReconcileStatesType DEF Stamped, UserStates

LEMMA ConsumedType ==
  ASSUME NEW rw \in Rewards, NEW current \in RewardStates, NEW t \in Tickets
  PROVE  ConsumedReward(rw, current, t) \in RewardStates
BY DEF ConsumedReward, RewardStates, RewardStatus

LEMMA PlanType ==
  ASSUME NEW rw \in Rewards
  PROVE  /\ PrimaryKey(rw) \in StockKeys
         /\ SecondaryKey(rw) \in StockKeys \union {Null}
         /\ PrimaryInitial(rw) \in OptionalNat
         /\ SecondaryInitial(rw) \in OptionalNat
         /\ Buckets(rw) \subseteq StockKeys
         /\ \A key : InitialLevel(rw, key) \in OptionalNat
<1>1. /\ StockPlan[rw].stockKey \in StockKeys \union {Null}
      /\ StockPlan[rw].secondaryStockKey \in StockKeys \union {Null}
      /\ rw \in StockKeys /\ SharedKey \in StockKeys
  BY InventoryAssumption DEF StockKeys
<1>2. \A a, b \in OptionalNat : Tighter(a, b) \in OptionalNat /\ OrElse(a, b) \in OptionalNat
  BY DEF Tighter, OrElse, OptionalNat
<1>3. RewardDef[rw].stockLimit \in OptionalNat /\ SharedStock \in OptionalNat
      /\ \A key \in StockKeys : Inventory[key] \in OptionalNat
  BY RewardsAssumption, InventoryAssumption
<1>4. RewardStock(rw) \in OptionalNat
  BY <1>1, <1>2, <1>3 DEF RewardStock, OrElse
<1>5. PrimaryKey(rw) \in StockKeys /\ SecondaryKey(rw) \in StockKeys \union {Null}
  BY <1>1 DEF PrimaryKey, SecondaryKey, OrElse
<1>6. PrimaryInitial(rw) \in OptionalNat
  BY <1>3, <1>4 DEF PrimaryInitial
<1>7. SecondaryInitial(rw) \in OptionalNat
  <2>1. Null \in OptionalNat
    BY DEF OptionalNat
  <2> QED
    BY <1>1, <1>2, <1>3, <1>4, <2>1 DEF SecondaryInitial
<1> QED
  BY <1>5, <1>6, <1>7 DEF Buckets, InitialLevel

LEMMA CodeTypes ==
  ASSUME NEW r \in Requests, NEW current, NEW count
  PROVE  CheckInCode(r) \in Codes /\ ClaimCode(r, current, count) \in Codes
<1>1. CheckInCode(r) \in Codes
  BY DEF CheckInCode, Codes
<1>2. ClaimCode(r, current, count) \in Codes
  BY DEF ClaimCode, ConsumeError, Codes
<1> QED
  BY <1>1, <1>2

LEMMA StateOfType ==
  ASSUME TypeOK, NEW u \in Users, NEW now
  PROVE  StateOf(u, now) \in UserStates
BY InitialStateType DEF StateOf, TypeOK

(* What the buckets of a reward hold.                                      *)
LevelOf(rw, key) == OrElse(stocks[key], InitialLevel(rw, key))

LEMMA LevelType ==
  ASSUME TypeOK, NEW rw \in Rewards, NEW key \in Buckets(rw)
  PROVE  LevelOf(rw, key) \in OptionalNat
<1>1. key \in StockKeys /\ InitialLevel(rw, key) \in OptionalNat
  BY PlanType
<1> QED
  BY <1>1 DEF LevelOf, OrElse, TypeOK

(* A claim that is not out of stock finds at least one unit in every       *)
(* limited bucket.                                                         *)
LEMMA InStock ==
  ASSUME TypeOK, NEW rw \in Rewards, ~OutOfStock(rw), NEW key \in Buckets(rw),
         LevelOf(rw, key) # Null
  PROVE  LevelOf(rw, key) \in Nat /\ LevelOf(rw, key) > 0
<1>1. LevelOf(rw, key) \in Nat
  BY LevelType DEF OptionalNat
<1>2. CASE key = PrimaryKey(rw)
  BY <1>1, <1>2 DEF LevelOf, InitialLevel, OutOfStock, PrimaryStock
<1>3. CASE key # PrimaryKey(rw)
  <2>1. key = SecondaryKey(rw) /\ SecondaryKey(rw) # Null
    BY <1>3 DEF Buckets
  <2> QED
    BY <1>1, <1>3, <2>1 DEF LevelOf, InitialLevel, OutOfStock, SecondaryStock
<1> QED
  BY <1>2, <1>3

LEMMA StocksAfterType ==
  ASSUME TypeOK, NEW rw \in Rewards, NEW ticketed \in BOOLEAN, ~OutOfStock(rw)
  PROVE  StocksAfter(rw, ticketed) \in [StockKeys -> OptionalNat]
<1> SUFFICES ASSUME NEW key \in StockKeys
             PROVE  StocksAfter(rw, ticketed)[key] \in OptionalNat
  BY DEF StocksAfter
<1>1. CASE key \notin Buckets(rw)
  BY <1>1 DEF StocksAfter, TypeOK
<1>2. CASE key \in Buckets(rw)
  <2>1. StocksAfter(rw, ticketed)[key] =
          IF LevelOf(rw, key) # Null /\ ticketed THEN LevelOf(rw, key) - 1 ELSE LevelOf(rw, key)
    BY <1>2 DEF StocksAfter, LevelOf
  <2>2. LevelOf(rw, key) \in OptionalNat
    BY <1>2, LevelType
  <2>3. LevelOf(rw, key) # Null => LevelOf(rw, key) \in Nat /\ LevelOf(rw, key) > 0
    BY <1>2, InStock
  <2> QED
    BY <2>1, <2>2, <2>3 DEF OptionalNat
<1> QED
  BY <1>1, <1>2

(***************************************************************************)
(* Type correctness.                                                       *)
(***************************************************************************)

LEMMA KeyTypes ==
  ASSUME NEW r \in Requests
  PROVE  /\ IdempotencyKey(r) \in IdempotencyKeys
         /\ LockKey(r) \in LockKeys
         /\ Call[r].user \in Users
         /\ r \in CheckIns => Call[r].resource \in Spots
         /\ r \in Claims => Call[r].resource \in Rewards
         /\ r \in Tickets
BY CallAssumption DEF IdempotencyKeys, LockKeys, CheckIns, Claims, Kinds

LEMMA PlainType == \A code \in Codes : Plain(code) \in Results
BY DEF Plain, Results

LEMMA InitType == Init => TypeOK
BY CallAssumption, SpotsAssumption
   DEF Init, TypeOK, Time

LEMMA LookUpType == ASSUME TypeOK, NEW r \in Requests, LookUpResult(r) PROVE TypeOK'
BY KeyTypes DEF TypeOK, LookUpResult, StoredResult, Goto, Answer, store

LEMMA AcquireType == ASSUME TypeOK, NEW r \in Requests, AcquireLock(r) PROVE TypeOK'
BY KeyTypes DEF TypeOK, AcquireLock, Goto, store

LEMMA ConflictType == ASSUME TypeOK, NEW r \in Requests, LockConflict(r) PROVE TypeOK'
<1>1. Plain("CONFLICT") \in Results
  BY PlainType DEF Codes
<1> QED
  BY <1>1 DEF TypeOK, LockConflict, Goto, Answer, store

LEMMA ReleaseType == ASSUME TypeOK, NEW r \in Requests, ReleaseLock(r) PROVE TypeOK'
BY DEF TypeOK, ReleaseLock, Goto, store

LEMMA FailureType ==
  ASSUME TypeOK, NEW r \in Requests,
         StorageFails(r) \/ ClaimAlreadyStored(r) \/ Crash(r)
  PROVE  TypeOK'
<1>1. Plain("PERSISTENCE_FAILED") \in Results
  BY PlainType DEF Codes
<1>2. CASE StorageFails(r)
  BY <1>1, <1>2 DEF TypeOK, StorageFails, Goto, Answer, store
<1>3. CASE ClaimAlreadyStored(r)
  BY <1>1, <1>3 DEF TypeOK, ClaimAlreadyStored, Goto, Answer, store
<1>4. CASE Crash(r)
  BY <1>4 DEF TypeOK, Crash, Goto, store
<1> QED
  BY <1>2, <1>3, <1>4

LEMMA ReadType == ASSUME TypeOK, NEW r \in Requests, ReadUserState(r) PROVE TypeOK'
<1>1. StateOf(Call[r].user, startedAt[r]) \in UserStates
  BY KeyTypes, StateOfType
<1> QED
  BY <1>1 DEF TypeOK, ReadUserState, Goto, store

LEMMA RecheckType == ASSUME TypeOK, NEW r \in Requests, RecheckResult(r) PROVE TypeOK'
BY KeyTypes DEF TypeOK, RecheckResult, StoredResult, Goto, Answer, store

(* A check-in commits the state it derived from its snapshot, so that a    *)
(* type-correct commit needs a snapshot.                                   *)
SnapshotTaken ==
  \A r \in CheckIns : pc[r] = "ready" => snapshot[r] # Null

LEMMA CommitCheckInType ==
  ASSUME TypeOK, SnapshotTaken, NEW r \in Requests, CommitCheckIn(r)
  PROVE  TypeOK'
<1>1. r \in CheckIns /\ pc[r] = "ready"
  BY DEF CommitCheckIn, RefuseCheckIn
<1>2. snapshot[r] \in UserStates
  BY <1>1 DEF SnapshotTaken, TypeOK
<1>3. StateAfterCheckIn(r) \in UserStates
  BY <1>1, <1>2, KeyTypes, StampedType DEF StateAfterCheckIn
<1>4. Plain(CheckInCode(r)) \in Results
  BY CodeTypes, PlainType
<1>5. userStates' \in [Users -> UserStates \union {Null}]
  BY <1>3 DEF CommitCheckIn, RefuseCheckIn, TypeOK
<1>6. /\ idempotent' \in [IdempotencyKeys -> Results \union {Null}]
      /\ response' \in [Requests -> Results \union {Null}]
  BY <1>4 DEF CommitCheckIn, RefuseCheckIn, TypeOK, Answer
<1>7. /\ audit' \in [Requests -> {"SUCCESS", "REJECTED", Null}]
      /\ pc' \in [Requests -> {"idle", "missed", "locked", "ready", "releasing", "done", "crashed"}]
  BY DEF CommitCheckIn, RefuseCheckIn, TypeOK, Goto
<1>8. UNCHANGED <<clock, locks, stocks, claimRecords, startedAt, snapshot>>
  BY DEF CommitCheckIn, RefuseCheckIn
<1> QED
  BY <1>5, <1>6, <1>7, <1>8 DEF TypeOK

(* The local names of CommitClaim.                                         *)
StateAt(r) == StateOf(Call[r].user, startedAt[r])
CountAt(r) == Cardinality(ClaimsOf(Call[r].user, Call[r].resource))
CurrentAt(r) ==
  Claimable(Call[r].resource, StateAt(r).rewards[Call[r].resource], CountAt(r))
CodeAt(r) == ClaimCode(r, CurrentAt(r), CountAt(r))
ConsumedAt(r) == ConsumedReward(Call[r].resource, CurrentAt(r), r)
ResultAt(r) ==
  [code |-> CodeAt(r), ticket |-> IF CodeAt(r) = "OK" THEN ConsumedAt(r).ticket ELSE Null]

LEMMA ClaimFacts ==
  ASSUME TypeOK, NEW r \in Requests, CommitClaim(r)
  PROVE  /\ r \in Claims /\ pc[r] = "ready" /\ ResultInTransaction(r) = Null
         /\ \/ /\ CodeAt(r) = "OK"
               /\ userStates' = [userStates EXCEPT ![Call[r].user] =
                                   [StateAt(r) EXCEPT !.rewards[Call[r].resource] = ConsumedAt(r)]]
               /\ stocks' = StocksAfter(Call[r].resource, ConsumedAt(r).ticket # Null)
               /\ claimRecords' = claimRecords \union
                    {[user |-> Call[r].user, reward |-> Call[r].resource, ticket |-> t] :
                       t \in {ConsumedAt(r).ticket} \ {Null}}
               /\ audit' = [audit EXCEPT ![r] = "SUCCESS"]
            \/ /\ CodeAt(r) # "OK"
               /\ audit' = [audit EXCEPT ![r] = "REJECTED"]
               /\ UNCHANGED <<userStates, stocks, claimRecords>>
         /\ idempotent' = [idempotent EXCEPT ![IdempotencyKey(r)] = ResultAt(r)]
         /\ response' = [response EXCEPT ![r] = ResultAt(r)]
         /\ pc' = [pc EXCEPT ![r] = "releasing"]
         /\ UNCHANGED <<clock, locks, startedAt, snapshot>>
BY DEF CommitClaim, Answer, Goto, StateAt, CountAt, CurrentAt, CodeAt, ConsumedAt, ResultAt

LEMMA ClaimTypes ==
  ASSUME TypeOK, NEW r \in Claims
  PROVE  /\ StateAt(r) \in UserStates
         /\ CurrentAt(r) \in RewardStates
         /\ ConsumedAt(r) \in RewardStates
         /\ ResultAt(r) \in Results
<1>1. r \in Requests /\ Call[r].user \in Users /\ Call[r].resource \in Rewards /\ r \in Tickets
  BY KeyTypes DEF Claims
<1>2. StateAt(r) \in UserStates
  BY <1>1, StateOfType DEF StateAt
<1>3. StateAt(r).rewards[Call[r].resource] \in RewardStates
  BY <1>1, <1>2 DEF UserStates
<1>4. CurrentAt(r) \in RewardStates
  BY <1>3 DEF CurrentAt, Claimable, RewardStates, RewardStatus
<1>5. ConsumedAt(r) \in RewardStates
  BY <1>1, <1>4, ConsumedType DEF ConsumedAt
<1>6. CodeAt(r) \in Codes
  BY <1>1, CodeTypes DEF CodeAt
<1>7. ConsumedAt(r).ticket \in Tickets \union {Null}
  BY <1>5 DEF RewardStates
<1>8. ResultAt(r) \in Results
  BY <1>6, <1>7 DEF ResultAt, Results
<1> QED
  BY <1>2, <1>4, <1>5, <1>8

LEMMA GrantedInStock ==
  ASSUME NEW r \in Requests, CodeAt(r) = "OK"
  PROVE  ~OutOfStock(Call[r].resource)
BY DEF CodeAt, ClaimCode

LEMMA CommitClaimType == ASSUME TypeOK, NEW r \in Requests, CommitClaim(r) PROVE TypeOK'
<1>1. r \in Claims /\ Call[r].user \in Users /\ Call[r].resource \in Rewards
  BY ClaimFacts, KeyTypes
<1>2. /\ StateAt(r) \in UserStates /\ ConsumedAt(r) \in RewardStates /\ ResultAt(r) \in Results
  BY <1>1, ClaimTypes
<1>3. userStates' \in [Users -> UserStates \union {Null}]
  <2>1. [StateAt(r) EXCEPT !.rewards[Call[r].resource] = ConsumedAt(r)] \in UserStates
    BY <1>1, <1>2 DEF UserStates
  <2>2. CASE CodeAt(r) = "OK"
    <3>1. userStates' = [userStates EXCEPT ![Call[r].user] =
                          [StateAt(r) EXCEPT !.rewards[Call[r].resource] = ConsumedAt(r)]]
      BY <2>2, ClaimFacts
    <3> QED
      BY <2>1, <3>1 DEF TypeOK
  <2>3. CASE CodeAt(r) # "OK"
    BY <2>3, ClaimFacts DEF TypeOK
  <2> QED
    BY <2>2, <2>3
<1>4. stocks' \in [StockKeys -> OptionalNat]
  <2>1. CASE CodeAt(r) = "OK"
    <3>1. stocks' = StocksAfter(Call[r].resource, ConsumedAt(r).ticket # Null)
      BY <2>1, ClaimFacts
    <3>2. ~OutOfStock(Call[r].resource)
      BY <2>1, GrantedInStock
    <3>3. (ConsumedAt(r).ticket # Null) \in BOOLEAN
      OBVIOUS
    <3>4. StocksAfter(Call[r].resource, ConsumedAt(r).ticket # Null) \in [StockKeys -> OptionalNat]
      BY <1>1, <3>2, <3>3, StocksAfterType
    <3> QED
      BY <3>1, <3>4
  <2>2. CASE CodeAt(r) # "OK"
    BY <2>2, ClaimFacts DEF TypeOK
  <2> QED
    BY <2>1, <2>2
<1>5. claimRecords' \subseteq ClaimRecords
  <2>1. ConsumedAt(r).ticket \in Tickets \union {Null}
    BY <1>2 DEF RewardStates
  <2>2. {[user |-> Call[r].user, reward |-> Call[r].resource, ticket |-> t] :
            t \in {ConsumedAt(r).ticket} \ {Null}} \subseteq ClaimRecords
    BY <1>1, <2>1 DEF ClaimRecords
  <2>3. CASE CodeAt(r) = "OK"
    BY <2>2, <2>3, ClaimFacts DEF TypeOK
  <2>4. CASE CodeAt(r) # "OK"
    BY <2>4, ClaimFacts DEF TypeOK
  <2> QED
    BY <2>3, <2>4
<1>6. /\ idempotent' \in [IdempotencyKeys -> Results \union {Null}]
      /\ response' \in [Requests -> Results \union {Null}]
  BY <1>2, ClaimFacts DEF TypeOK
<1>7. /\ audit' \in [Requests -> {"SUCCESS", "REJECTED", Null}]
      /\ pc' \in [Requests -> {"idle", "missed", "locked", "ready", "releasing", "done", "crashed"}]
      /\ UNCHANGED <<clock, locks, startedAt, snapshot>>
  BY ClaimFacts DEF TypeOK
<1> QED
  BY <1>3, <1>4, <1>5, <1>6, <1>7 DEF TypeOK

LEMMA TimeType ==
  ASSUME TypeOK,
         Tick \/ (\E lock \in locks : LeaseExpires(lock))
              \/ (\E k \in IdempotencyKeys : ResultLapses(k))
  PROVE  TypeOK'
<1>1. CASE Tick
  BY <1>1, SpotsAssumption DEF TypeOK, Tick, store, handlers, Time
<1>2. ASSUME NEW lock \in locks, LeaseExpires(lock) PROVE TypeOK'
  BY <1>2 DEF TypeOK, LeaseExpires, store, handlers
<1>3. ASSUME NEW k \in IdempotencyKeys, ResultLapses(k) PROVE TypeOK'
  BY <1>3 DEF TypeOK, ResultLapses, handlers
<1> QED
  BY <1>1, <1>2, <1>3

LEMMA StepType == TypeOK /\ SnapshotTaken /\ [Next]_vars => TypeOK'
<1> SUFFICES ASSUME TypeOK, SnapshotTaken, [Next]_vars PROVE TypeOK'
  OBVIOUS
<1>1. CASE UNCHANGED vars
  BY <1>1 DEF vars, store, handlers, TypeOK
<1>2. CASE Next
  BY <1>2, LookUpType, AcquireType, ConflictType, ReleaseType, FailureType, ReadType,
     RecheckType, CommitCheckInType, CommitClaimType, TimeType DEF Next, HandlerStep
<1> QED
  BY <1>1, <1>2

LEMMA StepSnapshot == TypeOK /\ SnapshotTaken /\ [Next]_vars => SnapshotTaken'
<1> SUFFICES ASSUME TypeOK, SnapshotTaken, [Next]_vars, NEW q \in CheckIns, pc'[q] = "ready"
             PROVE  snapshot'[q] # Null
  BY DEF SnapshotTaken
<1>0. q \in Requests
  BY DEF CheckIns
<1>1. CASE UNCHANGED handlers
  BY <1>1 DEF handlers, SnapshotTaken
<1>2. ASSUME NEW r \in Requests, ReadUserState(r) PROVE snapshot'[q] # Null
  <2>1. StateOf(Call[r].user, startedAt[r]) \in UserStates
    BY KeyTypes, StateOfType
  <2>2. Null \notin UserStates
    BY NullIsNoState
  <2> QED
    BY <1>0, <1>2, <2>1, <2>2 DEF ReadUserState, Goto, TypeOK, SnapshotTaken
<1>3. CASE snapshot' = snapshot /\ (pc'[q] = pc[q] \/ pc'[q] # "ready")
  BY <1>3 DEF SnapshotTaken
<1>4. ASSUME NEW r \in Requests, RecheckResult(r) PROVE snapshot'[q] # Null
  <2>1. r \notin CheckIns
    BY <1>4 DEF RecheckResult, Claims
  <2> QED
    BY <1>0, <1>4, <2>1 DEF RecheckResult, Goto, TypeOK, SnapshotTaken
<1>5. ASSUME NEW r \in Requests, HandlerStep(r) \/ StorageFails(r) \/ Crash(r)
      PROVE  snapshot'[q] # Null
  <2>1. CASE LookUpResult(r)
    BY <1>0, <1>3, <2>1 DEF LookUpResult, Goto, TypeOK
  <2>2. CASE AcquireLock(r) \/ LockConflict(r) \/ ReleaseLock(r) \/ StorageFails(r) \/ Crash(r)
    BY <1>0, <1>3, <2>2
       DEF AcquireLock, LockConflict, ReleaseLock, StorageFails, Crash, Goto, TypeOK
  <2>3. CASE CommitCheckIn(r) \/ CommitClaim(r) \/ ClaimAlreadyStored(r)
    BY <1>0, <1>3, <2>3 DEF CommitCheckIn, RefuseCheckIn, CommitClaim, ClaimAlreadyStored,
                             Goto, TypeOK
  <2> QED
    BY <1>2, <1>4, <1>5, <2>1, <2>2, <2>3 DEF HandlerStep
<1> QED
  BY <1>1, <1>5 DEF Next, vars, Tick, LeaseExpires, ResultLapses

(* Every state of every behaviour is well typed.                           *)
THEOREM TypeCorrect == Spec => []TypeOK
<1>1. Init => TypeOK /\ SnapshotTaken
  BY InitType DEF Init, SnapshotTaken, CheckIns
<1>2. (TypeOK /\ SnapshotTaken) /\ [Next]_vars => (TypeOK /\ SnapshotTaken)'
  BY StepType, StepSnapshot
<1> QED
  BY <1>1, <1>2, PTL DEF Spec

(***************************************************************************)
(* Refinement of the ledger.                                               *)
(***************************************************************************)

(* A reward that is not consumed carries no ticket, in storage and in the  *)
(* snapshots that check-ins will write back.                               *)
Unticketed(state) ==
  \A rw \in Rewards : state.rewards[rw].status # "CONSUMED" => state.rewards[rw].ticket = Null

OpenRewardsUnticketed ==
  /\ \A u \in Users : userStates[u] # Null => Unticketed(userStates[u])
  /\ \A r \in Requests : snapshot[r] # Null => Unticketed(snapshot[r])

(* A ticket leaves a stored result under its key.                          *)
TicketsKeyed == \A c \in claimRecords : idempotent[IdempotencyKey(c.ticket)] # Null

(* A bucket that storage does not know yet is unlimited or untouched; one  *)
(* it knows lacks exactly the tickets drawn from it.                       *)
StockTracksTickets ==
  \A key \in StockKeys :
    IF stocks[key] = Null
    THEN SeedStock[key] = Null /\ (StartLevel(key) # Null => DrawnFrom(key) = {})
    ELSE StartLevel(key) # Null /\ stocks[key] + Cardinality(DrawnFrom(key)) = StartLevel(key)

LedgerInv ==
  /\ TypeOK /\ SnapshotTaken
  /\ IsFiniteSet(claimRecords)
  /\ OpenRewardsUnticketed
  /\ TicketsKeyed
  /\ StockTracksTickets

(* What the proof asks of the configuration.                               *)
Durable == BucketsAgree /\ RechecksKey /\ ~ResultsExpire

LEMMA StartLevelAgrees ==
  ASSUME BucketsAgree, NEW rw \in Rewards, NEW key \in Buckets(rw), SeedStock[key] = Null
  PROVE  StartLevel(key) = InitialLevel(rw, key)
<1>1. \A w \in Rewards : key \in Buckets(w) => InitialLevel(w, key) = InitialLevel(rw, key)
  BY DEF BucketsAgree
<1>2. StartLevels(key) = {InitialLevel(rw, key)} \ {Null}
  BY <1>1 DEF StartLevels
<1> QED
  BY <1>2 DEF StartLevel

LEMMA StartLevelType ==
  ASSUME NEW key \in StockKeys
  PROVE  StartLevel(key) \in OptionalNat
<1>1. \A level \in StartLevels(key) : level \in OptionalNat
  BY PlanType, CallAssumption DEF StartLevels
<1> QED
  BY <1>1 DEF StartLevel, OptionalNat

LEMMA SeedLevel ==
  ASSUME NEW key \in StockKeys, SeedStock[key] # Null
  PROVE  StartLevel(key) = SeedStock[key]
BY DEF StartLevel, StartLevels

LEMMA ReconcileUnticketed ==
  ASSUME NEW rewards \in [Rewards -> RewardStates], NEW stamps, NEW now,
         NEW rw \in Rewards,
         rewards[rw].status # "CONSUMED" => rewards[rw].ticket = Null
  PROVE  LET reward == ReconcileRewardStates(rewards, stamps, now)[rw]
         IN  reward.status # "CONSUMED" => reward.ticket = Null
BY DEF ReconcileRewardStates, ReconcileReward, PlainReward, LockedReward

LEMMA InitialUnticketed == ASSUME NEW now PROVE Unticketed(InitialState(now))
<1>1. [rw \in Rewards |-> LockedReward] \in [Rewards -> RewardStates]
  BY DEF LockedReward, PlainReward, RewardStates, RewardStatus
<1>2. \A rw \in Rewards : [w \in Rewards |-> LockedReward][rw].ticket = Null
  BY DEF LockedReward, PlainReward
<1> QED
  BY <1>1, <1>2, ReconcileUnticketed DEF InitialState, Unticketed

LEMMA StateOfUnticketed ==
  ASSUME OpenRewardsUnticketed, NEW u \in Users, NEW now
  PROVE  Unticketed(StateOf(u, now))
BY InitialUnticketed DEF StateOf, OpenRewardsUnticketed

LEMMA StampedUnticketed ==
  ASSUME NEW state \in UserStates, Unticketed(state), NEW spot, NEW now
  PROVE  Unticketed(Stamped(state, spot, now))
BY ReconcileUnticketed DEF Stamped, Unticketed, UserStates

(* What a granted claim leaves in the reward it was for.                   *)
LEMMA GrantedTicket ==
  ASSUME TypeOK, OpenRewardsUnticketed, NEW r \in Claims, CodeAt(r) = "OK"
  PROVE  \/ ConsumedAt(r).status = "CONSUMED" /\ ConsumedAt(r).ticket = r
         \/ ConsumedAt(r).status # "CONSUMED" /\ ConsumedAt(r).ticket = Null
<1>1. r \in Requests /\ Call[r].user \in Users /\ Call[r].resource \in Rewards
  BY KeyTypes DEF Claims
<1> DEFINE rw == Call[r].resource
<1>2. CurrentAt(r).status = "AVAILABLE"
  BY DEF CodeAt, ClaimCode, ConsumeError
<1>3. CASE RewardDef[rw].redemptionMethod = "view_only"
  <2>1. CurrentAt(r) = StateAt(r).rewards[rw]
    BY <1>3 DEF CurrentAt, Claimable
  <2>2. Unticketed(StateAt(r))
    BY <1>1, StateOfUnticketed DEF StateAt
  <2>3. CurrentAt(r).ticket = Null
    BY <1>1, <1>2, <2>1, <2>2 DEF Unticketed
  <2>4. ConsumedAt(r) = CurrentAt(r)
    BY <1>3 DEF ConsumedAt, ConsumedReward
  <2> QED
    BY <1>2, <2>3, <2>4
<1>4. CASE RewardDef[rw].redemptionMethod # "view_only"
  BY <1>4 DEF ConsumedAt, ConsumedReward
<1> QED
  BY <1>3, <1>4

LEMMA InitLedgerInv == Init => LedgerInv
<1> SUFFICES ASSUME Init PROVE LedgerInv
  OBVIOUS
<1>1. TypeOK /\ SnapshotTaken
  BY InitType DEF Init, SnapshotTaken, CheckIns
<1>2. IsFiniteSet(claimRecords) /\ \A key : DrawnFrom(key) = {} /\ Cardinality(DrawnFrom(key)) = 0
  BY FS_EmptySet DEF Init, DrawnFrom
<1>3. OpenRewardsUnticketed /\ TicketsKeyed
  BY DEF Init, OpenRewardsUnticketed, TicketsKeyed
<1>4. StockTracksTickets
  <2> SUFFICES ASSUME NEW key \in StockKeys, SeedStock[key] # Null
               PROVE  stocks[key] + Cardinality(DrawnFrom(key)) = StartLevel(key)
    BY <1>2, SeedLevel DEF StockTracksTickets, Init
  <2>1. SeedStock[key] \in Nat
    BY CallAssumption DEF OptionalNat
  <2> QED
    BY <1>2, <2>1, SeedLevel DEF Init
<1> QED
  BY <1>1, <1>2, <1>3, <1>4 DEF LedgerInv

(* A step that leaves the buckets, the records and the rewards alone and   *)
(* forgets no result.                                                      *)
LEMMA QuietStep ==
  ASSUME LedgerInv, TypeOK', SnapshotTaken',
         UNCHANGED <<userStates, snapshot, stocks, claimRecords>>,
         \A k \in IdempotencyKeys : idempotent[k] # Null => idempotent'[k] # Null
  PROVE  LedgerInv'
<1>1. TicketsKeyed'
  <2> SUFFICES ASSUME NEW c \in claimRecords PROVE idempotent'[IdempotencyKey(c.ticket)] # Null
    BY DEF TicketsKeyed
  <2>1. IdempotencyKey(c.ticket) \in IdempotencyKeys
    BY KeyTypes, CallAssumption DEF LedgerInv, TypeOK, ClaimRecords
  <2> QED
    BY <2>1 DEF LedgerInv, TicketsKeyed
<1>2. OpenRewardsUnticketed'
  BY DEF LedgerInv, OpenRewardsUnticketed
<1>3. StockTracksTickets' /\ IsFiniteSet(claimRecords)'
  BY DEF LedgerInv, StockTracksTickets, DrawnFrom
<1> QED
  BY <1>1, <1>2, <1>3 DEF LedgerInv

LEMMA ReadLedgerInv ==
  ASSUME LedgerInv, TypeOK', SnapshotTaken', NEW r \in Requests, ReadUserState(r)
  PROVE  LedgerInv'
<1>1. UNCHANGED <<userStates, stocks, claimRecords, idempotent>>
  BY DEF ReadUserState, store
<1>2. OpenRewardsUnticketed'
  <2>1. Unticketed(StateOf(Call[r].user, startedAt[r]))
    BY KeyTypes, StateOfUnticketed DEF LedgerInv
  <2>2. snapshot' = [snapshot EXCEPT ![r] = StateOf(Call[r].user, startedAt[r])]
    BY DEF ReadUserState
  <2> QED
    BY <1>1, <2>1, <2>2 DEF OpenRewardsUnticketed, LedgerInv, TypeOK
<1> QED
  BY <1>1, <1>2 DEF LedgerInv, TicketsKeyed, StockTracksTickets, DrawnFrom

LEMMA CommitCheckInLedgerInv ==
  ASSUME LedgerInv, TypeOK', SnapshotTaken', NEW r \in Requests, CommitCheckIn(r)
  PROVE  LedgerInv'
<1>1. r \in CheckIns /\ pc[r] = "ready" /\ UNCHANGED <<stocks, claimRecords, snapshot>>
  BY DEF CommitCheckIn, RefuseCheckIn
<1>2. snapshot[r] \in UserStates /\ Unticketed(snapshot[r])
  BY <1>1 DEF LedgerInv, SnapshotTaken, TypeOK, OpenRewardsUnticketed
<1>3. Unticketed(StateAfterCheckIn(r))
  BY <1>2, StampedUnticketed DEF StateAfterCheckIn
<1>4. OpenRewardsUnticketed'
  BY <1>1, <1>3 DEF CommitCheckIn, RefuseCheckIn, OpenRewardsUnticketed, LedgerInv, TypeOK
<1>5. Plain(CheckInCode(r)) # Null
  BY CodeTypes, PlainType, NullIsNoResult
<1>6. TicketsKeyed'
  BY <1>1, <1>5, KeyTypes, CallAssumption
     DEF CommitCheckIn, RefuseCheckIn, TicketsKeyed, LedgerInv, TypeOK, ClaimRecords
<1> QED
  BY <1>1, <1>4, <1>6 DEF LedgerInv, StockTracksTickets, DrawnFrom

(* The record a claim that is granted a ticket adds.                       *)
RecordOf(r) == [user |-> Call[r].user, reward |-> Call[r].resource, ticket |-> r]

(* The three outcomes of a claim: refused, granted without a ticket        *)
(* (view_only), and granted with one.                                      *)
LEMMA ClaimOutcomes ==
  ASSUME LedgerInv, RechecksKey, NEW r \in Requests, CommitClaim(r)
  PROVE  /\ r \in Claims
         /\ StoredResult(r) = Null
         /\ \/ /\ CodeAt(r) # "OK"
               /\ UNCHANGED <<userStates, stocks, claimRecords>>
            \/ /\ CodeAt(r) = "OK" /\ ConsumedAt(r).ticket = Null
               /\ stocks' = StocksAfter(Call[r].resource, FALSE)
               /\ UNCHANGED claimRecords
            \/ /\ CodeAt(r) = "OK" /\ ConsumedAt(r).ticket = r
               /\ stocks' = StocksAfter(Call[r].resource, TRUE)
               /\ claimRecords' = claimRecords \union {RecordOf(r)}
<1>1. TypeOK /\ OpenRewardsUnticketed
  BY DEF LedgerInv
<1>2. r \in Claims /\ StoredResult(r) = Null
  BY <1>1, ClaimFacts DEF ResultInTransaction
<1>3. CASE CodeAt(r) # "OK"
  BY <1>1, <1>2, <1>3, ClaimFacts
<1>4. CASE CodeAt(r) = "OK" /\ ConsumedAt(r).ticket = Null
  <2>1. (ConsumedAt(r).ticket # Null) = FALSE
    BY <1>4
  <2>2. stocks' = StocksAfter(Call[r].resource, FALSE)
    BY <1>1, <1>4, <2>1, ClaimFacts
  <2>3. claimRecords' = claimRecords
    <3>1. {[user |-> Call[r].user, reward |-> Call[r].resource, ticket |-> t] :
              t \in {ConsumedAt(r).ticket} \ {Null}} = {}
      BY <1>4
    <3> QED
      BY <1>1, <1>4, <3>1, ClaimFacts
  <2> QED
    BY <1>2, <1>4, <2>2, <2>3
<1>5. CASE CodeAt(r) = "OK" /\ ConsumedAt(r).ticket = r
  <2>1. r # Null
    BY NullAssumption, KeyTypes
  <2>2. (ConsumedAt(r).ticket # Null) = TRUE
    BY <1>5, <2>1
  <2>3. stocks' = StocksAfter(Call[r].resource, TRUE)
    BY <1>1, <1>5, <2>2, ClaimFacts
  <2>4. claimRecords' = claimRecords \union {RecordOf(r)}
    <3>1. {[user |-> Call[r].user, reward |-> Call[r].resource, ticket |-> t] :
              t \in {ConsumedAt(r).ticket} \ {Null}} = {RecordOf(r)}
      BY <1>5, <2>1 DEF RecordOf
    <3> QED
      BY <1>1, <1>5, <3>1, ClaimFacts
  <2> QED
    BY <1>2, <1>5, <2>3, <2>4
<1>6. CodeAt(r) = "OK" => ConsumedAt(r).ticket \in {r, Null}
  BY <1>1, <1>2, GrantedTicket
<1> QED
  BY <1>3, <1>4, <1>5, <1>6

(* A key without a stored result has issued no ticket.                     *)
LEMMA FreshKey ==
  ASSUME LedgerInv, NEW r \in Requests, StoredResult(r) = Null, NEW c \in claimRecords
  PROVE  IdempotencyKey(c.ticket) # IdempotencyKey(r) /\ c.ticket # r
BY DEF LedgerInv, TicketsKeyed, StoredResult

LEMMA DrawnFinite ==
  ASSUME IsFiniteSet(claimRecords), NEW key
  PROVE  IsFiniteSet(DrawnFrom(key)) /\ Cardinality(DrawnFrom(key)) \in Nat
<1>1. DrawnFrom(key) \subseteq claimRecords
  BY DEF DrawnFrom
<1> QED
  BY <1>1, FS_Subset, FS_CardinalityType

(* How the level of a bucket that a claim may draw from relates to its     *)
(* start.                                                                  *)
LEMMA LevelTracksTickets ==
  ASSUME LedgerInv, BucketsAgree, NEW rw \in Rewards, NEW key \in Buckets(rw)
  PROVE  /\ LevelOf(rw, key) = Null <=> StartLevel(key) = Null
         /\ LevelOf(rw, key) # Null =>
              LevelOf(rw, key) + Cardinality(DrawnFrom(key)) = StartLevel(key)
<1>1. key \in StockKeys
  BY PlanType
<1>2. CASE stocks[key] # Null
  BY <1>1, <1>2 DEF LedgerInv, StockTracksTickets, LevelOf, OrElse
<1>3. CASE stocks[key] = Null
  <2>1. SeedStock[key] = Null
    BY <1>1, <1>3 DEF LedgerInv, StockTracksTickets
  <2>2. LevelOf(rw, key) = StartLevel(key)
    BY <1>3, <2>1, StartLevelAgrees DEF LevelOf, OrElse
  <2>3. StartLevel(key) # Null => StartLevel(key) \in Nat /\ DrawnFrom(key) = {}
    BY <1>1, <1>3, StartLevelType DEF LedgerInv, StockTracksTickets, OptionalNat
  <2> QED
    BY <2>2, <2>3, FS_EmptySet
<1> QED
  BY <1>2, <1>3

LEMMA CommitClaimUnticketed ==
  ASSUME LedgerInv, NEW r \in Requests, CommitClaim(r)
  PROVE  OpenRewardsUnticketed'
<1> DEFINE u == Call[r].user
           rw == Call[r].resource
           after == [StateAt(r) EXCEPT !.rewards[rw] = ConsumedAt(r)]
<1>1. r \in Claims /\ u \in Users /\ rw \in Rewards /\ TypeOK /\ OpenRewardsUnticketed
  BY ClaimFacts, KeyTypes DEF LedgerInv
<1>2. snapshot' = snapshot
  BY <1>1, ClaimFacts
<1>3. CASE CodeAt(r) # "OK"
  <2>1. userStates' = userStates
    BY <1>1, <1>3, ClaimFacts
  <2> QED
    BY <1>1, <1>2, <2>1 DEF OpenRewardsUnticketed
<1>4. CASE CodeAt(r) = "OK"
  <2>1. StateAt(r) \in UserStates /\ Unticketed(StateAt(r))
    BY <1>1, ClaimTypes, StateOfUnticketed DEF StateAt
  <2>2. ConsumedAt(r).status # "CONSUMED" => ConsumedAt(r).ticket = Null
    BY <1>1, <1>4, GrantedTicket
  <2>3. Unticketed(after)
    BY <1>1, <2>1, <2>2 DEF Unticketed, UserStates
  <2>4. userStates' = [userStates EXCEPT ![u] = after]
    BY <1>1, <1>4, ClaimFacts
  <2> QED
    BY <1>1, <1>2, <2>3, <2>4 DEF OpenRewardsUnticketed, TypeOK
<1> QED
  BY <1>3, <1>4

LEMMA CommitClaimKeyed ==
  ASSUME LedgerInv, RechecksKey, NEW r \in Requests, CommitClaim(r)
  PROVE  TicketsKeyed'
<1> SUFFICES ASSUME NEW c \in claimRecords' PROVE idempotent'[IdempotencyKey(c.ticket)] # Null
  BY DEF TicketsKeyed
<1>1. TypeOK /\ r \in Claims /\ IdempotencyKey(r) \in IdempotencyKeys
  BY ClaimFacts, KeyTypes DEF LedgerInv
<1>2. idempotent' = [idempotent EXCEPT ![IdempotencyKey(r)] = ResultAt(r)]
  BY <1>1, ClaimFacts
<1>3. ResultAt(r) # Null
  BY <1>1, ClaimTypes, NullIsNoResult
<1>4. CASE c \in claimRecords
  <2>1. c.ticket \in Requests
    BY <1>1, <1>4, CallAssumption DEF TypeOK, ClaimRecords
  <2>2. IdempotencyKey(c.ticket) \in IdempotencyKeys /\ idempotent[IdempotencyKey(c.ticket)] # Null
    BY <1>4, <2>1, KeyTypes DEF LedgerInv, TicketsKeyed
  <2> QED
    BY <1>1, <1>2, <1>3, <2>2 DEF TypeOK
<1>5. CASE c = RecordOf(r)
  BY <1>1, <1>2, <1>3, <1>5 DEF RecordOf, TypeOK
<1> QED
  BY <1>4, <1>5, ClaimOutcomes

(* The heart of the matter: a claim takes one unit from exactly the        *)
(* buckets its ticket counts against.                                      *)
LEMMA CommitClaimStock ==
  ASSUME LedgerInv, Durable, NEW r \in Requests, CommitClaim(r)
  PROVE  StockTracksTickets'
<1> DEFINE rw == Call[r].resource
<1>1. /\ r \in Claims /\ rw \in Rewards /\ StoredResult(r) = Null
      /\ TypeOK /\ IsFiniteSet(claimRecords) /\ BucketsAgree /\ RechecksKey
  BY ClaimOutcomes, KeyTypes DEF LedgerInv, Durable
<1> SUFFICES ASSUME NEW key \in StockKeys
             PROVE  IF stocks'[key] = Null
                    THEN SeedStock[key] = Null /\ (StartLevel(key) # Null => DrawnFrom(key)' = {})
                    ELSE /\ StartLevel(key) # Null
                         /\ stocks'[key] + Cardinality(DrawnFrom(key)') = StartLevel(key)
  BY DEF StockTracksTickets
<1>2. IF stocks[key] = Null
      THEN SeedStock[key] = Null /\ (StartLevel(key) # Null => DrawnFrom(key) = {})
      ELSE StartLevel(key) # Null /\ stocks[key] + Cardinality(DrawnFrom(key)) = StartLevel(key)
  BY DEF LedgerInv, StockTracksTickets
<1>3. CASE stocks'[key] = stocks[key] /\ DrawnFrom(key)' = DrawnFrom(key)
  BY <1>2, <1>3
<1>4. CASE CodeAt(r) # "OK"
  BY <1>1, <1>3, <1>4, ClaimOutcomes DEF DrawnFrom
<1>5. CASE key \notin Buckets(rw) /\ CodeAt(r) = "OK"
  <2>1. stocks'[key] = stocks[key]
    BY <1>1, <1>5, ClaimOutcomes DEF StocksAfter
  <2>2. DrawnFrom(key)' = DrawnFrom(key)
    <3>1. claimRecords' = claimRecords \/ claimRecords' = claimRecords \union {RecordOf(r)}
      BY <1>1, <1>5, ClaimOutcomes
    <3>2. RecordOf(r).reward = rw
      BY DEF RecordOf
    <3> QED
      BY <1>5, <3>1, <3>2 DEF DrawnFrom
  <2> QED
    BY <1>3, <2>1, <2>2
<1>6. CASE key \in Buckets(rw) /\ CodeAt(r) = "OK"
  <2>1. /\ LevelOf(rw, key) = Null <=> StartLevel(key) = Null
        /\ LevelOf(rw, key) # Null =>
             LevelOf(rw, key) + Cardinality(DrawnFrom(key)) = StartLevel(key)
    BY <1>1, <1>6, LevelTracksTickets
  <2>2. LevelOf(rw, key) # Null => LevelOf(rw, key) \in Nat /\ LevelOf(rw, key) > 0
    BY <1>1, <1>6, GrantedInStock, InStock
  <2>3. Cardinality(DrawnFrom(key)) \in Nat
    BY <1>1, DrawnFinite
  <2>4. LevelOf(rw, key) = Null => SeedStock[key] = Null
    BY <1>2 DEF LevelOf, OrElse
  <2>5. CASE ConsumedAt(r).ticket = Null
    <3>1. r # Null
      BY NullAssumption, KeyTypes
    <3>2. stocks' = StocksAfter(rw, FALSE)
      BY <1>1, <1>6, <2>5, <3>1, ClaimOutcomes
    <3>3. claimRecords' = claimRecords
      BY <1>1, <1>6, <2>5, <3>1, ClaimOutcomes
    <3>4. DrawnFrom(key)' = DrawnFrom(key)
      BY <3>3 DEF DrawnFrom
    <3>5. stocks'[key] = LevelOf(rw, key)
      BY <1>6, <3>2 DEF StocksAfter, LevelOf
    <3> QED
      BY <2>1, <2>4, <3>4, <3>5
  <2>6. CASE ConsumedAt(r).ticket # Null
    <3>1. stocks' = StocksAfter(rw, TRUE) /\ claimRecords' = claimRecords \union {RecordOf(r)}
      BY <1>1, <1>6, <2>6, ClaimOutcomes
    <3>2. stocks'[key] = IF LevelOf(rw, key) # Null THEN LevelOf(rw, key) - 1 ELSE Null
      BY <1>6, <3>1 DEF StocksAfter, LevelOf
    <3>3. DrawnFrom(key)' = DrawnFrom(key) \union {RecordOf(r)}
      BY <1>6, <3>1 DEF DrawnFrom, RecordOf
    <3>4. RecordOf(r) \notin DrawnFrom(key)
      BY <1>1, FreshKey DEF DrawnFrom, RecordOf
    <3>5. Cardinality(DrawnFrom(key)') = Cardinality(DrawnFrom(key)) + 1
      BY <1>1, <3>3, <3>4, DrawnFinite, FS_AddElement
    <3>6. CASE LevelOf(rw, key) = Null
      BY <2>1, <2>4, <3>2, <3>6
    <3>7. CASE LevelOf(rw, key) # Null
      <4>1. stocks'[key] = LevelOf(rw, key) - 1 /\ stocks'[key] \in Nat
        BY <2>2, <3>2, <3>7
      <4>2. stocks'[key] # Null /\ StartLevel(key) # Null
        BY <2>1, <3>7, <4>1, NullAssumption
      <4> QED
        BY <2>1, <2>2, <2>3, <3>5, <3>7, <4>1, <4>2
    <3> QED
      BY <3>6, <3>7
  <2> QED
    BY <2>5, <2>6
<1> QED
  BY <1>4, <1>5, <1>6

LEMMA CommitClaimLedgerInv ==
  ASSUME LedgerInv, Durable, TypeOK', SnapshotTaken', NEW r \in Requests, CommitClaim(r)
  PROVE  LedgerInv'
<1>1. RechecksKey
  BY DEF Durable
<1>2. IsFiniteSet(claimRecords)'
  <2>1. claimRecords' = claimRecords \/ claimRecords' = claimRecords \union {RecordOf(r)}
    BY <1>1, ClaimOutcomes
  <2>2. IsFiniteSet(claimRecords \union {RecordOf(r)}) /\ IsFiniteSet(claimRecords)
    BY FS_AddElement DEF LedgerInv
  <2> QED
    BY <2>1, <2>2
<1> QED
  BY <1>1, <1>2, CommitClaimUnticketed, CommitClaimKeyed, CommitClaimStock DEF LedgerInv

LEMMA StepLedgerInv == Durable /\ LedgerInv /\ [Next]_vars => LedgerInv'
<1> SUFFICES ASSUME Durable, LedgerInv, [Next]_vars PROVE LedgerInv'
  OBVIOUS
<1>1. TypeOK' /\ SnapshotTaken'
  BY StepType, StepSnapshot DEF LedgerInv
<1>2. CASE UNCHANGED <<store, snapshot>>
  BY <1>1, <1>2, QuietStep DEF store
<1>3. CASE UNCHANGED vars
  BY <1>2, <1>3 DEF vars, handlers
<1>4. ASSUME NEW r \in Requests, HandlerStep(r) \/ StorageFails(r) \/ Crash(r)
      PROVE  LedgerInv'
  <2>1. CASE LookUpResult(r) \/ AcquireLock(r) \/ LockConflict(r) \/ ReleaseLock(r)
    BY <1>2, <2>1 DEF LookUpResult, AcquireLock, LockConflict, ReleaseLock
  <2>2. CASE RecheckResult(r) \/ ClaimAlreadyStored(r) \/ StorageFails(r) \/ Crash(r)
    BY <1>2, <2>2 DEF RecheckResult, ClaimAlreadyStored, StorageFails, Crash
  <2>3. CASE ReadUserState(r)
    BY <1>1, <2>3, ReadLedgerInv
  <2>4. CASE CommitCheckIn(r)
    BY <1>1, <2>4, CommitCheckInLedgerInv
  <2>5. CASE CommitClaim(r)
    BY <1>1, <2>5, CommitClaimLedgerInv
  <2> QED
    BY <1>4, <2>1, <2>2, <2>3, <2>4, <2>5 DEF HandlerStep
<1>5. CASE Tick \/ \E lock \in locks : LeaseExpires(lock)
  BY <1>2, <1>5 DEF Tick, LeaseExpires, handlers
<1>6. CASE \E k \in IdempotencyKeys : ResultLapses(k)
  BY <1>6 DEF ResultLapses, Durable
<1> QED
  BY <1>3, <1>4, <1>5, <1>6 DEF Next

LEMMA LedgerCounts == \A S : Ledger!Cardinality(S) = Cardinality(S)
BY DEF Ledger!Cardinality, Cardinality

(* A claim that is granted a ticket is a step of the ledger.               *)
LEMMA GrantIssues ==
  ASSUME LedgerInv, Durable, NEW r \in Requests, CommitClaim(r),
         claimRecords' # claimRecords
  PROVE  Ledger!Issue(Call[r].user, Call[r].resource, r)
<1> DEFINE u == Call[r].user
           rw == Call[r].resource
<1>1. /\ r \in Claims /\ rw \in Rewards /\ u \in Users /\ TypeOK /\ IsFiniteSet(claimRecords)
      /\ StoredResult(r) = Null /\ CodeAt(r) = "OK" /\ BucketsAgree
      /\ claimRecords' = claimRecords \union {RecordOf(r)}
  BY ClaimOutcomes, KeyTypes DEF LedgerInv, Durable
<1>2. \A c \in claimRecords : c.ticket \in Requests /\ c.reward \in Rewards
  BY <1>1, CallAssumption DEF TypeOK, ClaimRecords
<1>3. \A c \in claimRecords :
        TicketKeys[c.ticket] # TicketKeys[r]
  BY <1>1, <1>2, FreshKey DEF TicketKeys
<1>4. ASSUME NEW b \in Buckets(rw)
      PROVE  StartLevel(b) # Null => Cardinality(DrawnFrom(b)) < StartLevel(b)
  <2>1. LevelOf(rw, b) # Null => LevelOf(rw, b) \in Nat /\ LevelOf(rw, b) > 0
    BY <1>1, GrantedInStock, InStock
  <2>2. /\ LevelOf(rw, b) = Null <=> StartLevel(b) = Null
        /\ LevelOf(rw, b) # Null => LevelOf(rw, b) + Cardinality(DrawnFrom(b)) = StartLevel(b)
    BY <1>1, LevelTracksTickets
  <2>3. Cardinality(DrawnFrom(b)) \in Nat
    BY <1>1, DrawnFinite
  <2> QED
    BY <2>1, <2>2, <2>3
<1>5. ASSUME NEW b \in Buckets(rw)
      PROVE  /\ Ledger!DrawnFrom(b) = DrawnFrom(b)
             /\ BucketLevels[b] = StartLevel(b)
  <2>1. b \in StockKeys
    BY <1>1, PlanType
  <2> QED
    BY <1>1, <1>2, <2>1 DEF Ledger!DrawnFrom, DrawnFrom, RewardDraws, BucketLevels
<1>6. /\ ~Reached(RewardDef[rw].userClaimLimit, Cardinality(ClaimsOf(u, rw)))
      /\ Ledger!OwnedBy(u, rw) = ClaimsOf(u, rw)
  BY <1>1 DEF CodeAt, ClaimCode, ConsumeError, CountAt, ClaimsOf, Ledger!OwnedBy
<1>7. Cardinality(ClaimsOf(u, rw)) \in Nat
  <2>1. ClaimsOf(u, rw) \subseteq claimRecords
    BY DEF ClaimsOf
  <2> QED
    BY <1>1, <2>1, FS_Subset, FS_CardinalityType
<1>8. RewardDef[rw].userClaimLimit \in OptionalNat
  BY <1>1, RewardsAssumption
<1>9. RewardDef[rw].userClaimLimit # Null =>
        Cardinality(ClaimsOf(u, rw)) < RewardDef[rw].userClaimLimit
  BY <1>6, <1>7, <1>8 DEF Reached, OptionalNat
<1>10. ASSUME NEW b \in Buckets(rw)
       PROVE  Ledger!Below(BucketLevels[b], Ledger!DrawnFrom(b))
  <2>1. StartLevel(b) # Null => Cardinality(DrawnFrom(b)) < StartLevel(b)
    BY <1>4
  <2>2. Ledger!Below(StartLevel(b), DrawnFrom(b))
    BY <2>1, LedgerCounts DEF Ledger!Below
  <2>3. /\ Ledger!DrawnFrom(b) = DrawnFrom(b)
        /\ BucketLevels[b] = StartLevel(b)
    BY <1>5
  <2> QED
    BY <2>2, <2>3
<1>11. Ledger!Below(UserLimits[rw], Ledger!OwnedBy(u, rw))
  <2>1. Ledger!Below(RewardDef[rw].userClaimLimit, ClaimsOf(u, rw))
    BY <1>9, LedgerCounts DEF Ledger!Below
  <2>2. UserLimits[rw] = RewardDef[rw].userClaimLimit
    BY <1>1 DEF UserLimits
  <2> QED
    BY <1>6, <2>1, <2>2
<1>12. RewardDraws[rw] = Buckets(rw)
  BY <1>1 DEF RewardDraws
<1> QED
  BY <1>1, <1>3, <1>10, <1>11, <1>12 DEF Ledger!Issue, RecordOf

LEMMA StepIssues ==
  Durable /\ LedgerInv /\ [Next]_vars => [Ledger!Next]_claimRecords
<1> SUFFICES ASSUME Durable, LedgerInv, Next, claimRecords' # claimRecords PROVE Ledger!Next
  BY DEF vars, store
<1>1. PICK r \in Requests : CommitClaim(r)
  BY DEF Next, HandlerStep, LookUpResult, AcquireLock, LockConflict, ReleaseLock, ReadUserState,
     CommitCheckIn, RefuseCheckIn, RecheckResult, ClaimAlreadyStored, StorageFails, Crash, LeaseExpires,
     ResultLapses, Tick, store
<1>2. Ledger!Issue(Call[r].user, Call[r].resource, r)
  BY <1>1, GrantIssues
<1>3. Call[r].user \in Users /\ Call[r].resource \in Rewards /\ r \in Tickets
  BY <1>1, ClaimOutcomes, KeyTypes DEF Durable
<1> QED
  BY <1>2, <1>3 DEF Ledger!Next

LEMMA LedgerInvariant == ASSUME Durable PROVE Spec => []LedgerInv
<1>1. Init => LedgerInv
  BY InitLedgerInv
<1>2. LedgerInv /\ [Next]_vars => LedgerInv'
  BY StepLedgerInv
<1> QED
  BY <1>1, <1>2, PTL DEF Spec

(* Whatever claims run at once, are repeated, fail half way or outlive     *)
(* their lock, the tickets the server issues are issued as the ledger      *)
(* allows.                                                                 *)
THEOREM ServerImplementsLedger == ASSUME Durable PROVE Spec => ImplementsLedger
<1>1. Init => Ledger!Init
  BY DEF Init, Ledger!Init
<1>2. LedgerInv /\ [Next]_vars => [Ledger!Next]_claimRecords
  BY StepIssues
<1> QED
  BY <1>1, <1>2, LedgerInvariant, PTL DEF Spec, ImplementsLedger, Ledger!Spec

(* What is left in a bucket and what was drawn from it add up.             *)
THEOREM StockNeverLeaks == ASSUME Durable PROVE Spec => []StockConserved
<1>1. LedgerInv => StockConserved
  <2> SUFFICES ASSUME LedgerInv, NEW key \in StockKeys, stocks[key] # Null
               PROVE  \E level \in StartLevels(key) :
                        stocks[key] + Cardinality(DrawnFrom(key)) = level
    BY DEF StockConserved
  <2>1. StartLevel(key) # Null /\ stocks[key] + Cardinality(DrawnFrom(key)) = StartLevel(key)
    BY DEF LedgerInv, StockTracksTickets
  <2>2. StartLevel(key) \in StartLevels(key)
    BY <2>1 DEF StartLevel
  <2> QED
    BY <2>1, <2>2
<1> QED
  BY <1>1, LedgerInvariant, PTL


(***************************************************************************)
(* The user states.                                                        *)
(***************************************************************************)

(* Every stamp has its prerequisites.                                      *)
Closed(state) == \A s \in state.stamps : SpotDef[s].prerequisites \subseteq state.stamps

(* What is open or consumed, the stamps unlock.                            *)
Earned(state) ==
  \A rw \in Rewards :
    state.rewards[rw].status \in {"AVAILABLE", "CONSUMED"} => UnlockConditionMet(rw, state.stamps)

(* What is consumed was recorded for user u.                               *)
Recorded(u, state) ==
  \A rw \in Rewards :
    state.rewards[rw].status = "CONSUMED" =>
      [user |-> u, reward |-> rw, ticket |-> state.rewards[rw].ticket] \in claimRecords

Sound(u, state) == Unticketed(state) /\ Closed(state) /\ Earned(state) /\ Recorded(u, state)

(* The stored states are sound, and so are the snapshots that check-ins    *)
(* will write back.                                                        *)
StatesSound ==
  /\ \A u \in Users : userStates[u] # Null => Sound(u, userStates[u])
  /\ \A r \in Requests : snapshot[r] # Null => Sound(Call[r].user, snapshot[r])

StateInv == TypeOK /\ SnapshotTaken /\ StatesSound

(* More stamps unlock at least as much.                                    *)
LEMMA UnlockMonotone ==
  ASSUME NEW rw \in Rewards, NEW few \in SUBSET Spots, NEW many \in SUBSET Spots,
         few \subseteq many, UnlockConditionMet(rw, few)
  PROVE  UnlockConditionMet(rw, many)
<1>1. IsFiniteSet(many)
  BY SpotsAssumption, FS_Subset
<1>2. /\ IsFiniteSet(few)
      /\ Cardinality(few) <= Cardinality(many)
      /\ Cardinality(few) \in Nat /\ Cardinality(many) \in Nat
  BY <1>1, FS_Subset, FS_CardinalityType
<1>3. /\ RewardDef[rw].requiredStampCount \in Nat
      /\ \A alt \in RewardDef[rw].alternatives : alt.count \in Nat
  BY RewardsAssumption
<1>4. Cardinality(many) >= RewardDef[rw].requiredStampCount
  BY <1>2, <1>3 DEF UnlockConditionMet
<1>5. PICK alt \in RewardDef[rw].alternatives :
        Cardinality(few) >= alt.count /\ alt.stamps \subseteq few
  BY DEF UnlockConditionMet
<1>6. Cardinality(many) >= alt.count /\ alt.stamps \subseteq many
  BY <1>2, <1>3, <1>5
<1> QED
  BY <1>4, <1>6 DEF UnlockConditionMet

(* Reconciling opens only what the stamps unlock, and consumes nothing.    *)
LEMMA ReconcileFacts ==
  ASSUME NEW rewards \in [Rewards -> RewardStates], NEW stamps, NEW now, NEW rw \in Rewards
  PROVE  LET reward == ReconcileRewardStates(rewards, stamps, now)[rw]
         IN  /\ reward.status = "AVAILABLE" => UnlockConditionMet(rw, stamps)
             /\ reward.status = "CONSUMED" => reward = rewards[rw]
BY DEF ReconcileRewardStates, ReconcileReward, PlainReward, LockedReward

LEMMA InitialSound == ASSUME NEW u, NEW now PROVE Sound(u, InitialState(now))
<1> DEFINE locked == [rw \in Rewards |-> LockedReward]
<1>1. locked \in [Rewards -> RewardStates]
  BY DEF LockedReward, PlainReward, RewardStates, RewardStatus
<1>2. \A rw \in Rewards : locked[rw].status = "LOCKED"
  BY DEF LockedReward, PlainReward
<1>3. \A rw \in Rewards :
        /\ InitialState(now).rewards[rw].status # "CONSUMED"
        /\ InitialState(now).rewards[rw].status = "AVAILABLE" => UnlockConditionMet(rw, {})
  <2> HIDE DEF locked
  <2> QED
    BY <1>1, <1>2, ReconcileFacts DEF InitialState, locked
<1>4. InitialState(now).stamps = {}
  BY DEF InitialState
<1> QED
  BY <1>3, <1>4, InitialUnticketed DEF Sound, Closed, Earned, Recorded

LEMMA StateOfSound ==
  ASSUME StatesSound, NEW u \in Users, NEW now
  PROVE  Sound(u, StateOf(u, now))
BY InitialSound DEF StateOf, StatesSound

(* A stamp whose prerequisites are there keeps a state sound.              *)
LEMMA StampedSound ==
  ASSUME NEW u, NEW state \in UserStates, Sound(u, state), NEW spot \in Spots, NEW now,
         SpotDef[spot].prerequisites \subseteq state.stamps
  PROVE  Sound(u, Stamped(state, spot, now))
<1> DEFINE stamps == state.stamps \union {spot}
           rewards == ReconcileRewardStates(state.rewards, stamps, now)
<1>1. Stamped(state, spot, now) = [stamps |-> stamps, rewards |-> rewards]
  BY DEF Stamped
<1>2. /\ state.stamps \in SUBSET Spots /\ stamps \in SUBSET Spots
      /\ state.rewards \in [Rewards -> RewardStates]
  BY DEF UserStates
<1>3. Closed(Stamped(state, spot, now))
  BY <1>1 DEF Sound, Closed
<1>4. ASSUME NEW rw \in Rewards
      PROVE  /\ rewards[rw].status \in {"AVAILABLE", "CONSUMED"} => UnlockConditionMet(rw, stamps)
             /\ rewards[rw].status = "CONSUMED" => rewards[rw] = state.rewards[rw]
  <2>1. /\ rewards[rw].status = "AVAILABLE" => UnlockConditionMet(rw, stamps)
        /\ rewards[rw].status = "CONSUMED" => rewards[rw] = state.rewards[rw]
    BY <1>2, ReconcileFacts
  <2>2. state.rewards[rw].status = "CONSUMED" => UnlockConditionMet(rw, state.stamps)
    BY DEF Sound, Earned
  <2>3. UnlockConditionMet(rw, state.stamps) => UnlockConditionMet(rw, stamps)
    BY <1>2, UnlockMonotone
  <2> QED
    BY <2>1, <2>2, <2>3
<1>5. Earned(Stamped(state, spot, now)) /\ Recorded(u, Stamped(state, spot, now))
  <2> HIDE DEF rewards, stamps
  <2> QED
    BY <1>1, <1>4 DEF Earned, Recorded, Sound
<1> QED
  BY <1>3, <1>5, StampedUnticketed DEF Sound

LEMMA InitStates == Init => StateInv
BY InitType DEF Init, StateInv, SnapshotTaken, StatesSound, CheckIns

(* A step that leaves the states and the records alone.                    *)
LEMMA QuietStates ==
  ASSUME StatesSound, UNCHANGED <<userStates, snapshot, claimRecords>>
  PROVE  StatesSound'
BY DEF StatesSound, Sound, Unticketed, Closed, Earned, Recorded

LEMMA ReadStates ==
  ASSUME TypeOK, StatesSound, NEW r \in Requests, ReadUserState(r)
  PROVE  StatesSound'
<1>1. UNCHANGED <<userStates, claimRecords>>
  BY DEF ReadUserState, store
<1>2. Sound(Call[r].user, StateOf(Call[r].user, startedAt[r]))
  BY KeyTypes, StateOfSound
<1>3. snapshot' = [snapshot EXCEPT ![r] = StateOf(Call[r].user, startedAt[r])]
  BY DEF ReadUserState
<1>4. \A u, state : Sound(u, state) => Sound(u, state)'
  BY <1>1 DEF Sound, Unticketed, Closed, Earned, Recorded
<1> QED
  BY <1>1, <1>2, <1>3 DEF StatesSound, TypeOK, Sound, Unticketed, Closed, Earned, Recorded

LEMMA CommitCheckInStates ==
  ASSUME TypeOK, SnapshotTaken, StatesSound, NEW r \in Requests, CommitCheckIn(r)
  PROVE  StatesSound'
<1>1. r \in CheckIns /\ pc[r] = "ready" /\ UNCHANGED <<claimRecords, snapshot>>
  BY DEF CommitCheckIn, RefuseCheckIn
<1>2. CASE CheckInCode(r) # "OK"
  BY <1>1, <1>2, QuietStates DEF CommitCheckIn, RefuseCheckIn
<1>3. CASE CheckInCode(r) = "OK"
  <2>1. /\ snapshot[r] \in UserStates /\ Sound(Call[r].user, snapshot[r])
        /\ Call[r].user \in Users /\ Call[r].resource \in Spots
    BY <1>1, KeyTypes DEF SnapshotTaken, TypeOK, StatesSound
  <2>2. SpotDef[Call[r].resource].prerequisites \subseteq snapshot[r].stamps
    BY <1>3 DEF CheckInCode
  <2>3. Sound(Call[r].user, StateAfterCheckIn(r))
    BY <2>1, <2>2, StampedSound DEF StateAfterCheckIn
  <2>4. userStates' = [userStates EXCEPT ![Call[r].user] = StateAfterCheckIn(r)]
    BY <1>3 DEF CommitCheckIn
  <2> QED
    BY <1>1, <2>1, <2>3, <2>4
       DEF StatesSound, TypeOK, Sound, Unticketed, Closed, Earned, Recorded
<1> QED
  BY <1>2, <1>3

(* The reward a granted claim starts from: open, on the same stamps.       *)
LEMMA GrantedReward ==
  ASSUME TypeOK, StatesSound, NEW r \in Claims, CodeAt(r) = "OK"
  PROVE  /\ CurrentAt(r).status = "AVAILABLE"
         /\ UnlockConditionMet(Call[r].resource, StateAt(r).stamps)
         /\ \/ ConsumedAt(r).status = "CONSUMED" /\ ConsumedAt(r).ticket = r
            \/ ConsumedAt(r).status = "AVAILABLE" /\ ConsumedAt(r).ticket = Null
<1>1. r \in Requests /\ Call[r].user \in Users /\ Call[r].resource \in Rewards
  BY KeyTypes DEF Claims
<1>2. OpenRewardsUnticketed
  BY DEF StatesSound, OpenRewardsUnticketed, Sound
<1>3. CurrentAt(r).status = "AVAILABLE"
  BY DEF CodeAt, ClaimCode, ConsumeError
<1>4. StateAt(r).rewards[Call[r].resource].status \in {"AVAILABLE", "CONSUMED"}
  BY <1>3 DEF CurrentAt, Claimable
<1>5. Earned(StateAt(r))
  BY <1>1, StateOfSound DEF StateAt, Sound
<1>6. ConsumedAt(r).status \in {"AVAILABLE", "CONSUMED"}
  BY <1>3 DEF ConsumedAt, ConsumedReward
<1> QED
  BY <1>1, <1>2, <1>3, <1>4, <1>5, <1>6, GrantedTicket DEF Earned

(* What a claim does to the records.                                       *)
LEMMA ClaimRecordsGrow ==
  ASSUME TypeOK, StatesSound, NEW r \in Requests, CommitClaim(r)
  PROVE  /\ claimRecords \subseteq claimRecords'
         /\ claimRecords' \subseteq claimRecords \union {RecordOf(r)}
         /\ claimRecords' # claimRecords => audit' = [audit EXCEPT ![r] = "SUCCESS"]
         /\ ResultAt(r).ticket # Null => ResultAt(r).ticket = r /\ RecordOf(r) \in claimRecords'
         /\ CodeAt(r) = "OK" /\ ConsumedAt(r).status = "CONSUMED" => RecordOf(r) \in claimRecords'
<1>1. r \in Claims
  BY ClaimFacts
<1>2. CASE CodeAt(r) # "OK"
  <2>1. claimRecords' = claimRecords
    BY <1>2, ClaimFacts
  <2>2. ResultAt(r).ticket = Null
    BY <1>2 DEF ResultAt
  <2> QED
    BY <1>2, <2>1, <2>2
<1>3. CASE CodeAt(r) = "OK"
  <2>1. /\ claimRecords' = claimRecords \union
              {[user |-> Call[r].user, reward |-> Call[r].resource, ticket |-> t] :
                 t \in {ConsumedAt(r).ticket} \ {Null}}
        /\ audit' = [audit EXCEPT ![r] = "SUCCESS"]
    BY <1>3, ClaimFacts
  <2>2. ResultAt(r).ticket = ConsumedAt(r).ticket
    BY <1>3 DEF ResultAt
  <2>3. r # Null
    BY NullAssumption, KeyTypes
  <2>4. CASE ConsumedAt(r).ticket = r
    <3>1. {[user |-> Call[r].user, reward |-> Call[r].resource, ticket |-> t] :
              t \in {ConsumedAt(r).ticket} \ {Null}} = {RecordOf(r)}
      BY <2>3, <2>4 DEF RecordOf
    <3> QED
      BY <2>1, <2>2, <2>4, <3>1
  <2>5. CASE ConsumedAt(r).ticket = Null /\ ConsumedAt(r).status # "CONSUMED"
    <3>1. {[user |-> Call[r].user, reward |-> Call[r].resource, ticket |-> t] :
              t \in {ConsumedAt(r).ticket} \ {Null}} = {}
      BY <2>5
    <3> QED
      BY <2>1, <2>2, <2>5, <3>1
  <2> QED
    BY <1>1, <1>3, <2>4, <2>5, GrantedReward
<1> QED
  BY <1>2, <1>3

LEMMA CommitClaimStates ==
  ASSUME TypeOK, StatesSound, NEW r \in Requests, CommitClaim(r)
  PROVE  StatesSound'
<1> DEFINE u == Call[r].user
           rw == Call[r].resource
           before == StateAt(r)
           after == [before EXCEPT !.rewards[rw] = ConsumedAt(r)]
<1>1. r \in Claims /\ u \in Users /\ rw \in Rewards /\ snapshot' = snapshot
  BY ClaimFacts, KeyTypes
<1>2. claimRecords \subseteq claimRecords'
  BY ClaimRecordsGrow
<1>3. \A v, state : Sound(v, state) => Sound(v, state)'
  BY <1>2 DEF Sound, Unticketed, Closed, Earned, Recorded
<1>4. CASE CodeAt(r) # "OK"
  <2>1. UNCHANGED <<userStates, claimRecords>>
    BY <1>4, ClaimFacts
  <2> QED
    BY <1>1, <2>1, QuietStates
<1>5. CASE CodeAt(r) = "OK"
  <2>1. /\ before \in UserStates /\ Sound(u, before)
        /\ ConsumedAt(r) \in RewardStates
    BY <1>1, ClaimTypes, StateOfSound DEF StateAt
  <2>2. /\ UnlockConditionMet(rw, before.stamps)
        /\ \/ ConsumedAt(r).status = "CONSUMED" /\ ConsumedAt(r).ticket = r
           \/ ConsumedAt(r).status = "AVAILABLE" /\ ConsumedAt(r).ticket = Null
    BY <1>1, <1>5, GrantedReward
  <2>3. /\ after.stamps = before.stamps
        /\ after.rewards[rw] = ConsumedAt(r)
        /\ \A w \in Rewards : w # rw => after.rewards[w] = before.rewards[w]
    BY <1>1, <2>1 DEF UserStates
  <2>4. ConsumedAt(r).status = "CONSUMED" => RecordOf(r) \in claimRecords'
    BY <1>5, ClaimRecordsGrow
  <2>5. /\ Unticketed(after) /\ Closed(after) /\ Earned(after)
        /\ \A w \in Rewards :
             after.rewards[w].status = "CONSUMED" =>
               [user |-> u, reward |-> w, ticket |-> after.rewards[w].ticket] \in claimRecords'
    <3> HIDE DEF after, before
    <3>1. Unticketed(after)
      BY <2>1, <2>2, <2>3 DEF Sound, Unticketed
    <3>2. Closed(after) /\ Earned(after)
      BY <2>1, <2>2, <2>3 DEF Sound, Closed, Earned
    <3>3. \A w \in Rewards :
            after.rewards[w].status = "CONSUMED" =>
              [user |-> u, reward |-> w, ticket |-> after.rewards[w].ticket] \in claimRecords'
      BY <1>2, <2>1, <2>2, <2>3, <2>4 DEF Sound, Recorded, RecordOf
    <3> QED
      BY <3>1, <3>2, <3>3
  <2>6. \A state :
          /\ Unticketed(state) /\ Closed(state) /\ Earned(state)
          /\ \A w \in Rewards :
               state.rewards[w].status = "CONSUMED" =>
                 [user |-> u, reward |-> w, ticket |-> state.rewards[w].ticket] \in claimRecords'
          => Sound(u, state)'
    BY DEF Sound, Unticketed, Closed, Earned, Recorded
  <2>7. userStates' = [userStates EXCEPT ![u] = after]
    BY <1>5, ClaimFacts
  <2>8. \A v \in Users : userStates'[v] = IF v = u THEN after ELSE userStates[v]
    BY <1>1, <2>7 DEF TypeOK
  <2>9. \A v \in Users : \A state : userStates'[v] = state /\ state # Null => Sound(v, state)'
    <3> HIDE DEF after, before
    <3> QED
      BY <1>3, <2>5, <2>6, <2>8 DEF StatesSound
  <2>10. \A q \in Requests : \A state : snapshot[q] = state /\ state # Null => Sound(Call[q].user, state)'
    BY <1>3 DEF StatesSound
  <2> QED
    BY <1>1, <2>9, <2>10 DEF StatesSound, Sound, Unticketed, Closed, Earned, Recorded
<1> QED
  BY <1>4, <1>5

LEMMA StepStates == StateInv /\ [Next]_vars => StateInv'
<1> SUFFICES ASSUME StateInv, [Next]_vars PROVE StatesSound'
  BY StepType, StepSnapshot DEF StateInv
<1>1. TypeOK /\ SnapshotTaken /\ StatesSound
  BY DEF StateInv
<1>2. CASE UNCHANGED <<store, snapshot>>
  BY <1>1, <1>2, QuietStates DEF store
<1>3. CASE UNCHANGED vars
  BY <1>2, <1>3 DEF vars, handlers
<1>4. ASSUME NEW r \in Requests, HandlerStep(r) \/ StorageFails(r) \/ Crash(r)
      PROVE  StatesSound'
  <2>1. CASE LookUpResult(r) \/ AcquireLock(r) \/ LockConflict(r) \/ ReleaseLock(r)
    BY <1>2, <2>1 DEF LookUpResult, AcquireLock, LockConflict, ReleaseLock
  <2>2. CASE RecheckResult(r) \/ ClaimAlreadyStored(r) \/ StorageFails(r) \/ Crash(r)
    BY <1>2, <2>2 DEF RecheckResult, ClaimAlreadyStored, StorageFails, Crash
  <2>3. CASE ReadUserState(r)
    BY <1>1, <2>3, ReadStates
  <2>4. CASE CommitCheckIn(r)
    BY <1>1, <2>4, CommitCheckInStates
  <2>5. CASE CommitClaim(r)
    BY <1>1, <2>5, CommitClaimStates
  <2> QED
    BY <1>4, <2>1, <2>2, <2>3, <2>4, <2>5 DEF HandlerStep
<1>5. CASE Tick \/ (\E lock \in locks : LeaseExpires(lock))
  BY <1>2, <1>5 DEF Tick, LeaseExpires, handlers
<1>6. CASE \E k \in IdempotencyKeys : ResultLapses(k)
  BY <1>1, <1>6, QuietStates DEF ResultLapses, handlers
<1> QED
  BY <1>3, <1>4, <1>5, <1>6 DEF Next

LEMMA StatesInvariant == Spec => []StateInv
BY InitStates, StepStates, PTL DEF Spec

LEMMA SoundStates ==
  StateInv => PrerequisitesClosed /\ UnlockedRewardsEarned /\ ConsumedHasRecord
BY DEF StateInv, StatesSound, Sound, Closed, Earned, Recorded,
       PrerequisitesClosed, UnlockedRewardsEarned, ConsumedHasRecord

(* No stamp is stored without its prerequisites, whatever check-ins of a   *)
(* user run at once on snapshots, fail or outlive their lock.              *)
THEOREM StampsNeedPrerequisites == Spec => []PrerequisitesClosed
BY StatesInvariant, SoundStates, PTL

(* A stored reward is open or consumed only on stamps that unlock it.      *)
THEOREM RewardsAreEarned == Spec => []UnlockedRewardsEarned
BY StatesInvariant, SoundStates, PTL

(* A stored reward is consumed only with a ticket the server issued for it *)
(* to this user, although a check-in writes back rewards it read earlier.  *)
THEOREM ConsumedIsRecorded == Spec => []ConsumedHasRecord
BY StatesInvariant, SoundStates, PTL

(***************************************************************************)
(* Answers, records and the audit log.                                     *)
(***************************************************************************)

(* A ticket is of a claim that has committed, and will not again.          *)
IssuedAtCommit == \A c \in claimRecords : pc[c.ticket] \in {"releasing", "done", "crashed"}

(* A ticket went through the log.                                          *)
RecordsLogged == \A c \in claimRecords : audit[c.ticket] = "SUCCESS"

(* What a claim was told, or would be told again, was recorded.            *)
AnswersRecorded ==
  \A r \in Claims :
    \A result \in {response[r], StoredResult(r)} \ {Null} :
      result.ticket # Null =>
        [user |-> Call[r].user, reward |-> Call[r].resource, ticket |-> result.ticket]
          \in claimRecords

LogInv == StateInv /\ IssuedAtCommit /\ RecordsLogged /\ AnswersRecorded

LEMMA RecordsTyped ==
  ASSUME TypeOK, NEW c \in claimRecords
  PROVE  c.ticket \in Requests
BY CallAssumption DEF TypeOK, ClaimRecords

(* A step that logs nothing and records nothing.                           *)
LEMMA QuietRecords ==
  ASSUME LogInv, UNCHANGED <<claimRecords, audit>>
  PROVE  RecordsLogged'
BY DEF LogInv, RecordsLogged

(* No request goes back behind its commit.                                 *)
LEMMA QuietIssued ==
  ASSUME LogInv, NEW r \in Requests, NEW label, pc' = [pc EXCEPT ![r] = label],
         \/ label \in {"releasing", "done", "crashed"}
         \/ pc[r] \notin {"releasing", "done", "crashed"},
         claimRecords' = claimRecords
  PROVE  IssuedAtCommit'
<1>1. \A c \in claimRecords : c.ticket \in Requests
  BY RecordsTyped DEF LogInv, StateInv
<1> QED
  BY <1>1 DEF LogInv, StateInv, TypeOK, IssuedAtCommit

(* Answering what was stored, or without a ticket, needs no record.        *)
LEMMA QuietAnswers ==
  ASSUME LogInv, NEW r \in Requests, NEW result,
         result = Null \/ result.ticket = Null \/ result = StoredResult(r),
         response' = response \/ response' = [response EXCEPT ![r] = result],
         UNCHANGED <<claimRecords, idempotent>>
  PROVE  AnswersRecorded'
BY DEF LogInv, StateInv, TypeOK, AnswersRecorded, StoredResult, Claims

(* Two claims of one key are of one user and one reward.                   *)
LEMMA KeysTellRewards ==
  ASSUME NEW r \in Requests, NEW q \in Claims, IdempotencyKey(r) = IdempotencyKey(q)
  PROVE  r \in Claims /\ Call[r].user = Call[q].user /\ Call[r].resource = Call[q].resource
<1>1. q \in Requests /\ q \notin CheckIns
  BY DEF Claims
<1>2. Call[r].kind = Call[q].kind /\ Call[r].user = Call[q].user
  BY DEF IdempotencyKey
<1>3. r \in Claims
  BY <1>1, <1>2 DEF CheckIns, Claims
<1> QED
  BY <1>2, <1>3 DEF IdempotencyKey

LEMMA CommitCheckInLog ==
  ASSUME LogInv, NEW r \in Requests, CommitCheckIn(r)
  PROVE  IssuedAtCommit' /\ RecordsLogged' /\ AnswersRecorded'
<1>1. /\ TypeOK /\ r \in CheckIns /\ pc[r] = "ready" /\ claimRecords' = claimRecords
      /\ pc' = [pc EXCEPT ![r] = "releasing"]
      /\ idempotent' = [idempotent EXCEPT ![IdempotencyKey(r)] = Plain(CheckInCode(r))]
      /\ response' = [response EXCEPT ![r] = Plain(CheckInCode(r))]
      /\ \A q \in Requests : q # r => audit'[q] = audit[q]
  BY DEF CommitCheckIn, RefuseCheckIn, Goto, Answer, LogInv, StateInv, TypeOK
<1>2. IssuedAtCommit'
  BY <1>1, RecordsTyped DEF LogInv, IssuedAtCommit, TypeOK
<1>3. RecordsLogged'
  <2>1. \A c \in claimRecords : c.ticket \in Requests /\ c.ticket # r
    BY <1>1, RecordsTyped DEF LogInv, IssuedAtCommit
  <2> QED
    BY <1>1, <2>1 DEF LogInv, RecordsLogged
<1>4. AnswersRecorded'
  <2>1. \A q \in Claims : q # r /\ IdempotencyKey(q) # IdempotencyKey(r)
    BY <1>1, KeysTellRewards DEF Claims
  <2> QED
    BY <1>1, <2>1 DEF LogInv, AnswersRecorded, StoredResult, TypeOK, Claims
<1> QED
  BY <1>2, <1>3, <1>4

LEMMA CommitClaimLog ==
  ASSUME LogInv, NEW r \in Requests, CommitClaim(r)
  PROVE  IssuedAtCommit' /\ RecordsLogged' /\ AnswersRecorded'
<1>0. TypeOK /\ StatesSound
  BY DEF LogInv, StateInv
<1>1. /\ r \in Claims /\ pc[r] = "ready"
      /\ pc' = [pc EXCEPT ![r] = "releasing"]
      /\ idempotent' = [idempotent EXCEPT ![IdempotencyKey(r)] = ResultAt(r)]
      /\ response' = [response EXCEPT ![r] = ResultAt(r)]
      /\ audit' = [audit EXCEPT ![r] = "SUCCESS"] \/ audit' = [audit EXCEPT ![r] = "REJECTED"]
  BY <1>0, ClaimFacts
<1>2. /\ claimRecords \subseteq claimRecords'
      /\ claimRecords' \subseteq claimRecords \union {RecordOf(r)}
      /\ claimRecords' # claimRecords => audit' = [audit EXCEPT ![r] = "SUCCESS"]
      /\ ResultAt(r).ticket # Null => ResultAt(r).ticket = r /\ RecordOf(r) \in claimRecords'
  BY <1>0, ClaimRecordsGrow
<1>3. IssuedAtCommit'
  <2>1. \A c \in claimRecords : c.ticket \in Requests /\ pc'[c.ticket] \in {"releasing", "done", "crashed"}
    BY <1>0, <1>1, RecordsTyped DEF LogInv, IssuedAtCommit, TypeOK
  <2> QED
    BY <1>0, <1>1, <1>2, <2>1 DEF IssuedAtCommit, RecordOf, TypeOK
<1>4. RecordsLogged'
  <2>1. \A c \in claimRecords : c.ticket \in Requests /\ c.ticket # r
    BY <1>0, <1>1, RecordsTyped DEF LogInv, IssuedAtCommit
  <2>2. \A c \in claimRecords : audit'[c.ticket] = "SUCCESS"
    BY <1>0, <1>1, <2>1 DEF LogInv, RecordsLogged, TypeOK
  <2>3. claimRecords' # claimRecords => audit'[RecordOf(r).ticket] = "SUCCESS"
    BY <1>0, <1>1, <1>2 DEF RecordOf, TypeOK
  <2> QED
    BY <1>2, <2>2, <2>3 DEF RecordsLogged
<1>5. AnswersRecorded'
  <2> SUFFICES ASSUME NEW q \in Claims,
                      NEW result \in {response[q], StoredResult(q)}' \ {Null},
                      result.ticket # Null
               PROVE  [user |-> Call[q].user, reward |-> Call[q].resource, ticket |-> result.ticket]
                        \in claimRecords'
    BY DEF AnswersRecorded
  <2>1. q \in Requests /\ IdempotencyKey(q) \in IdempotencyKeys
    BY KeyTypes DEF Claims
  <2>2. CASE result \in {response[q], StoredResult(q)}
    BY <1>2, <2>2 DEF LogInv, AnswersRecorded
  <2>3. CASE result \notin {response[q], StoredResult(q)}
    <3>1. result = ResultAt(r) /\ (q = r \/ IdempotencyKey(q) = IdempotencyKey(r))
      BY <1>0, <1>1, <2>1, <2>3 DEF StoredResult, TypeOK
    <3>2. Call[q].user = Call[r].user /\ Call[q].resource = Call[r].resource
      BY <1>1, <2>1, <3>1, KeysTellRewards
    <3> QED
      BY <1>2, <3>1, <3>2 DEF RecordOf
  <2> QED
    BY <2>2, <2>3
<1> QED
  BY <1>3, <1>4, <1>5

LEMMA StepLog == LogInv /\ [Next]_vars => LogInv'
<1> SUFFICES ASSUME LogInv, [Next]_vars
             PROVE  IssuedAtCommit' /\ RecordsLogged' /\ AnswersRecorded'
  BY StepStates DEF LogInv
<1>0. TypeOK
  BY DEF LogInv, StateInv
<1>1. CASE UNCHANGED <<store, handlers>>
  BY <1>1 DEF store, handlers, LogInv, IssuedAtCommit, RecordsLogged, AnswersRecorded, StoredResult
<1>2. CASE UNCHANGED vars
  BY <1>1, <1>2 DEF vars
<1>3. ASSUME NEW r \in Requests, UNCHANGED store, NEW label, pc' = [pc EXCEPT ![r] = label],
             \/ label \in {"releasing", "done", "crashed"}
             \/ pc[r] \notin {"releasing", "done", "crashed"},
             NEW result, result = Null \/ result.ticket = Null \/ result = StoredResult(r),
             response' = response \/ response' = [response EXCEPT ![r] = result]
      PROVE  IssuedAtCommit' /\ RecordsLogged' /\ AnswersRecorded'
  BY <1>3, QuietIssued, QuietRecords, QuietAnswers DEF store
<1>4. ASSUME NEW r \in Requests, HandlerStep(r) \/ StorageFails(r) \/ Crash(r)
      PROVE  IssuedAtCommit' /\ RecordsLogged' /\ AnswersRecorded'
  <2>1. \A code : Plain(code).ticket = Null
    BY DEF Plain
  <2>2. CASE LookUpResult(r)
    BY <1>3, <2>2 DEF LookUpResult, Goto, Answer
  <2>3. CASE AcquireLock(r) \/ ReadUserState(r)
    BY <1>3, <2>3 DEF AcquireLock, ReadUserState, Goto
  <2>4. CASE LockConflict(r) \/ ReleaseLock(r)
    BY <1>3, <2>1, <2>4 DEF LockConflict, ReleaseLock, Goto, Answer
  <2>5. CASE RecheckResult(r)
    BY <1>3, <2>5 DEF RecheckResult, Goto, Answer
  <2>6. CASE ClaimAlreadyStored(r) \/ StorageFails(r) \/ Crash(r)
    BY <1>3, <2>1, <2>6 DEF ClaimAlreadyStored, StorageFails, Crash, Goto, Answer
  <2>7. CASE CommitCheckIn(r)
    BY <2>7, CommitCheckInLog
  <2>8. CASE CommitClaim(r)
    BY <2>8, CommitClaimLog
  <2> QED
    BY <1>4, <2>2, <2>3, <2>4, <2>5, <2>6, <2>7, <2>8 DEF HandlerStep
<1>5. CASE Tick \/ (\E lock \in locks : LeaseExpires(lock))
  BY <1>1, <1>5 DEF Tick, LeaseExpires
<1>6. ASSUME NEW k \in IdempotencyKeys, ResultLapses(k)
      PROVE  IssuedAtCommit' /\ RecordsLogged' /\ AnswersRecorded'
  <2>1. \A r \in Claims : StoredResult(r)' \in {StoredResult(r), Null}
    BY <1>0, <1>6, KeyTypes DEF ResultLapses, StoredResult, TypeOK, Claims
  <2> QED
    BY <1>6, <2>1 DEF ResultLapses, handlers, LogInv, IssuedAtCommit, RecordsLogged, AnswersRecorded
<1> QED
  BY <1>2, <1>4, <1>5, <1>6 DEF Next

(* The ticket a claim is answered with, or would be answered with again,   *)
(* was recorded for its user and its reward and logged as a success.       *)
THEOREM AnswersAreBacked == Spec => []AnswersBacked
<1>1. Init => LogInv
  BY InitStates DEF Init, LogInv, IssuedAtCommit, RecordsLogged, AnswersRecorded, StoredResult,
     IdempotencyKeys, Claims
<1>2. LogInv /\ [Next]_vars => LogInv'
  BY StepLog
<1>3. LogInv => AnswersBacked
  BY DEF LogInv, AnswersBacked, AnswersRecorded, RecordsLogged
<1> QED
  BY <1>1, <1>2, <1>3, PTL DEF Spec

(***************************************************************************)
(* Locks.                                                                  *)
(***************************************************************************)

(* A request that is past its lock holds the lease, and holds it alone.    *)
HeldAlone ==
  /\ \A r \in Requests : Holding(r) => LockKey(r) \in locks
  /\ \A r, q \in Requests : Holding(r) /\ Holding(q) /\ LockKey(r) = LockKey(q) => r = q

(* The snapshot of a check-in under way has every stamp stored by then.    *)
SnapshotsCurrent ==
  \A r \in CheckIns :
    pc[r] = "ready" /\ userStates[Call[r].user] # Null =>
      userStates[Call[r].user].stamps \subseteq snapshot[r].stamps

LockInv == TypeOK /\ SnapshotTaken /\ HeldAlone /\ SnapshotsCurrent

(* No step takes a stamp from a stored state.                              *)
StampsStay ==
  \A u \in Users :
    userStates[u] # Null =>
      userStates'[u] # Null /\ userStates[u].stamps \subseteq userStates'[u].stamps

(* A step of one request that neither takes nor drops a lock.              *)
LEMMA QuietLocks ==
  ASSUME TypeOK, HeldAlone, NEW r \in Requests, NEW label, pc' = [pc EXCEPT ![r] = label],
         Holding(r) \/ label \notin {"locked", "ready", "releasing"}, locks' = locks
  PROVE  HeldAlone'
BY DEF TypeOK, HeldAlone, Holding

LEMMA AcquireLocks ==
  ASSUME TypeOK, HeldAlone, NEW r \in Requests, AcquireLock(r)
  PROVE  HeldAlone'
BY DEF TypeOK, HeldAlone, Holding, AcquireLock, Goto

LEMMA ReleaseLocks ==
  ASSUME TypeOK, HeldAlone, NEW r \in Requests, ReleaseLock(r)
  PROVE  HeldAlone'
BY DEF TypeOK, HeldAlone, Holding, ReleaseLock, Goto

LEMMA ExpireLocks ==
  ASSUME ~SlowHolders, HeldAlone, NEW lock \in locks, LeaseExpires(lock)
  PROVE  HeldAlone'
BY DEF HeldAlone, Holding, LeaseExpires, handlers

LEMMA StepLocks ==
  ASSUME ~SlowHolders
  PROVE  TypeOK /\ HeldAlone /\ [Next]_vars => HeldAlone'
<1> SUFFICES ASSUME TypeOK, HeldAlone, [Next]_vars PROVE HeldAlone'
  OBVIOUS
<1>1. CASE UNCHANGED <<locks, handlers>>
  BY <1>1 DEF HeldAlone, Holding, handlers
<1>2. CASE UNCHANGED vars
  BY <1>1, <1>2 DEF vars
<1>3. ASSUME NEW r \in Requests, HandlerStep(r) \/ StorageFails(r) \/ Crash(r)
      PROVE  HeldAlone'
  <2>1. CASE LookUpResult(r)
    <3>1. \/ pc' = [pc EXCEPT ![r] = "missed"]
          \/ pc' = [pc EXCEPT ![r] = "done"]
      BY <2>1 DEF LookUpResult, Goto
    <3> QED
      BY <2>1, <3>1, QuietLocks DEF LookUpResult
  <2>2. CASE AcquireLock(r) \/ ReleaseLock(r)
    BY <2>2, AcquireLocks, ReleaseLocks
  <2>3. CASE LockConflict(r)
    BY <2>3, QuietLocks DEF LockConflict, Goto
  <2>4. CASE Crash(r)
    BY <2>4, QuietLocks DEF Crash, Goto
  <2>5. CASE ReadUserState(r)
    BY <2>5, QuietLocks DEF ReadUserState, Goto, Holding
  <2>6. CASE StorageFails(r) \/ ClaimAlreadyStored(r)
    BY <2>6, QuietLocks DEF StorageFails, ClaimAlreadyStored, Goto, Holding
  <2>7. CASE CommitCheckIn(r) \/ CommitClaim(r)
    BY <2>7, QuietLocks DEF CommitCheckIn, RefuseCheckIn, CommitClaim, Goto, Holding
  <2>8. CASE RecheckResult(r)
    <3>1. \/ pc' = [pc EXCEPT ![r] = "ready"]
          \/ pc' = [pc EXCEPT ![r] = "releasing"]
      BY <2>8 DEF RecheckResult, Goto
    <3> QED
      BY <2>8, <3>1, QuietLocks DEF RecheckResult, Holding
  <2> QED
    BY <1>3, <2>1, <2>2, <2>3, <2>4, <2>5, <2>6, <2>7, <2>8 DEF HandlerStep
<1>4. CASE \E lock \in locks : LeaseExpires(lock)
  BY <1>4, ExpireLocks
<1>5. CASE Tick \/ (\E k \in IdempotencyKeys : ResultLapses(k))
  BY <1>1, <1>5 DEF Tick, ResultLapses
<1> QED
  BY <1>2, <1>3, <1>4, <1>5 DEF Next

(* A commit of a check-in keeps the stamps, for it holds the user's lock   *)
(* since before its snapshot.                                              *)
LEMMA CommitCheckInStamps ==
  ASSUME LockInv, NEW r \in Requests, CommitCheckIn(r)
  PROVE  StampsStay
<1>1. r \in CheckIns /\ pc[r] = "ready" /\ TypeOK
  BY DEF CommitCheckIn, RefuseCheckIn, LockInv
<1>2. CASE userStates' = userStates
  BY <1>2 DEF StampsStay
<1>3. CASE userStates' = [userStates EXCEPT ![Call[r].user] = StateAfterCheckIn(r)]
  <2>1. /\ snapshot[r] \in UserStates
        /\ Call[r].user \in Users /\ Call[r].resource \in Spots
    BY <1>1, KeyTypes DEF LockInv, SnapshotTaken, TypeOK
  <2>2. StateAfterCheckIn(r) \in UserStates /\ StateAfterCheckIn(r) # Null
    BY <2>1, StampedType, NullIsNoState DEF StateAfterCheckIn
  <2>3. snapshot[r].stamps \subseteq StateAfterCheckIn(r).stamps
    BY DEF StateAfterCheckIn, Stamped
  <2>4. userStates[Call[r].user] # Null =>
          userStates[Call[r].user].stamps \subseteq snapshot[r].stamps
    BY <1>1 DEF LockInv, SnapshotsCurrent
  <2> QED
    BY <1>1, <1>3, <2>1, <2>2, <2>3, <2>4 DEF StampsStay, TypeOK
<1> QED
  BY <1>2, <1>3 DEF CommitCheckIn, RefuseCheckIn

(* The stamps a stored state has, none before the first write.             *)
StoredStamps(state) == IF state = Null THEN {} ELSE state.stamps

(* A claim leaves the stamps as they are.                                  *)
LEMMA CommitClaimStamps ==
  ASSUME TypeOK, NEW r \in Requests, CommitClaim(r)
  PROVE  /\ StampsStay
         /\ \A v \in Users : StoredStamps(userStates'[v]) = StoredStamps(userStates[v])
<1> DEFINE u == Call[r].user
           after == [StateAt(r) EXCEPT !.rewards[Call[r].resource] = ConsumedAt(r)]
<1>1. r \in Claims /\ u \in Users /\ Call[r].resource \in Rewards
  BY ClaimFacts, KeyTypes
<1>2. CASE userStates' = userStates
  BY <1>2 DEF StampsStay
<1>3. CASE userStates' = [userStates EXCEPT ![u] = after]
  <2>1. StateAt(r) \in UserStates /\ ConsumedAt(r) \in RewardStates
    BY <1>1, ClaimTypes
  <2>2. after \in UserStates /\ after.stamps = StateAt(r).stamps
    BY <1>1, <2>1 DEF UserStates
  <2>3. StateAt(r).stamps = StoredStamps(userStates[u])
    BY DEF StateAt, StateOf, StoredStamps, InitialState
  <2>4. after # Null
    BY <2>2, NullIsNoState
  <2>5. \A v \in Users : userStates'[v] = IF v = u THEN after ELSE userStates[v]
    BY <1>1, <1>3 DEF TypeOK
  <2> HIDE DEF after
  <2> QED
    BY <2>2, <2>3, <2>4, <2>5 DEF StampsStay, StoredStamps
<1> QED
  BY <1>2, <1>3, ClaimFacts

(* A step that reads no state and stores none.                             *)
LEMMA QuietSnapshots ==
  ASSUME SnapshotsCurrent, UNCHANGED <<userStates, snapshot>>,
         \A q \in CheckIns : pc'[q] = "ready" => pc[q] = "ready"
  PROVE  SnapshotsCurrent'
BY DEF SnapshotsCurrent

LEMMA ReadSnapshots ==
  ASSUME TypeOK, SnapshotsCurrent, NEW r \in Requests, ReadUserState(r)
  PROVE  SnapshotsCurrent'
<1>1. /\ userStates' = userStates /\ pc' = [pc EXCEPT ![r] = "ready"]
      /\ snapshot' = [snapshot EXCEPT ![r] = StateOf(Call[r].user, startedAt[r])]
  BY DEF ReadUserState, Goto, store
<1>2. userStates[Call[r].user] # Null => StateOf(Call[r].user, startedAt[r]) = userStates[Call[r].user]
  BY DEF StateOf
<1> QED
  BY <1>1, <1>2 DEF SnapshotsCurrent, TypeOK, CheckIns

LEMMA CommitCheckInSnapshots ==
  ASSUME LockInv, NEW r \in Requests, CommitCheckIn(r)
  PROVE  SnapshotsCurrent'
<1>1. /\ r \in CheckIns /\ pc[r] = "ready" /\ TypeOK
      /\ snapshot' = snapshot /\ pc' = [pc EXCEPT ![r] = "releasing"]
      /\ \/ userStates' = userStates
         \/ userStates' = [userStates EXCEPT ![Call[r].user] = StateAfterCheckIn(r)]
  BY DEF CommitCheckIn, RefuseCheckIn, Goto, LockInv
<1> SUFFICES ASSUME NEW q \in CheckIns, pc'[q] = "ready"
             PROVE  userStates'[Call[q].user] = userStates[Call[q].user] /\ pc[q] = "ready"
  BY <1>1 DEF SnapshotsCurrent, LockInv
<1>2. q \in Requests /\ q # r /\ pc[q] = "ready"
  BY <1>1 DEF TypeOK, CheckIns
<1>3. Call[q].user # Call[r].user
  <2>1. Holding(q) /\ Holding(r)
    BY <1>1, <1>2 DEF Holding
  <2>2. LockKey(q) # LockKey(r)
    BY <1>2, <2>1 DEF LockInv, HeldAlone
  <2> QED
    BY <1>1, <2>2 DEF LockKey
<1> QED
  BY <1>1, <1>2, <1>3, KeyTypes DEF TypeOK

LEMMA CommitClaimSnapshots ==
  ASSUME TypeOK, SnapshotsCurrent, NEW r \in Requests, CommitClaim(r)
  PROVE  SnapshotsCurrent'
<1>1. snapshot' = snapshot /\ pc' = [pc EXCEPT ![r] = "releasing"]
  BY ClaimFacts
<1>2. \A u \in Users : StoredStamps(userStates'[u]) = StoredStamps(userStates[u])
  BY CommitClaimStamps
<1> SUFFICES ASSUME NEW q \in CheckIns, pc'[q] = "ready", userStates'[Call[q].user] # Null
             PROVE  userStates'[Call[q].user].stamps \subseteq snapshot'[q].stamps
  BY DEF SnapshotsCurrent
<1>3. pc[q] = "ready" /\ Call[q].user \in Users
  BY <1>1, KeyTypes DEF TypeOK, CheckIns
<1> QED
  BY <1>1, <1>2, <1>3 DEF SnapshotsCurrent, StoredStamps

LEMMA StepStamps ==
  ASSUME ~SlowHolders
  PROVE  LockInv /\ [Next]_vars => LockInv' /\ StampsStay
<1> SUFFICES ASSUME LockInv, [Next]_vars PROVE SnapshotsCurrent' /\ StampsStay
  BY StepType, StepSnapshot, StepLocks DEF LockInv
<1>1. TypeOK /\ SnapshotsCurrent
  BY DEF LockInv
<1>2. ASSUME UNCHANGED <<userStates, snapshot>>,
             \A q \in CheckIns : pc'[q] = "ready" => pc[q] = "ready"
      PROVE  SnapshotsCurrent' /\ StampsStay
  BY <1>1, <1>2, QuietSnapshots DEF StampsStay
<1>3. ASSUME NEW r \in Requests, UNCHANGED <<userStates, snapshot>>,
             NEW label, pc' = [pc EXCEPT ![r] = label], label # "ready" \/ r \in Claims
      PROVE  SnapshotsCurrent' /\ StampsStay
  <2>1. \A q \in CheckIns : pc'[q] = "ready" => pc[q] = "ready"
    BY <1>1, <1>3 DEF TypeOK, CheckIns, Claims
  <2> QED
    BY <1>2, <1>3, <2>1
<1>4. CASE UNCHANGED vars
  BY <1>2, <1>4 DEF vars, store, handlers
<1>5. ASSUME NEW r \in Requests, HandlerStep(r) \/ StorageFails(r) \/ Crash(r)
      PROVE  SnapshotsCurrent' /\ StampsStay
  <2>1. CASE LookUpResult(r)
    <3>1. \/ pc' = [pc EXCEPT ![r] = "missed"]
          \/ pc' = [pc EXCEPT ![r] = "done"]
      BY <2>1 DEF LookUpResult, Goto
    <3> QED
      BY <1>3, <2>1, <3>1 DEF LookUpResult, store
  <2>2. CASE AcquireLock(r) \/ LockConflict(r) \/ ReleaseLock(r)
    BY <1>3, <2>2 DEF AcquireLock, LockConflict, ReleaseLock, Goto, store
  <2>3. CASE ClaimAlreadyStored(r) \/ StorageFails(r) \/ Crash(r)
    BY <1>3, <2>3 DEF ClaimAlreadyStored, StorageFails, Crash, Goto, store
  <2>4. CASE RecheckResult(r)
    <3>1. \/ pc' = [pc EXCEPT ![r] = "ready"]
          \/ pc' = [pc EXCEPT ![r] = "releasing"]
      BY <2>4 DEF RecheckResult, Goto
    <3> QED
      BY <1>3, <2>4, <3>1 DEF RecheckResult, store
  <2>5. CASE ReadUserState(r)
    BY <1>1, <2>5, ReadSnapshots DEF ReadUserState, store, StampsStay
  <2>6. CASE CommitCheckIn(r)
    BY <2>6, CommitCheckInStamps, CommitCheckInSnapshots
  <2>7. CASE CommitClaim(r)
    BY <1>1, <2>7, CommitClaimStamps, CommitClaimSnapshots
  <2> QED
    BY <1>5, <2>1, <2>2, <2>3, <2>4, <2>5, <2>6, <2>7 DEF HandlerStep
<1>6. CASE Tick \/ (\E lock \in locks : LeaseExpires(lock))
  BY <1>2, <1>6 DEF Tick, LeaseExpires, store, handlers
<1>7. CASE \E k \in IdempotencyKeys : ResultLapses(k)
  BY <1>2, <1>7 DEF ResultLapses, handlers
<1> QED
  BY <1>4, <1>5, <1>6, <1>7 DEF Next

LEMMA InitLocks == Init => LockInv
BY InitType DEF Init, LockInv, SnapshotTaken, HeldAlone, Holding, SnapshotsCurrent, CheckIns

(* A stamp that was stored is never lost again, by whatever check-ins and  *)
(* claims of a user run at once, as long as no request outlives the lease  *)
(* of its lock: each check-in writes back a snapshot.                      *)
THEOREM StampsAreKept == ASSUME ~SlowHolders PROVE Spec => StampsKept
<1>1. Init => LockInv
  BY InitLocks
<1>2. LockInv /\ [Next]_vars => LockInv'
  BY StepStamps
<1>3. LockInv /\ [Next]_vars => [StampsStay]_vars
  BY StepStamps
<1>4. [StampsStay]_vars <=>
      [\A u \in Users :
         userStates[u] # Null =>
           userStates'[u] # Null /\ userStates[u].stamps \subseteq userStates'[u].stamps]_vars
  BY DEF StampsStay
<1> QED
  BY <1>1, <1>2, <1>3, <1>4, PTL DEF Spec, StampsKept

(* The leases exclude each other: two requests that are past their lock    *)
(* hold different locks.                                                   *)
THEOREM LocksExclude == ASSUME ~SlowHolders PROVE Spec => []HeldAlone
<1>1. LockInv => HeldAlone
  BY DEF LockInv
<1> QED
  BY <1>1, InitLocks, StepStamps, PTL DEF Spec

(***************************************************************************)
(* The promises of the ledger.                                             *)
(***************************************************************************)

LedgerProofs == INSTANCE ClaimLedgerProofs
  WITH NoLimit <- Null, issued <- claimRecords, KeyOf <- TicketKeys,
       Draws <- RewardDraws, Level <- BucketLevels, PerUser <- UserLimits

LEMMA LedgerAssumed == LedgerProofs!LedgerAssumption
<1>1. RewardDraws \in [Rewards -> SUBSET StockKeys]
  BY PlanType DEF RewardDraws
<1>2. BucketLevels \in [StockKeys -> Nat \union {Null}]
  BY StartLevelType DEF BucketLevels, OptionalNat
<1>3. UserLimits \in [Rewards -> Nat \union {Null}]
  BY RewardsAssumption DEF UserLimits, OptionalNat
<1>4. LedgerProofs!IsFiniteSet(Tickets)
  BY CallAssumption DEF LedgerProofs!IsFiniteSet, IsFiniteSet
<1>5. Null \notin Nat
  BY NullAssumption
<1> QED
  BY <1>1, <1>2, <1>3, <1>4, <1>5 DEF LedgerProofs!LedgerAssumption

(* The ledger that was proved is the one the server implements.            *)
LEMMA SameLedger ==
  /\ Ledger!Init <=> LedgerProofs!Init
  /\ [Ledger!Next]_claimRecords <=> [LedgerProofs!Next]_claimRecords
  /\ Ledger!WithinLimits <=> LedgerProofs!WithinLimits
  /\ Ledger!NeverOversold <=> LedgerProofs!NeverOversold
  /\ Ledger!OneTicketPerKey <=> LedgerProofs!OneTicketPerKey
<1>1. \A limit, S : Ledger!Below(limit, S) <=> LedgerProofs!Below(limit, S)
  BY DEF Ledger!Below, LedgerProofs!Below, Ledger!Cardinality, LedgerProofs!Cardinality
<1>2. /\ \A b : Ledger!DrawnFrom(b) = LedgerProofs!DrawnFrom(b)
      /\ \A u, rw : Ledger!OwnedBy(u, rw) = LedgerProofs!OwnedBy(u, rw)
  BY DEF Ledger!DrawnFrom, LedgerProofs!DrawnFrom, Ledger!OwnedBy, LedgerProofs!OwnedBy
<1>3. \A S : Ledger!Cardinality(S) = LedgerProofs!Cardinality(S)
  BY DEF Ledger!Cardinality, LedgerProofs!Cardinality
<1>4. Ledger!Init <=> LedgerProofs!Init
  BY DEF Ledger!Init, LedgerProofs!Init
<1>5. Ledger!Next <=> LedgerProofs!Next
  BY <1>1, <1>2 DEF Ledger!Next, LedgerProofs!Next, Ledger!Issue, LedgerProofs!Issue
<1>6. Ledger!WithinLimits <=> LedgerProofs!WithinLimits
  BY <1>2, <1>3 DEF Ledger!WithinLimits, LedgerProofs!WithinLimits
<1>7. Ledger!NeverOversold <=> LedgerProofs!NeverOversold
  BY <1>2, <1>3 DEF Ledger!NeverOversold, LedgerProofs!NeverOversold
<1>8. Ledger!OneTicketPerKey <=> LedgerProofs!OneTicketPerKey
  BY DEF Ledger!OneTicketPerKey, LedgerProofs!OneTicketPerKey
<1> QED
  BY <1>4, <1>5, <1>6, <1>7, <1>8

(* What the ledger promises, the server keeps: no user gets more tickets   *)
(* of a reward than allowed, although a check-in can make a redeemed       *)
(* reward available again; no bucket gives out more than it held; and one  *)
(* key buys one ticket.                                                    *)
THEOREM PromisesKept ==
  ASSUME Durable
  PROVE  Spec => [](ClaimLimitRespected /\ Ledger!NeverOversold /\ Ledger!OneTicketPerKey)
<1>1. LedgerProofs!Spec =>
        [](LedgerProofs!NeverOversold /\ LedgerProofs!WithinLimits /\ LedgerProofs!OneTicketPerKey)
  BY LedgerAssumed, LedgerProofs!LedgerSafe
<1>2. /\ Ledger!Init => LedgerProofs!Init
      /\ [Ledger!Next]_claimRecords => [LedgerProofs!Next]_claimRecords
      /\ LedgerProofs!WithinLimits => ClaimLimitRespected
      /\ LedgerProofs!NeverOversold => Ledger!NeverOversold
      /\ LedgerProofs!OneTicketPerKey => Ledger!OneTicketPerKey
  BY SameLedger DEF ClaimLimitRespected
<1> QED
  BY <1>1, <1>2, ServerImplementsLedger, PTL
     DEF ImplementsLedger, Ledger!Spec, LedgerProofs!Spec
=============================================================================
