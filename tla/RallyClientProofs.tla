-------------------------- MODULE RallyClientProofs --------------------------
(***************************************************************************)
(* Proofs about the client of one visitor: what it shows is accounted for, *)
(* what it saved is what it shows, and no operation is lost.               *)
(***************************************************************************)
EXTENDS RallyClient, SequenceLemmas

-----------------------------------------------------------------------------
(* The states and the operations of the client.                            *)

(* An operation was made before ServerTime; of a check-in, the state that  *)
(* is shown meanwhile has the stamp at the operation's time.               *)
WellMade(op) ==
  /\ op.at < MaxTime
  /\ op.kind = "checkIn" =>
       op.resource \in Spots
         /\ op.optimistic.stamps = [op.base.stamps EXCEPT ![op.resource] = op.at]
  /\ op.kind = "claimReward" =>
       op.resource \in Rewards /\ op.optimistic.stamps = op.base.stamps

Operations ==
  {op \in [kind : {"checkIn", "claimReward"}, resource : Spots \union Rewards, key : Nat, at : Nat,
           rejected : {FALSE}, base : ClientStates, optimistic : ClientStates] : WellMade(op)}

LEMMA ReconciledIs ==
  ASSUME NEW state \in ClientStates
  PROVE  /\ Reconciled(state) \in ClientStates
         /\ Reconciled(state).stamps = state.stamps
         /\ Consumed(Reconciled(state)) = Consumed(state)
<1> DEFINE rewards == ReconcileRewardStates(state.rewards, Held(state), state.at)
<1>1. ASSUME NEW rw \in Rewards
      PROVE  /\ rewards[rw] \in RewardStates
             /\ rewards[rw].status = "CONSUMED" <=> state.rewards[rw].status = "CONSUMED"
  <2>1. state.rewards[rw] \in RewardStates
    BY DEF ClientStates
  <2> QED
    BY <2>1 DEF ReconcileRewardStates, ReconcileReward, LockedReward, PlainReward, RewardStates,
                RewardStatus
<1>2. rewards \in [Rewards -> RewardStates]
  BY <1>1 DEF ReconcileRewardStates
<1>3. Reconciled(state) = [state EXCEPT !.rewards = rewards]
  BY DEF Reconciled
<1> HIDE DEF rewards
<1>4. /\ Reconciled(state) \in ClientStates
      /\ Reconciled(state).stamps = state.stamps /\ Reconciled(state).rewards = rewards
  BY <1>2, <1>3 DEF ClientStates
<1>5. Consumed(Reconciled(state)) = Consumed(state)
  BY <1>1, <1>4, Zenon DEF Consumed
<1> QED BY <1>4, <1>5

LEMMA HeldIs ==
  ASSUME NEW state, NEW other, state.stamps = other.stamps
  PROVE  Held(state) = Held(other)
  BY DEF Held

LEMMA EmptyStateIs ==
  ASSUME NEW now \in Nat
  PROVE  /\ EmptyState(now) \in ClientStates
         /\ EmptyState(now).stamps = [s \in Spots |-> Null]
         /\ Consumed(EmptyState(now)) = {}
<1> DEFINE first == [stamps |-> [s \in Spots |-> Null], rewards |-> [rw \in Rewards |-> LockedReward],
                     left |-> Null, at |-> now]
<1>1. LockedReward \in RewardStates /\ LockedReward.status # "CONSUMED"
  BY DEF LockedReward, PlainReward, RewardStates, RewardStatus
<1> HIDE DEF LockedReward
<1>2. first \in ClientStates
  BY <1>1 DEF ClientStates, OptionalNat, Levels
<1>3. first.stamps = [s \in Spots |-> Null] /\ Consumed(first) = {}
  BY <1>1 DEF Consumed
<1>4. EmptyState(now) = Reconciled(first)
  BY DEF EmptyState
<1> HIDE DEF first
<1> QED BY <1>2, <1>3, <1>4, ReconciledIs

LEMMA LocalCheckInIs ==
  ASSUME NEW state \in ClientStates, NEW spot \in Spots, NEW now \in Nat
  PROVE  /\ LocalCheckIn(state, spot, now) \in ClientStates
         /\ LocalCheckIn(state, spot, now).stamps = [state.stamps EXCEPT ![spot] = now]
<1> DEFINE next == [state EXCEPT !.stamps[spot] = now, !.at = now]
<1>1. next \in ClientStates /\ next.stamps = [state.stamps EXCEPT ![spot] = now]
  BY DEF ClientStates, OptionalNat
<1> HIDE DEF next
<1>2. LocalCheckIn(state, spot, now) = Reconciled(next)
  BY DEF LocalCheckIn, next
<1> QED BY <1>1, <1>2, ReconciledIs

LEMMA LoweredIs ==
  ASSUME NEW level \in OptionalNat, NEW by \in Int
  PROVE  Lowered(level, by) \in OptionalNat
  BY DEF Lowered, Larger, OptionalNat

LEMMA LocalClaimIs ==
  ASSUME NEW state \in ClientStates, NEW rw \in Rewards, NEW now \in Nat
  PROVE  LocalClaim(state, rw, now) \in ClientStates /\ LocalClaim(state, rw, now).stamps = state.stamps
<1> DEFINE reward == ConsumedReward(rw, state.rewards[rw], "own")
           taken == [s \in Shelves |->
                       IF s \in {"shared", rw} THEN Lowered(state.left[s], 1)
                       ELSE IF state.left[rw] = Null THEN Null ELSE state.left[s]]
           left == IF reward.ticket = Null \/ state.left = Null THEN state.left ELSE taken
<1>1. state.rewards[rw] \in RewardStates
  BY DEF ClientStates
<1>2. reward \in RewardStates
  BY <1>1, ClientAssumption DEF ConsumedReward, RewardStates, RewardStatus
<1>3. left \in Levels
  <2>1. CASE reward.ticket = Null \/ state.left = Null
    BY <2>1 DEF ClientStates
  <2>2. CASE ~(reward.ticket = Null \/ state.left = Null)
    <3>1. state.left \in [Shelves -> OptionalNat]
      BY <2>2 DEF ClientStates, Levels
    <3>2. \A s \in Shelves : state.left[s] \in OptionalNat /\ Lowered(state.left[s], 1) \in OptionalNat
      BY <3>1, LoweredIs
    <3>3. taken \in [Shelves -> OptionalNat]
      BY <3>2 DEF OptionalNat
    <3> QED BY <2>2, <3>3 DEF Levels
  <2> QED BY <2>1, <2>2
<1>4. LocalClaim(state, rw, now) = [state EXCEPT !.rewards[rw] = reward, !.at = now, !.left = left]
  BY DEF LocalClaim
<1> HIDE DEF reward, left
<1> QED BY <1>2, <1>3, <1>4 DEF ClientStates

-----------------------------------------------------------------------------
(* Taking back, and replaying.                                             *)

LEMMA RollbackIs ==
  ASSUME NEW state \in ClientStates, NEW op \in Operations
  PROVE  /\ Rollback(state, op) \in ClientStates
         /\ \A s \in Spots :
              \/ Rollback(state, op).stamps[s] = state.stamps[s]
                   /\ (op.kind = "checkIn" /\ s = op.resource => state.stamps[s] # op.at)
              \/ Rollback(state, op).stamps[s] = Null /\ op.kind = "checkIn" /\ s = op.resource
                   /\ state.stamps[s] = op.at
<1>1. /\ op.base \in ClientStates /\ op.at \in Nat /\ op.kind \in {"checkIn", "claimReward"}
      /\ op.kind = "claimReward" => op.resource \in Rewards
  BY DEF Operations, WellMade
<1>2. CASE op.kind = "checkIn"
  <2> DEFINE stamps == [s \in Spots |->
                          IF s = op.resource /\ state.stamps[s] = op.at THEN Null ELSE state.stamps[s]]
  <2>1. Rollback(state, op) =
          [state EXCEPT !.stamps = stamps, !.rewards = op.base.rewards, !.at = op.base.at]
    BY <1>2 DEF Rollback
  <2>2. stamps \in [Spots -> OptionalNat]
    BY DEF ClientStates, OptionalNat
  <2>3. Rollback(state, op) \in ClientStates /\ Rollback(state, op).stamps = stamps
    <3> HIDE DEF stamps
    <3> QED BY <1>1, <2>1, <2>2 DEF ClientStates
  <2> QED BY <1>2, <2>3
<1>3. CASE op.kind = "claimReward"
  <2> DEFINE reward == op.base.rewards[op.resource]
             left == op.base.left
             at == op.base.at
             rw == op.resource
  <2>1. reward \in RewardStates /\ left \in Levels /\ at \in Nat /\ rw \in Rewards
    BY <1>1, <1>3 DEF ClientStates
  <2>2. Rollback(state, op) = [state EXCEPT !.rewards[rw] = reward, !.at = at, !.left = left]
    BY <1>3 DEF Rollback
  <2> HIDE DEF reward, left, at, rw
  <2>3. Rollback(state, op) \in ClientStates /\ Rollback(state, op).stamps = state.stamps
    BY <2>1, <2>2 DEF ClientStates
  <2> QED BY <1>3, <2>3
<1> QED BY <1>1, <1>2, <1>3

LEMMA MovedInventoryIs ==
  ASSUME NEW left \in Levels, NEW before \in Levels, NEW after \in Levels
  PROVE  MovedInventory(left, before, after) \in Levels
<1>1. CASE before = Null \/ after = Null
  BY <1>1 DEF MovedInventory
<1>2. CASE ~(before = Null \/ after = Null)
  <2>1. before \in [Shelves -> OptionalNat] /\ after \in [Shelves -> OptionalNat]
    BY <1>2 DEF Levels
  <2> DEFINE now == IF left = Null THEN [s \in Shelves |-> Null] ELSE left
  <2>2. now \in [Shelves -> OptionalNat]
    BY DEF Levels, OptionalNat
  <2> DEFINE known(s) == before[s] # Null /\ after[s] # Null
             level(s) ==
               IF s = "shared"
               THEN IF ~known(s) THEN Null
                    ELSE IF now[s] = Null THEN after[s] ELSE Lowered(now[s], before[s] - after[s])
               ELSE IF known(s) THEN Lowered(OrElse(now[s], before[s]), before[s] - after[s])
                    ELSE now[s]
  <2>3. MovedInventory(left, before, after) = [s \in Shelves |-> level(s)]
    BY <1>2 DEF MovedInventory
  <2> HIDE DEF now
  <2>4. ASSUME NEW s \in Shelves PROVE level(s) \in OptionalNat
    <3>1. before[s] \in OptionalNat /\ after[s] \in OptionalNat /\ now[s] \in OptionalNat
      BY <2>1, <2>2
    <3>2. CASE known(s)
      <4>1. before[s] - after[s] \in Int
        BY <3>1, <3>2 DEF OptionalNat
      <4>2. Lowered(now[s], before[s] - after[s]) \in OptionalNat
        BY <3>1, <4>1, LoweredIs
      <4>3. Lowered(OrElse(now[s], before[s]), before[s] - after[s]) \in OptionalNat
        BY <3>1, <4>1, LoweredIs DEF OrElse
      <4> QED BY <3>1, <3>2, <4>2, <4>3
    <3>3. CASE ~known(s)
      BY <3>1, <3>3 DEF OptionalNat
    <3> QED BY <3>2, <3>3
  <2> HIDE DEF level
  <2> QED BY <2>3, <2>4 DEF Levels
<1> QED BY <1>1, <1>2

(* Replaying adds stamps of the operations, each with its prerequisites.   *)
Extends(first, state, ops) ==
  \A s \in Spots :
    \/ state.stamps[s] = first.stamps[s]
    \/ /\ first.stamps[s] = Null /\ SpotDef[s].prerequisites \subseteq Held(state)
       /\ \E op \in ops : op.kind = "checkIn" /\ op.resource = s /\ op.at = state.stamps[s]

Replays == [state : ClientStates, refused : SUBSET Spots]

LEMMA ReplayOneIs ==
  ASSUME NEW first, NEW ops \in SUBSET Operations, NEW so \in Replays, NEW op \in ops,
         Extends(first, so.state, ops)
  PROVE  ReplayOne(so, op) \in Replays /\ Extends(first, ReplayOne(so, op).state, ops)
<1>1. /\ op.base \in ClientStates /\ op.optimistic \in ClientStates /\ op.at \in Nat
      /\ op.kind \in {"checkIn", "claimReward"} /\ op.rejected = FALSE
      /\ so.state \in ClientStates
  BY DEF Operations, Replays
<1>2. CASE op.kind = "claimReward"
  <2> DEFINE reward == op.optimistic.rewards[op.resource]
             left == MovedInventory(so.state.left, op.base.left, op.optimistic.left)
             at == IF reward.status = "CONSUMED" THEN op.at ELSE so.state.at
             next == [so.state EXCEPT !.rewards[op.resource] = reward, !.at = at, !.left = left]
  <2>1. op.resource \in Rewards
    BY <1>2 DEF Operations, WellMade
  <2>2. reward \in RewardStates /\ at \in Nat
    BY <1>1, <2>1 DEF ClientStates
  <2>3. left \in Levels
    BY <1>1, MovedInventoryIs DEF ClientStates
  <2>4. ReplayOne(so, op) = [so EXCEPT !.state = next]
    BY <1>1, <1>2 DEF ReplayOne, ReplayClaim
  <2> HIDE DEF reward, left, at
  <2>5. next \in ClientStates /\ next.stamps = so.state.stamps
    BY <1>1, <2>1, <2>2, <2>3 DEF ClientStates
  <2> HIDE DEF next
  <2>6. ReplayOne(so, op) \in Replays /\ ReplayOne(so, op).state = next
    BY <2>4, <2>5 DEF Replays
  <2> QED BY <2>5, <2>6, HeldIs DEF Extends
<1>3. CASE op.kind = "checkIn" /\ MissesPrerequisite(so.state, op, so.refused)
  <2>1. op.resource \in Spots
    BY <1>3 DEF Operations, WellMade
  <2>2. ReplayOne(so, op) = [so EXCEPT !.refused = @ \union {op.resource}]
    BY <1>1, <1>3 DEF ReplayOne
  <2> QED BY <2>1, <2>2 DEF Replays
<1>4. CASE op.kind = "checkIn" /\ ~MissesPrerequisite(so.state, op, so.refused)
  <2>1. /\ op.resource \in Spots
        /\ op.optimistic.stamps = [op.base.stamps EXCEPT ![op.resource] = op.at]
    BY <1>4 DEF Operations, WellMade
  <2>2. op.optimistic.stamps[op.resource] = op.at /\ op.at # Null
    BY <1>1, <2>1, NullAssumption DEF ClientStates
  <2> DEFINE next == [so.state EXCEPT !.stamps[op.resource] = op.at, !.at = op.at]
  <2>3. ReplayOne(so, op) = [so EXCEPT !.state = IF so.state.stamps[op.resource] # Null THEN so.state
                                                 ELSE Reconciled(next)]
    BY <1>1, <1>4, <2>2 DEF ReplayOne, ReplayCheckIn, OrElse
  <2>4. CASE so.state.stamps[op.resource] # Null
    BY <1>1, <2>3, <2>4 DEF Replays
  <2>5. CASE so.state.stamps[op.resource] = Null
    <3>1. next \in ClientStates /\ next.stamps = [so.state.stamps EXCEPT ![op.resource] = op.at]
      BY <1>1, <2>1 DEF ClientStates, OptionalNat
    <3> HIDE DEF next
    <3> DEFINE result == Reconciled(next)
    <3>2. result \in ClientStates /\ result.stamps = [so.state.stamps EXCEPT ![op.resource] = op.at]
      BY <3>1, ReconciledIs
    <3>3. ReplayOne(so, op) = [so EXCEPT !.state = result]
      BY <2>3, <2>5
    <3> HIDE DEF result
    <3>4. ReplayOne(so, op) \in Replays /\ ReplayOne(so, op).state = result
      BY <3>2, <3>3 DEF Replays
    <3>5. \A s \in Spots : result.stamps[s] = IF s = op.resource THEN op.at ELSE so.state.stamps[s]
      BY <1>1, <3>2 DEF ClientStates
    <3>6. Held(so.state) \subseteq Held(result)
      BY <2>2, <3>5 DEF Held
    <3>7. SpotDef[op.resource].prerequisites \subseteq Held(so.state)
      BY <1>4, <2>1, SpotsAssumption DEF MissesPrerequisite, Held
    <3>8. Extends(first, result, ops)
      <4> SUFFICES ASSUME NEW s \in Spots
                   PROVE  \/ result.stamps[s] = first.stamps[s]
                          \/ /\ first.stamps[s] = Null
                             /\ SpotDef[s].prerequisites \subseteq Held(result)
                             /\ \E o \in ops : /\ o.kind = "checkIn" /\ o.resource = s
                                               /\ o.at = result.stamps[s]
        BY DEF Extends
      <4>1. CASE s = op.resource
        <5>1. first.stamps[s] = Null
          <6>1. \/ so.state.stamps[s] = first.stamps[s]
                \/ first.stamps[s] = Null
            BY DEF Extends
          <6> QED BY <2>5, <4>1, <6>1
        <5>2. op.kind = "checkIn" /\ op.resource = s /\ op.at = result.stamps[s]
          BY <1>4, <3>5, <4>1
        <5> QED BY <3>6, <3>7, <4>1, <5>1, <5>2
      <4>2. CASE s # op.resource
        <5>1. result.stamps[s] = so.state.stamps[s]
          BY <3>5, <4>2
        <5> QED BY <3>6, <5>1 DEF Extends
      <4> QED BY <4>1, <4>2
    <3> QED BY <3>4, <3>8
  <2> QED BY <2>4, <2>5
<1> QED BY <1>1, <1>2, <1>3, <1>4

(* The order the log is replayed in is a strict order of its places.       *)
LEMMA ComesBeforeOrders ==
  ASSUME NEW log \in Seq(Operations), NEW i \in 1..Len(log), NEW j \in 1..Len(log),
         NEW k \in 1..Len(log)
  PROVE  /\ ~ComesBefore(log, i, i)
         /\ i # j => ComesBefore(log, i, j) \/ ComesBefore(log, j, i)
         /\ ComesBefore(log, k, i) /\ ComesBefore(log, i, j) => ComesBefore(log, k, j)
<1>1. \A n \in 1..Len(log) :
        log[n].at \in Nat /\ log[n].key \in Nat /\ log[n].kind \in {"checkIn", "claimReward"}
  <2> SUFFICES ASSUME NEW n \in 1..Len(log)
               PROVE  /\ log[n].at \in Nat /\ log[n].key \in Nat
                      /\ log[n].kind \in {"checkIn", "claimReward"}
    OBVIOUS
  <2>1. log[n] \in Operations
    BY ElementOfSeq
  <2> QED BY <2>1 DEF Operations
<1>2. i \in Int /\ j \in Int /\ k \in Int
  BY SMT
<1> QED BY <1>1, <1>2 DEF ComesBefore, Precedes

LEMMA PlaceIs ==
  ASSUME NEW log \in Seq(Operations)
  PROVE  /\ \A i \in 1..Len(log) : Place(log, i) \in 1..Len(log)
         /\ \A i, j \in 1..Len(log) : Place(log, i) = Place(log, j) => i = j
<1> DEFINE m == Len(log)
           Before(i) == {j \in 1..m : ComesBefore(log, j, i)}
<1>1. m \in Nat /\ DOMAIN log = 1..m
  BY LenProperties
<1>2. \A i : Place(log, i) = 1 + Cardinality(Before(i))
  BY <1>1 DEF Place
<1> HIDE DEF m
<1>3. IsFiniteSet(1..m) /\ Cardinality(1..m) = m
  BY <1>1, FS_Interval, SMT
<1>4. \A i : IsFiniteSet(Before(i)) /\ Cardinality(Before(i)) \in Nat
  BY <1>3, FS_Subset, FS_CardinalityType, Zenon
<1>5. ASSUME NEW i \in 1..m PROVE Cardinality(Before(i)) < m
  <2>1. i \notin Before(i)
    BY <1>5, ComesBeforeOrders DEF m
  <2>2. Cardinality(Before(i)) <= m /\ Cardinality(Before(i)) # m
    BY <1>3, <1>5, <2>1, FS_Subset, Zenon
  <2>3. Cardinality(Before(i)) \in Nat
    BY <1>4, Zenon
  <2> HIDE DEF Before
  <2> QED BY <1>1, <2>2, <2>3
<1>6. ASSUME NEW i \in 1..m, NEW j \in 1..m, ComesBefore(log, i, j)
      PROVE  Cardinality(Before(i)) # Cardinality(Before(j))
  <2>1. Before(i) \subseteq Before(j)
    BY <1>6, ComesBeforeOrders DEF m
  <2>2. i \in Before(j) /\ i \notin Before(i)
    BY <1>6, ComesBeforeOrders DEF m
  <2> HIDE DEF Before
  <2> QED BY <1>4, <2>1, <2>2, FS_Subset, Zenon
<1>7. \A i \in 1..m : Place(log, i) \in 1..m
  <2> HIDE DEF Before
  <2> QED BY <1>1, <1>2, <1>4, <1>5
<1>8. ASSUME NEW i \in 1..m, NEW j \in 1..m, Place(log, i) = Place(log, j) PROVE i = j
  <2>1. Cardinality(Before(i)) = Cardinality(Before(j))
    <3> HIDE DEF Before
    <3> QED BY <1>2, <1>4, <1>8
  <2> HIDE DEF Before
  <2>2. i # j => ComesBefore(log, i, j) \/ ComesBefore(log, j, i)
    BY ComesBeforeOrders DEF m
  <2> QED BY <1>6, <2>1, <2>2
<1> QED BY <1>7, <1>8 DEF m

(* Sorting keeps the operations, whatever their times and keys.            *)
LEMMA SortedIs ==
  ASSUME NEW log \in Seq(Operations)
  PROVE  Sorted(log) \in Seq(Operations) /\ ToSet(Sorted(log)) = ToSet(log)
<1> DEFINE m == Len(log)
           rank == [i \in 1..m |-> Place(log, i)]
           pick(n) == CHOOSE i \in 1..m : Place(log, i) = n
<1>1. m \in Nat /\ DOMAIN log = 1..m
  BY LenProperties
<1>2. /\ \A i \in 1..m : Place(log, i) \in 1..m
      /\ \A i, j \in 1..m : Place(log, i) = Place(log, j) => i = j
  BY PlaceIs
<1>3. Sorted(log) = [n \in 1..m |-> log[pick(n)]]
  BY <1>1 DEF Sorted
<1> HIDE DEF m
<1>4. \A n \in 1..m : \E i \in 1..m : Place(log, i) = n
  <2>1. rank \in [1..m -> 1..m] /\ \A i, j \in 1..m : rank[i] = rank[j] => i = j
    BY <1>2
  <2>2. \A n \in 1..m : \E i \in 1..m : rank[i] = n
    <3> HIDE DEF rank
    <3> QED BY <1>1, <2>1, RankReached
  <2> QED BY <2>2
<1>5. \A n \in 1..m : pick(n) \in 1..m /\ Place(log, pick(n)) = n
  BY <1>4, Zenon
<1>6. \A i \in 1..m : pick(Place(log, i)) = i
  BY <1>2, <1>5, Zenon
<1> HIDE DEF pick
<1>7. \A i \in 1..m : log[i] \in Operations
  BY ElementOfSeq DEF m
<1>8. Sorted(log) \in Seq(Operations) /\ DOMAIN Sorted(log) = 1..m
  BY <1>1, <1>3, <1>5, <1>7
<1>9. ToSet(Sorted(log)) = ToSet(log)
  <2>1. \A n \in 1..m : Sorted(log)[n] = log[pick(n)]
    BY <1>3
  <2>2. ToSet(Sorted(log)) \subseteq ToSet(log)
    BY <1>1, <1>5, <1>8, <2>1, Zenon DEF ToSet
  <2>3. \A i \in 1..m : Sorted(log)[Place(log, i)] = log[i]
    BY <1>2, <1>6, <2>1
  <2>4. ToSet(log) \subseteq ToSet(Sorted(log))
    BY <1>1, <1>2, <1>8, <2>3, Zenon DEF ToSet
  <2> QED BY <2>2, <2>4
<1> QED BY <1>8, <1>9

(* What every operation of the log preserves holds after the last.         *)
LEMMA ReplayedIs ==
  ASSUME NEW S, NEW so \in S, NEW ops, Len(ops) \in Nat,
         \A x \in S : \A n \in 1..Len(ops) : ReplayOne(x, ops[n]) \in S
  PROVE  Replayed(so, ops) \in S
<1> DEFINE N == Len(ops)
           step == [n \in 1..N |-> [x \in S |-> ReplayOne(x, ops[n])]]
           Eq(f) == f = [n \in 0..N |-> IF n = 0 THEN so ELSE ReplayOne(f[n - 1], ops[n])]
           after == CHOOSE f : Eq(f)
<1> HIDE DEF N
<1>1. N \in Nat
  BY DEF N
<1>2. step \in [1..N -> [S -> S]]
  BY DEF N
<1>3. PICK g \in [0..N -> S] : g[0] = so /\ \A n \in 1..N : g[n] = step[n][g[n - 1]]
  <2>1. \A st \in [1..N -> [S -> S]] :
           \E g \in [0..N -> S] : g[0] = so /\ \A n \in 1..N : g[n] = st[n][g[n - 1]]
    <3> HIDE DEF step
    <3> SUFFICES ASSUME NEW st \in [1..N -> [S -> S]]
                 PROVE  \E g \in [0..N -> S] : g[0] = so /\ \A n \in 1..N : g[n] = st[n][g[n - 1]]
      OBVIOUS
    <3>1. \E g : Iterates(N, S, so, st, g)
      BY <1>1, RecursionExists, Zenon
    <3> QED BY <3>1, Zenon DEF Iterates
  <2> HIDE DEF step
  <2> QED BY <1>2, <2>1, Zenon
<1>4. Eq(g)
  <2>1. ASSUME NEW n \in 0..N PROVE g[n] = IF n = 0 THEN so ELSE ReplayOne(g[n - 1], ops[n])
    <3>1. CASE n = 0
      BY <1>3, <3>1
    <3>2. CASE n # 0
      <4>1. n \in 1..N /\ n - 1 \in 0..N
        BY <1>1, <3>2, SMT
      <4>2. g[n] = step[n][g[n - 1]] /\ g[n - 1] \in S
        BY <1>3, <4>1
      <4> QED BY <3>2, <4>1, <4>2
    <3> QED BY <3>1, <3>2
  <2> QED BY <1>3, <2>1
<1>5. Eq(after)
  <2> HIDE DEF Eq
  <2> QED BY <1>4, Zenon
<1>6. Replayed(so, ops) = after[N]
  BY DEF Replayed, N
<1> HIDE DEF after
<1>7. /\ after[0] = so
      /\ \A n \in 1..N : after[n] = ReplayOne(after[n - 1], ops[n])
  BY <1>1, <1>5, SMT
<1> HIDE DEF Eq, step
<1> DEFINE Out == {n \in 0..N : after[n] \notin S}
<1>8. SUFFICES ASSUME Out # {} PROVE FALSE
  <2>1. N \in 0..N
    BY <1>1, SMT
  <2> QED BY <1>6, <1>8, <2>1, Zenon
<1>9. PICK n \in Out : \A k \in Out : n <= k
  <2>1. Out \in SUBSET Nat
    BY SMT
  <2> HIDE DEF Out
  <2> QED BY <1>8, <2>1, LeastNumber, Zenon
<1>10. n \in 0..N /\ n # 0 /\ after[n] \notin S
  BY <1>7, <1>9
<1>11. n \in 1..N /\ n - 1 \in 0..N /\ ~(n <= n - 1)
  BY <1>1, <1>10, SMT
<1>12. after[n - 1] \in S
  BY <1>9, <1>11, Zenon
<1>13. after[n] \in S
  BY <1>7, <1>11, <1>12 DEF N
<1> QED BY <1>10, <1>13

LEMMA ReplayIs ==
  ASSUME NEW baseline \in ClientStates, NEW log \in Seq(Operations)
  PROVE  Replay(baseline, log) \in ClientStates /\ Extends(baseline, Replay(baseline, log), ToSet(log))
<1> DEFINE gone == {op.resource : op \in {op \in ToSet(log) : op.rejected /\ op.kind = "checkIn"}}
           first == [state |-> baseline, refused |-> gone]
           S == {so \in Replays : Extends(baseline, so.state, ToSet(log))}
<1>1. Sorted(log) \in Seq(Operations) /\ ToSet(Sorted(log)) = ToSet(log)
  BY SortedIs
<1>2. ToSet(log) \in SUBSET Operations
  BY Zenon, ElementOfSeq, LenProperties DEF ToSet
<1>3. gone \in SUBSET Spots
  BY <1>2 DEF Operations
<1>4. first \in S
  <2> HIDE DEF gone
  <2> QED BY <1>3 DEF Replays, Extends
<1>5. Len(Sorted(log)) \in Nat /\ \A n \in 1..Len(Sorted(log)) : Sorted(log)[n] \in ToSet(log)
  <2>1. DOMAIN Sorted(log) = 1..Len(Sorted(log)) /\ Len(Sorted(log)) \in Nat
    BY <1>1, LenProperties
  <2> QED BY <1>1, <2>1, Zenon DEF ToSet
<1>6. \A x \in S : \A n \in 1..Len(Sorted(log)) : ReplayOne(x, Sorted(log)[n]) \in S
  BY <1>2, <1>5, ReplayOneIs
<1>7. Replay(baseline, log) = Replayed(first, Sorted(log)).state
  BY DEF Replay
<1> HIDE DEF first, S
<1>8. Replayed(first, Sorted(log)) \in S
  BY <1>4, <1>5, <1>6, ReplayedIs
<1> QED BY <1>7, <1>8 DEF S, Replays

(* Migrating keeps the account's stamps as they are and adds the guest's;  *)
(* a reward that either redeemed stays redeemed if the rewards are merged. *)
LEMMA MigrateIs ==
  ASSUME NEW guest \in ClientStates, NEW account \in ClientStates \union {Null},
         NEW policy \in MigratePolicies
  PROVE  LET merged == Migrate(guest, account, policy) IN
         /\ merged \in ClientStates
         /\ account = Null => merged = guest
         /\ account # Null =>
              /\ \A s \in Spots :
                   merged.stamps[s] = IF account.stamps[s] # Null THEN account.stamps[s] ELSE guest.stamps[s]
              /\ policy = "union" => Consumed(merged) = Consumed(account) \union Consumed(guest)
<1> DEFINE merged == Migrate(guest, account, policy)
<1>1. CASE account = Null
  BY <1>1 DEF Migrate
<1>2. CASE account # Null
  <2> DEFINE stamps == [s \in Spots |-> OrElse(account.stamps[s], guest.stamps[s])]
             better(rw) == /\ policy = "union"
                           /\ RewardRank(guest.rewards[rw].status) > RewardRank(account.rewards[rw].status)
             rewards == [rw \in Rewards |-> IF better(rw) THEN guest.rewards[rw] ELSE account.rewards[rw]]
             at == Larger(guest.at, account.at)
  <2>1. merged = [account EXCEPT !.stamps = stamps, !.rewards = rewards, !.at = at]
    BY <1>2 DEF Migrate
  <2>2. stamps \in [Spots -> OptionalNat]
    BY <1>2 DEF ClientStates, OrElse, OptionalNat
  <2>3. ASSUME NEW rw \in Rewards
        PROVE  /\ guest.rewards[rw] \in RewardStates /\ account.rewards[rw] \in RewardStates
               /\ better(rw) => account.rewards[rw].status # "CONSUMED"
               /\ policy = "union" /\ ~better(rw) /\ guest.rewards[rw].status = "CONSUMED"
                    => account.rewards[rw].status = "CONSUMED"
    <3>1. guest.rewards[rw] \in RewardStates /\ account.rewards[rw] \in RewardStates
      BY <1>2 DEF ClientStates
    <3>2. guest.rewards[rw].status \in RewardStatus /\ account.rewards[rw].status \in RewardStatus
      BY <3>1 DEF RewardStates
    <3> QED BY <3>1, <3>2 DEF RewardStatus, RewardRank
  <2>4. rewards \in [Rewards -> RewardStates]
    <3> HIDE DEF better
    <3> QED BY <2>3
  <2>5. at \in Nat
    BY <1>2 DEF Larger, ClientStates
  <2>6. merged \in ClientStates /\ merged.stamps = stamps /\ merged.rewards = rewards
    <3> HIDE DEF stamps, rewards, at, merged
    <3> QED BY <1>2, <2>1, <2>2, <2>4, <2>5 DEF ClientStates
  <2>7. ASSUME policy = "union" PROVE Consumed(merged) = Consumed(account) \union Consumed(guest)
    <3>1. \A rw \in Rewards : merged.rewards[rw].status = "CONSUMED" <=>
            account.rewards[rw].status = "CONSUMED" \/ guest.rewards[rw].status = "CONSUMED"
      <4> HIDE DEF better, merged
      <4> QED BY <2>3, <2>6, <2>7
    <3> QED BY <3>1, Zenon DEF Consumed
  <2> QED BY <1>2, <2>6, <2>7 DEF OrElse
<1> QED BY <1>1, <1>2

-----------------------------------------------------------------------------
(* The types.                                                              *)

Kinds == {"checkIn", "claimReward"}

Requests ==
  {r \in [user : Users, kind : Kinds, resource : Spots \union Rewards, key : Nat] :
     /\ r.kind = "checkIn" => r.resource \in Spots
     /\ r.kind = "claimReward" => r.resource \in Rewards}

Results == [key : Nat, status : {"ACCEPTED", "REJECTED_PERMANENT", "FAILED_RETRYABLE"}]

Answers ==
  {a \in [user : Users, key : Nat, ok : BOOLEAN, state : ClientStates \union {Null}] :
     a.ok => a.state \in ClientStates}

Applying == [at : {"applying"}, current : ClientStates, results : Seq(Results)]

Going == [at : {"head"}, pull : BOOLEAN] \union Applying \union {Idle}

MovesAt == {"emptyOps", "emptyHistory", "writeOps", "writeHistory"}

Moves ==
  [at : MovesAt, to : Accounts, ops : Seq(Operations), refused : SUBSET Spots, state : ClientStates]

CallsAt ==
  {"idle", "closed", "saving", "asking", "head", "waiting", "pulling", "applying", "linking"}
    \union MovesAt

CallType(c) ==
  /\ c.at \in CallsAt
  /\ c.at = "idle" => c = Idle
  /\ c.at = "closed" => c = Closed
  /\ c.at = "saving" =>
       c \in [at : {"saving"}, state : ClientStates, orphan : SUBSET Spots, next : Going]
  /\ c.at = "asking" => c \in [at : {"asking"}, op : Operations]
  /\ c.at = "head" => c \in [at : {"head"}, pull : BOOLEAN]
  /\ c.at = "waiting" => c \in [at : {"waiting"}, op : Operations, pull : BOOLEAN]
  /\ c.at = "pulling" => c \in [at : {"pulling"}, ops : Seq(Operations)]
  /\ c.at = "applying" => c \in Applying
  /\ c.at = "linking" => c \in [at : {"linking"}, to : Accounts]
  /\ c.at \in MovesAt => c \in Moves

TypeInv ==
  /\ clock \in Nat /\ clock < MaxTime /\ keys \in Nat /\ refusals \in Nat /\ stock \in Nat
  /\ who \in Users
  /\ call.at # "closed" => mem \in ClientStates
  /\ saved \in [Users -> ClientStates \union {Null}]
  /\ queue \in [Users -> Seq(Operations)]
  /\ refused \in [Users -> SUBSET Spots] /\ brought \in [Users -> SUBSET Spots]
  /\ flying \in SUBSET Requests /\ answers \in SUBSET Answers
  /\ server \in [Users -> ClientStates]
  /\ CallType(call)

-----------------------------------------------------------------------------
(* The inductive invariant.                                                *)

(* What the server holds it granted itself, each stamp after the ones it   *)
(* needs.                                                                  *)
Granted(state, held) ==
  \A s \in Held(state) :
    /\ state.stamps[s] = ServerTime /\ s \in held
    /\ SpotDef[s].prerequisites \subseteq Held(state)

Pulling(c) == c.at = "applying" => Granted(c.current, Held(server[who]))

WorldInv ==
  /\ \A u \in Users : Granted(server[u], Held(server[u]))
  /\ \A a \in answers : a.ok => Granted(a.state, Held(server[a.user]))
  /\ Pulling(call) /\ (call.at = "saving" => Pulling(call.next))

(* A key names one operation, and is answered for that one.                *)
Named == Waiting \union flying \union (IF call.at = "asking" THEN {call.op} ELSE {})

KeyInv ==
  /\ \A x \in Named : x.key <= keys
  /\ \A x, y \in Named : x.key = y.key => x.kind = y.kind /\ x.resource = y.resource
  /\ \A a \in answers :
       /\ a.key <= keys
       /\ \A x \in Named : a.ok /\ a.key = x.key /\ x.kind = "checkIn" => x.resource \in Held(a.state)

(* The results that are being applied were found among the answers.        *)
Found(result) ==
  /\ result.status # "FAILED_RETRYABLE" => Answer(result.key) # {}
  /\ result.status = "ACCEPTED" => \E a \in Answer(result.key) : a.ok

FoundAll(c) == c.at = "applying" => \A result \in ToSet(c.results) : Found(result)

ResultInv == FoundAll(call) /\ (call.at = "saving" => FoundAll(call.next))

(* A stamp is the server's or that of a check-in in the queue.             *)
Accounted(state, excused, granted, ops) ==
  \A s \in Held(state) \ excused :
    \/ s \in granted
    \/ \E op \in ops : op.kind = "checkIn" /\ op.resource = s /\ op.at = state.stamps[s]

(* A stamp lacks only prerequisites that were rejected; one of the         *)
(* server's comes with the server's.                                       *)
Complete(state, excused, gone) ==
  \A s \in Held(state) \ excused : \A p \in SpotDef[s].prerequisites :
    IF state.stamps[s] = ServerTime THEN state.stamps[p] = ServerTime
    ELSE p \in Held(state) \union gone

Sound(state, u, exempt) ==
  /\ Accounted(state, brought[u] \union exempt, Held(server[u]), ToSet(queue[u]))
  /\ Complete(state, brought[u], refused[u])

StateInv ==
  /\ call.at # "closed" => Sound(mem, who, Orphan)
  /\ \A u \in Users : saved[u] # Null => Sound(saved[u], u, IF u = who THEN Orphan ELSE {})
  /\ call.at = "saving" => Sound(call.state, who, {})
  /\ call.at \in MovesAt => Sound(call.state, call.to, {})

(* Where a call stands, and what it relies on.                             *)
AskInv ==
  /\ call.at = "asking" =>
       /\ call.op.base = mem
       /\ call.op.kind = "checkIn" => MayCheckIn(call.op.resource)
  /\ call.at = "waiting" => queue[who] # <<>> /\ call.op = Head(queue[who])

(* The guest is shown what is saved; once linked, it is all brought.       *)
LinkInv ==
  /\ call.at \in MovesAt \union {"linking"} => who = Guest
  /\ who = Guest /\ call.at # "closed" /\ saved[Guest] # Null => Held(saved[Guest]) \subseteq Held(mem)
  /\ call.at \in MovesAt =>
       /\ Held(mem) \subseteq brought[Guest] /\ Held(mem) \subseteq brought[call.to]
       /\ Held(mem) \subseteq Held(call.state)
  /\ call.at = "emptyOps" => call.ops = queue[Guest]
  /\ call.at = "writeHistory" => ToSet(call.ops) \subseteq ToSet(queue[call.to])

(* As long as storage refuses nothing, what is shown is what is saved.     *)
SameAs(kept, state) ==
  IF kept = Null THEN Held(state) = {} /\ Consumed(state) = {}
  ELSE kept.stamps = state.stamps /\ Consumed(kept) = Consumed(state)

SavedInv == refusals = 0 /\ call.at \notin {"closed", "saving"} => SameAs(saved[who], mem)

ClientInv ==
  TypeInv /\ WorldInv /\ KeyInv /\ ResultInv /\ StateInv /\ AskInv /\ LinkInv /\ SavedInv

-----------------------------------------------------------------------------
(* Lemmas on the parts.                                                    *)

LEMMA SavingType ==
  ASSUME NEW state \in ClientStates, NEW orphan \in SUBSET Spots, NEW next \in Going
  PROVE  CallType(Saving(state, orphan, next))
  BY DEF CallType, Saving, CallsAt, MovesAt

LEMMA GoingType ==
  /\ \A c \in Going : CallType(c)
  /\ CallType(Idle) /\ CallType(Closed) /\ Idle \in Going
  BY DEF CallType, Going, Idle, Closed, Applying, CallsAt, MovesAt

LEMMA LoadedIs ==
  ASSUME TypeInv, NEW u \in Users
  PROVE  /\ Loaded(u) \in ClientStates
         /\ saved[u] = Null => Held(Loaded(u)) = {} /\ Consumed(Loaded(u)) = {}
         /\ saved[u] # Null => /\ Loaded(u).stamps = saved[u].stamps
                               /\ Consumed(Loaded(u)) = Consumed(saved[u])
<1>1. saved[u] \in ClientStates \union {Null} /\ clock \in Nat
  BY DEF TypeInv
<1>2. CASE saved[u] = Null
  BY <1>1, <1>2, EmptyStateIs DEF Loaded, Held
<1>3. CASE saved[u] # Null
  BY <1>1, <1>3, ReconciledIs DEF Loaded
<1> QED BY <1>2, <1>3

LEMMA AccountedGrows ==
  ASSUME NEW state, NEW excused, NEW granted, NEW ops, NEW excused2, NEW granted2, NEW ops2,
         excused \subseteq excused2, granted \subseteq granted2, ops \subseteq ops2,
         Accounted(state, excused, granted, ops)
  PROVE  Accounted(state, excused2, granted2, ops2)
  BY Zenon DEF Accounted

LEMMA CompleteGrows ==
  ASSUME NEW state, NEW excused, NEW gone, NEW excused2, NEW gone2,
         excused \subseteq excused2, gone \subseteq gone2, Complete(state, excused, gone)
  PROVE  Complete(state, excused2, gone2)
  BY DEF Complete

LEMMA SameStamps ==
  ASSUME NEW state, NEW other, other.stamps = state.stamps, NEW excused, NEW granted, NEW ops, NEW gone
  PROVE  /\ Accounted(state, excused, granted, ops) => Accounted(other, excused, granted, ops)
         /\ Complete(state, excused, gone) => Complete(other, excused, gone)
<1>1. Held(other) = Held(state)
  BY DEF Held
<1> QED BY <1>1 DEF Accounted, Complete

LEMMA Excused ==
  ASSUME NEW state, NEW excused, Held(state) \subseteq excused, NEW granted, NEW ops, NEW gone
  PROVE  Accounted(state, excused, granted, ops) /\ Complete(state, excused, gone)
  BY DEF Accounted, Complete

LEMMA GrantedIs ==
  ASSUME NEW state \in ClientStates, NEW granted, Granted(state, granted),
         NEW excused, NEW ops, NEW gone
  PROVE  Accounted(state, excused, granted, ops) /\ Complete(state, excused, gone)
<1>1. Accounted(state, excused, granted, ops)
  BY DEF Granted, Accounted
<1>2. Complete(state, excused, gone)
  BY DEF Granted, Complete
<1> QED BY <1>1, <1>2

LEMMA TimeIs == ServerTime \in Nat /\ ServerTime # Null
  BY SpotsAssumption, NullAssumption DEF ServerTime

LEMMA QueuedTime == \A op \in Operations : op.at \in Nat /\ op.at # ServerTime /\ op.at # Null
  BY SpotsAssumption, NullAssumption DEF Operations, WellMade, ServerTime

LEMMA ReplaySound ==
  ASSUME NEW state \in ClientStates, NEW log \in Seq(Operations),
         NEW excused, NEW granted, NEW gone,
         Accounted(state, excused, granted, ToSet(log)), Complete(state, excused, gone)
  PROVE  /\ Replay(state, log) \in ClientStates
         /\ Accounted(Replay(state, log), excused, granted, ToSet(log))
         /\ Complete(Replay(state, log), excused, gone)
<1> DEFINE next == Replay(state, log)
<1>1. next \in ClientStates /\ Extends(state, next, ToSet(log))
  BY ReplayIs
<1>2. \A op \in ToSet(log) : op \in Operations
  BY ElementOfSeq, LenProperties, Zenon DEF ToSet
<1> HIDE DEF next
<1>3. Accounted(next, excused, granted, ToSet(log))
  BY <1>1 DEF Accounted, Extends, Held
<1>4. ASSUME NEW s \in Held(next) \ excused, NEW p \in SpotDef[s].prerequisites
      PROVE  IF next.stamps[s] = ServerTime THEN next.stamps[p] = ServerTime
             ELSE p \in Held(next) \union gone
  <2>1. s \in Spots /\ p \in Spots
    BY SpotsAssumption DEF Held
  <2>2. CASE next.stamps[s] = state.stamps[s]
    <3>1. s \in Held(state) \ excused
      BY <2>1, <2>2 DEF Held
    <3>2. IF next.stamps[s] = ServerTime THEN state.stamps[p] = ServerTime
          ELSE p \in Held(state) \union gone
      BY <2>2, <3>1 DEF Complete
    <3>3. state.stamps[p] # Null => next.stamps[p] = state.stamps[p]
      BY <1>1, <2>1 DEF Extends
    <3> QED BY <2>1, <3>2, <3>3, TimeIs DEF Held
  <2>3. CASE next.stamps[s] # state.stamps[s]
    <3>1. /\ SpotDef[s].prerequisites \subseteq Held(next)
          /\ \E op \in ToSet(log) : op.at = next.stamps[s]
      BY <1>1, <2>1, <2>3 DEF Extends
    <3>2. next.stamps[s] # ServerTime
      BY <1>2, <3>1, QueuedTime
    <3> QED BY <3>1, <3>2
  <2> QED BY <2>2, <2>3
<1>5. Complete(next, excused, gone)
  BY <1>4 DEF Complete
<1> QED BY <1>1, <1>3, <1>5 DEF next

LEMMA RollbackSound ==
  ASSUME NEW state \in ClientStates, NEW op \in Operations,
         NEW excused, NEW granted, NEW ops, NEW gone,
         Accounted(state, excused, granted, ops \union {op}), Complete(state, excused, gone)
  PROVE  /\ Rollback(state, op) \in ClientStates
         /\ Accounted(Rollback(state, op), excused, granted, ops)
         /\ Complete(Rollback(state, op), excused, gone \union CheckInsOf(op))
<1> DEFINE next == Rollback(state, op)
           taken(s) == op.kind = "checkIn" /\ s = op.resource
<1>1. /\ next \in ClientStates
      /\ \A s \in Spots :
           \/ next.stamps[s] = state.stamps[s] /\ (taken(s) => state.stamps[s] # op.at)
           \/ next.stamps[s] = Null /\ taken(s) /\ state.stamps[s] = op.at
  BY RollbackIs
<1> HIDE DEF next
<1>2. \A s \in Held(next) : s \in Held(state) /\ next.stamps[s] = state.stamps[s]
                            /\ (taken(s) => state.stamps[s] # op.at)
  BY <1>1 DEF Held
<1>3. Accounted(next, excused, granted, ops)
  BY <1>2 DEF Accounted
<1>4. ASSUME NEW s \in Held(next) \ excused, NEW p \in SpotDef[s].prerequisites
      PROVE  IF next.stamps[s] = ServerTime THEN next.stamps[p] = ServerTime
             ELSE p \in Held(next) \union (gone \union CheckInsOf(op))
  <2>1. s \in Spots /\ p \in Spots
    BY SpotsAssumption DEF Held
  <2>2. IF next.stamps[s] = ServerTime THEN state.stamps[p] = ServerTime
        ELSE p \in Held(state) \union gone
    BY <1>2 DEF Complete
  <2>3. CASE next.stamps[p] = state.stamps[p]
    BY <2>1, <2>2, <2>3 DEF Held
  <2>4. CASE next.stamps[p] # state.stamps[p]
    <3>1. taken(p) /\ state.stamps[p] = op.at
      BY <1>1, <2>1, <2>4
    <3>2. p \in CheckInsOf(op) /\ state.stamps[p] # ServerTime
      BY <3>1, QueuedTime DEF CheckInsOf
    <3> QED BY <2>2, <3>2
  <2> QED BY <2>3, <2>4
<1>5. Complete(next, excused, gone \union CheckInsOf(op))
  BY <1>4 DEF Complete
<1> QED BY <1>1, <1>3, <1>5 DEF next

-----------------------------------------------------------------------------
(* Steps of a call that leave what is shown and what is saved alone.       *)

Alike(x, y) == x.key = y.key /\ x.kind = y.kind /\ x.resource = y.resource

LEMMA KeysKept ==
  ASSUME KeyInv, keys' = keys, answers' = answers,
         \A x \in Named' : \E y \in Named : Alike(x, y)
  PROVE  KeyInv'
<1>1. \A x \in Named' : x.key <= keys
  BY DEF KeyInv, Alike
<1>2. ASSUME NEW x \in Named', NEW y \in Named', x.key = y.key
      PROVE  x.kind = y.kind /\ x.resource = y.resource
  <2>1. PICK x0 \in Named : Alike(x, x0)
    OBVIOUS
  <2>2. PICK y0 \in Named : Alike(y, y0)
    OBVIOUS
  <2> QED BY <1>2, <2>1, <2>2 DEF KeyInv, Alike
<1>3. ASSUME NEW a \in answers, NEW x \in Named', a.ok, a.key = x.key, x.kind = "checkIn"
      PROVE  x.resource \in Held(a.state)
  <2>1. PICK y \in Named : Alike(x, y)
    OBVIOUS
  <2> QED BY <1>3, <2>1 DEF KeyInv, Alike
<1>4. \A a \in answers : a.key <= keys
  BY DEF KeyInv
<1> HIDE DEF Named
<1> QED BY <1>1, <1>2, <1>3, <1>4 DEF KeyInv

LEMMA QuietKeeps ==
  ASSUME ClientInv, call.at \notin {"closed", "saving"} \union MovesAt,
         UNCHANGED <<clock, who, mem, saved, queue, refused, keys, brought, answers, server, stock,
                     limits>>,
         flying' \in SUBSET Requests, \A x \in Named' : \E y \in Named : Alike(x, y),
         CallType(call'),
         call'.at \in {"idle", "head", "waiting", "pulling", "applying", "linking"},
         call'.at = "waiting" => queue[who] # <<>> /\ call'.op = Head(queue[who]),
         call'.at = "linking" => who = Guest,
         call'.at = "applying" => /\ Granted(call'.current, Held(server[who]))
                                  /\ \A result \in ToSet(call'.results) : Found(result)
  PROVE  ClientInv'
<1>1. TypeInv'
  BY DEF ClientInv, TypeInv, limits
<1>2. WorldInv'
  BY DEF ClientInv, WorldInv, Pulling
<1>3. KeyInv'
  BY KeysKept DEF ClientInv
<1>4. ResultInv'
  BY DEF ClientInv, ResultInv, FoundAll, Found, Answer
<1>5. Orphan = {} /\ Orphan' = {}
  BY DEF Orphan
<1>6. StateInv'
  BY <1>5 DEF ClientInv, StateInv, Sound, MovesAt
<1>7. AskInv'
  BY DEF ClientInv, AskInv
<1>8. LinkInv'
  BY DEF ClientInv, LinkInv, MovesAt
<1>9. SavedInv'
  BY DEF ClientInv, SavedInv, limits
<1> QED BY <1>1, <1>2, <1>3, <1>4, <1>6, <1>7, <1>8, <1>9 DEF ClientInv

LEMMA Unqueued ==
  ASSUME NEW state, NEW excused, NEW granted, NEW ops, NEW left, NEW orphan,
         Accounted(state, excused, granted, ops),
         \A op \in ops \ left : op.kind = "checkIn" => op.resource \in orphan \union granted
  PROVE  Accounted(state, excused \union orphan, granted, left)
  BY DEF Accounted

(* A call is about to save a state: the queue may have lost operations     *)
(* whose stamps the server granted or that the call will take back.        *)
LEMMA SavingKeeps ==
  ASSUME ClientInv, call.at \notin {"closed", "saving"} \union MovesAt,
         UNCHANGED <<clock, who, mem, saved, keys, world, limits>>,
         queue' \in [Users -> Seq(Operations)],
         refused' \in [Users -> SUBSET Spots], brought' \in [Users -> SUBSET Spots],
         \A u \in Users : /\ u # who => ToSet(queue'[u]) = ToSet(queue[u])
                          /\ refused[u] \subseteq refused'[u] /\ brought[u] \subseteq brought'[u],
         \A x \in Named' : \E y \in Named : Alike(x, y),
         CallType(call'), call'.at = "saving",
         \A op \in ToSet(queue[who]) \ ToSet(queue'[who]) :
           op.kind = "checkIn" => op.resource \in call'.orphan \union Held(server[who]),
         Accounted(call'.state, brought'[who], Held(server[who]), ToSet(queue'[who])),
         Complete(call'.state, brought'[who], refused'[who]),
         call'.next.at = "applying" =>
           /\ Granted(call'.next.current, Held(server[who]))
           /\ \A result \in ToSet(call'.next.results) : Found(result)
  PROVE  ClientInv'
<1>1. TypeInv'
  BY DEF ClientInv, TypeInv, limits, world
<1>2. WorldInv'
  BY DEF ClientInv, WorldInv, Pulling, world
<1>3. KeyInv'
  BY KeysKept DEF ClientInv, world
<1>4. ResultInv'
  BY DEF ClientInv, ResultInv, FoundAll, Found, Answer, world
<1>5. Orphan = {} /\ Orphan' = call'.orphan
  BY DEF Orphan
<1>6. StateInv'
  <2>1. who \in Users /\ Sound(mem, who, {}) /\ \A u \in Users : saved[u] # Null => Sound(saved[u], u, {})
    BY <1>5 DEF ClientInv, StateInv, TypeInv
  <2>2. ASSUME NEW state, Sound(state, who, {})
        PROVE  /\ Accounted(state, brought'[who] \union call'.orphan, Held(server[who]), ToSet(queue'[who]))
               /\ Complete(state, brought'[who], refused'[who])
    <3>1. Accounted(state, brought[who], Held(server[who]), ToSet(queue[who]))
          /\ Complete(state, brought[who], refused[who])
      BY <2>2 DEF Sound
    <3>2. Accounted(state, brought[who] \union call'.orphan, Held(server[who]), ToSet(queue'[who]))
      BY <3>1, Unqueued
    <3>3. brought[who] \subseteq brought'[who] /\ refused[who] \subseteq refused'[who]
      BY <2>1
    <3>4. brought[who] \union call'.orphan \subseteq brought'[who] \union call'.orphan
      BY <3>3
    <3>5. Accounted(state, brought'[who] \union call'.orphan, Held(server[who]), ToSet(queue'[who]))
      BY <3>2, <3>4, AccountedGrows
    <3>6. Complete(state, brought'[who], refused'[who])
      BY <3>1, <3>3 DEF Complete
    <3> QED BY <3>5, <3>6
  <2>3. ASSUME NEW u \in Users, NEW state, u # who, Sound(state, u, {})
        PROVE  /\ Accounted(state, brought'[u], Held(server[u]), ToSet(queue'[u]))
               /\ Complete(state, brought'[u], refused'[u])
    <3>1. Accounted(state, brought[u], Held(server[u]), ToSet(queue[u]))
          /\ Complete(state, brought[u], refused[u])
      BY <2>3 DEF Sound
    <3>2. /\ brought[u] \subseteq brought'[u] /\ refused[u] \subseteq refused'[u]
          /\ ToSet(queue[u]) \subseteq ToSet(queue'[u])
      BY <2>3
    <3>3. Accounted(state, brought'[u], Held(server[u]), ToSet(queue'[u]))
      BY <3>1, <3>2, AccountedGrows
    <3>4. Complete(state, brought'[u], refused'[u])
      BY <3>1, <3>2, CompleteGrows
    <3> QED BY <3>3, <3>4
  <2>4. Sound(mem, who, Orphan)'
    BY <1>5, <2>1, <2>2 DEF Sound, world
  <2>5. ASSUME NEW u \in Users, saved[u] # Null
        PROVE  Sound(saved[u], u, IF u = who THEN Orphan ELSE {})'
    <3>1. Sound(saved[u], u, {})
      BY <2>1, <2>5
    <3>2. CASE u = who
      BY <1>5, <2>2, <3>1, <3>2 DEF Sound, world
    <3>3. CASE u # who
      BY <2>3, <3>1, <3>3 DEF Sound, world
    <3> QED BY <3>2, <3>3
  <2>6. Sound(call.state, who, {})'
    BY DEF Sound, world
  <2> QED BY <2>4, <2>5, <2>6 DEF StateInv, MovesAt
<1>7. AskInv'
  BY DEF AskInv
<1>8. LinkInv'
  BY DEF ClientInv, LinkInv, MovesAt
<1>9. SavedInv'
  BY DEF SavedInv
<1> QED BY <1>1, <1>2, <1>3, <1>4, <1>6, <1>7, <1>8, <1>9 DEF ClientInv

-----------------------------------------------------------------------------
(* The steps of a call, first those that save nothing.                     *)

LEMMA QueuedIs ==
  ASSUME TypeInv, NEW u \in Users
  PROVE  /\ queue[u] \in Seq(Operations)
         /\ \A op \in ToSet(queue[u]) : op \in Operations /\ op \in Waiting
         /\ queue[u] # <<>> =>
              /\ Tail(queue[u]) \in Seq(Operations) /\ Head(queue[u]) \in Operations
              /\ ToSet(queue[u]) = ToSet(Tail(queue[u])) \union {Head(queue[u])}
<1>1. queue[u] \in Seq(Operations)
  BY DEF TypeInv
<1>2. \A op \in ToSet(queue[u]) : op \in Operations
  BY <1>1, ElementOfSeq, LenProperties, Zenon DEF ToSet
<1>3. \A op \in ToSet(queue[u]) : op \in Waiting
  BY DEF Waiting
<1> QED BY <1>1, <1>2, <1>3, HeadIs

LEMMA RequestIs ==
  ASSUME who \in Users, NEW op \in Operations
  PROVE  Request(op) \in Requests /\ Alike(Request(op), op)
  BY DEF Request, Requests, Kinds, Operations, WellMade, Alike

LEMMA NamedKept ==
  ASSUME TypeInv, queue' = queue, call'.at \notin {"asking", "emptyHistory", "writeOps"},
         flying' \subseteq flying \union {Request(op) : op \in ToSet(queue[who])}
  PROVE  /\ \A x \in Named' : \E y \in Named : Alike(x, y)
         /\ flying' \in SUBSET Requests
<1>1. who \in Users /\ flying \in SUBSET Requests
  BY DEF TypeInv
<1>2. \A op \in ToSet(queue[who]) :
        op \in Named /\ Request(op) \in Requests /\ Alike(Request(op), op)
  BY <1>1, QueuedIs, RequestIs DEF Named
<1>3. ASSUME NEW x \in Named' PROVE x \in Named \/ \E op \in ToSet(queue[who]) : x = Request(op)
  <2>1. x \in UNION {ToSet(queue[u]) : u \in Users} \/ x \in flying'
    BY <1>3 DEF Named, Waiting
  <2>2. x \in flying' => x \in flying \/ \E op \in ToSet(queue[who]) : x = Request(op)
    OBVIOUS
  <2> QED BY <2>1, <2>2 DEF Named, Waiting
<1>4. \A x : Alike(x, x)
  BY DEF Alike
<1>5. ASSUME NEW x \in Named' PROVE \E y \in Named : Alike(x, y)
  <2> HIDE DEF Named
  <2> QED BY <1>2, <1>3, <1>4
<1> QED BY <1>1, <1>2, <1>5

LEMMA QueueDoneKeeps == ASSUME ClientInv, QueueDone PROVE ClientInv'
<1>1. TypeInv /\ call \in [at : {"head"}, pull : BOOLEAN]
  BY DEF ClientInv, TypeInv, CallType, QueueDone
<1>2. CallType(call') /\ call'.at \in {"pulling", "idle"}
  <2>1. <<>> \in Seq(Operations)
    BY EmptySeq
  <2> QED BY <2>1, GoingType DEF QueueDone, CallType, CallsAt, MovesAt, Idle
<1>3. \A x \in Named' : \E y \in Named : Alike(x, y)
  BY <1>1, <1>2, NamedKept DEF QueueDone, world
<1> QED
  BY <1>1, <1>2, <1>3, QuietKeeps DEF QueueDone, world, MovesAt, ClientInv, TypeInv

LEMMA SyncFailsKeeps == ASSUME ClientInv, SyncFails PROVE ClientInv'
<1>1. TypeInv
  BY DEF ClientInv
<1>2. CallType(call') /\ call'.at = "idle"
  BY GoingType DEF SyncFails, Idle
<1>3. \A x \in Named' : \E y \in Named : Alike(x, y)
  BY <1>1, <1>2, NamedKept DEF SyncFails, world
<1> QED
  BY <1>1, <1>2, <1>3, QuietKeeps DEF SyncFails, world, MovesAt, TypeInv

LEMMA LinkAccountKeeps ==
  ASSUME ClientInv, NEW account \in Accounts, LinkAccount(account)
  PROVE  ClientInv'
<1>1. TypeInv /\ call.at = "idle"
  BY DEF ClientInv, LinkAccount, Idle
<1>2. CallType(call') /\ call'.at = "linking"
  BY DEF LinkAccount, CallType, CallsAt, MovesAt
<1>3. \A x \in Named' : \E y \in Named : Alike(x, y)
  BY <1>1, <1>2, NamedKept DEF LinkAccount, world
<1> QED
  BY <1>1, <1>2, <1>3, QuietKeeps DEF LinkAccount, world, MovesAt, TypeInv

LEMMA SyncKeeps ==
  ASSUME ClientInv, NEW kind, Sync(kind)
  PROVE  ClientInv'
<1>1. TypeInv /\ call.at = "idle" /\ who \in Users /\ queue[who] \in Seq(Operations)
  BY DEF ClientInv, Sync, Idle, TypeInv
<1>2. CallType(call') /\ call'.at \in {"pulling", "head"}
  <2>1. (kind = "eachThenPull") \in BOOLEAN
    OBVIOUS
  <2> QED BY <1>1, <2>1 DEF Sync, CallType, CallsAt, MovesAt
<1>3. flying' \subseteq flying \union {Request(op) : op \in ToSet(queue[who])}
  BY DEF Sync
<1>4. flying' \in SUBSET Requests /\ \A x \in Named' : \E y \in Named : Alike(x, y)
  BY <1>1, <1>2, <1>3, NamedKept DEF Sync
<1> QED
  BY <1>1, <1>2, <1>4, QuietKeeps DEF Sync, MovesAt, limits

LEMMA SendHeadKeeps == ASSUME ClientInv, SendHead PROVE ClientInv'
<1> DEFINE op == Head(queue[who])
<1>1. TypeInv /\ call \in [at : {"head"}, pull : BOOLEAN] /\ who \in Users
  BY DEF ClientInv, TypeInv, CallType, SendHead
<1>2. op \in Operations /\ op \in ToSet(queue[who])
  BY <1>1, QueuedIs DEF SendHead
<1>3. CallType(call') /\ call'.at = "waiting" /\ call'.op = op
  BY <1>1, <1>2 DEF SendHead, CallType, CallsAt, MovesAt
<1>4. flying' \subseteq flying \union {Request(o) : o \in ToSet(queue[who])}
  BY <1>2 DEF SendHead
<1>5. flying' \in SUBSET Requests /\ \A x \in Named' : \E y \in Named : Alike(x, y)
  BY <1>1, <1>3, <1>4, NamedKept DEF SendHead
<1> QED
  BY <1>1, <1>3, <1>5, QuietKeeps DEF SendHead, MovesAt, limits

LEMMA PulledKeeps == ASSUME ClientInv, Pulled PROVE ClientInv'
<1>1. /\ TypeInv /\ call \in [at : {"pulling"}, ops : Seq(Operations)]
      /\ who \in Users /\ server[who] \in ClientStates /\ stock \in Nat
  BY DEF ClientInv, TypeInv, CallType, Pulled
<1>2. Attached(server[who]) \in ClientStates /\ Attached(server[who]).stamps = server[who].stamps
  <2> DEFINE left == [s \in Shelves |-> IF s = "shared" THEN stock ELSE Null]
  <2>1. left \in Levels
    BY <1>1 DEF Levels, OptionalNat
  <2> HIDE DEF left
  <2>2. Attached(server[who]) = [server[who] EXCEPT !.left = left]
    BY DEF Attached, left
  <2> QED BY <1>1, <2>1, <2>2 DEF ClientStates
<1>3. Granted(Attached(server[who]), Held(server[who]))
  <2>1. Granted(server[who], Held(server[who]))
    BY <1>1 DEF ClientInv, WorldInv
  <2> QED BY <1>2, <2>1, HeldIs DEF Granted
<1> DEFINE results == [i \in DOMAIN call.ops |-> Result(call.ops[i])]
<1>4. \A i \in DOMAIN call.ops : Result(call.ops[i]) \in Results /\ Found(Result(call.ops[i]))
  <2> SUFFICES ASSUME NEW i \in DOMAIN call.ops
               PROVE  Result(call.ops[i]) \in Results /\ Found(Result(call.ops[i]))
    OBVIOUS
  <2>1. call.ops[i] \in Operations
    BY <1>1
  <2>2. call.ops[i].key \in Nat
    BY <2>1 DEF Operations
  <2> QED BY <2>2 DEF Result, Results, Found
<1>5. results \in Seq(Results) /\ \A result \in ToSet(results) : Found(result)
  <2>1. DOMAIN call.ops = 1..Len(call.ops) /\ Len(call.ops) \in Nat
    BY <1>1, LenProperties
  <2>2. results \in Seq(Results) /\ DOMAIN results = DOMAIN call.ops
    <3> HIDE DEF Results
    <3> QED BY <1>4, <2>1
  <2>3. \A i \in DOMAIN call.ops : Found(results[i])
    <3> HIDE DEF Found
    <3> QED BY <1>4
  <2> HIDE DEF results
  <2> QED BY <2>2, <2>3, Zenon DEF ToSet
<1>6. call' = [at |-> "applying", current |-> Attached(server[who]), results |-> results]
  BY DEF Pulled
<1> HIDE DEF results
<1>7. CallType(call') /\ call'.at = "applying" /\ call'.current = Attached(server[who])
      /\ call'.results = results
  BY <1>2, <1>5, <1>6 DEF CallType, CallsAt, MovesAt, Applying
<1>8. \A x \in Named' : \E y \in Named : Alike(x, y)
  BY <1>1, <1>7, NamedKept DEF Pulled, world
<1> QED
  BY <1>1, <1>3, <1>5, <1>7, <1>8, QuietKeeps DEF Pulled, world, MovesAt, TypeInv

-----------------------------------------------------------------------------
(* The steps that are about to save a state.                               *)

LEMMA NamedSaving ==
  ASSUME flying' = flying, call'.at = "saving",
         \A u \in Users : \A op \in ToSet(queue'[u]) : op \in ToSet(queue[u]) \/ op \in Named
  PROVE  \A x \in Named' : \E y \in Named : Alike(x, y)
<1>1. \A x \in Named' : x \in Named
  BY DEF Named, Waiting
<1> HIDE DEF Named
<1> QED BY <1>1 DEF Alike

LEMMA StampedSound ==
  ASSUME NEW state \in ClientStates, NEW spot \in Spots, NEW now \in Nat, state.stamps[spot] = Null,
         NEW next, next.stamps = [state.stamps EXCEPT ![spot] = now],
         NEW excused, NEW granted, NEW ops, NEW gone,
         Accounted(state, excused, granted, ops), Complete(state, excused, gone)
  PROVE  /\ Accounted(next, excused \union {spot}, granted, ops)
         /\ Complete(next, excused \union {spot}, gone)
         /\ SpotDef[spot].prerequisites \subseteq Held(state) /\ now # ServerTime =>
              Complete(next, excused, gone)
         /\ \A op : op.kind = "checkIn" /\ op.resource = spot /\ op.at = now =>
              Accounted(next, excused, granted, ops \union {op})
<1>1. /\ next.stamps[spot] = now /\ now # Null
      /\ \A s \in Spots \ {spot} : next.stamps[s] = state.stamps[s]
  BY NullAssumption DEF ClientStates
<1>2. Held(next) = Held(state) \union {spot} /\ spot \notin Held(state)
  BY <1>1 DEF Held
<1>3. Held(state) \subseteq Spots /\ \A s \in Spots : SpotDef[s].prerequisites \subseteq Spots
  BY SpotsAssumption DEF Held
<1>4. \A s \in Held(state) : next.stamps[s] = state.stamps[s]
  BY <1>1, <1>2, <1>3
<1>5. \A s \in Held(state) \ excused : s \in granted
        \/ \E op \in ops : op.kind = "checkIn" /\ op.resource = s /\ op.at = next.stamps[s]
  BY <1>4 DEF Accounted
<1>6. ASSUME NEW s \in Held(state) \ excused, NEW p \in SpotDef[s].prerequisites
      PROVE  IF next.stamps[s] = ServerTime THEN next.stamps[p] = ServerTime
             ELSE p \in Held(next) \union gone
  <2>1. s \in Spots /\ p \in Spots /\ next.stamps[s] = state.stamps[s]
    BY <1>3, <1>4
  <2>2. IF state.stamps[s] = ServerTime THEN state.stamps[p] = ServerTime
        ELSE p \in Held(state) \union gone
    BY DEF Complete
  <2>3. state.stamps[p] = ServerTime => p # spot
    BY TimeIs
  <2> QED BY <1>1, <1>2, <2>1, <2>2, <2>3
<1>7. Accounted(next, excused \union {spot}, granted, ops)
  BY <1>2, <1>5 DEF Accounted
<1>8. Complete(next, excused \union {spot}, gone)
  BY <1>2, <1>6 DEF Complete
<1>9. ASSUME SpotDef[spot].prerequisites \subseteq Held(state), now # ServerTime
      PROVE  Complete(next, excused, gone)
  BY <1>1, <1>2, <1>6, <1>9 DEF Complete
<1>10. ASSUME NEW op, op.kind = "checkIn", op.resource = spot, op.at = now
       PROVE  Accounted(next, excused, granted, ops \union {op})
  BY <1>1, <1>2, <1>5, <1>10 DEF Accounted
<1> QED BY <1>7, <1>8, <1>9, <1>10

LEMMA ShownSound ==
  ASSUME ClientInv, call.at \notin {"closed", "saving"}
  PROVE  /\ who \in Users /\ mem \in ClientStates /\ server[who] \in ClientStates
         /\ Accounted(mem, brought[who], Held(server[who]), ToSet(queue[who]))
         /\ Complete(mem, brought[who], refused[who])
         /\ Granted(server[who], Held(server[who]))
<1>1. Orphan = {}
  BY DEF Orphan
<1>2. who \in Users /\ mem \in ClientStates /\ server[who] \in ClientStates
  BY DEF ClientInv, TypeInv
<1>3. Accounted(mem, brought[who] \union {}, Held(server[who]), ToSet(queue[who]))
      /\ Complete(mem, brought[who], refused[who])
  BY <1>1 DEF ClientInv, StateInv, Sound
<1>4. brought[who] \union {} = brought[who]
  OBVIOUS
<1>5. Granted(server[who], Held(server[who]))
  BY <1>2 DEF ClientInv, WorldInv
<1> QED BY <1>2, <1>3, <1>4, <1>5

LEMMA UsersSame ==
  ASSUME TypeInv
  PROVE  /\ queue \in [Users -> Seq(Operations)]
         /\ refused \in [Users -> SUBSET Spots] /\ brought \in [Users -> SUBSET Spots]
  BY DEF TypeInv

LEMMA RestoreKeeps == ASSUME ClientInv, Restore PROVE ClientInv'
<1> DEFINE next == Reconciled(server[who])
<1>1. TypeInv /\ call.at = "idle"
  BY DEF ClientInv, Restore, Idle
<1>2. /\ who \in Users /\ server[who] \in ClientStates
      /\ Granted(server[who], Held(server[who]))
  BY <1>1, ShownSound
<1>3. next \in ClientStates /\ next.stamps = server[who].stamps
  BY <1>2, ReconciledIs
<1>4. call' = Saving(next, {}, Idle)
  BY DEF Restore
<1> HIDE DEF next
<1>5. Accounted(next, brought[who], Held(server[who]), ToSet(queue[who]))
      /\ Complete(next, brought[who], refused[who])
  BY <1>2, <1>3, GrantedIs, SameStamps
<1>6. CallType(call') /\ call'.at = "saving" /\ call'.state = next /\ call'.next = Idle
  BY <1>3, <1>4, SavingType, GoingType DEF Saving
<1>7. call'.next.at = "idle"
  BY <1>6 DEF Idle
<1>8. \A x \in Named' : \E y \in Named : Alike(x, y)
  BY <1>6, NamedSaving DEF Restore, world
<1> QED
  BY <1>1, <1>5, <1>6, <1>7, <1>8, SavingKeeps, UsersSame DEF Restore, MovesAt

LEMMA CheckInLocallyKeeps ==
  ASSUME ClientInv, NEW spot \in Spots, CheckInLocally(spot)
  PROVE  ClientInv'
<1> DEFINE next == LocalCheckIn(mem, spot, clock)
<1>1. TypeInv /\ call.at = "idle" /\ clock \in Nat
  BY DEF ClientInv, TypeInv, CheckInLocally, Idle
<1>2. /\ who \in Users /\ mem \in ClientStates
      /\ Accounted(mem, brought[who], Held(server[who]), ToSet(queue[who]))
      /\ Complete(mem, brought[who], refused[who])
  BY <1>1, ShownSound
<1>3. next \in ClientStates /\ next.stamps = [mem.stamps EXCEPT ![spot] = clock]
      /\ mem.stamps[spot] = Null
  BY <1>1, <1>2, LocalCheckInIs DEF CheckInLocally, MayCheckIn
<1>4. call' = Saving(next, {}, Idle)
  BY DEF CheckInLocally
<1> HIDE DEF next
<1>5. Accounted(next, brought[who] \union {spot}, Held(server[who]), ToSet(queue[who]))
      /\ Complete(next, brought[who] \union {spot}, refused[who])
  BY <1>1, <1>2, <1>3, StampedSound
<1>6. CallType(call') /\ call'.at = "saving" /\ call'.state = next /\ call'.next = Idle
  BY <1>3, <1>4, SavingType, GoingType DEF Saving
<1>7. call'.next.at = "idle"
  BY <1>6 DEF Idle
<1>8. \A x \in Named' : \E y \in Named : Alike(x, y)
  BY <1>6, NamedSaving DEF CheckInLocally, world
<1>9. /\ brought' \in [Users -> SUBSET Spots] /\ brought'[who] = brought[who] \union {spot}
      /\ \A u \in Users : brought[u] \subseteq brought'[u]
  BY <1>1, <1>2, UsersSame DEF CheckInLocally
<1> QED
  BY <1>1, <1>5, <1>6, <1>7, <1>8, <1>9, SavingKeeps, UsersSame DEF CheckInLocally, MovesAt

LEMMA AnswerIs ==
  ASSUME ClientInv, NEW key, NEW a \in Answer(key)
  PROVE  /\ a \in answers /\ a.user = who /\ a.key = key
         /\ a.ok => a.state \in ClientStates /\ Granted(a.state, Held(server[who]))
<1>1. a \in answers /\ a.user = who /\ a.key = key
  BY DEF Answer
<1>2. a \in Answers
  BY <1>1 DEF ClientInv, TypeInv
<1> QED BY <1>1, <1>2 DEF ClientInv, WorldInv, Answers

LEMMA AnsweredKeeps == ASSUME ClientInv, Answered PROVE ClientInv'
<1>1. TypeInv /\ call.at = "asking"
  BY DEF ClientInv, Answered
<1>2. PICK a \in Answer(call.op.key) : call' = IF a.ok THEN Saving(a.state, {}, Idle) ELSE Idle
  BY DEF Answered
<1>3. CASE a.ok
  <2>1. a.state \in ClientStates /\ Granted(a.state, Held(server[who]))
    BY <1>3, AnswerIs
  <2>2. Accounted(a.state, brought[who], Held(server[who]), ToSet(queue[who]))
        /\ Complete(a.state, brought[who], refused[who])
    BY <2>1, GrantedIs
  <2>3. CallType(call') /\ call'.at = "saving" /\ call'.state = a.state /\ call'.next = Idle
    BY <1>2, <1>3, <2>1, SavingType, GoingType DEF Saving
  <2>4. call'.next.at = "idle"
    BY <2>3 DEF Idle
  <2>5. \A x \in Named' : \E y \in Named : Alike(x, y)
    BY <2>3, NamedSaving DEF Answered, world
  <2> QED
    BY <1>1, <2>2, <2>3, <2>4, <2>5, SavingKeeps, UsersSame DEF Answered, MovesAt
<1>4. CASE ~a.ok
  <2>1. CallType(call') /\ call'.at = "idle"
    BY <1>2, <1>4, GoingType DEF Idle
  <2>2. flying' \in SUBSET Requests /\ \A x \in Named' : \E y \in Named : Alike(x, y)
    BY <1>1, <2>1, NamedKept DEF Answered, world
  <2> QED
    BY <1>1, <2>1, <2>2, QuietKeeps DEF Answered, world, MovesAt
<1> QED BY <1>3, <1>4

LEMMA NotAnsweredKeeps == ASSUME ClientInv, NotAnswered PROVE ClientInv'
<1> DEFINE op == call.op
           closed == op.kind = "checkIn" /\ op.at \notin SpotDef[op.resource].openAt
<1>1. TypeInv /\ call.at = "asking"
  BY DEF ClientInv, NotAnswered
<1>2. /\ who \in Users /\ mem \in ClientStates
      /\ Accounted(mem, brought[who], Held(server[who]), ToSet(queue[who]))
      /\ Complete(mem, brought[who], refused[who])
  BY <1>1, ShownSound
<1>3. op \in Operations /\ op.base = mem /\ (op.kind = "checkIn" => MayCheckIn(op.resource))
  BY <1>1 DEF TypeInv, CallType, ClientInv, AskInv
<1>4. CASE closed /\ call' = Idle /\ UNCHANGED queue
  <2>1. CallType(call') /\ call'.at = "idle"
    BY <1>4, GoingType DEF Idle
  <2>2. flying' \in SUBSET Requests /\ \A x \in Named' : \E y \in Named : Alike(x, y)
    BY <1>1, <1>4, <2>1, NamedKept DEF NotAnswered, world
  <2> QED
    BY <1>1, <1>4, <2>1, <2>2, QuietKeeps DEF NotAnswered, world, MovesAt
<1>5. CASE /\ ~closed
           /\ queue' = [queue EXCEPT ![who] = Append(@, op)]
           /\ call' = Saving(op.optimistic, {}, Idle)
  <2> DEFINE next == op.optimistic
             ops == ToSet(queue[who])
  <2>1. queue[who] \in Seq(Operations)
    BY <1>1, QueuedIs, <1>2
  <2>2. /\ queue' \in [Users -> Seq(Operations)] /\ queue'[who] = Append(queue[who], op)
        /\ \A u \in Users : u # who => queue'[u] = queue[u]
    BY <1>1, <1>2, <1>3, <1>5, <2>1, UsersSame, AppendedIs
  <2>3. ToSet(queue'[who]) = ops \union {op}
    BY <1>3, <2>1, <2>2, AppendedIs
  <2>4. next \in ClientStates /\ op.kind \in {"checkIn", "claimReward"} /\ op.at \in Nat
    BY <1>3 DEF Operations
  <2>5. Accounted(next, brought[who], Held(server[who]), ops \union {op})
        /\ Complete(next, brought[who], refused[who])
    <3>1. CASE op.kind = "checkIn"
      <4>1. op.resource \in Spots /\ next.stamps = [mem.stamps EXCEPT ![op.resource] = op.at]
        BY <1>3, <3>1 DEF Operations, WellMade
      <4>2. mem.stamps[op.resource] = Null /\ SpotDef[op.resource].prerequisites \subseteq Held(mem)
        BY <1>3, <3>1 DEF MayCheckIn
      <4>3. op.at # ServerTime
        BY <1>3, QueuedTime
      <4>4. Complete(next, brought[who], refused[who])
        BY <1>2, <2>4, <4>1, <4>2, <4>3, StampedSound
      <4>5. Accounted(next, brought[who], Held(server[who]), ops \union {op})
        <5> HIDE DEF op, next, ops
        <5> QED BY <1>2, <2>4, <3>1, <4>1, <4>2, StampedSound DEF ops
      <4> QED BY <4>4, <4>5
    <3>2. CASE op.kind = "claimReward"
      <4>1. next.stamps = mem.stamps
        BY <1>3, <3>2 DEF Operations, WellMade
      <4>2. Accounted(next, brought[who], Held(server[who]), ops)
            /\ Complete(next, brought[who], refused[who])
        BY <1>2, <4>1, SameStamps
      <4>3. Accounted(next, brought[who], Held(server[who]), ops \union {op})
        <5>1. ops \subseteq ops \union {op}
          OBVIOUS
        <5> HIDE DEF ops, op, next
        <5> QED BY <4>2, <5>1, AccountedGrows
      <4> QED BY <4>2, <4>3
    <3> QED BY <2>4, <3>1, <3>2
  <2>6. CallType(call') /\ call'.at = "saving" /\ call'.state = next /\ call'.next = Idle
    BY <1>5, <2>4, SavingType, GoingType DEF Saving
  <2>7. call'.next.at = "idle"
    BY <2>6 DEF Idle
  <2>8. op \in Named
    BY <1>1 DEF Named
  <2>9. \A u \in Users : \A o \in ToSet(queue'[u]) : o \in ToSet(queue[u]) \/ o \in Named
    BY <2>2, <2>3, <2>8
  <2>10. \A x \in Named' : \E y \in Named : Alike(x, y)
    BY <2>6, <2>9, NamedSaving DEF NotAnswered, world
  <2>11. UNCHANGED <<clock, who, mem, saved, keys, world, limits, refused, brought>>
    BY DEF NotAnswered
  <2>12. \A u \in Users : u # who => ToSet(queue'[u]) = ToSet(queue[u])
    BY <2>2
  <2>13. ToSet(queue[who]) \ ToSet(queue'[who]) = {}
    BY <2>3
  <2>14. /\ Accounted(call'.state, brought'[who], Held(server[who]), ToSet(queue'[who]))
         /\ Complete(call'.state, brought'[who], refused'[who])
    BY <2>3, <2>5, <2>6, <2>11
  <2> HIDE DEF op, next, ops, closed
  <2> QED
    BY <1>1, <2>2, <2>6, <2>7, <2>10, <2>11, <2>12, <2>13, <2>14, SavingKeeps, UsersSame DEF MovesAt
<1> QED BY <1>4, <1>5 DEF NotAnswered

LEMMA RebuiltSound ==
  ASSUME NEW state \in ClientStates, NEW log \in Seq(Operations),
         NEW excused, NEW granted, NEW gone,
         Accounted(state, excused, granted, ToSet(log)), Complete(state, excused, gone)
  PROVE  /\ Reconciled(Replay(state, log)) \in ClientStates
         /\ Accounted(Reconciled(Replay(state, log)), excused, granted, ToSet(log))
         /\ Complete(Reconciled(Replay(state, log)), excused, gone)
<1> DEFINE replayed == Replay(state, log)
           next == Reconciled(replayed)
<1>1. /\ replayed \in ClientStates
      /\ Accounted(replayed, excused, granted, ToSet(log)) /\ Complete(replayed, excused, gone)
  BY ReplaySound
<1> HIDE DEF replayed
<1>2. next \in ClientStates /\ next.stamps = replayed.stamps
  BY <1>1, ReconciledIs
<1> HIDE DEF next
<1>3. Accounted(next, excused, granted, ToSet(log)) /\ Complete(next, excused, gone)
  BY <1>1, <1>2, SameStamps
<1> QED BY <1>2, <1>3 DEF next, replayed

(* The head of the queue is rejected, by the server or unasked.            *)
LEMMA RejectedKeeps ==
  ASSUME ClientInv, call.at \in {"head", "waiting"}, queue[who] # <<>>,
         UNCHANGED <<clock, who, mem, saved, keys, brought, world, limits>>,
         queue' = [queue EXCEPT ![who] = Tail(queue[who])],
         refused' = [refused EXCEPT ![who] = @ \union CheckInsOf(Head(queue[who]))],
         call' = Saving(RolledBack(Head(queue[who]), Tail(queue[who])),
                        CheckInsOf(Head(queue[who])), call'.next),
         call'.next \in [at : {"head"}, pull : BOOLEAN]
  PROVE  ClientInv'
<1> DEFINE op == Head(queue[who])
           rest == Tail(queue[who])
           gone == CheckInsOf(op)
           back == Rollback(mem, op)
           next == RolledBack(op, rest)
<1>1. TypeInv
  BY DEF ClientInv
<1>2. /\ who \in Users /\ mem \in ClientStates
      /\ Accounted(mem, brought[who], Held(server[who]), ToSet(queue[who]))
      /\ Complete(mem, brought[who], refused[who])
  BY ShownSound
<1>3. /\ op \in Operations /\ rest \in Seq(Operations)
      /\ ToSet(queue[who]) = ToSet(rest) \union {op}
  BY <1>1, <1>2, QueuedIs
<1>4. gone \in SUBSET Spots /\ (op.kind = "checkIn" => op.resource \in gone)
  BY <1>3 DEF CheckInsOf, Operations, WellMade
<1> HIDE DEF op, rest
<1>5. /\ back \in ClientStates
      /\ Accounted(back, brought[who], Held(server[who]), ToSet(rest))
      /\ Complete(back, brought[who], refused[who] \union gone)
  <2>1. Accounted(mem, brought[who], Held(server[who]), ToSet(rest) \union {op})
    BY <1>2, <1>3
  <2> QED BY <1>2, <1>3, <2>1, RollbackSound
<1> HIDE DEF back, gone
<1>6. /\ next \in ClientStates
      /\ Accounted(next, brought[who], Held(server[who]), ToSet(rest))
      /\ Complete(next, brought[who], refused[who] \union gone)
  BY <1>3, <1>5, RebuiltSound DEF RolledBack, back
<1> HIDE DEF next
<1>7. call' = Saving(next, gone, call'.next) /\ call'.next \in Going /\ call'.next.at = "head"
  BY DEF next, gone, op, rest, Going
<1>8. call'.at = "saving" /\ call'.state = next /\ call'.orphan = gone
  BY <1>7 DEF Saving
<1>9. CallType(call')
  BY <1>4, <1>6, <1>7, SavingType
<1>10. /\ queue' \in [Users -> Seq(Operations)] /\ queue'[who] = rest
       /\ \A u \in Users : u # who => queue'[u] = queue[u]
  BY <1>1, <1>2, <1>3, UsersSame DEF rest
<1>11. /\ refused' \in [Users -> SUBSET Spots] /\ refused'[who] = refused[who] \union gone
       /\ \A u \in Users : refused[u] \subseteq refused'[u]
  BY <1>1, <1>2, <1>4, UsersSame DEF gone, op
<1>12. /\ brought' \in [Users -> SUBSET Spots] /\ \A u \in Users : brought[u] \subseteq brought'[u]
  BY <1>1, UsersSame
<1>13. \A u \in Users : \A o \in ToSet(queue'[u]) : o \in ToSet(queue[u]) \/ o \in Named
  BY <1>3, <1>10
<1>14. \A x \in Named' : \E y \in Named : Alike(x, y)
  BY <1>8, <1>13, NamedSaving DEF world
<1>15. /\ Accounted(call'.state, brought'[who], Held(server[who]), ToSet(queue'[who]))
       /\ Complete(call'.state, brought'[who], refused'[who])
  BY <1>6, <1>8, <1>10, <1>11
<1>16. \A o \in ToSet(queue[who]) \ ToSet(queue'[who]) :
          o.kind = "checkIn" => o.resource \in call'.orphan \union Held(server[who])
  BY <1>3, <1>4, <1>8, <1>10
<1>17. call.at \notin {"closed", "saving"} \union MovesAt
  BY DEF MovesAt
<1> QED
  BY <1>7, <1>8, <1>9, <1>10, <1>11, <1>12, <1>14, <1>15, <1>16, <1>17, SavingKeeps

LEMMA SkipHeadKeeps == ASSUME ClientInv, SkipHead PROVE ClientInv'
<1>1. call \in [at : {"head"}, pull : BOOLEAN] /\ queue[who] # <<>>
  BY DEF ClientInv, TypeInv, CallType, SkipHead
<1>2. Reject(Head(queue[who]), call)
  BY DEF SkipHead
<1>3. call'.next = call
  BY <1>2 DEF Reject, Saving
<1> QED
  BY <1>1, <1>2, <1>3, RejectedKeeps DEF SkipHead, Reject

LEMMA HeadAnsweredKeeps == ASSUME ClientInv, HeadAnswered PROVE ClientInv'
<1> DEFINE op == call.op
           rest == Tail(queue[who])
           next == [at |-> "head", pull |-> call.pull]
<1>1. /\ TypeInv /\ call \in [at : {"waiting"}, op : Operations, pull : BOOLEAN]
      /\ queue[who] # <<>> /\ op = Head(queue[who])
  BY DEF ClientInv, TypeInv, CallType, AskInv, HeadAnswered
<1>2. who \in Users
  BY <1>1 DEF TypeInv
<1>3. PICK a \in Answer(op.key) :
        IF ~a.ok THEN Reject(op, next)
        ELSE /\ queue' = [queue EXCEPT ![who] = rest]
             /\ call' = Saving(Reconciled(Replay(a.state, rest)), {}, next)
             /\ UNCHANGED refused
  BY DEF HeadAnswered
<1>4. UNCHANGED <<clock, who, mem, saved, keys, brought, world, limits>>
  BY DEF HeadAnswered
<1>5. next \in [at : {"head"}, pull : BOOLEAN] /\ next \in Going /\ next.at = "head"
  BY <1>1 DEF Going
<1>6. CASE ~a.ok
  <2>1. Reject(op, next)
    BY <1>3, <1>6
  <2>2. call'.next = next
    BY <2>1 DEF Reject, Saving
  <2> HIDE DEF next
  <2> QED
    BY <1>1, <1>4, <1>5, <2>1, <2>2, RejectedKeeps DEF Reject
<1>7. CASE a.ok
  <2> DEFINE state == Reconciled(Replay(a.state, rest))
  <2>1. /\ op \in Operations /\ rest \in Seq(Operations)
        /\ ToSet(queue[who]) = ToSet(rest) \union {op} /\ op \in Named
    BY <1>1, <1>2, QueuedIs DEF Named
  <2>2. a \in answers /\ a.key = op.key /\ a.state \in ClientStates /\ Granted(a.state, Held(server[who]))
    BY <1>7, AnswerIs
  <2>3. op.kind = "checkIn" => op.resource \in Held(a.state)
    BY <1>7, <2>1, <2>2 DEF ClientInv, KeyInv
  <2>4. op.kind = "checkIn" => op.resource \in Held(server[who])
    BY <2>2, <2>3 DEF Granted
  <2> HIDE DEF op, rest, next
  <2>5. Accounted(a.state, brought[who], Held(server[who]), ToSet(rest))
        /\ Complete(a.state, brought[who], refused[who])
    BY <2>2, GrantedIs
  <2>6. /\ state \in ClientStates
        /\ Accounted(state, brought[who], Held(server[who]), ToSet(rest))
        /\ Complete(state, brought[who], refused[who])
    BY <2>1, <2>2, <2>5, RebuiltSound
  <2>7. call' = Saving(state, {}, next) /\ queue' = [queue EXCEPT ![who] = rest] /\ refused' = refused
    BY <1>3, <1>7
  <2> HIDE DEF state
  <2>8. /\ CallType(call') /\ call'.at = "saving" /\ call'.state = state /\ call'.next = next
    BY <1>5, <2>6, <2>7, SavingType DEF Saving
  <2>9. /\ queue' \in [Users -> Seq(Operations)] /\ queue'[who] = rest
        /\ \A u \in Users : u # who => queue'[u] = queue[u]
    BY <1>1, <1>2, <2>1, <2>7, UsersSame
  <2>10. \A u \in Users : \A o \in ToSet(queue'[u]) : o \in ToSet(queue[u]) \/ o \in Named
    BY <2>1, <2>9
  <2>11. \A x \in Named' : \E y \in Named : Alike(x, y)
    BY <1>4, <2>8, <2>10, NamedSaving DEF world
  <2>12. /\ Accounted(call'.state, brought'[who], Held(server[who]), ToSet(queue'[who]))
         /\ Complete(call'.state, brought'[who], refused'[who])
    BY <1>4, <2>6, <2>7, <2>8, <2>9
  <2>13. \A o \in ToSet(queue[who]) \ ToSet(queue'[who]) :
            o.kind = "checkIn" => o.resource \in call'.orphan \union Held(server[who])
    BY <2>1, <2>4, <2>9
  <2>14. call.at \notin {"closed", "saving"} \union MovesAt
    BY <1>1 DEF MovesAt
  <2> QED
    BY <1>1, <1>4, <1>5, <2>7, <2>8, <2>9, <2>11, <2>12, <2>13, <2>14, SavingKeeps, UsersSame
<1> QED BY <1>6, <1>7

LEMMA ApplyResultKeeps == ASSUME ClientInv, ApplyResult PROVE ClientInv'
<1> DEFINE result == Head(call.results)
           found == {i \in DOMAIN queue[who] : queue[who][i].key = result.key}
           k == Min(found)
           op == queue[who][k]
           rest == RemoveAt(queue[who], k)
           gone == CheckInsOf(op)
           next == [call EXCEPT !.results = Tail(call.results)]
           state == Rebuilt(rest)
<1>1. /\ TypeInv /\ call \in Applying /\ call.at = "applying" /\ call.results # <<>>
      /\ who \in Users /\ queue[who] \in Seq(Operations)
  BY DEF ClientInv, TypeInv, CallType, ApplyResult
<1>2. /\ call.current \in ClientStates /\ call.results \in Seq(Results)
      /\ Granted(call.current, Held(server[who])) /\ \A r \in ToSet(call.results) : Found(r)
  BY <1>1 DEF ClientInv, WorldInv, Pulling, ResultInv, FoundAll, Applying
<1>3. /\ Tail(call.results) \in Seq(Results) /\ result \in Results /\ Found(result)
      /\ \A r \in ToSet(Tail(call.results)) : Found(r)
  <2>1. /\ Tail(call.results) \in Seq(Results) /\ result \in Results
        /\ ToSet(call.results) = ToSet(Tail(call.results)) \union {result}
    BY <1>1, <1>2, HeadIs
  <2> QED BY <1>2, <2>1
<1>4. /\ next \in Applying /\ next.at = "applying" /\ next \in Going /\ next.current = call.current
      /\ next.results = Tail(call.results)
  BY <1>1, <1>3 DEF Applying, Going
<1>5. UNCHANGED <<clock, who, mem, saved, keys, brought, world, limits>>
  BY DEF ApplyResult
<1>6. \/ call' = next /\ UNCHANGED <<queue, refused>>
      \/ /\ result.status # "FAILED_RETRYABLE" /\ found # {}
         /\ queue' = [queue EXCEPT ![who] = rest]
         /\ \/ /\ result.status = "ACCEPTED"
               /\ call' = Saving(state, {}, next) /\ UNCHANGED refused
            \/ /\ call' = Saving(state, gone, next)
               /\ refused' = [refused EXCEPT ![who] = @ \union gone]
  BY DEF ApplyResult
<1>7. CASE call' = next /\ UNCHANGED <<queue, refused>>
  <2> HIDE DEF next, result
  <2>1. CallType(call')
    BY <1>4, <1>7, GoingType
  <2>2. flying' \in SUBSET Requests /\ \A x \in Named' : \E y \in Named : Alike(x, y)
    BY <1>1, <1>4, <1>5, <1>7, NamedKept DEF world
  <2>3. call'.at = "applying" /\ call'.current = call.current /\ call'.results = Tail(call.results)
    BY <1>4, <1>7
  <2> QED
    BY <1>1, <1>2, <1>3, <1>5, <1>7, <2>1, <2>2, <2>3, QuietKeeps DEF world, MovesAt
<1>8. CASE /\ result.status # "FAILED_RETRYABLE" /\ found # {}
           /\ queue' = [queue EXCEPT ![who] = rest]
           /\ \/ /\ result.status = "ACCEPTED"
                 /\ call' = Saving(state, {}, next) /\ UNCHANGED refused
              \/ /\ call' = Saving(state, gone, next)
                 /\ refused' = [refused EXCEPT ![who] = @ \union gone]
  <2>1. k \in 1..Len(queue[who]) /\ op.key = result.key
    <3>1. DOMAIN queue[who] = 1..Len(queue[who])
      BY <1>1, LenProperties
    <3>2. found \in SUBSET Nat
      BY <3>1, SMT
    <3>3. k \in found
      BY <1>8, <3>2, MinIs
    <3> QED BY <3>1, <3>3
  <2> HIDE DEF found, k, next
  <2>2. /\ rest \in Seq(Operations) /\ ToSet(queue[who]) = ToSet(rest) \union {op}
    BY <1>1, <2>1, RemovedIs
  <2>3. op \in Operations /\ op \in Named
    BY <1>1, <2>2, QueuedIs DEF Named
  <2> HIDE DEF rest, op
  <2>4. gone \in SUBSET Spots /\ (op.kind = "checkIn" => op.resource \in gone)
    BY <2>3 DEF CheckInsOf, Operations, WellMade
  <2>5. result.status = "ACCEPTED" /\ op.kind = "checkIn" => op.resource \in Held(server[who])
    <3> SUFFICES ASSUME result.status = "ACCEPTED", op.kind = "checkIn"
                 PROVE  op.resource \in Held(server[who])
      OBVIOUS
    <3>1. PICK a \in Answer(result.key) : a.ok
      BY <1>3 DEF Found
    <3>2. a \in answers /\ a.key = result.key /\ Granted(a.state, Held(server[who]))
      BY <3>1, AnswerIs
    <3>3. op.resource \in Held(a.state)
      BY <2>1, <2>3, <3>1, <3>2 DEF ClientInv, KeyInv
    <3> QED BY <3>2, <3>3 DEF Granted
  <2> HIDE DEF result, gone
  <2>6. Accounted(call.current, brought[who], Held(server[who]), ToSet(rest))
        /\ Complete(call.current, brought[who], refused[who])
    BY <1>2, GrantedIs
  <2>7. /\ state \in ClientStates
        /\ Accounted(state, brought[who], Held(server[who]), ToSet(rest))
        /\ Complete(state, brought[who], refused[who])
    BY <1>2, <2>2, <2>6, RebuiltSound DEF Rebuilt
  <2> HIDE DEF state
  <2>8. /\ queue' \in [Users -> Seq(Operations)] /\ queue'[who] = rest
        /\ \A u \in Users : u # who => queue'[u] = queue[u]
    BY <1>1, <1>8, <2>2, UsersSame
  <2>9. \A u \in Users : \A o \in ToSet(queue'[u]) : o \in ToSet(queue[u]) \/ o \in Named
    BY <2>2, <2>8
  <2>10. \A u \in Users : u # who => ToSet(queue'[u]) = ToSet(queue[u])
    BY <2>8
  <2>11. call.at \notin {"closed", "saving"} \union MovesAt
    BY <1>1 DEF MovesAt
  <2>12. \E orphan \in SUBSET Spots :
           /\ call' = Saving(state, orphan, next)
           /\ op.kind = "checkIn" => op.resource \in orphan \union Held(server[who])
    <3>1. CASE result.status = "ACCEPTED" /\ call' = Saving(state, {}, next)
      BY <2>5, <3>1
    <3>2. CASE call' = Saving(state, gone, next)
      BY <2>4, <3>2
    <3> QED BY <1>8, <3>1, <3>2
  <2>13. /\ refused' \in [Users -> SUBSET Spots]
         /\ \A u \in Users : refused[u] \subseteq refused'[u]
    BY <1>1, <1>8, <2>4, UsersSame
  <2>14. PICK orphan \in SUBSET Spots :
           /\ call' = Saving(state, orphan, next)
           /\ op.kind = "checkIn" => op.resource \in orphan \union Held(server[who])
    BY <2>12
  <2>15. /\ CallType(call') /\ call'.at = "saving" /\ call'.state = state /\ call'.next = next
         /\ call'.orphan = orphan
    BY <1>4, <2>7, <2>14, SavingType DEF Saving
  <2>16. \A x \in Named' : \E y \in Named : Alike(x, y)
    BY <1>5, <2>9, <2>15, NamedSaving DEF world
  <2>17. /\ Accounted(call'.state, brought'[who], Held(server[who]), ToSet(queue'[who]))
         /\ Complete(call'.state, brought'[who], refused'[who])
    <3>1. Complete(state, brought[who], refused'[who])
      BY <1>1, <2>7, <2>13, CompleteGrows
    <3> QED BY <1>5, <2>7, <2>8, <2>15, <3>1
  <2>18. \A o \in ToSet(queue[who]) \ ToSet(queue'[who]) :
            o.kind = "checkIn" => o.resource \in call'.orphan \union Held(server[who])
    BY <2>2, <2>8, <2>14, <2>15
  <2>19. /\ Granted(call'.next.current, Held(server[who]))
         /\ \A r \in ToSet(call'.next.results) : Found(r)
    BY <1>2, <1>3, <1>4, <2>15
  <2> QED
    BY <1>1, <1>5, <2>8, <2>10, <2>11, <2>13, <2>15, <2>16, <2>17, <2>18, <2>19, SavingKeeps, UsersSame
<1> QED BY <1>6, <1>7, <1>8

LEMMA FinishSyncKeeps == ASSUME ClientInv, FinishSync PROVE ClientInv'
<1> DEFINE state == Rebuilt(queue[who])
<1>1. /\ TypeInv /\ call \in Applying /\ call.at = "applying"
      /\ who \in Users /\ queue[who] \in Seq(Operations)
  BY DEF ClientInv, TypeInv, CallType, FinishSync
<1>2. call.current \in ClientStates /\ Granted(call.current, Held(server[who]))
  BY <1>1 DEF ClientInv, WorldInv, Pulling, Applying
<1>3. Accounted(call.current, brought[who], Held(server[who]), ToSet(queue[who]))
      /\ Complete(call.current, brought[who], refused[who])
  BY <1>2, GrantedIs
<1>4. /\ state \in ClientStates
      /\ Accounted(state, brought[who], Held(server[who]), ToSet(queue[who]))
      /\ Complete(state, brought[who], refused[who])
  BY <1>1, <1>2, <1>3, RebuiltSound DEF Rebuilt
<1>5. call' = Saving(state, {}, Idle)
  BY DEF FinishSync
<1> HIDE DEF state
<1>6. CallType(call') /\ call'.at = "saving" /\ call'.state = state /\ call'.next = Idle
  BY <1>4, <1>5, SavingType, GoingType DEF Saving
<1>7. call'.next.at = "idle"
  BY <1>6 DEF Idle
<1>8. \A x \in Named' : \E y \in Named : Alike(x, y)
  BY <1>6, NamedSaving DEF FinishSync, world
<1> QED
  BY <1>1, <1>4, <1>6, <1>7, <1>8, SavingKeeps, UsersSame DEF FinishSync, MovesAt

-----------------------------------------------------------------------------
(* Opening, saving and closing.                                            *)

LEMMA GoingIs ==
  ASSUME NEW c \in Going
  PROVE  /\ c.at \in {"idle", "head", "applying"} /\ CallType(c)
         /\ c.at \notin {"asking", "waiting", "linking", "closed", "saving"} \union MovesAt
<1>1. c.at \in {"idle", "head", "applying"}
  BY DEF Going, Applying, Idle
<1>2. CallType(c)
  BY GoingType
<1> QED BY <1>1, <1>2 DEF MovesAt

LEMMA SaveKeeps == ASSUME ClientInv, Save PROVE ClientInv'
<1> DEFINE state == call.state
<1>1. /\ TypeInv /\ call.at = "saving" /\ state \in ClientStates /\ call.next \in Going /\ who \in Users
  BY DEF ClientInv, TypeInv, CallType, Save
<1>2. /\ call' = call.next /\ mem' = state /\ saved' = [saved EXCEPT ![who] = state]
      /\ UNCHANGED <<clock, who, queue, refused, keys, brought, world, limits>>
  BY DEF Save
<1>3. /\ saved' \in [Users -> ClientStates \union {Null}] /\ saved'[who] = state
      /\ \A u \in Users : u # who => saved'[u] = saved[u]
  BY <1>1, <1>2 DEF TypeInv
<1>4. /\ call'.at \in {"idle", "head", "applying"} /\ CallType(call')
      /\ call'.at \notin {"asking", "waiting", "linking", "closed", "saving"} \union MovesAt
  BY <1>1, <1>2, GoingIs
<1>5. Sound(state, who, {}) /\ \A u \in Users : u # who /\ saved[u] # Null => Sound(saved[u], u, {})
  BY <1>1 DEF ClientInv, StateInv
<1>6. Orphan' = {}
  BY <1>4 DEF Orphan
<1>7. \A s, u : Sound(s, u, {}) => Sound(s, u, {})'
  BY <1>2 DEF Sound, world
<1>8. \A x \in Named' : \E y \in Named : Alike(x, y)
  <2>1. call'.at \notin {"asking", "emptyHistory", "writeOps"}
    BY <1>4 DEF MovesAt
  <2> QED BY <1>1, <1>2, <2>1, NamedKept DEF world
<1> HIDE DEF state
<1>9. TypeInv'
  BY <1>1, <1>2, <1>3, <1>4 DEF TypeInv, world, limits
<1>10. WorldInv'
  BY <1>1, <1>2, <1>4 DEF ClientInv, WorldInv, Pulling, world
<1>11. KeyInv'
  BY <1>2, <1>8, KeysKept DEF ClientInv, world
<1>12. ResultInv'
  BY <1>1, <1>2, <1>4 DEF ClientInv, ResultInv, FoundAll, Found, Answer, world
<1>13. StateInv'
  <2>1. Sound(mem, who, Orphan)'
    BY <1>2, <1>5, <1>6, <1>7
  <2>2. ASSUME NEW u \in Users, saved'[u] # Null PROVE Sound(saved[u], u, {})'
    <3>1. CASE u = who
      BY <1>3, <1>5, <1>7, <3>1
    <3>2. CASE u # who
      <4>1. saved'[u] = saved[u] /\ Sound(saved[u], u, {})
        BY <1>3, <1>5, <2>2, <3>2
      <4>2. \A s : s = saved'[u] /\ Sound(s, u, {})' => Sound(saved[u], u, {})'
        OBVIOUS
      <4> QED BY <1>7, <4>1, <4>2
    <3> QED BY <3>1, <3>2
  <2> QED BY <1>4, <1>6, <2>1, <2>2 DEF StateInv
<1>14. AskInv'
  BY <1>4 DEF AskInv
<1>15. LinkInv'
  BY <1>2, <1>3, <1>4 DEF LinkInv, MovesAt
<1>16. SavedInv'
  BY <1>1, <1>2, <1>3, NullIsNoClientState DEF SavedInv, SameAs
<1> QED BY <1>9, <1>10, <1>11, <1>12, <1>13, <1>14, <1>15, <1>16 DEF ClientInv

LEMMA BetweenCalls ==
  ASSUME ClientInv, UNCHANGED <<clock, queue, refused, keys, world>>,
         call' \in {Idle, Closed}, call'.at # "closed" => mem' \in ClientStates,
         who' \in Users, saved' \in [Users -> ClientStates \union {Null}],
         brought' \in [Users -> SUBSET Spots], refusals' \in Nat,
         call' = Idle => Sound(mem, who, {})',
         \A u \in Users : saved'[u] # Null => Sound(saved[u], u, {})',
         call' = Idle /\ who' = Guest /\ saved'[Guest] # Null => Held(saved'[Guest]) \subseteq Held(mem'),
         call' = Idle /\ refusals' = 0 => SameAs(saved'[who'], mem')
  PROVE  ClientInv'
<1>1. /\ call'.at \in {"idle", "closed"} /\ CallType(call') /\ (call'.at = "idle" <=> call' = Idle)
      /\ call'.at \notin {"asking", "waiting", "saving", "applying", "linking"} \union MovesAt
      /\ call'.at # "closed" => call' = Idle
  BY GoingType DEF Idle, Closed, MovesAt
<1>2. TypeInv'
  BY <1>1 DEF ClientInv, TypeInv, world
<1>3. WorldInv'
  BY <1>1 DEF ClientInv, WorldInv, Pulling, world
<1>4. KeyInv'
  <2>1. TypeInv /\ call'.at \notin {"asking", "emptyHistory", "writeOps"}
    BY <1>1 DEF ClientInv, MovesAt
  <2>2. \A x \in Named' : \E y \in Named : Alike(x, y)
    BY <2>1, NamedKept DEF world
  <2> QED BY <2>2, KeysKept DEF ClientInv, world
<1>5. ResultInv'
  BY <1>1 DEF ResultInv, FoundAll
<1>6. Orphan' = {}
  BY <1>1 DEF Orphan
<1>7. StateInv'
  BY <1>1, <1>6 DEF StateInv
<1>8. AskInv'
  BY <1>1 DEF AskInv
<1>9. LinkInv'
  BY <1>1 DEF LinkInv, MovesAt
<1>10. SavedInv'
  BY <1>1 DEF SavedInv
<1> QED BY <1>2, <1>3, <1>4, <1>5, <1>7, <1>8, <1>9, <1>10 DEF ClientInv

LEMMA OrphanType == ASSUME ClientInv PROVE Orphan \in SUBSET Spots
  BY DEF Orphan, ClientInv, TypeInv, CallType

(* What stays shown although its operation is gone is shown on no          *)
(* operation's account.                                                    *)
LEMMA OrphanBrought ==
  ASSUME ClientInv, UNCHANGED <<who, queue, refused, world>>,
         brought' = [brought EXCEPT ![who] = @ \union Orphan]
  PROVE  /\ brought' \in [Users -> SUBSET Spots]
         /\ \A u \in Users : \A state :
              Sound(state, u, IF u = who THEN Orphan ELSE {}) => Sound(state, u, {})'
<1>1. /\ brought' \in [Users -> SUBSET Spots] /\ brought'[who] = brought[who] \union Orphan
      /\ \A u \in Users : u # who => brought'[u] = brought[u]
  BY OrphanType DEF ClientInv, TypeInv
<1>2. ASSUME NEW u \in Users, NEW state, Sound(state, u, IF u = who THEN Orphan ELSE {})
      PROVE  Sound(state, u, {})'
  <2>1. brought[u] \union (IF u = who THEN Orphan ELSE {}) = brought'[u] \union {}
    BY <1>1
  <2>2. brought[u] \subseteq brought'[u]
    BY <1>1
  <2>3. Accounted(state, brought'[u] \union {}, Held(server[u]), ToSet(queue[u]))
    BY <1>2, <2>1 DEF Sound
  <2>4. Complete(state, brought'[u], refused[u])
    <3>1. Complete(state, brought[u], refused[u])
      BY <1>2 DEF Sound
    <3> QED BY <2>2, <3>1 DEF Complete
  <2> QED BY <2>3, <2>4 DEF Sound, world
<1> QED BY <1>1, <1>2

LEMMA SaveRefusedKeeps == ASSUME ClientInv, SaveRefused PROVE ClientInv'
<1>1. /\ who \in Users /\ mem \in ClientStates /\ saved \in [Users -> ClientStates \union {Null}]
      /\ refusals \in Nat /\ call.at = "saving"
  BY DEF ClientInv, TypeInv, SaveRefused
<1>2. /\ brought' \in [Users -> SUBSET Spots]
      /\ \A u \in Users : \A state :
           Sound(state, u, IF u = who THEN Orphan ELSE {}) => Sound(state, u, {})'
  BY OrphanBrought DEF SaveRefused
<1>3. Sound(mem, who, Orphan) /\ \A u \in Users : saved[u] # Null =>
        Sound(saved[u], u, IF u = who THEN Orphan ELSE {})
  BY <1>1 DEF ClientInv, StateInv
<1>4. Sound(mem, who, {})'
  BY <1>1, <1>2, <1>3 DEF SaveRefused
<1>5. \A u \in Users : saved'[u] # Null => Sound(saved[u], u, {})'
  BY <1>2, <1>3 DEF SaveRefused
<1>6. who = Guest /\ saved[Guest] # Null => Held(saved[Guest]) \subseteq Held(mem)
  BY <1>1 DEF ClientInv, LinkInv
<1>7. call' = Idle /\ refusals' # 0 /\ refusals' \in Nat
  BY <1>1 DEF SaveRefused
<1>8. UNCHANGED <<clock, who, mem, saved, queue, refused, keys, world>>
  BY DEF SaveRefused
<1> QED
  BY <1>1, <1>2, <1>4, <1>5, <1>6, <1>7, <1>8, BetweenCalls

LEMMA ClosePageKeeps == ASSUME ClientInv, ClosePage PROVE ClientInv'
<1>1. /\ who \in Users /\ saved \in [Users -> ClientStates \union {Null}] /\ refusals \in Nat
  BY DEF ClientInv, TypeInv
<1>2. /\ brought' \in [Users -> SUBSET Spots]
      /\ \A u \in Users : \A state :
           Sound(state, u, IF u = who THEN Orphan ELSE {}) => Sound(state, u, {})'
  BY OrphanBrought DEF ClosePage
<1>3. \A u \in Users : saved[u] # Null => Sound(saved[u], u, IF u = who THEN Orphan ELSE {})
  BY DEF ClientInv, StateInv
<1>4. \A u \in Users : saved'[u] # Null => Sound(saved[u], u, {})'
  BY <1>2, <1>3 DEF ClosePage
<1>5. call' = Closed /\ call' # Idle /\ call'.at = "closed"
  BY DEF ClosePage, Closed, Idle
<1>6. UNCHANGED <<clock, who, saved, queue, refused, keys, world, refusals>>
  BY DEF ClosePage
<1> QED
  BY <1>1, <1>2, <1>4, <1>5, <1>6, BetweenCalls

(* What is loaded is as sound as what was saved.                           *)
LEMMA LoadedSound ==
  ASSUME ClientInv, call.at # "saving", NEW u \in Users
  PROVE  /\ Sound(Loaded(u), u, {}) /\ SameAs(saved[u], Loaded(u))
         /\ saved[u] # Null => Held(saved[u]) \subseteq Held(Loaded(u))
<1>1. TypeInv /\ (saved[u] # Null => Sound(saved[u], u, {}))
  BY DEF ClientInv, StateInv, Orphan
<1>2. CASE saved[u] = Null
  <2>1. Held(Loaded(u)) = {} /\ Consumed(Loaded(u)) = {}
    BY <1>1, <1>2, LoadedIs
  <2>2. Sound(Loaded(u), u, {})
    BY <2>1, Excused DEF Sound
  <2> QED BY <1>2, <2>1, <2>2 DEF SameAs
<1>3. CASE saved[u] # Null
  <2>1. Loaded(u).stamps = saved[u].stamps /\ Consumed(Loaded(u)) = Consumed(saved[u])
    BY <1>1, <1>3, LoadedIs
  <2>2. Sound(Loaded(u), u, {})
    BY <1>1, <1>3, <2>1, SameStamps DEF Sound
  <2>3. Held(saved[u]) = Held(Loaded(u))
    BY <2>1, HeldIs
  <2> QED BY <1>3, <2>1, <2>2, <2>3 DEF SameAs
<1> QED BY <1>2, <1>3

LEMMA OpenKeeps == ASSUME ClientInv, Open PROVE ClientInv'
<1>1. /\ TypeInv /\ who \in Users /\ saved \in [Users -> ClientStates \union {Null}]
      /\ refusals \in Nat /\ call.at = "closed" /\ brought \in [Users -> SUBSET Spots]
  BY DEF ClientInv, TypeInv, Open, Closed
<1>2. /\ Loaded(who) \in ClientStates /\ Sound(Loaded(who), who, {})
      /\ SameAs(saved[who], Loaded(who))
      /\ saved[who] # Null => Held(saved[who]) \subseteq Held(Loaded(who))
  BY <1>1, LoadedIs, LoadedSound
<1>3. \A u \in Users : saved[u] # Null => Sound(saved[u], u, {})
  BY <1>1 DEF ClientInv, StateInv, Orphan
<1>4. call' = Idle /\ mem' = Loaded(who)
  BY DEF Open
<1>5. UNCHANGED <<clock, who, saved, queue, refused, keys, brought, world, refusals>>
  BY DEF Open, limits
<1>6. \A s, u : Sound(s, u, {}) => Sound(s, u, {})'
  BY <1>5 DEF Sound, world
<1>7. Sound(mem, who, {})' /\ \A u \in Users : saved'[u] # Null => Sound(saved[u], u, {})'
  BY <1>2, <1>3, <1>4, <1>5, <1>6
<1> HIDE DEF Loaded
<1> QED
  BY <1>1, <1>2, <1>4, <1>5, <1>7, BetweenCalls

LEMMA SwitchUserKeeps ==
  ASSUME ClientInv, NEW u \in Users, SwitchUser(u)
  PROVE  ClientInv'
<1>1. /\ TypeInv /\ saved \in [Users -> ClientStates \union {Null}]
      /\ refusals \in Nat /\ call.at = "idle" /\ brought \in [Users -> SUBSET Spots]
  BY DEF ClientInv, TypeInv, SwitchUser, Idle
<1>2. /\ Loaded(u) \in ClientStates /\ Sound(Loaded(u), u, {})
      /\ SameAs(saved[u], Loaded(u))
      /\ saved[u] # Null => Held(saved[u]) \subseteq Held(Loaded(u))
  BY <1>1, LoadedIs, LoadedSound
<1>3. \A v \in Users : saved[v] # Null => Sound(saved[v], v, {})
  BY <1>1 DEF ClientInv, StateInv, Orphan
<1>4. call' = Idle /\ mem' = Loaded(u) /\ who' = u
  BY DEF SwitchUser
<1>5. UNCHANGED <<clock, saved, queue, refused, keys, brought, world, refusals>>
  BY DEF SwitchUser, limits
<1>6. \A s, v : Sound(s, v, {}) => Sound(s, v, {})'
  BY <1>5 DEF Sound, world
<1>7. Sound(mem, who, {})' /\ \A v \in Users : saved'[v] # Null => Sound(saved[v], v, {})'
  BY <1>2, <1>3, <1>4, <1>5, <1>6
<1> HIDE DEF Loaded
<1> QED
  BY <1>1, <1>2, <1>4, <1>5, <1>7, BetweenCalls

LEMMA ResetKeeps == ASSUME ClientInv, Reset PROVE ClientInv'
<1>1. /\ clock \in Nat /\ who \in Users /\ saved \in [Users -> ClientStates \union {Null}]
      /\ refusals \in Nat /\ call.at = "idle" /\ brought \in [Users -> SUBSET Spots]
  BY DEF ClientInv, TypeInv, Reset, Idle
<1>2. mem' = EmptyState(clock) /\ mem' \in ClientStates /\ Held(mem') = {} /\ Consumed(mem') = {}
  BY <1>1, EmptyStateIs DEF Reset, Held
<1>3. /\ saved' \in [Users -> ClientStates \union {Null}] /\ saved'[who] = Null
      /\ \A u \in Users : u # who => saved'[u] = saved[u]
  BY <1>1 DEF Reset
<1>4. call' = Idle /\ UNCHANGED <<clock, who, queue, refused, keys, brought, world, refusals>>
  BY DEF Reset, limits
<1>5. \A u \in Users : saved[u] # Null => Sound(saved[u], u, {})
  BY <1>1 DEF ClientInv, StateInv, Orphan
<1>6. \A s, u : Sound(s, u, {}) => Sound(s, u, {})'
  BY <1>4 DEF Sound, world
<1>7. ASSUME NEW u \in Users, saved'[u] # Null PROVE Sound(saved[u], u, {})'
  <2>1. saved'[u] = saved[u] /\ Sound(saved[u], u, {})
    BY <1>3, <1>5, <1>7
  <2>2. \A s : s = saved'[u] /\ Sound(s, u, {})' => Sound(saved[u], u, {})'
    OBVIOUS
  <2> QED BY <1>6, <2>1, <2>2
<1>8. Sound(mem, who, {})'
  BY <1>2, Excused DEF Sound
<1>9. SameAs(saved'[who'], mem')
  BY <1>2, <1>3, <1>4 DEF SameAs
<1> QED
  BY <1>1, <1>2, <1>3, <1>4, <1>7, <1>8, <1>9, BetweenCalls

LEMMA ClearUserStateKeeps ==
  ASSUME ClientInv, NEW u \in Users, ClearUserState(u)
  PROVE  ClientInv'
<1>1. /\ who \in Users /\ saved \in [Users -> ClientStates \union {Null}] /\ mem \in ClientStates
      /\ refusals \in Nat /\ call.at = "idle" /\ brought \in [Users -> SUBSET Spots]
  BY DEF ClientInv, TypeInv, ClearUserState, Idle
<1>2. /\ saved' \in [Users -> ClientStates \union {Null}] /\ saved'[u] = Null
      /\ u # who /\ \A v \in Users : v # u => saved'[v] = saved[v]
  BY <1>1 DEF ClearUserState
<1>3. call' = Idle /\ UNCHANGED <<clock, who, mem, queue, refused, keys, brought, world, refusals>>
  BY DEF ClearUserState, limits
<1>4. Sound(mem, who, {}) /\ \A v \in Users : saved[v] # Null => Sound(saved[v], v, {})
  BY <1>1 DEF ClientInv, StateInv, Orphan
<1>5. \A s, v : Sound(s, v, {}) => Sound(s, v, {})'
  BY <1>3 DEF Sound, world
<1>6. ASSUME NEW v \in Users, saved'[v] # Null PROVE Sound(saved[v], v, {})'
  <2>1. saved'[v] = saved[v] /\ Sound(saved[v], v, {})
    BY <1>2, <1>4, <1>6
  <2>2. \A s : s = saved'[v] /\ Sound(s, v, {})' => Sound(saved[v], v, {})'
    OBVIOUS
  <2> QED BY <1>5, <2>1, <2>2
<1>7. Sound(mem, who, {})'
  BY <1>3, <1>4, <1>5
<1>8. who = Guest /\ saved[Guest] # Null => Held(saved[Guest]) \subseteq Held(mem)
  BY <1>1 DEF ClientInv, LinkInv
<1>9. refusals = 0 => SameAs(saved[who], mem)
  BY <1>1 DEF ClientInv, SavedInv
<1> QED
  BY <1>1, <1>2, <1>3, <1>6, <1>7, <1>8, <1>9, BetweenCalls

-----------------------------------------------------------------------------
(* Asking the adapter, and what the server and the others do meanwhile.    *)

(* The new operation has a key no other one has.                           *)
LEMMA AskKeeps ==
  ASSUME ClientInv, call.at = "idle", keys' = keys + 1, call'.op \in Operations,
         call'.op.key = keys + 1, call'.op.base = mem,
         call'.op.kind = "checkIn" => MayCheckIn(call'.op.resource),
         flying' = flying \union {Request(call'.op)}, call' = [at |-> "asking", op |-> call'.op],
         UNCHANGED <<clock, who, mem, saved, queue, refused, brought, answers, server, stock, limits>>
  PROVE  ClientInv'
<1> DEFINE op == call'.op
           request == [user |-> who, kind |-> op.kind, resource |-> op.resource, key |-> op.key]
<1>1. call'.at = "asking" /\ TypeInv /\ keys \in Nat /\ who \in Users
  BY DEF ClientInv, TypeInv
<1>2. request \in Requests /\ Alike(request, op) /\ flying' = flying \union {request}
  BY <1>1 DEF Requests, Kinds, Operations, WellMade, Alike, Request
<1>3. TypeInv'
  <2>1. CallType(call')
    BY DEF CallType, CallsAt, MovesAt
  <2> HIDE DEF request
  <2> QED BY <1>1, <1>2, <2>1 DEF TypeInv, limits
<1>4. WorldInv'
  BY <1>1 DEF ClientInv, WorldInv, Pulling
<1>5. \A x \in Named' : x \in Named \/ x = op \/ x = request
  BY <1>1, <1>2 DEF Named, Waiting
<1>6. op.key = keys + 1 /\ request.key = keys + 1 /\ request.kind = op.kind
      /\ request.resource = op.resource
  OBVIOUS
<1>7. KeyInv'
  <2>1. \A x \in Named : x.key \in Nat
    <3>1. \A x \in Waiting : x \in Operations
      <4>1. call.at \notin {"emptyHistory", "writeOps"}
        OBVIOUS
      <4> QED BY <1>1, <4>1, QueuedIs DEF Waiting
    <3>2. flying \in SUBSET Requests
      BY <1>1 DEF TypeInv
    <3> QED BY <3>1, <3>2 DEF Named, Operations, Requests
  <2>2. /\ \A x \in Named : x.key <= keys
        /\ \A x, y \in Named : x.key = y.key => x.kind = y.kind /\ x.resource = y.resource
        /\ \A a \in answers : a.key <= keys
        /\ \A a \in answers : \A x \in Named :
             a.ok /\ a.key = x.key /\ x.kind = "checkIn" => x.resource \in Held(a.state)
    BY DEF ClientInv, KeyInv
  <2>3. \A a \in answers : a.key \in Nat
    BY <1>1 DEF TypeInv, Answers
  <2> HIDE DEF op, request, Named
  <2>4. \A x \in Named' : x.key <= keys'
    BY <1>1, <1>5, <1>6, <2>1, <2>2
  <2>5. ASSUME NEW x \in Named', NEW y \in Named', x.key = y.key
        PROVE  x.kind = y.kind /\ x.resource = y.resource
    <3>1. CASE x \in Named /\ y \in Named
      BY <2>2, <2>5, <3>1
    <3>2. CASE x \notin Named /\ y \notin Named
      BY <1>5, <1>6, <3>2
    <3>3. CASE x \in Named /\ y \notin Named
      BY <1>1, <1>5, <1>6, <2>1, <2>2, <2>5, <3>3
    <3>4. CASE x \notin Named /\ y \in Named
      BY <1>1, <1>5, <1>6, <2>1, <2>2, <2>5, <3>4
    <3> QED BY <3>1, <3>2, <3>3, <3>4
  <2>6. ASSUME NEW a \in answers, NEW x \in Named', a.ok, a.key = x.key, x.kind = "checkIn"
        PROVE  x.resource \in Held(a.state)
    BY <1>1, <1>5, <1>6, <2>2, <2>3, <2>6
  <2>7. \A a \in answers : a.key <= keys'
    BY <1>1, <2>2, <2>3
  <2> QED BY <2>4, <2>5, <2>6, <2>7 DEF KeyInv
<1>8. ResultInv'
  BY <1>1 DEF ResultInv, FoundAll
<1>9. Orphan = {} /\ Orphan' = {}
  BY <1>1 DEF Orphan
<1>10. StateInv'
  BY <1>1, <1>9 DEF ClientInv, StateInv, Sound, MovesAt
<1>11. AskInv'
  BY <1>1 DEF AskInv, MayCheckIn
<1>12. LinkInv'
  BY <1>1 DEF ClientInv, LinkInv, MovesAt
<1>13. SavedInv'
  BY <1>1 DEF ClientInv, SavedInv, limits
<1> QED BY <1>3, <1>4, <1>7, <1>8, <1>10, <1>11, <1>12, <1>13 DEF ClientInv

LEMMA CheckInKeeps ==
  ASSUME ClientInv, NEW spot \in Spots, CheckIn(spot)
  PROVE  ClientInv'
<1> DEFINE next == LocalCheckIn(mem, spot, clock)
           op == [kind |-> "checkIn", resource |-> spot, key |-> keys + 1, at |-> clock,
                  rejected |-> FALSE, base |-> mem, optimistic |-> next]
<1>1. /\ call.at = "idle" /\ MayCheckIn(spot) /\ mem \in ClientStates /\ keys \in Nat
      /\ clock \in Nat /\ clock < MaxTime
  BY DEF ClientInv, TypeInv, CheckIn, Idle
<1>2. next \in ClientStates /\ next.stamps = [mem.stamps EXCEPT ![spot] = clock]
  BY <1>1, LocalCheckInIs
<1>3. Ask(op)
  BY DEF CheckIn
<1> HIDE DEF next
<1>4. op \in Operations /\ op.key = keys + 1 /\ op.base = mem /\ op.resource = spot
  BY <1>1, <1>2 DEF Operations, WellMade
<1> HIDE DEF op
<1>5. call' = [at |-> "asking", op |-> op]
  BY <1>3 DEF Ask
<1>6. call'.op = op
  BY <1>5
<1> QED
  BY <1>1, <1>3, <1>4, <1>5, <1>6, AskKeeps DEF Ask

LEMMA ClaimRewardKeeps ==
  ASSUME ClientInv, NEW rw \in Rewards, ClaimReward(rw)
  PROVE  ClientInv'
<1> DEFINE next == LocalClaim(mem, rw, clock)
           op == [kind |-> "claimReward", resource |-> rw, key |-> keys + 1, at |-> clock,
                  rejected |-> FALSE, base |-> mem, optimistic |-> next]
<1>1. /\ call.at = "idle" /\ mem \in ClientStates /\ keys \in Nat
      /\ clock \in Nat /\ clock < MaxTime
  BY DEF ClientInv, TypeInv, ClaimReward, Idle
<1>2. next \in ClientStates /\ next.stamps = mem.stamps
  BY <1>1, LocalClaimIs
<1>3. Ask(op)
  BY DEF ClaimReward
<1> HIDE DEF next
<1>4. op \in Operations /\ op.key = keys + 1 /\ op.base = mem /\ op.kind # "checkIn"
  BY <1>1, <1>2 DEF Operations, WellMade
<1> HIDE DEF op
<1>5. call' = [at |-> "asking", op |-> op]
  BY <1>3 DEF Ask
<1>6. call'.op = op
  BY <1>5
<1> QED
  BY <1>1, <1>3, <1>4, <1>5, <1>6, AskKeeps DEF Ask

-----------------------------------------------------------------------------
(* Linking an account.                                                     *)

(* The guest's stamps are brought to the account; the others stay sound.   *)
LEMMA MergedSound ==
  ASSUME NEW state, NEW account, NEW guest, NEW excused, NEW granted, NEW ops, NEW gone,
         Held(guest) \subseteq excused,
         \A s \in Spots :
           state.stamps[s] = IF account.stamps[s] # Null THEN account.stamps[s] ELSE guest.stamps[s],
         Accounted(account, excused, granted, ops), Complete(account, excused, gone)
  PROVE  Accounted(state, excused, granted, ops) /\ Complete(state, excused, gone)
<1>1. \A s \in Held(state) \ excused : s \in Held(account) /\ state.stamps[s] = account.stamps[s]
  BY DEF Held
<1>2. \A p \in Held(account) : p \in Held(state) /\ state.stamps[p] = account.stamps[p]
  BY DEF Held
<1>3. Accounted(state, excused, granted, ops)
  BY <1>1 DEF Accounted
<1>4. ASSUME NEW s \in Held(state) \ excused, NEW p \in SpotDef[s].prerequisites
      PROVE  IF state.stamps[s] = ServerTime THEN state.stamps[p] = ServerTime
             ELSE p \in Held(state) \union gone
  <2>1. s \in Spots /\ p \in Spots
    BY SpotsAssumption DEF Held
  <2>2. IF account.stamps[s] = ServerTime THEN account.stamps[p] = ServerTime
        ELSE p \in Held(account) \union gone
    BY <1>1 DEF Complete
  <2>3. account.stamps[p] = ServerTime => p \in Held(account)
    BY <2>1, TimeIs DEF Held
  <2> QED BY <1>1, <1>2, <2>2, <2>3
<1>5. Complete(state, excused, gone)
  BY <1>4 DEF Complete
<1> QED BY <1>3, <1>5

LEMMA LinkedKeeps ==
  ASSUME ClientInv, NEW sends \in BOOLEAN, NEW policy \in MigratePolicies, Linked(sends, policy)
  PROVE  ClientInv'
<1> DEFINE to == call.to
           account == IF sends THEN server[to] ELSE saved[to]
           merged == Migrate(mem, account, policy)
           state == Reconciled(merged)
<1>1. /\ TypeInv /\ call.at = "linking" /\ to \in Accounts /\ who = Guest /\ mem \in ClientStates
      /\ who \in Users /\ to \in Users /\ to # who
  BY ClientAssumption DEF ClientInv, TypeInv, CallType, LinkInv, Linked, Users
<1>2. /\ account \in ClientStates \union {Null} /\ Sound(mem, who, {})
      /\ account # Null => /\ Accounted(account, brought[to], Held(server[to]), ToSet(queue[to]))
                           /\ Complete(account, brought[to], refused[to])
  <2>1. Orphan = {} /\ server[to] \in ClientStates /\ saved[to] \in ClientStates \union {Null}
    BY <1>1 DEF Orphan, TypeInv
  <2>2. Sound(mem, who, {})
    BY <1>1, <2>1 DEF ClientInv, StateInv
  <2>3. Accounted(server[to], brought[to], Held(server[to]), ToSet(queue[to]))
        /\ Complete(server[to], brought[to], refused[to])
    <3>1. Granted(server[to], Held(server[to]))
      BY <1>1 DEF ClientInv, WorldInv
    <3> QED BY <2>1, <3>1, GrantedIs
  <2>4. ASSUME saved[to] # Null
        PROVE  Accounted(saved[to], brought[to], Held(server[to]), ToSet(queue[to]))
               /\ Complete(saved[to], brought[to], refused[to])
    <3>1. Sound(saved[to], to, {})
      BY <1>1, <2>4 DEF ClientInv, StateInv
    <3>2. brought[to] \union {} = brought[to]
      OBVIOUS
    <3> QED BY <3>1, <3>2 DEF Sound
  <2> HIDE DEF to
  <2> QED BY <2>1, <2>2, <2>3, <2>4
<1>3. /\ call' = [at |-> "emptyOps", to |-> to, ops |-> queue[who], refused |-> refused[who],
                  state |-> state]
      /\ UNCHANGED <<clock, who, mem, saved, queue, refused, keys, world, limits>>
  BY DEF Linked
<1>4. brought' = [u \in Users |-> IF u \in {who, to} THEN brought[u] \union Held(mem) ELSE brought[u]]
  BY DEF Linked
<1> HIDE DEF account
<1>5. /\ merged \in ClientStates
      /\ account = Null => merged = mem
      /\ account # Null => \A s \in Spots :
           merged.stamps[s] = IF account.stamps[s] # Null THEN account.stamps[s] ELSE mem.stamps[s]
  BY <1>1, <1>2, MigrateIs
<1> HIDE DEF merged, to
<1>6. /\ brought' \in [Users -> SUBSET Spots]
      /\ brought'[who] = brought[who] \union Held(mem) /\ brought'[to] = brought[to] \union Held(mem)
      /\ \A u \in Users : brought[u] \subseteq brought'[u]
  BY <1>1, <1>4 DEF TypeInv, Held
<1>7. state \in ClientStates /\ state.stamps = merged.stamps
  BY <1>5, ReconciledIs
<1>8. Accounted(merged, brought'[to], Held(server[to]), ToSet(queue[to]))
      /\ Complete(merged, brought'[to], refused[to])
  <2>1. CASE account = Null
    <3>1. Held(merged) \subseteq brought'[to]
      BY <1>5, <1>6, <2>1
    <3> QED BY <3>1, Excused
  <2>2. CASE account # Null
    <3>1. Held(mem) \subseteq brought'[to] /\ brought[to] \subseteq brought'[to]
      BY <1>6
    <3>2. Accounted(account, brought'[to], Held(server[to]), ToSet(queue[to]))
          /\ Complete(account, brought'[to], refused[to])
      BY <1>2, <2>2, <3>1, AccountedGrows, CompleteGrows
    <3> QED BY <1>5, <2>2, <3>1, <3>2, MergedSound
  <2> QED BY <2>1, <2>2
<1>9. Held(mem) \subseteq Held(state)
  <2>1. Held(mem) \subseteq Held(merged)
    BY <1>5 DEF Held
  <2>2. Held(merged) = Held(state)
    BY <1>7, HeldIs
  <2> QED BY <2>1, <2>2
<1>10. Accounted(state, brought'[to], Held(server[to]), ToSet(queue[to]))
       /\ Complete(state, brought'[to], refused[to])
  BY <1>7, <1>8, SameStamps
<1> HIDE DEF state
<1>11. /\ call'.at = "emptyOps" /\ call'.to = to /\ call'.ops = queue[who] /\ call'.state = state
       /\ call'.at \in MovesAt
  BY <1>3 DEF MovesAt
<1>12. TypeInv'
  <2>1. queue[who] \in Seq(Operations) /\ refused[who] \in SUBSET Spots
    BY <1>1 DEF TypeInv
  <2>2. call' \in Moves
    BY <1>1, <1>3, <1>7, <2>1 DEF Moves, MovesAt, to
  <2>3. CallType(call')
    BY <1>11, <2>2 DEF CallType, CallsAt
  <2> QED BY <1>1, <1>3, <1>6, <2>3 DEF TypeInv, world, limits
<1>13. WorldInv'
  BY <1>3, <1>11 DEF ClientInv, WorldInv, Pulling, world
<1>14. KeyInv'
  <2>1. \A x \in Named' : \E y \in Named : Alike(x, y)
    BY <1>1, <1>3, <1>11, NamedKept DEF world
  <2> QED BY <1>3, <2>1, KeysKept DEF ClientInv, world
<1>15. ResultInv'
  BY <1>11 DEF ResultInv, FoundAll
<1>16. Orphan = {} /\ Orphan' = {}
  BY <1>1, <1>11 DEF Orphan
<1>17. StateInv'
  <2>1. ASSUME NEW u \in Users, NEW s, Sound(s, u, {}) PROVE Sound(s, u, {})'
    <3>1. brought[u] \subseteq brought'[u] /\ brought[u] \union {} \subseteq brought'[u] \union {}
      BY <1>6
    <3>2. Accounted(s, brought[u] \union {}, Held(server[u]), ToSet(queue[u]))
          /\ Complete(s, brought[u], refused[u])
      BY <2>1 DEF Sound
    <3>3. Accounted(s, brought'[u] \union {}, Held(server[u]), ToSet(queue[u]))
      BY <3>1, <3>2, AccountedGrows
    <3>4. Complete(s, brought'[u], refused[u])
      BY <3>1, <3>2, CompleteGrows
    <3> QED BY <1>3, <3>3, <3>4 DEF Sound, world
  <2>2. Sound(mem, who, Orphan)'
    BY <1>1, <1>2, <1>3, <1>16, <2>1
  <2>3. \A u \in Users : saved[u] # Null => Sound(saved[u], u, {})
    BY <1>16 DEF ClientInv, StateInv
  <2>4. \A u \in Users : saved'[u] # Null => Sound(saved[u], u, {})'
    BY <1>3, <2>1, <2>3
  <2>5. Sound(call.state, call.to, {})'
    <3>1. brought'[to] \union {} = brought'[to]
      OBVIOUS
    <3> QED BY <1>3, <1>10, <1>11, <3>1 DEF Sound, world
  <2> QED BY <1>11, <1>16, <2>2, <2>4, <2>5 DEF StateInv
<1>18. AskInv'
  BY <1>11 DEF AskInv
<1>19. LinkInv'
  <2>1. saved[Guest] # Null => Held(saved[Guest]) \subseteq Held(mem)
    BY <1>1 DEF ClientInv, LinkInv
  <2> QED BY <1>1, <1>3, <1>6, <1>9, <1>11, <2>1 DEF LinkInv
<1>20. SavedInv'
  BY <1>1, <1>3 DEF ClientInv, SavedInv, limits
<1> QED BY <1>12, <1>13, <1>14, <1>15, <1>17, <1>18, <1>19, <1>20 DEF ClientInv

(* While the queue moves, all that the guest was shown is brought, so that *)
(* nothing rests on the guest's queue any more.                            *)
LEMMA MovesIs ==
  ASSUME ClientInv, call.at \in MovesAt
  PROVE  /\ call \in Moves /\ call.to \in Users /\ call.to # Guest /\ who = Guest /\ Orphan = {}
         /\ Held(mem) \subseteq brought[Guest] /\ Held(mem) \subseteq brought[call.to]
         /\ saved[Guest] # Null => Held(saved[Guest]) \subseteq brought[Guest]
         /\ \A u \in Users : saved[u] # Null => Sound(saved[u], u, {})
         /\ Sound(call.state, call.to, {})
<1>1. call \in Moves /\ who = Guest /\ Orphan = {} /\ call.at \notin {"closed", "saving"}
  BY DEF ClientInv, TypeInv, CallType, LinkInv, Orphan, MovesAt
<1>2. call.to \in Users /\ call.to # Guest
  BY <1>1, ClientAssumption DEF Moves, Users
<1>3. Held(mem) \subseteq brought[Guest] /\ Held(mem) \subseteq brought[call.to]
  BY DEF ClientInv, LinkInv
<1>4. saved[Guest] # Null => Held(saved[Guest]) \subseteq Held(mem)
  BY <1>1 DEF ClientInv, LinkInv
<1>5. (\A u \in Users : saved[u] # Null => Sound(saved[u], u, {})) /\ Sound(call.state, call.to, {})
  BY <1>1 DEF ClientInv, StateInv
<1> QED BY <1>1, <1>2, <1>3, <1>4, <1>5

(* One of the three saves before the account takes over.                   *)
LEMMA MoveKeeps ==
  ASSUME ClientInv, call.at \in MovesAt, call'.at \in MovesAt \ {"emptyOps"},
         call' = [call EXCEPT !.at = call'.at],
         UNCHANGED <<clock, who, mem, saved, keys, brought, world, limits>>,
         queue' \in [Users -> Seq(Operations)], refused' \in [Users -> SUBSET Spots],
         \A u \in Users \ {Guest} :
           ToSet(queue[u]) \subseteq ToSet(queue'[u]) /\ refused[u] \subseteq refused'[u],
         \A x \in Waiting' : x \in Waiting,
         call'.at = "writeHistory" => ToSet(call.ops) \subseteq ToSet(queue'[call.to])
  PROVE  ClientInv'
<1>1. /\ call \in Moves /\ call.to \in Users /\ call.to # Guest /\ who = Guest
      /\ Held(mem) \subseteq brought[Guest] /\ Held(mem) \subseteq brought[call.to]
      /\ saved[Guest] # Null => Held(saved[Guest]) \subseteq brought[Guest]
      /\ \A u \in Users : saved[u] # Null => Sound(saved[u], u, {})
      /\ Sound(call.state, call.to, {})
  BY MovesIs
<1>2. /\ call' \in Moves /\ call'.to = call.to /\ call'.ops = call.ops /\ call'.state = call.state
      /\ call'.at \notin {"idle", "closed", "saving", "asking", "waiting", "applying", "linking"}
  BY <1>1 DEF Moves, MovesAt
<1>3. TypeInv'
  <2>1. CallType(call')
    BY <1>2 DEF CallType, CallsAt, MovesAt
  <2> QED BY <2>1 DEF ClientInv, TypeInv, world, limits, MovesAt
<1>4. WorldInv'
  BY <1>2 DEF ClientInv, WorldInv, Pulling, world
<1>5. KeyInv'
  <2>1. \A x \in Named' : x \in Named
    BY <1>2 DEF Named, world
  <2>2. \A x \in Named' : \E y \in Named : Alike(x, y)
    <3> HIDE DEF Named
    <3> QED BY <2>1 DEF Alike
  <2> QED BY <2>2, KeysKept DEF ClientInv, world
<1>6. ResultInv'
  BY <1>2 DEF ResultInv, FoundAll
<1>7. Orphan' = {}
  BY <1>2 DEF Orphan
<1>8. StateInv'
  <2>1. ASSUME NEW s, NEW u \in Users, u = Guest => Held(s) \subseteq brought[Guest], Sound(s, u, {})
        PROVE  Sound(s, u, {})'
    <3>1. CASE u = Guest
      <4>1. Held(s) \subseteq brought'[u] /\ Held(s) \subseteq brought'[u] \union {}
        BY <2>1, <3>1
      <4> QED BY <4>1, Excused DEF Sound
    <3>2. CASE u # Guest
      <4>1. Accounted(s, brought[u] \union {}, Held(server[u]), ToSet(queue[u]))
            /\ Complete(s, brought[u], refused[u])
        BY <2>1 DEF Sound
      <4>2. ToSet(queue[u]) \subseteq ToSet(queue'[u]) /\ refused[u] \subseteq refused'[u]
        BY <3>2
      <4>3. Accounted(s, brought[u] \union {}, Held(server[u]), ToSet(queue'[u]))
        BY <4>1, <4>2, AccountedGrows
      <4>4. Complete(s, brought[u], refused'[u])
        BY <4>1, <4>2, CompleteGrows
      <4> QED BY <4>3, <4>4 DEF Sound, world
    <3> QED BY <3>1, <3>2
  <2>2. Sound(mem, who, {})'
    <3>1. Sound(mem, who, {})
      BY <1>1, Excused DEF Sound
    <3>2. \A s : s = mem' /\ Sound(s, Guest, {})' => Sound(mem, Guest, {})'
      OBVIOUS
    <3> QED
      BY <1>1, <2>1, <3>1, <3>2 DEF Users
  <2>3. \A u \in Users : saved'[u] # Null => Sound(saved[u], u, {})'
    BY <1>1, <2>1
  <2>4. Sound(call.state, call.to, {})'
    BY <1>1, <1>2, <2>1
  <2> QED BY <1>2, <1>7, <2>2, <2>3, <2>4 DEF StateInv
<1>9. AskInv'
  BY <1>2 DEF AskInv
<1>10. LinkInv'
  BY <1>2 DEF ClientInv, LinkInv, MovesAt
<1>11. SavedInv'
  BY DEF ClientInv, SavedInv, limits, MovesAt
<1> QED BY <1>3, <1>4, <1>5, <1>6, <1>8, <1>9, <1>10, <1>11 DEF ClientInv

LEMMA MoveOpsKeeps ==
  ASSUME ClientInv, MoveOps, UNCHANGED <<who, refused>>,
         UNCHANGED <<clock, mem, saved, keys, brought, world, limits>>
  PROVE  ClientInv'
<1>1. call.at \in MovesAt
  BY DEF MoveOps, MovesAt
<1>2. /\ TypeInv /\ call \in Moves /\ call.to \in Users /\ call.to # Guest /\ Guest \in Users
      /\ queue \in [Users -> Seq(Operations)] /\ refused \in [Users -> SUBSET Spots]
  BY <1>1, MovesIs, UsersSame DEF ClientInv, Users
<1>3. CASE /\ call.at = "emptyOps" /\ queue' = [queue EXCEPT ![Guest] = <<>>]
           /\ call' = [call EXCEPT !.at = "emptyHistory"]
  <2>1. /\ call'.at = "emptyHistory" /\ call'.ops = call.ops /\ call.ops = queue[Guest]
        /\ call' = [call EXCEPT !.at = call'.at]
    BY <1>2, <1>3 DEF Moves, ClientInv, LinkInv
  <2>2. /\ queue' \in [Users -> Seq(Operations)] /\ queue'[Guest] = <<>>
        /\ \A u \in Users : u # Guest => queue'[u] = queue[u]
    BY <1>2, <1>3, EmptySeq
  <2>3. ToSet(<<>>) = {}
    BY EmptySeq DEF ToSet
  <2>4. \A x \in Waiting' : x \in Waiting
    <3>1. \A u \in Users : \A x \in ToSet(queue[u]) : x \in Waiting
      BY <1>2, QueuedIs
    <3>2. \A u \in Users : \A x \in ToSet(queue'[u]) : x \in Waiting
      BY <2>2, <2>3, <3>1
    <3>3. \A x \in ToSet(call'.ops) : x \in Waiting
      BY <1>2, <2>1, <3>1
    <3>4. \A x \in Waiting' : (\E u \in Users : x \in ToSet(queue'[u])) \/ x \in ToSet(call'.ops)
      BY Zenon DEF Waiting
    <3> QED BY <3>2, <3>3, <3>4
  <2> QED
    BY <1>1, <2>1, <2>2, <2>4, <1>2, MoveKeeps DEF MovesAt
<1>4. CASE /\ call.at = "writeOps" /\ queue' = [queue EXCEPT ![call.to] = @ \o call.ops]
           /\ call' = [call EXCEPT !.at = "writeHistory"]
  <2>1. /\ call'.at = "writeHistory" /\ call.ops \in Seq(Operations) /\ queue[call.to] \in Seq(Operations)
        /\ call' = [call EXCEPT !.at = call'.at]
    BY <1>2, <1>4 DEF Moves
  <2> DEFINE joined == queue[call.to] \o call.ops
  <2>2. joined \in Seq(Operations) /\ ToSet(joined) = ToSet(queue[call.to]) \union ToSet(call.ops)
    BY <2>1, JoinedIs
  <2>3. queue' = [queue EXCEPT ![call.to] = joined]
    BY <1>4
  <2> HIDE DEF joined
  <2>4. /\ queue' \in [Users -> Seq(Operations)] /\ queue'[call.to] = joined
        /\ \A u \in Users : u # call.to => queue'[u] = queue[u]
    BY <1>2, <2>2, <2>3
  <2>5. \A u \in Users : ToSet(queue[u]) \subseteq ToSet(queue'[u])
    BY <2>2, <2>4
  <2>6. \A x \in ToSet(call.ops) : x \in Waiting
    <3>1. call.at \in {"emptyHistory", "writeOps"}
      BY <1>4
    <3>2. Waiting = (UNION {ToSet(queue[u]) : u \in Users}) \union ToSet(call.ops)
      BY <3>1 DEF Waiting
    <3> QED BY <3>2, Zenon
  <2>7. \A u \in Users : \A x \in ToSet(queue'[u]) : x \in Waiting
    <3>1. \A u \in Users : \A x \in ToSet(queue[u]) : x \in Waiting
      BY <1>2, QueuedIs
    <3> QED BY <1>2, <2>2, <2>4, <2>6, <3>1
  <2>8. \A x \in Waiting' : x \in Waiting
    BY <2>1, <2>7 DEF Waiting
  <2> QED
    BY <1>1, <1>2, <2>1, <2>2, <2>4, <2>5, <2>8, MoveKeeps DEF MovesAt
<1> QED BY <1>3, <1>4 DEF MoveOps

LEMMA MoveHistoryKeeps ==
  ASSUME ClientInv, MoveHistory, UNCHANGED queue,
         UNCHANGED <<clock, mem, saved, keys, brought, world, limits>>
  PROVE  ClientInv'
<1>1. call.at \in MovesAt
  BY DEF MoveHistory, MovesAt
<1>2. /\ TypeInv /\ call \in Moves /\ call.to \in Users /\ call.to # Guest /\ Guest \in Users
      /\ queue \in [Users -> Seq(Operations)] /\ refused \in [Users -> SUBSET Spots]
  BY <1>1, MovesIs, UsersSame DEF ClientInv, Users
<1>3. CASE /\ call.at = "emptyHistory" /\ refused' = [refused EXCEPT ![Guest] = {}]
           /\ call' = [call EXCEPT !.at = "writeOps"] /\ UNCHANGED who
  <2>1. call'.at = "writeOps" /\ call' = [call EXCEPT !.at = call'.at] /\ call'.ops = call.ops
    BY <1>2, <1>3 DEF Moves
  <2>2. /\ refused' \in [Users -> SUBSET Spots]
        /\ \A u \in Users : u # Guest => refused'[u] = refused[u]
    BY <1>2, <1>3
  <2>3. \A x \in Waiting' : x \in Waiting
    BY <1>3, <2>1 DEF Waiting
  <2> QED
    BY <1>1, <1>2, <2>1, <2>2, <2>3, MoveKeeps, <1>3 DEF MovesAt
<1>4. CASE /\ call.at = "writeHistory"
           /\ refused' = [refused EXCEPT ![call.to] = @ \union call.refused]
           /\ who' = call.to /\ call' = Saving(call.state, {}, Idle)
  <2>1. /\ Held(mem) \subseteq brought[call.to] /\ Sound(call.state, call.to, {})
        /\ \A u \in Users : saved[u] # Null => Sound(saved[u], u, {})
    BY <1>1, MovesIs
  <2>2. call.state \in ClientStates /\ call.refused \in SUBSET Spots
    BY <1>2 DEF Moves
  <2>3. /\ CallType(call') /\ call'.at = "saving" /\ call'.state = call.state /\ call'.orphan = {}
        /\ call'.next = Idle
    BY <1>4, <2>2, SavingType, GoingType DEF Saving
  <2>4. call'.next.at = "idle"
    BY <2>3 DEF Idle
  <2>5. refused' \in [Users -> SUBSET Spots] /\ \A u \in Users : refused[u] \subseteq refused'[u]
    BY <1>2, <1>4, <2>2
  <2>6. TypeInv'
    BY <1>2, <1>4, <2>3, <2>5 DEF TypeInv, world, limits
  <2>7. WorldInv'
    BY <2>3, <2>4 DEF ClientInv, WorldInv, Pulling, world
  <2>8. KeyInv'
    <3>1. \A x \in Named' : \E y \in Named : Alike(x, y)
      BY <1>2, <2>3, NamedSaving DEF world
    <3> QED BY <3>1, KeysKept DEF ClientInv, world
  <2>9. ResultInv'
    BY <2>3, <2>4 DEF ResultInv, FoundAll
  <2>10. Orphan' = {}
    BY <2>3 DEF Orphan
  <2>11. StateInv'
    <3>1. ASSUME NEW s, NEW u \in Users, Sound(s, u, {}) PROVE Sound(s, u, {})'
      <4>1. refused[u] \subseteq refused'[u]
        BY <2>5
      <4>2. Complete(s, brought[u], refused'[u])
        BY <3>1, <4>1, CompleteGrows DEF Sound
      <4> QED BY <3>1, <4>2 DEF Sound, world
    <3>2. Sound(mem, call.to, {})
      BY <2>1, Excused DEF Sound
    <3>3. Sound(mem, who, {})'
      BY <1>2, <1>4, <3>1, <3>2
    <3>4. \A u \in Users : saved'[u] # Null => Sound(saved[u], u, {})'
      BY <2>1, <3>1
    <3>5. Sound(call.state, who, {})'
      BY <1>2, <1>4, <2>1, <2>3, <3>1
    <3> QED BY <2>3, <2>10, <3>3, <3>4, <3>5 DEF StateInv, MovesAt
  <2>12. AskInv'
    BY <2>3 DEF AskInv
  <2>13. LinkInv'
    BY <1>2, <1>4, <2>3 DEF LinkInv, MovesAt
  <2>14. SavedInv'
    BY <2>3 DEF SavedInv
  <2> QED BY <2>6, <2>7, <2>8, <2>9, <2>11, <2>12, <2>13, <2>14 DEF ClientInv
<1> QED BY <1>3, <1>4 DEF MoveHistory

LEMMA MigrateUserKeeps == ASSUME ClientInv, MigrateUser PROVE ClientInv'
  BY MoveOpsKeeps, MoveHistoryKeeps DEF MigrateUser

-----------------------------------------------------------------------------
(* The server and the others.                                              *)

(* What the server grants on top of what it holds is granted.              *)
LEMMA GrantsMore ==
  ASSUME NEW state \in ClientStates, Granted(state, Held(state)), NEW spot \in Spots,
         SpotDef[spot].prerequisites \subseteq Held(state)
  PROVE  LET next == LocalCheckIn(state, spot, ServerTime) IN
         /\ next \in ClientStates /\ Granted(next, Held(next))
         /\ Held(state) \subseteq Held(next) /\ spot \in Held(next)
<1> DEFINE next == LocalCheckIn(state, spot, ServerTime)
<1>1. next \in ClientStates /\ next.stamps = [state.stamps EXCEPT ![spot] = ServerTime]
  BY TimeIs, LocalCheckInIs
<1> HIDE DEF next
<1>2. \A s \in Spots : next.stamps[s] = IF s = spot THEN ServerTime ELSE state.stamps[s]
  BY <1>1 DEF ClientStates
<1>3. Held(next) = Held(state) \union {spot}
  BY <1>2, TimeIs DEF Held
<1>4. Granted(next, Held(next))
  <2>1. Held(state) \subseteq Spots
    BY DEF Held
  <2> QED BY <1>2, <1>3, <2>1 DEF Granted
<1> QED BY <1>1, <1>3, <1>4 DEF next

(* The server goes on: it holds more, and what it answers it grants.       *)
LEMMA ServerKeeps ==
  ASSUME ClientInv, UNCHANGED <<clock, phone, limits>>,
         server' \in [Users -> ClientStates], stock' \in Nat, flying' \subseteq flying,
         answers \subseteq answers', answers' \in SUBSET Answers,
         \A u \in Users : /\ Held(server[u]) \subseteq Held(server'[u])
                          /\ Granted(server'[u], Held(server'[u])),
         \A a \in answers' \ answers :
           /\ a.key <= keys /\ (a.ok => Granted(a.state, Held(server'[a.user])))
           /\ \A x \in Named : a.ok /\ a.key = x.key /\ x.kind = "checkIn" => x.resource \in Held(a.state)
  PROVE  ClientInv'
<1>1. UNCHANGED <<who, mem, saved, queue, refused, call, keys, brought, refusals>>
  BY DEF phone, limits
<1>2. TypeInv /\ who \in Users
  BY DEF ClientInv, TypeInv
<1>3. TypeInv'
  BY <1>1, <1>2 DEF TypeInv
<1>4. ASSUME NEW state, NEW u \in Users, Granted(state, Held(server[u]))
      PROVE  Granted(state, Held(server'[u]))
  BY <1>4 DEF Granted
<1>5. WorldInv'
  <2>1. ASSUME NEW a \in answers', a.ok PROVE Granted(a.state, Held(server'[a.user]))
    <3>1. CASE a \in answers
      <4>1. a.user \in Users /\ Granted(a.state, Held(server[a.user]))
        BY <1>2, <2>1, <3>1 DEF ClientInv, WorldInv, TypeInv, Answers
      <4> QED BY <1>4, <4>1
    <3>2. CASE a \notin answers
      BY <2>1, <3>2
    <3> QED BY <3>1, <3>2
  <2>2. Pulling(call) /\ (call.at = "saving" => Pulling(call.next))
    BY DEF ClientInv, WorldInv
  <2>3. \A c : Pulling(c) => Pulling(c)'
    BY <1>1, <1>2, <1>4 DEF Pulling
  <2> QED BY <1>1, <2>1, <2>2, <2>3 DEF WorldInv
<1>6. KeyInv'
  <2>1. \A x \in Named' : x \in Named
    BY <1>1 DEF Named, Waiting
  <2> HIDE DEF Named
  <2> QED BY <1>1, <2>1 DEF ClientInv, KeyInv
<1>7. ResultInv'
  <2>1. \A key : Answer(key) \subseteq Answer(key)'
    BY <1>1 DEF Answer
  <2>2. \A r : Found(r) => Found(r)'
    BY <2>1 DEF Found
  <2>3. \A c : FoundAll(c) => FoundAll(c)'
    BY <2>2 DEF FoundAll
  <2> QED BY <1>1, <2>3 DEF ClientInv, ResultInv
<1>8. Orphan' = Orphan
  BY <1>1 DEF Orphan
<1>9. StateInv'
  <2>1. ASSUME NEW s, NEW u \in Users, NEW e, Sound(s, u, e) PROVE Sound(s, u, e)'
    <3>1. Accounted(s, brought[u] \union e, Held(server'[u]), ToSet(queue[u]))
      BY <2>1, AccountedGrows DEF Sound
    <3> QED BY <1>1, <2>1, <3>1 DEF Sound
  <2>2. call.at # "closed" => Sound(mem, who, Orphan)'
    BY <1>1, <1>2, <1>8, <2>1 DEF ClientInv, StateInv
  <2>3. ASSUME NEW u \in Users, saved[u] # Null
        PROVE  Sound(saved[u], u, IF u = who THEN Orphan ELSE {})'
    <3>1. Sound(saved[u], u, IF u = who THEN Orphan ELSE {})
      BY <2>3 DEF ClientInv, StateInv
    <3> QED BY <1>1, <1>8, <2>1, <3>1
  <2>4. call.at = "saving" => Sound(call.state, who, {})'
    BY <1>1, <1>2, <2>1 DEF ClientInv, StateInv
  <2>5. call.at \in MovesAt => Sound(call.state, call.to, {})'
    BY <1>1, <2>1, MovesIs DEF ClientInv, StateInv
  <2> QED BY <1>1, <2>2, <2>3, <2>4, <2>5 DEF StateInv
<1>10. AskInv'
  BY <1>1 DEF ClientInv, AskInv, MayCheckIn
<1>11. LinkInv'
  BY <1>1 DEF ClientInv, LinkInv
<1>12. SavedInv'
  BY <1>1 DEF ClientInv, SavedInv
<1> QED BY <1>3, <1>5, <1>6, <1>7, <1>9, <1>10, <1>11, <1>12 DEF ClientInv

LEMMA ServerIs ==
  ASSUME ClientInv
  PROVE  /\ server \in [Users -> ClientStates] /\ stock \in Nat /\ keys \in Nat
         /\ answers \in SUBSET Answers /\ flying \in SUBSET Requests
         /\ \A u \in Users : server[u] \in ClientStates /\ Granted(server[u], Held(server[u]))
  BY DEF ClientInv, TypeInv, WorldInv

LEMMA AppliedIs ==
  ASSUME ClientInv, NEW r \in Requests, Allowed(r)
  PROVE  /\ Applied(r) \in ClientStates /\ Granted(Applied(r), Held(Applied(r)))
         /\ Held(server[r.user]) \subseteq Held(Applied(r))
         /\ r.kind = "checkIn" => r.resource \in Held(Applied(r))
<1> DEFINE own == server[r.user]
<1>1. /\ r.user \in Users /\ own \in ClientStates /\ Granted(own, Held(own))
      /\ r.kind \in {"checkIn", "claimReward"}
      /\ r.kind = "checkIn" => r.resource \in Spots
      /\ r.kind = "claimReward" => r.resource \in Rewards
  BY ServerIs DEF Requests, Kinds
<1>2. CASE r.kind = "checkIn"
  <2>1. SpotDef[r.resource].prerequisites \subseteq Held(own) /\ r.resource \in Spots
    BY <1>1, <1>2 DEF Allowed
  <2>2. Applied(r) = LocalCheckIn(own, r.resource, ServerTime)
    BY <1>2 DEF Applied
  <2> HIDE DEF own
  <2> QED BY <1>1, <2>1, <2>2, GrantsMore DEF own
<1>3. CASE r.kind = "claimReward"
  <2> DEFINE rw == r.resource
             reward == ConsumedReward(rw, own.rewards[rw], "issued")
             time == ServerTime
             next == [own EXCEPT !.at = time, !.rewards[rw] = reward]
  <2>1. rw \in Rewards /\ own.rewards[rw] \in RewardStates /\ time \in Nat
    BY <1>1, <1>3, TimeIs DEF ClientStates
  <2>2. reward \in RewardStates
    BY <2>1, ClientAssumption DEF ConsumedReward, RewardStates, RewardStatus
  <2>3. Applied(r) = next
    BY <1>3 DEF Applied
  <2> HIDE DEF own, reward, rw, time
  <2>4. next \in ClientStates /\ next.stamps = own.stamps
    BY <1>1, <2>1, <2>2 DEF ClientStates
  <2> HIDE DEF next
  <2>5. Held(next) = Held(own)
    BY <2>4, HeldIs
  <2>6. Granted(next, Held(next))
    BY <1>1, <2>4, <2>5 DEF Granted
  <2> QED BY <1>3, <2>3, <2>4, <2>5, <2>6 DEF own
<1> QED BY <1>1, <1>2, <1>3

LEMMA ServeKeeps ==
  ASSUME ClientInv, NEW r \in flying, NEW accept \in BOOLEAN, Serve(r, accept)
  PROVE  ClientInv'
<1>1. /\ r \in Requests /\ r \in Named /\ r.user \in Users /\ r.key \in Nat /\ r.key <= keys
      /\ flying' \subseteq flying /\ UNCHANGED <<clock, phone, limits>>
  BY ServerIs DEF Serve, Requests, Named, ClientInv, KeyInv
<1>2. CASE UNCHANGED <<answers, server, stock>>
  <2>1. \A a \in answers' \ answers : FALSE
    BY <1>2
  <2> QED BY <1>1, <1>2, <2>1, ServerIs, ServerKeeps
<1>3. CASE /\ Allowed(r) /\ server' = [server EXCEPT ![r.user] = Applied(r)]
           /\ Remember(r, TRUE, Applied(r))
           /\ stock' = IF r.kind = "claimReward" THEN stock - 1 ELSE stock
  <2> DEFINE own == Applied(r)
             a == [user |-> r.user, key |-> r.key, ok |-> TRUE, state |-> own]
  <2>1. /\ own \in ClientStates /\ Granted(own, Held(own)) /\ Held(server[r.user]) \subseteq Held(own)
        /\ r.kind = "checkIn" => r.resource \in Held(own)
    BY <1>1, <1>3, AppliedIs
  <2>2. stock' \in Nat
    <3>1. r.kind = "claimReward" => stock > 0
      BY <1>3 DEF Allowed
    <3> QED BY <1>3, <3>1, ServerIs
  <2> HIDE DEF own
  <2>3. a \in Answers /\ answers' = answers \union {a}
    BY <1>1, <1>3, <2>1 DEF Answers, Remember, own
  <2>4. /\ server' \in [Users -> ClientStates] /\ server'[r.user] = own
        /\ \A u \in Users : u # r.user => server'[u] = server[u]
    BY <1>1, <1>3, <2>1, ServerIs DEF own
  <2>5. \A u \in Users : /\ Held(server[u]) \subseteq Held(server'[u])
                         /\ Granted(server'[u], Held(server'[u]))
    <3>1. \A u \in Users : Granted(server[u], Held(server[u]))
      BY ServerIs
    <3> QED BY <2>1, <2>4, <3>1
  <2>6. a.key <= keys /\ Granted(a.state, Held(server'[a.user]))
    BY <1>1, <2>1, <2>4
  <2>7. \A x \in Named : a.key = x.key /\ x.kind = "checkIn" => x.resource \in Held(a.state)
    BY <1>1, <2>1 DEF ClientInv, KeyInv
  <2>8. answers' \in SUBSET Answers
    BY <2>3, ServerIs
  <2> HIDE DEF a
  <2> QED
    BY <1>1, <2>2, <2>3, <2>4, <2>5, <2>6, <2>7, <2>8, ServerKeeps
<1>4. CASE Remember(r, FALSE, Null) /\ UNCHANGED <<server, stock>>
  <2> DEFINE a == [user |-> r.user, key |-> r.key, ok |-> FALSE, state |-> Null]
  <2>1. a \in Answers /\ a.ok = FALSE /\ a.key = r.key /\ answers' = answers \union {a}
    BY <1>1, <1>4 DEF Answers, Remember
  <2> HIDE DEF a
  <2>2. answers' \in SUBSET Answers
    BY <2>1, ServerIs
  <2>3. \A u \in Users : /\ Held(server[u]) \subseteq Held(server'[u])
                         /\ Granted(server'[u], Held(server'[u]))
    BY <1>4, ServerIs
  <2> QED
    BY <1>1, <1>4, <2>1, <2>2, <2>3, ServerIs, ServerKeeps
<1> QED BY <1>2, <1>3, <1>4 DEF Serve

LEMMA OtherDeviceKeeps ==
  ASSUME ClientInv, NEW account \in Accounts, NEW spot \in Spots, OtherDevice(account, spot)
  PROVE  ClientInv'
<1> DEFINE next == LocalCheckIn(server[account], spot, ServerTime)
<1>1. /\ account \in Users /\ UNCHANGED <<clock, phone, limits, flying, answers, stock>>
      /\ server' = [server EXCEPT ![account] = next]
  BY DEF OtherDevice, Users
<1>2. SpotDef[spot].prerequisites \subseteq Held(server[account])
  BY DEF OtherDevice
<1>3. /\ next \in ClientStates /\ Granted(next, Held(next))
      /\ Held(server[account]) \subseteq Held(next)
  BY <1>1, <1>2, ServerIs, GrantsMore
<1> HIDE DEF next
<1>4. /\ server' \in [Users -> ClientStates] /\ server'[account] = next
      /\ \A u \in Users : u # account => server'[u] = server[u]
  BY <1>1, <1>3, ServerIs
<1>5. \A u \in Users : /\ Held(server[u]) \subseteq Held(server'[u])
                       /\ Granted(server'[u], Held(server'[u]))
  <2>1. \A u \in Users : Granted(server[u], Held(server[u]))
    BY ServerIs
  <2> QED BY <1>3, <1>4, <2>1
<1>6. \A a \in answers' \ answers : FALSE
  BY <1>1
<1> QED BY <1>1, <1>4, <1>5, <1>6, ServerIs, ServerKeeps

LEMMA OtherVisitorKeeps == ASSUME ClientInv, OtherVisitor PROVE ClientInv'
<1>1. stock' \in Nat /\ UNCHANGED <<clock, phone, limits, flying, answers, server>>
  BY ServerIs DEF OtherVisitor
<1>2. \A u \in Users : /\ Held(server[u]) \subseteq Held(server'[u])
                       /\ Granted(server'[u], Held(server'[u]))
  BY <1>1, ServerIs
<1>3. \A a \in answers' \ answers : FALSE
  BY <1>1
<1> QED BY <1>1, <1>2, <1>3, ServerIs, ServerKeeps

LEMMA QuietStepKeeps ==
  ASSUME ClientInv, UNCHANGED <<phone, world, limits>>, clock' \in Nat, clock' < MaxTime
  PROVE  ClientInv'
<1>1. UNCHANGED <<who, mem, saved, queue, refused, call, keys, brought, flying, answers, server,
                  stock, refusals>>
  BY DEF phone, world, limits
<1>2. TypeInv'
  BY <1>1 DEF ClientInv, TypeInv
<1>3. WorldInv'
  BY <1>1 DEF ClientInv, WorldInv, Pulling
<1>4. KeyInv'
  BY <1>1 DEF ClientInv, KeyInv, Named, Waiting
<1>5. ResultInv'
  BY <1>1 DEF ClientInv, ResultInv, FoundAll, Found, Answer
<1>6. StateInv'
  BY <1>1 DEF ClientInv, StateInv, Sound, Orphan
<1>7. AskInv'
  BY <1>1 DEF ClientInv, AskInv, MayCheckIn
<1>8. LinkInv'
  BY <1>1 DEF ClientInv, LinkInv
<1>9. SavedInv'
  BY <1>1 DEF ClientInv, SavedInv
<1> QED BY <1>2, <1>3, <1>4, <1>5, <1>6, <1>7, <1>8, <1>9 DEF ClientInv

LEMMA TickKeeps == ASSUME ClientInv, Tick PROVE ClientInv'
<1>1. clock' \in Nat /\ clock' < MaxTime
  BY DEF ClientInv, TypeInv, Tick
<1> QED BY <1>1, QuietStepKeeps DEF Tick

-----------------------------------------------------------------------------
(* The invariant holds.                                                    *)

LEMMA InitHolds == Init => ClientInv
<1> SUFFICES ASSUME Init PROVE ClientInv
  OBVIOUS
<1> DEFINE first == EmptyState(0)
<1>1. first \in ClientStates /\ Held(first) = {} /\ Guest \in Users
  BY EmptyStateIs, SMT DEF Held, Users
<1> HIDE DEF first
<1>2. /\ \A u \in Users : saved[u] = Null /\ queue[u] = <<>> /\ server[u] = first
      /\ call = Closed /\ call.at = "closed" /\ who = Guest /\ flying = {} /\ answers = {}
  BY DEF Init, Closed, first
<1>3. TypeInv
  <2>1. /\ saved \in [Users -> ClientStates \union {Null}] /\ queue \in [Users -> Seq(Operations)]
        /\ refused \in [Users -> SUBSET Spots] /\ brought \in [Users -> SUBSET Spots]
        /\ server \in [Users -> ClientStates]
    BY <1>1, EmptySeq DEF Init, first
  <2>2. clock \in Nat /\ clock < MaxTime /\ keys \in Nat /\ refusals \in Nat /\ stock \in Nat
    BY ClientAssumption, SpotsAssumption DEF Init
  <2> QED BY <1>1, <1>2, <2>1, <2>2, GoingType DEF TypeInv
<1>4. WorldInv
  BY <1>1, <1>2 DEF WorldInv, Granted, Pulling
<1>5. KeyInv
  <2>1. ToSet(<<>>) = {}
    BY EmptySeq DEF ToSet
  <2>2. \A u \in Users : ToSet(queue[u]) = {}
    BY <1>2, <2>1
  <2>3. Named = {}
    BY <1>2, <2>2 DEF Named, Waiting
  <2> QED BY <1>2, <2>3 DEF KeyInv
<1>6. ResultInv
  BY <1>2 DEF ResultInv, FoundAll
<1>7. StateInv
  BY <1>2 DEF StateInv, MovesAt
<1>8. AskInv
  BY <1>2 DEF AskInv
<1>9. LinkInv
  BY <1>2 DEF LinkInv, MovesAt
<1>10. SavedInv
  BY <1>2 DEF SavedInv
<1> QED BY <1>3, <1>4, <1>5, <1>6, <1>7, <1>8, <1>9, <1>10 DEF ClientInv

LEMMA NextKeeps == ClientInv /\ [Next]_vars => ClientInv'
<1> SUFFICES ASSUME ClientInv, [Next]_vars PROVE ClientInv'
  OBVIOUS
<1>1. CASE Call
  BY <1>1, SwitchUserKeeps, ClearUserStateKeeps, ResetKeeps, RestoreKeeps, CheckInLocallyKeeps,
     CheckInKeeps, ClaimRewardKeeps, SyncKeeps, LinkAccountKeeps, Zenon DEF Call
<1>2. CASE Step
  BY <1>2, SaveKeeps, AnsweredKeeps, NotAnsweredKeeps, QueueDoneKeeps, SendHeadKeeps, SkipHeadKeeps,
     HeadAnsweredKeeps, SyncFailsKeeps, PulledKeeps, ApplyResultKeeps, FinishSyncKeeps, LinkedKeeps,
     MigrateUserKeeps, Zenon DEF Step
<1>3. CASE UNCHANGED vars
  <2>1. UNCHANGED <<phone, world, limits>> /\ clock' = clock
    BY <1>3 DEF vars
  <2>2. clock \in Nat /\ clock < MaxTime
    BY DEF ClientInv, TypeInv
  <2> QED BY <2>1, <2>2, QuietStepKeeps
<1> QED
  BY <1>1, <1>2, <1>3, OpenKeeps, ClosePageKeeps, SaveRefusedKeeps, ServeKeeps, OtherDeviceKeeps,
     OtherVisitorKeeps, TickKeeps, Zenon DEF Next

(* However the calls, the closings of the page, the refusals of storage,   *)
(* the answers and the other devices interleave, ClientInv holds.          *)
THEOREM ClientInvariant == Spec => []ClientInv
<1> QED BY InitHolds, NextKeeps, PTL DEF Spec

(* No phantom stamp: between calls a stamp that is shown is one the server *)
(* granted, one of the queue or one that is shown on no operation's        *)
(* account, however rejections, replays and moves interleave.              *)
THEOREM ShownIsBackedAlways == Spec => []ShownIsBacked
<1>1. ClientInv => ShownIsBacked
  <2> SUFFICES ASSUME ClientInv, call = Idle, NEW s \in Held(mem)
               PROVE  s \in Held(server[who]) \union QueuedCheckIns(who) \union brought[who]
    BY DEF ShownIsBacked
  <2>1. Accounted(mem, brought[who], Held(server[who]), ToSet(queue[who]))
    BY ShownSound DEF Idle
  <2>2. CASE s \in brought[who] \union Held(server[who])
    BY <2>2
  <2>3. CASE s \notin brought[who] \union Held(server[who])
    <3>1. PICK op \in ToSet(queue[who]) : op.kind = "checkIn" /\ op.resource = s
      BY <2>1, <2>3 DEF Accounted
    <3>2. s \in CheckInsOf(op)
      BY <3>1 DEF CheckInsOf
    <3>3. s \in QueuedCheckIns(who)
      BY <3>1, <3>2, Zenon DEF QueuedCheckIns
    <3> QED BY <3>3
  <2> QED BY <2>2, <2>3
<1> QED BY <1>1, ClientInvariant, PTL

(* As long as storage refuses no state, a page that is closed between two  *)
(* calls and opened again shows the same stamps and redeemed rewards.      *)
THEOREM SavedIsShownAlways == Spec => []SavedIsShown
<1>1. ClientInv => SavedIsShown
  <2> SUFFICES ASSUME ClientInv, call = Idle, refusals = 0
               PROVE  Held(Loaded(who)) = Held(mem) /\ Consumed(Loaded(who)) = Consumed(mem)
    BY DEF SavedIsShown
  <2>1. TypeInv /\ who \in Users /\ SameAs(saved[who], mem)
    BY DEF ClientInv, TypeInv, SavedInv, Idle
  <2>2. CASE saved[who] = Null
    BY <2>1, <2>2, LoadedIs DEF SameAs
  <2>3. CASE saved[who] # Null
    <3>1. /\ Loaded(who).stamps = mem.stamps /\ Consumed(Loaded(who)) = Consumed(mem)
      BY <2>1, <2>3, LoadedIs DEF SameAs
    <3> QED BY <3>1, HeldIs
  <2> QED BY <2>2, <2>3
<1> QED BY <1>1, ClientInvariant, PTL

(* A stamp that is shown lacks a prerequisite only if a check-in there was *)
(* rejected, and one of the server's never does.                           *)
THEOREM ShownPrerequisitesClosedAlways == Spec => []ShownPrerequisitesClosed
<1>1. ClientInv => ShownPrerequisitesClosed
  <2> SUFFICES ASSUME ClientInv, call = Idle, NEW s \in Held(mem) \ brought[who]
               PROVE  LET missing == SpotDef[s].prerequisites \ Held(mem)
                      IN  /\ missing \subseteq refused[who]
                          /\ missing = {} \/ mem.stamps[s] # ServerTime
    BY DEF ShownPrerequisitesClosed
  <2>1. Complete(mem, brought[who], refused[who])
    BY ShownSound DEF Idle
  <2>2. \A p \in SpotDef[s].prerequisites :
          IF mem.stamps[s] = ServerTime THEN mem.stamps[p] = ServerTime
          ELSE p \in Held(mem) \union refused[who]
    BY <2>1 DEF Complete
  <2>3. \A p \in SpotDef[s].prerequisites : p \in Spots
    BY SpotsAssumption DEF Held
  <2> QED BY <2>2, <2>3, TimeIs DEF Held
<1> QED BY <1>1, ClientInvariant, PTL

-----------------------------------------------------------------------------
(* What a step may never do.                                               *)

(* Every step but these leaves the user, the queues and the operations on  *)
(* their way between two of them alone.                                    *)
Moving == Step \/ ClosePage \/ (call = Idle /\ \E u \in Users : SwitchUser(u))

LEMMA OthersStay ==
  ASSUME Next, ~Moving
  PROVE  who' = who /\ queue' = queue /\ (call' = call \/ call.at \in {"idle", "closed", "saving"})
<1>1. CASE Call
  <2>1. call = Idle
    BY <1>1 DEF Call, SwitchUser, ClearUserState, Reset, Restore, CheckInLocally, CheckIn, ClaimReward,
                Sync, LinkAccount
  <2>2. UNCHANGED <<who, queue>> \/ \E u \in Users : SwitchUser(u)
    BY <1>1 DEF Call, ClearUserState, Reset, Restore, CheckInLocally, CheckIn, ClaimReward, Ask,
                Sync, LinkAccount
  <2> QED BY <2>1, <2>2 DEF Moving, Idle
<1>2. CASE \E r \in flying, accept \in BOOLEAN : Serve(r, accept)
  BY <1>2 DEF Serve, phone
<1>3. CASE \E account \in Accounts, spot \in Spots : OtherDevice(account, spot)
  BY <1>3 DEF OtherDevice, phone
<1>4. CASE OtherVisitor \/ Tick
  BY <1>4 DEF OtherVisitor, Tick, phone
<1>5. CASE Open \/ SaveRefused
  BY <1>5 DEF Open, SaveRefused, Closed
<1> QED BY <1>1, <1>2, <1>3, <1>4, <1>5 DEF Next, Moving

(* The steps of a call that change the user or the queues.                 *)
LEMMA StepsStay ==
  ASSUME Step
  PROVE  \/ who' = who /\ queue' = queue /\ call.at \notin {"emptyHistory", "writeOps"}
         \/ NotAnswered \/ SkipHead \/ HeadAnswered \/ ApplyResult \/ MigrateUser
<1>1. CASE Save \/ Answered \/ QueueDone \/ SendHead \/ SyncFails \/ Pulled \/ FinishSync
  BY <1>1 DEF Save, Answered, QueueDone, SendHead, SyncFails, Pulled, FinishSync
<1>2. CASE \E sends \in BOOLEAN, policy \in MigratePolicies : Linked(sends, policy)
  BY <1>2 DEF Linked
<1> QED BY <1>1, <1>2 DEF Step

LEMMA LinkStep ==
  ASSUME ClientInv, Next, who = Guest, who' # Guest, call # Idle
  PROVE  Held(mem) \subseteq Held(call'.state) /\ ToSet(call.ops) \subseteq ToSet(queue'[who'])
<1>1. MigrateUser
  <2>1. Step
    BY OthersStay DEF Moving, ClosePage
  <2> QED
    BY <2>1, StepsStay DEF NotAnswered, SkipHead, HeadAnswered, ApplyResult
<1>2. /\ call.at = "writeHistory" /\ who' = call.to /\ queue' = queue
      /\ call' = Saving(call.state, {}, Idle)
  BY <1>1 DEF MigrateUser, MoveHistory
<1>3. call'.state = call.state
  BY <1>2 DEF Saving
<1>4. Held(mem) \subseteq Held(call.state) /\ ToSet(call.ops) \subseteq ToSet(queue[call.to])
  BY <1>2 DEF ClientInv, LinkInv, MovesAt
<1> QED BY <1>2, <1>3, <1>4

(* When a guest becomes the owner of an account, every stamp the guest was *)
(* shown is in the state about to be saved for the account, and every      *)
(* operation that waited for the guest waits for the account.              *)
THEOREM LinkKeepsProgressAlways == Spec => LinkKeepsProgress
<1>1. ClientInv /\ [Next]_vars =>
        [who = Guest /\ who' # Guest /\ call # Idle =>
           /\ Held(mem) \subseteq Held(call'.state)
           /\ ToSet(call.ops) \subseteq ToSet(queue'[who'])]_vars
  BY LinkStep
<1> QED BY <1>1, ClientInvariant, PTL DEF Spec, LinkKeepsProgress

(* Queues that lose nothing, and a move that goes on, keep what waits.     *)
LEMMA QueuesKeep ==
  ASSUME \A u \in Users : \A x \in ToSet(queue[u]) : x \in ToSet(queue'[u]),
         call.at \in {"emptyHistory", "writeOps"} =>
           call'.at \in {"emptyHistory", "writeOps"} /\ call'.ops = call.ops
  PROVE  \A op \in Waiting : op \in Waiting'
<1>1. ASSUME NEW op \in Waiting
      PROVE  \/ \E u \in Users : op \in ToSet(queue[u])
             \/ call.at \in {"emptyHistory", "writeOps"} /\ op \in ToSet(call.ops)
  BY DEF Waiting
<1>2. ASSUME NEW u \in Users, NEW op \in ToSet(queue'[u]) PROVE op \in Waiting'
  BY DEF Waiting
<1>3. ASSUME call'.at \in {"emptyHistory", "writeOps"}, NEW op \in ToSet(call'.ops)
      PROVE  op \in Waiting'
  BY <1>3, Zenon DEF Waiting
<1> QED BY <1>1, <1>2, <1>3

(* One operation leaves the queue of the user in charge.                   *)
LEMMA OneLeaves ==
  ASSUME TypeInv, call.at \notin {"emptyHistory", "writeOps"}, NEW gone,
         NEW rest \in Seq(Operations), queue' = [queue EXCEPT ![who] = rest],
         \A x \in ToSet(queue[who]) : x \in ToSet(rest) \/ x = gone
  PROVE  \A op \in Waiting : op \in Waiting' \/ op = gone
<1>1. /\ queue'[who] = rest /\ \A u \in Users : u # who => queue'[u] = queue[u]
  BY DEF TypeInv
<1>2. ASSUME NEW op \in Waiting PROVE \E u \in Users : op \in ToSet(queue[u])
  BY DEF Waiting
<1>3. ASSUME NEW u \in Users, NEW op \in ToSet(queue'[u]) PROVE op \in Waiting'
  BY DEF Waiting
<1> QED BY <1>1, <1>2, <1>3

LEMMA HeadLeaves ==
  ASSUME TypeInv, call.at \notin {"emptyHistory", "writeOps"}, queue[who] # <<>>,
         queue' = [queue EXCEPT ![who] = Tail(queue[who])]
  PROVE  \A op \in Waiting : op \in Waiting' \/ op = Head(queue[who])
<1> DEFINE rest == Tail(queue[who])
           gone == Head(queue[who])
<1>1. rest \in Seq(Operations) /\ ToSet(queue[who]) = ToSet(rest) \union {gone}
  BY QueuedIs DEF TypeInv
<1>2. queue' = [queue EXCEPT ![who] = rest]
  OBVIOUS
<1> HIDE DEF rest, gone
<1>3. \A op \in Waiting : op \in Waiting' \/ op = gone
  BY <1>1, <1>2, OneLeaves
<1> QED BY <1>3 DEF gone

LEMMA SkipHeadLoses == ASSUME ClientInv, SkipHead PROVE \A op \in Waiting : Kept(op)
<1>1. /\ TypeInv /\ call.at = "head" /\ queue[who] # <<>> /\ FailedPrerequisite(Head(queue[who]))
      /\ queue' = [queue EXCEPT ![who] = Tail(queue[who])]
  BY DEF ClientInv, SkipHead, Reject
<1> QED BY <1>1, HeadLeaves DEF Kept

LEMMA HeadAnsweredLoses == ASSUME ClientInv, HeadAnswered PROVE \A op \in Waiting : Kept(op)
<1>1. /\ TypeInv /\ call.at = "waiting" /\ queue[who] # <<>> /\ call.op = Head(queue[who])
      /\ Answer(call.op.key) # {}
      /\ queue' = [queue EXCEPT ![who] = Tail(queue[who])]
  BY DEF ClientInv, AskInv, HeadAnswered, Reject
<1> QED BY <1>1, HeadLeaves DEF Kept

LEMMA ApplyResultLoses == ASSUME ClientInv, ApplyResult PROVE \A op \in Waiting : Kept(op)
<1> DEFINE result == Head(call.results)
           found == {i \in DOMAIN queue[who] : queue[who][i].key = result.key}
           k == Min(found)
           gone == queue[who][k]
           rest == RemoveAt(queue[who], k)
<1>1. /\ TypeInv /\ call \in Applying /\ call.at = "applying" /\ call.results # <<>>
      /\ queue[who] \in Seq(Operations)
  BY DEF ClientInv, TypeInv, CallType, ApplyResult
<1>2. \/ UNCHANGED queue
      \/ /\ result.status # "FAILED_RETRYABLE" /\ found # {}
         /\ queue' = [queue EXCEPT ![who] = rest]
  BY DEF ApplyResult
<1>3. CASE UNCHANGED queue
  BY <1>1, <1>3, QueuesKeep DEF Kept
<1>4. CASE /\ result.status # "FAILED_RETRYABLE" /\ found # {}
           /\ queue' = [queue EXCEPT ![who] = rest]
  <2>1. k \in 1..Len(queue[who]) /\ gone.key = result.key
    <3>1. DOMAIN queue[who] = 1..Len(queue[who])
      BY <1>1, LenProperties
    <3>2. found \in SUBSET Nat
      BY <3>1, SMT
    <3>3. k \in found
      BY <1>4, <3>2, MinIs
    <3> QED BY <3>1, <3>3
  <2> HIDE DEF found, k
  <2>2. rest \in Seq(Operations) /\ ToSet(queue[who]) = ToSet(rest) \union {gone}
    BY <1>1, <2>1, RemovedIs
  <2>3. Found(result)
    <3>1. result \in ToSet(call.results)
      BY <1>1, HeadIs DEF Applying
    <3> QED BY <1>1, <3>1 DEF ClientInv, ResultInv, FoundAll
  <2>4. Answer(gone.key) # {}
    BY <1>4, <2>1, <2>3 DEF Found
  <2> HIDE DEF rest, gone
  <2>5. \A op \in Waiting : op \in Waiting' \/ op = gone
    BY <1>1, <1>4, <2>2, OneLeaves
  <2> QED BY <2>4, <2>5 DEF Kept
<1> QED BY <1>2, <1>3, <1>4

LEMMA NotAnsweredLoses == ASSUME ClientInv, NotAnswered PROVE \A op \in Waiting : Kept(op)
<1> DEFINE ops == Append(queue[who], call.op)
<1>1. /\ TypeInv /\ call.at = "asking" /\ call.op \in Operations /\ queue[who] \in Seq(Operations)
  BY DEF ClientInv, TypeInv, CallType, NotAnswered
<1>2. queue' = queue \/ queue' = [queue EXCEPT ![who] = ops]
  BY DEF NotAnswered
<1>3. ToSet(ops) = ToSet(queue[who]) \union {call.op}
  BY <1>1, AppendedIs
<1> HIDE DEF ops
<1>4. \A u \in Users : \A x \in ToSet(queue[u]) : x \in ToSet(queue'[u])
  BY <1>1, <1>2, <1>3 DEF TypeInv
<1> QED BY <1>1, <1>4, QueuesKeep DEF Kept

LEMMA MigrateUserLoses == ASSUME ClientInv, MigrateUser PROVE \A op \in Waiting : Kept(op)
<1>1. /\ call.at \in MovesAt
      /\ \/ MoveOps /\ UNCHANGED <<who, refused>>
         \/ MoveHistory /\ UNCHANGED queue
  BY DEF MigrateUser, MoveOps, MoveHistory, MovesAt
<1>2. /\ TypeInv /\ call \in Moves /\ call.to \in Users /\ call.to # Guest /\ Guest \in Users
      /\ queue \in [Users -> Seq(Operations)] /\ queue[call.to] \in Seq(Operations)
      /\ call.ops \in Seq(Operations)
  BY <1>1, MovesIs, UsersSame DEF ClientInv, Users, Moves
<1>3. CASE /\ call.at = "emptyOps" /\ queue' = [queue EXCEPT ![Guest] = <<>>]
           /\ call' = [call EXCEPT !.at = "emptyHistory"]
  <2>1. /\ call'.at = "emptyHistory" /\ call'.ops = call.ops /\ call.ops = queue[Guest]
    BY <1>2, <1>3 DEF Moves, ClientInv, LinkInv
  <2>2. \A u \in Users : u # Guest => queue'[u] = queue[u]
    BY <1>2, <1>3
  <2>3. ASSUME NEW op \in Waiting PROVE \E u \in Users : op \in ToSet(queue[u])
    BY <1>3 DEF Waiting
  <2>4. ASSUME NEW u \in Users, NEW op \in ToSet(queue'[u]) PROVE op \in Waiting'
    BY DEF Waiting
  <2>5. ASSUME NEW op \in ToSet(call'.ops) PROVE op \in Waiting'
    BY <2>1, Zenon DEF Waiting
  <2> QED BY <2>1, <2>2, <2>3, <2>4, <2>5 DEF Kept
<1>4. CASE /\ call.at = "writeOps" /\ queue' = [queue EXCEPT ![call.to] = @ \o call.ops]
           /\ call' = [call EXCEPT !.at = "writeHistory"]
  <2> DEFINE joined == queue[call.to] \o call.ops
  <2>1. ToSet(joined) = ToSet(queue[call.to]) \union ToSet(call.ops)
    BY <1>2, JoinedIs
  <2>2. queue' = [queue EXCEPT ![call.to] = joined]
    BY <1>4
  <2> HIDE DEF joined
  <2>3. queue'[call.to] = joined /\ \A u \in Users : u # call.to => queue'[u] = queue[u]
    BY <1>2, <2>2
  <2>4. ASSUME NEW op \in Waiting
        PROVE  op \in ToSet(call.ops) \/ \E u \in Users : op \in ToSet(queue[u])
    BY DEF Waiting
  <2>5. ASSUME NEW u \in Users, NEW op \in ToSet(queue'[u]) PROVE op \in Waiting'
    BY DEF Waiting
  <2> QED BY <1>2, <2>1, <2>3, <2>4, <2>5 DEF Kept
<1>5. CASE MoveHistory /\ UNCHANGED queue
  <2>1. call.at \in {"emptyHistory", "writeOps"} =>
          call'.at \in {"emptyHistory", "writeOps"} /\ call'.ops = call.ops
    BY <1>2, <1>5 DEF MoveHistory, Moves
  <2> QED BY <1>5, <2>1, QueuesKeep DEF Kept
<1> QED BY <1>1, <1>3, <1>4, <1>5 DEF MoveOps

LEMMA NextLoses ==
  ASSUME ClientInv, [Next]_vars
  PROVE  \/ \A op \in Waiting : Kept(op)
         \/ call.at \in {"emptyHistory", "writeOps"} /\ call' = Closed
<1>1. ASSUME queue' = queue,
             call.at \in {"emptyHistory", "writeOps"} =>
               call'.at \in {"emptyHistory", "writeOps"} /\ call'.ops = call.ops
      PROVE  \A op \in Waiting : Kept(op)
  BY <1>1, QueuesKeep DEF Kept
<1>2. CASE Step
  <2>1. CASE queue' = queue /\ call.at \notin {"emptyHistory", "writeOps"}
    BY <1>1, <2>1
  <2> QED
    BY <1>2, <2>1, StepsStay, NotAnsweredLoses, SkipHeadLoses, HeadAnsweredLoses, ApplyResultLoses,
       MigrateUserLoses
<1>3. CASE ClosePage
  BY <1>1, <1>3 DEF ClosePage
<1>4. CASE call = Idle /\ \E u \in Users : SwitchUser(u)
  <2>1. queue' = queue /\ call.at = "idle"
    BY <1>4 DEF SwitchUser, Idle
  <2> QED BY <1>1, <2>1
<1>5. CASE Next /\ ~Moving
  <2>1. queue' = queue /\ (call' = call \/ call.at \in {"idle", "closed", "saving"})
    BY <1>5, OthersStay
  <2> QED BY <1>1, <2>1
<1>6. CASE UNCHANGED vars
  <2>1. queue' = queue /\ call' = call
    BY <1>6 DEF vars, phone
  <2> QED BY <1>1, <2>1
<1> QED BY <1>2, <1>3, <1>4, <1>5, <1>6 DEF Moving

(* An operation leaves the queues only with an answer to its key or with a *)
(* prerequisite that was rejected, unless the page is closed while the     *)
(* queue is moved to an account.                                           *)
THEOREM NoneLostEver == Spec => NoneLost
<1>1. ClientInv /\ [Next]_vars =>
        [\/ \A op \in Waiting : Kept(op)
         \/ call.at \in {"emptyHistory", "writeOps"} /\ call' = Closed]_vars
  BY NextLoses
<1> QED BY <1>1, ClientInvariant, PTL DEF Spec, NoneLost

=============================================================================
