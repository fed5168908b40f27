-------------------------- MODULE ClaimLedgerProofs --------------------------
(* The ledger keeps its promises for every set of users, rewards, buckets  *)
(* and limits.                                                             *)
EXTENDS ClaimLedger, FiniteSetTheorems, TLAPS

(* A set that grows by at most one element has at most one element more.   *)
LEMMA AtMostOneMore ==
  ASSUME NEW S, NEW T, NEW x, IsFiniteSet(S), T \subseteq S \union {x}
  PROVE  Cardinality(T) <= Cardinality(S) + 1
<1>1. /\ IsFiniteSet(S \union {x})
      /\ Cardinality(S \union {x}) = IF x \in S THEN Cardinality(S) ELSE Cardinality(S) + 1
  BY FS_AddElement
<1>2. IsFiniteSet(T) /\ Cardinality(T) <= Cardinality(S \union {x})
  BY <1>1, FS_Subset
<1>3. Cardinality(S) \in Nat /\ Cardinality(T) \in Nat /\ Cardinality(S \union {x}) \in Nat
  BY <1>1, <1>2, FS_CardinalityType
<1> QED
  BY <1>1, <1>2, <1>3

(* What the induction carries besides the promises: finitely many tickets. *)
Inv == TypeOK /\ IsFiniteSet(issued) /\ NeverOversold /\ WithinLimits /\ OneTicketPerKey

LEMMA InitInv ==
  ASSUME LedgerAssumption
  PROVE  Init => Inv
<1> SUFFICES ASSUME Init PROVE Inv
  OBVIOUS
<1>1. issued = {} /\ IsFiniteSet({}) /\ Cardinality({}) = 0
  BY FS_EmptySet DEF Init
<1>2. \A b : DrawnFrom(b) = {}
  BY <1>1 DEF DrawnFrom
<1>3. \A u, rw : OwnedBy(u, rw) = {}
  BY <1>1 DEF OwnedBy
<1> QED
  BY <1>1, <1>2, <1>3
     DEF LedgerAssumption, Inv, TypeOK, NeverOversold, WithinLimits, OneTicketPerKey

LEMMA StepInv ==
  ASSUME LedgerAssumption
  PROVE  Inv /\ [Next]_issued => Inv'
<1> SUFFICES ASSUME Inv, [Next]_issued PROVE Inv'
  OBVIOUS
<1>1. CASE UNCHANGED issued
  BY <1>1 DEF Inv, TypeOK, NeverOversold, WithinLimits, OneTicketPerKey, DrawnFrom, OwnedBy
<1>2. ASSUME NEW u \in Users, NEW rw \in Rewards, NEW t \in Tickets, Issue(u, rw, t)
      PROVE  Inv'
  <2> DEFINE entry == [user |-> u, reward |-> rw, ticket |-> t]
  <2>1. issued' = issued \union {entry}
    BY <1>2 DEF Issue
  <2>2. TypeOK'
    BY <2>1 DEF Inv, TypeOK, Entries
  <2>3. IsFiniteSet(issued)'
    BY <2>1, FS_AddElement DEF Inv
  <2>4. NeverOversold'
    <3> SUFFICES ASSUME NEW b \in StockKeys, Level[b] # NoLimit
                 PROVE  Cardinality(DrawnFrom(b)') <= Level[b]
      BY DEF NeverOversold
    <3>1. IsFiniteSet(DrawnFrom(b)) /\ IsFiniteSet(DrawnFrom(b)')
      BY <2>3, FS_Subset DEF Inv, DrawnFrom
    <3>2. CASE b \in Draws[rw]
      <4>1. Cardinality(DrawnFrom(b)) < Level[b]
        BY <1>2, <3>2 DEF Issue, Below
      <4>2. DrawnFrom(b)' \subseteq DrawnFrom(b) \union {entry}
        BY <2>1 DEF DrawnFrom
      <4>3. Cardinality(DrawnFrom(b)') <= Cardinality(DrawnFrom(b)) + 1
        BY <3>1, <4>2, AtMostOneMore
      <4> QED
        BY <3>1, <4>1, <4>3, FS_CardinalityType DEF LedgerAssumption
    <3>3. CASE b \notin Draws[rw]
      <4>1. DrawnFrom(b)' = DrawnFrom(b)
        BY <2>1, <3>3 DEF DrawnFrom
      <4> QED
        BY <4>1 DEF Inv, NeverOversold
    <3> QED
      BY <3>2, <3>3
  <2>5. WithinLimits'
    <3> SUFFICES ASSUME NEW v \in Users, NEW w \in Rewards, PerUser[w] # NoLimit
                 PROVE  Cardinality(OwnedBy(v, w)') <= PerUser[w]
      BY DEF WithinLimits
    <3>1. IsFiniteSet(OwnedBy(v, w)) /\ IsFiniteSet(OwnedBy(v, w)')
      BY <2>3, FS_Subset DEF Inv, OwnedBy
    <3>2. CASE v = u /\ w = rw
      <4>1. Cardinality(OwnedBy(v, w)) < PerUser[w]
        BY <1>2, <3>2 DEF Issue, Below
      <4>2. OwnedBy(v, w)' \subseteq OwnedBy(v, w) \union {entry}
        BY <2>1 DEF OwnedBy
      <4>3. Cardinality(OwnedBy(v, w)') <= Cardinality(OwnedBy(v, w)) + 1
        BY <3>1, <4>2, AtMostOneMore
      <4> QED
        BY <3>1, <4>1, <4>3, FS_CardinalityType DEF LedgerAssumption
    <3>3. CASE ~(v = u /\ w = rw)
      <4>1. OwnedBy(v, w)' = OwnedBy(v, w)
        BY <2>1, <3>3 DEF OwnedBy
      <4> QED
        BY <4>1 DEF Inv, WithinLimits
    <3> QED
      BY <3>2, <3>3
  <2>6. OneTicketPerKey'
    BY <1>2, <2>1 DEF Inv, OneTicketPerKey, Issue
  <2> QED
    BY <2>2, <2>3, <2>4, <2>5, <2>6 DEF Inv
<1> QED
  BY <1>1, <1>2 DEF Next

(* No bucket gives out more than it held, no user exceeds a limit and no   *)
(* idempotency key buys two tickets, in every behaviour of the ledger.     *)
THEOREM LedgerSafe ==
  ASSUME LedgerAssumption
  PROVE  Spec => [](NeverOversold /\ WithinLimits /\ OneTicketPerKey)
<1>1. Spec => []Inv
  BY InitInv, StepInv, PTL DEF Spec
<1>2. Inv => NeverOversold /\ WithinLimits /\ OneTicketPerKey
  BY DEF Inv
<1> QED
  BY <1>1, <1>2, PTL
==============================================================================
