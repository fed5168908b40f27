--------------------------- MODULE SequenceLemmas ---------------------------
(***************************************************************************)
(* Facts on numbers, sequences and recursive functions that the proofs     *)
(* about the queue, the replay of its operations and the guide rest on.    *)
(***************************************************************************)
EXTENDS Integers, SequencesExt, Filtering, FiniteSetTheorems, SequenceTheorems, WellFoundedInduction, TLAPS

(* Every set of numbers that is not empty has a least one.                 *)
LEMMA LeastNumber ==
  ASSUME NEW T \in SUBSET Nat, T # {}
  PROVE  \E x \in T : \A y \in T : x <= y
<1>1. PICK x \in T : \A y \in T : ~(<<y, x>> \in OpToRel(<, Nat))
  BY WFMin, NatLessThanWellFounded, Zenon
<1>2. \A y \in T : ~(y < x)
  BY <1>1, Zenon DEF OpToRel
<1> QED
  BY <1>2, SMT

(* Induction up to a number, for a predicate that is a function.           *)
LEMMA UpToInduction ==
  ASSUME NEW N \in Nat, NEW P \in [0..N -> BOOLEAN], P[0],
         \A n \in 1..N : P[n - 1] => P[n]
  PROVE  \A n \in 0..N : P[n]
<1> DEFINE Out == {n \in 0..N : ~P[n]}
<1>1. SUFFICES ASSUME Out # {} PROVE FALSE
  BY Zenon
<1>2. PICK n \in Out : \A k \in Out : n <= k
  <2>1. Out \in SUBSET Nat
    BY SMT
  <2> HIDE DEF Out
  <2> QED BY <1>1, <2>1, LeastNumber, Zenon
<1>3. n \in 0..N /\ n # 0 /\ ~P[n]
  BY <1>2
<1>4. n \in 1..N /\ n - 1 \in 0..N /\ ~(n <= n - 1)
  BY <1>3, SMT
<1>5. P[n - 1]
  BY <1>2, <1>4, Zenon
<1> QED BY <1>3, <1>4, <1>5

(* The values of a recursive function stay in a set every step stays in.   *)
LEMMA StaysIn ==
  ASSUME NEW N \in Nat, NEW S, NEW f, f[0] \in S,
         \A n \in 1..N : f[n - 1] \in S => f[n] \in S
  PROVE  \A n \in 0..N : f[n] \in S
<1> DEFINE P == [n \in 0..N |-> f[n] \in S]
<1>1. 0 \in 0..N /\ \A n \in 1..N : n \in 0..N /\ n - 1 \in 0..N
  BY SMT
<1>2. P[0] /\ \A n \in 1..N : P[n - 1] => P[n]
  BY <1>1
<1>3. P \in [0..N -> BOOLEAN]
  OBVIOUS
<1> HIDE DEF P
<1>4. \A n \in 0..N : P[n]
  BY <1>2, <1>3, UpToInduction
<1> QED BY <1>4 DEF P

LEMMA MinIs ==
  ASSUME NEW T \in SUBSET Nat, T # {}
  PROVE  Min(T) \in T
<1>1. \E x \in T : \A y \in T : x <= y
  BY LeastNumber, Zenon
<1> QED BY <1>1, Zenon DEF Min

LEMMA PlacesFinite ==
  ASSUME NEW m \in Nat, NEW places \in SUBSET (1..m)
  PROVE  /\ IsFiniteSet(places) /\ Cardinality(places) \in Nat
         /\ \A j \in places : j \in Nat /\ 1 <= j /\ j <= m
<1>1. IsFiniteSet(1..m)
  BY FS_Interval, SMT
<1>2. IsFiniteSet(places) /\ Cardinality(places) \in Nat
  BY <1>1, FS_Subset, FS_CardinalityType, Zenon
<1>3. ASSUME NEW j \in places PROVE j \in Nat /\ 1 <= j /\ j <= m
  <2>1. j \in 1..m
    BY Zenon
  <2> QED BY <2>1, SMT
<1> QED BY <1>2, <1>3

LEMMA AboveIs ==
  ASSUME NEW c \in Nat
  PROVE  Cardinality((c + 1)..(2 * c + 1)) = c + 1
<1> DEFINE a == c + 1
           b == 2 * c + 1
<1>1. a \in Int /\ b \in Int /\ ~(a > b) /\ b - a + 1 = c + 1
  BY SMT
<1> HIDE DEF a, b
<1>2. Cardinality(a..b) = IF a > b THEN 0 ELSE b - a + 1
  BY <1>1, FS_Interval
<1> QED BY <1>1, <1>2 DEF a, b

-----------------------------------------------------------------------------
(* The elements of a sequence that grows or shrinks.                       *)

LEMMA HeadIs ==
  ASSUME NEW S, NEW s \in Seq(S), s # <<>>
  PROVE  /\ Tail(s) \in Seq(S) /\ Head(s) \in S
         /\ ToSet(s) = ToSet(Tail(s)) \union {Head(s)}
<1>1. Tail(s) \in Seq(S) /\ Head(s) \in S /\ Len(s) \in Nat \ {0} /\ Len(Tail(s)) = Len(s) - 1
  BY HeadTailProperties, EmptySeq, LenProperties
<1>2. \A i \in 1..Len(Tail(s)) : Tail(s)[i] = s[i + 1]
  BY HeadTailProperties
<1>3. Head(s) = s[1] /\ DOMAIN s = 1..Len(s) /\ DOMAIN Tail(s) = 1..Len(Tail(s))
  BY <1>1, LenProperties
<1>4. ToSet(s) \subseteq ToSet(Tail(s)) \union {Head(s)}
  <2> SUFFICES ASSUME NEW i \in 1..Len(s) PROVE s[i] \in ToSet(Tail(s)) \union {Head(s)}
    BY <1>3, Zenon DEF ToSet
  <2>1. CASE i = 1
    BY <1>3, <2>1
  <2>2. CASE i # 1
    <3>1. i - 1 \in 1..Len(Tail(s)) /\ s[i] = Tail(s)[i - 1]
      BY <1>1, <1>2, <2>2, SMT
    <3> QED BY <1>3, <3>1, Zenon DEF ToSet
  <2> QED BY <2>1, <2>2
<1>5. \A i \in 1..Len(Tail(s)) : i + 1 \in 1..Len(s)
  BY <1>1, SMT
<1>6. 1 \in 1..Len(s)
  BY <1>1, SMT
<1>7. ToSet(Tail(s)) \subseteq ToSet(s)
  <2> SUFFICES ASSUME NEW i \in 1..Len(Tail(s)) PROVE Tail(s)[i] \in ToSet(s)
    BY <1>3, Zenon DEF ToSet
  <2>1. i + 1 \in DOMAIN s /\ Tail(s)[i] = s[i + 1]
    BY <1>2, <1>3, <1>5
  <2> QED BY <2>1, Zenon DEF ToSet
<1>8. Head(s) \in ToSet(s)
  BY <1>3, <1>6, Zenon DEF ToSet
<1> QED BY <1>1, <1>4, <1>7, <1>8, Zenon

LEMMA AppendedIs ==
  ASSUME NEW S, NEW s \in Seq(S), NEW e \in S
  PROVE  /\ Append(s, e) \in Seq(S) /\ Append(s, e) # <<>>
         /\ ToSet(Append(s, e)) = ToSet(s) \union {e}
         /\ s # <<>> => Head(Append(s, e)) = Head(s)
<1> DEFINE n == Append(s, e)
<1>1. n \in Seq(S) /\ n # <<>> /\ (s # <<>> => Head(n) = Head(s))
  BY AppendProperties, SMT
<1>2. Len(n) = Len(s) + 1 /\ Len(s) \in Nat
  BY SMT
<1>3. (\A i \in 1..Len(s) : n[i] = s[i]) /\ n[Len(s) + 1] = e
  BY SMT
<1>4. DOMAIN n = 1..Len(n) /\ DOMAIN s = 1..Len(s)
  BY <1>1, SMT
<1>5. DOMAIN n = DOMAIN s \union {Len(s) + 1}
  BY <1>2, <1>4, SMT
<1>6. ToSet(n) = ToSet(s) \union {e}
  BY <1>3, <1>4, <1>5, Zenon DEF ToSet
<1> QED BY <1>1, <1>6

LEMMA ConcatIs ==
  ASSUME NEW S, NEW a \in Seq(S), NEW b \in Seq(S)
  PROVE  /\ a \o b \in Seq(S) /\ DOMAIN (a \o b) = 1..(Len(a) + Len(b))
         /\ \A i \in 1..(Len(a) + Len(b)) :
              (a \o b)[i] = IF i <= Len(a) THEN a[i] ELSE b[i - Len(a)]
  BY SMT

LEMMA JoinedIs ==
  ASSUME NEW S, NEW a \in Seq(S), NEW b \in Seq(S)
  PROVE  a \o b \in Seq(S) /\ ToSet(a \o b) = ToSet(a) \union ToSet(b)
<1> DEFINE c == a \o b
<1>1. /\ c \in Seq(S) /\ DOMAIN c = 1..(Len(a) + Len(b))
      /\ \A i \in 1..(Len(a) + Len(b)) : c[i] = IF i <= Len(a) THEN a[i] ELSE b[i - Len(a)]
  BY ConcatIs
<1> HIDE DEF c
<1>2. /\ DOMAIN a = 1..Len(a) /\ DOMAIN b = 1..Len(b)
      /\ Len(a) \in Nat /\ Len(b) \in Nat
  BY LenProperties
<1>3. ASSUME NEW i \in 1..(Len(a) + Len(b)) PROVE c[i] \in ToSet(a) \union ToSet(b)
  <2>1. CASE i <= Len(a)
    <3>1. i \in DOMAIN a /\ c[i] = a[i]
      BY <1>1, <1>2, <2>1, SMT
    <3> QED BY <3>1, Zenon DEF ToSet
  <2>2. CASE ~(i <= Len(a))
    <3>1. i - Len(a) \in DOMAIN b /\ c[i] = b[i - Len(a)]
      BY <1>1, <1>2, <2>2, SMT
    <3> QED BY <3>1, Zenon DEF ToSet
  <2> QED BY <2>1, <2>2
<1>4. ASSUME NEW i \in 1..Len(a) PROVE a[i] \in ToSet(c)
  <2>1. i \in DOMAIN c /\ c[i] = a[i]
    BY <1>1, <1>2, SMT
  <2> QED BY <2>1, Zenon DEF ToSet
<1>5. ASSUME NEW i \in 1..Len(b) PROVE b[i] \in ToSet(c)
  <2>1. i + Len(a) \in 1..(Len(a) + Len(b)) /\ ~(i + Len(a) <= Len(a)) /\ (i + Len(a)) - Len(a) = i
    BY <1>2, SMT
  <2>2. c[i + Len(a)] = b[i]
    BY <1>1, <2>1
  <2> QED BY <1>1, <2>1, <2>2, Zenon DEF ToSet
<1>6. ToSet(c) = ToSet(a) \union ToSet(b)
  BY <1>1, <1>2, <1>3, <1>4, <1>5, Zenon DEF ToSet
<1> QED BY <1>1, <1>6 DEF c

LEMMA RemoveAtIs ==
  ASSUME NEW S, NEW s \in Seq(S), NEW k \in 1..Len(s)
  PROVE  /\ RemoveAt(s, k) \in Seq(S)
         /\ DOMAIN RemoveAt(s, k) = 1..(Len(s) - 1)
         /\ \A i \in 1..(Len(s) - 1) : RemoveAt(s, k)[i] = IF i < k THEN s[i] ELSE s[i + 1]
<1> DEFINE a == SubSeq(s, 1, k - 1)
           b == SubSeq(s, k + 1, Len(s))
<1>1. a \in Seq(S) /\ Len(a) = k - 1 /\ \A i \in 1..(k - 1) : a[i] = s[i]
  BY SMT
<1>2. b \in Seq(S) /\ Len(b) = Len(s) - k /\ \A i \in 1..(Len(s) - k) : b[i] = s[i + k]
  BY SMT
<1>3. RemoveAt(s, k) = a \o b
  BY DEF RemoveAt
<1> HIDE DEF a, b
<1>4. Len(s) \in Nat
  BY LenProperties
<1>5. /\ a \o b \in Seq(S) /\ DOMAIN (a \o b) = 1..(Len(a) + Len(b))
      /\ \A i \in 1..(Len(a) + Len(b)) :
           (a \o b)[i] = IF i <= Len(a) THEN a[i] ELSE b[i - Len(a)]
  BY <1>1, <1>2, ConcatIs
<1>6. \A i \in 1..(Len(s) - 1) : (a \o b)[i] = IF i < k THEN s[i] ELSE s[i + 1]
  BY <1>1, <1>2, <1>4, <1>5, SMT
<1>7. Len(a) + Len(b) = Len(s) - 1
  BY <1>1, <1>2, <1>4, SMT
<1> QED BY <1>3, <1>5, <1>6, <1>7

LEMMA RemovedIs ==
  ASSUME NEW S, NEW s \in Seq(S), NEW k \in 1..Len(s)
  PROVE  /\ RemoveAt(s, k) \in Seq(S)
         /\ ToSet(s) = ToSet(RemoveAt(s, k)) \union {s[k]}
<1> DEFINE n == RemoveAt(s, k)
<1>1. /\ n \in Seq(S) /\ DOMAIN n = 1..(Len(s) - 1)
      /\ \A i \in 1..(Len(s) - 1) : n[i] = IF i < k THEN s[i] ELSE s[i + 1]
  BY RemoveAtIs
<1> HIDE DEF n
<1>2. DOMAIN s = 1..Len(s) /\ Len(s) \in Nat
  BY LenProperties
<1>3. ASSUME NEW i \in 1..Len(s), i # k PROVE s[i] \in ToSet(n)
  <2>1. CASE i < k
    <3>1. i \in DOMAIN n /\ n[i] = s[i]
      BY <1>1, <1>2, <2>1, SMT
    <3> QED BY <3>1, Zenon DEF ToSet
  <2>2. CASE i > k
    <3>1. i - 1 \in 1..(Len(s) - 1) /\ ~(i - 1 < k) /\ (i - 1) + 1 = i
      BY <1>2, <2>2, SMT
    <3>2. n[i - 1] = s[i]
      BY <1>1, <3>1
    <3> QED BY <1>1, <3>1, <3>2, Zenon DEF ToSet
  <2> QED BY <1>2, <1>3, <2>1, <2>2, SMT
<1>4. ASSUME NEW i \in 1..(Len(s) - 1) PROVE n[i] \in ToSet(s)
  <2>1. i \in 1..Len(s) /\ i + 1 \in 1..Len(s)
    BY <1>2, SMT
  <2> QED BY <1>1, <1>2, <2>1, Zenon DEF ToSet
<1>5. ToSet(s) = ToSet(n) \union {s[k]}
  BY <1>1, <1>2, <1>3, <1>4, Zenon DEF ToSet
<1> QED BY <1>1, <1>5 DEF n

LEMMA InsertAtIs ==
  ASSUME NEW S, NEW s \in Seq(S), NEW k \in 1..(Len(s) + 1), NEW e \in S
  PROVE  /\ InsertAt(s, k, e) \in Seq(S)
         /\ DOMAIN InsertAt(s, k, e) = 1..(Len(s) + 1)
         /\ \A i \in 1..(Len(s) + 1) :
              InsertAt(s, k, e)[i] = IF i < k THEN s[i] ELSE IF i = k THEN e ELSE s[i - 1]
<1> DEFINE a == SubSeq(s, 1, k - 1)
           b == SubSeq(s, k, Len(s))
           c == a \o <<e>>
<1>1. a \in Seq(S) /\ Len(a) = k - 1 /\ \A i \in 1..(k - 1) : a[i] = s[i]
  BY SMT
<1>2. /\ b \in Seq(S) /\ Len(b) = Len(s) - k + 1
      /\ \A i \in 1..(Len(s) - k + 1) : b[i] = s[i + k - 1]
  BY SMT
<1>3. <<e>> \in Seq(S) /\ Len(<<e>>) = 1 /\ <<e>>[1] = e
  BY SMT
<1> HIDE DEF a, b
<1>4. c \in Seq(S) /\ Len(c) = k /\ \A i \in 1..k : c[i] = IF i < k THEN s[i] ELSE e
  BY <1>1, <1>3, SMT
<1> HIDE DEF c
<1>5. /\ c \o b \in Seq(S) /\ DOMAIN (c \o b) = 1..(Len(c) + Len(b))
      /\ \A i \in 1..(Len(c) + Len(b)) : (c \o b)[i] = IF i <= Len(c) THEN c[i] ELSE b[i - Len(c)]
  BY <1>2, <1>4, ConcatIs
<1>6. InsertAt(s, k, e) = c \o b
  BY DEF InsertAt, a, b, c
<1>7. Len(c) + Len(b) = Len(s) + 1
  BY <1>2, <1>4, SMT
<1>8. ASSUME NEW i \in 1..(Len(s) + 1)
      PROVE  (c \o b)[i] = IF i < k THEN s[i] ELSE IF i = k THEN e ELSE s[i - 1]
  <2>1. CASE i <= k
    BY <1>4, <1>5, <1>7, <2>1, SMT
  <2>2. CASE ~(i <= k)
    <3>1. i - k \in 1..(Len(s) - k + 1) /\ i - k + k - 1 = i - 1
      BY <2>2, SMT
    <3>2. (c \o b)[i] = b[i - k]
      BY <1>4, <1>5, <1>7, <2>2
    <3> QED BY <1>2, <2>2, <3>1, <3>2, SMT
  <2> QED BY <2>1, <2>2
<1> QED BY <1>5, <1>6, <1>7, <1>8

-----------------------------------------------------------------------------
(* Filtering.                                                              *)

(* How many of the places lie up to i.                                     *)
UpTo(places, i) == Cardinality({j \in places : j <= i})

LEMMA UpToStep ==
  ASSUME NEW m \in Nat, NEW places \in SUBSET (1..m), NEW i \in 1..m
  PROVE  /\ UpTo(places, i - 1) \in Nat
         /\ UpTo(places, i) = IF i \in places THEN UpTo(places, i - 1) + 1
                                              ELSE UpTo(places, i - 1)
<1> DEFINE Below == {j \in places : j <= i - 1}
<1>1. IsFiniteSet(1..m)
  BY FS_Interval, SMT
<1>2. IsFiniteSet(Below)
  BY <1>1, FS_Subset, Zenon
<1>3. Cardinality(Below) \in Nat
  BY <1>2, FS_CardinalityType, Zenon
<1>4. i \notin Below /\ \A j \in places : j <= i <=> j <= i - 1 \/ j = i
  BY PlacesFinite, SMT
<1>5. CASE i \in places
  <2>1. {j \in places : j <= i} = Below \union {i}
    BY <1>4, <1>5, Zenon
  <2>2. Cardinality(Below \union {i}) = Cardinality(Below) + 1
    BY <1>2, <1>4, FS_AddElement, Zenon
  <2> QED BY <1>3, <1>5, <2>1, <2>2, Zenon DEF UpTo
<1>6. CASE i \notin places
  <2>1. {j \in places : j <= i} = Below
    BY <1>4, <1>6, Zenon
  <2> QED BY <1>3, <1>6, <2>1, Zenon DEF UpTo
<1> QED BY <1>5, <1>6

(* The n-th place exists: the first i up to which there are n of them.     *)
LEMMA PlaceExists ==
  ASSUME NEW m \in Nat, NEW places \in SUBSET (1..m), NEW n \in 1..Cardinality(places)
  PROVE  \E i \in places : UpTo(places, i) = n
<1> DEFINE Enough == {i \in 0..m : UpTo(places, i) >= n}
<1>0. IsFiniteSet(places) /\ Cardinality(places) \in Nat
  BY PlacesFinite, Zenon
<1>1. UpTo(places, m) = Cardinality(places) /\ UpTo(places, 0) = 0
  <2>1. \A j \in places : j <= m /\ ~(j <= 0)
    BY PlacesFinite, SMT
  <2>2. {j \in places : j <= m} = places /\ {j \in places : j <= 0} = {}
    BY <2>1, Zenon
  <2> QED BY <2>2, FS_EmptySet, Zenon DEF UpTo
<1>2. m \in Enough
  BY <1>0, <1>1, SMT
<1>3. PICK i \in Enough : \A y \in Enough : i <= y
  <2>1. Enough \in SUBSET Nat
    BY SMT
  <2>2. Enough # {}
    BY <1>2, Zenon
  <2> QED BY <2>1, <2>2, LeastNumber, Zenon
<1>4. i \in 1..m
  BY <1>1, <1>3, SMT
<1>5. i - 1 \notin Enough /\ i - 1 \in 0..m
  BY <1>3, <1>4, SMT
<1>6. UpTo(places, i - 1) \in Nat /\ UpTo(places, i - 1) < n
  BY <1>4, <1>5, UpToStep, SMT
<1> QED
  BY <1>3, <1>4, <1>6, UpToStep, SMT

(* Two places have as many below them only if they are one.                *)
LEMMA PlaceUnique ==
  ASSUME NEW m \in Nat, NEW places \in SUBSET (1..m), NEW i \in places, NEW k \in places,
         UpTo(places, i) = UpTo(places, k)
  PROVE  i = k
<1>1. ASSUME NEW a \in places, NEW b \in places, a < b, UpTo(places, a) = UpTo(places, b)
      PROVE  FALSE
  <2> DEFINE A == {j \in places : j <= a}
             B == {j \in places : j <= b}
  <2>1. IsFiniteSet(B)
    BY PlacesFinite, FS_Subset, Zenon
  <2>2. \A j \in places : j <= a => j <= b
    BY <1>1, PlacesFinite, SMT
  <2>3. A = B
    BY <1>1, <2>1, <2>2, FS_Subset, Zenon DEF UpTo
  <2> QED BY <1>1, <2>3, SMT
<1> QED BY <1>1, SMT

(* At keeps exactly the elements at the places it is given.                *)
LEMMA AtIs ==
  ASSUME NEW S, NEW s \in Seq(S), NEW places \in SUBSET DOMAIN s
  PROVE  /\ At(s, places) \in Seq(S)
         /\ ToSet(At(s, places)) = {s[i] : i \in places}
<1> DEFINE Place(n) == CHOOSE i \in places : UpTo(places, i) = n
           N == Cardinality(places)
<1>1. places \in SUBSET (1..Len(s)) /\ Len(s) \in Nat
  BY LenProperties
<1>2. IsFiniteSet(places) /\ N \in Nat
  BY <1>1, PlacesFinite, Zenon
<1>3. \A n \in 1..N : Place(n) \in places /\ UpTo(places, Place(n)) = n
  BY <1>1, PlaceExists
<1>4. At(s, places) = [n \in 1..N |-> s[Place(n)]]
  BY DEF At, UpTo
<1> HIDE DEF Place, N
<1>5. \A n \in 1..N : s[Place(n)] \in S
  BY <1>1, <1>3, ElementOfSeq
<1>6. At(s, places) \in Seq(S)
  BY <1>2, <1>4, <1>5, SMT
<1>7. \A i \in places : UpTo(places, i) \in 1..N /\ Place(UpTo(places, i)) = i
  <2> SUFFICES ASSUME NEW i \in places PROVE UpTo(places, i) \in 1..N /\ Place(UpTo(places, i)) = i
    OBVIOUS
  <2> DEFINE Below == {j \in places : j <= i}
  <2>1. Cardinality(Below) \in Nat /\ Cardinality(Below) <= N /\ IsFiniteSet(Below)
    BY <1>2, FS_Subset, FS_CardinalityType, Zenon DEF N
  <2>2. Below # {}
    BY <1>1, SMT
  <2>3. Cardinality(Below) # 0
    BY <2>1, <2>2, FS_EmptySet, Zenon
  <2>4. UpTo(places, i) \in 1..N
    BY <1>2, <2>1, <2>3, SMT DEF UpTo
  <2>5. Place(UpTo(places, i)) \in places /\ UpTo(places, Place(UpTo(places, i))) = UpTo(places, i)
    BY <1>3, <2>4
  <2> QED BY <1>1, <2>4, <2>5, PlaceUnique
<1>8. ToSet(At(s, places)) = {s[Place(n)] : n \in 1..N}
  BY <1>4, Zenon DEF ToSet
<1> QED
  BY <1>3, <1>6, <1>7, <1>8, Zenon

(* It keeps them in their order, each of a place of its own.               *)
LEMMA AtOrder ==
  ASSUME NEW S, NEW s \in Seq(S), NEW places \in SUBSET DOMAIN s
  PROVE  \E place \in [1..Len(At(s, places)) -> places] :
           /\ \A n \in 1..Len(At(s, places)) : At(s, places)[n] = s[place[n]]
           /\ \A n, m \in 1..Len(At(s, places)) : n < m => place[n] < place[m]
<1> DEFINE Place(n) == CHOOSE i \in places : UpTo(places, i) = n
           N == Cardinality(places)
           place == [n \in 1..N |-> Place(n)]
<1>1. places \in SUBSET (1..Len(s)) /\ Len(s) \in Nat
  BY LenProperties
<1>2. IsFiniteSet(places) /\ N \in Nat
  BY <1>1, PlacesFinite, Zenon
<1>3. \A n \in 1..N : Place(n) \in places /\ UpTo(places, Place(n)) = n
  BY <1>1, PlaceExists
<1>4. At(s, places) = [n \in 1..N |-> s[Place(n)]]
  BY DEF At, UpTo
<1> HIDE DEF Place, N
<1>5. At(s, places) \in Seq(S)
  BY AtIs
<1>6. Len(At(s, places)) = N
  BY <1>2, <1>4, <1>5, LenProperties, SMT
<1>7. ASSUME NEW n \in 1..N, NEW m \in 1..N, n < m
      PROVE  Place(n) < Place(m)
  <2>1. /\ Place(n) \in places /\ Place(m) \in places
        /\ UpTo(places, Place(n)) = n /\ UpTo(places, Place(m)) = m
    BY <1>3
  <2> SUFFICES ASSUME Place(m) <= Place(n) PROVE FALSE
    BY <1>1, <2>1, PlacesFinite, SMT
  <2> DEFINE A == {j \in places : j <= Place(m)}
             B == {j \in places : j <= Place(n)}
  <2>2. IsFiniteSet(B)
    BY <1>2, FS_Subset, Zenon
  <2>3. \A j \in places : j <= Place(m) => j <= Place(n)
    BY <1>1, <2>1, PlacesFinite, SMT
  <2>4. Cardinality(A) <= Cardinality(B)
    BY <2>2, <2>3, FS_Subset, Zenon
  <2>5. Cardinality(A) = m /\ Cardinality(B) = n
    BY <2>1 DEF UpTo
  <2> QED BY <1>2, <1>7, <2>4, <2>5, SMT
<1> HIDE DEF place
<1>8. place \in [1..N -> places]
  BY <1>3 DEF place
<1>9. \A n \in 1..N : At(s, places)[n] = s[place[n]]
  BY <1>4 DEF place
<1>10. \A n, m \in 1..N : n < m => place[n] < place[m]
  BY <1>7 DEF place
<1> QED BY <1>6, <1>8, <1>9, <1>10

-----------------------------------------------------------------------------
(* Ranks and recursion.                                                    *)

(* Ranks that tell the places apart are all taken.                         *)
LEMMA RankReached ==
  ASSUME NEW m \in Nat, NEW rank \in [1..m -> 1..m],
         \A i, j \in 1..m : rank[i] = rank[j] => i = j
  PROVE  \A n \in 1..m : \E i \in 1..m : rank[i] = n
<1>1. IsFiniteSet(1..m)
  BY FS_Interval, SMT
<1>2. rank \in Injection(1..m, 1..m)
  BY Zenon DEF Injection, IsInjective
<1>3. rank \in Surjection(1..m, 1..m)
  BY <1>1, <1>2, FS_Injection, Zenon
<1> QED BY <1>3, Zenon DEF Surjection

(* Steps on the states of a set can be taken one after the other.          *)
Iterates(N, S, x, step, after) ==
  /\ after \in [0..N -> S] /\ after[0] = x
  /\ \A n \in 1..N : after[n] = step[n][after[n - 1]]

LEMMA RecursionExists ==
  ASSUME NEW N \in Nat, NEW S, NEW x \in S, NEW step \in [1..N -> [S -> S]]
  PROVE  \E after : Iterates(N, S, x, step, after)
<1>0. SUFFICES \E after \in [0..N -> S] :
                 after[0] = x /\ \A n \in 1..N : after[n] = step[n][after[n - 1]]
  BY Zenon DEF Iterates
<1> DEFINE Reaches(n, g) ==
             /\ g \in [0..n -> S] /\ g[0] = x
             /\ \A i \in 1..n : g[i] = step[i][g[i - 1]]
           Missed == {n \in 0..N : ~\E g \in [0..n -> S] : Reaches(n, g)}
<1>1. SUFFICES ASSUME Missed # {} PROVE FALSE
  <2>1. N \in 0..N
    BY SMT
  <2> QED BY <1>1, <2>1, Zenon
<1>2. PICK n \in Missed : \A k \in Missed : n <= k
  <2>1. Missed \in SUBSET Nat
    BY SMT
  <2> HIDE DEF Missed
  <2> QED BY <1>1, <2>1, LeastNumber, Zenon
<1>3. n \in 0..N /\ ~\E g \in [0..n -> S] : Reaches(n, g)
  <2> HIDE DEF Reaches
  <2> QED BY <1>2, Zenon
<1>4. n # 0
  <2> DEFINE g == [i \in 0..0 |-> x]
  <2>1. Reaches(0, g) /\ g \in [0..0 -> S]
    BY SMT
  <2> HIDE DEF Reaches
  <2> QED BY <1>3, <2>1, Zenon
<1>5. n \in 1..N /\ n - 1 \in 0..N /\ ~(n <= n - 1)
  BY <1>3, <1>4, SMT
<1>6. n - 1 \notin Missed
  <2> HIDE DEF Missed
  <2> QED BY <1>2, <1>5, Zenon
<1>7. PICK g \in [0..(n - 1) -> S] : Reaches(n - 1, g)
  <2> HIDE DEF Reaches
  <2> QED BY <1>5, <1>6, Zenon
<1> DEFINE h == [i \in 0..n |-> IF i = n THEN step[n][g[n - 1]] ELSE g[i]]
<1>8. Reaches(n, h)
  <2>1. step[n] \in [S -> S] /\ g[n - 1] \in S
    BY <1>5, <1>7, SMT
  <2>2. h \in [0..n -> S]
    BY <1>5, <1>7, <2>1, SMT
  <2>3. h[0] = x
    BY <1>5, <1>7, SMT
  <2>4. ASSUME NEW i \in 1..n PROVE h[i] = step[i][h[i - 1]]
    <3>1. i - 1 \in 0..n /\ i - 1 # n /\ i \in 0..n
      BY <1>5, SMT
    <3>2. h[i - 1] = g[i - 1]
      BY <3>1
    <3>3. CASE i = n
      BY <3>1, <3>2, <3>3
    <3>4. CASE i # n
      <4>1. i \in 1..(n - 1)
        BY <1>5, <3>4, SMT
      <4> QED BY <1>7, <3>1, <3>2, <3>4, <4>1
    <3> QED BY <3>3, <3>4
  <2> QED BY <2>2, <2>3, <2>4
<1>9. h \in [0..n -> S]
  BY <1>8
<1> QED
  <2> HIDE DEF Reaches, h
  <2> QED BY <1>3, <1>8, <1>9, Zenon

LEMMA SubsetCardinality ==
  ASSUME NEW S, IsFiniteSet(S), NEW T \in SUBSET S
  PROVE  /\ IsFiniteSet(T) /\ Cardinality(T) \in Nat /\ Cardinality(S) \in Nat
         /\ Cardinality(T) <= Cardinality(S)
         /\ Cardinality(T) = Cardinality(S) => T = S
  BY FS_Subset, FS_CardinalityType

(* A chain of more sets than its last one has elements repeats one.        *)
LEMMA ChainRepeats ==
  ASSUME NEW S, IsFiniteSet(S), NEW chain \in [0..(Cardinality(S) + 1) -> SUBSET S],
         \A n \in 1..(Cardinality(S) + 1) : chain[n - 1] \subseteq chain[n]
  PROVE  \E n \in 1..(Cardinality(S) + 1) : chain[n - 1] = chain[n]
<1> DEFINE N == Cardinality(S) + 1
           P == [n \in 0..N |-> Cardinality(chain[n]) >= n]
<1>1. N \in Nat /\ N > Cardinality(S) /\ Cardinality(S) \in Nat /\ N \in 0..N
  BY FS_CardinalityType, SMT
<1> HIDE DEF N
<1>2. SUFFICES ASSUME \A n \in 1..N : chain[n - 1] # chain[n] PROVE FALSE
  BY DEF N
<1>3. \A n \in 0..N : chain[n] \in SUBSET S
  BY DEF N
<1>4. \A n \in 0..N : IsFiniteSet(chain[n]) /\ Cardinality(chain[n]) \in Nat
  BY <1>3, SubsetCardinality
<1>p. \A n \in 0..N : P[n] <=> Cardinality(chain[n]) >= n
  OBVIOUS
<1>7. P \in [0..N -> BOOLEAN]
  BY <1>1, <1>4, SMT
<1> HIDE DEF P
<1>5. P[0]
  <2>1. 0 \in 0..N
    BY <1>1, SMT
  <2>2. Cardinality(chain[0]) >= 0
    BY <1>4, <2>1, SMT
  <2> QED BY <1>p, <2>1, <2>2
<1>6. ASSUME NEW n \in 1..N, P[n - 1] PROVE P[n]
  <2>1. n - 1 \in 0..N /\ n \in 0..N
    BY <1>1, SMT
  <2>2. chain[n - 1] \in SUBSET chain[n] /\ chain[n - 1] # chain[n]
    BY <1>2 DEF N
  <2>3. /\ Cardinality(chain[n - 1]) <= Cardinality(chain[n])
        /\ Cardinality(chain[n - 1]) # Cardinality(chain[n])
    BY <1>4, <2>1, <2>2, SubsetCardinality
  <2>4. Cardinality(chain[n - 1]) >= n - 1
    BY <1>6, <1>p, <2>1
  <2>5. Cardinality(chain[n - 1]) \in Nat /\ Cardinality(chain[n]) \in Nat
    BY <1>4, <2>1
  <2>6. Cardinality(chain[n]) >= n
    BY <1>1, <2>3, <2>4, <2>5, SMT
  <2> QED BY <1>p, <2>1, <2>6
<1>8. \A n \in 0..N : P[n]
  BY <1>1, <1>5, <1>6, <1>7, UpToInduction
<1>9. Cardinality(chain[N]) >= N
  BY <1>1, <1>p, <1>8
<1>10. Cardinality(chain[N]) <= Cardinality(S)
  BY <1>1, <1>3, SubsetCardinality
<1> QED BY <1>1, <1>4, <1>9, <1>10, SMT

-----------------------------------------------------------------------------
(* Division with a remainder.                                              *)

LEMMA DivisionIs ==
  ASSUME NEW k \in Nat \ {0}, NEW m \in Int
  PROVE  m \div k \in Int /\ m % k \in 0..(k - 1) /\ m = (m \div k) * k + (m % k)
  OBVIOUS

LEMMA DivisionUnique ==
  ASSUME NEW k \in Nat \ {0}, NEW d \in Int, NEW e \in Int,
         NEW r \in 0..(k - 1), NEW q \in 0..(k - 1), d * k + r = e * k + q
  PROVE  d = e /\ r = q
  OBVIOUS

LEMMA NextMultiple ==
  ASSUME NEW k \in Nat \ {0}, NEW d \in Int, NEW e \in Int, d < e
  PROVE  d * k + k <= e * k
  OBVIOUS

LEMMA RemainderRepeats ==
  ASSUME NEW k \in Nat \ {0}, NEW m \in Int
  PROVE  (m - k) % k = m % k
<1>1. /\ m \div k \in Int /\ m % k \in 0..(k-1) /\ m = (m \div k) * k + (m % k)
  BY DivisionIs
<1>2. /\ (m - k) \div k \in Int /\ (m - k) % k \in 0..(k-1) /\ m - k = ((m - k) \div k) * k + ((m - k) % k)
  <2>1. m - k \in Int
    OBVIOUS
  <2> QED BY <2>1, DivisionIs
<1>3. PICK a \in Int, r \in 0..(k-1) : m = a * k + r /\ r = m % k
  BY <1>1
<1>4. PICK b \in Int, q \in 0..(k-1) : m - k = b * k + q /\ q = (m - k) % k
  BY <1>2
<1>5. (b + 1) * k = b * k + k
  BY <1>4, SMT
<1>6. a * k + r = (b + 1) * k + q
  BY <1>3, <1>4, <1>5, SMT
<1>7. b + 1 \in Int
  BY <1>4
<1>8. r = q
  BY <1>3, <1>4, <1>6, <1>7, DivisionUnique
<1> QED BY <1>3, <1>4, <1>8

=============================================================================
