------------------------- MODULE OfflineQueueProofs -------------------------
(***************************************************************************)
(* Proofs about the offline queue of one tab that the client drives: no    *)
(* other tab saves over it, and an application that calls the queue past   *)
(* the client does so only where a batch finds its operations by their     *)
(* ids.  With two tabs, or with a direct call beside the loop that takes   *)
(* the head for its own, the properties fail; the runs show how.           *)
(***************************************************************************)
EXTENDS OfflineQueue, SequenceLemmas

Alone == (\E t \in Tabs : Tabs = {t}) /\ (setting.directUse => setting.batchAdapter)

-----------------------------------------------------------------------------
(* Lemmas on the operators of the model.                                   *)

Statuses == {"PENDING", "IN_FLIGHT", "ACCEPTED", "REJECTED_PERMANENT", "FAILED_RETRYABLE"}

(* The operations of a sequence that were found to be rejected for good.   *)
RejectedIn(s) == {op.id : op \in {e \in ToSet(s) : e.status = "REJECTED_PERMANENT"}}

Operations(os) == [id : os, status : Statuses]

(* What the queue does to its array changes the ids and the rejections in  *)
(* it as follows.                                                          *)
LEMMA AppendIs ==
  ASSUME NEW os, NEW s \in Seq(Operations(os)), NEW o \in os
  PROVE  LET n == Append(s, Pending(o)) IN
         /\ n \in Seq(Operations(os)) /\ n # <<>>
         /\ Ids(n) = Ids(s) \union {o}
         /\ RejectedIn(n) \subseteq RejectedIn(s)
         /\ s # <<>> => Head(n).id = Head(s).id
<1> DEFINE n == Append(s, Pending(o))
<1>1. Pending(o) \in Operations(os) /\ Pending(o).id = o
      /\ Pending(o).status # "REJECTED_PERMANENT"
  BY DEF Pending, Operations, Statuses
<1> HIDE DEF Pending
<1>2. n \in Seq(Operations(os)) /\ n # <<>> /\ (s # <<>> => Head(n) = Head(s))
  BY <1>1, AppendProperties, SMT
<1>3. ToSet(n) = ToSet(s) \union {Pending(o)}
  <2>1. Len(n) = Len(s) + 1 /\ Len(s) \in Nat
    BY <1>1, SMT
  <2>2. \A i \in 1..Len(s) : n[i] = s[i]
    BY <1>1, SMT
  <2>3. n[Len(s) + 1] = Pending(o)
    BY <1>1, SMT
  <2>4. DOMAIN n = 1..Len(n) /\ DOMAIN s = 1..Len(s)
    BY <1>2, SMT
  <2>5. DOMAIN n = DOMAIN s \union {Len(s) + 1}
    BY <2>1, <2>4, SMT
  <2> QED BY <2>2, <2>3, <2>4, <2>5, Zenon DEF ToSet
<1> QED
  BY <1>1, <1>2, <1>3, Zenon DEF Ids, RejectedIn

LEMMA TailIs ==
  ASSUME NEW os, NEW s \in Seq(Operations(os)), s # <<>>
  PROVE  /\ Tail(s) \in Seq(Operations(os))
         /\ Head(s).id \in os
         /\ Ids(s) = Ids(Tail(s)) \union {Head(s).id}
         /\ RejectedIn(Tail(s)) \subseteq RejectedIn(s)
<1>1. Tail(s) \in Seq(Operations(os)) /\ Head(s) \in Operations(os)
      /\ ToSet(s) = ToSet(Tail(s)) \union {Head(s)}
  BY HeadIs, Zenon
<1>2. Head(s).id \in os
  BY <1>1, SMT DEF Operations
<1> QED BY <1>1, <1>2, Zenon DEF Ids, RejectedIn

LEMMA IdsSame ==
  ASSUME NEW s, NEW n, DOMAIN n = DOMAIN s, \A i \in DOMAIN s : n[i].id = s[i].id
  PROVE  Ids(n) = Ids(s)
<1>1. \A o : o \in Ids(n) <=> \E i \in DOMAIN n : n[i].id = o
  BY Zenon DEF Ids, ToSet
<1>2. \A o : o \in Ids(s) <=> \E i \in DOMAIN s : s[i].id = o
  BY Zenon DEF Ids, ToSet
<1> QED BY <1>1, <1>2, Zenon

(* A change of statuses only.                                              *)
LEMMA StatusesOnly ==
  ASSUME NEW os, NEW s \in Seq(Operations(os)), NEW n, NEW D,
         n = [i \in DOMAIN s |-> n[i]],
         \A i \in DOMAIN s :
           /\ n[i] \in Operations(os) /\ n[i].id = s[i].id
           /\ n[i].status = "REJECTED_PERMANENT" => n[i].id \in D \/ n[i].status = s[i].status
  PROVE  /\ n \in Seq(Operations(os)) /\ Ids(n) = Ids(s) /\ (n = <<>> <=> s = <<>>)
         /\ RejectedIn(n) \subseteq RejectedIn(s) \union D
         /\ s # <<>> => Head(n).id = Head(s).id
<1>1. Len(s) \in Nat /\ DOMAIN s = 1..Len(s) /\ DOMAIN n = DOMAIN s
  BY LenProperties
<1>2. n \in Seq(Operations(os)) /\ Len(n) = Len(s)
  BY <1>1, SMT
<1>3. Ids(n) = Ids(s)
  BY <1>1, IdsSame
<1>4. ASSUME NEW o \in RejectedIn(n)
      PROVE  o \in RejectedIn(s) \union D
  <2>1. PICK i \in DOMAIN s : n[i].id = o /\ n[i].status = "REJECTED_PERMANENT"
    BY <1>1, Zenon DEF RejectedIn, ToSet
  <2> QED BY <2>1, Zenon DEF RejectedIn, ToSet
<1>5. s # <<>> => n # <<>> /\ Head(n).id = Head(s).id
  <2> SUFFICES ASSUME s # <<>> PROVE n # <<>> /\ Head(n).id = Head(s).id
    OBVIOUS
  <2>1. 1 \in DOMAIN s
    BY <1>1, EmptySeq, SMT
  <2>2. Head(n) = n[1] /\ Head(s) = s[1] /\ n # <<>>
    BY <1>1, <1>2, <2>1, SMT
  <2> QED BY <2>1, <2>2
<1>6. s = <<>> => n = <<>>
  BY <1>1, <1>2, SMT
<1> QED BY <1>2, <1>3, <1>4, <1>5, <1>6

LEMMA StatusOfHeadIs ==
  ASSUME NEW os, NEW s \in Seq(Operations(os)), s # <<>>, NEW status \in Statuses
  PROVE  LET n == [s EXCEPT ![1].status = status] IN
         /\ n \in Seq(Operations(os)) /\ n # <<>>
         /\ Ids(n) = Ids(s) /\ Head(n).id = Head(s).id
         /\ RejectedIn(n) \subseteq
              RejectedIn(s) \union (IF status = "REJECTED_PERMANENT" THEN {Head(s).id} ELSE {})
<1> DEFINE n == [s EXCEPT ![1].status = status]
           D == IF status = "REJECTED_PERMANENT" THEN {Head(s).id} ELSE {}
<1>1. Len(s) \in Nat /\ DOMAIN s = 1..Len(s) /\ 1 \in DOMAIN s /\ Head(s) = s[1]
  BY LenProperties, EmptySeq, SMT
<1>2. \A i \in DOMAIN s : s[i] \in Operations(os)
  BY <1>1, ElementOfSeq
<1>3. n = [i \in DOMAIN s |-> n[i]]
  BY Zenon
<1>4. \A i \in DOMAIN s : n[i] = IF i = 1 THEN [s[1] EXCEPT !.status = status] ELSE s[i]
  BY <1>1, Zenon
<1>5. /\ [s[1] EXCEPT !.status = status] \in Operations(os)
      /\ [s[1] EXCEPT !.status = status].id = s[1].id
      /\ [s[1] EXCEPT !.status = status].status = status
  BY <1>1, <1>2, SMT DEF Operations
<1>6. \A i \in DOMAIN s :
        /\ n[i] \in Operations(os) /\ n[i].id = s[i].id
        /\ n[i].status = "REJECTED_PERMANENT" => n[i].id \in D \/ n[i].status = s[i].status
  <2> SUFFICES ASSUME NEW i \in DOMAIN s
               PROVE  /\ n[i] \in Operations(os) /\ n[i].id = s[i].id
                      /\ n[i].status = "REJECTED_PERMANENT" =>
                           n[i].id \in D \/ n[i].status = s[i].status
    OBVIOUS
  <2> HIDE DEF n
  <2>1. CASE i = 1
    BY <1>1, <1>4, <1>5, <2>1, Zenon
  <2>2. CASE i # 1
    BY <1>2, <1>4, <2>2, Zenon
  <2> QED BY <2>1, <2>2
<1> HIDE DEF n, D
<1>7. n \in Seq(Operations(os))
  BY <1>3, <1>6, StatusesOnly
<1>8. Ids(n) = Ids(s)
  <2>1. DOMAIN n = DOMAIN s
    BY <1>3
  <2> QED BY <1>6, <2>1, IdsSame
<1>9. n # <<>> /\ Head(n).id = Head(s).id
  BY <1>3, <1>6, StatusesOnly
<1>10. RejectedIn(n) \subseteq RejectedIn(s) \union D
  BY <1>3, <1>6, StatusesOnly
<1> QED BY <1>7, <1>8, <1>9, <1>10 DEF n, D

LEMMA NormalizedIs ==
  ASSUME NEW os, NEW s \in Seq(Operations(os))
  PROVE  /\ Normalized(s) \in Seq(Operations(os)) /\ Ids(Normalized(s)) = Ids(s)
         /\ RejectedIn(Normalized(s)) \subseteq RejectedIn(s)
<1> DEFINE n == Normalized(s)
<1>1. Len(s) \in Nat /\ DOMAIN s = 1..Len(s)
  BY LenProperties
<1>2. \A i \in DOMAIN s : s[i] \in Operations(os)
  BY <1>1, ElementOfSeq
<1>3. n = [i \in DOMAIN s |-> n[i]]
      /\ \A i \in DOMAIN s : n[i] = IF s[i].status = "IN_FLIGHT" THEN Pending(s[i].id) ELSE s[i]
  BY Zenon DEF Normalized
<1>4. \A o \in os : Pending(o) \in Operations(os) /\ Pending(o).id = o
                    /\ Pending(o).status # "REJECTED_PERMANENT"
  BY DEF Pending, Operations, Statuses
<1>5. \A i \in DOMAIN s : s[i].id \in os
  BY <1>2 DEF Operations
<1>6. \A i \in DOMAIN s :
        /\ n[i] \in Operations(os) /\ n[i].id = s[i].id
        /\ n[i].status = "REJECTED_PERMANENT" => n[i].id \in {} \/ n[i].status = s[i].status
  BY <1>2, <1>3, <1>4, <1>5, Zenon
<1> HIDE DEF n
<1>7. n \in Seq(Operations(os)) /\ Ids(n) = Ids(s) /\ RejectedIn(n) \subseteq RejectedIn(s) \union {}
  BY <1>3, <1>6, StatusesOnly
<1> QED BY <1>7 DEF n

(* What a batch leaves of an operation that is to be tried again.          *)
LEMMA RetryableIs ==
  ASSUME NEW os, NEW s \in Seq(Operations(os)), NEW o
  PROVE  LET n == [i \in DOMAIN s |->
                     IF s[i].id = o THEN [s[i] EXCEPT !.status = "FAILED_RETRYABLE"] ELSE s[i]]
         IN  /\ n \in Seq(Operations(os)) /\ Ids(n) = Ids(s)
             /\ RejectedIn(n) \subseteq RejectedIn(s)
<1> DEFINE n == [i \in DOMAIN s |->
                   IF s[i].id = o THEN [s[i] EXCEPT !.status = "FAILED_RETRYABLE"] ELSE s[i]]
<1>1. \A i \in DOMAIN s : s[i] \in Operations(os)
  BY LenProperties, ElementOfSeq
<1>2. n = [i \in DOMAIN s |-> n[i]]
  BY Zenon
<1>3. \A e \in Operations(os) :
        /\ [e EXCEPT !.status = "FAILED_RETRYABLE"] \in Operations(os)
        /\ [e EXCEPT !.status = "FAILED_RETRYABLE"].id = e.id
        /\ [e EXCEPT !.status = "FAILED_RETRYABLE"].status # "REJECTED_PERMANENT"
  BY SMT DEF Operations, Statuses
<1>4. \A i \in DOMAIN s :
        /\ n[i] \in Operations(os) /\ n[i].id = s[i].id
        /\ n[i].status = "REJECTED_PERMANENT" => n[i].id \in {} \/ n[i].status = s[i].status
  BY <1>1, <1>3, Zenon
<1> HIDE DEF n
<1>5. n \in Seq(Operations(os)) /\ Ids(n) = Ids(s) /\ RejectedIn(n) \subseteq RejectedIn(s) \union {}
  BY <1>2, <1>4, StatusesOnly
<1> QED BY <1>5 DEF n

(* A filter over the ids keeps the others.                                 *)
LEMMA WithoutIs ==
  ASSUME NEW os, NEW s \in Seq(Operations(os)), NEW o
  PROVE  /\ Without(s, o) \in Seq(Operations(os))
         /\ Ids(Without(s, o)) = Ids(s) \ {o}
         /\ RejectedIn(Without(s, o)) \subseteq RejectedIn(s)
<1> DEFINE places == {i \in DOMAIN s : s[i].id # o}
<1>1. /\ Without(s, o) \in Seq(Operations(os))
      /\ ToSet(Without(s, o)) = {s[i] : i \in places}
  BY AtIs, Zenon DEF Without
<1>2. ToSet(Without(s, o)) = {e \in ToSet(s) : e.id # o}
  BY <1>1, Zenon DEF ToSet
<1> QED BY <1>1, <1>2, Zenon DEF Ids, RejectedIn

(* The same of the history, a sequence of operations.                      *)
LEMMA FilterIs ==
  ASSUME NEW os, NEW s \in Seq(os), NEW gone
  PROVE  LET n == At(s, {i \in DOMAIN s : s[i] \notin gone}) IN
         n \in Seq(os) /\ ToSet(n) = ToSet(s) \ gone
<1> DEFINE places == {i \in DOMAIN s : s[i] \notin gone}
<1>1. At(s, places) \in Seq(os) /\ ToSet(At(s, places)) = {s[i] : i \in places}
  BY AtIs, Zenon
<1> QED BY <1>1, Zenon DEF ToSet

LEMMA RemoveFirstIs ==
  ASSUME NEW os, NEW s \in Seq(os), NEW o
  PROVE  /\ RemoveFirst(s, o) \in Seq(os)
         /\ ToSet(s) \ {o} \subseteq ToSet(RemoveFirst(s, o))
         /\ ToSet(RemoveFirst(s, o)) \subseteq ToSet(s)
<1>1. CASE ~(\E i \in 1..Len(s) : s[i] = o)
  BY <1>1, Zenon DEF RemoveFirst
<1>2. CASE \E i \in 1..Len(s) : s[i] = o
  <2> DEFINE I == {i \in 1..Len(s) : s[i] = o}
             k == Min(I)
             n == RemoveAt(s, k)
  <2>1. I \in SUBSET Nat /\ I # {}
    BY <1>2, LenProperties, SMT
  <2>2. k \in I
    <3>1. \E x \in I : \A y \in I : x <= y
      BY <2>1, LeastNumber, Zenon
    <3> QED BY <3>1, Zenon DEF Min
  <2>3. RemoveFirst(s, o) = n
    BY <1>2, <2>1, Zenon DEF RemoveFirst, SelectInSeq
  <2>4. Len(s) \in Nat /\ DOMAIN s = 1..Len(s) /\ k \in 1..Len(s) /\ s[k] = o
    BY <2>2, LenProperties
  <2> HIDE DEF k
  <2>5. /\ n \in Seq(os) /\ DOMAIN n = 1..(Len(s) - 1)
        /\ \A i \in 1..(Len(s) - 1) : n[i] = IF i < k THEN s[i] ELSE s[i + 1]
    BY <2>4, RemoveAtIs
  <2> HIDE DEF n
  <2>6. ASSUME NEW i \in 1..Len(s), i # k
        PROVE  \E j \in 1..(Len(s) - 1) : n[j] = s[i]
    <3>1. CASE i < k
      <4>1. i \in 1..(Len(s) - 1)
        BY <2>4, <3>1, SMT
      <4> QED BY <2>5, <3>1, <4>1
    <3>2. CASE i > k
      <4>1. i - 1 \in 1..(Len(s) - 1) /\ ~(i - 1 < k) /\ (i - 1) + 1 = i
        BY <2>4, <3>2, SMT
      <4> QED BY <2>5, <4>1
    <3> QED BY <2>4, <2>6, <3>1, <3>2, SMT
  <2>7. ASSUME NEW i \in 1..(Len(s) - 1)
        PROVE  \E j \in 1..Len(s) : n[i] = s[j]
    <3>1. i \in 1..Len(s) /\ i + 1 \in 1..Len(s)
      BY <2>4, SMT
    <3> QED BY <2>5, <3>1, Zenon
  <2>8. ToSet(s) \ {o} \subseteq ToSet(n)
    <3> SUFFICES ASSUME NEW i \in 1..Len(s), s[i] # o PROVE s[i] \in ToSet(n)
      BY <2>4, Zenon DEF ToSet
    <3>1. \E j \in DOMAIN n : n[j] = s[i]
      BY <2>4, <2>5, <2>6
    <3> QED BY <3>1, Zenon DEF ToSet
  <2>9. ToSet(n) \subseteq ToSet(s)
    <3> SUFFICES ASSUME NEW i \in 1..(Len(s) - 1) PROVE n[i] \in ToSet(s)
      BY <2>5, Zenon DEF ToSet
    <3>1. \E j \in DOMAIN s : n[i] = s[j]
      BY <2>4, <2>7
    <3> QED BY <3>1, Zenon DEF ToSet
  <2> QED
    BY <2>3, <2>5, <2>8, <2>9
<1> QED BY <1>1, <1>2

LEMMA HistoryAppendIs ==
  ASSUME NEW os, NEW s \in Seq(os), NEW o \in os
  PROVE  Append(s, o) \in Seq(os) /\ ToSet(Append(s, o)) = ToSet(s) \union {o}
<1> DEFINE n == Append(s, o)
<1>1. /\ n \in Seq(os) /\ Len(s) \in Nat
      /\ DOMAIN n = 1..(Len(s) + 1) /\ DOMAIN s = 1..Len(s)
  BY SMT
<1>2. (\A i \in 1..Len(s) : n[i] = s[i]) /\ n[Len(s) + 1] = o
  BY SMT
<1>3. DOMAIN n = DOMAIN s \union {Len(s) + 1}
  BY <1>1, SMT
<1> QED BY <1>1, <1>2, <1>3, Zenon DEF ToSet

-----------------------------------------------------------------------------
(* The inductive invariant of a tab that is alone.                         *)

LoopPlaces == {"head", "skipped", "checked", "sending", "deferred", "answered", "shift"}
BatchPlaces == {"batchSent", "batch", "batchSave"}
Places == {"ready", "closed", "notify"} \union LoopPlaces \union BatchPlaces

(* Where the loop has taken the operation at the head for its own.         *)
Working == {"checked", "sending", "deferred", "answered", "shift"}

Results == [id : Ops, answer : {"ok", "no", "retry"}]

Shape ==
  /\ setting \in Settings
  /\ ops \in [Tabs -> Seq(Operations(Ops))] /\ hist \in [Tabs -> Seq(Ops)]
  /\ stored \in [ops : Seq(Operations(Ops)), hist : Seq(Ops)]
  /\ pc \in [Tabs -> Places] /\ cur \in [Tabs -> Ops \union {Null}]
  /\ batch \in [Tabs -> Seq(Ops) \union Seq(Results)]
  /\ news \in [Tabs -> BOOLEAN] /\ loading = [t \in Tabs |-> Null]
  /\ retrying \in [Tabs -> Ops \union {Null}]
  /\ verdicts \in [Ops -> SUBSET {"ok", "no"}]
  /\ fate \in [Ops -> {"new", "queued", "failed", "retried", "accepted", "rejected", "dropped"}]
  /\ failures \in Nat

(* Nobody announces anything, and the adapter decides how the queue is     *)
(* synchronized.                                                           *)
InMode(t) ==
  /\ ~news[t] /\ (pc[t] = "closed" => retrying[t] = Null)
  /\ setting.batchAdapter => pc[t] \notin LoopPlaces
  /\ ~setting.batchAdapter => pc[t] \notin BatchPlaces

(* The server said no and nothing else, unless it may have said both.      *)
TurnedDown(o) == o \in Doubtful \/ verdicts[o] = {"no"}

(* The operation the loop works on is the one at the head; when the loop   *)
(* is about to drop it, it has its answer.                                 *)
AtHead(t) ==
  /\ pc[t] \in Working => ops[t] # <<>> /\ Head(ops[t]).id = cur[t] /\ cur[t] \in Ops
  /\ pc[t] \in {"answered", "shift"} => fate[cur[t]] \notin {"new", "queued"}
  /\ pc[t] = "answered" => TurnedDown(cur[t])

ResultsTrue(t) ==
  IF pc[t] = "batchSent" THEN batch[t] \in Seq(Ops)
  ELSE /\ batch[t] \in Seq(Results)
       /\ \A i \in DOMAIN batch[t] : batch[t][i].answer = "no" => TurnedDown(batch[t][i].id)

(* Operations that storage must hold, and the tab too.                     *)
Owed(o) == fate[o] = "queued" \/ (setting.batchAdapter /\ fate[o] = "retried")

Retained(t) ==
  \A o \in Ops : Owed(o) => o \in Ids(stored.ops) /\ (Open(t) => o \in Ids(ops[t]))

(* Where no save is refused, a rejection a batch reported is in storage.   *)
Recorded(t) ==
  setting.batchAdapter /\ setting.maxFailures = 0 =>
    \A o \in Ops : fate[o] = "rejected" =>
      o \in ToSet(stored.hist) /\ (Open(t) => o \in ToSet(hist[t]))

(* What was rejected is doomed: turned down, or undecided and in need of   *)
(* a doomed operation.                                                     *)
Doomed(doomed) ==
  \A o \in doomed : TurnedDown(o) \/ (verdicts[o] = {} /\ setting.requires[o] \cap doomed # {})

RejectionsIn(t, doomed) ==
  /\ RejectedIn(ops[t]) \subseteq doomed /\ RejectedIn(stored.ops) \subseteq doomed
  /\ ToSet(hist[t]) \subseteq doomed /\ ToSet(stored.hist) \subseteq doomed

RejectedAreDoomed(t) == \E doomed \in SUBSET Ops : Doomed(doomed) /\ RejectionsIn(t, doomed)

(* What took effect had all it requires of this device, and what is not    *)
(* decided on again has one verdict.                                       *)
DecisionsInv ==
  \A o \in Ops :
    /\ "ok" \in verdicts[o] => \A r \in setting.requires[o] \ setting.elsewhere : "ok" \in verdicts[r]
    /\ verdicts[o] = {"ok", "no"} => o \in repeated

QueueInv ==
  /\ Shape /\ DecisionsInv
  /\ \A t \in Tabs :
       /\ InMode(t) /\ AtHead(t) /\ ResultsTrue(t)
       /\ Retained(t) /\ Recorded(t) /\ RejectedAreDoomed(t)

-----------------------------------------------------------------------------
(* What a save, and the end of a step of the loop, leave behind.           *)

(* A step of the only tab, in a state that satisfies the invariant.        *)
Context(t) ==
  QueueInv /\ Tabs = {t} /\ (setting.directUse => setting.batchAdapter) /\ setting' = setting

(* A step without a decision; requests may be repeated and results lapse.  *)
WorldKept == verdicts' = verdicts /\ repeated \subseteq repeated'

LEMMA DoubtfulIs ==
  /\ \A o \in Ops : o \in repeated => o \in Doubtful
  /\ \A o \in Ops : setting.requires[o] \intersect (Doubtful \union setting.elsewhere) # {} => o \in Doubtful
<1>1. \A o \in Ops : o \in repeated => o \in Doubtful
  BY Zenon DEF Doubtful, DoubtClosed
<1>2. ASSUME NEW o \in Ops, setting.requires[o] \intersect (Doubtful \union setting.elsewhere) # {}
      PROVE  o \in Doubtful
  <2> SUFFICES ASSUME NEW os \in SUBSET Ops, DoubtClosed(os) PROVE o \in os
    BY Zenon DEF Doubtful
  <2>1. Doubtful \subseteq os
    BY Zenon DEF Doubtful
  <2>2. setting.requires[o] \intersect (os \union setting.elsewhere) # {}
    BY <1>2, <2>1, Zenon
  <2> QED BY <2>2, Zenon DEF DoubtClosed
<1> QED BY <1>1, <1>2, Zenon

LEMMA TurnedDownKept ==
  ASSUME NEW t, Context(t), WorldKept
  PROVE  \A o : TurnedDown(o) => TurnedDown(o)'
<1>1. Ops' = Ops /\ setting' = setting
  BY DEF Context, Ops
<1>2. ASSUME NEW o \in Doubtful PROVE o \in Doubtful'
  <2> SUFFICES ASSUME NEW os \in SUBSET Ops, DoubtClosed(os)' PROVE o \in os
    BY <1>1, <1>2, Zenon DEF Doubtful
  <2>1. DoubtClosed(os)
    BY <1>1, Zenon DEF DoubtClosed, WorldKept
  <2> QED BY <1>2, <2>1, Zenon DEF Doubtful
<1>3. ASSUME NEW o, TurnedDown(o) PROVE TurnedDown(o)'
  BY <1>2, <1>3, Zenon DEF TurnedDown, WorldKept
<1> QED BY <1>3, Zenon

LEMMA SaveOutcomeIs ==
  ASSUME NEW t, Context(t), NEW ok \in SaveOutcomes
  PROVE  ok \in BOOLEAN /\ (setting.maxFailures = 0 => ok)
<1>1. failures \in Nat
  BY DEF Context, QueueInv, Shape
<1>2. setting.maxFailures = 0 => ~(failures < setting.maxFailures)
  BY <1>1, SMT
<1> QED BY <1>2, Zenon DEF SaveOutcomes

LEMMA Announced ==
  ASSUME NEW t, Context(t), NEW ok \in BOOLEAN, Announce(t, ok)
  PROVE  news' = news /\ failures' \in Nat
<1>1. news \in [Tabs -> BOOLEAN] /\ failures \in Nat /\ \A s \in Tabs : s = t
  BY DEF Context, QueueInv, Shape
<1>2. news' = [s \in Tabs |-> news[s]]
  BY <1>1, Zenon DEF Announce
<1>3. failures' \in Nat
  BY <1>1, SMT DEF Announce
<1> QED BY <1>1, <1>2, <1>3, SMT

LEMMA StoredIs ==
  ASSUME NEW A, NEW B, NEW r \in [ops : A, hist : B], NEW a \in A, NEW b \in B
  PROVE  /\ [r EXCEPT !.ops = a] \in [ops : A, hist : B]
         /\ [r EXCEPT !.ops = a].ops = a /\ [r EXCEPT !.ops = a].hist = r.hist
         /\ [r EXCEPT !.hist = b] \in [ops : A, hist : B]
         /\ [r EXCEPT !.hist = b].hist = b /\ [r EXCEPT !.hist = b].ops = r.ops
  BY SMT

LEMMA OpsSaved ==
  ASSUME NEW t, Context(t), NEW ok \in BOOLEAN, NEW new \in Seq(Operations(Ops)),
         SaveOps(t, new, ok)
  PROVE  /\ ops' \in [Tabs -> Seq(Operations(Ops))] /\ ops'[t] = new
         /\ stored' \in [ops : Seq(Operations(Ops)), hist : Seq(Ops)]
         /\ stored'.hist = stored.hist /\ stored'.ops = IF ok THEN new ELSE stored.ops
         /\ news' = news /\ failures' \in Nat
<1>1. /\ ops \in [Tabs -> Seq(Operations(Ops))] /\ t \in Tabs
      /\ stored \in [ops : Seq(Operations(Ops)), hist : Seq(Ops)]
  BY DEF Context, QueueInv, Shape
<1>2. ops' \in [Tabs -> Seq(Operations(Ops))] /\ ops'[t] = new
  BY <1>1, Zenon DEF SaveOps
<1>3. /\ stored' \in [ops : Seq(Operations(Ops)), hist : Seq(Ops)]
      /\ stored'.hist = stored.hist /\ stored'.ops = IF ok THEN new ELSE stored.ops
  <2>1. stored.hist \in Seq(Ops)
    BY <1>1
  <2>2. CASE ok
    BY <1>1, <2>1, <2>2, StoredIs DEF SaveOps
  <2>3. CASE ~ok
    BY <1>1, <2>3 DEF SaveOps
  <2> QED BY <2>2, <2>3
<1> QED BY <1>2, <1>3, Announced DEF SaveOps

LEMMA HistSaved ==
  ASSUME NEW t, Context(t), NEW ok \in BOOLEAN, NEW new \in Seq(Ops), SaveHist(t, new, ok)
  PROVE  /\ hist' \in [Tabs -> Seq(Ops)] /\ hist'[t] = new
         /\ stored' \in [ops : Seq(Operations(Ops)), hist : Seq(Ops)]
         /\ stored'.ops = stored.ops /\ stored'.hist = IF ok THEN new ELSE stored.hist
         /\ news' = news /\ failures' \in Nat
<1>1. /\ hist \in [Tabs -> Seq(Ops)] /\ t \in Tabs
      /\ stored \in [ops : Seq(Operations(Ops)), hist : Seq(Ops)]
  BY DEF Context, QueueInv, Shape
<1>2. hist' \in [Tabs -> Seq(Ops)] /\ hist'[t] = new
  BY <1>1, Zenon DEF SaveHist
<1>3. /\ stored' \in [ops : Seq(Operations(Ops)), hist : Seq(Ops)]
      /\ stored'.ops = stored.ops /\ stored'.hist = IF ok THEN new ELSE stored.hist
  <2>1. stored.ops \in Seq(Operations(Ops))
    BY <1>1
  <2>2. CASE ok
    BY <1>1, <2>1, <2>2, StoredIs DEF SaveHist
  <2>3. CASE ~ok
    BY <1>1, <2>3 DEF SaveHist
  <2> QED BY <2>2, <2>3
<1> QED BY <1>2, <1>3, Announced DEF SaveHist

LEMMA HeadSaved ==
  ASSUME NEW t, Context(t), NEW ok \in BOOLEAN, NEW status \in Statuses, ops[t] # <<>>,
         SetHead(t, status, ok)
  PROVE  /\ ops' \in [Tabs -> Seq(Operations(Ops))]
         /\ stored' \in [ops : Seq(Operations(Ops)), hist : Seq(Ops)]
         /\ stored'.hist = stored.hist /\ stored'.ops = IF ok THEN ops'[t] ELSE stored.ops
         /\ news' = news /\ failures' \in Nat
         /\ ops'[t] # <<>> /\ Head(ops'[t]).id = Head(ops[t]).id /\ Ids(ops'[t]) = Ids(ops[t])
         /\ RejectedIn(ops'[t]) \subseteq
              RejectedIn(ops[t])
                \union (IF status = "REJECTED_PERMANENT" THEN {Head(ops[t]).id} ELSE {})
<1>1. ops[t] \in Seq(Operations(Ops))
  BY DEF Context, QueueInv, Shape
<1> DEFINE new == [ops[t] EXCEPT ![1].status = status]
<1>2. /\ new \in Seq(Operations(Ops)) /\ new # <<>>
      /\ Ids(new) = Ids(ops[t]) /\ Head(new).id = Head(ops[t]).id
      /\ RejectedIn(new) \subseteq
           RejectedIn(ops[t])
             \union (IF status = "REJECTED_PERMANENT" THEN {Head(ops[t]).id} ELSE {})
  BY <1>1, StatusOfHeadIs
<1>3. SaveOps(t, new, ok)
  BY DEF SetHead
<1> HIDE DEF new
<1>4. /\ ops' \in [Tabs -> Seq(Operations(Ops))] /\ ops'[t] = new
      /\ stored' \in [ops : Seq(Operations(Ops)), hist : Seq(Ops)]
      /\ stored'.hist = stored.hist /\ stored'.ops = IF ok THEN new ELSE stored.ops
      /\ news' = news /\ failures' \in Nat
  BY <1>2, <1>3, OpsSaved
<1> QED BY <1>2, <1>4

LEMMA Stopped ==
  ASSUME NEW t, Context(t), Stop(t)
  PROVE  /\ pc' \in [Tabs -> Places] /\ pc'[t] = "ready"
         /\ cur' \in [Tabs -> Ops \union {Null}]
         /\ batch' \in [Tabs -> Seq(Ops) \union Seq(Results)] /\ batch'[t] = <<>>
<1>1. /\ pc \in [Tabs -> Places] /\ cur \in [Tabs -> Ops \union {Null}] /\ t \in Tabs
      /\ batch \in [Tabs -> Seq(Ops) \union Seq(Results)]
  BY DEF Context, QueueInv, Shape
<1>2. "ready" \in Places /\ <<>> \in Seq(Results)
  BY SMT DEF Places
<1> QED BY <1>1, <1>2, Zenon DEF Stop

LEMMA Went ==
  ASSUME NEW t, Context(t), NEW ok \in BOOLEAN, NEW place \in Places, GoTo(t, place, ok)
  PROVE  /\ pc' \in [Tabs -> Places] /\ pc'[t] = IF ok THEN place ELSE "ready"
         /\ cur' \in [Tabs -> Ops \union {Null}] /\ (ok => cur' = cur)
         /\ batch' \in [Tabs -> Seq(Ops) \union Seq(Results)]
         /\ batch'[t] = IF ok THEN batch[t] ELSE <<>>
<1>1. /\ pc \in [Tabs -> Places] /\ cur \in [Tabs -> Ops \union {Null}] /\ t \in Tabs
      /\ batch \in [Tabs -> Seq(Ops) \union Seq(Results)]
  BY DEF Context, QueueInv, Shape
<1>2. CASE ok
  BY <1>1, <1>2, Zenon DEF GoTo
<1>3. CASE ~ok
  BY <1>3, Stopped, Zenon DEF GoTo
<1> QED BY <1>2, <1>3

(* The invariant after the step, from its parts.                           *)
LEMMA Assembled ==
  ASSUME NEW t, Context(t),
         ops' \in [Tabs -> Seq(Operations(Ops))], hist' \in [Tabs -> Seq(Ops)],
         stored' \in [ops : Seq(Operations(Ops)), hist : Seq(Ops)],
         pc' \in [Tabs -> Places], cur' \in [Tabs -> Ops \union {Null}],
         batch' \in [Tabs -> Seq(Ops) \union Seq(Results)],
         news' = news, loading' = loading, retrying' \in [Tabs -> Ops \union {Null}],
         verdicts' \in [Ops -> SUBSET {"ok", "no"}],
         fate' \in [Ops -> {"new", "queued", "failed", "retried", "accepted", "rejected", "dropped"}],
         failures' \in Nat,
         DecisionsInv', InMode(t)', AtHead(t)', ResultsTrue(t)',
         Retained(t)', Recorded(t)', RejectedAreDoomed(t)'
  PROVE  QueueInv'
<1>1. Tabs' = Tabs /\ Ops' = Ops /\ Results' = Results
  BY DEF Context, Tabs, Ops, Results
<1>2. setting' \in Settings /\ news \in [Tabs -> BOOLEAN] /\ loading = [s \in Tabs |-> Null]
  BY DEF Context, QueueInv, Shape
<1>3. Shape'
  BY <1>1, <1>2, Zenon DEF Shape
<1>4. \A s \in Tabs' : s = t
  BY <1>1 DEF Context
<1> QED BY <1>3, <1>4, Zenon DEF QueueInv

LEMMA RetainedKept ==
  ASSUME NEW t, Context(t), Open(t)' => Open(t),
         stored'.ops = stored.ops \/ (stored'.ops = ops'[t] /\ Open(t)'),
         \A o \in Ops : Owed(o)' => Owed(o) \/ (o \in Ids(ops'[t]) /\ stored'.ops = ops'[t]),
         Open(t)' => \A o \in Ops : Owed(o)' /\ o \in Ids(ops[t]) => o \in Ids(ops'[t])
  PROVE  Retained(t)'
<1>1. Retained(t) /\ Ops' = Ops
  BY DEF Context, QueueInv, Ops
<1>2. SUFFICES ASSUME NEW o \in Ops, Owed(o)'
               PROVE  o \in Ids(stored'.ops) /\ (Open(t)' => o \in Ids(ops'[t]))
  BY <1>1, Zenon DEF Retained
<1>3. CASE Owed(o)
  BY <1>1, <1>2, <1>3, Zenon DEF Retained
<1>4. CASE o \in Ids(ops'[t]) /\ stored'.ops = ops'[t]
  BY <1>4
<1> QED BY <1>2, <1>3, <1>4

LEMMA RecordedKept ==
  ASSUME NEW t, Context(t), Open(t)' => Open(t), hist' = hist, stored'.hist = stored.hist,
         setting.batchAdapter => \A o \in Ops : fate'[o] = "rejected" => fate[o] = "rejected"
  PROVE  Recorded(t)'
<1>1. Recorded(t) /\ Ops' = Ops /\ setting' = setting
  BY DEF Context, QueueInv, Ops
<1> QED BY <1>1, Zenon DEF Recorded

LEMMA DoomedKept ==
  ASSUME NEW t, Context(t), WorldKept,
         NEW more \in SUBSET Ops, \A o \in more : TurnedDown(o),
         RejectedIn(ops'[t]) \subseteq RejectedIn(ops[t]) \union RejectedIn(stored.ops) \union more,
         RejectedIn(stored'.ops) \subseteq RejectedIn(ops[t]) \union RejectedIn(stored.ops) \union more,
         ToSet(hist'[t]) \subseteq ToSet(hist[t]) \union ToSet(stored.hist) \union more,
         ToSet(stored'.hist) \subseteq ToSet(hist[t]) \union ToSet(stored.hist) \union more
  PROVE  RejectedAreDoomed(t)'
<1>1. RejectedAreDoomed(t) /\ Ops' = Ops /\ setting' = setting
  BY DEF Context, QueueInv, Ops
<1>2. PICK doomed \in SUBSET Ops : Doomed(doomed) /\ RejectionsIn(t, doomed)
  BY <1>1 DEF RejectedAreDoomed
<1> DEFINE all == doomed \union more
<1>3. all \in SUBSET Ops'
  BY <1>1
<1>4. Doomed(all)'
  <2>1. \A o \in all : TurnedDown(o) \/ (verdicts[o] = {} /\ setting.requires[o] \cap all # {})
    BY <1>2, Zenon DEF Doomed
  <2> QED BY <1>1, <2>1, TurnedDownKept, Zenon DEF Doomed, WorldKept
<1>5. RejectionsIn(t, all)'
  BY <1>2, Zenon DEF RejectionsIn
<1> QED BY <1>3, <1>4, <1>5, Zenon DEF RejectedAreDoomed

LEMMA ClosedKept ==
  ASSUME NEW t, Context(t), WorldKept
  PROVE  DecisionsInv'
<1>1. DecisionsInv /\ Ops' = Ops /\ setting' = setting
  BY DEF Context, QueueInv, Ops
<1> QED BY <1>1, Zenon DEF DecisionsInv, WorldKept

(* A step that only moves the synchronization on.                          *)
LEMMA ControlOnly ==
  ASSUME NEW t, Context(t), UNCHANGED <<ops, hist, stored, news, retrying, loading, fate>>, WorldKept,
         pc' \in [Tabs -> Places], cur' \in [Tabs -> Ops \union {Null}],
         batch' \in [Tabs -> Seq(Ops) \union Seq(Results)], failures' \in Nat,
         Open(t)' => Open(t), InMode(t)', AtHead(t)', ResultsTrue(t)'
  PROVE  QueueInv'
<1>1. Shape /\ Ops' = Ops /\ setting' = setting
  BY DEF Context, QueueInv, Ops
<1>2. Retained(t)'
  <2>1. \A o \in Ops : Owed(o)' => Owed(o)
    BY <1>1, Zenon DEF Owed
  <2> QED BY <2>1, RetainedKept
<1>3. Recorded(t)'
  BY RecordedKept
<1>4. RejectedAreDoomed(t)'
  <2>1. {} \in SUBSET Ops /\ \A o \in {} : TurnedDown(o)
    OBVIOUS
  <2> QED BY <2>1, DoomedKept
<1> QED BY <1>1, <1>2, <1>3, <1>4, ClosedKept, Assembled DEF Shape, WorldKept

LEMMA ContextIs ==
  ASSUME NEW t, Context(t)
  PROVE  /\ t \in Tabs /\ setting' = setting /\ Ops' = Ops /\ Tabs' = Tabs
         /\ setting.requires \in [Ops -> SUBSET Ops] /\ Null \notin Ops
         /\ ops[t] \in Seq(Operations(Ops)) /\ hist[t] \in Seq(Ops)
         /\ stored.ops \in Seq(Operations(Ops)) /\ stored.hist \in Seq(Ops)
         /\ pc \in [Tabs -> Places] /\ cur \in [Tabs -> Ops \union {Null}]
         /\ batch \in [Tabs -> Seq(Ops) \union Seq(Results)]
         /\ verdicts \in [Ops -> SUBSET {"ok", "no"}] /\ failures \in Nat
         /\ ~news[t] /\ loading[t] = Null /\ retrying \in [Tabs -> Ops \union {Null}]
         /\ InMode(t) /\ AtHead(t) /\ ResultsTrue(t)
         /\ Retained(t) /\ Recorded(t) /\ RejectedAreDoomed(t)
<1>1. Shape /\ t \in Tabs
  BY DEF Context, QueueInv
<1>2. setting.requires \in [Ops -> SUBSET Ops] /\ Null \notin Ops
  BY <1>1, QueueAssumption, Zenon DEF Shape, Ops
<1>3. InMode(t) /\ AtHead(t) /\ ResultsTrue(t) /\ Retained(t) /\ Recorded(t) /\ RejectedAreDoomed(t)
  BY <1>1, Zenon DEF Context, QueueInv
<1>4. ~news[t] /\ setting' = setting /\ Ops' = Ops /\ Tabs' = Tabs
  BY <1>3 DEF InMode, Context, Ops, Tabs
<1> QED BY <1>1, <1>2, <1>3, <1>4 DEF Shape

LEMMA RetryingSame ==
  ASSUME NEW t, Context(t), retrying' = retrying
  PROVE  retrying' \in [Tabs -> Ops \union {Null}]
  BY ContextIs

LEMMA PlacesAre ==
  /\ {"ready", "closed", "notify", "head", "skipped", "checked", "sending", "deferred", "answered",
      "shift", "batchSent", "batch", "batchSave"} = Places
  BY DEF Places, LoopPlaces, BatchPlaces

LEMMA SyncKeeps ==
  ASSUME NEW t, Context(t), Sync(t)
  PROVE  QueueInv'
<1> USE ContextIs
<1>1. ~\E s \in Tabs : Syncing(s)
  <2>1. \A s \in Tabs : s = t
    BY DEF Context
  <2>2. pc[t] = "ready"
    BY DEF Sync
  <2> QED BY <2>1, <2>2 DEF Syncing
<1>2. GoTo(t, "head", TRUE) /\ news' = news /\ ~setting.batchAdapter /\ pc[t] = "ready"
  BY <1>1 DEF Sync
<1>3. /\ pc' \in [Tabs -> Places] /\ pc'[t] = "head" /\ cur' \in [Tabs -> Ops \union {Null}]
      /\ batch' \in [Tabs -> Seq(Ops) \union Seq(Results)] /\ batch'[t] = batch[t]
  <2>1. "head" \in Places
    BY PlacesAre
  <2> QED BY <1>2, <2>1, Went
<1>4. UNCHANGED <<ops, hist, stored, retrying, loading, failures, fate>> /\ WorldKept
  BY DEF Sync, worldVars, WorldKept
<1>5. InMode(t)' /\ AtHead(t)'
  BY <1>2, <1>3 DEF InMode, AtHead, LoopPlaces, BatchPlaces, Working
<1>6. ResultsTrue(t)'
  <2>1. Results' = Results
    BY DEF Results
  <2> QED BY <1>2, <1>3, <1>4, <2>1, TurnedDownKept DEF ResultsTrue
<1> QED BY <1>2, <1>3, <1>4, <1>5, <1>6, ControlOnly DEF Open

LEMMA StopKeeps ==
  ASSUME NEW t, Context(t), Open(t), Stop(t),
         UNCHANGED <<ops, hist, stored, news, retrying, loading, fate>>, WorldKept, failures' \in Nat
  PROVE  QueueInv'
<1>1. /\ pc' \in [Tabs -> Places] /\ pc'[t] = "ready" /\ cur' \in [Tabs -> Ops \union {Null}]
      /\ batch' \in [Tabs -> Seq(Ops) \union Seq(Results)] /\ batch'[t] = <<>>
  BY Stopped
<1>2. InMode(t)' /\ AtHead(t)'
  BY <1>1, ContextIs DEF InMode, AtHead, LoopPlaces, BatchPlaces, Working
<1>3. ResultsTrue(t)'
  BY <1>1 DEF ResultsTrue
<1> QED BY <1>1, <1>2, <1>3, ControlOnly

LEMMA TakeHeadKeeps ==
  ASSUME NEW t, Context(t), TakeHead(t) \/ TryAgain(t)
  PROVE  QueueInv'
<1> USE ContextIs
<1>1. /\ UNCHANGED <<ops, hist, stored, batch, news, retrying, loading, failures, fate>> /\ WorldKept
      /\ pc[t] \in {"head", "deferred"} /\ pc' = [pc EXCEPT ![t] = "checked"]
  BY DEF TakeHead, TryAgain, tabVars, worldVars, WorldKept
<1>2. pc' \in [Tabs -> Places] /\ pc'[t] = "checked"
  <2>1. "checked" \in Places
    BY PlacesAre
  <2> QED BY <1>1, <2>1
<1>3. ops[t] # <<>> /\ cur'[t] = Head(ops[t]).id /\ cur' \in [Tabs -> Ops \union {Null}] /\ cur'[t] \in Ops
  <2>1. CASE TakeHead(t)
    <3>1. ops[t] # <<>> /\ cur' = [cur EXCEPT ![t] = Head(ops[t]).id]
      BY <2>1 DEF TakeHead
    <3>2. Head(ops[t]).id \in Ops
      BY <3>1, TailIs
    <3> QED BY <3>1, <3>2
  <2>2. CASE TryAgain(t)
    <3>1. cur' = cur /\ pc[t] = "deferred"
      BY <2>2 DEF TryAgain
    <3> QED BY <3>1 DEF AtHead, Working
  <2> QED BY <2>1, <2>2
<1>4. ~setting.batchAdapter
  BY <1>1 DEF InMode, LoopPlaces
<1>5. InMode(t)' /\ AtHead(t)'
  BY <1>1, <1>2, <1>3, <1>4 DEF InMode, AtHead, LoopPlaces, BatchPlaces, Working
<1>6. ResultsTrue(t)'
  <2>1. Results' = Results
    BY DEF Results
  <2> QED BY <1>1, <1>2, <2>1, TurnedDownKept DEF ResultsTrue
<1> QED BY <1>1, <1>2, <1>3, <1>5, <1>6, ControlOnly DEF Open

LEMMA NotifyKeeps ==
  ASSUME NEW t, Context(t), NEW ok \in BOOLEAN, Notify(t, ok)
  PROVE  QueueInv'
<1> USE ContextIs
<1>1. UNCHANGED <<ops, hist, stored, news, retrying, loading, fate>> /\ WorldKept /\ pc[t] = "notify" /\ failures' \in Nat
  BY SMT DEF Notify, worldVars, WorldKept
<1>2. CASE ~ok
  BY <1>1, <1>2, StopKeeps DEF Notify, Open
<1>3. CASE ok
  <2>1. /\ pc' = [pc EXCEPT ![t] = IF setting.batchAdapter THEN "batch" ELSE "head"]
        /\ cur' = [cur EXCEPT ![t] = Null] /\ batch' = batch
    BY <1>3 DEF Notify
  <2>2. pc' \in [Tabs -> Places] /\ pc'[t] = IF setting.batchAdapter THEN "batch" ELSE "head"
    <3>1. "batch" \in Places /\ "head" \in Places
      BY PlacesAre
    <3> QED BY <2>1, <3>1
  <2>3. cur' \in [Tabs -> Ops \union {Null}]
    BY <2>1
  <2>4. InMode(t)' /\ AtHead(t)'
    BY <1>1, <2>2 DEF InMode, AtHead, LoopPlaces, BatchPlaces, Working
  <2>5. ResultsTrue(t)'
    <3>1. Results' = Results
      BY DEF Results
    <3> QED BY <1>1, <2>1, <2>2, <3>1, TurnedDownKept DEF ResultsTrue
  <2> QED BY <1>1, <2>1, <2>2, <2>3, <2>4, <2>5, ControlOnly DEF Open
<1> QED BY <1>2, <1>3

LEMMA SendBatchKeeps ==
  ASSUME NEW t, Context(t), SendBatch(t)
  PROVE  QueueInv'
<1> USE ContextIs
<1>1. /\ UNCHANGED <<ops, hist, stored, cur, news, retrying, loading, failures, fate>> /\ WorldKept
      /\ pc[t] = "ready" /\ setting.batchAdapter /\ pc' = [pc EXCEPT ![t] = "batchSent"]
      /\ batch' = [batch EXCEPT ![t] = [i \in DOMAIN ops[t] |-> ops[t][i].id]]
  BY Zenon DEF SendBatch, tabVars, Ask, WorldKept
<1>2. pc' \in [Tabs -> Places] /\ pc'[t] = "batchSent"
  <2>1. "batchSent" \in Places
    BY PlacesAre
  <2> QED BY <1>1, <2>1
<1>3. [i \in DOMAIN ops[t] |-> ops[t][i].id] \in Seq(Ops)
  <2>1. \A i \in DOMAIN ops[t] : ops[t][i] \in Operations(Ops)
    BY LenProperties, ElementOfSeq
  <2>2. \A i \in DOMAIN ops[t] : ops[t][i].id \in Ops
    BY <2>1 DEF Operations
  <2>3. Len(ops[t]) \in Nat /\ DOMAIN ops[t] = 1..Len(ops[t])
    BY LenProperties
  <2> QED BY <2>2, <2>3, SMT
<1>4. batch' \in [Tabs -> Seq(Ops) \union Seq(Results)] /\ batch'[t] \in Seq(Ops)
  BY <1>1, <1>3, Zenon
<1>5. InMode(t)' /\ AtHead(t)' /\ ResultsTrue(t)'
  BY <1>1, <1>2, <1>4 DEF InMode, AtHead, ResultsTrue, LoopPlaces, BatchPlaces, Working
<1> QED BY <1>1, <1>2, <1>4, <1>5, ControlOnly DEF Open

LEMMA ReceiveBatchKeeps ==
  ASSUME NEW t, Context(t), ReceiveBatch(t)
  PROVE  QueueInv'
<1> USE ContextIs
<1>1. /\ UNCHANGED <<ops, hist, stored, cur, news, retrying, loading, failures, fate>> /\ WorldKept
      /\ pc[t] = "batchSent" /\ pc' = [pc EXCEPT ![t] = "batch"]
  BY DEF ReceiveBatch, tabVars, worldVars, WorldKept
<1>2. pc' \in [Tabs -> Places] /\ pc'[t] = "batch"
  <2>1. "batch" \in Places
    BY PlacesAre
  <2> QED BY <1>1, <2>1
<1>3. batch[t] \in Seq(Ops)
  BY <1>1 DEF ResultsTrue
<1>4. PICK result :
        /\ \A o \in ToSet(batch[t]) : result[o] \in ResultsOf(o)
        /\ batch' = [batch EXCEPT ![t] = [i \in DOMAIN batch[t] |-> result[batch[t][i]]]]
  BY Zenon DEF ReceiveBatch
<1> DEFINE new == [i \in DOMAIN batch[t] |-> result[batch[t][i]]]
<1>5. ASSUME NEW i \in DOMAIN batch[t]
      PROVE  result[batch[t][i]] \in Results
             /\ (result[batch[t][i]].answer = "no" => TurnedDown(result[batch[t][i]].id))
  <2> DEFINE o == batch[t][i]
  <2>1. o \in Ops /\ o \in ToSet(batch[t])
    BY <1>3, LenProperties, ElementOfSeq DEF ToSet
  <2> HIDE DEF o
  <2>2. result[o] \in ResultsOf(o)
    BY <1>4, <2>1
  <2>3. PICK v \in verdicts[o] \union (IF verdicts[o] = {} \/ o \in repeated THEN {"retry"} ELSE {}) :
          result[o] = [id |-> o, answer |-> v]
    BY <2>2, Zenon DEF ResultsOf
  <2>4. verdicts[o] \in SUBSET {"ok", "no"}
    BY <2>1
  <2>5. result[o] \in Results /\ result[o].id = o /\ result[o].answer = v
    BY <2>1, <2>3, <2>4 DEF Results
  <2>6. v = "no" => TurnedDown(o)
    <3>1. SUFFICES ASSUME v = "no", o \notin repeated PROVE TurnedDown(o)
      BY <2>1, DoubtfulIs DEF TurnedDown
    <3>2. verdicts[o] # {} /\ "no" \in verdicts[o]
      BY <2>3, <3>1
    <3>3. verdicts[o] # {"ok", "no"}
      BY <2>1, <3>1 DEF Context, QueueInv, DecisionsInv
    <3>4. verdicts[o] = {"no"}
      BY <2>4, <3>2, <3>3
    <3> QED BY <3>4 DEF TurnedDown
  <2> QED BY <2>5, <2>6 DEF o
<1>6. new \in Seq(Results) /\ DOMAIN new = DOMAIN batch[t]
  <2>1. \A i \in DOMAIN batch[t] : result[batch[t][i]] \in Results
    BY <1>5
  <2>2. Len(batch[t]) \in Nat /\ DOMAIN batch[t] = 1..Len(batch[t])
    BY <1>3, LenProperties
  <2> QED BY <2>1, <2>2, SMT
<1>7. \A i \in DOMAIN new : new[i].answer = "no" => TurnedDown(new[i].id)
  BY <1>5, <1>6, Zenon
<1> HIDE DEF new
<1>8. batch' \in [Tabs -> Seq(Ops) \union Seq(Results)] /\ batch'[t] = new
  BY <1>1, <1>4, <1>6, Zenon DEF new
<1>9. InMode(t)' /\ AtHead(t)'
  BY <1>1, <1>2 DEF InMode, AtHead, LoopPlaces, BatchPlaces, Working
<1>10. ResultsTrue(t)'
  <2>1. Results' = Results
    BY DEF Results
  <2> QED BY <1>1, <1>2, <1>6, <1>7, <1>8, <2>1, TurnedDownKept DEF ResultsTrue
<1> QED BY <1>1, <1>2, <1>8, <1>9, <1>10, ControlOnly DEF Open

(* A step past the first of the results that are left.                     *)
LEMMA NextResultIs ==
  ASSUME NEW t, Context(t), pc[t] = "batch", batch[t] # <<>>,
         NEW place \in Places, place # "batchSent", NEW ok \in BOOLEAN,
         NextResult(t, place, ok), WorldKept
  PROVE  /\ pc' \in [Tabs -> Places] /\ pc'[t] = IF ok THEN place ELSE "ready"
         /\ cur' \in [Tabs -> Ops \union {Null}]
         /\ batch' \in [Tabs -> Seq(Ops) \union Seq(Results)]
         /\ ResultsTrue(t)'
         /\ Head(batch[t]).id \in Ops
         /\ Head(batch[t]).answer = "no" => TurnedDown(Head(batch[t]).id)
<1> USE ContextIs
<1>0. /\ batch[t] \in Seq(Results) /\ Results' = Results
      /\ \A i \in DOMAIN batch[t] : batch[t][i].answer = "no" => TurnedDown(batch[t][i].id)
  BY DEF ResultsTrue, Results
<1>1. /\ Tail(batch[t]) \in Seq(Results) /\ Head(batch[t]) \in Results
      /\ ToSet(batch[t]) = ToSet(Tail(batch[t])) \union {Head(batch[t])}
  BY <1>0, HeadIs, Zenon
<1>2. \A r \in ToSet(batch[t]) : r.answer = "no" => TurnedDown(r.id)
  BY <1>0, Zenon DEF ToSet
<1>3. Head(batch[t]).id \in Ops /\ (Head(batch[t]).answer = "no" => TurnedDown(Head(batch[t]).id))
  BY <1>1, <1>2 DEF Results
<1>4. \A i \in DOMAIN Tail(batch[t]) :
        Tail(batch[t])[i].answer = "no" => TurnedDown(Tail(batch[t])[i].id)
  <2>1. \A i \in DOMAIN Tail(batch[t]) : Tail(batch[t])[i] \in ToSet(batch[t])
    BY <1>1, Zenon DEF ToSet
  <2> QED BY <1>2, <2>1, Zenon
<1>5. CASE ~ok
  <2>1. Stop(t)
    BY <1>5 DEF NextResult
  <2>2. ResultsTrue(t)'
    BY <2>1, Stopped DEF ResultsTrue
  <2> QED BY <1>3, <1>5, <2>1, <2>2, Stopped
<1>6. CASE ok
  <2>1. /\ batch' = [batch EXCEPT ![t] = Tail(batch[t])] /\ pc' = [pc EXCEPT ![t] = place]
        /\ cur' = [cur EXCEPT ![t] = IF place = "batch" THEN Null ELSE Head(batch[t]).id]
    BY <1>6, Zenon DEF NextResult
  <2>2. pc' \in [Tabs -> Places] /\ pc'[t] = place /\ cur' \in [Tabs -> Ops \union {Null}]
    BY <1>3, <2>1, Zenon
  <2>3. batch' \in [Tabs -> Seq(Ops) \union Seq(Results)] /\ batch'[t] = Tail(batch[t])
    BY <1>1, <2>1, Zenon
  <2>4. ResultsTrue(t)'
    BY <1>0, <1>1, <1>4, <2>2, <2>3, TurnedDownKept DEF ResultsTrue
  <2> QED BY <1>3, <1>6, <2>2, <2>3, <2>4
<1> QED BY <1>5, <1>6

LEMMA IgnoreResultKeeps ==
  ASSUME NEW t, Context(t), IgnoreResult(t)
  PROVE  QueueInv'
<1> USE ContextIs
<1>1. /\ UNCHANGED <<ops, hist, stored, news, retrying, loading, failures, fate>> /\ WorldKept
      /\ pc[t] = "batch" /\ batch[t] # <<>> /\ NextResult(t, "batch", TRUE)
  BY DEF IgnoreResult, tabVars, worldVars, WorldKept
<1>2. /\ pc' \in [Tabs -> Places] /\ pc'[t] = "batch" /\ cur' \in [Tabs -> Ops \union {Null}]
      /\ batch' \in [Tabs -> Seq(Ops) \union Seq(Results)] /\ ResultsTrue(t)'
  <2>1. "batch" \in Places
    BY PlacesAre
  <2> QED BY <1>1, <2>1, NextResultIs
<1>3. InMode(t)' /\ AtHead(t)'
  BY <1>1, <1>2 DEF InMode, AtHead, LoopPlaces, BatchPlaces, Working
<1> QED BY <1>1, <1>2, <1>3, ControlOnly DEF Open

-----------------------------------------------------------------------------
(* Steps that save the operations.                                         *)

Fates == {"new", "queued", "failed", "retried", "accepted", "rejected", "dropped"}

LEMMA OpsStep ==
  ASSUME NEW t, Context(t), NEW ok \in BOOLEAN, NEW more \in SUBSET Ops,
         Open(t), UNCHANGED <<hist, retrying, loading>>, WorldKept,
         ops' \in [Tabs -> Seq(Operations(Ops))],
         stored' \in [ops : Seq(Operations(Ops)), hist : Seq(Ops)],
         stored'.hist = stored.hist, stored'.ops = IF ok THEN ops'[t] ELSE stored.ops,
         news' = news, failures' \in Nat,
         pc' \in [Tabs -> Places], cur' \in [Tabs -> Ops \union {Null}],
         batch' \in [Tabs -> Seq(Ops) \union Seq(Results)],
         InMode(t)', AtHead(t)', ResultsTrue(t)', Open(t)',
         fate' \in [Ops -> Fates],
         \A o \in Ops : Owed(o)' => Owed(o) \/ (ok /\ o \in Ids(ops'[t])),
         \A o \in Ops : Owed(o)' /\ o \in Ids(ops[t]) => o \in Ids(ops'[t]),
         setting.batchAdapter => \A o \in Ops : fate'[o] = "rejected" => fate[o] = "rejected",
         \A o \in more : TurnedDown(o),
         RejectedIn(ops'[t]) \subseteq RejectedIn(ops[t]) \union more
  PROVE  QueueInv'
<1> USE ContextIs
<1>1. Retained(t)'
  <2>1. stored'.ops = stored.ops \/ (stored'.ops = ops'[t] /\ Open(t)')
    OBVIOUS
  <2>2. \A o \in Ops : Owed(o)' => Owed(o) \/ (o \in Ids(ops'[t]) /\ stored'.ops = ops'[t])
    OBVIOUS
  <2> QED BY <2>1, <2>2, RetainedKept
<1>2. Recorded(t)'
  BY RecordedKept
<1>3. RejectedAreDoomed(t)'
  <2>1. RejectedIn(ops'[t]) \subseteq RejectedIn(ops[t]) \union RejectedIn(stored.ops) \union more
    OBVIOUS
  <2>2. RejectedIn(stored'.ops) \subseteq RejectedIn(ops[t]) \union RejectedIn(stored.ops) \union more
    BY <2>1
  <2>3. /\ ToSet(hist'[t]) \subseteq ToSet(hist[t]) \union ToSet(stored.hist) \union more
        /\ ToSet(stored'.hist) \subseteq ToSet(hist[t]) \union ToSet(stored.hist) \union more
    OBVIOUS
  <2> QED BY <2>1, <2>2, <2>3, DoomedKept
<1>4. hist' \in [Tabs -> Seq(Ops)] /\ verdicts' \in [Ops -> SUBSET {"ok", "no"}]
  BY DEF Context, QueueInv, Shape, WorldKept
<1> QED BY <1>1, <1>2, <1>3, <1>4, ClosedKept, Assembled DEF Fates

LEMMA FatesAre ==
  ASSUME NEW t, Context(t)
  PROVE  /\ fate \in [Ops -> Fates]
         /\ \A o \in Ops, f \in Fates : [fate EXCEPT ![o] = f] \in [Ops -> Fates]
<1>1. fate \in [Ops -> Fates]
  BY DEF Context, QueueInv, Shape, Fates
<1> QED BY <1>1, Zenon

LEMMA EnqueueKeeps ==
  ASSUME NEW t, Context(t), NEW o \in Ops, NEW ok \in BOOLEAN, Enqueue(t, o, ok)
  PROVE  QueueInv'
<1> USE ContextIs
<1> DEFINE new == Append(ops[t], Pending(o))
<1>1. /\ UNCHANGED <<hist, pc, cur, batch, retrying, loading>> /\ WorldKept /\ fate[o] \in {"new", "failed"}
      /\ SaveOps(t, new, ok) /\ fate' = [fate EXCEPT ![o] = IF ok THEN "queued" ELSE "failed"]
      /\ pc[t] = "ready" \/ (setting.directUse /\ Open(t))
  BY DEF Enqueue, ClientIdle, loopVars, worldVars, WorldKept
<1>2. /\ new \in Seq(Operations(Ops)) /\ new # <<>> /\ Ids(new) = Ids(ops[t]) \union {o}
      /\ RejectedIn(new) \subseteq RejectedIn(ops[t])
  BY AppendIs
<1> HIDE DEF new
<1>3. /\ ops' \in [Tabs -> Seq(Operations(Ops))] /\ ops'[t] = new
      /\ stored' \in [ops : Seq(Operations(Ops)), hist : Seq(Ops)]
      /\ stored'.hist = stored.hist /\ stored'.ops = IF ok THEN new ELSE stored.ops
      /\ news' = news /\ failures' \in Nat
  BY <1>1, <1>2, OpsSaved
<1>4. Open(t) /\ Open(t)' /\ pc[t] \notin Working
  BY <1>1 DEF Open, Working, InMode, LoopPlaces, Context
<1>5. InMode(t)' /\ AtHead(t)' /\ ResultsTrue(t)'
  <2>1. Results' = Results
    BY DEF Results
  <2>2. pc[t] # "answered" /\ pc[t] # "shift"
    BY <1>4 DEF Working
  <2> QED BY <1>1, <1>3, <1>4, <2>1, <2>2, TurnedDownKept DEF InMode, Open, AtHead, ResultsTrue
<1>6. fate' \in [Ops -> Fates] /\ fate'[o] = (IF ok THEN "queued" ELSE "failed")
      /\ \A p \in Ops : p # o => fate'[p] = fate[p]
  BY <1>1, FatesAre DEF Fates
<1>7. \A p \in Ops : Owed(p)' => Owed(p) \/ (ok /\ p = o)
  BY <1>6 DEF Owed
<1>8. {} \in SUBSET Ops /\ \A p \in {} : TurnedDown(p)
  OBVIOUS
<1>9. \A p \in Ops : fate'[p] = "rejected" => fate[p] = "rejected"
  BY <1>6
<1> QED BY <1>1, <1>2, <1>3, <1>4, <1>5, <1>6, <1>7, <1>8, <1>9, OpsStep

LEMMA ClearKeeps ==
  ASSUME NEW t, Context(t), NEW ok \in BOOLEAN, Clear(t, ok)
  PROVE  QueueInv'
<1> USE ContextIs
<1>1. /\ UNCHANGED <<hist, pc, cur, batch, retrying, loading>> /\ WorldKept
      /\ SaveOps(t, <<>>, ok) /\ Drop(Ids(ops[t]), {"queued", "retried"})
      /\ setting.batchAdapter /\ Open(t)
  BY DEF Clear, Context, loopVars, worldVars, WorldKept
<1>2. <<>> \in Seq(Operations(Ops)) /\ RejectedIn(<<>>) = {}
  BY DEF RejectedIn, ToSet
<1>3. /\ ops' \in [Tabs -> Seq(Operations(Ops))] /\ ops'[t] = <<>>
      /\ stored' \in [ops : Seq(Operations(Ops)), hist : Seq(Ops)]
      /\ stored'.hist = stored.hist /\ stored'.ops = IF ok THEN <<>> ELSE stored.ops
      /\ news' = news /\ failures' \in Nat
  BY <1>1, <1>2, OpsSaved
<1>4. Open(t)' /\ pc[t] \notin Working /\ pc[t] # "answered" /\ pc[t] # "shift"
  BY <1>1 DEF Open, Working, InMode, LoopPlaces
<1>5. InMode(t)' /\ AtHead(t)' /\ ResultsTrue(t)'
  <2>1. Results' = Results
    BY DEF Results
  <2> QED BY <1>1, <1>3, <1>4, <2>1, TurnedDownKept DEF InMode, Open, AtHead, ResultsTrue
<1>6. /\ fate' \in [Ops -> Fates]
      /\ \A o \in Ops : fate'[o] = IF o \in Ids(ops[t]) /\ fate[o] \in {"queued", "retried"}
                                   THEN "dropped" ELSE fate[o]
  BY <1>1, FatesAre, Zenon DEF Drop, Fates
<1>7. \A o \in Ops : Owed(o)' => Owed(o) /\ o \notin Ids(ops[t])
  BY <1>6 DEF Owed
<1>8. {} \in SUBSET Ops /\ \A p \in {} : TurnedDown(p)
  OBVIOUS
<1>9. \A p \in Ops : fate'[p] = "rejected" => fate[p] = "rejected"
  BY <1>6
<1> QED BY <1>1, <1>2, <1>3, <1>4, <1>5, <1>6, <1>7, <1>8, <1>9, OpsStep

(* The loop works on the head, and no batch is under way.                  *)
LEMMA WorkingIs ==
  ASSUME NEW t, Context(t), pc[t] \in Working
  PROVE  /\ ~setting.batchAdapter /\ Open(t) /\ pc[t] # "batchSent"
         /\ ops[t] # <<>> /\ Head(ops[t]).id = cur[t] /\ cur[t] \in Ops
  BY ContextIs DEF InMode, AtHead, Working, LoopPlaces, Open

LEMMA ResultsKept ==
  ASSUME NEW t, Context(t), WorldKept, pc[t] # "batchSent", pc'[t] # "batchSent",
         batch'[t] = <<>> \/ batch'[t] = batch[t]
  PROVE  ResultsTrue(t)'
<1>1. /\ batch[t] \in Seq(Results)
      /\ \A i \in DOMAIN batch[t] : batch[t][i].answer = "no" => TurnedDown(batch[t][i].id)
  BY ContextIs DEF ResultsTrue
<1>2. Results' = Results
  BY ContextIs DEF Results
<1>3. CASE batch'[t] = <<>>
  <2>1. <<>> \in Seq(Results')
    BY SMT
  <2>2. \A i \in DOMAIN batch'[t] : FALSE
    BY <1>3, SMT
  <2> QED BY <1>3, <2>1, <2>2, Zenon DEF ResultsTrue
<1>4. CASE batch'[t] = batch[t]
  BY <1>1, <1>2, <1>4, TurnedDownKept, Zenon DEF ResultsTrue
<1> QED BY <1>3, <1>4

(* A step of the loop that leaves the rejections of the history alone.     *)
LEMMA WorkingStep ==
  ASSUME NEW t, Context(t), NEW ok \in BOOLEAN, NEW more \in SUBSET Ops,
         pc[t] \in Working, UNCHANGED <<hist, retrying, loading>>, WorldKept,
         ops' \in [Tabs -> Seq(Operations(Ops))],
         stored' \in [ops : Seq(Operations(Ops)), hist : Seq(Ops)],
         stored'.hist = stored.hist, stored'.ops = IF ok THEN ops'[t] ELSE stored.ops,
         news' = news, failures' \in Nat,
         pc' \in [Tabs -> Places], cur' \in [Tabs -> Ops \union {Null}],
         batch' \in [Tabs -> Seq(Ops) \union Seq(Results)],
         batch'[t] = <<>> \/ batch'[t] = batch[t],
         pc'[t] \notin BatchPlaces, Open(t)', AtHead(t)',
         fate' \in [Ops -> Fates],
         \A o \in Ops : Owed(o)' => Owed(o),
         \A o \in Ops : Owed(o)' /\ o \in Ids(ops[t]) => o \in Ids(ops'[t]),
         \A o \in more : TurnedDown(o),
         RejectedIn(ops'[t]) \subseteq RejectedIn(ops[t]) \union more
  PROVE  QueueInv'
<1>1. ~setting.batchAdapter /\ Open(t) /\ pc[t] # "batchSent" /\ setting' = setting /\ ~news[t]
  BY WorkingIs, ContextIs
<1>2. InMode(t)'
  BY <1>1 DEF InMode, Open
<1>3. pc'[t] # "batchSent"
  BY DEF BatchPlaces
<1>4. ResultsTrue(t)'
  BY <1>1, <1>3, ResultsKept
<1>5. \A o \in Ops : Owed(o)' => Owed(o) \/ (ok /\ o \in Ids(ops'[t]))
  OBVIOUS
<1> QED BY <1>1, <1>2, <1>4, <1>5, OpsStep

(* Send, ReceiveRetryable and GiveUp.                                      *)
LEMMA StatusStepKeeps ==
  ASSUME NEW t, Context(t), NEW ok \in BOOLEAN, pc[t] \in Working,
         NEW status \in Statuses \ {"REJECTED_PERMANENT"}, SetHead(t, status, ok),
         Stop(t) \/ GoTo(t, "sending", ok) \/ GoTo(t, "deferred", ok),
         UNCHANGED <<hist, retrying, loading, fate>>, WorldKept
  PROVE  QueueInv'
<1>0. /\ ops[t] # <<>> /\ Head(ops[t]).id = cur[t] /\ cur[t] \in Ops
      /\ Ops' = Ops /\ setting' = setting
  BY WorkingIs, ContextIs
<1>1. /\ ops' \in [Tabs -> Seq(Operations(Ops))]
      /\ stored' \in [ops : Seq(Operations(Ops)), hist : Seq(Ops)]
      /\ stored'.hist = stored.hist /\ stored'.ops = IF ok THEN ops'[t] ELSE stored.ops
      /\ news' = news /\ failures' \in Nat
      /\ ops'[t] # <<>> /\ Head(ops'[t]).id = Head(ops[t]).id /\ Ids(ops'[t]) = Ids(ops[t])
      /\ RejectedIn(ops'[t]) \subseteq RejectedIn(ops[t])
  <2>1. status \in Statuses /\ status # "REJECTED_PERMANENT"
    OBVIOUS
  <2> QED BY <1>0, <2>1, HeadSaved
<1>2. "sending" \in Places /\ "deferred" \in Places
  BY PlacesAre
<1>3. /\ pc' \in [Tabs -> Places] /\ cur' \in [Tabs -> Ops \union {Null}]
      /\ batch' \in [Tabs -> Seq(Ops) \union Seq(Results)]
      /\ batch'[t] = <<>> \/ batch'[t] = batch[t]
      /\ pc'[t] = "ready" \/ (pc'[t] \in {"sending", "deferred"} /\ cur' = cur)
  <2>1. CASE Stop(t)
    BY <2>1, Stopped
  <2>2. CASE GoTo(t, "sending", ok)
    BY <1>2, <2>2, Went
  <2>3. CASE GoTo(t, "deferred", ok)
    BY <1>2, <2>3, Went
  <2> QED BY <2>1, <2>2, <2>3
<1>4. AtHead(t)' /\ Open(t)' /\ pc'[t] \notin BatchPlaces
  BY <1>0, <1>1, <1>3 DEF AtHead, Open, Working, BatchPlaces
<1>5. fate' \in [Ops -> Fates]
  BY FatesAre
<1>6. \A o \in Ops : Owed(o)' => Owed(o)
  BY <1>0 DEF Owed
<1>7. {} \in SUBSET Ops /\ \A p \in {} : TurnedDown(p)
  OBVIOUS
<1>8. RejectedIn(ops'[t]) \subseteq RejectedIn(ops[t]) \union {}
  BY <1>1
<1> QED BY <1>1, <1>3, <1>4, <1>5, <1>6, <1>7, <1>8, WorkingStep

LEMMA SendKeeps ==
  ASSUME NEW t, Context(t), NEW ok \in BOOLEAN, Send(t, ok) \/ ReceiveRetryable(t, ok) \/ GiveUp(t, ok)
  PROVE  QueueInv'
<1>1. pc[t] \in Working /\ UNCHANGED <<hist, retrying, loading, fate>> /\ WorldKept
  BY Zenon DEF Send, ReceiveRetryable, GiveUp, Working, worldVars, Ask, WorldKept
<1>2. /\ Stop(t) \/ GoTo(t, "sending", ok) \/ GoTo(t, "deferred", ok)
      /\ \E status \in Statuses \ {"REJECTED_PERMANENT"} : SetHead(t, status, ok)
  BY Zenon DEF Send, ReceiveRetryable, GiveUp, Statuses
<1> QED BY <1>1, <1>2, StatusStepKeeps

LEMMA ReceiveFinalKeeps ==
  ASSUME NEW t, Context(t), NEW ok \in BOOLEAN, ReceiveFinal(t, ok)
  PROVE  QueueInv'
<1>0. pc[t] \in Working
  BY DEF ReceiveFinal, Working
<1>1. /\ ops[t] # <<>> /\ Head(ops[t]).id = cur[t] /\ cur[t] \in Ops
      /\ Ops' = Ops /\ setting' = setting /\ verdicts \in [Ops -> SUBSET {"ok", "no"}]
      /\ ~setting.batchAdapter
  BY <1>0, WorkingIs, ContextIs
<1>2. PICK status \in Statuses, f \in Fates, place \in {"shift", "answered"} :
        /\ SetHead(t, status, ok) /\ GoTo(t, place, ok) /\ fate' = [fate EXCEPT ![cur[t]] = f]
        /\ f \in {"accepted", "rejected"}
        /\ (status = "REJECTED_PERMANENT" => TurnedDown(cur[t]))
        /\ (place = "answered" => TurnedDown(cur[t]))
  <2>1. PICK v \in verdicts[cur[t]] :
          /\ SetHead(t, IF v = "ok" THEN "ACCEPTED" ELSE "REJECTED_PERMANENT", ok)
          /\ fate' = [fate EXCEPT ![cur[t]] = IF v = "ok" THEN "accepted" ELSE "rejected"]
          /\ GoTo(t, IF v = "ok" THEN "shift" ELSE "answered", ok)
    BY Zenon DEF ReceiveFinal
  <2>2. CASE v = "ok"
    BY <2>1, <2>2 DEF Statuses, Fates
  <2>3. CASE v # "ok"
    <3>1. v = "no" /\ verdicts[cur[t]] \in SUBSET {"ok", "no"}
      BY <1>1, <2>3
    <3>2. TurnedDown(cur[t])
      <4>1. cur[t] \in repeated => cur[t] \in Doubtful
        BY <1>1, DoubtfulIs
      <4>2. verdicts[cur[t]] = {"ok", "no"} => cur[t] \in repeated
        BY <1>1 DEF Context, QueueInv, DecisionsInv
      <4>3. verdicts[cur[t]] = {"no"} \/ verdicts[cur[t]] = {"ok", "no"}
        BY <3>1
      <4> QED BY <4>1, <4>2, <4>3 DEF TurnedDown
    <3> QED BY <2>1, <2>3, <3>2 DEF Statuses, Fates
  <2> QED BY <2>2, <2>3
<1>3. UNCHANGED <<hist, retrying, loading>> /\ WorldKept
  BY DEF ReceiveFinal, worldVars, WorldKept
<1> DEFINE more == IF status = "REJECTED_PERMANENT" THEN {Head(ops[t]).id} ELSE {}
<1>4. /\ ops' \in [Tabs -> Seq(Operations(Ops))]
      /\ stored' \in [ops : Seq(Operations(Ops)), hist : Seq(Ops)]
      /\ stored'.hist = stored.hist /\ stored'.ops = IF ok THEN ops'[t] ELSE stored.ops
      /\ news' = news /\ failures' \in Nat
      /\ ops'[t] # <<>> /\ Head(ops'[t]).id = Head(ops[t]).id /\ Ids(ops'[t]) = Ids(ops[t])
      /\ RejectedIn(ops'[t]) \subseteq RejectedIn(ops[t]) \union more
  BY <1>1, <1>2, HeadSaved
<1>5. more \in SUBSET Ops /\ \A p \in more : TurnedDown(p)
  BY <1>1, <1>2
<1> HIDE DEF more
<1>6. /\ pc' \in [Tabs -> Places] /\ pc'[t] = (IF ok THEN place ELSE "ready")
      /\ cur' \in [Tabs -> Ops \union {Null}] /\ (ok => cur' = cur)
      /\ batch' \in [Tabs -> Seq(Ops) \union Seq(Results)]
      /\ batch'[t] = IF ok THEN batch[t] ELSE <<>>
  <2>1. place \in Places
    BY PlacesAre
  <2> QED BY <1>2, <2>1, Went
<1>7. /\ fate' \in [Ops -> Fates] /\ fate'[cur[t]] = f
      /\ \A o \in Ops : o # cur[t] => fate'[o] = fate[o]
  <2>1. fate \in [Ops -> Fates]
    BY FatesAre
  <2> QED BY <1>1, <1>2, <2>1
<1>8. AtHead(t)' /\ Open(t)' /\ pc'[t] \notin BatchPlaces
  <2>1. CASE ok
    <3>1. pc'[t] = place /\ cur'[t] = cur[t]
      BY <1>6, <2>1
    <3>2. fate'[cur'[t]] \notin {"new", "queued"} /\ (place = "answered" => TurnedDown(cur[t])')
      BY <1>2, <1>3, <1>7, <3>1, TurnedDownKept
    <3>3. AtHead(t)'
      BY <1>1, <1>4, <3>1, <3>2 DEF AtHead
    <3> QED BY <3>1, <3>3 DEF Open, BatchPlaces
  <2>2. CASE ~ok
    BY <1>6, <2>2 DEF AtHead, Open, Working, BatchPlaces
  <2> QED BY <2>1, <2>2
<1>9. batch'[t] = <<>> \/ batch'[t] = batch[t]
  BY <1>6
<1>10. \A o \in Ops : Owed(o)' => Owed(o)
  BY <1>1, <1>2, <1>7 DEF Owed
<1> QED BY <1>0, <1>3, <1>4, <1>5, <1>6, <1>7, <1>8, <1>9, <1>10, WorkingStep

LEMMA RemoveHeadKeeps ==
  ASSUME NEW t, Context(t), NEW ok \in BOOLEAN, RemoveHead(t, ok)
  PROVE  QueueInv'
<1>0. pc[t] = "shift" /\ pc[t] \in Working
  BY DEF RemoveHead, Working
<1>1. /\ ops[t] # <<>> /\ Head(ops[t]).id = cur[t] /\ cur[t] \in Ops
      /\ Ops' = Ops /\ setting' = setting /\ ~setting.batchAdapter
      /\ ops[t] \in Seq(Operations(Ops)) /\ AtHead(t)
  BY <1>0, WorkingIs, ContextIs
<1>2. /\ SaveOps(t, Tail(ops[t]), ok) /\ GoTo(t, "notify", ok)
      /\ UNCHANGED <<hist, retrying, loading, fate>> /\ WorldKept
  BY <1>1 DEF RemoveHead, DropHead, worldVars, WorldKept
<1>3. /\ Tail(ops[t]) \in Seq(Operations(Ops))
      /\ Ids(ops[t]) = Ids(Tail(ops[t])) \union {Head(ops[t]).id}
      /\ RejectedIn(Tail(ops[t])) \subseteq RejectedIn(ops[t])
  BY <1>1, TailIs
<1>4. /\ ops' \in [Tabs -> Seq(Operations(Ops))] /\ ops'[t] = Tail(ops[t])
      /\ stored' \in [ops : Seq(Operations(Ops)), hist : Seq(Ops)]
      /\ stored'.hist = stored.hist /\ stored'.ops = IF ok THEN Tail(ops[t]) ELSE stored.ops
      /\ news' = news /\ failures' \in Nat
  BY <1>2, <1>3, OpsSaved
<1>5. /\ pc' \in [Tabs -> Places] /\ pc'[t] = (IF ok THEN "notify" ELSE "ready")
      /\ cur' \in [Tabs -> Ops \union {Null}]
      /\ batch' \in [Tabs -> Seq(Ops) \union Seq(Results)]
      /\ batch'[t] = IF ok THEN batch[t] ELSE <<>>
  <2>1. "notify" \in Places
    BY PlacesAre
  <2> QED BY <1>2, <2>1, Went
<1>6. AtHead(t)' /\ Open(t)' /\ pc'[t] \notin BatchPlaces
  BY <1>5 DEF AtHead, Open, Working, BatchPlaces
<1>7. \A o \in Ops : Owed(o)' => Owed(o) /\ o # cur[t]
  <2>1. fate[cur[t]] # "queued"
    BY <1>0, <1>1 DEF AtHead
  <2> QED BY <1>1, <1>2, <2>1 DEF Owed
<1>8. \A o \in Ops : Owed(o)' /\ o \in Ids(ops[t]) => o \in Ids(ops'[t])
  BY <1>1, <1>3, <1>4, <1>7
<1>9. {} \in SUBSET Ops /\ \A p \in {} : TurnedDown(p)
  OBVIOUS
<1>10. RejectedIn(ops'[t]) \subseteq RejectedIn(ops[t]) \union {}
  BY <1>3, <1>4
<1>11. fate' \in [Ops -> Fates] /\ (batch'[t] = <<>> \/ batch'[t] = batch[t])
  BY <1>2, <1>5, FatesAre
<1>12. stored'.ops = IF ok THEN ops'[t] ELSE stored.ops
  BY <1>4
<1>13. \A o \in Ops : Owed(o)' => Owed(o)
  BY <1>7
<1> QED BY <1>0, <1>2, <1>4, <1>5, <1>6, <1>8, <1>9, <1>10, <1>11, <1>12, <1>13, WorkingStep

-----------------------------------------------------------------------------
(* Steps that save the history, or both.                                   *)

LEMMA SavedStep ==
  ASSUME NEW t, Context(t), NEW more \in SUBSET Ops, loading' = loading, WorldKept,
         retrying' \in [Tabs -> Ops \union {Null}],
         ops' \in [Tabs -> Seq(Operations(Ops))], hist' \in [Tabs -> Seq(Ops)],
         stored' \in [ops : Seq(Operations(Ops)), hist : Seq(Ops)],
         news' = news, failures' \in Nat,
         pc' \in [Tabs -> Places], cur' \in [Tabs -> Ops \union {Null}],
         batch' \in [Tabs -> Seq(Ops) \union Seq(Results)],
         InMode(t)', AtHead(t)', ResultsTrue(t)', Retained(t)', Recorded(t)',
         fate' \in [Ops -> Fates],
         \A o \in more : TurnedDown(o),
         RejectedIn(ops'[t]) \subseteq RejectedIn(ops[t]) \union RejectedIn(stored.ops),
         RejectedIn(stored'.ops) \subseteq RejectedIn(ops[t]) \union RejectedIn(stored.ops),
         ToSet(hist'[t]) \subseteq ToSet(hist[t]) \union ToSet(stored.hist) \union more,
         ToSet(stored'.hist) \subseteq ToSet(hist[t]) \union ToSet(stored.hist) \union more
  PROVE  QueueInv'
<1>1. RejectedAreDoomed(t)'
  <2>1. RejectedIn(ops'[t]) \subseteq RejectedIn(ops[t]) \union RejectedIn(stored.ops) \union more
    OBVIOUS
  <2>2. RejectedIn(stored'.ops) \subseteq RejectedIn(ops[t]) \union RejectedIn(stored.ops) \union more
    OBVIOUS
  <2> QED BY <2>1, <2>2, DoomedKept
<1>2. verdicts' \in [Ops -> SUBSET {"ok", "no"}]
  BY ContextIs DEF WorldKept
<1>3. DecisionsInv'
  BY ClosedKept
<1> QED BY <1>1, <1>2, <1>3, Assembled DEF Fates

(* Beside the loop that is synchronizing operation by operation.           *)
LEMMA RetainedSame ==
  ASSUME NEW t, Context(t), Open(t), stored'.ops = stored.ops, Ids(ops'[t]) = Ids(ops[t]),
         fate' = fate
  PROVE  Retained(t)'
<1>1. \A o \in Ops : Owed(o)' => Owed(o)
  BY ContextIs DEF Owed
<1> QED BY <1>1, RetainedKept

(* SaveSkipped and RecordRejection.                                        *)
LEMMA HistoryStepKeeps ==
  ASSUME NEW t, Context(t), NEW ok \in BOOLEAN, NEW new \in Seq(Ops), NEW place \in {"shift", "notify"},
         pc[t] \in LoopPlaces, SaveHist(t, new, ok), GoTo(t, place, ok),
         place = "shift" => pc[t] = "answered",
         NEW more \in SUBSET Ops, \A o \in more : TurnedDown(o),
         ToSet(new) = ToSet(hist[t]) \union more,
         UNCHANGED <<ops, retrying, loading, fate>>, WorldKept
  PROVE  QueueInv'
<1>1. /\ ~setting.batchAdapter /\ pc[t] # "batchSent" /\ Open(t)
      /\ Ops' = Ops /\ setting' = setting /\ AtHead(t) /\ ~news[t]
      /\ ops \in [Tabs -> Seq(Operations(Ops))]
  BY ContextIs DEF InMode, LoopPlaces, Open, Context, QueueInv, Shape
<1>2. /\ hist' \in [Tabs -> Seq(Ops)] /\ hist'[t] = new
      /\ stored' \in [ops : Seq(Operations(Ops)), hist : Seq(Ops)]
      /\ stored'.ops = stored.ops /\ stored'.hist = (IF ok THEN new ELSE stored.hist)
      /\ news' = news /\ failures' \in Nat
  BY HistSaved
<1>3. /\ pc' \in [Tabs -> Places] /\ pc'[t] = (IF ok THEN place ELSE "ready")
      /\ cur' \in [Tabs -> Ops \union {Null}] /\ (ok => cur' = cur)
      /\ batch' \in [Tabs -> Seq(Ops) \union Seq(Results)]
      /\ batch'[t] = IF ok THEN batch[t] ELSE <<>>
  <2>1. place \in Places
    BY PlacesAre
  <2> QED BY <2>1, Went
<1>4. InMode(t)' /\ AtHead(t)'
  BY <1>1, <1>2, <1>3 DEF InMode, AtHead, Working, BatchPlaces
<1>5. ResultsTrue(t)'
  <2>1. pc'[t] # "batchSent" /\ (batch'[t] = <<>> \/ batch'[t] = batch[t])
    BY <1>3
  <2> QED BY <1>1, <2>1, ResultsKept
<1>6. Retained(t)'
  BY <1>1, <1>2, RetainedSame
<1>7. Recorded(t)'
  BY <1>1 DEF Recorded
<1>8. fate' \in [Ops -> Fates]
  BY FatesAre
<1>9. /\ ToSet(hist'[t]) \subseteq ToSet(hist[t]) \union ToSet(stored.hist) \union more
      /\ ToSet(stored'.hist) \subseteq ToSet(hist[t]) \union ToSet(stored.hist) \union more
  BY <1>2
<1>10. /\ RejectedIn(ops'[t]) \subseteq RejectedIn(ops[t]) \union RejectedIn(stored.ops)
       /\ RejectedIn(stored'.ops) \subseteq RejectedIn(ops[t]) \union RejectedIn(stored.ops)
  BY <1>2
<1> QED BY RetryingSame, <1>1, <1>2, <1>3, <1>4, <1>5, <1>6, <1>7, <1>8, <1>9, <1>10, SavedStep

LEMMA RecordKeeps ==
  ASSUME NEW t, Context(t), NEW ok \in BOOLEAN, SaveSkipped(t, ok) \/ RecordRejection(t, ok)
  PROVE  QueueInv'
<1>1. CASE SaveSkipped(t, ok)
  <2>1. /\ SaveHist(t, hist[t], ok) /\ GoTo(t, "notify", ok) /\ pc[t] = "skipped"
        /\ UNCHANGED <<ops, retrying, loading, fate>> /\ WorldKept
    BY <1>1 DEF SaveSkipped, worldVars, WorldKept
  <2>2. hist[t] \in Seq(Ops) /\ pc[t] \in LoopPlaces
    BY <2>1, ContextIs DEF LoopPlaces
  <2>3. /\ {} \in SUBSET Ops /\ \A o \in {} : TurnedDown(o)
        /\ ToSet(hist[t]) = ToSet(hist[t]) \union {}
    OBVIOUS
  <2> QED BY <2>1, <2>2, <2>3, HistoryStepKeeps
<1>2. CASE RecordRejection(t, ok)
  <2>1. /\ SaveHist(t, Append(hist[t], cur[t]), ok) /\ GoTo(t, "shift", ok) /\ pc[t] = "answered"
        /\ UNCHANGED <<ops, retrying, loading, fate>> /\ WorldKept
    BY <1>2 DEF RecordRejection, worldVars, WorldKept
  <2>2. pc[t] \in LoopPlaces /\ pc[t] \in Working
    BY <2>1 DEF LoopPlaces, Working
  <2>3. cur[t] \in Ops /\ TurnedDown(cur[t])
    BY <2>1, <2>2, ContextIs DEF AtHead
  <2>4. /\ Append(hist[t], cur[t]) \in Seq(Ops)
        /\ ToSet(Append(hist[t], cur[t])) = ToSet(hist[t]) \union {cur[t]}
    BY <2>3, ContextIs, HistoryAppendIs
  <2>5. {cur[t]} \in SUBSET Ops /\ \A o \in {cur[t]} : TurnedDown(o)
    BY <2>3
  <2> QED BY <2>1, <2>2, <2>4, <2>5, HistoryStepKeeps
<1> QED BY <1>1, <1>2

(* #rejectFailedPrerequisite: what needs a doomed operation is doomed.     *)
LEMMA SkippedIsDoomed ==
  ASSUME NEW t, Context(t), NEW o \in Ops, PrerequisiteFailed(t, o)
  PROVE  \E doomed \in SUBSET Ops : Doomed(doomed) /\ RejectionsIn(t, doomed) /\ o \in doomed
<1>1. PICK doomed \in SUBSET Ops : Doomed(doomed) /\ RejectionsIn(t, doomed)
  BY ContextIs DEF RejectedAreDoomed
<1>2. FailedOps(t) \subseteq doomed
  BY <1>1, Zenon DEF FailedOps, RejectionsIn, RejectedIn
<1>3. PICK r \in setting.requires[o] : r \in doomed
  BY <1>2 DEF PrerequisiteFailed
<1>4. TurnedDown(o) \/ verdicts[o] = {}
  <2>1. SUFFICES ASSUME o \notin Doubtful PROVE verdicts[o] = {"no"} \/ verdicts[o] = {}
    BY DEF TurnedDown
  <2>2. r \in Ops /\ o \notin repeated /\ r \notin Doubtful /\ r \notin setting.elsewhere
    BY <1>3, <2>1, DoubtfulIs, ContextIs
  <2>3. "ok" \notin verdicts[r]
    BY <1>1, <1>3, <2>2 DEF Doomed, TurnedDown
  <2>4. "ok" \notin verdicts[o]
    BY <1>3, <2>2, <2>3 DEF Context, QueueInv, DecisionsInv
  <2>5. verdicts[o] \in SUBSET {"ok", "no"}
    BY ContextIs
  <2> QED BY <2>4, <2>5
<1> DEFINE all == doomed \union {o}
<1>6. Doomed(all)
  BY <1>1, <1>3, <1>4, Zenon DEF Doomed
<1>5. RejectionsIn(t, all)
  BY <1>1, Zenon DEF RejectionsIn
<1> QED BY <1>5, <1>6

LEMMA SkipHeadKeeps ==
  ASSUME NEW t, Context(t), NEW ok \in BOOLEAN, SkipHead(t, ok)
  PROVE  QueueInv'
<1> DEFINE o == Head(ops[t]).id
<1>1. /\ pc[t] = "head" /\ ops[t] # <<>> /\ PrerequisiteFailed(t, o)
      /\ hist' = [hist EXCEPT ![t] = Append(hist[t], o)]
      /\ fate' = [fate EXCEPT ![o] = "rejected"] /\ SaveOps(t, Tail(ops[t]), ok)
      /\ UNCHANGED <<retrying, loading>> /\ WorldKept
      /\ IF ok THEN /\ cur' = [cur EXCEPT ![t] = o]
                    /\ pc' = [pc EXCEPT ![t] = "skipped"] /\ UNCHANGED <<attempt, batch>>
               ELSE Stop(t)
  BY DEF SkipHead, worldVars, WorldKept
<1>2. /\ Ops' = Ops /\ setting' = setting /\ t \in Tabs /\ ~news[t] /\ InMode(t)
      /\ ops[t] \in Seq(Operations(Ops)) /\ hist[t] \in Seq(Ops) /\ hist \in [Tabs -> Seq(Ops)]
      /\ pc \in [Tabs -> Places] /\ cur \in [Tabs -> Ops \union {Null}]
      /\ batch \in [Tabs -> Seq(Ops) \union Seq(Results)]
      /\ verdicts \in [Ops -> SUBSET {"ok", "no"}]
  BY ContextIs DEF Context, QueueInv, Shape
<1>3. /\ Tail(ops[t]) \in Seq(Operations(Ops)) /\ o \in Ops
      /\ Ids(ops[t]) = Ids(Tail(ops[t])) \union {o}
      /\ RejectedIn(Tail(ops[t])) \subseteq RejectedIn(ops[t])
  BY <1>1, <1>2, TailIs
<1>4. /\ ops' \in [Tabs -> Seq(Operations(Ops))] /\ ops'[t] = Tail(ops[t])
      /\ stored' \in [ops : Seq(Operations(Ops)), hist : Seq(Ops)]
      /\ stored'.hist = stored.hist /\ stored'.ops = (IF ok THEN Tail(ops[t]) ELSE stored.ops)
      /\ news' = news /\ failures' \in Nat
  BY <1>1, <1>3, OpsSaved
<1>5. Append(hist[t], o) \in Seq(Ops) /\ ToSet(Append(hist[t], o)) = ToSet(hist[t]) \union {o}
  BY <1>2, <1>3, HistoryAppendIs
<1>6. PICK doomed \in SUBSET Ops : Doomed(doomed) /\ RejectionsIn(t, doomed) /\ o \in doomed
  BY <1>1, <1>3, SkippedIsDoomed
<1> HIDE DEF o
<1>7. hist' \in [Tabs -> Seq(Ops)] /\ hist'[t] = Append(hist[t], o)
  BY <1>1, <1>2, <1>5
<1>8. /\ fate' \in [Ops -> Fates] /\ fate'[o] = "rejected"
      /\ \A p \in Ops : p # o => fate'[p] = fate[p]
  BY <1>1, <1>3, FatesAre DEF Fates
<1>9. /\ pc' \in [Tabs -> Places] /\ pc'[t] = (IF ok THEN "skipped" ELSE "ready")
      /\ cur' \in [Tabs -> Ops \union {Null}]
      /\ batch' \in [Tabs -> Seq(Ops) \union Seq(Results)]
      /\ batch'[t] = (IF ok THEN batch[t] ELSE <<>>)
  <2>1. "skipped" \in Places
    BY PlacesAre
  <2>2. CASE ok
    BY <1>1, <1>2, <1>3, <2>1, <2>2
  <2>3. CASE ~ok
    BY <1>1, <2>3, Stopped
  <2> QED BY <2>2, <2>3
<1>10. ~setting.batchAdapter /\ Open(t) /\ pc[t] # "batchSent"
  BY <1>1, <1>2 DEF InMode, Open, LoopPlaces
<1>11. InMode(t)' /\ AtHead(t)' /\ Open(t)'
  BY <1>2, <1>4, <1>9, <1>10 DEF InMode, AtHead, Open, Working, BatchPlaces
<1>12. ResultsTrue(t)'
  <2>1. pc'[t] # "batchSent" /\ (batch'[t] = <<>> \/ batch'[t] = batch[t])
    BY <1>9
  <2> QED BY <1>1, <1>10, <2>1, ResultsKept
<1>13. Retained(t)'
  <2>1. \A p \in Ops : Owed(p)' => Owed(p) /\ p # o
    BY <1>2, <1>8, <1>10 DEF Owed
  <2>2. \A p \in Ops : Owed(p)' /\ p \in Ids(ops[t]) => p \in Ids(ops'[t])
    BY <1>3, <1>4, <2>1
  <2>3. stored'.ops = stored.ops \/ (stored'.ops = ops'[t] /\ Open(t)')
    BY <1>4, <1>11
  <2> QED BY <1>10, <2>1, <2>2, <2>3, RetainedKept
<1>14. Recorded(t)'
  BY <1>2, <1>10 DEF Recorded
<1>15. RejectedAreDoomed(t)'
  <2>1. Doomed(doomed)'
    BY <1>1, <1>2, <1>6, TurnedDownKept, Zenon DEF Doomed, WorldKept
  <2>2. /\ RejectedIn(ops'[t]) \subseteq doomed /\ RejectedIn(stored'.ops) \subseteq doomed
        /\ ToSet(hist'[t]) \subseteq doomed /\ ToSet(stored'.hist) \subseteq doomed
    BY <1>3, <1>4, <1>5, <1>6, <1>7 DEF RejectionsIn
  <2> QED BY <1>2, <2>1, <2>2 DEF RejectionsIn, RejectedAreDoomed
<1>16. DecisionsInv' /\ verdicts' \in [Ops -> SUBSET {"ok", "no"}]
  BY <1>1, <1>2, ClosedKept DEF WorldKept
<1> QED
  BY <1>1, <1>4, <1>7, <1>8, <1>9, <1>11, <1>12, <1>13, <1>14, <1>15, <1>16, RetryingSame, Assembled DEF Fates

(* The user discards what was rejected.                                    *)
LEMMA DiscardKeeps ==
  ASSUME NEW t, Context(t), NEW ok \in BOOLEAN, setting.maxFailures = 0 => ok,
         NEW gone \in SUBSET Ops, DiscardRejected(t, gone, ok)
  PROVE  QueueInv'
<1> DEFINE new == At(hist[t], {i \in DOMAIN hist[t] : hist[t][i] \notin gone})
<1>1. /\ Open(t) /\ SaveHist(t, new, ok) /\ UNCHANGED <<ops, pc, cur, batch, retrying, loading>> /\ WorldKept
      /\ fate' = [o \in Ops |-> IF o \in gone /\ fate[o] = "rejected" THEN "dropped" ELSE fate[o]]
  BY DEF DiscardRejected, Drop, loopVars, worldVars, WorldKept
<1>2. /\ Ops' = Ops /\ setting' = setting /\ InMode(t) /\ AtHead(t) /\ Retained(t) /\ Recorded(t)
      /\ ResultsTrue(t) /\ fate \in [Ops -> Fates] /\ Results' = Results
      /\ ops \in [Tabs -> Seq(Operations(Ops))] /\ pc \in [Tabs -> Places]
      /\ cur \in [Tabs -> Ops \union {Null}] /\ batch \in [Tabs -> Seq(Ops) \union Seq(Results)]
      /\ ops[t] \in Seq(Operations(Ops)) /\ hist[t] \in Seq(Ops)
  BY ContextIs, FatesAre DEF Context, QueueInv, Shape, Results
<1>3. new \in Seq(Ops) /\ ToSet(new) = ToSet(hist[t]) \ gone
  BY <1>2, FilterIs
<1> HIDE DEF new
<1>4. /\ hist' \in [Tabs -> Seq(Ops)] /\ hist'[t] = new
      /\ stored' \in [ops : Seq(Operations(Ops)), hist : Seq(Ops)]
      /\ stored'.ops = stored.ops /\ stored'.hist = (IF ok THEN new ELSE stored.hist)
      /\ news' = news /\ failures' \in Nat
  BY <1>1, <1>3, HistSaved
<1>5. /\ fate' \in [Ops -> Fates] /\ \A o \in Ops : Owed(o)' => Owed(o)
      /\ \A o \in Ops : fate'[o] = "rejected" => fate[o] = "rejected" /\ o \notin gone
      /\ \A o \in Ops : fate'[o] \in {"new", "queued"} => fate[o] = fate'[o]
  BY <1>1, <1>2 DEF Owed, Fates
<1>6. InMode(t)' /\ ResultsTrue(t)' /\ Open(t)'
  BY <1>1, <1>2, <1>4, TurnedDownKept DEF InMode, ResultsTrue, Open
<1>7. AtHead(t)'
  BY <1>1, <1>2, <1>5, TurnedDownKept DEF AtHead, Working
<1>8. Retained(t)'
  BY <1>1, <1>4, <1>5, RetainedKept
<1>9. Recorded(t)'
  BY <1>1, <1>2, <1>3, <1>4, <1>5 DEF Recorded
<1>10. {} \in SUBSET Ops /\ \A o \in {} : TurnedDown(o)
  OBVIOUS
<1>11. /\ ToSet(hist'[t]) \subseteq ToSet(hist[t]) \union ToSet(stored.hist) \union {}
       /\ ToSet(stored'.hist) \subseteq ToSet(hist[t]) \union ToSet(stored.hist) \union {}
       /\ RejectedIn(ops'[t]) \subseteq RejectedIn(ops[t]) \union RejectedIn(stored.ops)
       /\ RejectedIn(stored'.ops) \subseteq RejectedIn(ops[t]) \union RejectedIn(stored.ops)
  BY <1>1, <1>3, <1>4
<1>12. ops' = ops /\ pc' = pc /\ cur' = cur /\ batch' = batch /\ UNCHANGED <<retrying, loading>> /\ WorldKept
  BY <1>1
<1> QED BY <1>2, <1>4, <1>5, <1>6, <1>7, <1>8, <1>9, <1>10, <1>11, <1>12, RetryingSame, SavedStep

(* retryRejected: the operation is queued again, then the history saved.   *)
LEMMA RetryKeeps ==
  ASSUME NEW t, Context(t), NEW ok \in BOOLEAN, setting.maxFailures = 0 => ok,
         NEW o \in Ops, RetryRejected(t, o, ok)
  PROVE  QueueInv'
<1> DEFINE new == IF o \in Ids(ops[t]) THEN ops[t] ELSE Append(ops[t], Pending(o))
           kept == RemoveFirst(hist[t], o)
<1>1. /\ Open(t) /\ SaveOps(t, new, ok) /\ hist' = [hist EXCEPT ![t] = kept]
      /\ UNCHANGED <<pc, cur, batch, loading>> /\ WorldKept
      /\ fate' = IF ok THEN [fate EXCEPT ![o] = "retried"] ELSE fate
  BY Zenon DEF RetryRejected, loopVars, worldVars, WorldKept
<1>2. /\ Ops' = Ops /\ setting' = setting /\ InMode(t) /\ AtHead(t) /\ Retained(t) /\ Recorded(t)
      /\ ResultsTrue(t) /\ fate \in [Ops -> Fates] /\ Results' = Results /\ t \in Tabs
      /\ hist \in [Tabs -> Seq(Ops)] /\ pc \in [Tabs -> Places]
      /\ cur \in [Tabs -> Ops \union {Null}] /\ batch \in [Tabs -> Seq(Ops) \union Seq(Results)]
      /\ ops[t] \in Seq(Operations(Ops)) /\ hist[t] \in Seq(Ops)
  BY ContextIs, FatesAre DEF Context, QueueInv, Shape, Results
<1>3. /\ new \in Seq(Operations(Ops)) /\ Ids(new) = Ids(ops[t]) \union {o}
      /\ RejectedIn(new) \subseteq RejectedIn(ops[t])
      /\ ops[t] # <<>> => new # <<>> /\ Head(new).id = Head(ops[t]).id
  <2>1. CASE o \in Ids(ops[t])
    BY <1>2, <2>1
  <2>2. CASE o \notin Ids(ops[t])
    <3> DEFINE n == Append(ops[t], Pending(o))
    <3>1. new = n
      BY <2>2
    <3> HIDE DEF new
    <3>2. ops[t] \in Seq(Operations(Ops))
      BY <1>2
    <3>3. /\ n \in Seq(Operations(Ops)) /\ n # <<>> /\ Ids(n) = Ids(ops[t]) \union {o}
          /\ RejectedIn(n) \subseteq RejectedIn(ops[t])
      BY <3>2, AppendIs
    <3>4. ops[t] # <<>> => Head(n).id = Head(ops[t]).id
      BY <1>2, AppendIs
    <3> HIDE DEF n
    <3> QED BY <3>1, <3>3, <3>4
  <2> QED BY <2>1, <2>2
<1>4. kept \in Seq(Ops) /\ ToSet(hist[t]) \ {o} \subseteq ToSet(kept) /\ ToSet(kept) \subseteq ToSet(hist[t])
  BY <1>2, RemoveFirstIs, Zenon
<1> HIDE DEF new, kept
<1>5. /\ ops' \in [Tabs -> Seq(Operations(Ops))] /\ ops'[t] = new
      /\ stored' \in [ops : Seq(Operations(Ops)), hist : Seq(Ops)]
      /\ stored'.hist = stored.hist /\ stored'.ops = (IF ok THEN new ELSE stored.ops)
      /\ news' = news /\ failures' \in Nat
  BY <1>1, <1>3, OpsSaved
<1>6. hist' \in [Tabs -> Seq(Ops)] /\ hist'[t] = kept
  BY <1>1, <1>2, <1>4
<1>7. /\ fate' \in [Ops -> Fates]
      /\ \A p \in Ops : fate'[p] = fate[p] \/ (ok /\ p = o /\ fate'[p] = "retried")
      /\ ok => fate'[o] = "retried"
  BY <1>1, <1>2 DEF Fates
<1>8. Open(t)' /\ retrying[t] = Null /\ pc[t] # "closed"
  BY <1>1 DEF Open, RetryRejected
<1>9. InMode(t)' /\ ResultsTrue(t)'
  BY <1>1, <1>2, <1>5, <1>8, TurnedDownKept DEF InMode, ResultsTrue
<1>10. AtHead(t)'
  <2>1. pc[t] \in Working => ops'[t] # <<>> /\ Head(ops'[t]).id = cur[t] /\ cur[t] \in Ops
    BY <1>2, <1>3, <1>5 DEF AtHead
  <2>2. pc[t] \in {"answered", "shift"} => fate'[cur[t]] \notin {"new", "queued"}
    <3>1. pc[t] \in {"answered", "shift"} => pc[t] \in Working
      BY DEF Working
    <3> QED BY <1>2, <1>7, <2>1, <3>1 DEF AtHead
  <2> QED BY <1>1, <1>2, <2>1, <2>2, TurnedDownKept DEF AtHead
<1>11. Retained(t)'
  <2>1. \A p \in Ops : Owed(p)' => Owed(p) \/ (p \in Ids(ops'[t]) /\ stored'.ops = ops'[t])
    BY <1>2, <1>3, <1>5, <1>7 DEF Owed
  <2>2. \A p \in Ops : Owed(p)' /\ p \in Ids(ops[t]) => p \in Ids(ops'[t])
    BY <1>3, <1>5
  <2>3. stored'.ops = stored.ops \/ (stored'.ops = ops'[t] /\ Open(t)')
    BY <1>5, <1>8
  <2> QED BY <1>1, <2>1, <2>2, <2>3, RetainedKept
<1>12. Recorded(t)'
  BY <1>1, <1>2, <1>4, <1>5, <1>6, <1>7 DEF Recorded
<1>13. {} \in SUBSET Ops /\ \A p \in {} : TurnedDown(p)
  OBVIOUS
<1>14. /\ ToSet(hist'[t]) \subseteq ToSet(hist[t]) \union ToSet(stored.hist) \union {}
       /\ ToSet(stored'.hist) \subseteq ToSet(hist[t]) \union ToSet(stored.hist) \union {}
       /\ RejectedIn(ops'[t]) \subseteq RejectedIn(ops[t]) \union RejectedIn(stored.ops)
       /\ RejectedIn(stored'.ops) \subseteq RejectedIn(ops[t]) \union RejectedIn(stored.ops)
  BY <1>3, <1>4, <1>5, <1>6
<1>15. retrying' \in [Tabs -> Ops \union {Null}]
  <2>1. retrying' = [retrying EXCEPT ![t] = o] \/ retrying' = retrying
    BY DEF RetryRejected
  <2> QED BY <2>1, ContextIs
<1>16. pc' = pc /\ cur' = cur /\ batch' = batch /\ loading' = loading /\ WorldKept
  BY <1>1
<1> QED
  BY <1>2, <1>5, <1>6, <1>7, <1>9, <1>10, <1>11, <1>12, <1>13, <1>14, <1>15, <1>16, SavedStep

LEMMA FinishRetryKeeps ==
  ASSUME NEW t, Context(t), NEW ok \in BOOLEAN, FinishRetry(t, ok)
  PROVE  QueueInv'
<1>1. /\ SaveHist(t, hist[t], ok) /\ retrying[t] # Null
      /\ UNCHANGED <<ops, pc, cur, batch, loading, fate>> /\ WorldKept
      /\ retrying' = [retrying EXCEPT ![t] = Null]
  BY DEF FinishRetry, loopVars, worldVars, WorldKept
<1>2. /\ Ops' = Ops /\ setting' = setting /\ InMode(t) /\ AtHead(t) /\ Retained(t) /\ Recorded(t)
      /\ ResultsTrue(t) /\ Results' = Results
      /\ ops \in [Tabs -> Seq(Operations(Ops))] /\ pc \in [Tabs -> Places]
      /\ cur \in [Tabs -> Ops \union {Null}] /\ batch \in [Tabs -> Seq(Ops) \union Seq(Results)]
      /\ hist[t] \in Seq(Ops)
  BY ContextIs DEF Context, QueueInv, Shape, Results
<1>3. /\ hist' \in [Tabs -> Seq(Ops)] /\ hist'[t] = hist[t]
      /\ stored' \in [ops : Seq(Operations(Ops)), hist : Seq(Ops)]
      /\ stored'.ops = stored.ops /\ stored'.hist = (IF ok THEN hist[t] ELSE stored.hist)
      /\ news' = news /\ failures' \in Nat
  BY <1>1, <1>2, HistSaved
<1>4. pc[t] # "closed" /\ Open(t) /\ Open(t)'
  BY <1>1, <1>2 DEF InMode, Open
<1>5. InMode(t)' /\ ResultsTrue(t)' /\ AtHead(t)'
  BY <1>1, <1>2, <1>3, <1>4, TurnedDownKept DEF InMode, ResultsTrue, AtHead, Working
<1>6. Retained(t)'
  BY <1>1, <1>3, <1>4, RetainedSame
<1>7. Recorded(t)'
  BY <1>1, <1>2, <1>3, <1>4 DEF Recorded
<1>8. {} \in SUBSET Ops /\ \A p \in {} : TurnedDown(p)
  OBVIOUS
<1>9. /\ ToSet(hist'[t]) \subseteq ToSet(hist[t]) \union ToSet(stored.hist) \union {}
      /\ ToSet(stored'.hist) \subseteq ToSet(hist[t]) \union ToSet(stored.hist) \union {}
      /\ RejectedIn(ops'[t]) \subseteq RejectedIn(ops[t]) \union RejectedIn(stored.ops)
      /\ RejectedIn(stored'.ops) \subseteq RejectedIn(ops[t]) \union RejectedIn(stored.ops)
  BY <1>1, <1>3
<1>10. /\ ops' = ops /\ pc' = pc /\ cur' = cur /\ batch' = batch /\ loading' = loading /\ WorldKept
       /\ fate' \in [Ops -> Fates] /\ retrying' \in [Tabs -> Ops \union {Null}]
  BY <1>1, FatesAre, ContextIs
<1> QED BY <1>2, <1>3, <1>5, <1>6, <1>7, <1>8, <1>9, <1>10, SavedStep

-----------------------------------------------------------------------------
(* The results of a batch.                                                 *)

LEMMA BatchIs ==
  ASSUME NEW t, Context(t), pc[t] \in BatchPlaces
  PROVE  setting.batchAdapter /\ Open(t)
  BY ContextIs DEF InMode, Open, BatchPlaces

LEMMA SaveAppliedKeeps ==
  ASSUME NEW t, Context(t), NEW ok \in BOOLEAN, SaveApplied(t, ok)
  PROVE  QueueInv'
<1>1. /\ pc[t] = "batchSave" /\ SaveOps(t, ops[t], ok) /\ GoTo(t, "notify", ok)
      /\ UNCHANGED <<hist, retrying, loading, fate>> /\ WorldKept
  BY DEF SaveApplied, worldVars, WorldKept
<1>2. setting.batchAdapter /\ Open(t) /\ pc[t] # "batchSent"
  BY <1>1, BatchIs DEF BatchPlaces
<1>3. ops[t] \in Seq(Operations(Ops)) /\ setting' = setting /\ Ops' = Ops /\ ~news[t]
  BY ContextIs
<1>4. /\ ops' \in [Tabs -> Seq(Operations(Ops))] /\ ops'[t] = ops[t]
      /\ stored' \in [ops : Seq(Operations(Ops)), hist : Seq(Ops)]
      /\ stored'.hist = stored.hist /\ stored'.ops = (IF ok THEN ops[t] ELSE stored.ops)
      /\ news' = news /\ failures' \in Nat
  BY <1>1, <1>3, OpsSaved
<1>5. /\ pc' \in [Tabs -> Places] /\ pc'[t] = (IF ok THEN "notify" ELSE "ready")
      /\ cur' \in [Tabs -> Ops \union {Null}]
      /\ batch' \in [Tabs -> Seq(Ops) \union Seq(Results)]
      /\ batch'[t] = (IF ok THEN batch[t] ELSE <<>>)
  <2>1. "notify" \in Places
    BY PlacesAre
  <2> QED BY <1>1, <2>1, Went
<1>6. InMode(t)' /\ AtHead(t)' /\ Open(t)'
  BY <1>2, <1>3, <1>4, <1>5 DEF InMode, AtHead, Open, Working, LoopPlaces
<1>7. ResultsTrue(t)'
  <2>1. pc'[t] # "batchSent" /\ (batch'[t] = <<>> \/ batch'[t] = batch[t])
    BY <1>5
  <2> QED BY <1>1, <1>2, <2>1, ResultsKept
<1>8. /\ fate' \in [Ops -> Fates] /\ \A o \in Ops : Owed(o)' => Owed(o) \/ (ok /\ o \in Ids(ops'[t]))
      /\ \A o \in Ops : Owed(o)' /\ o \in Ids(ops[t]) => o \in Ids(ops'[t])
      /\ \A o \in Ops : fate'[o] = "rejected" => fate[o] = "rejected"
  BY <1>1, <1>3, <1>4, FatesAre DEF Owed
<1>9. /\ {} \in SUBSET Ops /\ \A p \in {} : TurnedDown(p)
      /\ RejectedIn(ops'[t]) \subseteq RejectedIn(ops[t]) \union {}
  BY <1>4
<1>10. stored'.ops = IF ok THEN ops'[t] ELSE stored.ops
  BY <1>4
<1> QED BY <1>1, <1>2, <1>4, <1>5, <1>6, <1>7, <1>8, <1>9, <1>10, OpsStep

LEMMA ApplyRetryableKeeps ==
  ASSUME NEW t, Context(t), NEW ok \in BOOLEAN, ApplyRetryable(t, ok)
  PROVE  QueueInv'
<1> DEFINE h == Head(batch[t]).id
           new == [i \in DOMAIN ops[t] |->
                     IF ops[t][i].id = h THEN [ops[t][i] EXCEPT !.status = "FAILED_RETRYABLE"]
                     ELSE ops[t][i]]
<1>1. /\ pc[t] = "batch" /\ batch[t] # <<>> /\ SaveOps(t, new, ok) /\ NextResult(t, "batch", ok)
      /\ UNCHANGED <<hist, retrying, loading, fate>> /\ WorldKept
  BY DEF ApplyRetryable, worldVars, WorldKept
<1>2. /\ setting.batchAdapter /\ Open(t) /\ setting' = setting /\ Ops' = Ops /\ ~news[t]
      /\ ops[t] \in Seq(Operations(Ops))
  BY <1>1, BatchIs, ContextIs DEF BatchPlaces
<1>3. new \in Seq(Operations(Ops)) /\ Ids(new) = Ids(ops[t]) /\ RejectedIn(new) \subseteq RejectedIn(ops[t])
  <2>1. new \in Seq(Operations(Ops))
    BY <1>2, RetryableIs, Zenon
  <2>2. Ids(new) = Ids(ops[t])
    BY <1>2, RetryableIs, Zenon
  <2>3. RejectedIn(new) \subseteq RejectedIn(ops[t])
    <3> HIDE DEF h
    <3> QED BY <1>2, RetryableIs
  <2> QED BY <2>1, <2>2, <2>3
<1> HIDE DEF new
<1>4. /\ ops' \in [Tabs -> Seq(Operations(Ops))] /\ ops'[t] = new
      /\ stored' \in [ops : Seq(Operations(Ops)), hist : Seq(Ops)]
      /\ stored'.hist = stored.hist /\ stored'.ops = (IF ok THEN new ELSE stored.ops)
      /\ news' = news /\ failures' \in Nat
  BY <1>1, <1>3, OpsSaved
<1>5. /\ pc' \in [Tabs -> Places] /\ pc'[t] = (IF ok THEN "batch" ELSE "ready")
      /\ cur' \in [Tabs -> Ops \union {Null}]
      /\ batch' \in [Tabs -> Seq(Ops) \union Seq(Results)] /\ ResultsTrue(t)'
  <2>1. "batch" \in Places
    BY PlacesAre
  <2> QED BY <1>1, <2>1, NextResultIs
<1>6. InMode(t)' /\ AtHead(t)' /\ Open(t)'
  BY <1>2, <1>4, <1>5 DEF InMode, AtHead, Open, Working, LoopPlaces
<1>7. /\ fate' \in [Ops -> Fates] /\ \A o \in Ops : Owed(o)' => Owed(o) \/ (ok /\ o \in Ids(ops'[t]))
      /\ \A o \in Ops : Owed(o)' /\ o \in Ids(ops[t]) => o \in Ids(ops'[t])
      /\ \A o \in Ops : fate'[o] = "rejected" => fate[o] = "rejected"
  BY <1>1, <1>2, <1>3, <1>4, FatesAre DEF Owed
<1>8. /\ {} \in SUBSET Ops /\ \A p \in {} : TurnedDown(p)
      /\ RejectedIn(ops'[t]) \subseteq RejectedIn(ops[t]) \union {}
  BY <1>3, <1>4
<1>9. stored'.ops = IF ok THEN ops'[t] ELSE stored.ops
  BY <1>4
<1> QED BY <1>1, <1>2, <1>4, <1>5, <1>6, <1>7, <1>8, <1>9, OpsStep

LEMMA ApplyAcceptedKeeps ==
  ASSUME NEW t, Context(t), NEW ok \in BOOLEAN, ApplyAccepted(t, ok)
  PROVE  QueueInv'
<1> DEFINE h == Head(batch[t]).id
           new == Without(ops[t], h)
<1>1. /\ pc[t] = "batch" /\ batch[t] # <<>> /\ SaveOps(t, new, ok) /\ NextResult(t, "notify", ok)
      /\ UNCHANGED <<hist, retrying, loading>> /\ WorldKept /\ fate' = [fate EXCEPT ![h] = "accepted"]
  BY DEF ApplyAccepted, worldVars, WorldKept
<1>2. /\ setting.batchAdapter /\ Open(t) /\ setting' = setting /\ Ops' = Ops /\ ~news[t]
      /\ ops[t] \in Seq(Operations(Ops))
  BY <1>1, BatchIs, ContextIs DEF BatchPlaces
<1>3. new \in Seq(Operations(Ops)) /\ Ids(new) = Ids(ops[t]) \ {h} /\ RejectedIn(new) \subseteq RejectedIn(ops[t])
  BY <1>2, WithoutIs
<1> HIDE DEF new
<1>4. /\ ops' \in [Tabs -> Seq(Operations(Ops))] /\ ops'[t] = new
      /\ stored' \in [ops : Seq(Operations(Ops)), hist : Seq(Ops)]
      /\ stored'.hist = stored.hist /\ stored'.ops = (IF ok THEN new ELSE stored.ops)
      /\ news' = news /\ failures' \in Nat
  BY <1>1, <1>3, OpsSaved
<1>5. /\ pc' \in [Tabs -> Places] /\ pc'[t] = (IF ok THEN "notify" ELSE "ready")
      /\ cur' \in [Tabs -> Ops \union {Null}] /\ h \in Ops
      /\ batch' \in [Tabs -> Seq(Ops) \union Seq(Results)] /\ ResultsTrue(t)'
  <2>1. "notify" \in Places
    BY PlacesAre
  <2> QED BY <1>1, <2>1, NextResultIs
<1> HIDE DEF h
<1>6. InMode(t)' /\ AtHead(t)' /\ Open(t)'
  BY <1>2, <1>4, <1>5 DEF InMode, AtHead, Open, Working, LoopPlaces
<1>7. /\ fate' \in [Ops -> Fates] /\ fate'[h] = "accepted"
      /\ \A o \in Ops : o # h => fate'[o] = fate[o]
  BY <1>1, <1>5, FatesAre DEF Fates
<1>8. /\ \A o \in Ops : Owed(o)' => Owed(o) /\ o # h
      /\ \A o \in Ops : fate'[o] = "rejected" => fate[o] = "rejected"
  BY <1>2, <1>7 DEF Owed
<1>9. \A o \in Ops : Owed(o)' /\ o \in Ids(ops[t]) => o \in Ids(ops'[t])
  BY <1>3, <1>4, <1>8
<1>10. /\ {} \in SUBSET Ops /\ \A p \in {} : TurnedDown(p)
       /\ RejectedIn(ops'[t]) \subseteq RejectedIn(ops[t]) \union {}
  BY <1>3, <1>4
<1>11. /\ stored'.ops = (IF ok THEN ops'[t] ELSE stored.ops)
       /\ \A o \in Ops : Owed(o)' => Owed(o) \/ (ok /\ o \in Ids(ops'[t]))
  BY <1>4, <1>8
<1> QED BY <1>1, <1>2, <1>4, <1>5, <1>6, <1>7, <1>8, <1>9, <1>10, <1>11, OpsStep

LEMMA ApplyRejectedKeeps ==
  ASSUME NEW t, Context(t), NEW ok \in BOOLEAN, setting.maxFailures = 0 => ok, ApplyRejected(t, ok)
  PROVE  QueueInv'
<1> DEFINE h == Head(batch[t]).id
           new == Append(hist[t], h)
           left == Without(ops[t], h)
<1>1. /\ pc[t] = "batch" /\ batch[t] # <<>> /\ SaveHist(t, new, ok) /\ NextResult(t, "batchSave", ok)
      /\ ops' = [ops EXCEPT ![t] = left] /\ fate' = [fate EXCEPT ![h] = "rejected"]
      /\ UNCHANGED <<retrying, loading>> /\ WorldKept /\ Head(batch[t]).answer = "no"
  BY DEF ApplyRejected, worldVars, WorldKept
<1>2. /\ setting.batchAdapter /\ Open(t) /\ setting' = setting /\ Ops' = Ops /\ ~news[t]
      /\ ops[t] \in Seq(Operations(Ops)) /\ hist[t] \in Seq(Ops) /\ Recorded(t) /\ t \in Tabs
      /\ ops \in [Tabs -> Seq(Operations(Ops))]
  BY <1>1, BatchIs, ContextIs DEF BatchPlaces, Context, QueueInv, Shape
<1>3. /\ pc' \in [Tabs -> Places] /\ pc'[t] = (IF ok THEN "batchSave" ELSE "ready")
      /\ cur' \in [Tabs -> Ops \union {Null}] /\ h \in Ops /\ TurnedDown(h)
      /\ batch' \in [Tabs -> Seq(Ops) \union Seq(Results)] /\ ResultsTrue(t)'
  <2>1. "batchSave" \in Places
    BY PlacesAre
  <2> QED BY <1>1, <2>1, NextResultIs
<1>4. left \in Seq(Operations(Ops)) /\ Ids(left) = Ids(ops[t]) \ {h} /\ RejectedIn(left) \subseteq RejectedIn(ops[t])
  BY <1>2, WithoutIs
<1>5. new \in Seq(Ops) /\ ToSet(new) = ToSet(hist[t]) \union {h}
  BY <1>2, <1>3, HistoryAppendIs
<1> HIDE DEF h, new, left
<1>6. /\ hist' \in [Tabs -> Seq(Ops)] /\ hist'[t] = new
      /\ stored' \in [ops : Seq(Operations(Ops)), hist : Seq(Ops)]
      /\ stored'.ops = stored.ops /\ stored'.hist = (IF ok THEN new ELSE stored.hist)
      /\ news' = news /\ failures' \in Nat
  BY <1>1, <1>5, HistSaved
<1>7. ops' \in [Tabs -> Seq(Operations(Ops))] /\ ops'[t] = left
  BY <1>1, <1>2, <1>4
<1>8. InMode(t)' /\ AtHead(t)' /\ Open(t)'
  BY <1>2, <1>3, <1>6 DEF InMode, AtHead, Open, Working, LoopPlaces
<1>9. /\ fate' \in [Ops -> Fates] /\ fate'[h] = "rejected"
      /\ \A o \in Ops : o # h => fate'[o] = fate[o]
  BY <1>1, <1>3, FatesAre DEF Fates
<1>10. Retained(t)'
  <2>1. \A o \in Ops : Owed(o)' => Owed(o) /\ o # h
    BY <1>2, <1>9 DEF Owed
  <2>2. \A o \in Ops : Owed(o)' /\ o \in Ids(ops[t]) => o \in Ids(ops'[t])
    BY <1>4, <1>7, <2>1
  <2> QED BY <1>2, <1>6, <1>8, <2>1, <2>2, RetainedKept
<1>11. Recorded(t)'
  BY <1>2, <1>5, <1>6, <1>9 DEF Recorded
<1>12. {h} \in SUBSET Ops /\ \A p \in {h} : TurnedDown(p)
  BY <1>3
<1>13. /\ ToSet(hist'[t]) \subseteq ToSet(hist[t]) \union ToSet(stored.hist) \union {h}
       /\ ToSet(stored'.hist) \subseteq ToSet(hist[t]) \union ToSet(stored.hist) \union {h}
       /\ RejectedIn(ops'[t]) \subseteq RejectedIn(ops[t]) \union RejectedIn(stored.ops)
       /\ RejectedIn(stored'.ops) \subseteq RejectedIn(ops[t]) \union RejectedIn(stored.ops)
  BY <1>4, <1>5, <1>6, <1>7
<1> QED
  BY <1>1, <1>3, <1>6, <1>7, <1>8, <1>9, <1>10, <1>11, <1>12, <1>13, RetryingSame, SavedStep

-----------------------------------------------------------------------------
(* The server, and a tab that is closed and opened again.                  *)

LEMMA DecideKeeps ==
  ASSUME NEW t, Context(t), NEW o \in Ops, NEW v \in {"ok", "no"}, Decide(o, v)
  PROVE  QueueInv'
<1>1. /\ verdicts[o] = {} \/ o \in repeated
      /\ verdicts' = [verdicts EXCEPT ![o] = @ \union {v}] /\ repeated' = repeated
      /\ v = "ok" => \A r \in setting.requires[o] \ setting.elsewhere : "ok" \in verdicts[r]
      /\ UNCHANGED <<ops, hist, stored, pc, cur, batch, retrying, news, loading, failures, fate>>
  BY DEF Decide, loopVars, tabVars
<1>2. /\ Ops' = Ops /\ setting' = setting /\ Results' = Results
      /\ Shape /\ DecisionsInv /\ InMode(t) /\ AtHead(t) /\ ResultsTrue(t) /\ Retained(t) /\ Recorded(t)
      /\ RejectedAreDoomed(t) /\ setting.requires \in [Ops -> SUBSET Ops]
  BY ContextIs DEF Context, QueueInv, Results
<1>3. /\ verdicts' \in [Ops -> SUBSET {"ok", "no"}] /\ verdicts'[o] = verdicts[o] \union {v}
      /\ \A p \in Ops : p # o => verdicts'[p] = verdicts[p]
      /\ \A p \in Ops : verdicts[p] \subseteq verdicts'[p]
  BY <1>1, <1>2 DEF Shape
<1>4. DecisionsInv'
  <2>1. ASSUME NEW p \in Ops, "ok" \in verdicts'[p], NEW r \in setting.requires[p] \ setting.elsewhere
        PROVE  "ok" \in verdicts'[r]
    <3>1. r \in Ops /\ "ok" \in verdicts[r]
      BY <1>1, <1>2, <1>3, <2>1 DEF DecisionsInv
    <3> QED BY <1>3, <3>1
  <2>2. ASSUME NEW p \in Ops, verdicts'[p] = {"ok", "no"} PROVE p \in repeated
    BY <1>1, <1>2, <1>3, <2>2 DEF DecisionsInv
  <2> QED BY <1>1, <1>2, <2>1, <2>2 DEF DecisionsInv
<1>5. ASSUME NEW p \in Ops, TurnedDown(p) PROVE TurnedDown(p)'
  <2>1. Doubtful' = Doubtful
    BY <1>1, <1>2, Zenon DEF Doubtful, DoubtClosed
  <2>2. CASE p \in Doubtful
    BY <2>1, <2>2 DEF TurnedDown
  <2>3. CASE p \notin Doubtful
    <3>1. verdicts[p] = {"no"} /\ p \notin repeated
      BY <1>5, <2>3, DoubtfulIs DEF TurnedDown
    <3>2. verdicts'[p] = {"no"}
      BY <1>1, <1>3, <3>1
    <3> QED BY <3>2 DEF TurnedDown
  <2> QED BY <2>2, <2>3
<1>6. InMode(t)' /\ AtHead(t)' /\ ResultsTrue(t)'
  <2>1. pc[t] = "answered" => TurnedDown(cur[t])'
    <3>1. pc[t] = "answered" => cur[t] \in Ops /\ TurnedDown(cur[t])
      BY <1>2 DEF AtHead, Working
    <3>2. pc[t] = "answered" => \E p \in Ops : p = cur[t] /\ TurnedDown(p)
      BY <3>1
    <3> QED BY <1>1, <1>5, <3>2
  <2>2. CASE pc[t] = "batchSent"
    BY <1>1, <1>2, <2>1, <2>2 DEF InMode, AtHead, ResultsTrue
  <2>3. CASE pc[t] # "batchSent"
    <3>1. /\ batch[t] \in Seq(Results)
          /\ \A i \in DOMAIN batch[t] : batch[t][i].answer = "no" => TurnedDown(batch[t][i].id)
      BY <1>2, <2>3 DEF ResultsTrue
    <3>2. \A i \in DOMAIN batch[t] : batch[t][i] \in Results
      BY <3>1, LenProperties, ElementOfSeq
    <3>3. \A i \in DOMAIN batch[t] : batch[t][i].id \in Ops
      BY <3>2 DEF Results
    <3>4. \A i \in DOMAIN batch[t] : batch[t][i].answer = "no" => TurnedDown(batch[t][i].id)'
      BY <1>1, <1>5, <3>1, <3>3
    <3>5. ResultsTrue(t)'
      BY <1>1, <1>2, <2>3, <3>1, <3>4 DEF ResultsTrue
    <3> QED BY <1>1, <1>2, <2>1, <3>5 DEF InMode, AtHead
  <2> QED BY <2>2, <2>3
<1>7. Retained(t)' /\ Recorded(t)'
  BY <1>1, <1>2 DEF Retained, Recorded, Owed, Open
<1>8. RejectedAreDoomed(t)'
  <2>1. PICK doomed \in SUBSET Ops : Doomed(doomed) /\ RejectionsIn(t, doomed)
    BY <1>2 DEF RejectedAreDoomed
  <2>2. ASSUME NEW p \in doomed
        PROVE  TurnedDown(p)' \/ (verdicts'[p] = {} /\ setting.requires[p] \cap doomed # {})
    <3>1. CASE TurnedDown(p)
      BY <1>5, <3>1
    <3>2. CASE ~TurnedDown(p) /\ p # o
      BY <1>3, <2>1, <3>2 DEF Doomed
    <3>3. CASE ~TurnedDown(p) /\ p = o
      <4>1. verdicts[o] = {} /\ o \notin Doubtful
        BY <2>1, <3>3 DEF Doomed, TurnedDown
      <4>2. PICK r \in setting.requires[o] : r \in doomed
        BY <2>1, <3>3 DEF Doomed
      <4>3. r \notin Doubtful /\ r \notin setting.elsewhere
        BY <4>1, <4>2, DoubtfulIs
      <4>4. "ok" \notin verdicts[r]
        BY <2>1, <4>2, <4>3 DEF Doomed, TurnedDown
      <4>5. v = "no"
        BY <1>1, <4>2, <4>3, <4>4
      <4>6. verdicts'[o] = {"no"}
        BY <1>3, <4>1, <4>5
      <4> QED BY <3>3, <4>6 DEF TurnedDown
    <3> QED BY <3>1, <3>2, <3>3
  <2>3. Doomed(doomed)'
    BY <1>2, <2>2 DEF Doomed
  <2>4. RejectionsIn(t, doomed)'
    BY <1>1, <2>1 DEF RejectionsIn
  <2> QED BY <1>2, <2>3, <2>4 DEF RejectedAreDoomed
<1> QED BY <1>1, <1>2, <1>3, <1>4, <1>5, <1>6, <1>7, <1>8, RetryingSame, Assembled DEF Shape

LEMMA LapseKeeps ==
  ASSUME NEW t, Context(t), NEW o, Lapse(o)
  PROVE  QueueInv'
<1>1. /\ UNCHANGED <<ops, hist, stored, pc, cur, batch, retrying, news, loading, failures, fate>>
      /\ WorldKept
  BY Zenon DEF Lapse, loopVars, tabVars, WorldKept
<1>2. InMode(t)' /\ AtHead(t)'
  BY <1>1, ContextIs, TurnedDownKept DEF InMode, AtHead
<1>3. ResultsTrue(t)'
  <2>1. Results' = Results
    BY ContextIs DEF Results
  <2> QED BY <1>1, <2>1, ContextIs, TurnedDownKept DEF ResultsTrue
<1> QED BY <1>1, <1>2, <1>3, ContextIs, ControlOnly DEF Open

LEMMA CrashKeeps ==
  ASSUME NEW t, Context(t), Crash(t)
  PROVE  QueueInv'
<1>1. /\ ops' = [ops EXCEPT ![t] = <<>>] /\ hist' = [hist EXCEPT ![t] = <<>>]
      /\ pc' = [pc EXCEPT ![t] = "closed"] /\ cur' = [cur EXCEPT ![t] = Null]
      /\ batch' = [batch EXCEPT ![t] = <<>>] /\ retrying' = [retrying EXCEPT ![t] = Null]
      /\ news' = [news EXCEPT ![t] = FALSE] /\ loading' = [loading EXCEPT ![t] = Null]
      /\ UNCHANGED <<stored, failures, fate>> /\ WorldKept
  BY DEF Crash, worldVars, WorldKept
<1>2. /\ Ops' = Ops /\ setting' = setting /\ Shape /\ t \in Tabs /\ Tabs = {t}
      /\ Retained(t) /\ Recorded(t) /\ InMode(t) /\ Results' = Results
  BY ContextIs DEF Context, QueueInv, Results
<1>3. /\ ops' \in [Tabs -> Seq(Operations(Ops))] /\ ops'[t] = <<>>
      /\ hist' \in [Tabs -> Seq(Ops)] /\ hist'[t] = <<>>
  <2>1. <<>> \in Seq(Operations(Ops)) /\ <<>> \in Seq(Ops)
    BY SMT
  <2> QED BY <1>1, <1>2, <2>1, Zenon DEF Shape
<1>4. /\ pc' \in [Tabs -> Places] /\ pc'[t] = "closed" /\ cur' \in [Tabs -> Ops \union {Null}]
      /\ batch' \in [Tabs -> Seq(Ops) \union Seq(Results)] /\ batch'[t] = <<>>
  <2>1. "closed" \in Places /\ <<>> \in Seq(Results)
    BY PlacesAre, SMT
  <2> QED BY <1>1, <1>2, <2>1, Zenon DEF Shape
<1>5. news' = news /\ loading' = loading /\ ~Open(t)' /\ ~news'[t] /\ failures' \in Nat
  <2>1. news \in [Tabs -> BOOLEAN] /\ loading = [s \in Tabs |-> Null] /\ ~news[t]
    BY <1>2 DEF Shape, InMode
  <2>2. news' = news /\ loading' = loading
    BY <1>1, <1>2, <2>1
  <2> QED BY <1>1, <1>2, <1>4, <2>1, <2>2 DEF Shape, Open
<1>6. retrying' \in [Tabs -> Ops \union {Null}] /\ retrying'[t] = Null
  BY <1>1, <1>2 DEF Shape
<1>7. InMode(t)' /\ AtHead(t)' /\ ResultsTrue(t)'
  <2>1. <<>> \in Seq(Results')
    BY SMT
  <2>2. \A i \in DOMAIN batch'[t] : FALSE
    BY <1>4, SMT
  <2>3. InMode(t)' /\ AtHead(t)'
    BY <1>4, <1>5, <1>6 DEF InMode, AtHead, Working, LoopPlaces, BatchPlaces
  <2>4. ResultsTrue(t)'
    BY <1>4, <2>1, <2>2 DEF ResultsTrue
  <2> QED BY <2>3, <2>4
<1>8. Retained(t)'
  BY <1>1, <1>2, <1>5 DEF Retained, Owed
<1>9. Recorded(t)'
  BY <1>1, <1>2, <1>5 DEF Recorded
<1>10. {} \in SUBSET Ops /\ \A p \in {} : TurnedDown(p)
  OBVIOUS
<1>11. ToSet(<<>>) = {} /\ RejectedIn(<<>>) = {}
  BY DEF RejectedIn, ToSet
<1>12. /\ ToSet(hist'[t]) \subseteq ToSet(hist[t]) \union ToSet(stored.hist) \union {}
       /\ ToSet(stored'.hist) \subseteq ToSet(hist[t]) \union ToSet(stored.hist) \union {}
       /\ RejectedIn(ops'[t]) \subseteq RejectedIn(ops[t]) \union RejectedIn(stored.ops)
       /\ RejectedIn(stored'.ops) \subseteq RejectedIn(ops[t]) \union RejectedIn(stored.ops)
  BY <1>1, <1>3, <1>11
<1>13. stored' \in [ops : Seq(Operations(Ops)), hist : Seq(Ops)] /\ fate' \in [Ops -> Fates]
  BY <1>1, <1>2, FatesAre DEF Shape
<1>14. WorldKept
  BY <1>1
<1> QED
  BY <1>14, <1>3, <1>4, <1>5, <1>6, <1>7, <1>8, <1>9, <1>10, <1>12, <1>13, SavedStep

LEMMA RestartKeeps ==
  ASSUME NEW t, Context(t), Restart(t)
  PROVE  QueueInv'
<1> DEFINE new == Normalized(stored.ops)
<1>1. /\ pc[t] = "closed" /\ pc' = [pc EXCEPT ![t] = "ready"]
      /\ ops' = [ops EXCEPT ![t] = new] /\ hist' = [hist EXCEPT ![t] = stored.hist]
      /\ UNCHANGED <<stored, cur, batch, news, retrying, loading, failures, fate>> /\ WorldKept
  BY DEF Restart, tabVars, worldVars, WorldKept
<1>2. /\ Ops' = Ops /\ setting' = setting /\ Shape /\ t \in Tabs
      /\ Retained(t) /\ Recorded(t) /\ InMode(t) /\ ResultsTrue(t)
      /\ stored.ops \in Seq(Operations(Ops)) /\ stored.hist \in Seq(Ops)
  BY ContextIs DEF Context, QueueInv
<1>3. new \in Seq(Operations(Ops)) /\ Ids(new) = Ids(stored.ops) /\ RejectedIn(new) \subseteq RejectedIn(stored.ops)
  BY <1>2, NormalizedIs
<1> HIDE DEF new
<1>4. /\ ops' \in [Tabs -> Seq(Operations(Ops))] /\ ops'[t] = new
      /\ hist' \in [Tabs -> Seq(Ops)] /\ hist'[t] = stored.hist
  BY <1>1, <1>2, <1>3, Zenon DEF Shape
<1>5. pc' \in [Tabs -> Places] /\ pc'[t] = "ready"
  <2>1. "ready" \in Places
    BY PlacesAre
  <2> QED BY <1>1, <1>2, <2>1, Zenon DEF Shape
<1>6. InMode(t)' /\ AtHead(t)'
  BY <1>1, <1>2, <1>5 DEF InMode, AtHead, Working, LoopPlaces, BatchPlaces
<1>7. ResultsTrue(t)'
  BY <1>1, <1>5, ResultsKept
<1>8. Retained(t)'
  BY <1>1, <1>2, <1>3, <1>4 DEF Retained, Owed
<1>9. Recorded(t)'
  BY <1>1, <1>2, <1>4 DEF Recorded
<1>10. {} \in SUBSET Ops /\ \A p \in {} : TurnedDown(p)
  OBVIOUS
<1>11. /\ ToSet(hist'[t]) \subseteq ToSet(hist[t]) \union ToSet(stored.hist) \union {}
       /\ ToSet(stored'.hist) \subseteq ToSet(hist[t]) \union ToSet(stored.hist) \union {}
       /\ RejectedIn(ops'[t]) \subseteq RejectedIn(ops[t]) \union RejectedIn(stored.ops)
       /\ RejectedIn(stored'.ops) \subseteq RejectedIn(ops[t]) \union RejectedIn(stored.ops)
  BY <1>1, <1>3, <1>4
<1>12. /\ stored' \in [ops : Seq(Operations(Ops)), hist : Seq(Ops)] /\ fate' \in [Ops -> Fates]
       /\ cur' \in [Tabs -> Ops \union {Null}] /\ failures' \in Nat
       /\ batch' \in [Tabs -> Seq(Ops) \union Seq(Results)]
       /\ news' = news /\ loading' = loading /\ WorldKept
  BY <1>1, <1>2, FatesAre DEF Shape
<1> QED
  BY <1>1, <1>4, <1>5, <1>6, <1>7, <1>8, <1>9, <1>10, <1>11, <1>12, RetryingSame, SavedStep

-----------------------------------------------------------------------------
(* The invariant, and what it says.                                        *)

LEMMA HistoryOfOps ==
  ASSUME NEW s \in Seq(Ops)
  PROVE  ToSet(s) \subseteq Ops
<1>1. \A i \in DOMAIN s : s[i] \in Ops
  BY LenProperties, ElementOfSeq
<1> QED BY <1>1, Zenon DEF ToSet

LEMMA LoopKeeps ==
  ASSUME NEW t, Context(t), NEW ok \in SaveOutcomes, Loop(t, ok)
  PROVE  QueueInv'
<1>1. ok \in BOOLEAN /\ (setting.maxFailures = 0 => ok)
  BY SaveOutcomeIs
<1> QED
  BY <1>1, SkipHeadKeeps, RecordKeeps, SendKeeps, ReceiveFinalKeeps, RemoveHeadKeeps, NotifyKeeps,
     ApplyRetryableKeeps, ApplyAcceptedKeeps, ApplyRejectedKeeps, SaveAppliedKeeps, Zenon DEF Loop

LEMMA StepKeeps ==
  ASSUME NEW t, Context(t), Step(t)
  PROVE  QueueInv'
<1>1. CASE Finish(t) \/ LoseBatch(t) \/ FinishBatch(t)
  <2>1. /\ Stop(t) /\ Open(t) /\ UNCHANGED <<ops, hist, stored, news, retrying, loading, fate>> /\ WorldKept
        /\ failures' = failures
    BY <1>1 DEF Finish, LoseBatch, FinishBatch, Open, tabVars, worldVars, WorldKept
  <2>2. failures' \in Nat
    BY <2>1, ContextIs
  <2> QED BY <2>1, <2>2, StopKeeps
<1> QED
  BY <1>1, TakeHeadKeeps, ReceiveBatchKeeps, IgnoreResultKeeps, LoopKeeps, Zenon DEF Step

LEMMA CallKeeps ==
  ASSUME NEW t, Context(t), Call(t)
  PROVE  QueueInv'
<1>1. hist[t] \in Seq(Ops)
  BY ContextIs
<1>2. ToSet(hist[t]) \subseteq Ops
  BY <1>1, HistoryOfOps
<1>3. CASE Sync(t) \/ SendBatch(t)
  BY <1>3, SyncKeeps, SendBatchKeeps
<1>4. ASSUME NEW ok \in SaveOutcomes,
             \/ \E o \in Ops : Enqueue(t, o, ok) \/ RetryRejected(t, o, ok)
             \/ \E o \in ToSet(hist[t]) : DiscardRejected(t, {o}, ok)
             \/ DiscardRejected(t, ToSet(hist[t]), ok)
             \/ Clear(t, ok)
      PROVE  QueueInv'
  <2>1. ok \in BOOLEAN /\ (setting.maxFailures = 0 => ok)
    BY SaveOutcomeIs
  <2>2. ASSUME NEW o \in ToSet(hist[t]), DiscardRejected(t, {o}, ok) PROVE QueueInv'
    <3>1. {o} \in SUBSET Ops
      BY <1>2
    <3> QED BY <2>1, <2>2, <3>1, DiscardKeeps
  <2>3. CASE DiscardRejected(t, ToSet(hist[t]), ok)
    BY <1>2, <2>1, <2>3, DiscardKeeps
  <2> QED BY <1>4, <2>1, <2>2, <2>3, EnqueueKeeps, RetryKeeps, ClearKeeps
<1> QED BY <1>3, <1>4, Zenon DEF Call

LEMMA NextKeeps ==
  ASSUME QueueInv, Alone, [Next]_<<vars, setting>>
  PROVE  QueueInv' /\ Alone'
<1>1. CASE UNCHANGED <<vars, setting>>
  <2>1. /\ UNCHANGED <<ops, hist, stored, pc, cur, batch, news, retrying, loading, fate, failures>> /\ WorldKept
        /\ setting' = setting
    BY <1>1, Zenon DEF vars, loopVars, tabVars, worldVars, WorldKept
  <2>2. PICK t \in Tabs : Tabs = {t}
    BY DEF Alone
  <2>3. Context(t)
    BY <2>1, <2>2 DEF Context, Alone
  <2>4. InMode(t)' /\ AtHead(t)' /\ ResultsTrue(t)'
    <3>1. Results' = Results /\ Ops' = Ops
      BY <2>1 DEF Results, Ops
    <3> QED BY <2>1, <2>3, <3>1, ContextIs, TurnedDownKept, Zenon DEF InMode, AtHead, ResultsTrue
  <2>5. /\ pc' \in [Tabs -> Places] /\ cur' \in [Tabs -> Ops \union {Null}] /\ failures' \in Nat
        /\ batch' \in [Tabs -> Seq(Ops) \union Seq(Results)] /\ (Open(t)' => Open(t))
    BY <2>1, <2>3, ContextIs DEF Open
  <2>6. QueueInv'
    BY <2>1, <2>3, <2>4, <2>5, ControlOnly
  <2>7. Alone'
    BY <2>1 DEF Alone, Tabs
  <2> QED BY <2>6, <2>7
<1>2. CASE Next
  <2>1. setting' = setting /\ Alone'
    BY <1>2 DEF Next, Alone, Tabs
  <2>2. PICK t \in Tabs : Tabs = {t}
    BY DEF Alone
  <2>3. Context(t)
    BY <2>1, <2>2 DEF Context, Alone
  <2>4. \A s \in Tabs : s = t
    BY <2>2
  <2>5. \/ Call(t) \/ Step(t) \/ Reload(t) \/ Crash(t) \/ Restart(t)
        \/ \E ok \in SaveOutcomes : FinishRetry(t, ok)
        \/ \E o \in Ops : (\E v \in {"ok", "no"} : Decide(o, v)) \/ Lapse(o)
    BY <1>2, <2>4, Zenon DEF Next
  <2>6. ~Reload(t)
    BY <2>3, ContextIs DEF Reload, StartReload, AssignOps, AssignHist
  <2>7. ASSUME NEW ok \in SaveOutcomes, FinishRetry(t, ok) PROVE QueueInv'
    BY <2>3, <2>7, SaveOutcomeIs, FinishRetryKeeps
  <2> QED
    BY <2>1, <2>3, <2>5, <2>6, <2>7, CallKeeps, StepKeeps, CrashKeeps, RestartKeeps, DecideKeeps,
       LapseKeeps, Zenon
<1> QED BY <1>1, <1>2

LEMMA InitQueue == Init => QueueInv
<1> SUFFICES ASSUME Init PROVE QueueInv
  OBVIOUS
<1>1. /\ <<>> \in Seq(Operations(Ops)) /\ <<>> \in Seq(Ops) /\ <<>> \in Seq(Results)
      /\ "ready" \in Places
  BY PlacesAre, SMT
<1>2. Shape
  BY <1>1 DEF Init, Shape, Fates
<1>3. DecisionsInv
  BY DEF Init, DecisionsInv
<1>4. ToSet(<<>>) = {} /\ RejectedIn(<<>>) = {}
  BY DEF RejectedIn, ToSet
<1>5. ASSUME NEW t \in Tabs
      PROVE  /\ InMode(t) /\ AtHead(t) /\ ResultsTrue(t)
             /\ Retained(t) /\ Recorded(t) /\ RejectedAreDoomed(t)
  <2>1. InMode(t) /\ AtHead(t)
    BY <1>5 DEF Init, InMode, AtHead, Working, LoopPlaces, BatchPlaces
  <2>2. ResultsTrue(t)
    BY <1>1, <1>5 DEF Init, ResultsTrue
  <2>3. Retained(t) /\ Recorded(t)
    BY DEF Init, Retained, Recorded, Owed
  <2>4. Doomed({}) /\ RejectionsIn(t, {})
    BY <1>4 DEF Init, Doomed, RejectionsIn
  <2> QED BY <2>1, <2>2, <2>3, <2>4 DEF RejectedAreDoomed
<1> QED BY <1>2, <1>3, <1>5 DEF QueueInv

LEMMA QueueInvariant == Spec => [](Alone => QueueInv)
<1>1. Init => (Alone => QueueInv)
  BY InitQueue
<1>2. (Alone => QueueInv) /\ [Next]_<<vars, setting>> => (Alone => QueueInv)'
  <2>1. [Next]_<<vars, setting>> /\ Alone' => Alone
    <3>1. [Next]_<<vars, setting>> => setting' = setting
      BY DEF Next
    <3> QED BY <3>1 DEF Alone, Tabs
  <2> QED BY <2>1, NextKeeps
<1> QED BY <1>1, <1>2, PTL DEF Spec

(* An operation that was enqueued and has no answer yet is in storage, so  *)
(* that it is sent again whenever the tab dies: whatever saves are         *)
(* refused, and wherever a crash hits, in a queue of one tab               *)
(* (offlineQueue.ts).                                                      *)
THEOREM UnansweredIsRetained == Spec => [](Alone => UnansweredRetained)
<1>1. Alone /\ QueueInv => UnansweredRetained
  BY DEF Alone, QueueInv, Retained, Owed, UnansweredRetained
<1> QED BY <1>1, QueueInvariant, PTL

(* The same of an operation for which retryRejected resolved to true, if   *)
(* results are applied to the operation they name, as a batch's are        *)
(* (retryRejected and applySyncProgress in offlineQueue.ts).               *)
THEOREM RetriedIsRetained == Spec => [](Alone /\ setting.batchAdapter => RetriedRetained)
<1>1. Alone /\ QueueInv /\ setting.batchAdapter => RetriedRetained
  BY DEF Alone, QueueInv, Retained, Owed, RetriedRetained
<1> QED BY <1>1, QueueInvariant, PTL

(* What the history calls rejected never took effect on the server, not    *)
(* even what was rejected for a prerequisite without asking it             *)
(* (#rejectFailedPrerequisite in offlineQueue.ts); except where a stored   *)
(* result was lost, for a check-in sent again while undecided (checkIn in  *)
(* server.ts looks its key up before its lock only), and for what needs a  *)
(* check-in of one of these or of another device.                          *)
THEOREM RejectionsAreTrue == Spec => [](Alone => RejectionsTrue)
<1>1. Alone /\ QueueInv => RejectionsTrue
  <2> SUFFICES ASSUME Alone, QueueInv, NEW o \in Ops \ Doubtful, "ok" \in verdicts[o]
               PROVE  ~Contains(stored.hist, o) /\ \A t \in Tabs : ~Contains(hist[t], o)
    BY DEF RejectionsTrue
  <2>1. PICK t \in Tabs : Tabs = {t}
    BY DEF Alone
  <2>2. PICK doomed \in SUBSET Ops : Doomed(doomed) /\ RejectionsIn(t, doomed)
    BY <2>1 DEF QueueInv, RejectedAreDoomed
  <2>3. o \notin doomed
    BY <2>2 DEF Doomed, TurnedDown
  <2>4. o \notin ToSet(hist[t]) /\ o \notin ToSet(stored.hist)
    BY <2>2, <2>3 DEF RejectionsIn
  <2>5. hist[t] \in Seq(Ops) /\ stored.hist \in Seq(Ops)
    BY <2>1 DEF QueueInv, Shape
  <2>6. ASSUME NEW s \in Seq(Ops), o \notin ToSet(s) PROVE ~Contains(s, o)
    <3>1. DOMAIN s = 1..Len(s)
      BY LenProperties
    <3> QED BY <2>6, <3>1, Zenon DEF Contains, ToSet
  <2> QED BY <2>1, <2>4, <2>5, <2>6
<1> QED BY <1>1, QueueInvariant, PTL

(* A rejection that a batch reported is still in storage, unless the user  *)
(* discarded or retried it, if no save is refused: the history is saved    *)
(* before the operations are (applySyncProgress in offlineQueue.ts).       *)
THEOREM RejectionsAreKept == Spec => [](Alone /\ setting.maxFailures = 0 => RejectionsKept)
<1>1. Alone /\ QueueInv /\ setting.maxFailures = 0 => RejectionsKept
  <2> SUFFICES ASSUME Alone, QueueInv, setting.maxFailures = 0, setting.batchAdapter,
                      NEW o \in Ops, fate[o] = "rejected"
               PROVE  Contains(stored.hist, o)
    BY DEF RejectionsKept
  <2>1. o \in ToSet(stored.hist)
    BY DEF Alone, QueueInv, Recorded
  <2>2. stored.hist \in Seq(Ops)
    BY DEF QueueInv, Shape
  <2>3. DOMAIN stored.hist = 1..Len(stored.hist)
    BY <2>2, LenProperties
  <2> QED BY <2>1, <2>3, Zenon DEF Contains, ToSet
<1> QED BY <1>1, QueueInvariant, PTL
=============================================================================
