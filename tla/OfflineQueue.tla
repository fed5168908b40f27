---------------------------- MODULE OfflineQueue ----------------------------
(***************************************************************************)
(* The offline queue of one rally and user (packages/core/src/client/      *)
(* offlineQueue.ts) in the tabs that share its storage, as the client      *)
(* (client.ts) drives it.                                                  *)
(*                                                                         *)
(* A tab runs one synchronization at a time, a loop of awaits on storage,  *)
(* on the sender and on the listener; a step is what runs between two of   *)
(* them.  A save replaces the whole stored array.  An operation is known   *)
(* by its id, which holds its idempotency key.                             *)
(***************************************************************************)
EXTENDS Naturals, SequencesExt, Filtering

CONSTANTS Null, Settings

(* How the queue is used, a record of Settings:                            *)
(*   tabs, ops       the tabs, and the operations the user may create      *)
(*   claims          those that claim a reward; the others are check-ins   *)
(*   requires        [ops -> SUBSET ops]: check-ins at prerequisite spots  *)
(*   elsewhere       check-ins whose spots another device of the user may  *)
(*                   have visited, too                                     *)
(*   resultsLapse    a result may be gone before the last retry: it lapsed *)
(*                   or its transaction failed and had saved the state     *)
(*   maxRetries      retryOptions.maxRetries                               *)
(*   webLocks        the browser has navigator.locks                       *)
(*   batchAdapter    the adapter has only sync, no checkIn and claimReward *)
(*   directUse       the application also calls the queue past the client, *)
(*                   whose own calls wait for a synchronization to end     *)
(* and the bounds                                                          *)
(*   maxFailures     of the saves that storage refuses                     *)
(*   maxCrashes      of the tabs closed on the way                         *)
(*   maxUserRetries  of the calls of retryRejected                         *)
(*   maxHistory      of the history: tabs can reject an operation in turn  *)
VARIABLE setting

Tabs == setting.tabs

Ops == setting.ops

ASSUME QueueAssumption == \A s \in Settings :
  /\ s.requires \in [s.ops -> SUBSET s.ops] /\ {s.claims, s.elsewhere} \subseteq SUBSET s.ops
  /\ Null \notin s.ops
  /\ {s.maxRetries, s.maxFailures, s.maxCrashes, s.maxUserRetries, s.maxHistory} \subseteq Nat
  /\ {s.webLocks, s.batchAdapter, s.directUse, s.resultsLapse} \subseteq BOOLEAN

VARIABLES
  ops,       \* [Tabs -> Seq([id, status])]: #operations
  hist,      \* [Tabs -> Seq(Ops)]: #rejectedHistory
  stored,    \* [ops, hist]: what storage holds for the key
  pc,        \* where the synchronization of each tab is, "ready" or "closed"
  cur,       \* [Tabs -> Ops or Null]: the operation it works on
  attempt,   \* [Tabs -> Nat]
  batch,     \* [Tabs -> Seq]: the batch it sent, then the results left to apply
  retrying,  \* [Tabs -> Ops or Null]: a retryRejected between its two saves
  news,      \* [Tabs -> BOOLEAN]: another tab announced a change
  loading,   \* [Tabs -> what #reloadFromStorage has read and not yet assigned]
  sent,      \* the operations the server has received or may yet receive
  repeated,  \* those of them that the server may decide on more than once
  verdicts,  \* [Ops -> SUBSET {"ok", "no"}]: what it has decided on each
  fate,      \* history variable: what last became of each operation
  failures, crashes, userRetries

loopVars  == <<pc, cur, attempt, batch>>
tabVars   == <<retrying, news, loading, failures>>
worldVars == <<sent, repeated, verdicts>>
bounds    == <<crashes, userRetries>>
vars == <<ops, hist, stored, loopVars, tabVars, worldVars, fate, bounds>>

Pending(o) == [id |-> o, status |-> "PENDING"]
Ids(s) == {op.id : op \in ToSet(s)}

Without(s, o) == At(s, {i \in DOMAIN s : s[i].id # o})

(* normalizeOperation: what a status becomes when it is read back.         *)
Normalized(s) ==
  [i \in DOMAIN s |-> IF s[i].status = "IN_FLIGHT" THEN Pending(s[i].id) ELSE s[i]]

Open(t) == pc[t] # "closed"

(* #state is "syncing"; a batch is applied outside of #run.                *)
Syncing(t) ==
  pc[t] \in {"head", "skipped", "checked", "sending", "deferred", "answered", "shift"}
    \/ (pc[t] = "notify" /\ ~setting.batchAdapter)

Init ==
  /\ setting \in Settings
  /\ ops = [t \in Tabs |-> <<>>] /\ hist = [t \in Tabs |-> <<>>]
  /\ stored = [ops |-> <<>>, hist |-> <<>>]
  /\ pc = [t \in Tabs |-> "ready"] /\ cur = [t \in Tabs |-> Null]
  /\ attempt = [t \in Tabs |-> 0] /\ batch = [t \in Tabs |-> <<>>]
  /\ retrying = [t \in Tabs |-> Null] /\ news = [t \in Tabs |-> FALSE]
  /\ loading = [t \in Tabs |-> Null]
  /\ sent = {} /\ repeated = {} /\ verdicts = [o \in Ops |-> {}]
  /\ fate = [o \in Ops |-> "new"]
  /\ failures = 0 /\ crashes = 0 /\ userRetries = 0
-----------------------------------------------------------------------------
(* Saving.  Memory changes first; a refused save leaves it ahead of        *)
(* storage.  Other tabs hear of a save when the browser has Web Locks.     *)

SaveOutcomes == IF failures < setting.maxFailures THEN BOOLEAN ELSE {TRUE}

Announce(t, ok) ==
  /\ news' = [s \in Tabs |-> news[s] \/ (ok /\ setting.webLocks /\ s # t /\ Open(s))]
  /\ failures' = IF ok THEN failures ELSE failures + 1

SaveOps(t, new, ok) ==
  /\ ops' = [ops EXCEPT ![t] = new]
  /\ stored' = IF ok THEN [stored EXCEPT !.ops = new] ELSE stored
  /\ Announce(t, ok)

SaveHist(t, new, ok) ==
  /\ hist' = [hist EXCEPT ![t] = new]
  /\ stored' = IF ok THEN [stored EXCEPT !.hist = new] ELSE stored
  /\ Announce(t, ok)

(* #updateOperationStatus: the status goes to whatever operation is first. *)
SetHead(t, status, ok) ==
  IF ops[t] = <<>> THEN ok /\ UNCHANGED <<ops, stored, news, failures>>
  ELSE SaveOps(t, [ops[t] EXCEPT ![1].status = status], ok)

(* #operations.slice(1): drops whatever operation is first.                *)
DropHead(s) == IF s = <<>> THEN s ELSE Tail(s)

(* A refused save ends the synchronization with #state "error".            *)
Stop(t) ==
  /\ pc' = [pc EXCEPT ![t] = "ready"]
  /\ cur' = [cur EXCEPT ![t] = Null]
  /\ attempt' = [attempt EXCEPT ![t] = 0]
  /\ batch' = [batch EXCEPT ![t] = <<>>]

GoTo(t, place, ok) ==
  IF ok THEN pc' = [pc EXCEPT ![t] = place] /\ UNCHANGED <<cur, attempt, batch>>
  ELSE Stop(t)
-----------------------------------------------------------------------------
(* Calls of the application.                                               *)

ClientIdle(t) == pc[t] = "ready" \/ (setting.directUse /\ Open(t))

(* A key names one operation.  Enqueued again, because its save was        *)
(* refused, an operation that is still in the array is left as it is.      *)
Enqueue(t, o, ok) ==
  /\ ClientIdle(t) /\ fate[o] \in {"new", "failed"} /\ o \notin Ids(ops[t])
  /\ SaveOps(t, Append(ops[t], Pending(o)), ok)
  /\ fate' = [fate EXCEPT ![o] = IF ok THEN "queued" ELSE "failed"]
  /\ UNCHANGED <<hist, loopVars, retrying, loading, worldVars, bounds>>

(* Mutant: the history is saved and the operations are not.                *)
MutantRetryUnsaved(t, o, ok) ==
  /\ Open(t) /\ retrying[t] = Null /\ Contains(hist[t], o)
  /\ userRetries < setting.maxUserRetries /\ userRetries' = userRetries + 1
  /\ ops' = [ops EXCEPT ![t] = Append(@, Pending(o))]
  /\ SaveHist(t, RemoveFirst(hist[t], o), ok)
  /\ fate' = IF ok THEN [fate EXCEPT ![o] = "retried"] ELSE fate
  /\ UNCHANGED <<retrying, loopVars, loading, worldVars, crashes>>

(* retryRejected, up to its first save ...                                 *)
RetryRejected(t, o, ok) ==
  /\ Open(t) /\ retrying[t] = Null /\ Contains(hist[t], o)
  /\ userRetries < setting.maxUserRetries /\ userRetries' = userRetries + 1
  /\ SaveOps(t, IF o \in Ids(ops[t]) THEN ops[t] ELSE Append(ops[t], Pending(o)), ok)
  /\ hist' = [hist EXCEPT ![t] = RemoveFirst(@, o)]
  /\ IF ok THEN /\ retrying' = [retrying EXCEPT ![t] = o]
                /\ fate' = [fate EXCEPT ![o] = "retried"]
           ELSE UNCHANGED <<retrying, fate>>
  /\ UNCHANGED <<loopVars, loading, worldVars, crashes>>

(* ... and its second: it resolves to true.                                *)
FinishRetry(t, ok) ==
  /\ retrying[t] # Null
  /\ SaveHist(t, hist[t], ok)
  /\ retrying' = [retrying EXCEPT ![t] = Null]
  /\ UNCHANGED <<ops, loopVars, loading, worldVars, fate, bounds>>

Drop(gone, fates) ==
  fate' = [o \in Ops |-> IF o \in gone /\ fate[o] \in fates THEN "dropped" ELSE fate[o]]

DiscardRejected(t, gone, ok) ==
  /\ Open(t) /\ gone # {}
  /\ SaveHist(t, At(hist[t], {i \in DOMAIN hist[t] : hist[t][i] \notin gone}), ok)
  /\ Drop(gone, {"rejected"})
  /\ UNCHANGED <<ops, loopVars, retrying, loading, worldVars, bounds>>

Clear(t, ok) ==
  /\ setting.directUse /\ Open(t)
  /\ SaveOps(t, <<>>, ok)
  /\ Drop(Ids(ops[t]), {"queued", "retried"})
  /\ UNCHANGED <<hist, loopVars, retrying, loading, worldVars, bounds>>
-----------------------------------------------------------------------------
(* The synchronization loop.                                               *)

(* A tab that does not get the lock reloads what the holder saved.         *)
Sync(t) ==
  /\ pc[t] = "ready" /\ ~setting.batchAdapter
  /\ IF setting.webLocks /\ \E s \in Tabs : Syncing(s)
     THEN news' = [news EXCEPT ![t] = TRUE] /\ UNCHANGED loopVars
     ELSE GoTo(t, "head", TRUE) /\ UNCHANGED news
  /\ UNCHANGED <<ops, hist, stored, retrying, loading, failures, worldVars, fate, bounds>>

(* Mutant: the end of a synchronization saves the empty array.             *)
MutantFinish(t) ==
  /\ pc[t] = "head" /\ ops[t] = <<>>
  /\ SaveOps(t, <<>>, TRUE)
  /\ Stop(t)
  /\ UNCHANGED <<hist, retrying, loading, worldVars, fate, bounds>>

Finish(t) ==
  /\ pc[t] = "head" /\ ops[t] = <<>>
  /\ Stop(t)
  /\ UNCHANGED <<ops, hist, stored, tabVars, worldVars, fate, bounds>>

FailedOps(t) ==
  ToSet(hist[t]) \union {op.id : op \in {e \in ToSet(ops[t]) : e.status = "REJECTED_PERMANENT"}}

PrerequisiteFailed(t, o) == setting.requires[o] \intersect FailedOps(t) # {}

TakeHead(t) ==
  /\ pc[t] = "head" /\ ops[t] # <<>>
  /\ LET o == Head(ops[t]).id IN
       /\ ~PrerequisiteFailed(t, o)
       /\ cur' = [cur EXCEPT ![t] = o]
  /\ pc' = [pc EXCEPT ![t] = "checked"]
  /\ attempt' = [attempt EXCEPT ![t] = 0]
  /\ UNCHANGED <<ops, hist, stored, batch, tabVars, worldVars, fate, bounds>>

(* #rejectFailedPrerequisite, up to its first save ...                     *)
SkipHead(t, ok) ==
  /\ pc[t] = "head" /\ ops[t] # <<>> /\ Len(hist[t]) < setting.maxHistory
  /\ LET o == Head(ops[t]).id IN
       /\ PrerequisiteFailed(t, o)
       /\ hist' = [hist EXCEPT ![t] = Append(@, o)]
       /\ fate' = [fate EXCEPT ![o] = "rejected"]
       /\ IF ok THEN /\ cur' = [cur EXCEPT ![t] = o]
                     /\ pc' = [pc EXCEPT ![t] = "skipped"]
                     /\ UNCHANGED <<attempt, batch>>
                ELSE Stop(t)
  /\ SaveOps(t, Tail(ops[t]), ok)
  /\ UNCHANGED <<retrying, loading, worldVars, bounds>>

(* ... and its second, before it tells the listener.                       *)
SaveSkipped(t, ok) ==
  /\ pc[t] = "skipped"
  /\ SaveHist(t, hist[t], ok)
  /\ GoTo(t, "notify", ok)
  /\ UNCHANGED <<ops, retrying, loading, worldVars, fate, bounds>>

(* A request finds no result under its key if the one before it has left   *)
(* none yet.  A claim looks again inside its transaction; a check-in does  *)
(* not, and is decided on a second time.                                   *)
Ask(os) ==
  /\ sent' = sent \union os
  /\ repeated' = repeated \union {o \in (os \intersect sent) \ setting.claims : verdicts[o] = {}}

Send(t, ok) ==
  /\ pc[t] = "checked"
  /\ SetHead(t, "IN_FLIGHT", ok)
  /\ Ask(IF ok THEN {cur[t]} ELSE {})
  /\ GoTo(t, "sending", ok)
  /\ UNCHANGED <<hist, retrying, loading, verdicts, fate, bounds>>

(* The server decides; requests may be slow, lost or repeated.  Decided on *)
(* again, an accepted check-in is rejected as already acquired, and one    *)
(* that was rejected may have been made possible in between.               *)
Decide(o, v) ==
  /\ o \in sent /\ (verdicts[o] = {} \/ o \in repeated)
  /\ v = "ok" => \A r \in setting.requires[o] \ setting.elsewhere : "ok" \in verdicts[r]
  /\ verdicts' = [verdicts EXCEPT ![o] = @ \union {v}]
  /\ UNCHANGED <<ops, hist, stored, loopVars, tabVars, sent, repeated, fate, bounds>>

(* The server keeps a result for a day, unless configured otherwise; and a *)
(* transaction that fails after it saved the state has left none.          *)
Lapse(o) ==
  /\ setting.resultsLapse /\ verdicts[o] # {}
  /\ repeated' = repeated \union {o}
  /\ UNCHANGED <<ops, hist, stored, loopVars, tabVars, sent, verdicts, fate, bounds>>

(* Where the server has decided twice, either answer may be on its way.    *)
ReceiveFinal(t, ok) ==
  /\ pc[t] = "sending"
  /\ \E v \in verdicts[cur[t]] : LET accepted == v = "ok" IN
       /\ SetHead(t, IF accepted THEN "ACCEPTED" ELSE "REJECTED_PERMANENT", ok)
       /\ fate' = [fate EXCEPT ![cur[t]] = IF accepted THEN "accepted" ELSE "rejected"]
       /\ GoTo(t, IF accepted THEN "shift" ELSE "answered", ok)
  /\ UNCHANGED <<hist, retrying, loading, worldVars, bounds>>

(* No answer, or one that says to try again.                               *)
ReceiveRetryable(t, ok) ==
  /\ pc[t] = "sending"
  /\ SetHead(t, "PENDING", ok)
  /\ GoTo(t, "deferred", ok)
  /\ UNCHANGED <<hist, retrying, loading, worldVars, fate, bounds>>

(* Mutant: retries are not counted.                                        *)
MutantTryForever(t) ==
  /\ pc[t] = "deferred"
  /\ pc' = [pc EXCEPT ![t] = "checked"]
  /\ UNCHANGED <<ops, hist, stored, attempt, cur, batch, tabVars, worldVars, fate, bounds>>

TryAgain(t) ==
  /\ pc[t] = "deferred" /\ attempt[t] < setting.maxRetries
  /\ attempt' = [attempt EXCEPT ![t] = @ + 1]
  /\ pc' = [pc EXCEPT ![t] = "checked"]
  /\ UNCHANGED <<ops, hist, stored, cur, batch, tabVars, worldVars, fate, bounds>>

(* Mutant: the operation is dropped after the last retry.                  *)
MutantGiveUp(t, ok) ==
  /\ pc[t] = "deferred" /\ attempt[t] >= setting.maxRetries
  /\ SaveOps(t, DropHead(ops[t]), ok)
  /\ Stop(t)
  /\ UNCHANGED <<hist, retrying, loading, worldVars, fate, bounds>>

(* Mutant: the last failure counts as a rejection.                         *)
MutantGiveUpRejects(t, ok) ==
  /\ pc[t] = "deferred" /\ attempt[t] >= setting.maxRetries
  /\ SetHead(t, "REJECTED_PERMANENT", ok)
  /\ fate' = [fate EXCEPT ![cur[t]] = "rejected"]
  /\ GoTo(t, "answered", ok)
  /\ UNCHANGED <<hist, retrying, loading, worldVars, bounds>>

GiveUp(t, ok) ==
  /\ pc[t] = "deferred" /\ attempt[t] >= setting.maxRetries
  /\ SetHead(t, "FAILED_RETRYABLE", ok)
  /\ Stop(t)
  /\ UNCHANGED <<hist, retrying, loading, worldVars, fate, bounds>>

RecordRejection(t, ok) ==
  /\ pc[t] = "answered" /\ Len(hist[t]) < setting.maxHistory
  /\ SaveHist(t, Append(hist[t], cur[t]), ok)
  /\ GoTo(t, "shift", ok)
  /\ UNCHANGED <<ops, retrying, loading, worldVars, fate, bounds>>

RemoveHead(t, ok) ==
  /\ pc[t] = "shift"
  /\ SaveOps(t, DropHead(ops[t]), ok)
  /\ GoTo(t, "notify", ok)
  /\ UNCHANGED <<hist, retrying, loading, worldVars, fate, bounds>>

(* The client's listener saves the state that results from the outcome.    *)
Notify(t, ok) ==
  /\ pc[t] = "notify"
  /\ failures' = IF ok THEN failures ELSE failures + 1
  /\ IF ok THEN /\ pc' = [pc EXCEPT ![t] = IF setting.batchAdapter THEN "batch" ELSE "head"]
                /\ cur' = [cur EXCEPT ![t] = Null]
                /\ UNCHANGED <<attempt, batch>>
           ELSE Stop(t)
  /\ UNCHANGED <<ops, hist, stored, retrying, news, loading, worldVars, fate, bounds>>
-----------------------------------------------------------------------------
(* A batch (applySyncProgress): one request for the operations queued when *)
(* it is sent, and one result for each, applied in turn.                   *)

SendBatch(t) ==
  /\ pc[t] = "ready" /\ setting.batchAdapter /\ ops[t] # <<>>
  /\ batch' = [batch EXCEPT ![t] = [i \in DOMAIN ops[t] |-> ops[t][i].id]]
  /\ Ask(Ids(ops[t]))
  /\ pc' = [pc EXCEPT ![t] = "batchSent"]
  /\ UNCHANGED <<ops, hist, stored, cur, attempt, tabVars, verdicts, fate, bounds>>

ResultsOf(o) ==
  {[id |-> o, answer |-> v] :
     v \in verdicts[o] \union (IF verdicts[o] = {} \/ o \in repeated THEN {"retry"} ELSE {})}

ReceiveBatch(t) ==
  /\ pc[t] = "batchSent"
  /\ \E result \in [ToSet(batch[t]) -> UNION {ResultsOf(o) : o \in ToSet(batch[t])}] :
       /\ \A o \in ToSet(batch[t]) : result[o] \in ResultsOf(o)
       /\ batch' = [batch EXCEPT ![t] = [i \in DOMAIN @ |-> result[@[i]]]]
  /\ pc' = [pc EXCEPT ![t] = "batch"]
  /\ UNCHANGED <<ops, hist, stored, cur, attempt, tabVars, worldVars, fate, bounds>>

LoseBatch(t) ==
  /\ pc[t] = "batchSent"
  /\ Stop(t)
  /\ UNCHANGED <<ops, hist, stored, tabVars, worldVars, fate, bounds>>

FinishBatch(t) ==
  /\ pc[t] = "batch" /\ batch[t] = <<>>
  /\ Stop(t)
  /\ UNCHANGED <<ops, hist, stored, tabVars, worldVars, fate, bounds>>

NextResult(t, place, ok) ==
  IF ok THEN /\ batch' = [batch EXCEPT ![t] = Tail(@)]
             /\ pc' = [pc EXCEPT ![t] = place]
             /\ cur' = [cur EXCEPT ![t] = IF place = "batch" THEN Null ELSE Head(batch[t]).id]
             /\ UNCHANGED attempt
  ELSE Stop(t)

IgnoreResult(t) ==
  /\ pc[t] = "batch" /\ batch[t] # <<>> /\ Head(batch[t]).id \notin Ids(ops[t])
  /\ NextResult(t, "batch", TRUE)
  /\ UNCHANGED <<ops, hist, stored, tabVars, worldVars, fate, bounds>>

ApplyRetryable(t, ok) ==
  /\ pc[t] = "batch" /\ batch[t] # <<>> /\ Head(batch[t]).id \in Ids(ops[t])
  /\ Head(batch[t]).answer = "retry"
  /\ SaveOps(t, [i \in DOMAIN ops[t] |->
                  IF ops[t][i].id = Head(batch[t]).id
                  THEN [ops[t][i] EXCEPT !.status = "FAILED_RETRYABLE"] ELSE ops[t][i]], ok)
  /\ NextResult(t, "batch", ok)
  /\ UNCHANGED <<hist, retrying, loading, worldVars, fate, bounds>>

ApplyAccepted(t, ok) ==
  /\ pc[t] = "batch" /\ batch[t] # <<>> /\ Head(batch[t]).id \in Ids(ops[t])
  /\ Head(batch[t]).answer = "ok"
  /\ SaveOps(t, Without(ops[t], Head(batch[t]).id), ok)
  /\ fate' = [fate EXCEPT ![Head(batch[t]).id] = "accepted"]
  /\ NextResult(t, "notify", ok)
  /\ UNCHANGED <<hist, retrying, loading, worldVars, bounds>>

(* Mutant: the operations are saved before the rejection, as in SkipHead.  *)
MutantApplyRejected(t, ok) ==
  /\ pc[t] = "batch" /\ batch[t] # <<>> /\ Head(batch[t]).id \in Ids(ops[t])
  /\ Head(batch[t]).answer = "no" /\ Len(hist[t]) < setting.maxHistory
  /\ SaveOps(t, Without(ops[t], Head(batch[t]).id), ok)
  /\ hist' = [hist EXCEPT ![t] = Append(@, Head(batch[t]).id)]
  /\ fate' = [fate EXCEPT ![Head(batch[t]).id] = "rejected"]
  /\ NextResult(t, "skipped", ok)
  /\ UNCHANGED <<retrying, loading, worldVars, bounds>>

(* The rejection is saved before the operations.                           *)
ApplyRejected(t, ok) ==
  /\ pc[t] = "batch" /\ batch[t] # <<>> /\ Head(batch[t]).id \in Ids(ops[t])
  /\ Head(batch[t]).answer = "no" /\ Len(hist[t]) < setting.maxHistory
  /\ ops' = [ops EXCEPT ![t] = Without(@, Head(batch[t]).id)]
  /\ SaveHist(t, Append(hist[t], Head(batch[t]).id), ok)
  /\ fate' = [fate EXCEPT ![Head(batch[t]).id] = "rejected"]
  /\ NextResult(t, "batchSave", ok)
  /\ UNCHANGED <<retrying, loading, worldVars, bounds>>

SaveApplied(t, ok) ==
  /\ pc[t] = "batchSave"
  /\ SaveOps(t, ops[t], ok)
  /\ GoTo(t, "notify", ok)
  /\ UNCHANGED <<hist, retrying, loading, worldVars, fate, bounds>>
-----------------------------------------------------------------------------
(* Reloading after another tab's change: the operations are read, then     *)
(* assigned, then the history.  Only the start looks at the state.         *)

StartReload(t) ==
  /\ Open(t) /\ news[t] /\ loading[t] = Null
  /\ news' = [news EXCEPT ![t] = FALSE]
  /\ loading' = IF Syncing(t) THEN loading
                ELSE [loading EXCEPT ![t] = [part |-> "ops", value |-> Normalized(stored.ops)]]
  /\ UNCHANGED <<ops, hist, stored, loopVars, retrying, failures, worldVars, fate, bounds>>

AssignOps(t) ==
  /\ loading[t] # Null /\ loading[t].part = "ops"
  /\ ops' = [ops EXCEPT ![t] = loading[t].value]
  /\ loading' = [loading EXCEPT ![t] = [part |-> "hist", value |-> stored.hist]]
  /\ UNCHANGED <<hist, stored, loopVars, retrying, news, failures, worldVars, fate, bounds>>

AssignHist(t) ==
  /\ loading[t] # Null /\ loading[t].part = "hist"
  /\ hist' = [hist EXCEPT ![t] = loading[t].value]
  /\ loading' = [loading EXCEPT ![t] = Null]
  /\ UNCHANGED <<ops, stored, loopVars, retrying, news, failures, worldVars, fate, bounds>>
-----------------------------------------------------------------------------
(* A tab is closed, or dies, between any two steps, and comes back.        *)
Crash(t) ==
  /\ Open(t) /\ crashes < setting.maxCrashes
  /\ crashes' = crashes + 1
  /\ ops' = [ops EXCEPT ![t] = <<>>] /\ hist' = [hist EXCEPT ![t] = <<>>]
  /\ pc' = [pc EXCEPT ![t] = "closed"] /\ cur' = [cur EXCEPT ![t] = Null]
  /\ attempt' = [attempt EXCEPT ![t] = 0] /\ batch' = [batch EXCEPT ![t] = <<>>]
  /\ retrying' = [retrying EXCEPT ![t] = Null]
  /\ news' = [news EXCEPT ![t] = FALSE] /\ loading' = [loading EXCEPT ![t] = Null]
  /\ UNCHANGED <<stored, failures, worldVars, fate, userRetries>>

Restart(t) ==
  /\ pc[t] = "closed"
  /\ ops' = [ops EXCEPT ![t] = Normalized(stored.ops)]
  /\ hist' = [hist EXCEPT ![t] = stored.hist]
  /\ pc' = [pc EXCEPT ![t] = "ready"]
  /\ UNCHANGED <<stored, cur, attempt, batch, tabVars, worldVars, fate, bounds>>

Loop(t, ok) ==
  \/ SkipHead(t, ok) \/ SaveSkipped(t, ok) \/ Send(t, ok)
  \/ ReceiveFinal(t, ok) \/ ReceiveRetryable(t, ok) \/ GiveUp(t, ok)
  \/ RecordRejection(t, ok) \/ RemoveHead(t, ok) \/ Notify(t, ok)
  \/ ApplyRetryable(t, ok) \/ ApplyAccepted(t, ok) \/ ApplyRejected(t, ok)
  \/ SaveApplied(t, ok)

Step(t) ==
  \/ Finish(t) \/ TakeHead(t) \/ TryAgain(t)
  \/ ReceiveBatch(t) \/ LoseBatch(t) \/ FinishBatch(t) \/ IgnoreResult(t)
  \/ \E ok \in SaveOutcomes : Loop(t, ok)

Call(t) ==
  \/ \E ok \in SaveOutcomes :
       \/ \E o \in Ops : Enqueue(t, o, ok) \/ RetryRejected(t, o, ok)
       \/ \E o \in ToSet(hist[t]) : DiscardRejected(t, {o}, ok)
       \/ DiscardRejected(t, ToSet(hist[t]), ok)
       \/ Clear(t, ok)
  \/ Sync(t) \/ SendBatch(t)

Reload(t) == StartReload(t) \/ AssignOps(t) \/ AssignHist(t)

Next ==
  /\ \/ \E t \in Tabs :
          \/ Call(t) \/ Step(t) \/ Reload(t) \/ Crash(t) \/ Restart(t)
          \/ \E ok \in SaveOutcomes : FinishRetry(t, ok)
     \/ \E o \in Ops : (\E v \in {"ok", "no"} : Decide(o, v)) \/ Lapse(o)
  /\ UNCHANGED setting

Spec == Init /\ [][Next]_<<vars, setting>>

AllTabs == UNION {s.tabs : s \in Settings}

(* The steps of a synchronization follow each other: storage, the sender   *)
(* and the listener settle every promise.  Calls, crashes and the server's *)
(* decisions are not owed.                                                 *)
FairSpec == Spec /\ \A t \in AllTabs : WF_vars(t \in Tabs /\ Step(t))
-----------------------------------------------------------------------------
(* An operation whose enqueue was saved and that has no answer yet is in   *)
(* storage: whenever the tab dies, it will be sent again.                  *)
UnansweredRetained == \A o \in Ops : fate[o] = "queued" => o \in Ids(stored.ops)

(* The same of an operation for which retryRejected resolved to true.      *)
RetriedRetained == \A o \in Ops : fate[o] = "retried" => o \in Ids(stored.ops)

(* On these the server may say both: on what it may decide on twice, and   *)
(* on check-ins that wait for such a one or for a spot visited elsewhere.  *)
DoubtClosed(os) ==
  /\ repeated \subseteq os
  /\ \A o \in Ops : setting.requires[o] \intersect (os \union setting.elsewhere) # {} => o \in os

Doubtful == {o \in Ops : \A os \in SUBSET Ops : DoubtClosed(os) => o \in os}

(* What the history calls rejected never took effect on the server, unless *)
(* its result there was lost, it is a check-in that was sent again while   *)
(* undecided, or it needs a check-in of one of these or of another device. *)
RejectionsTrue ==
  \A o \in Ops \ Doubtful : "ok" \in verdicts[o] =>
    ~Contains(stored.hist, o) /\ \A t \in Tabs : ~Contains(hist[t], o)

(* A rejection that a batch reported survives the tab: the operation is    *)
(* still queued or is in the history, unless the user discarded or retried *)
(* it (applySyncProgress).                                                 *)
RejectionsKept ==
  setting.batchAdapter => \A o \in Ops : fate[o] = "rejected" => o \in Ids(stored.ops) \/ Contains(stored.hist, o)

(* Every synchronization ends, whatever the network does.                  *)
SyncEnds == \A t \in AllTabs : []<>(t \in Tabs => pc[t] \in {"ready", "closed"})
=============================================================================
