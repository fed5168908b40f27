------------------------------ MODULE SyncBatch ------------------------------
(***************************************************************************)
(* StampRallyServer.syncProgress (packages/server/src/server.ts): the      *)
(* operations a device queued go through checkIn and claimReward one after *)
(* the other, next to the requests of other devices, and each gets a       *)
(* result; then the state of the user is read and its inventory attached.  *)
(***************************************************************************)
EXTENDS StampRallyServer, SequencesExt

CONSTANTS
  BatchUser,
  Batch      \* the requests sent as operations, as a sequence in the order
             \* sortOperationsDeterministically gives them

ASSUME BatchAssumption ==
  /\ BatchUser \in Users
  /\ Batch \in Seq(Requests)
  /\ \A i, j \in DOMAIN Batch : Batch[i] = Batch[j] => i = j
  /\ \A i \in DOMAIN Batch : Call[Batch[i]].user = BatchUser

Operations == ToSet(Batch)

VARIABLES
  stage,     \* where syncProgress is
  position,  \* the operation in work, as its place in the batch
  results,   \* [Requests -> the status of its operation, Null without one]
  refused,   \* rejectedCheckIns
  current    \* what it returns: the user's state, and what is left of rewards

batch == <<stage, position, results, refused, current>>
all   == <<vars, batch>>

BatchInit ==
  /\ Init
  /\ stage = "idle" /\ position = 0 /\ refused = {} /\ current = Null
  /\ results = [r \in Requests |-> Null]

InWork(r) == stage = "running" /\ Batch[position] = r

(* On to the operation at place next, or behind the last one.              *)
GoOn(next) ==
  /\ stage' = IF next > Len(Batch) THEN "syncing" ELSE "running"
  /\ position' = next

Statuses == {"ACCEPTED", "FAILED_RETRYABLE", "REJECTED_PERMANENT"}

ASSUME NullIsNoStatus == Null \notin Statuses

(* syncOperationResult, with operationStatus.                              *)
OperationStatus(answer) ==
  IF answer.code = "OK" THEN "ACCEPTED"
  ELSE IF answer.code \in {"CONFLICT", "PERSISTENCE_FAILED"} THEN "FAILED_RETRYABLE"
  ELSE "REJECTED_PERMANENT"

StartBatch ==
  /\ stage = "idle" /\ GoOn(1)
  /\ UNCHANGED <<vars, results, refused, current>>

Conclude(r, status) ==
  /\ results' = [results EXCEPT ![r] = status]
  /\ GoOn(position + 1)
  /\ refused' = IF r \in CheckIns /\ status = "REJECTED_PERMANENT"
                THEN refused \union {Call[r].resource} ELSE refused
  /\ UNCHANGED current

NeedsRefused(r) == r \in CheckIns /\ SpotDef[Call[r].resource].prerequisites \intersect refused # {}

(* A check-in is refused unseen when one that it needs was rejected.       *)
RefuseDependent(r) ==
  /\ InWork(r) /\ pc[r] = "idle" /\ NeedsRefused(r)
  /\ Conclude(r, "REJECTED_PERMANENT")
  /\ UNCHANGED vars

(* checkIn or claimReward of the operation, up to its answer.              *)
RunOperation(r) ==
  /\ InWork(r) /\ pc[r] \notin {"done", "crashed"} /\ (pc[r] = "idle" => ~NeedsRefused(r))
  /\ HandlerStep(r) \/ StorageFails(r)
  /\ UNCHANGED batch

TakeResult(r) ==
  /\ InWork(r) /\ pc[r] = "done"
  /\ Conclude(r, OperationStatus(response[r]))
  /\ UNCHANGED vars

(* The adapter throws outside the handler's own try, before the lock is    *)
(* held or when it is released: the error is the result.                   *)
OperationThrows(r) ==
  /\ InWork(r) /\ r \in Faulty /\ pc[r] \in {"idle", "missed", "releasing"}
  /\ pc[r] = "idle" => ~NeedsRefused(r)
  /\ Goto(r, "crashed")
  /\ Conclude(r, "FAILED_RETRYABLE")
  /\ UNCHANGED <<clock, locks, store, startedAt, snapshot, response>>

(* Mutant: the state is the one of the last check-in of the batch.         *)
MutantReadCurrent ==
  /\ stage = "syncing" /\ stage' = "attaching"
  /\ current' = [state |-> LET ran == {r \in CheckIns : results[r] # Null /\ snapshot[r] # Null}
                           IN  IF ran = {} THEN StateOf(BatchUser, clock)
                               ELSE snapshot[CHOOSE r \in ran : TRUE],
                 left |-> Null]
  /\ UNCHANGED <<vars, position, results, refused>>

(* Mutant: what may still be accepted is in the state already.             *)
MutantOptimistic ==
  /\ stage = "syncing" /\ stage' = "attaching"
  /\ current' = [state |-> LET state == StateOf(BatchUser, clock)
                               waiting == {r \in CheckIns : results[r] = "FAILED_RETRYABLE"}
                           IN  [state EXCEPT !.stamps = @ \union {Call[r].resource : r \in waiting}],
                 left |-> Null]
  /\ UNCHANGED <<vars, position, results, refused>>

(* sync: the state as it is stored by now ...                              *)
ReadCurrent ==
  /\ stage = "syncing" /\ stage' = "attaching"
  /\ current' = [state |-> StateOf(BatchUser, clock), left |-> Null]
  /\ UNCHANGED <<vars, position, results, refused>>

Remaining(rw) ==
  IF SecondaryKey(rw) # Null THEN SecondaryStock(rw)
  ELSE IF PrimaryKey(rw) # SharedKey THEN PrimaryStock(rw) ELSE Null

SharedRemaining ==
  IF Pooled /\ SharedStock # Null THEN OrElse(stocks[SharedKey], SharedStock) ELSE Null

(* ... and #attachInventory, what is left by then.                         *)
AttachInventory ==
  /\ stage = "attaching" /\ stage' = "returned"
  /\ current' = [current EXCEPT
       !.left = [key \in Rewards \union {SharedKey} |->
                   IF key = SharedKey THEN SharedRemaining ELSE Remaining(key)]]
  /\ UNCHANGED <<vars, position, results, refused>>

(* The process dies with the operation it works on, or the state cannot be *)
(* read: no result reaches the device.                                     *)
BatchLost ==
  /\ \/ stage = "running" /\ Crash(Batch[position])
     \/ stage \in {"syncing", "attaching"} /\ Faulty # {} /\ UNCHANGED vars
  /\ stage' = "lost"
  /\ UNCHANGED <<position, results, refused, current>>

BatchStep ==
  \/ StartBatch \/ ReadCurrent \/ AttachInventory
  \/ \E r \in Operations :
       RefuseDependent(r) \/ RunOperation(r) \/ TakeResult(r) \/ OperationThrows(r)

(* The other requests, leases, results that lapse, and time.               *)
Elsewhere ==
  /\ \/ \E r \in Requests \ Operations : HandlerStep(r) \/ StorageFails(r) \/ Crash(r)
     \/ \E lock \in locks : LeaseExpires(lock)
     \/ \E k \in IdempotencyKeys : ResultLapses(k)
     \/ Tick
  /\ UNCHANGED batch

BatchNext == BatchStep \/ BatchLost \/ Elsewhere

BatchSpec == BatchInit /\ [][BatchNext]_all

(* A server process runs what it has taken up; leases run out.             *)
FairBatchSpec ==
  /\ BatchSpec
  /\ WF_all(BatchStep)
  /\ \A r \in Requests \ Operations : WF_all(pc[r] # "idle" /\ HandlerStep(r) /\ UNCHANGED batch)
  /\ \A lock \in LockKeys : WF_all(LeaseExpires(lock) /\ UNCHANGED batch)
-----------------------------------------------------------------------------
AcceptedCheckIns == {r \in CheckIns : results[r] = "ACCEPTED"}

(* The device drops what was accepted and shows what was returned: each    *)
(* accepted stamp is in it, with those of the other devices, and none that *)
(* the server does not hold.                                               *)
ReturnsAccepted ==
  stage = "returned" =>
    /\ {Call[r].resource : r \in AcceptedCheckIns} \subseteq current.state.stamps
    /\ current.state.stamps \subseteq StateOf(BatchUser, clock).stamps

(* docs/GUIDE.md:142 currentState "contains only successful mutations":    *)
(* every stamp in it was logged as a success.                              *)
ReturnsOnlySuccesses ==
  current # Null =>
    \A spot \in current.state.stamps :
      \E r \in CheckIns : Call[r].resource = spot /\ audit[r] = "SUCCESS"

(* docs/GUIDE.md:140 a failure "is isolated to that operation": a check-in *)
(* is not rejected for its prerequisite when that was accepted before it   *)
(* in the batch, whatever else failed, came from elsewhere or was written  *)
(* in between.                                                             *)
AcceptedPrerequisitesCount ==
  \A i, j \in DOMAIN Batch :
    LET r == Batch[i]
        s == Batch[j]
    IN  /\ i < j /\ {r, s} \subseteq CheckIns /\ results[s] # Null
        /\ results[r] = "ACCEPTED" /\ SpotDef[Call[s].resource].prerequisites = {Call[r].resource}
        => /\ pc[s] # "idle"
           /\ response[s] # Null => response[s].code # "PREREQUISITES_NOT_MET"

(* Whatever fails on the way: every request a server took up is answered   *)
(* or its process died, a batch is returned or lost with its process, and  *)
(* no lock stays behind, that of a dead holder included.                   *)
EverythingEnds ==
  <>[](/\ \A r \in Requests : pc[r] \in {"idle", "done", "crashed"}
       /\ stage \in {"idle", "returned", "lost"}
       /\ locks = {})
=============================================================================
