----------------------------- MODULE QueueStorage -----------------------------
(***************************************************************************)
(* Where the offline queue of @stamprally/core keeps its operations: the   *)
(* storage it selects when it is made, the scope (a user) it works for,    *)
(* and the memory it falls back to when a scope cannot be loaded. The      *)
(* client makes one call of the queue at a time, so a call is one step.    *)
(* The rejection history goes the same ways under a key of its own and is  *)
(* left out; what a synchronization does is OfflineQueue.                  *)
(***************************************************************************)
EXTENDS FiniteSets, Naturals

CONSTANTS
  Users,           \* the scopes of one rally
  Operations,      \* the operations a user may enqueue
  MaxBreakdowns,   \* bound: the times the device starts to fail
  MaxVisits        \* bound: the pages that are loaded

NoScope == "unscoped"
Unreadable == {"no list"}   \* a value that is not a list of operations

ASSUME UnreadableIsNoList == "no list" \notin Operations

VARIABLES
  offered,     \* what the host and the browser offer a queue
  capability,  \* queueCapability
  scope,       \* the user of the scope
  loaded,
  queued,      \* the operations in the array
  onDevice,    \* what the selected storage holds for each user
  volatile,    \* the same, of MemoryQueueStorage
  warned,      \* the page was told that queued data can be lost
  promised,    \* history variable: what enqueue resolved for, unanswered
  hollow,      \* history variable: those it resolved for and has not yet saved
  failing, breakdowns, visits

queueStorageVars == <<offered, capability, scope, loaded, queued, onDevice, volatile, warned,
                      promised, hollow, failing, breakdowns, visits>>

(* What a call in a loaded scope leaves alone.                             *)
settledVars == <<offered, capability, scope, loaded, warned, failing, breakdowns, visits>>

(* storage, storageLike, or whatever the browser has; access to it may be  *)
(* denied.                                                                 *)
Offers == {"storage", "storageLike", "indexedDB", "localStorage", "nothing"}

(* The constructor and defaultStorage.                                     *)
Selected(offer) ==
  CASE offer = "storage" -> "custom"
    [] offer \in {"storageLike", "localStorage"} -> "localstorage"
    [] offer = "indexedDB" -> "indexeddb"
    [] OTHER -> "memory"

IsPersistent(kind) == kind # "memory"

(* A queue that was just made: nothing is loaded before the first call.    *)
NewQueue ==
  /\ capability' = Selected(offered)
  /\ scope' = NoScope /\ loaded' = FALSE /\ queued' = {}
  /\ volatile' = [u \in Users |-> {}] /\ warned' = FALSE

QueueStorageInit ==
  /\ offered \in Offers /\ capability = Selected(offered)
  /\ scope = NoScope /\ loaded = FALSE /\ queued = {}
  /\ onDevice \in [Users -> {{}, Unreadable}]
  /\ volatile = [u \in Users |-> {}] /\ warned = FALSE
  /\ promised = [u \in Users |-> {}] /\ hollow = {}
  /\ failing = FALSE /\ breakdowns = 0 /\ visits = 1

-----------------------------------------------------------------------------
(* What a value reads as: localStorage and IndexedDB take anything but a   *)
(* list for an empty one.                                                  *)
Readable(value) == IF value = Unreadable THEN {} ELSE value

(* A call of the device may be rejected while it fails: to open a database *)
(* (tried again by the next call), to read or to write in a transaction.   *)
Rejects == IsPersistent(capability) /\ failing

MutantFallback == capability

(* A queue that cannot be loaded is one in memory from then on.            *)
Fallback == "memory"

(* The array goes, with what enqueue resolved for and did not save.        *)
LoseArray(lost) ==
  /\ promised' = [u \in Users |-> promised[u] \ (lost[u] \union IF u = scope THEN hollow ELSE {})]
  /\ hollow' = {}

(* initialize, for the user u: a failed load gives an empty queue, and the *)
(* storage that failed is not touched again.                               *)
Initialize(u) ==
  /\ scope' = u /\ loaded' = TRUE
  /\ \/ /\ queued' = Readable(IF IsPersistent(capability) THEN onDevice[u] ELSE volatile[u])
        /\ warned' = (warned \/ ~IsPersistent(capability))
        /\ UNCHANGED capability
     \/ /\ Rejects
        /\ capability' = Fallback /\ queued' = {} /\ warned' = TRUE
  /\ LoseArray([w \in Users |-> {}])
  /\ UNCHANGED <<offered, onDevice, volatile, failing, breakdowns, visits>>

(* setScope, which client.initialize and switchUser call: a scope that is  *)
(* loaded is not loaded again.                                             *)
SetScope(u) == ~(scope = u /\ loaded) /\ Initialize(u)

(* What the storage holds for the scope.                                   *)
Held == Readable(IF IsPersistent(capability) THEN onDevice[scope] ELSE volatile[scope])

(* The array changes, and save replaces what the scope had by the whole of *)
(* it; the array stays changed if that is rejected.                        *)
Save(operations, ok) ==
  /\ queued' = operations
  /\ IF ~ok THEN Rejects /\ UNCHANGED <<onDevice, volatile>>
     ELSE IF IsPersistent(capability)
     THEN onDevice' = [onDevice EXCEPT ![scope] = operations] /\ UNCHANGED volatile
     ELSE volatile' = [volatile EXCEPT ![scope] = operations] /\ UNCHANGED onDevice
  /\ hollow' = IF ok THEN {} ELSE hollow \intersect operations

(* enqueue, which the client calls for the user of its scope: an operation *)
(* that is in the array is neither added nor saved, even one whose save    *)
(* was rejected and that the application, which may choose the key, calls  *)
(* for again.                                                              *)
EnqueueOperation(op, ok) ==
  /\ loaded
  /\ IF op \in queued
       THEN /\ ok /\ UNCHANGED <<queued, onDevice, volatile>>
            /\ hollow' = hollow \union ({op} \ (promised[scope] \union Held))
       ELSE Save(queued \union {op}, ok)
  /\ promised' = IF ok THEN [promised EXCEPT ![scope] = @ \union {op}] ELSE promised
  /\ UNCHANGED settledVars

(* A synchronization has the answer of an operation, and saves the rest.   *)
RemoveAnswered(op, ok) ==
  /\ loaded /\ op \in queued
  /\ Save(queued \ {op}, ok)
  /\ promised' = [promised EXCEPT ![scope] = @ \ {op}]
  /\ UNCHANGED settledVars

(* clear                                                                   *)
ClearQueue(ok) ==
  /\ loaded /\ Save({}, ok)
  /\ promised' = [promised EXCEPT ![scope] = {}]
  /\ UNCHANGED settledVars

(* The device fails for a while: a full disk, a locked or denied database. *)
Breakdown ==
  /\ failing \/ breakdowns < MaxBreakdowns
  /\ failing' = ~failing
  /\ breakdowns' = IF failing THEN breakdowns ELSE breakdowns + 1
  /\ UNCHANGED <<offered, capability, scope, loaded, queued, onDevice, volatile, warned,
                 promised, hollow, visits>>

(* The page is closed and loaded: what was in memory is gone.              *)
LoadPage ==
  /\ visits < MaxVisits /\ visits' = visits + 1
  /\ NewQueue
  /\ LoseArray(volatile)
  /\ UNCHANGED <<offered, onDevice, failing, breakdowns>>

QueueStorageNext ==
  \/ \E u \in Users : SetScope(u)
  \/ \E ok \in BOOLEAN :
       \/ \E op \in Operations : EnqueueOperation(op, ok) \/ RemoveAnswered(op, ok)
       \/ ClearQueue(ok)
  \/ Breakdown \/ LoadPage

-----------------------------------------------------------------------------

(* An operation that enqueue accepted and that has no answer yet is kept   *)
(* by the device, for the user it belongs to, or the page was told that it *)
(* can be lost; unless enqueue found it in the array since an earlier call *)
(* whose save was rejected, and has not been able to save it since: such a *)
(* one goes with the array, and the page is not warned. A                  *)
(* queue that could not be read is never taken for an empty one and        *)
(* written over, whichever users the device was shared by.                 *)
AcceptedIsKept ==
  \A u \in Users : \A op \in promised[u] :
    op \in Readable(onDevice[u]) \/ (warned /\ op \in volatile[u]) \/ (u = scope /\ op \in hollow)
=============================================================================
