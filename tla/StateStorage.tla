----------------------------- MODULE StateStorage -----------------------------
(***************************************************************************)
(* The state storages of @stamprally/core under one user's key:            *)
(* LocalStorageAdapter in its two failure modes, whose calls are over at   *)
(* once, and IndexedDBAdapter, which opens its database on first use and   *)
(* keeps the promise of the connection. The client makes one call at a     *)
(* time; getUserState reads beside it. A state is the number of the write  *)
(* that made it, a removal is a write too.                                 *)
(***************************************************************************)
EXTENDS Integers, FiniteSets

CONSTANTS
  Adapters,    \* "fallback" and "throw", the localStorage modes, "indexeddb"
  MaxWrites,   \* bound: the writes of a session
  MaxOutages,  \* bound: the times the device starts to fail
  MaxReloads   \* bound: the times the page is loaded again

Callers == {"client", "reader"}

Nothing == 0         \* the key is not there
Bad == -1            \* data that is not a state
Failed == -2         \* the answer of a call that was rejected
Unanswered == -3

VARIABLES
  adapter,
  disk,        \* what the browser keeps: [state, write]
  memory,      \* the same, of the fallback storage
  fallen,      \* isFallbackActive
  connection,  \* databasePromise: "none", "opening", "open" or "failed"
  call,        \* what each caller waits for, "none" when it does not
  answer,      \* how the latest call of each ended
  newest,      \* history variable: the latest write that was resolved ...
  since,       \* ... and what it was when each caller's latest call began
  writes, broken, outages, reloads

storageVars == <<adapter, disk, memory, fallen, connection, call, answer,
                 newest, since, writes, broken, outages, reloads>>

Cell(state, write) == [state |-> state, write |-> write]

(* A page that has just come.                                              *)
FreshStorage ==
  /\ memory = Cell(Nothing, 0) /\ fallen = FALSE
  /\ connection = "none"
  /\ call = [c \in Callers |-> "none"]
  /\ answer = [c \in Callers |-> Unanswered]
  /\ newest = 0 /\ since = [c \in Callers |-> 0]
  /\ writes = 0 /\ broken = FALSE /\ outages = 0 /\ reloads = 0

StorageInit ==
  /\ adapter \in Adapters
  /\ disk \in {Cell(Nothing, 0), Cell(Bad, 0)}
  /\ FreshStorage

Calls(c) == IF c = "client" /\ writes < MaxWrites THEN {"load", "save", "remove"} ELSE {"load"}

Writing(kind) == kind \in {"save", "remove"}

(* A cell after a call; a load leaves it.                                  *)
After(kind, cell) ==
  CASE kind = "save" -> Cell(writes + 1, writes + 1)
    [] kind = "remove" -> Cell(Nothing, writes + 1)
    [] OTHER -> cell

(* The call of c is resolved, with what a load found in the cell.          *)
Resolve(c, kind, cell) ==
  /\ answer' = [answer EXCEPT ![c] = IF kind = "load" THEN cell.state ELSE Nothing]
  /\ writes' = IF Writing(kind) THEN writes + 1 ELSE writes
  /\ newest' = IF Writing(kind) THEN writes + 1 ELSE newest

Reject(c) ==
  /\ answer' = [answer EXCEPT ![c] = Failed]
  /\ UNCHANGED <<writes, newest>>

(* The device may fail a call while it is broken, and has no state to give *)
(* when its data is bad.                                                   *)
Outcomes(kind) ==
  {ok \in BOOLEAN : IF ok THEN ~(kind = "load" /\ disk.state = Bad)
                          ELSE broken \/ (kind = "load" /\ disk.state = Bad)}

Ask(c) == since' = [since EXCEPT ![c] = newest]

-----------------------------------------------------------------------------
(* LocalStorageAdapter.                                                    *)

MutantFalls == fallen

(* handleFailure: from now on the storage in memory has every call.        *)
Falls == TRUE

LocalCall(c) ==
  /\ adapter \in {"fallback", "throw"} /\ Ask(c)
  /\ \E kind \in Calls(c) :
       \/ /\ fallen
          /\ memory' = After(kind, memory) /\ Resolve(c, kind, memory)
          /\ UNCHANGED <<disk, fallen>>
       \/ /\ ~fallen /\ TRUE \in Outcomes(kind)
          /\ disk' = After(kind, disk) /\ Resolve(c, kind, disk)
          /\ UNCHANGED <<memory, fallen>>
       \/ /\ ~fallen /\ FALSE \in Outcomes(kind) /\ adapter = "fallback"
          /\ fallen' = Falls
          /\ memory' = After(kind, memory) /\ Resolve(c, kind, memory)
          /\ UNCHANGED disk
       \/ /\ ~fallen /\ FALSE \in Outcomes(kind) /\ adapter = "throw"
          /\ Reject(c)
          /\ UNCHANGED <<disk, memory, fallen>>
  /\ UNCHANGED <<adapter, connection, call, broken, outages, reloads>>

-----------------------------------------------------------------------------
(* IndexedDBAdapter. A call waits for the connection, which the first one  *)
(* starts to open, and then makes a transaction, which is all or nothing.  *)

BeginCall(c) ==
  /\ adapter = "indexeddb" /\ call[c] = "none" /\ Ask(c)
  /\ \E kind \in Calls(c) : call' = [call EXCEPT ![c] = kind]
  /\ connection' = IF connection = "none" THEN "opening" ELSE connection
  /\ answer' = [answer EXCEPT ![c] = Unanswered]
  /\ UNCHANGED <<adapter, disk, memory, fallen, newest, writes, broken, outages, reloads>>

OpenDatabase ==
  /\ connection = "opening"
  /\ \/ connection' = "open"
     \/ broken /\ connection' = "failed"
  /\ UNCHANGED <<adapter, disk, memory, fallen, call, answer, newest, since, writes,
                 broken, outages, reloads>>

MutantAfterFailure == "failed"

(* The promise of an opening that failed is not kept.                      *)
AfterFailure == "none"

(* Every call that waits for the opening is rejected with it.              *)
FailToOpen ==
  /\ connection = "failed"
  /\ connection' = AfterFailure
  /\ call' = [c \in Callers |-> "none"]
  /\ answer' = [c \in Callers |-> IF call[c] = "none" THEN answer[c] ELSE Failed]
  /\ UNCHANGED <<adapter, disk, memory, fallen, newest, since, writes, broken, outages, reloads>>

Transact(c) ==
  /\ call[c] # "none" /\ connection = "open"
  /\ call' = [call EXCEPT ![c] = "none"]
  /\ \/ /\ TRUE \in Outcomes(call[c])
        /\ disk' = After(call[c], disk) /\ Resolve(c, call[c], disk)
     \/ /\ FALSE \in Outcomes(call[c])
        /\ Reject(c) /\ UNCHANGED disk
  /\ UNCHANGED <<adapter, memory, fallen, connection, since, broken, outages, reloads>>

-----------------------------------------------------------------------------
(* The device stops working (the quota, a privacy setting) or works again. *)
Outage ==
  /\ broken \/ outages < MaxOutages
  /\ broken' = ~broken
  /\ outages' = IF broken THEN outages ELSE outages + 1
  /\ UNCHANGED <<adapter, disk, memory, fallen, connection, call, answer, newest, since,
                 writes, reloads>>

(* What was in memory is gone, and so is what a page knows of its writes.  *)
ReloadPage ==
  /\ reloads < MaxReloads /\ reloads' = reloads + 1
  /\ memory' = Cell(Nothing, 0) /\ fallen' = FALSE
  /\ connection' = "none" /\ call' = [c \in Callers |-> "none"]
  /\ answer' = [c \in Callers |-> Unanswered]
  /\ newest' = 0 /\ since' = [c \in Callers |-> 0]
  /\ UNCHANGED <<adapter, disk, writes, broken, outages>>

StorageNext ==
  \/ \E c \in Callers : LocalCall(c) \/ BeginCall(c) \/ Transact(c)
  \/ OpenDatabase \/ FailToOpen
  \/ Outage \/ ReloadPage

(* The client calls again, the browser answers, and an outage passes.      *)
StorageFairness ==
  /\ WF_storageVars(LocalCall("client")) /\ WF_storageVars(BeginCall("client"))
  /\ WF_storageVars(Transact("client")) /\ WF_storageVars(OpenDatabase \/ FailToOpen)
  /\ WF_storageVars(broken /\ Outage)

-----------------------------------------------------------------------------
(* Within a page no load gives a state that a write which had been         *)
(* resolved before the load began replaced, through every failure of the   *)
(* device between: memory and localStorage never take turns.               *)
NeverOlder ==
  \A c \in Callers : answer[c] > 0 => answer[c] >= since[c]

(* A device that failed and works again is used again: the connection that *)
(* could not be opened is not the last one. Only data that is not a state  *)
(* goes on being refused, until it is replaced or removed.                 *)
StorageRecovers ==
  <>[](answer["client"] = Failed => disk.state = Bad)
=============================================================================
