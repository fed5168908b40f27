--------------------------- MODULE SyncBatchProofs ---------------------------
(* What holds of the server holds next to a batch, too, and a batch        *)
(* returns what the server stored, for every batch, set of requests and    *)
(* configuration.                                                          *)
EXTENDS SyncBatch, StampRallyServerProofs

(***************************************************************************)
(* A step of a batch, seen from the server.                                *)
(***************************************************************************)

(* The one step that is not the server's: a request is given up, as by a   *)
(* crash, outside the part of the handler that catches errors.             *)
GivenUp(r) ==
  /\ pc[r] \in {"idle", "missed", "releasing"}
  /\ pc' = [pc EXCEPT ![r] = "crashed"]
  /\ UNCHANGED <<clock, locks, store, startedAt, snapshot, response>>

ServerStep == [Next]_vars \/ \E r \in Requests : GivenUp(r)

LEMMA OperationsAreRequests == \A r \in Operations : r \in Requests
BY BatchAssumption DEF Operations, ToSet

LEMMA BatchSteps == [BatchNext]_all => ServerStep
<1> SUFFICES ASSUME [BatchNext]_all PROVE ServerStep
  OBVIOUS
<1>1. CASE UNCHANGED all
  BY <1>1 DEF all, ServerStep
<1>2. CASE StartBatch \/ ReadCurrent \/ AttachInventory
  BY <1>2 DEF StartBatch, ReadCurrent, AttachInventory, ServerStep
<1>3. ASSUME NEW r \in Operations,
             RefuseDependent(r) \/ RunOperation(r) \/ TakeResult(r) \/ OperationThrows(r)
      PROVE  ServerStep
  <2>1. r \in Requests
    BY OperationsAreRequests
  <2>2. CASE RefuseDependent(r) \/ TakeResult(r)
    BY <2>2 DEF RefuseDependent, TakeResult, ServerStep
  <2>3. CASE RunOperation(r)
    BY <2>1, <2>3 DEF RunOperation, ServerStep, Next
  <2>4. CASE OperationThrows(r)
    BY <2>1, <2>4 DEF OperationThrows, ServerStep, GivenUp, Goto
  <2> QED
    BY <1>3, <2>2, <2>3, <2>4
<1>4. CASE BatchLost
  <2>1. Crash(Batch[position]) \/ UNCHANGED vars
    BY <1>4 DEF BatchLost
  <2>2. CASE Crash(Batch[position])
    <3>1. Batch[position] \in Requests
      BY <2>2, CallAssumption DEF Crash
    <3> QED
      BY <2>2, <3>1 DEF ServerStep, Next
  <2> QED
    BY <2>1, <2>2 DEF ServerStep
<1>5. CASE Elsewhere
  BY <1>5 DEF Elsewhere, ServerStep, Next
<1> QED
  BY <1>1, <1>2, <1>3, <1>4, <1>5 DEF BatchNext, BatchStep

LEMMA GivenUpType ==
  ASSUME TypeOK, SnapshotTaken, NEW r \in Requests, GivenUp(r)
  PROVE  TypeOK' /\ SnapshotTaken'
<1>1. TypeOK'
  BY DEF GivenUp, TypeOK, store
<1>2. \A q \in CheckIns : pc'[q] = "ready" => pc[q] = "ready"
  BY DEF GivenUp, TypeOK, CheckIns
<1> QED
  BY <1>1, <1>2 DEF SnapshotTaken, GivenUp

LEMMA ServerStepStates == StateInv /\ ServerStep => StateInv'
<1> SUFFICES ASSUME StateInv, NEW r \in Requests, GivenUp(r) PROVE StateInv'
  BY StepStates DEF ServerStep
<1> QED
  BY GivenUpType, QuietStates DEF StateInv, GivenUp, store

LEMMA ServerStepLog == LogInv /\ ServerStep => LogInv'
<1> SUFFICES ASSUME LogInv, NEW r \in Requests, GivenUp(r) PROVE LogInv'
  BY StepLog DEF ServerStep
<1>1. StateInv'
  BY ServerStepStates DEF LogInv, ServerStep
<1>2. IssuedAtCommit'
  BY QuietIssued DEF GivenUp, store
<1>3. RecordsLogged' /\ AnswersRecorded'
  BY DEF GivenUp, store, LogInv, RecordsLogged, AnswersRecorded, StoredResult
<1> QED
  BY <1>1, <1>2, <1>3 DEF LogInv

LEMMA ServerStepStamps ==
  ASSUME ~SlowHolders
  PROVE  LockInv /\ ServerStep => LockInv' /\ StampsStay
<1> SUFFICES ASSUME LockInv, NEW r \in Requests, GivenUp(r) PROVE LockInv' /\ StampsStay
  BY StepStamps DEF ServerStep
<1>1. TypeOK' /\ SnapshotTaken'
  BY GivenUpType DEF LockInv
<1>2. HeldAlone'
  BY QuietLocks DEF GivenUp, LockInv
<1>3. SnapshotsCurrent'
  <2>1. \A q \in CheckIns : pc'[q] = "ready" => pc[q] = "ready"
    BY DEF GivenUp, LockInv, TypeOK, CheckIns
  <2> QED
    BY <2>1, QuietSnapshots DEF LockInv, GivenUp, store
<1> QED
  BY <1>1, <1>2, <1>3 DEF LockInv, StampsStay, GivenUp, store

LEMMA ServerStepLedger ==
  ASSUME Durable
  PROVE  LedgerInv /\ ServerStep => LedgerInv' /\ [Ledger!Next]_claimRecords
<1> SUFFICES ASSUME LedgerInv, NEW r \in Requests, GivenUp(r)
             PROVE  LedgerInv' /\ UNCHANGED claimRecords
  BY StepLedgerInv, StepIssues DEF ServerStep
<1>1. TypeOK' /\ SnapshotTaken'
  BY GivenUpType DEF LedgerInv
<1> QED
  BY <1>1, QuietStep DEF GivenUp, store

(* No stored stamp is lost next to a batch, either.                        *)
THEOREM BatchKeepsStamps == ASSUME ~SlowHolders PROVE BatchSpec => StampsKept
<1>1. BatchInit => LockInv
  BY InitLocks DEF BatchInit
<1>2. LockInv /\ [BatchNext]_all => LockInv'
  BY ServerStepStamps, BatchSteps
<1>3. LockInv /\ [BatchNext]_all => [StampsStay]_vars
  BY ServerStepStamps, BatchSteps
<1>4. [StampsStay]_vars <=>
      [\A u \in Users :
         userStates[u] # Null =>
           userStates'[u] # Null /\ userStates[u].stamps \subseteq userStates'[u].stamps]_vars
  BY DEF StampsStay
<1> QED
  BY <1>1, <1>2, <1>3, <1>4, PTL DEF BatchSpec, StampsKept

(* The tickets that a batch and the requests next to it issue keep the     *)
(* promises of the ledger.                                                 *)
THEOREM BatchKeepsPromises ==
  ASSUME Durable
  PROVE  BatchSpec => ImplementsLedger /\ []ClaimLimitRespected
<1>1. BatchInit => LedgerInv /\ Ledger!Init
  BY InitLedgerInv DEF BatchInit, Init, Ledger!Init
<1>2. LedgerInv /\ [BatchNext]_all => LedgerInv' /\ [Ledger!Next]_claimRecords
  BY ServerStepLedger, BatchSteps
<1>3. LedgerProofs!Spec =>
        [](LedgerProofs!NeverOversold /\ LedgerProofs!WithinLimits /\ LedgerProofs!OneTicketPerKey)
  BY LedgerAssumed, LedgerProofs!LedgerSafe
<1>4. /\ Ledger!Init => LedgerProofs!Init
      /\ [Ledger!Next]_claimRecords => [LedgerProofs!Next]_claimRecords
      /\ LedgerProofs!WithinLimits => ClaimLimitRespected
  BY SameLedger DEF ClaimLimitRespected
<1> QED
  BY <1>1, <1>2, <1>3, <1>4, PTL
     DEF BatchSpec, ImplementsLedger, Ledger!Spec, LedgerProofs!Spec

(***************************************************************************)
(* What a batch returns.                                                   *)
(***************************************************************************)

Returned ==
  [state : UserStates, left : [Rewards \union {SharedKey} -> OptionalNat] \union {Null}]

BatchTypeOK ==
  /\ stage \in {"idle", "running", "syncing", "attaching", "returned", "lost"}
  /\ stage = "running" => position \in DOMAIN Batch
  /\ results \in [Requests -> Statuses \union {Null}]
  /\ current \in Returned \union {Null}
  /\ stage \in {"attaching", "returned"} => current \in Returned

LEMMA RemainingType ==
  ASSUME TypeOK
  PROVE  /\ \A rw \in Rewards : Remaining(rw) \in OptionalNat
         /\ SharedRemaining \in OptionalNat
<1>1. Null \in OptionalNat /\ \A a, b \in OptionalNat : OrElse(a, b) \in OptionalNat
  BY DEF OrElse, OptionalNat
<1>2. ASSUME NEW rw \in Rewards PROVE Remaining(rw) \in OptionalNat
  <2>1. /\ PrimaryStock(rw) \in OptionalNat
        /\ SecondaryKey(rw) # Null => SecondaryStock(rw) \in OptionalNat
    BY <1>1, PlanType DEF PrimaryStock, SecondaryStock, TypeOK
  <2> QED
    BY <1>1, <2>1 DEF Remaining
<1>3. SharedRemaining \in OptionalNat
  <2>1. SharedKey \in StockKeys /\ SharedStock \in OptionalNat
    BY InventoryAssumption DEF StockKeys
  <2> QED
    BY <1>1, <2>1 DEF SharedRemaining, TypeOK
<1> QED
  BY <1>2, <1>3

LEMMA GoOnType ==
  ASSUME NEW next \in Nat \ {0}, GoOn(next)
  PROVE  /\ stage' \in {"running", "syncing"}
         /\ stage' = "running" => position' \in DOMAIN Batch
<1>1. Len(Batch) \in Nat /\ DOMAIN Batch = 1..Len(Batch)
  BY BatchAssumption
<1> QED
  BY <1>1 DEF GoOn

LEMMA BatchTypeStep == TypeOK /\ BatchTypeOK /\ [BatchNext]_all => BatchTypeOK'
<1> SUFFICES ASSUME TypeOK, BatchTypeOK, [BatchNext]_all PROVE BatchTypeOK'
  OBVIOUS
<1>1. CASE UNCHANGED batch
  BY <1>1 DEF batch, BatchTypeOK
<1>2. CASE StartBatch
  BY <1>2, GoOnType DEF StartBatch, BatchTypeOK
<1>3. CASE ReadCurrent
  <2>1. StateOf(BatchUser, clock) \in UserStates
    BY BatchAssumption, StateOfType
  <2> QED
    BY <1>3, <2>1 DEF ReadCurrent, BatchTypeOK, Returned
<1>4. CASE AttachInventory
  <2>1. /\ stage = "attaching" /\ stage' = "returned" /\ results' = results
        /\ current' = [current EXCEPT
             !.left = [key \in Rewards \union {SharedKey} |->
                         IF key = SharedKey THEN SharedRemaining ELSE Remaining(key)]]
    BY <1>4 DEF AttachInventory
  <2>2. [key \in Rewards \union {SharedKey} |->
           IF key = SharedKey THEN SharedRemaining ELSE Remaining(key)]
        \in [Rewards \union {SharedKey} -> OptionalNat]
    BY RemainingType
  <2>3. current' \in Returned
    BY <2>1, <2>2 DEF BatchTypeOK, Returned
  <2> QED
    BY <2>1, <2>3 DEF BatchTypeOK
<1>5. ASSUME NEW r \in Operations, NEW status \in Statuses, InWork(r), Conclude(r, status)
      PROVE  BatchTypeOK'
  <2>1. position \in Nat /\ position + 1 \in Nat \ {0}
    BY <1>5, BatchAssumption DEF InWork, BatchTypeOK
  <2> QED
    BY <1>5, <2>1, GoOnType DEF Conclude, BatchTypeOK
<1>6. ASSUME NEW r \in Operations,
             RefuseDependent(r) \/ RunOperation(r) \/ TakeResult(r) \/ OperationThrows(r)
      PROVE  BatchTypeOK'
  <2>1. OperationStatus(response[r]) \in Statuses
    BY DEF OperationStatus, Statuses
  <2>2. CASE RunOperation(r)
    BY <1>1, <2>2 DEF RunOperation
  <2>3. CASE ~RunOperation(r)
    BY <1>5, <1>6, <2>1, <2>3 DEF RefuseDependent, TakeResult, OperationThrows, Statuses
  <2> QED
    BY <2>2, <2>3
<1>7. CASE BatchLost
  BY <1>7 DEF BatchLost, BatchTypeOK
<1> QED
  BY <1>1, <1>2, <1>3, <1>4, <1>6, <1>7 DEF BatchNext, BatchStep, Elsewhere, all

LEMMA BatchTypeInit == BatchInit => BatchTypeOK
BY DEF BatchInit, BatchTypeOK

HasCurrent == current # Null \/ stage \in {"attaching", "returned"}

(* The state a batch returns is one it read.                               *)
LEMMA CurrentChanges ==
  ASSUME BatchTypeOK, [BatchNext]_all, HasCurrent'
  PROVE  \/ HasCurrent /\ current'.state = current.state
         \/ stage = "syncing" /\ current'.state = StateOf(BatchUser, clock) /\ UNCHANGED vars
<1>1. CASE UNCHANGED <<stage, current>>
  BY <1>1 DEF HasCurrent
<1>2. CASE ReadCurrent
  BY <1>2 DEF ReadCurrent
<1>3. CASE AttachInventory
  <2>1. current \in Returned /\ stage = "attaching"
    BY <1>3 DEF AttachInventory, BatchTypeOK
  <2>2. current'.state = current.state
    BY <1>3, <2>1 DEF AttachInventory, Returned
  <2> QED
    BY <2>1, <2>2 DEF HasCurrent
<1>4. CASE current' = current /\ stage' \notin {"attaching", "returned"}
  BY <1>4 DEF HasCurrent
<1>5. CASE StartBatch \/ BatchLost
  BY <1>4, <1>5 DEF StartBatch, BatchLost, GoOn
<1>6. ASSUME NEW r \in Operations,
             RefuseDependent(r) \/ RunOperation(r) \/ TakeResult(r) \/ OperationThrows(r)
      PROVE  \/ UNCHANGED <<stage, current>>
             \/ current' = current /\ stage' \notin {"attaching", "returned"}
  BY <1>6 DEF RefuseDependent, RunOperation, TakeResult, OperationThrows, Conclude, GoOn, batch
<1> QED
  BY <1>1, <1>2, <1>3, <1>4, <1>5, <1>6 DEF BatchNext, BatchStep, Elsewhere, batch, all

(* A stamp that was logged for the user, by a check-in past its commit.    *)
Logged(u, spot) ==
  \E r \in CheckIns :
    /\ Call[r].user = u /\ Call[r].resource = spot
    /\ audit[r] = "SUCCESS" /\ pc[r] \in {"releasing", "done", "crashed"}

(* Every stamp that is stored or will be written back was logged.          *)
StampsLogged ==
  /\ \A u \in Users : \A spot \in StoredStamps(userStates[u]) : Logged(u, spot)
  /\ \A r \in CheckIns : snapshot[r] # Null =>
       \A spot \in snapshot[r].stamps : Logged(Call[r].user, spot)

LoggedInv == TypeOK /\ SnapshotTaken /\ StampsLogged

(* No request logs again or goes back after its commit.                    *)
LEMMA CommittedStays ==
  ASSUME TypeOK, ServerStep, NEW q \in Requests, pc[q] \in {"releasing", "done", "crashed"}
  PROVE  audit'[q] = audit[q] /\ pc'[q] \in {"releasing", "done", "crashed"}
<1>1. CASE UNCHANGED <<audit, pc>>
  BY <1>1
<1>2. CASE UNCHANGED vars \/ Tick \/ (\E lock \in locks : LeaseExpires(lock))
           \/ (\E k \in IdempotencyKeys : ResultLapses(k))
  BY <1>1, <1>2 DEF vars, store, handlers, Tick, LeaseExpires, ResultLapses
<1>3. ASSUME NEW r \in Requests, HandlerStep(r) \/ StorageFails(r) \/ Crash(r) \/ GivenUp(r)
      PROVE  audit'[q] = audit[q] /\ pc'[q] \in {"releasing", "done", "crashed"}
  <2>1. CASE LookUpResult(r) \/ AcquireLock(r) \/ LockConflict(r) \/ ReleaseLock(r)
    BY <2>1 DEF LookUpResult, AcquireLock, LockConflict, ReleaseLock, Goto, store, TypeOK
  <2>2. CASE ReadUserState(r) \/ RecheckResult(r) \/ ClaimAlreadyStored(r) \/ StorageFails(r)
    BY <2>2 DEF ReadUserState, RecheckResult, ClaimAlreadyStored, StorageFails, Goto, store, TypeOK
  <2>3. CASE Crash(r) \/ GivenUp(r)
    BY <2>3 DEF Crash, GivenUp, Goto, store, TypeOK
  <2>4. CASE CommitCheckIn(r)
    BY <2>4 DEF CommitCheckIn, RefuseCheckIn, Goto, TypeOK
  <2>5. CASE CommitClaim(r)
    BY <2>5 DEF CommitClaim, Goto, TypeOK
  <2> QED
    BY <1>3, <2>1, <2>2, <2>3, <2>4, <2>5 DEF HandlerStep
<1> QED
  BY <1>2, <1>3 DEF ServerStep, Next

LEMMA LoggedStays ==
  ASSUME TypeOK, ServerStep, NEW u, NEW spot, Logged(u, spot)
  PROVE  Logged(u, spot)'
BY CommittedStays DEF Logged, CheckIns

(* Where the states come from: a check-in stamps its snapshot, a claim     *)
(* leaves the stamps, and a snapshot is what is stored.                    *)
LEMMA StateSources ==
  ASSUME TypeOK, SnapshotTaken, ServerStep
  PROVE  /\ \/ \A u \in Users : StoredStamps(userStates'[u]) = StoredStamps(userStates[u])
            \/ \E r \in CheckIns :
                 /\ pc[r] = "ready" /\ snapshot[r] \in UserStates /\ CommitCheckIn(r)
                 /\ audit'[r] = "SUCCESS" /\ pc'[r] = "releasing"
                 /\ \A u \in Users :
                      StoredStamps(userStates'[u]) =
                        IF u = Call[r].user THEN snapshot[r].stamps \union {Call[r].resource}
                        ELSE StoredStamps(userStates[u])
         /\ \A q \in CheckIns :
              \/ snapshot'[q] = snapshot[q]
              \/ snapshot'[q].stamps = StoredStamps(userStates[Call[q].user])
<1>1. CASE UNCHANGED <<userStates, snapshot>>
  BY <1>1
<1>2. CASE UNCHANGED vars \/ Tick \/ (\E lock \in locks : LeaseExpires(lock))
           \/ (\E k \in IdempotencyKeys : ResultLapses(k))
  BY <1>1, <1>2 DEF vars, store, handlers, Tick, LeaseExpires, ResultLapses
<1>3. ASSUME NEW r \in Requests, ReadUserState(r)
      PROVE  /\ userStates' = userStates
             /\ \A q \in CheckIns :
                  \/ snapshot'[q] = snapshot[q]
                  \/ snapshot'[q].stamps = StoredStamps(userStates[Call[q].user])
  <2>1. StateOf(Call[r].user, startedAt[r]).stamps = StoredStamps(userStates[Call[r].user])
    BY DEF StateOf, StoredStamps, InitialState
  <2> QED
    BY <1>3, <2>1 DEF ReadUserState, store, TypeOK, CheckIns
<1>4. ASSUME NEW r \in Requests, CommitClaim(r)
      PROVE  /\ snapshot' = snapshot
             /\ \A u \in Users : StoredStamps(userStates'[u]) = StoredStamps(userStates[u])
  BY <1>4, CommitClaimStamps, ClaimFacts
<1>5. ASSUME NEW r \in Requests, CommitCheckIn(r)
      PROVE  /\ snapshot' = snapshot
             /\ \/ userStates' = userStates
                \/ /\ r \in CheckIns /\ pc[r] = "ready" /\ snapshot[r] \in UserStates
                   /\ audit'[r] = "SUCCESS" /\ pc'[r] = "releasing"
                   /\ \A u \in Users :
                        StoredStamps(userStates'[u]) =
                          IF u = Call[r].user THEN snapshot[r].stamps \union {Call[r].resource}
                          ELSE StoredStamps(userStates[u])
  <2>1. r \in CheckIns /\ pc[r] = "ready" /\ snapshot' = snapshot /\ pc' = [pc EXCEPT ![r] = "releasing"]
    BY <1>5 DEF CommitCheckIn, RefuseCheckIn, Goto
  <2>2. /\ snapshot[r] \in UserStates /\ Call[r].user \in Users /\ Call[r].resource \in Spots
    BY <2>1, KeyTypes DEF SnapshotTaken, TypeOK
  <2>3. StateAfterCheckIn(r) \in UserStates /\ StateAfterCheckIn(r) # Null
    BY <2>2, StampedType, NullIsNoState DEF StateAfterCheckIn
  <2>4. StateAfterCheckIn(r).stamps = snapshot[r].stamps \union {Call[r].resource}
    BY DEF StateAfterCheckIn, Stamped
  <2>5. CASE CheckInCode(r) # "OK"
    BY <1>5, <2>1, <2>5 DEF CommitCheckIn, RefuseCheckIn
  <2>6. CASE CheckInCode(r) = "OK"
    <3>1. /\ userStates' = [userStates EXCEPT ![Call[r].user] = StateAfterCheckIn(r)]
          /\ audit' = [audit EXCEPT ![r] = "SUCCESS"]
      BY <1>5, <2>6 DEF CommitCheckIn
    <3>2. \A u \in Users :
            userStates'[u] = IF u = Call[r].user THEN StateAfterCheckIn(r) ELSE userStates[u]
      BY <3>1 DEF TypeOK
    <3>3. audit'[r] = "SUCCESS" /\ pc'[r] = "releasing"
      BY <2>1, <3>1 DEF TypeOK
    <3> QED
      BY <2>1, <2>2, <2>3, <2>4, <3>2, <3>3 DEF StoredStamps
  <2> QED
    BY <2>5, <2>6
<1>6. ASSUME NEW r \in Requests,
             \/ LookUpResult(r) \/ AcquireLock(r) \/ LockConflict(r) \/ ReleaseLock(r)
             \/ RecheckResult(r) \/ ClaimAlreadyStored(r) \/ StorageFails(r) \/ Crash(r)
             \/ GivenUp(r)
      PROVE  UNCHANGED <<userStates, snapshot>>
  BY <1>6 DEF LookUpResult, AcquireLock, LockConflict, ReleaseLock, RecheckResult,
              ClaimAlreadyStored, StorageFails, Crash, GivenUp, store
<1> QED
  BY <1>1, <1>2, <1>3, <1>4, <1>5, <1>6 DEF ServerStep, Next, HandlerStep

LEMMA LoggedStep == LoggedInv /\ ServerStep => LoggedInv'
<1> SUFFICES ASSUME LoggedInv, ServerStep PROVE StampsLogged'
  BY StepType, StepSnapshot, GivenUpType DEF ServerStep, LoggedInv
<1>0. TypeOK /\ SnapshotTaken /\ StampsLogged
  BY DEF LoggedInv
<1>1. ASSUME NEW q \in CheckIns, snapshot'[q] # Null, NEW spot \in snapshot'[q].stamps
      PROVE  Logged(Call[q].user, spot)'
  <2>1. Call[q].user \in Users
    BY KeyTypes DEF CheckIns
  <2>2. Logged(Call[q].user, spot)
    BY <1>0, <1>1, <2>1, StateSources DEF StampsLogged
  <2> QED
    BY <1>0, <2>2, LoggedStays
<1>2. ASSUME NEW u \in Users, NEW spot \in StoredStamps(userStates'[u])
      PROVE  Logged(u, spot)'
  <2>1. CASE spot \in StoredStamps(userStates[u])
    BY <1>0, <2>1, LoggedStays DEF StampsLogged
  <2>2. CASE spot \notin StoredStamps(userStates[u])
    <3>1. PICK r \in CheckIns :
            /\ pc[r] = "ready" /\ snapshot[r] \in UserStates
            /\ audit'[r] = "SUCCESS" /\ pc'[r] = "releasing"
            /\ u = Call[r].user /\ spot \in snapshot[r].stamps \union {Call[r].resource}
      BY <1>0, <1>2, <2>2, StateSources
    <3>2. CASE spot = Call[r].resource
      BY <3>1, <3>2 DEF Logged
    <3>3. CASE spot \in snapshot[r].stamps
      <4>1. Logged(u, spot)
        BY <1>0, <3>1, <3>3, NullIsNoState DEF StampsLogged
      <4> QED
        BY <1>0, <4>1, LoggedStays
    <3> QED
      BY <3>1, <3>2, <3>3
  <2> QED
    BY <2>1, <2>2
<1> QED
  BY <1>1, <1>2 DEF StampsLogged

(* What a batch returns was logged, too.                                   *)
ReturnedLogged ==
  HasCurrent => \A spot \in current.state.stamps : Logged(BatchUser, spot)

(* The state a batch returns has only stamps that a check-in of its user   *)
(* was logged for as a success, whatever the batch and others failed at.   *)
THEOREM OnlySuccessesReturned == BatchSpec => []ReturnsOnlySuccesses
<1> DEFINE Inv == LoggedInv /\ BatchTypeOK /\ ReturnedLogged
<1>1. BatchInit => Inv
  BY InitType, BatchTypeInit
     DEF BatchInit, Init, LoggedInv, SnapshotTaken, StampsLogged, StoredStamps, ReturnedLogged,
         HasCurrent, CheckIns
<1>2. Inv /\ [BatchNext]_all => Inv'
  <2> SUFFICES ASSUME Inv, [BatchNext]_all PROVE ReturnedLogged'
    BY BatchSteps, LoggedStep, BatchTypeStep DEF LoggedInv
  <2>1. TypeOK /\ ServerStep /\ StampsLogged /\ BatchUser \in Users
    BY BatchSteps, BatchAssumption DEF LoggedInv
  <2> SUFFICES ASSUME HasCurrent', NEW spot \in current'.state.stamps
               PROVE  Logged(BatchUser, spot)'
    BY DEF ReturnedLogged
  <2>2. StateOf(BatchUser, clock).stamps = StoredStamps(userStates[BatchUser])
    BY DEF StateOf, StoredStamps, InitialState
  <2>3. Logged(BatchUser, spot)
    BY <2>1, <2>2, CurrentChanges DEF ReturnedLogged, StampsLogged
  <2> QED
    BY <2>1, <2>3, LoggedStays
<1>3. Inv => ReturnsOnlySuccesses
  BY DEF ReturnedLogged, HasCurrent, Logged, ReturnsOnlySuccesses
<1> QED
  BY <1>1, <1>2, <1>3, PTL DEF BatchSpec

(***************************************************************************)
(* What was accepted is returned.                                          *)
(***************************************************************************)

(* A client chooses a key for one operation: a repetition is of that spot. *)
KeysNameSpots ==
  \A r, q \in CheckIns :
    IdempotencyKey(r) = IdempotencyKey(q) => Call[r].resource = Call[q].resource

(* A request that was answered has an answer.                              *)
Answered == \A r \in Requests : pc[r] \in {"releasing", "done"} => response[r] # Null

(* A check-in that was told of its success, or would be told again, is     *)
(* stored.                                                                 *)
SuccessStored ==
  \A r \in CheckIns :
    \A result \in {response[r], StoredResult(r)} \ {Null} :
      result.code = "OK" => Call[r].resource \in StoredStamps(userStates[Call[r].user])

LEMMA AnsweredStep ==
  ASSUME TypeOK, Answered, ServerStep
  PROVE  Answered'
<1>1. CASE UNCHANGED <<pc, response>>
  BY <1>1 DEF Answered
<1>2. CASE UNCHANGED vars \/ Tick \/ (\E lock \in locks : LeaseExpires(lock))
           \/ (\E k \in IdempotencyKeys : ResultLapses(k))
  BY <1>1, <1>2 DEF vars, store, handlers, Tick, LeaseExpires, ResultLapses
<1>3. \A code \in Codes : Plain(code) # Null
  BY PlainType, NullIsNoResult
<1>4. ASSUME NEW r \in Requests, HandlerStep(r) \/ StorageFails(r) \/ Crash(r) \/ GivenUp(r)
      PROVE  Answered'
  <2>1. CASE LookUpResult(r) \/ AcquireLock(r) \/ ReleaseLock(r)
    BY <2>1 DEF LookUpResult, AcquireLock, ReleaseLock, Goto, Answer, TypeOK, Answered
  <2>2. CASE LockConflict(r)
    BY <1>3, <2>2 DEF LockConflict, Goto, Answer, TypeOK, Answered, Codes
  <2>3. CASE ReadUserState(r) \/ RecheckResult(r)
    BY <2>3 DEF ReadUserState, RecheckResult, Goto, Answer, TypeOK, Answered
  <2>4. CASE ClaimAlreadyStored(r) \/ StorageFails(r)
    BY <1>3, <2>4 DEF ClaimAlreadyStored, StorageFails, Goto, Answer, TypeOK, Answered, Codes
  <2>5. CASE Crash(r) \/ GivenUp(r)
    BY <2>5 DEF Crash, GivenUp, Goto, TypeOK, Answered
  <2>6. CASE CommitCheckIn(r)
    <3>1. Plain(CheckInCode(r)) # Null
      BY <1>3, CodeTypes
    <3>2. /\ response' = [response EXCEPT ![r] = Plain(CheckInCode(r))]
          /\ pc' = [pc EXCEPT ![r] = "releasing"]
      BY <2>6 DEF CommitCheckIn, RefuseCheckIn, Goto, Answer
    <3> QED
      BY <3>1, <3>2 DEF TypeOK, Answered
  <2>7. CASE CommitClaim(r)
    <3>1. ResultAt(r) # Null
      BY <2>7, ClaimFacts, ClaimTypes, NullIsNoResult
    <3>2. /\ response' = [response EXCEPT ![r] = ResultAt(r)]
          /\ pc' = [pc EXCEPT ![r] = "releasing"]
      BY <2>7, ClaimFacts
    <3> QED
      BY <3>1, <3>2 DEF TypeOK, Answered
  <2> QED
    BY <1>4, <2>1, <2>2, <2>3, <2>4, <2>5, <2>6, <2>7 DEF HandlerStep
<1> QED
  BY <1>2, <1>4 DEF ServerStep, Next

LEMMA StampsGrow ==
  ASSUME StampsStay, NEW u \in Users
  PROVE  StoredStamps(userStates[u]) \subseteq StoredStamps(userStates'[u])
BY DEF StampsStay, StoredStamps

(* What a check-in may be told, or would be told again, after a step.      *)
LEMMA NewAnswers ==
  ASSUME TypeOK, ServerStep, NEW q \in CheckIns,
         NEW result \in {response'[q], StoredResult(q)'} \ {Null},
         result \notin {response[q], StoredResult(q)}
  PROVE  \/ result.code \notin {"OK", "PREREQUISITES_NOT_MET"}
         \/ \E r \in CheckIns :
              /\ CommitCheckIn(r) /\ result.code = CheckInCode(r)
              /\ IdempotencyKey(r) = IdempotencyKey(q)
<1>0. q \in Requests /\ IdempotencyKey(q) \in IdempotencyKeys
  BY KeyTypes DEF CheckIns
<1>1. CASE UNCHANGED <<response, idempotent>>
  BY <1>1 DEF StoredResult
<1>2. CASE UNCHANGED vars \/ Tick \/ (\E lock \in locks : LeaseExpires(lock))
  BY <1>1, <1>2 DEF vars, store, handlers, Tick, LeaseExpires
<1>3. ASSUME NEW k \in IdempotencyKeys, ResultLapses(k) PROVE FALSE
  BY <1>0, <1>3 DEF ResultLapses, handlers, StoredResult, TypeOK
<1>4. \A code : Plain(code).code = code
  BY DEF Plain
<1>5. ASSUME NEW r \in Requests, HandlerStep(r) \/ StorageFails(r) \/ Crash(r) \/ GivenUp(r)
      PROVE  \/ result.code \notin {"OK", "PREREQUISITES_NOT_MET"}
             \/ /\ r \in CheckIns /\ CommitCheckIn(r) /\ result.code = CheckInCode(r)
                /\ IdempotencyKey(r) = IdempotencyKey(q)
  <2>1. CASE LookUpResult(r) \/ AcquireLock(r) \/ ReleaseLock(r)
    BY <1>0, <2>1 DEF LookUpResult, AcquireLock, ReleaseLock, Answer, TypeOK, store, StoredResult
  <2>2. CASE LockConflict(r) \/ StorageFails(r) \/ ClaimAlreadyStored(r)
    BY <1>0, <1>4, <2>2
       DEF LockConflict, StorageFails, ClaimAlreadyStored, Answer, TypeOK, store, StoredResult
  <2>3. CASE Crash(r) \/ GivenUp(r)
    BY <1>0, <2>3 DEF Crash, GivenUp, TypeOK, store, StoredResult
  <2>4. CASE ReadUserState(r) \/ RecheckResult(r)
    BY <1>0, <2>4 DEF ReadUserState, RecheckResult, Answer, TypeOK, store, StoredResult
  <2>5. CASE CommitCheckIn(r)
    <3>1. /\ r \in CheckIns
          /\ idempotent' = [idempotent EXCEPT ![IdempotencyKey(r)] = Plain(CheckInCode(r))]
          /\ response' = [response EXCEPT ![r] = Plain(CheckInCode(r))]
      BY <2>5 DEF CommitCheckIn, RefuseCheckIn, Answer
    <3>2. result = Plain(CheckInCode(r)) /\ IdempotencyKey(r) = IdempotencyKey(q)
      BY <1>0, <3>1 DEF StoredResult, TypeOK
    <3> QED
      BY <1>4, <2>5, <3>1, <3>2
  <2>6. CASE CommitClaim(r)
    <3>1. /\ r \in Claims
          /\ idempotent' = [idempotent EXCEPT ![IdempotencyKey(r)] = ResultAt(r)]
          /\ response' = [response EXCEPT ![r] = ResultAt(r)]
      BY <2>6, ClaimFacts
    <3>2. r # q /\ IdempotencyKey(r) # IdempotencyKey(q)
      BY <1>0, <3>1, KeysTellRewards DEF Claims
    <3> QED
      BY <1>0, <3>1, <3>2 DEF StoredResult, TypeOK
  <2> QED
    BY <1>5, <2>1, <2>2, <2>3, <2>4, <2>5, <2>6 DEF HandlerStep
<1> QED
  BY <1>2, <1>3, <1>5 DEF ServerStep, Next

LEMMA SuccessStep ==
  ASSUME ~SlowHolders, KeysNameSpots, LockInv, SuccessStored, ServerStep
  PROVE  SuccessStored'
<1>1. TypeOK /\ SnapshotTaken /\ StampsStay
  BY ServerStepStamps DEF LockInv
<1> SUFFICES ASSUME NEW q \in CheckIns,
                    NEW result \in {response'[q], StoredResult(q)'} \ {Null}, result.code = "OK"
             PROVE  Call[q].resource \in StoredStamps(userStates'[Call[q].user])
  BY DEF SuccessStored
<1>2. Call[q].user \in Users
  BY KeyTypes DEF CheckIns
<1>3. CASE result \in {response[q], StoredResult(q)}
  BY <1>1, <1>2, <1>3, StampsGrow DEF SuccessStored
<1>4. CASE result \notin {response[q], StoredResult(q)}
  <2>1. PICK r \in CheckIns : /\ CommitCheckIn(r) /\ CheckInCode(r) = "OK"
                              /\ IdempotencyKey(r) = IdempotencyKey(q)
    BY <1>1, <1>4, NewAnswers
  <2>2. Call[r].user = Call[q].user /\ Call[r].resource = Call[q].resource
    BY <2>1 DEF KeysNameSpots, IdempotencyKey
  <2>3. StateAfterCheckIn(r) # Null
    <3>1. snapshot[r] \in UserStates /\ Call[r].resource \in Spots
      BY <1>1, <2>1, KeyTypes DEF CommitCheckIn, RefuseCheckIn, SnapshotTaken, TypeOK, CheckIns
    <3> QED
      BY <3>1, StampedType, NullIsNoState DEF StateAfterCheckIn
  <2>4. userStates' = [userStates EXCEPT ![Call[r].user] = StateAfterCheckIn(r)]
    BY <2>1 DEF CommitCheckIn, RefuseCheckIn
  <2>5. Call[r].resource \in StateAfterCheckIn(r).stamps
    BY DEF StateAfterCheckIn, Stamped
  <2> QED
    BY <1>1, <1>2, <2>2, <2>3, <2>4, <2>5 DEF StoredStamps, TypeOK
<1> QED
  BY <1>3, <1>4

(* The accepted check-ins of the batch are stored.                         *)
AcceptedStored ==
  \A r \in AcceptedCheckIns :
    Call[r].user = BatchUser /\ Call[r].resource \in StoredStamps(userStates[BatchUser])

(* They are in the state that was read, which only grew since.             *)
AcceptedReturned ==
  /\ stage \in {"idle", "running", "syncing"} => current = Null
  /\ HasCurrent =>
       /\ \A r \in AcceptedCheckIns : Call[r].resource \in current.state.stamps
       /\ current.state.stamps \subseteq StoredStamps(userStates[BatchUser])

BatchInv ==
  LockInv /\ BatchTypeOK /\ Answered /\ SuccessStored /\ AcceptedStored /\ AcceptedReturned

(* How a check-in becomes accepted.                                        *)
LEMMA NewlyAccepted ==
  ASSUME BatchTypeOK, [BatchNext]_all, NEW r \in AcceptedCheckIns', r \notin AcceptedCheckIns
  PROVE  /\ r \in Operations /\ r \in CheckIns /\ pc[r] = "done" /\ response[r].code = "OK"
         /\ stage = "running" /\ stage' \in {"running", "syncing"} /\ UNCHANGED vars
<1>1. r \in CheckIns /\ r \in Requests /\ results'[r] = "ACCEPTED" /\ results[r] # "ACCEPTED"
  BY DEF AcceptedCheckIns, CheckIns
<1>2. PICK q \in Operations :
        RefuseDependent(q) \/ TakeResult(q) \/ OperationThrows(q)
  BY <1>1 DEF BatchNext, BatchStep, StartBatch, ReadCurrent, AttachInventory, RunOperation,
              BatchLost, Elsewhere, batch, all
<1>3. TakeResult(q) /\ q = r
  <2>1. PICK status \in Statuses : Conclude(q, status)
                                   /\ (status = "ACCEPTED" => TakeResult(q))
    BY <1>2 DEF RefuseDependent, TakeResult, OperationThrows, OperationStatus, Statuses
  <2>2. results' = [results EXCEPT ![q] = status]
    BY <2>1 DEF Conclude
  <2> QED
    BY <1>1, <2>1, <2>2 DEF BatchTypeOK
<1>4. OperationStatus(response[r]) = "ACCEPTED"
  BY <1>1, <1>3 DEF TakeResult, Conclude, BatchTypeOK
<1> QED
  BY <1>1, <1>2, <1>3, <1>4 DEF TakeResult, Conclude, GoOn, InWork, OperationStatus

LEMMA BatchInvInit == BatchInit => BatchInv
<1> SUFFICES ASSUME BatchInit PROVE BatchInv
  OBVIOUS
<1>1. Init /\ LockInv /\ BatchTypeOK
  BY InitLocks, BatchTypeInit DEF BatchInit
<1>2. AcceptedCheckIns = {}
  BY NullIsNoStatus DEF BatchInit, AcceptedCheckIns, CheckIns, Statuses
<1>3. SuccessStored /\ Answered
  BY <1>1, KeyTypes DEF Init, SuccessStored, Answered, StoredResult, CheckIns
<1> QED
  BY <1>1, <1>2, <1>3 DEF BatchInit, BatchInv, AcceptedStored, AcceptedReturned, HasCurrent

LEMMA BatchInvStep ==
  ASSUME ~SlowHolders, KeysNameSpots
  PROVE  BatchInv /\ [BatchNext]_all => BatchInv'
<1> SUFFICES ASSUME BatchInv, [BatchNext]_all PROVE BatchInv'
  OBVIOUS
<1>1. ServerStep /\ TypeOK /\ LockInv /\ BatchTypeOK /\ BatchUser \in Users
  BY BatchSteps, BatchAssumption DEF BatchInv, LockInv
<1>2. LockInv' /\ StampsStay /\ BatchTypeOK' /\ Answered' /\ SuccessStored'
  BY <1>1, ServerStepStamps, BatchTypeStep, AnsweredStep, SuccessStep DEF BatchInv
<1>3. StoredStamps(userStates[BatchUser]) \subseteq StoredStamps(userStates'[BatchUser])
  BY <1>1, <1>2, StampsGrow
<1>4. AcceptedStored'
  <2> SUFFICES ASSUME NEW r \in AcceptedCheckIns'
               PROVE  /\ Call[r].user = BatchUser
                      /\ Call[r].resource \in StoredStamps(userStates'[BatchUser])
    BY DEF AcceptedStored
  <2>1. CASE r \in AcceptedCheckIns
    BY <1>3, <2>1 DEF BatchInv, AcceptedStored
  <2>2. CASE r \notin AcceptedCheckIns
    <3>1. /\ r \in Operations /\ r \in CheckIns /\ r \in Requests
          /\ pc[r] = "done" /\ response[r].code = "OK"
      BY <1>1, <2>2, NewlyAccepted DEF CheckIns
    <3>2. Call[r].user = BatchUser
      BY <3>1, BatchAssumption DEF Operations, ToSet
    <3>3. Call[r].resource \in StoredStamps(userStates[BatchUser])
      BY <3>1, <3>2 DEF BatchInv, Answered, SuccessStored
    <3> QED
      BY <1>3, <3>2, <3>3
  <2> QED
    BY <2>1, <2>2
<1>5. stage' \in {"idle", "running", "syncing"} =>
        current' = Null /\ stage \in {"idle", "running", "syncing"}
  BY DEF BatchInv, AcceptedReturned, BatchTypeOK, BatchNext, BatchStep, StartBatch, ReadCurrent,
         AttachInventory, RefuseDependent, RunOperation, TakeResult, OperationThrows, Conclude,
         InWork, BatchLost, Elsewhere, batch, all
<1>6. ASSUME HasCurrent'
      PROVE  /\ \A r \in AcceptedCheckIns' : Call[r].resource \in current'.state.stamps
             /\ current'.state.stamps \subseteq StoredStamps(userStates'[BatchUser])
  <2>1. CASE HasCurrent /\ current'.state = current.state
    <3>1. stage # "running"
      BY <2>1 DEF BatchInv, AcceptedReturned, HasCurrent
    <3>2. AcceptedCheckIns' \subseteq AcceptedCheckIns
      BY <1>1, <3>1, NewlyAccepted
    <3> QED
      BY <1>3, <2>1, <3>2 DEF BatchInv, AcceptedReturned
  <2>2. CASE /\ stage = "syncing" /\ current'.state = StateOf(BatchUser, clock)
             /\ UNCHANGED vars
    <3>1. current'.state.stamps = StoredStamps(userStates[BatchUser])
      BY <2>2 DEF StateOf, StoredStamps, InitialState
    <3>2. AcceptedCheckIns' \subseteq AcceptedCheckIns
      BY <1>1, <2>2, NewlyAccepted
    <3> QED
      BY <1>3, <3>1, <3>2 DEF BatchInv, AcceptedStored
  <2> QED
    BY <1>1, <1>6, <2>1, <2>2, CurrentChanges
<1> QED
  BY <1>2, <1>4, <1>5, <1>6 DEF BatchInv, AcceptedReturned

(* The state a batch returns shows each check-in it accepted, and none     *)
(* that the server does not hold: as long as no request outlives its lock, *)
(* and a key is not used for two spots.                                    *)
THEOREM AcceptedIsReturned ==
  ASSUME ~SlowHolders, KeysNameSpots
  PROVE  BatchSpec => []ReturnsAccepted
<1>1. BatchInv => ReturnsAccepted
  <2>1. StoredStamps(userStates[BatchUser]) = StateOf(BatchUser, clock).stamps
    BY DEF StateOf, StoredStamps, InitialState
  <2> QED
    BY <2>1 DEF BatchInv, AcceptedReturned, HasCurrent, ReturnsAccepted
<1> QED
  BY <1>1, BatchInvInit, BatchInvStep, PTL DEF BatchSpec

(***************************************************************************)
(* The order of a batch.                                                   *)
(***************************************************************************)

BatchCheckIns == Operations \intersect CheckIns

(* The batch is no repetition: no key of its check-ins was used before.    *)
FirstSent ==
  \A s \in BatchCheckIns, q \in CheckIns : IdempotencyKey(q) = IdempotencyKey(s) => q = s

(* It has one check-in for a spot.                                         *)
OneCheckInPerSpot ==
  \A r, q \in BatchCheckIns : Call[r].resource = Call[q].resource => r = q

(* Operations are worked on in the order of the batch.                     *)
InOrder ==
  /\ position \in Nat /\ (stage = "idle" => position = 0)
  /\ \A i \in DOMAIN Batch :
       /\ results[Batch[i]] # Null => i < position
       /\ pc[Batch[i]] # "idle" => i <= position

(* What was refused was rejected, and a check-in without a turn needs it.  *)
RefusalsJustified ==
  /\ \A spot \in refused :
       \E q \in BatchCheckIns : Call[q].resource = spot /\ results[q] = "REJECTED_PERMANENT"
  /\ \A s \in BatchCheckIns :
       results[s] # Null /\ pc[s] = "idle" =>
         \E q \in BatchCheckIns :
           /\ Call[q].resource \in SpotDef[Call[s].resource].prerequisites
           /\ results[q] = "REJECTED_PERMANENT"

(* The spots accepted before the operation at place j.                     *)
AcceptedBefore(j) ==
  {Call[Batch[i]].resource : i \in {i \in DOMAIN Batch : i < j /\ Batch[i] \in AcceptedCheckIns}}

(* A check-in that lacked a prerequisite lacks one that was not accepted.  *)
VerdictsJustified ==
  \A j \in DOMAIN Batch : Batch[j] \in CheckIns =>
    \A result \in {response[Batch[j]], StoredResult(Batch[j])} \ {Null} :
      result.code = "PREREQUISITES_NOT_MET" =>
        /\ pc[Batch[j]] # "idle"
        /\ ~(SpotDef[Call[Batch[j]].resource].prerequisites \subseteq AcceptedBefore(j))

OrderInv == BatchInv /\ InOrder /\ RefusalsJustified /\ VerdictsJustified

LEMMA Places ==
  /\ \A r \in Operations : \E i \in DOMAIN Batch : Batch[i] = r
  /\ \A i \in DOMAIN Batch : i \in Nat \ {0} /\ Batch[i] \in Operations /\ Batch[i] \in Requests
  /\ \A i, j \in DOMAIN Batch : Batch[i] = Batch[j] => i = j
BY BatchAssumption DEF Operations, ToSet

(* A step of the server is a step of one request, and none begins anew.    *)
LEMMA OwnSteps ==
  ASSUME TypeOK, NEW r \in Requests, HandlerStep(r) \/ StorageFails(r) \/ Crash(r) \/ GivenUp(r)
  PROVE  \A q \in Requests :
           /\ q # r => pc'[q] = pc[q]
           /\ pc[q] # "idle" => pc'[q] # "idle"
<1>1. CASE LookUpResult(r) \/ AcquireLock(r) \/ LockConflict(r) \/ ReleaseLock(r)
  BY <1>1 DEF LookUpResult, AcquireLock, LockConflict, ReleaseLock, Goto, TypeOK
<1>2. CASE ReadUserState(r) \/ RecheckResult(r) \/ ClaimAlreadyStored(r) \/ StorageFails(r)
  BY <1>2 DEF ReadUserState, RecheckResult, ClaimAlreadyStored, StorageFails, Goto, TypeOK
<1>3. CASE Crash(r) \/ GivenUp(r)
  BY <1>3 DEF Crash, GivenUp, Goto, TypeOK
<1>4. CASE CommitCheckIn(r) \/ CommitClaim(r)
  BY <1>4 DEF CommitCheckIn, RefuseCheckIn, CommitClaim, Goto, TypeOK
<1> QED
  BY <1>1, <1>2, <1>3, <1>4 DEF HandlerStep

(* What a step of the batch does to the operations.                        *)
LEMMA OperationSteps ==
  ASSUME TypeOK, BatchTypeOK, InOrder, [BatchNext]_all
  PROVE  /\ \A q \in Operations : pc[q] # "idle" => pc'[q] # "idle"
         /\ \A i \in DOMAIN Batch : pc'[Batch[i]] # pc[Batch[i]] => i <= position
         /\ \A i \in DOMAIN Batch : results'[Batch[i]] # results[Batch[i]] => i = position
         /\ position' \in Nat /\ position <= position' /\ (stage' = "idle" => position' = 0)
         /\ position' = position =>  results' = results
         /\ results' # results => position' = position + 1
<1>0. \A i \in DOMAIN Batch : i \in Nat /\ Batch[i] \in Operations /\ Batch[i] \in Requests
  BY Places
<1>1. CASE UNCHANGED all \/ ReadCurrent \/ AttachInventory
  BY <1>0, <1>1 DEF all, vars, handlers, batch, ReadCurrent, AttachInventory, InOrder
<1>2. CASE StartBatch
  BY <1>0, <1>2 DEF StartBatch, GoOn, vars, handlers, InOrder
<1>3. ASSUME NEW r \in Operations, RunOperation(r) \/ OperationThrows(r)
      PROVE  /\ \A q \in Operations : pc[q] # "idle" => pc'[q] # "idle"
             /\ \A i \in DOMAIN Batch : pc'[Batch[i]] # pc[Batch[i]] => i <= position
  <2>1. /\ r \in Requests /\ InWork(r) /\ position \in DOMAIN Batch
        /\ HandlerStep(r) \/ StorageFails(r) \/ Crash(r) \/ GivenUp(r)
    BY <1>3, OperationsAreRequests
       DEF RunOperation, OperationThrows, InWork, BatchTypeOK, GivenUp, Goto
  <2>2. /\ \A q \in Operations : pc[q] # "idle" => pc'[q] # "idle"
        /\ \A i \in DOMAIN Batch : pc'[Batch[i]] # pc[Batch[i]] => Batch[i] = r
    BY <1>0, <2>1, OwnSteps, OperationsAreRequests
  <2>3. \A i \in DOMAIN Batch : Batch[i] = r => i <= position
    BY <1>0, <2>1, Places DEF InWork
  <2> QED
    BY <2>2, <2>3
<1>4. ASSUME NEW r \in Operations, NEW status, InWork(r), Conclude(r, status)
      PROVE  /\ \A i \in DOMAIN Batch : results'[Batch[i]] # results[Batch[i]] => i = position
             /\ position' = position + 1 /\ stage' # "idle"
  <2>1. position \in DOMAIN Batch /\ r = Batch[position]
    BY <1>4 DEF InWork, BatchTypeOK
  <2>2. \A i \in DOMAIN Batch : Batch[i] = r => i = position
    BY <2>1, Places
  <2> QED
    BY <1>0, <1>4, <2>2 DEF Conclude, GoOn, BatchTypeOK
<1>5. ASSUME NEW r \in Operations, RefuseDependent(r) \/ TakeResult(r)
      PROVE  UNCHANGED pc
  BY <1>5 DEF RefuseDependent, TakeResult, vars, handlers
<1>6. ASSUME NEW r \in Operations, RefuseDependent(r) \/ TakeResult(r) \/ OperationThrows(r)
      PROVE  /\ \A i \in DOMAIN Batch : results'[Batch[i]] # results[Batch[i]] => i = position
             /\ position' = position + 1 /\ stage' # "idle"
  BY <1>4, <1>6 DEF RefuseDependent, TakeResult, OperationThrows
<1>7. CASE BatchLost
  <2>1. UNCHANGED <<position, results>> /\ stage' # "idle"
    BY <1>7 DEF BatchLost
  <2>2. CASE stage = "running" /\ Crash(Batch[position])
    <3>1. position \in DOMAIN Batch /\ Batch[position] \in Requests
      BY <1>0, <2>2 DEF BatchTypeOK
    <3>2. /\ \A q \in Operations : pc[q] # "idle" => pc'[q] # "idle"
          /\ \A i \in DOMAIN Batch : pc'[Batch[i]] # pc[Batch[i]] => Batch[i] = Batch[position]
      BY <1>0, <2>2, <3>1, OwnSteps, OperationsAreRequests
    <3>3. \A i \in DOMAIN Batch : Batch[i] = Batch[position] => i <= position
      BY <1>0, <3>1, Places
    <3> QED
      BY <2>1, <3>2, <3>3 DEF InOrder
  <2>3. CASE UNCHANGED vars
    BY <2>1, <2>3 DEF vars, handlers, InOrder
  <2> QED
    BY <1>7, <2>2, <2>3 DEF BatchLost
<1>8. CASE Elsewhere
  <2>1. UNCHANGED batch
    BY <1>8 DEF Elsewhere
  <2>2. ASSUME NEW r \in Requests \ Operations, HandlerStep(r) \/ StorageFails(r) \/ Crash(r)
        PROVE  \A q \in Operations : pc'[q] = pc[q]
    BY <2>2, OwnSteps, OperationsAreRequests
  <2>3. \A q \in Operations : pc'[q] = pc[q]
    BY <1>8, <2>2 DEF Elsewhere, LeaseExpires, ResultLapses, Tick, handlers
  <2> QED
    BY <1>0, <2>1, <2>3 DEF batch, InOrder
<1>9. ASSUME NEW r \in Operations, RunOperation(r)
      PROVE  UNCHANGED <<stage, position, results>>
  BY <1>9 DEF RunOperation, batch
<1>10. position \in Nat /\ (stage = "idle" => position = 0)
  BY DEF InOrder
<1> QED
  BY <1>0, <1>1, <1>2, <1>3, <1>5, <1>6, <1>7, <1>8, <1>9, <1>10 DEF BatchNext, BatchStep

LEMMA InOrderStep ==
  ASSUME TypeOK, BatchTypeOK, InOrder, [BatchNext]_all
  PROVE  InOrder'
<1>1. ASSUME NEW i \in DOMAIN Batch, results'[Batch[i]] # Null PROVE i < position'
  <2>1. i \in Nat /\ position \in Nat /\ position' \in Nat /\ position <= position'
    BY OperationSteps, Places DEF InOrder
  <2>2. CASE results[Batch[i]] # Null
    BY <2>1, <2>2 DEF InOrder
  <2>3. CASE results[Batch[i]] = Null
    BY <1>1, <2>1, <2>3, OperationSteps
  <2> QED
    BY <2>2, <2>3
<1>2. ASSUME NEW i \in DOMAIN Batch, pc'[Batch[i]] # "idle" PROVE i <= position'
  <2>1. i \in Nat /\ position \in Nat /\ position' \in Nat /\ position <= position'
    BY OperationSteps, Places DEF InOrder
  <2>2. i <= position
    BY <1>2, OperationSteps DEF InOrder
  <2> QED
    BY <2>1, <2>2
<1> QED
  BY <1>1, <1>2, OperationSteps DEF InOrder

(* The result of an operation stays.                                       *)
LEMMA ResultsStay ==
  ASSUME TypeOK, BatchTypeOK, InOrder, [BatchNext]_all, NEW r \in Operations, results[r] # Null
  PROVE  results'[r] = results[r]
<1>1. PICK i \in DOMAIN Batch : Batch[i] = r
  BY Places
<1>2. i < position /\ i \in Nat /\ position \in Nat
  BY <1>1, Places DEF InOrder
<1> QED
  BY <1>1, <1>2, OperationSteps

LEMMA RefusalsStep ==
  ASSUME TypeOK, BatchTypeOK, InOrder, RefusalsJustified, [BatchNext]_all
  PROVE  RefusalsJustified'
<1>1. \A q \in BatchCheckIns :
        results[q] = "REJECTED_PERMANENT" => results'[q] = "REJECTED_PERMANENT"
  BY ResultsStay, NullIsNoStatus DEF BatchCheckIns, Statuses
<1>2. CASE UNCHANGED <<refused, results>>
  <2>1. \A s \in BatchCheckIns : pc'[s] = "idle" => pc[s] = "idle"
    BY OperationSteps DEF BatchCheckIns
  <2> QED
    BY <1>2, <2>1 DEF RefusalsJustified
<1>3. ASSUME NEW r \in Operations, NEW status \in Statuses, InWork(r), Conclude(r, status),
             r \in CheckIns /\ pc'[r] = "idle" => NeedsRefused(r)
      PROVE  RefusalsJustified'
  <2>1. results' = [results EXCEPT ![r] = status] /\ r \in Requests
    BY <1>3, OperationsAreRequests DEF Conclude
  <2>2. ASSUME NEW spot \in refused'
        PROVE  \E q \in BatchCheckIns :
                 Call[q].resource = spot /\ results'[q] = "REJECTED_PERMANENT"
    <3>1. CASE spot \in refused
      BY <1>1, <3>1 DEF RefusalsJustified
    <3>2. CASE spot \notin refused
      <4>1. r \in CheckIns /\ status = "REJECTED_PERMANENT" /\ spot = Call[r].resource
        BY <1>3, <2>2, <3>2 DEF Conclude
      <4> QED
        BY <2>1, <4>1 DEF BatchCheckIns, BatchTypeOK
    <3> QED
      BY <3>1, <3>2
  <2>3. ASSUME NEW s \in BatchCheckIns, results'[s] # Null, pc'[s] = "idle"
        PROVE  \E q \in BatchCheckIns :
                 /\ Call[q].resource \in SpotDef[Call[s].resource].prerequisites
                 /\ results'[q] = "REJECTED_PERMANENT"
    <3>1. s \in Operations /\ s \in CheckIns /\ pc[s] = "idle"
      BY <2>3, OperationSteps DEF BatchCheckIns
    <3>2. CASE s = r
      <4>1. PICK spot \in refused : spot \in SpotDef[Call[s].resource].prerequisites
        BY <1>3, <2>3, <3>1, <3>2 DEF NeedsRefused
      <4> QED
        BY <1>1, <4>1 DEF RefusalsJustified
    <3>3. CASE s # r
      <4>1. results[s] # Null
        BY <2>1, <2>3, <3>3 DEF BatchTypeOK
      <4> QED
        BY <1>1, <3>1, <4>1 DEF RefusalsJustified
    <3> QED
      BY <3>2, <3>3
  <2> QED
    BY <2>2, <2>3 DEF RefusalsJustified
<1>4. ASSUME NEW r \in Operations, RefuseDependent(r) \/ TakeResult(r) \/ OperationThrows(r)
      PROVE  RefusalsJustified'
  <2>1. OperationStatus(response[r]) \in Statuses
    BY DEF OperationStatus, Statuses
  <2>2. CASE RefuseDependent(r)
    BY <1>3, <2>2 DEF RefuseDependent, Statuses
  <2>3. CASE TakeResult(r)
    BY <1>3, <2>1, <2>3 DEF TakeResult, vars, handlers
  <2>4. CASE OperationThrows(r)
    <3>1. pc'[r] = "crashed"
      BY <2>4, OperationsAreRequests DEF OperationThrows, Goto, TypeOK
    <3> QED
      BY <1>3, <2>4, <3>1 DEF OperationThrows, Statuses
  <2> QED
    BY <1>4, <2>2, <2>3, <2>4
<1> QED
  BY <1>2, <1>4 DEF BatchNext, BatchStep, StartBatch, ReadCurrent, AttachInventory, RunOperation,
                    BatchLost, Elsewhere, batch, all

LEMMA VerdictsStep ==
  ASSUME FirstSent, OrderInv, [BatchNext]_all
  PROVE  VerdictsJustified'
<1>1. /\ TypeOK /\ SnapshotTaken /\ BatchTypeOK /\ InOrder /\ ServerStep
      /\ SnapshotsCurrent /\ AcceptedStored
  BY BatchSteps DEF OrderInv, BatchInv, LockInv
<1> SUFFICES ASSUME NEW j \in DOMAIN Batch, Batch[j] \in CheckIns,
                    NEW result \in {response[Batch[j]], StoredResult(Batch[j])}' \ {Null},
                    result.code = "PREREQUISITES_NOT_MET"
             PROVE  /\ pc'[Batch[j]] # "idle"
                    /\ ~(SpotDef[Call[Batch[j]].resource].prerequisites \subseteq AcceptedBefore(j)')
  BY DEF VerdictsJustified
<1> DEFINE s == Batch[j]
           needed == SpotDef[Call[s].resource].prerequisites
<1>2. s \in Operations /\ s \in Requests /\ s \in BatchCheckIns /\ j \in Nat
  BY Places DEF BatchCheckIns
<1>3. ASSUME pc[s] # "idle"
      PROVE  pc'[s] # "idle" /\ AcceptedBefore(j)' \subseteq AcceptedBefore(j)
  <2>1. j <= position /\ position \in Nat
    BY <1>1, <1>2, <1>3 DEF InOrder
  <2>2. ASSUME NEW i \in DOMAIN Batch, i < j PROVE results'[Batch[i]] = results[Batch[i]]
    <3>1. i \in Nat /\ i # position
      BY <1>2, <2>1, <2>2, Places
    <3> QED
      BY <1>1, <3>1, OperationSteps
  <2>3. AcceptedBefore(j)' \subseteq AcceptedBefore(j)
    BY <2>2 DEF AcceptedBefore, AcceptedCheckIns
  <2>4. pc'[s] # "idle"
    BY <1>1, <1>2, <1>3, OperationSteps
  <2> QED
    BY <2>3, <2>4
<1>4. CASE result \in {response[s], StoredResult(s)}
  <2>1. pc[s] # "idle" /\ ~(needed \subseteq AcceptedBefore(j))
    BY <1>4 DEF OrderInv, VerdictsJustified
  <2> QED
    BY <1>3, <2>1
<1>5. CASE result \notin {response[s], StoredResult(s)}
  <2>1. PICK r \in CheckIns : /\ CommitCheckIn(r) /\ result.code = CheckInCode(r)
                              /\ IdempotencyKey(r) = IdempotencyKey(s)
    BY <1>1, <1>5, NewAnswers
  <2>2. r = s
    BY <1>2, <2>1 DEF FirstSent
  <2>3. pc[s] = "ready" /\ ~(needed \subseteq snapshot[s].stamps)
    BY <2>1, <2>2 DEF CommitCheckIn, RefuseCheckIn, CheckInCode
  <2>4. AcceptedBefore(j) \subseteq StoredStamps(userStates[BatchUser])
    BY <1>1 DEF AcceptedBefore, AcceptedStored
  <2>5. Call[s].user = BatchUser
    BY BatchAssumption
  <2>6. StoredStamps(userStates[BatchUser]) \subseteq snapshot[s].stamps
    BY <1>1, <2>3, <2>5 DEF SnapshotsCurrent, StoredStamps
  <2> QED
    BY <1>3, <2>3, <2>4, <2>6
<1> QED
  BY <1>4, <1>5

(* In a batch sent for the first time, a check-in is not rejected for the  *)
(* prerequisite that was accepted before it, whatever else failed, came    *)
(* from elsewhere or was written in between.                               *)
THEOREM AcceptedCounts ==
  ASSUME ~SlowHolders, KeysNameSpots, FirstSent, OneCheckInPerSpot
  PROVE  BatchSpec => []AcceptedPrerequisitesCount
<1>1. BatchInit => OrderInv
  <2> SUFFICES ASSUME BatchInit PROVE InOrder /\ RefusalsJustified /\ VerdictsJustified
    BY BatchInvInit DEF OrderInv
  <2>1. \A i \in DOMAIN Batch : Batch[i] \in Requests
    BY Places
  <2> QED
    BY <2>1, KeyTypes, OperationsAreRequests
       DEF BatchInit, Init, InOrder, RefusalsJustified, VerdictsJustified, StoredResult,
           BatchCheckIns
<1>2. OrderInv /\ [BatchNext]_all => OrderInv'
  <2> SUFFICES ASSUME OrderInv, [BatchNext]_all PROVE OrderInv'
    OBVIOUS
  <2>1. TypeOK /\ BatchTypeOK
    BY DEF OrderInv, BatchInv, LockInv
  <2> QED
    BY <2>1, BatchInvStep, InOrderStep, RefusalsStep, VerdictsStep DEF OrderInv
<1>3. OrderInv => AcceptedPrerequisitesCount
  <2> SUFFICES ASSUME OrderInv, NEW i \in DOMAIN Batch, NEW j \in DOMAIN Batch, i < j,
                      {Batch[i], Batch[j]} \subseteq CheckIns,
                      results[Batch[j]] # Null, results[Batch[i]] = "ACCEPTED",
                      SpotDef[Call[Batch[j]].resource].prerequisites = {Call[Batch[i]].resource}
               PROVE  /\ pc[Batch[j]] # "idle"
                      /\ response[Batch[j]] # Null =>
                           response[Batch[j]].code # "PREREQUISITES_NOT_MET"
    BY DEF AcceptedPrerequisitesCount
  <2>1. Batch[i] \in BatchCheckIns /\ Batch[j] \in BatchCheckIns
    BY Places DEF BatchCheckIns
  <2>2. pc[Batch[j]] # "idle"
    BY <2>1 DEF OrderInv, RefusalsJustified, OneCheckInPerSpot
  <2>3. Call[Batch[i]].resource \in AcceptedBefore(j)
    BY DEF AcceptedBefore, AcceptedCheckIns
  <2>4. response[Batch[j]] # Null => response[Batch[j]].code # "PREREQUISITES_NOT_MET"
    BY <2>3 DEF OrderInv, VerdictsJustified
  <2> QED
    BY <2>2, <2>4
<1> QED
  BY <1>1, <1>2, <1>3, PTL DEF BatchSpec
=============================================================================
