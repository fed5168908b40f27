-------------------------- MODULE StampRallyServer --------------------------
(***************************************************************************)
(* StampRallyServer.checkIn and .claimReward (packages/server/src/         *)
(* server.ts) over the persistence adapter (packages/server/src/           *)
(* persistence.ts), for one rally.                                         *)
(*                                                                         *)
(* A request is a sequence of awaits on the adapter, and a step of the     *)
(* model is what runs between two of them: requests interleave at every    *)
(* await.  The adapter runs one transaction at a time and commits it as a  *)
(* unit.  Its locks are leases: a key with an expiry and no owner.         *)
(***************************************************************************)
EXTENDS InventoryPlan

CONSTANTS
  Users,
  Requests,      \* the requests that reach the server, retries included
  Call,          \* [Requests -> [kind, user, resource, key, proofOk]]
  Keys,          \* the idempotency keys the clients chose
  SeedStock,     \* [StockKeys -> level] that storage holds at the start
  Faulty,        \* the requests whose process or storage may fail on the way
  SlowHolders,   \* TRUE: a request may outlive the lease of its lock
  ResultsExpire, \* TRUE: a stored result may outlive its time to live
  RechecksKey    \* TRUE: the claim transaction looks its key up again, as the
                 \* in-memory adapter does; the SQL reference does not

Kinds == {"checkIn", "claim"}

ASSUME CallAssumption ==
  /\ Tickets = Requests
  /\ IsFiniteSet(Requests)
  /\ Call \in [Requests -> [kind : Kinds, user : Users, resource : Spots \union Rewards,
                            key : Keys, proofOk : BOOLEAN]]
  /\ \A r \in Requests :
       Call[r].resource \in (IF Call[r].kind = "checkIn" THEN Spots ELSE Rewards)
  /\ SeedStock \in [StockKeys -> OptionalNat]
  /\ Faulty \subseteq Requests
  /\ SlowHolders \in BOOLEAN
  /\ ResultsExpire \in BOOLEAN
  /\ RechecksKey \in BOOLEAN

CheckIns == {r \in Requests : Call[r].kind = "checkIn"}
Claims   == Requests \ CheckIns

(* The key a result is stored under: the reward is part of it, the spot    *)
(* is not.                                                                 *)
IdempotencyKey(r) ==
  [kind |-> Call[r].kind, user |-> Call[r].user, key |-> Call[r].key,
   reward |-> IF r \in Claims THEN Call[r].resource ELSE Null]

IdempotencyKeys == {IdempotencyKey(r) : r \in Requests}

LockKey(r) ==
  IF r \in CheckIns THEN <<"state", Call[r].user>>
  ELSE IF InventoryMode = "shared" THEN <<"inventory", "shared">>
  ELSE <<"reward", Call[r].resource>>

LockKeys == {LockKey(r) : r \in Requests}

Codes ==
  {"OK", "CONFLICT", "UNAVAILABLE", "STAMP_ALREADY_ACQUIRED", "PREREQUISITES_NOT_MET",
   "INVALID_PROOF", "OUT_OF_STOCK", "INVALID_PASSCODE", "ALREADY_CONSUMED",
   "NOT_AVAILABLE", "EXPIRED", "USER_LIMIT_REACHED", "PERSISTENCE_FAILED"}

Results == [code : Codes, ticket : Tickets \union {Null}]

ASSUME NullIsNoResult == Null \notin Results

Plain(code) == [code |-> code, ticket |-> Null]

ClaimRecords == [user : Users, reward : Rewards, ticket : Tickets]

VARIABLES
  clock,         \* the server clock
  locks,         \* the lock keys whose lease has not run out
  idempotent,    \* stored results, by idempotency key
  userStates,    \* stored user states, Null before the first write
  stocks,        \* stored stock levels, Null while storage holds none
  claimRecords,  \* the tickets issued; a user's claim count counts them
  audit,         \* what each request logged
  pc,            \* where each request is
  startedAt,     \* the timestamp a request took after its lock
  snapshot,      \* the user state a check-in read before its transaction
  response       \* what each request answered

store    == <<idempotent, userStates, stocks, claimRecords, audit>>
handlers == <<pc, startedAt, snapshot, response>>
vars     == <<clock, locks, store, handlers>>

TypeOK ==
  /\ clock \in Time
  /\ locks \subseteq LockKeys
  /\ idempotent \in [IdempotencyKeys -> Results \union {Null}]
  /\ userStates \in [Users -> UserStates \union {Null}]
  /\ stocks \in [StockKeys -> OptionalNat]
  /\ claimRecords \subseteq ClaimRecords
  /\ audit \in [Requests -> {"SUCCESS", "REJECTED", Null}]
  /\ pc \in [Requests -> {"idle", "missed", "locked", "ready", "releasing", "done", "crashed"}]
  /\ startedAt \in [Requests -> Time]
  /\ snapshot \in [Requests -> UserStates \union {Null}]
  /\ response \in [Requests -> Results \union {Null}]

Init ==
  /\ clock = 0
  /\ locks = {}
  /\ idempotent = [k \in IdempotencyKeys |-> Null]
  /\ userStates = [u \in Users |-> Null]
  /\ stocks = SeedStock
  /\ claimRecords = {}
  /\ audit = [r \in Requests |-> Null]
  /\ pc = [r \in Requests |-> "idle"]
  /\ startedAt = [r \in Requests |-> 0]
  /\ snapshot = [r \in Requests |-> Null]
  /\ response = [r \in Requests |-> Null]

-----------------------------------------------------------------------------
(* Steps that both handlers share.                                         *)

StoredResult(r) == idempotent[IdempotencyKey(r)]

Goto(r, label) == pc' = [pc EXCEPT ![r] = label]

Answer(r, result) == response' = [response EXCEPT ![r] = result]

(* getIdempotentResult before the lock: a stored result is the answer.     *)
LookUpResult(r) ==
  /\ pc[r] = "idle"
  /\ \/ /\ StoredResult(r) = Null
        /\ Goto(r, "missed")
        /\ UNCHANGED response
     \/ /\ StoredResult(r) # Null
        /\ Goto(r, "done")
        /\ Answer(r, StoredResult(r))
  /\ UNCHANGED <<clock, locks, store, startedAt, snapshot>>

(* Mutant: the result of acquireLock is ignored.                           *)
MutantAcquireLock(r) ==
  /\ pc[r] = "missed"
  /\ locks' = locks \union {LockKey(r)}
  /\ startedAt' = [startedAt EXCEPT ![r] = clock]
  /\ Goto(r, "locked")
  /\ UNCHANGED <<clock, store, snapshot, response>>

(* acquireLock: the lease is granted unless it is still running.           *)
AcquireLock(r) ==
  /\ pc[r] = "missed"
  /\ LockKey(r) \notin locks
  /\ locks' = locks \union {LockKey(r)}
  /\ startedAt' = [startedAt EXCEPT ![r] = clock]
  /\ Goto(r, "locked")
  /\ UNCHANGED <<clock, store, snapshot, response>>

LockConflict(r) ==
  /\ pc[r] = "missed"
  /\ LockKey(r) \in locks
  /\ Goto(r, "done")
  /\ Answer(r, Plain("CONFLICT"))
  /\ UNCHANGED <<clock, locks, store, startedAt, snapshot>>

(* releaseLock in the finally block deletes the key, whoever holds it.     *)
ReleaseLock(r) ==
  /\ pc[r] = "releasing"
  /\ locks' = locks \ {LockKey(r)}
  /\ Goto(r, "done")
  /\ UNCHANGED <<clock, store, startedAt, snapshot, response>>

(* Mutant: the rollback forgets the stored result of the claim.            *)
MutantResultSurvives(r) ==
  /\ r \in Faulty
  /\ pc[r] \in {"locked", "ready"}
  /\ idempotent' = [idempotent EXCEPT ![IdempotencyKey(r)] = [code |-> "OK", ticket |-> r]]
  /\ Answer(r, Plain("PERSISTENCE_FAILED"))
  /\ Goto(r, "releasing")
  /\ UNCHANGED <<clock, locks, userStates, stocks, claimRecords, audit, startedAt, snapshot>>

(* Mutant: the rollback of a claim forgets the user state.                 *)
MutantStateSurvives(r) ==
  LET u == Call[r].user
      rw == Call[r].resource
  IN  /\ r \in Faulty \intersect Claims
      /\ pc[r] = "ready"
      /\ userStates[u] # Null
      /\ userStates[u].rewards[rw].status = "AVAILABLE"
      /\ userStates' = [userStates EXCEPT ![u].rewards[rw] =
                           ConsumedReward(rw, userStates[u].rewards[rw], r)]
      /\ Answer(r, Plain("PERSISTENCE_FAILED"))
      /\ Goto(r, "releasing")
      /\ UNCHANGED <<clock, locks, idempotent, stocks, claimRecords, audit, startedAt, snapshot>>

(* A read of the adapter throws, or its transaction rolls back.            *)
StorageFails(r) ==
  /\ r \in Faulty
  /\ pc[r] \in {"locked", "ready"}
  /\ Answer(r, Plain("PERSISTENCE_FAILED"))
  /\ Goto(r, "releasing")
  /\ UNCHANGED <<clock, locks, store, startedAt, snapshot>>

(* The process that serves r dies: no answer, and the lock stays.          *)
Crash(r) ==
  /\ r \in Faulty
  /\ pc[r] \notin {"idle", "done", "crashed"}
  /\ Goto(r, "crashed")
  /\ response' = [response EXCEPT ![r] = Null]
  /\ UNCHANGED <<clock, locks, store, startedAt, snapshot>>

-----------------------------------------------------------------------------
(* checkIn                                                                 *)

StateOf(u, now) == IF userStates[u] = Null THEN InitialState(now) ELSE userStates[u]

(* getUserState: the state every later decision of the check-in is about.  *)
ReadUserState(r) ==
  /\ r \in CheckIns
  /\ pc[r] = "locked"
  /\ snapshot' = [snapshot EXCEPT ![r] = StateOf(Call[r].user, startedAt[r])]
  /\ Goto(r, "ready")
  /\ UNCHANGED <<clock, locks, store, startedAt, response>>

(* Mutant: prerequisites are only checked against the known spots.         *)
MutantCheckInCode(r) ==
  LET spot == Call[r].resource
  IN  IF startedAt[r] \notin SpotDef[spot].openAt THEN "UNAVAILABLE"
      ELSE IF spot \in snapshot[r].stamps THEN "STAMP_ALREADY_ACQUIRED"
      ELSE IF ~(SpotDef[spot].prerequisites \subseteq Spots) THEN "PREREQUISITES_NOT_MET"
      ELSE IF ~Call[r].proofOk THEN "INVALID_PROOF"
      ELSE "OK"

CheckInCode(r) ==
  LET spot == Call[r].resource
      acquired == snapshot[r].stamps
  IN  IF startedAt[r] \notin SpotDef[spot].openAt THEN "UNAVAILABLE"
      ELSE IF spot \in acquired THEN "STAMP_ALREADY_ACQUIRED"
      ELSE IF ~(SpotDef[spot].prerequisites \subseteq acquired) THEN "PREREQUISITES_NOT_MET"
      ELSE IF ~Call[r].proofOk THEN "INVALID_PROOF"
      ELSE "OK"

Stamped(state, spot, now) ==
  LET stamps == state.stamps \union {spot}
  IN  [stamps |-> stamps, rewards |-> ReconcileRewardStates(state.rewards, stamps, now)]

(* Mutant: the rewards are merged from storage, the stamps are not.        *)
MutantStateAfterCheckIn(r) ==
  Stamped([stamps  |-> snapshot[r].stamps,
           rewards |-> StateOf(Call[r].user, startedAt[r]).rewards],
          Call[r].resource, startedAt[r])

StateAfterCheckIn(r) == Stamped(snapshot[r], Call[r].resource, startedAt[r])

(* #rememberCheckInTransaction: a refusal is audited and remembered, too,  *)
(* and leaves the state as it is.                                          *)
RefuseCheckIn(r) ==
  audit' = [audit EXCEPT ![r] = "REJECTED"] /\ UNCHANGED userStates

(* executeCheckInTransaction: the state, the audit entry and the result    *)
(* are written as one unit.  The state written comes from the snapshot.    *)
CommitCheckIn(r) ==
  LET u == Call[r].user
      code == CheckInCode(r)
  IN  /\ r \in CheckIns
      /\ pc[r] = "ready"
      /\ \/ /\ code = "OK"
            /\ userStates' = [userStates EXCEPT ![u] = StateAfterCheckIn(r)]
            /\ audit' = [audit EXCEPT ![r] = "SUCCESS"]
         \/ code # "OK" /\ RefuseCheckIn(r)
      /\ idempotent' = [idempotent EXCEPT ![IdempotencyKey(r)] = Plain(code)]
      /\ Answer(r, Plain(code))
      /\ Goto(r, "releasing")
      /\ UNCHANGED <<clock, locks, stocks, claimRecords, startedAt, snapshot>>

-----------------------------------------------------------------------------
(* claimReward                                                             *)

(* The result is looked up again once the lock is held.                    *)
RecheckResult(r) ==
  /\ r \in Claims
  /\ pc[r] = "locked"
  /\ \/ /\ StoredResult(r) = Null
        /\ Goto(r, "ready")
        /\ UNCHANGED response
     \/ /\ StoredResult(r) # Null
        /\ Goto(r, "releasing")
        /\ Answer(r, StoredResult(r))
  /\ UNCHANGED <<clock, locks, store, startedAt, snapshot>>

ClaimsOf(u, rw) == {c \in claimRecords : c.user = u /\ c.reward = rw}

PrimaryStock(rw) == OrElse(stocks[PrimaryKey(rw)], PrimaryInitial(rw))

SecondaryStock(rw) ==
  IF SecondaryKey(rw) = Null THEN SecondaryInitial(rw)
  ELSE OrElse(stocks[SecondaryKey(rw)], SecondaryInitial(rw))

(* Mutant: the second bucket is not looked at.                             *)
MutantOutOfStock(rw) == PrimaryStock(rw) = 0

OutOfStock(rw) == 0 \in {PrimaryStock(rw), SecondaryStock(rw)}

(* A server_claim reward that was consumed can be claimed again while the  *)
(* user's limit, if any, allows it.                                        *)
Claimable(rw, current, count) ==
  IF /\ RewardDef[rw].redemptionMethod = "server_claim"
     /\ current.status = "CONSUMED"
     /\ ~Reached(RewardDef[rw].userClaimLimit, count)
  THEN [current EXCEPT !.status = "AVAILABLE"]
  ELSE current

ClaimCode(r, current, count) ==
  LET rw == Call[r].resource IN
  IF OutOfStock(rw) THEN "OUT_OF_STOCK"
  ELSE IF RewardDef[rw].redemptionMethod = "staff_passcode" /\ ~RewardDef[rw].hasPasscode
       THEN "INVALID_PASSCODE"
  ELSE ConsumeError(rw, current, startedAt[r], count, Call[r].proofOk)

(* Mutant: only the primary bucket is decremented.                         *)
MutantStocksAfter(rw, ticketed) ==
  [key \in StockKeys |->
     IF key \notin Buckets(rw) THEN stocks[key]
     ELSE LET level == OrElse(stocks[key], InitialLevel(rw, key))
          IN  IF level # Null /\ ticketed /\ key = PrimaryKey(rw) THEN level - 1 ELSE level]

(* What a claim leaves in the buckets it draws from: storage learns the    *)
(* initial level of a bucket with the first claim, and a ticket takes one. *)
StocksAfter(rw, ticketed) ==
  [key \in StockKeys |->
     IF key \notin Buckets(rw) THEN stocks[key]
     ELSE LET level == OrElse(stocks[key], InitialLevel(rw, key))
          IN  IF level # Null /\ ticketed THEN level - 1 ELSE level]

(* Mutant: the transaction does not look the key up again.                 *)
MutantResultInTransaction(r) == Null

ResultInTransaction(r) == IF RechecksKey THEN StoredResult(r) ELSE Null

(* executeClaimRewardTransaction with a result already stored under the    *)
(* key: it succeeds without calling the mutation, and the handler, left    *)
(* without a response, reports a failure.                                  *)
ClaimAlreadyStored(r) ==
  /\ r \in Claims
  /\ pc[r] = "ready"
  /\ ResultInTransaction(r) # Null
  /\ Answer(r, Plain("PERSISTENCE_FAILED"))
  /\ Goto(r, "releasing")
  /\ UNCHANGED <<clock, locks, store, startedAt, snapshot>>

(* executeClaimRewardTransaction: user state, stock and claim count are    *)
(* read inside the transaction, and everything is written with them.       *)
CommitClaim(r) ==
  LET u == Call[r].user
      rw == Call[r].resource
      state == StateOf(u, startedAt[r])
      count == Cardinality(ClaimsOf(u, rw))
      current == Claimable(rw, state.rewards[rw], count)
      code == ClaimCode(r, current, count)
      consumed == ConsumedReward(rw, current, r)
      result == [code |-> code, ticket |-> IF code = "OK" THEN consumed.ticket ELSE Null]
  IN  /\ r \in Claims
      /\ pc[r] = "ready"
      /\ ResultInTransaction(r) = Null
      /\ \/ /\ code = "OK"
            /\ userStates' = [userStates EXCEPT ![u] = [state EXCEPT !.rewards[rw] = consumed]]
            /\ stocks' = StocksAfter(rw, consumed.ticket # Null)
            /\ claimRecords' = claimRecords \union
                 {[user |-> u, reward |-> rw, ticket |-> t] : t \in {consumed.ticket} \ {Null}}
            /\ audit' = [audit EXCEPT ![r] = "SUCCESS"]
         \/ /\ code # "OK"
            /\ audit' = [audit EXCEPT ![r] = "REJECTED"]
            /\ UNCHANGED <<userStates, stocks, claimRecords>>
      /\ idempotent' = [idempotent EXCEPT ![IdempotencyKey(r)] = result]
      /\ Answer(r, result)
      /\ Goto(r, "releasing")
      /\ UNCHANGED <<clock, locks, startedAt, snapshot>>

-----------------------------------------------------------------------------
(* Time                                                                    *)

Tick ==
  /\ clock < MaxTime
  /\ clock' = clock + 1
  /\ UNCHANGED <<locks, store, handlers>>

Holding(r) == pc[r] \in {"locked", "ready", "releasing"}

(* Mutant: a lock has no time to live.                                     *)
MutantLeaseExpires(lock) == FALSE

(* A lease runs out.  Unless SlowHolders, only a crashed holder's does.    *)
LeaseExpires(lock) ==
  /\ lock \in locks
  /\ SlowHolders \/ \A r \in Requests : LockKey(r) = lock => ~Holding(r)
  /\ locks' = locks \ {lock}
  /\ UNCHANGED <<clock, store, handlers>>

ResultLapses(k) ==
  /\ ResultsExpire
  /\ idempotent[k] # Null
  /\ idempotent' = [idempotent EXCEPT ![k] = Null]
  /\ UNCHANGED <<clock, locks, userStates, stocks, claimRecords, audit, handlers>>

HandlerStep(r) ==
  \/ LookUpResult(r) \/ AcquireLock(r) \/ LockConflict(r) \/ ReleaseLock(r)
  \/ ReadUserState(r) \/ CommitCheckIn(r)
  \/ RecheckResult(r) \/ ClaimAlreadyStored(r) \/ CommitClaim(r)

Next ==
  \/ \E r \in Requests : HandlerStep(r) \/ StorageFails(r) \/ Crash(r)
  \/ \E lock \in locks : LeaseExpires(lock)
  \/ \E k \in IdempotencyKeys : ResultLapses(k)
  \/ Tick

Spec == Init /\ [][Next]_vars
-----------------------------------------------------------------------------
(* Properties                                                              *)

(* The tickets drawn from a bucket.                                        *)
DrawnFrom(key) == {c \in claimRecords : key \in Buckets(c.reward)}

(* The levels a bucket may have started from.                              *)
StartLevels(key) ==
  IF SeedStock[key] # Null THEN {SeedStock[key]}
  ELSE {InitialLevel(rw, key) : rw \in {rw \in Rewards : key \in Buckets(rw)}} \ {Null}

(* The rewards that share a bucket start it at one level.                  *)
BucketsAgree ==
  \A rw1, rw2 \in Rewards :
    \A key \in Buckets(rw1) \intersect Buckets(rw2) :
      InitialLevel(rw1, key) = InitialLevel(rw2, key)

(* No bucket is oversold and none leaks: what is left and the tickets      *)
(* drawn from it add up to what it started with, whatever claims ran       *)
(* concurrently, failed or were repeated.                                  *)
StockConserved ==
  BucketsAgree =>
    \A key \in StockKeys :
      stocks[key] # Null =>
        \E level \in StartLevels(key) : stocks[key] + Cardinality(DrawnFrom(key)) = level

(* The level a bucket starts at, when the rewards that share it agree.     *)
StartLevel(key) ==
  IF StartLevels(key) = {} THEN Null ELSE CHOOSE level \in StartLevels(key) : TRUE

(* The ledger's constants, from the configuration.                         *)
TicketKeys   == [r \in Requests |-> IdempotencyKey(r)]
RewardDraws  == [rw \in Rewards |-> Buckets(rw)]
BucketLevels == [key \in StockKeys |-> StartLevel(key)]
UserLimits   == [rw \in Rewards |-> RewardDef[rw].userClaimLimit]

Ledger == INSTANCE ClaimLedger
  WITH NoLimit <- Null, issued <- claimRecords, KeyOf <- TicketKeys,
       Draws <- RewardDraws, Level <- BucketLevels, PerUser <- UserLimits

(* Concurrent, retried, interrupted and overrun claims issue tickets as    *)
(* the ledger does: a new key, stock in every bucket, the user below the   *)
(* limit, judged at one instant.                                           *)
ImplementsLedger == Ledger!Spec

(* A user's limit counts tickets: it holds although a check-in can make a  *)
(* redeemed reward available again.                                        *)
ClaimLimitRespected == Ledger!WithinLimits

(* What a request was told, and what is cached for its retries, is backed  *)
(* by storage: the ticket of an answer is in the claim records of its      *)
(* user, and it went through the audit log.                                *)
AnswersBacked ==
  \A r \in Claims :
    \A result \in {response[r], StoredResult(r)} \ {Null} :
      result.ticket # Null =>
        /\ [user |-> Call[r].user, reward |-> Call[r].resource, ticket |-> result.ticket]
             \in claimRecords
        /\ audit[result.ticket] = "SUCCESS"

(* No stamp without its prerequisites, although a check-in decides on a    *)
(* state it read before its transaction.                                   *)
PrerequisitesClosed ==
  \A u \in Users :
    userStates[u] # Null =>
      \A s \in userStates[u].stamps : SpotDef[s].prerequisites \subseteq userStates[u].stamps

(* A reward is open or consumed only on stamps that unlock it.             *)
UnlockedRewardsEarned ==
  \A u \in Users, rw \in Rewards :
    userStates[u] # Null /\ userStates[u].rewards[rw].status \in {"AVAILABLE", "CONSUMED"} =>
      UnlockConditionMet(rw, userStates[u].stamps)

(* A reward shown as consumed carries a ticket that was issued for it to   *)
(* this user.                                                              *)
ConsumedHasRecord ==
  \A u \in Users, rw \in Rewards :
    userStates[u] # Null /\ userStates[u].rewards[rw].status = "CONSUMED" =>
      [user |-> u, reward |-> rw, ticket |-> userStates[u].rewards[rw].ticket] \in claimRecords

(* A stamp, once stored, is never lost again.                              *)
StampsKept ==
  [][\A u \in Users :
       userStates[u] # Null =>
         userStates'[u] # Null /\ userStates[u].stamps \subseteq userStates'[u].stamps]_vars

(* A reward of any method but server_claim is redeemed once by a user.     *)
RedeemedOnce ==
  \A u \in Users, rw \in Rewards :
    RewardDef[rw].redemptionMethod # "server_claim" => Cardinality(ClaimsOf(u, rw)) <= 1
=============================================================================
