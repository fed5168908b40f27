----------------------------- MODULE RallyClient -----------------------------
(***************************************************************************)
(* StampRallyClient (packages/core/src/client/client.ts) for one visitor:  *)
(* first a guest, later perhaps the owner of an account.  Every call waits *)
(* for the one before it, and a call is a sequence of awaits on storage,   *)
(* on the queue and on the adapter; a step is what runs between two of     *)
(* them.  The page may be closed between any two steps.                    *)
(*                                                                         *)
(* The steps the queue takes on its own storage are those of OfflineQueue; *)
(* here a queue is what it holds before and after them.                    *)
(***************************************************************************)
EXTENDS ReplayLog

CONSTANTS
  Guest,       \* the anonymous session
  Accounts,    \* the accounts it can be linked to
  Stock,       \* what the shared inventory starts with
  PassedBy,    \* the adapters the application passes to sync, see SyncKinds
  Uses,        \* which of AllUses the application makes
  MaxKeys,     \* bounds the operations that are queued
  MaxCrashes,  \* bounds the times the page is closed on the way
  MaxRefusals  \* bounds the times storage refuses a state

Users == {Guest} \union Accounts

(* What the adapter of a synchronization has: checkIn and claimReward      *)
(* only, or sync too, or sync only, which then carries the operations.     *)
SyncKinds == {"each", "eachThenPull", "batch"}

AllUses == {"local", "switchUser", "reset", "clear", "restore", "linkAccount"}

ASSUME ClientAssumption ==
  /\ Guest \notin Accounts /\ Tickets = {"own", "issued"}
  /\ {Stock, MaxKeys, MaxCrashes, MaxRefusals} \subseteq Nat
  /\ PassedBy \subseteq SyncKinds /\ Uses \subseteq AllUses
  /\ MaxTime > 0   \* see ServerTime

VARIABLES
  clock,
  who,       \* #userId
  mem,       \* #state, Null while the page is closed
  saved,     \* [Users -> what storage holds for a user, or Null]
  queue,     \* the operations of each user: the queue in storage
  refused,   \* [Users -> SUBSET Spots]: the check-ins of the rejection history
  call,      \* where the call that runs is, and what it holds in its locals
  keys,      \* the last idempotency key handed out
  flying,    \* the requests the server may still receive
  answers,   \* the results the server stored, by user and key
  server,    \* [Users -> the user's state on the server]
  stock,     \* what is left of the shared inventory
  brought,   \* [Users -> SUBSET Spots]: what is shown on no operation's account:
             \* stamps that were only local, came from the guest, or whose
             \* rejection was not saved
  crashes, refusals

phone  == <<who, mem, saved, queue, refused, call, keys, brought>>
world  == <<flying, answers, server, stock>>
limits == <<crashes, refusals>>
vars   == <<clock, phone, world, limits>>

Idle   == [at |-> "idle"]
Closed == [at |-> "closed"]

(* About to save a state and then to show it; orphan is what stays shown   *)
(* although its operation has left the queue, if the save does not happen. *)
Saving(state, orphan, next) ==
  [at |-> "saving", state |-> state, orphan |-> orphan, next |-> next]

Init ==
  /\ clock = 0 /\ who = Guest /\ mem = Null /\ call = Closed
  /\ saved = [u \in Users |-> Null]
  /\ queue = [u \in Users |-> <<>>] /\ refused = [u \in Users |-> {}]
  /\ keys = 0 /\ brought = [u \in Users |-> {}]
  /\ flying = {} /\ answers = {}
  /\ server = [u \in Users |-> EmptyState(0)] /\ stock = Stock
  /\ crashes = 0 /\ refusals = 0
-----------------------------------------------------------------------------
(* The state in storage and in memory.                                     *)

(* initialize: what storage holds, reconciled; no operation is replayed.   *)
Loaded(u) == IF saved[u] = Null THEN EmptyState(clock) ELSE Reconciled(saved[u])

Open ==
  /\ call = Closed
  /\ mem' = Loaded(who) /\ call' = Idle
  /\ UNCHANGED <<clock, who, saved, queue, refused, keys, brought, world, limits>>

(* Mutant: a state is shown, and never saved.                              *)
MutantSave ==
  /\ call.at = "saving"
  /\ mem' = call.state /\ call' = call.next
  /\ UNCHANGED <<clock, who, saved, queue, refused, keys, brought, world, limits>>

Save ==
  /\ call.at = "saving"
  /\ saved' = [saved EXCEPT ![who] = call.state]
  /\ mem' = call.state /\ call' = call.next
  /\ UNCHANGED <<clock, who, queue, refused, keys, brought, world, limits>>

Orphan == IF call.at = "saving" THEN call.orphan ELSE {}

(* Storage refuses the state: the call rejects, memory stays as it was.    *)
SaveRefused ==
  /\ call.at = "saving" /\ refusals < MaxRefusals
  /\ refusals' = refusals + 1 /\ call' = Idle
  /\ brought' = [brought EXCEPT ![who] = @ \union Orphan]
  /\ UNCHANGED <<clock, who, mem, saved, queue, refused, keys, world, crashes>>

ClosePage ==
  /\ call # Closed /\ crashes < MaxCrashes
  /\ crashes' = crashes + 1 /\ call' = Closed /\ mem' = Null
  /\ brought' = [brought EXCEPT ![who] = @ \union Orphan]
  /\ UNCHANGED <<clock, who, saved, queue, refused, keys, world, refusals>>

(* switchUser, of the client and of its queue.                             *)
SwitchUser(u) ==
  /\ "switchUser" \in Uses /\ call = Idle /\ u # who
  /\ who' = u /\ mem' = Loaded(u)
  /\ UNCHANGED <<clock, saved, queue, refused, call, keys, brought, world, limits>>

(* reset, and clearUserState of the user in charge; the queue stays.       *)
Reset ==
  /\ "reset" \in Uses /\ call = Idle
  /\ saved' = [saved EXCEPT ![who] = Null] /\ mem' = EmptyState(clock)
  /\ UNCHANGED <<clock, who, queue, refused, call, keys, brought, world, limits>>

ClearUserState(u) ==
  /\ "clear" \in Uses /\ call = Idle /\ u # who
  /\ saved' = [saved EXCEPT ![u] = Null]
  /\ UNCHANGED <<clock, who, mem, queue, refused, call, keys, brought, world, limits>>

(* restore, and importCloudSnapshot: a state of this user from elsewhere.  *)
Restore ==
  /\ "restore" \in Uses /\ call = Idle /\ who # Guest
  /\ call' = Saving(Reconciled(server[who]), {}, Idle)
  /\ UNCHANGED <<clock, who, mem, saved, queue, refused, keys, brought, world, limits>>
-----------------------------------------------------------------------------
(* checkIn and claimReward                                                 *)

MayCheckIn(spot) ==
  /\ mem.stamps[spot] = Null
  /\ SpotDef[spot].prerequisites \subseteq Held(mem)

MayClaim(rw) == ConsumeError(rw, mem.rewards[rw], clock, 0, TRUE) = "OK"

(* With sync: false, or without an adapter, nothing is sent or queued.     *)
CheckInLocally(spot) ==
  /\ "local" \in Uses /\ call = Idle /\ MayCheckIn(spot) /\ clock \in SpotDef[spot].openAt
  /\ call' = Saving(LocalCheckIn(mem, spot, clock), {}, Idle)
  /\ brought' = [brought EXCEPT ![who] = @ \union {spot}]
  /\ UNCHANGED <<clock, who, mem, saved, queue, refused, keys, world, limits>>

Request(op) == [user |-> who, kind |-> op.kind, resource |-> op.resource, key |-> op.key]

Ask(op) ==
  /\ keys < MaxKeys /\ keys' = keys + 1
  /\ flying' = flying \union {Request(op)}
  /\ call' = [at |-> "asking", op |-> op]
  /\ UNCHANGED <<clock, who, mem, saved, queue, refused, brought, answers, server, stock, limits>>

CheckIn(spot) ==
  /\ call = Idle /\ MayCheckIn(spot)
  /\ Ask([kind |-> "checkIn", resource |-> spot, key |-> keys + 1, at |-> clock, rejected |-> FALSE,
          base |-> mem, optimistic |-> LocalCheckIn(mem, spot, clock)])

ClaimReward(rw) ==
  /\ call = Idle /\ MayClaim(rw)
  /\ Ask([kind |-> "claimReward", resource |-> rw, key |-> keys + 1, at |-> clock, rejected |-> FALSE,
          base |-> mem, optimistic |-> LocalClaim(mem, rw, clock)])

Answer(key) == {a \in answers : a.user = who /\ a.key = key}

(* The adapter answers: the server's state is saved and shown as it is.    *)
Answered ==
  /\ call.at = "asking"
  /\ \E a \in Answer(call.op.key) :
       call' = IF a.ok THEN Saving(a.state, {}, Idle) ELSE Idle
  /\ UNCHANGED <<clock, who, mem, saved, queue, refused, keys, brought, world, limits>>

(* The adapter throws: the operation is queued and shown, unless the spot  *)
(* was closed.                                                             *)
NotAnswered ==
  LET op == call.op
      closed == op.kind = "checkIn" /\ op.at \notin SpotDef[op.resource].openAt
  IN  /\ call.at = "asking"
      /\ \/ closed /\ call' = Idle /\ UNCHANGED queue
         \/ /\ ~closed
            /\ queue' = [queue EXCEPT ![who] = Append(@, op)]
            /\ call' = Saving(op.optimistic, {}, Idle)
      /\ UNCHANGED <<clock, who, mem, saved, refused, keys, brought, world, limits>>
-----------------------------------------------------------------------------
(* sync, operation by operation                                            *)

Sync(kind) ==
  /\ call = Idle
  /\ call' = IF kind = "batch" THEN [at |-> "pulling", ops |-> queue[who]]
             ELSE [at |-> "head", pull |-> kind = "eachThenPull"]
  /\ flying' = IF kind = "batch"
               THEN flying \union {Request(op) : op \in ToSet(queue[who])}
               ELSE flying
  /\ UNCHANGED <<clock, who, mem, saved, queue, refused, keys, brought, answers, server, stock,
                 limits>>

QueueDone ==
  /\ call.at = "head" /\ queue[who] = <<>>
  /\ call' = IF call.pull THEN [at |-> "pulling", ops |-> <<>>] ELSE Idle
  /\ UNCHANGED <<clock, who, mem, saved, queue, refused, keys, brought, world, limits>>

FailedPrerequisite(op) ==
  op.kind = "checkIn" /\ SpotDef[op.resource].prerequisites \intersect refused[who] # {}

SendHead ==
  /\ call.at = "head" /\ queue[who] # <<>>
  /\ LET op == Head(queue[who])
     IN  /\ ~FailedPrerequisite(op)
         /\ flying' = flying \union {Request(op)}
         /\ call' = [at |-> "waiting", op |-> op, pull |-> call.pull]
  /\ UNCHANGED <<clock, who, mem, saved, queue, refused, keys, brought, answers, server, stock,
                 limits>>

CheckInsOf(op) == IF op.kind = "checkIn" THEN {op.resource} ELSE {}

(* #handleOfflineSyncResult for a rejection without a state.               *)
RolledBack(op, rest) == Reconciled(Replay(Rollback(mem, op), rest))

(* Mutant: nothing is taken back.                                          *)
MutantReject(op, next) ==
  LET rest == Tail(queue[who])
  IN  /\ queue' = [queue EXCEPT ![who] = rest]
      /\ refused' = [refused EXCEPT ![who] = @ \union CheckInsOf(op)]
      /\ call' = Saving(Reconciled(Replay(mem, rest)), CheckInsOf(op), next)

(* Mutant: the rejected operation stays at the head.                       *)
MutantRejectKeeps(op, next) ==
  /\ call' = Saving(RolledBack(op, Tail(queue[who])), {}, next)
  /\ UNCHANGED <<queue, refused>>

Reject(op, next) ==
  LET rest == Tail(queue[who])
  IN  /\ queue' = [queue EXCEPT ![who] = rest]
      /\ refused' = [refused EXCEPT ![who] = @ \union CheckInsOf(op)]
      /\ call' = Saving(RolledBack(op, rest), CheckInsOf(op), next)

SkipHead ==
  /\ call.at = "head" /\ queue[who] # <<>> /\ FailedPrerequisite(Head(queue[who]))
  /\ Reject(Head(queue[who]), call)
  /\ UNCHANGED <<clock, who, mem, saved, keys, brought, world, limits>>

HeadAnswered ==
  /\ call.at = "waiting"
  /\ \E a \in Answer(call.op.key) :
       LET back == [at |-> "head", pull |-> call.pull]
           rest == Tail(queue[who])
       IN  IF ~a.ok THEN Reject(call.op, back)
           ELSE /\ queue' = [queue EXCEPT ![who] = rest]
                /\ call' = Saving(Reconciled(Replay(a.state, rest)), {}, back)
                /\ UNCHANGED refused
  /\ UNCHANGED <<clock, who, mem, saved, keys, brought, world, limits>>

(* The last retry failed, or the adapter's sync threw: the call rejects.   *)
SyncFails ==
  /\ call.at \in {"waiting", "pulling", "linking"}
  /\ call' = Idle
  /\ UNCHANGED <<clock, who, mem, saved, queue, refused, keys, brought, world, limits>>
-----------------------------------------------------------------------------
(* sync, the adapter's sync: the server's state, and the results of the    *)
(* operations that were sent with it.                                      *)

(* #attachInventory                                                        *)
Attached(state) == [state EXCEPT !.left = [s \in Shelves |-> IF s = "shared" THEN stock ELSE Null]]

(* Mutant: what got no answer counts as rejected.                          *)
MutantResult(op) ==
  [key |-> op.key,
   status |-> IF \E a \in Answer(op.key) : a.ok THEN "ACCEPTED" ELSE "REJECTED_PERMANENT"]

Result(op) ==
  [key |-> op.key,
   status |-> IF Answer(op.key) = {} THEN "FAILED_RETRYABLE"
              ELSE IF \E a \in Answer(op.key) : a.ok THEN "ACCEPTED" ELSE "REJECTED_PERMANENT"]

Pulled ==
  /\ call.at = "pulling"
  /\ call' = [at |-> "applying", current |-> Attached(server[who]),
              results |-> [i \in DOMAIN call.ops |-> Result(call.ops[i])]]
  /\ UNCHANGED <<clock, who, mem, saved, queue, refused, keys, brought, world, limits>>

Rebuilt(ops) == Reconciled(Replay(call.current, ops))

(* applySyncProgress, one result; and the state after the last.            *)
ApplyResult ==
  LET result == Head(call.results)
      found == {i \in DOMAIN queue[who] : queue[who][i].key = result.key}
      op == queue[who][Min(found)]
      rest == RemoveAt(queue[who], Min(found))
      next == [call EXCEPT !.results = Tail(@)]
  IN  /\ call.at = "applying" /\ call.results # <<>>
      /\ IF result.status = "FAILED_RETRYABLE" \/ found = {}
         THEN call' = next /\ UNCHANGED <<queue, refused>>
         ELSE /\ queue' = [queue EXCEPT ![who] = rest]
              /\ IF result.status = "ACCEPTED"
                 THEN call' = Saving(Rebuilt(rest), {}, next) /\ UNCHANGED refused
                 ELSE /\ call' = Saving(Rebuilt(rest), CheckInsOf(op), next)
                      /\ refused' = [refused EXCEPT ![who] = @ \union CheckInsOf(op)]
      /\ UNCHANGED <<clock, who, mem, saved, keys, brought, world, limits>>

FinishSync ==
  /\ call.at = "applying" /\ call.results = <<>>
  /\ call' = Saving(Rebuilt(queue[who]), {}, Idle)
  /\ UNCHANGED <<clock, who, mem, saved, queue, refused, keys, brought, world, limits>>
-----------------------------------------------------------------------------
(* linkAccount                                                             *)

LinkAccount(account) ==
  /\ "linkAccount" \in Uses /\ call = Idle /\ who = Guest
  /\ call' = [at |-> "linking", to |-> account]
  /\ UNCHANGED <<clock, who, mem, saved, queue, refused, keys, brought, world, limits>>

(* The host answers with the account's state or leaves it to storage.      *)
Linked(sends, policy) ==
  LET account == IF sends THEN server[call.to] ELSE saved[call.to]
  IN  /\ call.at = "linking"
      /\ call' = [at |-> "emptyOps", to |-> call.to, ops |-> queue[who], refused |-> refused[who],
                  state |-> Reconciled(Migrate(mem, account, policy))]
      /\ brought' = [u \in Users |->
                       IF u \in {who, call.to} THEN brought[u] \union Held(mem) ELSE brought[u]]
      /\ UNCHANGED <<clock, who, mem, saved, queue, refused, keys, world, limits>>

(* migrateUser: four saves, the guest's queue emptied before the account's *)
(* is written.                                                             *)
MoveOps ==
  \/ /\ call.at = "emptyOps"
     /\ queue' = [queue EXCEPT ![Guest] = <<>>] /\ call' = [call EXCEPT !.at = "emptyHistory"]
  \/ /\ call.at = "writeOps"
     /\ queue' = [queue EXCEPT ![call.to] = @ \o call.ops]
     /\ call' = [call EXCEPT !.at = "writeHistory"]

MoveHistory ==
  \/ /\ call.at = "emptyHistory"
     /\ refused' = [refused EXCEPT ![Guest] = {}] /\ call' = [call EXCEPT !.at = "writeOps"]
     /\ UNCHANGED who
  \/ /\ call.at = "writeHistory"
     /\ refused' = [refused EXCEPT ![call.to] = @ \union call.refused]
     /\ who' = call.to /\ call' = Saving(call.state, {}, Idle)

MigrateUser ==
  /\ \/ MoveOps /\ UNCHANGED <<who, refused>>
     \/ MoveHistory /\ UNCHANGED queue
  /\ UNCHANGED <<clock, mem, saved, keys, brought, world, limits>>

(* Every operation that waits for an answer.                               *)
Waiting ==
  (UNION {ToSet(queue[u]) : u \in Users})
    \union (IF call.at \in {"emptyHistory", "writeOps"} THEN ToSet(call.ops) ELSE {})

-----------------------------------------------------------------------------
(* The server, as StampRallyServer has it: an operation is decided once    *)
(* for a user and key, and the result is stored with the state it led to.  *)
(* Its records bear the server's time: an instant no operation has.        *)

ServerTime == MaxTime

Allowed(r) ==
  LET own == server[r.user] IN
  IF r.kind = "checkIn"
  THEN /\ own.stamps[r.resource] = Null
       /\ SpotDef[r.resource].prerequisites \subseteq Held(own)
  ELSE own.rewards[r.resource].status = "AVAILABLE" /\ stock > 0

Applied(r) ==
  IF r.kind = "checkIn" THEN LocalCheckIn(server[r.user], r.resource, ServerTime)
  ELSE [server[r.user] EXCEPT !.at = ServerTime,
          !.rewards[r.resource] = ConsumedReward(r.resource, @, "issued")]

Remember(r, ok, state) ==
  answers' = answers \union {[user |-> r.user, key |-> r.key, ok |-> ok, state |-> state]}

(* A proof may be refused.                                                 *)
Serve(r, accept) ==
  /\ flying' = flying \ {r}
  /\ IF \E a \in answers : a.user = r.user /\ a.key = r.key
     THEN ~accept /\ UNCHANGED <<answers, server, stock>>
     ELSE IF accept
     THEN /\ Allowed(r)
          /\ server' = [server EXCEPT ![r.user] = Applied(r)]
          /\ Remember(r, TRUE, Applied(r))
          /\ stock' = IF r.kind = "claimReward" THEN stock - 1 ELSE stock
     ELSE Remember(r, FALSE, Null) /\ UNCHANGED <<server, stock>>
  /\ UNCHANGED <<clock, phone, limits>>

(* Another device of the account checks in; another visitor claims.        *)
OtherDevice(account, spot) ==
  /\ server[account].stamps[spot] = Null
  /\ SpotDef[spot].prerequisites \subseteq Held(server[account])
  /\ server' = [server EXCEPT ![account] = LocalCheckIn(@, spot, ServerTime)]
  /\ UNCHANGED <<clock, phone, flying, answers, stock, limits>>

OtherVisitor ==
  /\ stock > 0 /\ stock' = stock - 1
  /\ UNCHANGED <<clock, phone, flying, answers, server, limits>>

Tick ==
  /\ clock + 1 < MaxTime /\ clock' = clock + 1
  /\ UNCHANGED <<phone, world, limits>>

Step ==
  \/ Save \/ Answered \/ NotAnswered
  \/ QueueDone \/ SendHead \/ SkipHead \/ HeadAnswered \/ SyncFails
  \/ Pulled \/ ApplyResult \/ FinishSync
  \/ \E sends \in BOOLEAN, policy \in MigratePolicies : Linked(sends, policy)
  \/ MigrateUser

Call ==
  \/ \E u \in Users : SwitchUser(u) \/ ClearUserState(u)
  \/ Reset \/ Restore
  \/ \E spot \in Spots : CheckInLocally(spot) \/ CheckIn(spot)
  \/ \E rw \in Rewards : ClaimReward(rw)
  \/ \E kind \in PassedBy : Sync(kind)
  \/ \E account \in Accounts : LinkAccount(account)

Next ==
  \/ Open \/ ClosePage \/ SaveRefused \/ Call \/ Step
  \/ \E r \in flying, accept \in BOOLEAN : Serve(r, accept)
  \/ \E account \in Accounts, spot \in Spots : OtherDevice(account, spot)
  \/ OtherVisitor \/ Tick

Spec == Init /\ [][Next]_vars

(* Storage and the adapter settle every promise: a call that has started   *)
(* goes on.                                                                *)
FairSpec == Spec /\ WF_vars(Step)
-----------------------------------------------------------------------------
QueuedCheckIns(u) == UNION {CheckInsOf(op) : op \in ToSet(queue[u])}

(* No phantom stamp: between calls, a stamp that is shown is one the       *)
(* server granted or one that waits in the queue, however the operations   *)
(* were rejected, rebuilt, repeated or moved to an account.                *)
ShownIsBacked ==
  call = Idle => Held(mem) \subseteq Held(server[who]) \union QueuedCheckIns(who) \union brought[who]

(* Closing the page between two calls loses nothing: the state that is     *)
(* loaded again has the stamps and the redeemed rewards that were shown.   *)
SavedIsShown ==
  call = Idle /\ refusals = 0 =>
    Held(Loaded(who)) = Held(mem) /\ Consumed(Loaded(who)) = Consumed(mem)

(* A stamp is shown without a prerequisite only if a check-in at the spot  *)
(* it needs was rejected, and never if the server's state came with it.    *)
ShownPrerequisitesClosed ==
  call = Idle =>
    \A s \in Held(mem) \ brought[who] :
      LET missing == SpotDef[s].prerequisites \ Held(mem)
      IN  missing \subseteq refused[who] /\ (missing = {} \/ mem.stamps[s] # ServerTime)

(* Linking an account loses no stamp of the guest and no operation that    *)
(* waited in the guest's queue.                                            *)
LinkKeepsProgress ==
  [][who = Guest /\ who' # Guest /\ call # Idle =>
       /\ Held(mem) \subseteq Held(call'.state)
       /\ ToSet(call.ops) \subseteq ToSet(queue'[who'])]_vars

Kept(op) == op \in Waiting' \/ Answer(op.key) # {} \/ FailedPrerequisite(op)

(* An operation leaves the queues with an answer or with a prerequisite    *)
(* that was rejected, and in no other way but a move that the closing of   *)
(* the page cuts in two.                                                   *)
NoneLost ==
  [][(\A op \in Waiting : Kept(op)) \/ (call.at \in {"emptyHistory", "writeOps"} /\ call' = Closed)]_vars

(* Every call ends, whatever the network and the server do.                *)
CallsEnd == call.at \notin {"idle", "closed"} ~> call.at \in {"idle", "closed"}
=============================================================================
