------------------------------ MODULE ReplayLog ------------------------------
(***************************************************************************)
(* The client's optimistic state and the log of operations it is rebuilt   *)
(* from (packages/core/src/client/sync.ts, and the helpers of client.ts    *)
(* and offlineQueue.ts that change a state): pure functions on states.     *)
(*                                                                         *)
(* A state [stamps, rewards, left, at] keeps when each stamp was acquired, *)
(* as a rollback compares it, and what the last synchronization said is    *)
(* left in the inventory. A queued request [kind, resource, key, at, base, *)
(* optimistic, rejected] keeps the state it was made on (base) and the one *)
(* shown meanwhile (optimistic).                                           *)
(***************************************************************************)
EXTENDS RallyRules, SequencesExt

Shelves == Rewards \union {"shared"}

Levels == {Null} \union [Shelves -> OptionalNat]

ClientStates ==
  [stamps : [Spots -> OptionalNat], rewards : [Rewards -> RewardStates], left : Levels, at : Nat]

ASSUME NullIsNoClientState == Null \notin ClientStates

Held(state) == {s \in Spots : state.stamps[s] # Null}

Consumed(state) == {rw \in Rewards : state.rewards[rw].status = "CONSUMED"}

(* #reconcile: the rewards as they stand at the state's own time.          *)
Reconciled(state) ==
  [state EXCEPT !.rewards = ReconcileRewardStates(state.rewards, Held(state), state.at)]

EmptyState(now) ==
  Reconciled([stamps |-> [s \in Spots |-> Null], rewards |-> [rw \in Rewards |-> LockedReward],
              left |-> Null, at |-> now])

Larger(x, y) == IF x > y THEN x ELSE y

Lowered(level, by) == IF level = Null THEN Null ELSE Larger(0, level - by)
-----------------------------------------------------------------------------
(* What a call shows before the server has answered.                       *)

LocalCheckIn(state, spot, now) == Reconciled([state EXCEPT !.stamps[spot] = now, !.at = now])

(* applyOptimisticRewardClaim: a ticket takes one from the shared level    *)
(* and from the reward's; a reward without a level loses all the others.   *)
LocalClaim(state, rw, now) ==
  LET reward == ConsumedReward(rw, state.rewards[rw], "own")
      taken == [s \in Shelves |->
                  IF s \in {"shared", rw} THEN Lowered(state.left[s], 1)
                  ELSE IF state.left[rw] = Null THEN Null ELSE state.left[s]]
  IN  [state EXCEPT !.rewards[rw] = reward, !.at = now,
                    !.left = IF reward.ticket = Null \/ @ = Null THEN @ ELSE taken]

(* rollbackOptimisticOperation: of a check-in, the stamp if it is the one  *)
(* the operation acquired, and every reward as it was when it was made; of *)
(* a claim, that reward and the whole inventory.                           *)
Rollback(state, op) ==
  IF op.kind = "checkIn"
  THEN [state EXCEPT !.stamps = [s \in Spots |->
                         IF s = op.resource /\ @[s] = op.at THEN Null ELSE @[s]],
                     !.rewards = op.base.rewards, !.at = op.base.at]
  ELSE [state EXCEPT !.rewards[op.resource] = op.base.rewards[op.resource],
                     !.left = op.base.left, !.at = op.base.at]
-----------------------------------------------------------------------------
(* rebuildUserStateFromLog                                                 *)

(* sortOperationsDeterministically: by time, then by operation id, which   *)
(* starts with the kind and ends with the idempotency key.                 *)
Precedes(op1, op2) ==
  \/ op1.at < op2.at
  \/ op1.at = op2.at /\ op1.kind = "checkIn" /\ op2.kind = "claimReward"
  \/ op1.at = op2.at /\ op1.kind = op2.kind /\ op1.key < op2.key

ComesBefore(log, i, j) ==
  \/ Precedes(log[i], log[j])
  \/ ~Precedes(log[j], log[i]) /\ i < j

Place(log, i) == 1 + Cardinality({j \in DOMAIN log : ComesBefore(log, j, i)})

Sorted(log) == [n \in DOMAIN log |-> log[CHOOSE i \in DOMAIN log : Place(log, i) = n]]

(* Mutant: the prerequisites of a replayed check-in are not looked at.     *)
MutantMissesPrerequisite(state, op, refused) == FALSE

MissesPrerequisite(state, op, refused) ==
  \E s \in SpotDef[op.resource].prerequisites : s \in refused \/ state.stamps[s] = Null

ReplayCheckIn(state, op) ==
  LET acquiredAt == OrElse(op.optimistic.stamps[op.resource], op.at)
  IN  IF state.stamps[op.resource] # Null THEN state
      ELSE LET stamped == [state EXCEPT !.stamps[op.resource] = acquiredAt, !.at = acquiredAt]
           IN  Reconciled(stamped)

(* applyInventoryDelta: the levels move by as much as the claim moved them *)
(* when it was made.                                                       *)
MovedInventory(left, before, after) ==
  LET now == IF left = Null THEN [s \in Shelves |-> Null] ELSE left
      known(s) == before[s] # Null /\ after[s] # Null
      level(s) ==
        IF s = "shared"
        THEN IF ~known(s) THEN Null
             ELSE IF now[s] = Null THEN after[s] ELSE Lowered(now[s], before[s] - after[s])
        ELSE IF known(s) THEN Lowered(OrElse(now[s], before[s]), before[s] - after[s])
             ELSE now[s]
  IN  IF before = Null \/ after = Null THEN left ELSE [s \in Shelves |-> level(s)]

ReplayClaim(state, op) ==
  LET reward == op.optimistic.rewards[op.resource]
  IN  [state EXCEPT !.rewards[op.resource] = reward,
                    !.at = IF reward.status = "CONSUMED" THEN op.at ELSE @,
                    !.left = MovedInventory(@, op.base.left, op.optimistic.left)]

(* One operation on top of what was replayed so far; refused holds the     *)
(* spots whose check-in was rejected or skipped.                           *)
ReplayOne(so, op) ==
  IF op.rejected THEN so
  ELSE IF op.kind = "claimReward" THEN [so EXCEPT !.state = ReplayClaim(@, op)]
  ELSE IF MissesPrerequisite(so.state, op, so.refused)
       THEN [so EXCEPT !.refused = @ \union {op.resource}]
  ELSE [so EXCEPT !.state = ReplayCheckIn(@, op)]

Replayed(so, ops) ==
  LET after[n \in 0..Len(ops)] == IF n = 0 THEN so ELSE ReplayOne(after[n - 1], ops[n])
  IN  after[Len(ops)]

Replay(baseline, log) ==
  LET refused == {op.resource : op \in {op \in ToSet(log) : op.rejected /\ op.kind = "checkIn"}}
  IN  Replayed([state |-> baseline, refused |-> refused], Sorted(log)).state
-----------------------------------------------------------------------------
(* migrateAnonymousProgress                                                *)

RewardRank(status) ==
  CASE status = "LOCKED" -> 0 [] status \in {"AVAILABLE", "EXPIRED"} -> 1 [] status = "CONSUMED" -> 2

MigratePolicies == {"union", "authoritative_replay"}

(* Mutant: the account's stamps win as a whole.                            *)
MutantMigrate(anonymous, account, policy) ==
  IF account = Null THEN anonymous
  ELSE [account EXCEPT !.at = Larger(anonymous.at, @)]

Migrate(anonymous, account, policy) ==
  IF account = Null THEN anonymous
  ELSE [account EXCEPT
          !.stamps = [s \in Spots |-> OrElse(@[s], anonymous.stamps[s])],
          !.rewards = [rw \in Rewards |->
             IF policy = "union"
                /\ RewardRank(anonymous.rewards[rw].status) > RewardRank(@[rw].status)
             THEN anonymous.rewards[rw] ELSE @[rw]],
          !.at = Larger(anonymous.at, @)]
=============================================================================
