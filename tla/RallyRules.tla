----------------------------- MODULE RallyRules -----------------------------
(***************************************************************************)
(* The rules of packages/core/src/engine that both sides of the system     *)
(* apply: which rewards a set of stamps unlocks, and when a reward may be  *)
(* consumed.  The configuration of a rally is constant.                    *)
(*                                                                         *)
(* A tree of unlock conditions is monotone in the stamps; it is kept in    *)
(* disjunctive normal form, a set of alternatives [count, stamps], each a  *)
(* number of stamps and a set of stamps that must be there.                *)
(***************************************************************************)
EXTENDS Integers, FiniteSets

CONSTANTS
  Null,          \* an absent value (undefined or null in the code)
  Spots, Rewards,
  Tickets,       \* the ticket numbers that can be issued
  SpotDef,       \* [Spots -> [prerequisites, openAt]]
  RewardDef,     \* [Rewards -> [requiredStampCount, alternatives, validUntil,
                 \*              stockLimit, userClaimLimit, redemptionMethod,
                 \*              hasPasscode]]
  MaxTime        \* bound of the clock

Time == 0..MaxTime

RedemptionMethods == {"manual_slide", "staff_passcode", "view_only", "server_claim"}

OptionalNat == Nat \union {Null}

OrElse(value, default) == IF value = Null THEN default ELSE value

ASSUME NullAssumption == Null \notin Nat /\ Null \notin Tickets

ASSUME SpotsAssumption ==
  /\ IsFiniteSet(Spots)
  /\ MaxTime \in Nat
  /\ SpotDef \in [Spots -> [prerequisites : SUBSET Spots, openAt : SUBSET Nat]]

ASSUME RewardsAssumption ==
  RewardDef \in
    [Rewards -> [requiredStampCount : Nat,
                 alternatives : SUBSET [count : Nat, stamps : SUBSET Spots],
                 validUntil : OptionalNat,
                 stockLimit : OptionalNat,
                 userClaimLimit : OptionalNat,
                 redemptionMethod : RedemptionMethods,
                 hasPasscode : BOOLEAN]]

RewardStatus == {"LOCKED", "AVAILABLE", "CONSUMED", "EXPIRED"}

RewardStates ==
  [status : RewardStatus, redeemed : Nat, ticket : Tickets \union {Null}]

UserStates == [stamps : SUBSET Spots, rewards : [Rewards -> RewardStates]]

ASSUME NullIsNoState == Null \notin UserStates

PlainReward(status) == [status |-> status, redeemed |-> 0, ticket |-> Null]

LockedReward == PlainReward("LOCKED")

-----------------------------------------------------------------------------
(* reconcileRewardStates                                                   *)

UnlockConditionMet(rw, stamps) ==
  /\ Cardinality(stamps) >= RewardDef[rw].requiredStampCount
  /\ \E alt \in RewardDef[rw].alternatives :
       Cardinality(stamps) >= alt.count /\ alt.stamps \subseteq stamps

(* Mutant: a limit stops only the claim after the next one.                *)
MutantReached(limit, value) == limit # Null /\ value > limit

Reached(limit, value) == limit # Null /\ value >= limit

PastValidity(rw, now) == Reached(RewardDef[rw].validUntil, now)

(* The state of one reward after the stamps or the time changed.           *)
ReconcileReward(rw, current, stamps, now) ==
  IF current.status \in {"CONSUMED", "EXPIRED"} THEN current
  ELSE IF PastValidity(rw, now) \/ Reached(RewardDef[rw].stockLimit, current.redeemed)
       THEN PlainReward("EXPIRED")
  ELSE IF UnlockConditionMet(rw, stamps) THEN PlainReward("AVAILABLE")
  ELSE LockedReward

ReconcileRewardStates(rewards, stamps, now) ==
  [rw \in Rewards |-> ReconcileReward(rw, rewards[rw], stamps, now)]

(* The server's initialState: no stamp yet, the rewards reconciled.        *)
InitialState(now) ==
  [stamps  |-> {},
   rewards |-> ReconcileRewardStates([rw \in Rewards |-> LockedReward], {}, now)]

-----------------------------------------------------------------------------
(* consumeReward: the error code, or "OK"; and the consumed state.         *)

ConsumeError(rw, current, now, claimCount, passcodeOk) ==
  LET def == RewardDef[rw] IN
  IF current.status = "CONSUMED" THEN "ALREADY_CONSUMED"
  ELSE IF current.status # "AVAILABLE" THEN "NOT_AVAILABLE"
  ELSE IF PastValidity(rw, now) THEN "EXPIRED"
  ELSE IF Reached(def.stockLimit, current.redeemed) THEN "OUT_OF_STOCK"
  ELSE IF Reached(def.userClaimLimit, claimCount) THEN "USER_LIMIT_REACHED"
  ELSE IF def.redemptionMethod = "staff_passcode" /\ ~passcodeOk THEN "INVALID_PASSCODE"
  ELSE "OK"

ConsumedReward(rw, current, ticket) ==
  IF RewardDef[rw].redemptionMethod = "view_only"
  THEN current
  ELSE [status |-> "CONSUMED", redeemed |-> current.redeemed + 1, ticket |-> ticket]
=============================================================================
