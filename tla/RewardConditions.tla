-------------------------- MODULE RewardConditions --------------------------
(***************************************************************************)
(* The unlock condition of a reward as the tree the configuration holds,   *)
(* and the three readings the engine has of it: whether it is met          *)
(* (transition.ts), whether it can ever be met (preflight.ts), and what is *)
(* still missing (rewardProgress.ts), which expands the tree into          *)
(* alternatives.                                                           *)
(*                                                                         *)
(* The conditions of a tree, at every depth, stand in a list, each behind  *)
(* the ones it is made of: [type |-> "stamp_count", count], [type |->      *)
(* "stamps", stampIds] or [type |-> "all" or "any", conditions], the last  *)
(* the places of its parts. A reward is [requiredStampCount, tree,         *)
(* conditions, validUntil], with the places of the outermost conditions.   *)
(* The spots are numbered in the order of the configuration.               *)
(***************************************************************************)
EXTENDS Integers, Sequences, FiniteSets, FiniteSetsExt

Conditions(spots) ==
  [type : {"stamp_count"}, count : Nat]
    \union [type : {"stamps"}, stampIds : SUBSET spots]
    \union [type : {"all", "any"}, conditions : SUBSET Nat]

IsTree(tree, spots) ==
  /\ tree \in Seq(Conditions(spots))
  /\ \A n \in DOMAIN tree :
       tree[n].type \in {"all", "any"} => tree[n].conditions \subseteq 1..(n - 1)

(* unlockConditionMet, isConditionUnlocked and canReachCondition, when the  *)
(* conditions it is made of are met or not.                                *)
ConditionMet(condition, met, stamps) ==
  CASE condition.type = "stamp_count" -> Cardinality(stamps) >= condition.count
    [] condition.type = "stamps" -> condition.stampIds \subseteq stamps
    [] condition.type = "all" -> condition.conditions \subseteq met
    [] condition.type = "any" -> condition.conditions \intersect met # {}

(* The places of the conditions that a set of stamps meets.                *)
MetBy(tree, stamps) ==
  LET met[n \in 0..Len(tree)] ==
        IF n = 0 THEN {}
        ELSE IF ConditionMet(tree[n], met[n - 1], stamps) THEN met[n - 1] \union {n}
        ELSE met[n - 1]
  IN met[Len(tree)]

Unlocks(reward, stamps) ==
  /\ Cardinality(stamps) >= reward.requiredStampCount
  /\ reward.conditions \subseteq MetBy(reward.tree, stamps)

-----------------------------------------------------------------------------
(* calculateRewardProgress. It keeps its alternatives in a list and takes  *)
(* the first of the best ones; here they are a set.                        *)

Requirement(stampIds, count) == [stampIds |-> stampIds, count |-> count]

Larger(a, b) == IF a >= b THEN a ELSE b

(* Mutant: conditions that must all hold need the smallest count.          *)
MutantAll(choice) ==
  Requirement(UNION {choice[p].stampIds : p \in DOMAIN choice},
              IF choice = <<>> THEN 0 ELSE Min({choice[p].count : p \in DOMAIN choice}))

(* One alternative of each part, together.                                 *)
All(choice) ==
  Requirement(UNION {choice[p].stampIds : p \in DOMAIN choice},
              Max({0} \union {choice[p].count : p \in DOMAIN choice}))

(* combineRequirements, with the alternatives found for the parts.         *)
Combined(parts, found) ==
  {All(choice) : choice \in {c \in [parts -> UNION {found[p] : p \in parts}] :
                               \A p \in parts : c[p] \in found[p]}}

(* requirements                                                            *)
RequirementsOf(condition, found) ==
  CASE condition.type = "stamp_count" -> {Requirement({}, condition.count)}
    [] condition.type = "stamps" -> {Requirement(condition.stampIds, 0)}
    [] condition.type = "any" -> UNION {found[p] : p \in condition.conditions}
    [] condition.type = "all" -> Combined(condition.conditions, found)

(* The alternatives of every condition.                                    *)
Requirements(tree) ==
  LET found[n \in 0..Len(tree)] ==
        IF n = 0 THEN [p \in DOMAIN tree |-> {}]
        ELSE [found[n - 1] EXCEPT ![n] = RequirementsOf(tree[n], found[n - 1])]
  IN found[Len(tree)]

Alternatives(reward) == Combined(reward.conditions, Requirements(reward.tree))

MissingCountFor(reward, item, acquired) ==
  Larger(Cardinality(item.stampIds \ acquired),
         Larger(reward.requiredStampCount, item.count) - Cardinality(acquired))

(* An alternative with the least missing; with none at all, only the count *)
(* of the reward.                                                          *)
Best(reward, acquired) ==
  LET missing(item) == MissingCountFor(reward, item, acquired)
  IN IF Alternatives(reward) = {} THEN Requirement({}, 0)
     ELSE CHOOSE item \in Alternatives(reward) :
            \A other \in Alternatives(reward) : missing(item) <= missing(other)

(* The n lowest members of a set of spots: the first in the order of the   *)
(* configuration.                                                          *)
FirstOf(n, S) == {s \in S : Cardinality({t \in S : t < s}) < n}

RewardProgress(reward, spots, acquired) ==
  LET best     == Best(reward, acquired)
      required == Larger(Cardinality(best.stampIds),
                         Larger(reward.requiredStampCount, best.count))
      explicit == Cardinality(best.stampIds \intersect acquired)
      other    == Cardinality(acquired) - explicit
      extra    == required - Cardinality(best.stampIds)
      fill     == FirstOf(Larger(0, extra - other), spots \ (acquired \union best.stampIds))
  IN [isUnlocked      |-> Unlocks(reward, acquired),
      acquired        |-> explicit + (IF other <= extra THEN other ELSE extra),
      required        |-> required,
      missingStampIds |-> (best.stampIds \ acquired) \union fill]

(* percentage = 100                                                        *)
ShownAsDone(progress) == progress.acquired >= progress.required
=============================================================================
