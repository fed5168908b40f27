----------------------------- MODULE RallyGuide -----------------------------
(***************************************************************************)
(* One participant collecting stamps under the rules of the engine         *)
(* (transition.ts), next to everything the engine tells about the rally:   *)
(* progress, suggestions, opening times, and the preflight analysis shown  *)
(* to the organiser before the rally starts.  The properties compare what  *)
(* is told with what then happens.                                         *)
(*                                                                         *)
(* A configuration is a record                                             *)
(*   spots, prerequisites, availability, conditions   per spot             *)
(*   period      [startsAt, endsAt], each may be Null                      *)
(*   reward      one reward (RewardConditions); rewards do not interact    *)
(*   completion  [type, count, stampIds]                                   *)
(*   lastMoment  the bound of the clock                                    *)
(***************************************************************************)
EXTENDS Availability, RewardConditions

CONSTANTS Configs,   \* the configurations explored
          Proofs     \* what a participant may present at a spot

(* What the validation of a configuration demands; the prerequisites may   *)
(* be anything, as the analysis is there to find out.                      *)
ASSUME ConfigAssumption ==
  \A c \in Configs :
    /\ c.spots \subseteq Nat /\ IsFiniteSet(c.spots)
    /\ \A s \in c.spots : ValidAvailability(c.availability[s])
    /\ c.period \in [startsAt : Nat \union {Null}, endsAt : Nat \union {Null}]
    /\ c.reward.requiredStampCount \in Nat /\ IsTree(c.reward.tree, c.spots)
    /\ c.reward.conditions \subseteq DOMAIN c.reward.tree
    /\ c.reward.validUntil \in Nat \union {Null}
    /\ c.completion \in [type : {"all_spots", "stamp_count", "stamps"}, count : Nat,
                          stampIds : SUBSET c.spots]

ASSUME SomethingToPresent == Proofs # {}

VARIABLES config, records, reward, now

vars == <<config, records, reward, now>>

-----------------------------------------------------------------------------
(* The engine: evaluateConditionDetailed, satisfiesConditions, processStamp *)

(* A check-in condition is [type, value] or [type |-> "gps", at, radius];   *)
(* a proof is [type, value] or [type |-> "gps", at].                       *)
ConditionMatches(condition, proof) ==
  /\ condition.type # "custom"
  /\ condition.type = proof.type
  /\ IF condition.type = "gps"
     THEN condition.radius >= 0
          /\ condition.at - proof.at \in (-condition.radius)..condition.radius
     ELSE condition.value = proof.value

SatisfiesConditions(conditions, proof) ==
  conditions = {} \/ \E condition \in conditions : ConditionMatches(condition, proof)

Prerequisites(s) == config.prerequisites[s]

Accepts(s, proof) ==
  /\ s \in config.spots
  /\ s \notin records
  /\ RallyOpen(config.period, now)
  /\ SpotOpen(config.availability[s], now)
  /\ Prerequisites(s) \subseteq records
  /\ SatisfiesConditions(config.conditions[s], proof)

(* reconcileRewardStates for the one reward.                               *)
Reconciled(stamps) ==
  IF reward \in {"CONSUMED", "EXPIRED"} THEN reward
  ELSE IF config.reward.validUntil # Null /\ config.reward.validUntil <= now THEN "EXPIRED"
  ELSE IF Unlocks(config.reward, stamps) THEN "AVAILABLE"
  ELSE "LOCKED"

CompletionRequired ==
  CASE config.completion.type = "all_spots" -> Cardinality(config.spots)
    [] config.completion.type = "stamp_count" -> config.completion.count
    [] config.completion.type = "stamps" -> Cardinality(config.completion.stampIds)

CompletionAcquired ==
  IF config.completion.type = "stamps"
  THEN Cardinality(config.completion.stampIds \intersect records)
  ELSE LET acquired == Cardinality(records)
       IN IF acquired <= CompletionRequired THEN acquired ELSE CompletionRequired

IsCompleted == CompletionRequired > 0 /\ CompletionAcquired >= CompletionRequired

-----------------------------------------------------------------------------
(* What the participant is told: calculateProgress, getNextSpotSuggestions, *)
(* evaluateSpotStatus.                                                     *)

(* Mutant: the prerequisites of a spot are not looked at.                  *)
MutantNextAvailableSpots == config.spots \ records

NextAvailableSpots == {s \in config.spots \ records : Prerequisites(s) \subseteq records}

(* The suggestions with the current time and "exclude_closed".             *)
OpenSuggestions ==
  IF RallyOpen(config.period, now)
  THEN {s \in NextAvailableSpots : SpotOpen(config.availability[s], now)}
  ELSE {}

SpotStatus(s) ==
  IF s \in records THEN "CLAIMED"
  ELSE IF Prerequisites(s) \subseteq records THEN "UNCLAIMED" ELSE "LOCKED"

Progress == RewardProgress(config.reward, config.spots, records)

-----------------------------------------------------------------------------
(* What the organiser is told: preflight.ts                                *)

(* Mutant: one round of prerequisites only.                                *)
MutantReachableAmong(open) ==
  {s \in open : Prerequisites(s) \subseteq {t \in open : Prerequisites(t) = {}}}

(* The loops over the spots until nothing is added: as many rounds as spots *)
(* are enough.                                                             *)
ReachableAmong(open) ==
  LET round[n \in 0..Cardinality(config.spots)] ==
        IF n = 0 THEN {} ELSE {s \in open : Prerequisites(s) \subseteq round[n - 1]}
  IN round[Cardinality(config.spots)]

Reachable == ReachableAmong(config.spots)

ReachableDuringRally ==
  ReachableAmong({s \in config.spots : MayOpenDuring(config.availability[s], config.period)})

CanComplete(spots) ==
  CASE config.completion.type = "all_spots" -> config.spots # {} /\ spots = config.spots
    [] config.completion.type = "stamp_count" ->
         config.completion.count > 0 /\ config.completion.count <= Cardinality(spots)
    [] config.completion.type = "stamps" ->
         config.completion.stampIds # {} /\ config.completion.stampIds \subseteq spots

(* canReachCondition and conditionCanBeSatisfiedWithin, next to the count. *)
CanReach(spots) == Unlocks(config.reward, spots)

PeriodIsBounded == config.period.startsAt # Null /\ config.period.endsAt # Null

NeverOpen(av) ==
  /\ av # Null
  /\ \A day \in Weekdays : av.weekly[day] = {}
  /\ \A date \in DOMAIN av.exceptions :
       ~av.exceptions[date].closed => av.exceptions[date].hours \in {Null, {}}

HasCycle == \E loop \in (SUBSET config.spots) \ {{}} :
              \A s \in loop : \E t \in loop : t \in Prerequisites(s)

(* The errors and warnings of analyzeRallyExperience that are about the     *)
(* course of the rally: each code with the spots, or TRUE, it is about.    *)
Issues ==
  LET possible == CanReach(Reachable)
      completes == CanComplete(Reachable)
  IN [availability_blocked_spots |->
        IF PeriodIsBounded THEN Reachable \ ReachableDuringRally ELSE {},
      unreachable_spots |-> config.spots \ Reachable,
      missing_prerequisite |-> {s \in config.spots : ~(Prerequisites(s) \subseteq config.spots)},
      spot_never_open |-> {s \in config.spots : NeverOpen(config.availability[s])},
      prerequisite_cycle |-> HasCycle,
      impossible_completion |-> ~completes,
      completion_availability_conflict |->
        PeriodIsBounded /\ completes /\ ~CanComplete(ReachableDuringRally),
      impossible_reward |-> ~possible,
      reward_availability_conflict |->
        PeriodIsBounded /\ possible /\ ~CanReach(ReachableDuringRally),
      reward_expires_before_rally |->
        /\ config.reward.validUntil # Null
        /\ config.period.endsAt # Null
        /\ config.reward.validUntil < config.period.endsAt]

-----------------------------------------------------------------------------

Init ==
  /\ config \in Configs
  /\ records = {}
  /\ reward = "LOCKED"
  /\ now = 0

CheckIn(s, proof) ==
  /\ Accepts(s, proof)
  /\ records' = records \union {s}
  /\ reward' = Reconciled(records')
  /\ UNCHANGED <<config, now>>

Tick ==
  /\ now < config.lastMoment
  /\ now' = now + 1
  /\ UNCHANGED <<config, records, reward>>

Next ==
  \/ \E s \in config.spots, proof \in Proofs : CheckIn(s, proof)
  \/ Tick

Spec == Init /\ [][Next]_vars

-----------------------------------------------------------------------------

(* Where nothing can be collected at this moment any more, whatever is      *)
(* presented.                                                              *)
Exhausted == \A s \in config.spots, proof \in Proofs : ~Accepts(s, proof)

(* A closed spot announces the moment at which it really opens next, and    *)
(* announces none only if it stays closed (findNextOpening against          *)
(* evaluateSpotAvailability, overnight periods and exceptions included).   *)
AnnouncedOpeningIsNext ==
  \A s \in config.spots :
    LET av == config.availability[s]
        announced == NextOpening(av, now)
        openAgain == {t \in (now + 1)..(now + 2 * DaysPerWeek * SlotsPerDay) : SpotOpen(av, t)}
    IN ~SpotOpen(av, now) =>
         /\ openAgain # {} => announced = Least(openAgain)
         /\ announced # Null => SpotOpen(av, announced)

(* An exception that neither closes the day nor names hours.               *)
IsEmpty(exception) == ~exception.closed /\ exception.hours = Null

NoEmptyException ==
  \A s \in config.spots :
    LET av == config.availability[s] IN
    av # Null => \A date \in DOMAIN av.exceptions : ~IsEmpty(av.exceptions[date])

(* What the analysis rules out never happens: no blocked, unreachable or   *)
(* never open spot is collected, no impossible reward becomes available,   *)
(* no impossible completion is reached, and a reward that expires while    *)
(* the rally runs was announced to.                                        *)
ForeseenByPreflight ==
  NoEmptyException =>
    /\ records \intersect (Issues.availability_blocked_spots \union Issues.unreachable_spots
         \union Issues.missing_prerequisite \union Issues.spot_never_open) = {}
    /\ IsCompleted =>
         ~Issues.impossible_completion /\ ~Issues.completion_availability_conflict
    /\ reward = "AVAILABLE" =>
         ~Issues.impossible_reward /\ ~Issues.reward_availability_conflict
    /\ reward = "EXPIRED" /\ config.period.endsAt # Null => Issues.reward_expires_before_rally
    /\ Issues.unreachable_spots # {} =>
         Issues.prerequisite_cycle \/ Issues.missing_prerequisite # {}

AlwaysOpen ==
  /\ config.period = [startsAt |-> Null, endsAt |-> Null]
  /\ \A s \in config.spots : config.availability[s] = Null /\ config.conditions[s] = {}
  /\ config.reward.validUntil = Null

(* simulateRallyProgression foretells where a participant ends that finds   *)
(* every spot open: the spots, the reward and the completion.              *)
SimulationReached ==
  AlwaysOpen /\ Exhausted /\ records # {} =>
    /\ records = Reachable
    /\ reward = "AVAILABLE" <=> Unlocks(config.reward, Reachable)
    /\ IsCompleted <=> CanComplete(Reachable)

(* The stamps a reward is said to miss are enough to unlock it, no smaller  *)
(* number of stamps is, and it is shown as done exactly when it is met;     *)
(* a condition "any" of nothing is never met and left out.                 *)
MissingStampsAreFewest ==
  LET missing == Progress.missingStampIds
      unlocking == {extra \in SUBSET (config.spots \ records) :
                      Unlocks(config.reward, records \union extra)}
  IN Alternatives(config.reward) # {} =>
       /\ unlocking # {} =>
            /\ missing \in unlocking
            /\ \A extra \in unlocking : Cardinality(missing) <= Cardinality(extra)
       /\ Progress.isUnlocked <=> ShownAsDone(Progress)
       /\ Progress.isUnlocked <=> missing = {} /\ unlocking # {}

(* The suggestions for open spots are the spots the engine accepts a       *)
(* check-in at, given the right proof, and the viewer shows them unlocked. *)
SuggestionsAreAccepted ==
  /\ \A s \in config.spots :
       (\E condition \in config.conditions[s], proof \in Proofs :
          ConditionMatches(condition, proof))
       => (s \in OpenSuggestions <=> \E proof \in Proofs : Accepts(s, proof))
  /\ \A s \in OpenSuggestions : SpotStatus(s) = "UNCLAIMED"
=============================================================================
