------------------------------ MODULE MCGuide ------------------------------
(***************************************************************************)
(* Four families of configurations: doors (one spot, every way its hours   *)
(* can lie), routes (three spots behind each other, a rally of limited     *)
(* length), graphs (every prerequisite relation on three spots, always     *)
(* open) and rewards (every small tree of unlock conditions).              *)
(***************************************************************************)
EXTENDS RallyGuide, TLC

MCProofs == {[type |-> "qr", value |-> "right"], [type |-> "gps", at |-> 2]}

QR == {[type |-> "qr", value |-> "right"], [type |-> "custom"]}
GPS == {[type |-> "gps", at |-> 1, radius |-> 1], [type |-> "nfc", value |-> "right"]}
TooFar == {[type |-> "gps", at |-> 0, radius |-> 1], [type |-> "passcode", value |-> "right"]}

Unbounded == [startsAt |-> Null, endsAt |-> Null]

NoReward == [requiredStampCount |-> 1, tree |-> <<>>, conditions |-> {}, validUntil |-> Null]

AllSpots == [type |-> "all_spots", count |-> 0, stampIds |-> {}]

Count(n) == [type |-> "stamp_count", count |-> n]
Stamps(S) == [type |-> "stamps", stampIds |-> S]
Both(type, places) == [type |-> type, conditions |-> places]

Plain(spots) ==
  [spots |-> spots, prerequisites |-> [s \in spots |-> {}],
   availability |-> [s \in spots |-> Null], conditions |-> [s \in spots |-> {}],
   period |-> Unbounded, reward |-> NoReward, completion |-> AllSpots, lastMoment |-> 0]

-----------------------------------------------------------------------------
(* Doors: two weekdays of three slots, an exception on day 1 or on day 5.  *)

DayHours == {hours \in SUBSET Hours : ValidHours(hours)}

ExceptionSets ==
  {<<>>} \union {date :> [closed |-> closed, hours |-> hours] :
                   date \in {1, 5}, closed \in BOOLEAN,
                   hours \in {Null, {}, {[opensAt |-> 1, closesAt |-> 2]},
                              {[opensAt |-> 2, closesAt |-> 1]}}}

Doors ==
  {av \in [weekly : [Weekdays -> DayHours], exceptions : ExceptionSets] : ValidAvailability(av)}

DoorConfigs ==
  {[Plain({1}) EXCEPT !.availability = [s \in {1} |-> av], !.conditions = [s \in {1} |-> QR],
                      !.lastMoment = 6] : av \in Doors}

-----------------------------------------------------------------------------
(* Routes: spot 2 needs spot 1, spot 3 may need spot 2.                    *)

Night == {[opensAt |-> 2, closesAt |-> 1]}
Noon  == {[opensAt |-> 1, closesAt |-> 2]}
Weekly(even, odd) == [day \in Weekdays |-> IF day % 2 = 0 THEN even ELSE odd]

RouteHours ==
  {Null, [weekly |-> Weekly(Night, {}), exceptions |-> <<>>],
   [weekly |-> Weekly({}, Noon), exceptions |-> (3 :> [closed |-> TRUE, hours |-> Null])],
   [weekly |-> Weekly(Night, {}), exceptions |-> (1 :> [closed |-> FALSE, hours |-> Noon])],
   [weekly |-> Weekly({}, {}), exceptions |-> <<>>]}

RouteConfigs ==
  {[Plain(1..3) EXCEPT
      !.prerequisites = <<{}, {1}, last>>, !.availability = hours,
      !.conditions = <<QR, GPS, {}>>, !.period = period,
      !.reward = [NoReward EXCEPT !.requiredStampCount = needed, !.validUntil = until],
      !.completion = completion, !.lastMoment = 7] :
     last \in {{}, {2}}, hours \in [1..3 -> RouteHours],
     period \in [startsAt : {Null, 2, 3}, endsAt : {Null, 4, 7}],
     needed \in {2}, until \in {Null, 4},
     completion \in {AllSpots, [type |-> "stamps", count |-> 0, stampIds |-> {3}]}}

-----------------------------------------------------------------------------
(* Graphs: spot 4 does not exist, spot 3 may need it.                      *)

GraphConfigs ==
  {[Plain(1..3) EXCEPT
      !.prerequisites = graph, !.reward = [NoReward EXCEPT !.tree = <<Stamps({2})>>, !.conditions = {1}],
      !.completion = completion] :
     graph \in {g \in [1..3 -> SUBSET (1..4)] : 4 \notin g[1] \union g[2]},
     completion \in {AllSpots, [type |-> "stamp_count", count |-> 2, stampIds |-> {}]}}
  \union {[Plain({1}) EXCEPT !.conditions = <<TooFar>>]}

-----------------------------------------------------------------------------
(* Rewards: one tree of depth two, or two trees, and a count.              *)

Leaves == {Count(2), Count(3)} \union {Stamps(S) : S \in {{}, {1}, {2}, {1, 2}, {2, 3}}}

Types == {"all", "any"}

(* Each tree with the place of its outermost condition, or both of them.   *)
Trees ==
  {<<<<leaf>>, {1}>> : leaf \in Leaves}
  \union {<<<<left, right>>, {1, 2}>> : left \in Leaves, right \in Leaves}
  \union {<<<<left, right, Both(type, {1, 2})>>, {3}>> :
            left \in Leaves, right \in Leaves, type \in Types}
  \union {<<<<left, right, Both(inner, {1, 2}), leaf, Both(outer, {3, 4})>>, {5}>> :
            left \in Leaves, right \in Leaves, inner \in Types,
            leaf \in {Count(3), Stamps({3})}, outer \in Types}

RewardConfigs ==
  {[Plain(1..3) EXCEPT
      !.reward = [requiredStampCount |-> needed, tree |-> tree[1], conditions |-> tree[2],
                  validUntil |-> Null]] :
     needed \in {0, 2}, tree \in Trees}

MCConfigs == DoorConfigs \union RouteConfigs \union GraphConfigs \union RewardConfigs
=============================================================================
