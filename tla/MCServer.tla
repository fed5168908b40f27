------------------------------ MODULE MCServer ------------------------------
(* Small instances of StampRallyServer.                                    *)
EXTENDS StampRallyServer, TLC

CONSTANTS u1, u2, k1, k2, k3, k4, gate, tower, pier,
          prize, medal, q1, q2, q3, q4

AnyTime == 0..MaxTime

(* The tower needs the gate and is open only at the start.                 *)
MCSpotDef ==
  gate :> [prerequisites |-> {}, openAt |-> AnyTime] @@
  tower :> [prerequisites |-> {gate}, openAt |-> {0}] @@
  pier :> [prerequisites |-> {}, openAt |-> AnyTime]

(* The prize needs no stamp and can be claimed twice by a user; the medal  *)
(* needs the gate, or any two stamps, is kept once consumed and ends at 1.*)
MCRewardDef ==
  prize :> [requiredStampCount |-> 0, alternatives |-> {[count |-> 0, stamps |-> {}]},
            validUntil |-> Null, stockLimit |-> 2, userClaimLimit |-> 2,
            redemptionMethod |-> "server_claim", hasPasscode |-> FALSE] @@
  medal :> [requiredStampCount |-> 1,
            alternatives |-> {[count |-> 2, stamps |-> {}], [count |-> 0, stamps |-> {gate}]},
            validUntil |-> 1, stockLimit |-> Null, userClaimLimit |-> Null,
            redemptionMethod |-> "staff_passcode", hasPasscode |-> TRUE]

(* The medal can be had once.                                              *)
MCLimitedRewardDef == [MCRewardDef EXCEPT ![medal].userClaimLimit = 1]

Request(kind, user, resource, key) ==
  [kind |-> kind, user |-> user, resource |-> resource, key |-> key, proofOk |-> TRUE]

(* Two claims of one user, the first of them retried, and one of another.  *)
CallClaims ==
  q1 :> Request("claim", u1, prize, k1) @@ q2 :> Request("claim", u1, prize, k1) @@
  q3 :> Request("claim", u1, prize, k2) @@ q4 :> Request("claim", u2, prize, k1)

(* Three check-ins of one user, one of them dependent, and a claim.        *)
CallVisits ==
  q1 :> Request("checkIn", u1, gate, k1) @@ q2 :> Request("checkIn", u1, pier, k4) @@
  q3 :> Request("checkIn", u1, tower, k2) @@ q4 :> Request("claim", u1, medal, k3)

(* A check-in between two claims of the reward another one unlocked.       *)
CallRedeem ==
  q1 :> Request("checkIn", u1, gate, k1) @@ q2 :> Request("checkIn", u1, pier, k2) @@
  q3 :> Request("claim", u1, medal, k3) @@ q4 :> Request("claim", u1, medal, k4)

NoStock == [key \in StockKeys |-> Null]

NoPlan == [rw \in Rewards |-> [stockKey |-> Null, secondaryStockKey |-> Null]]
=============================================================================
