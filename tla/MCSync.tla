------------------------------- MODULE MCSync -------------------------------
(* A small instance of SyncBatch: a device sends two check-ins, of which   *)
(* the second needs the first, and a claim; another device of the user     *)
(* checks in elsewhere and claims the same reward.                         *)
EXTENDS MCServer, SyncBatch

CONSTANT q5

CallBatch ==
  q1 :> Request("checkIn", u1, gate, k1) @@ q2 :> Request("checkIn", u1, tower, k2) @@
  q3 :> Request("claim", u1, medal, k3) @@ q4 :> Request("claim", u1, medal, k4) @@
  q5 :> Request("checkIn", u1, pier, k4)

(* The gate, which the tower needs, is open only at the start.             *)
SyncSpotDef ==
  [MCSpotDef EXCEPT ![gate].openAt = {0}, ![tower].openAt = AnyTime]

TheBatch == <<q1, q2, q3>>
=============================================================================
