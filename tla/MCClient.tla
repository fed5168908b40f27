------------------------------ MODULE MCClient ------------------------------
(* Small instances of RallyClient.                                         *)
EXTENDS RallyClient

CONSTANTS gate, tower, prize, guest, member

(* The tower needs the gate; the prize needs one stamp and is given once.  *)
MCSpotDef ==
  [s \in Spots |-> [prerequisites |-> IF s = tower THEN {gate} ELSE {}, openAt |-> {0}]]

MCRewardDef ==
  [rw \in Rewards |->
     [requiredStampCount |-> 1, alternatives |-> {[count |-> 0, stamps |-> {}]},
      validUntil |-> Null, stockLimit |-> Null, userClaimLimit |-> Null,
      redemptionMethod |-> "manual_slide", hasPasscode |-> FALSE]]
=============================================================================
