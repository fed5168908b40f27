------------------------------ MODULE RallyViewer ------------------------------
(***************************************************************************)
(* The participant's page: RallyViewer of @stamprally/ui over a client,    *)
(* and MuiRallyViewer of @stamprally/mui over the adapter that             *)
(* useStampRally makes of one, with the cards that claim a reward.         *)
(* The viewer draws a state, and an effect announces (onCompleted) that    *)
(* the rally was completed. The client's own work is RallyClient; here it  *)
(* commits states, of which only the completion is told apart.             *)
(***************************************************************************)
EXTENDS Naturals, FiniteSets

CONSTANTS
  Viewers,        \* "ui" and "mui"
  LoadedAtMount,  \* whether the client may, or must, have its state already
  CheckInSpots,   \* the spots the participant checks in at
  MaxCommits      \* bound: the states the client commits

Cards == {"list", "panel"}  \* the reward in the list and in the completion panel
NotYet == [commit |-> 0, complete |-> FALSE]  \* no state: a client's first is commit 1

VARIABLES
  viewer,
  persisted,     \* whether the state in storage completes the rally
  client,     \* the client's state, or NotYet
  own,        \* the viewer's own: state of ui, localState of mui
  drawn,      \* what was drawn when the effects last ran
  completed,  \* completedRef
  announced,  \* the calls of onCompleted
  checking,   \* the spots with a check-in under way
  pending,    \* pendingClaims has the reward
  calls,      \* the claims the client was asked for and has not answered
  claiming,   \* the cards with a claim under way: claimingRef
  commits

viewerVars == <<viewer, persisted, client, own, drawn, completed, announced, checking, pending,
                calls, claiming, commits>>

State(complete) == [commit |-> commits + 2, complete |-> complete]

(* What the viewer draws: its own state, and MuiRallyViewer the adapter's  *)
(* until it has one; without any a state with no stamp.                    *)
Shown == IF viewer = "mui" /\ own = NotYet THEN client ELSE own

Flag(flag) == IF flag THEN "yes" ELSE "no"

ViewerInit ==
  /\ viewer \in Viewers /\ persisted \in BOOLEAN
  /\ \E loaded \in LoadedAtMount :
       client = IF loaded THEN [commit |-> 1, complete |-> persisted] ELSE NotYet
  /\ own = IF viewer = "ui" THEN client ELSE NotYet
  /\ drawn = NotYet
  /\ completed = IF viewer = "ui" /\ own # NotYet THEN Flag(own.complete) ELSE "unset"
  /\ announced = 0 /\ checking = {}
  /\ pending = FALSE /\ calls = 0 /\ claiming = {} /\ commits = 0

-----------------------------------------------------------------------------
(* The effect's condition: ui takes "not yet known" for not completed, mui *)
(* only a completion that was known to be missing.                         *)
Announces ==
  Shown.complete /\ IF viewer = "ui" THEN completed # "yes" ELSE completed = "no"

(* The effects of a drawing; the first runs them too.                      *)
Drawn == drawn = Shown /\ completed # "unset"

RunViewerEffects ==
  /\ ~Drawn
  /\ announced' = IF Announces THEN announced + 1 ELSE announced
  /\ completed' = Flag(Shown.complete) /\ drawn' = Shown
  /\ UNCHANGED <<viewer, persisted, client, own, checking, pending, calls, claiming, commits>>

(* The client has a state: ui is subscribed to it, mui is drawn again with *)
(* it, and keeps a state of its own only from its own actions.             *)
Emit(state) ==
  /\ client' = state
  /\ own' = IF viewer = "ui" THEN state ELSE own

Answered(state) == client' = state /\ own' = state

LoadClient ==
  /\ Drawn /\ client = NotYet
  /\ Emit([commit |-> 1, complete |-> persisted])
  /\ UNCHANGED <<viewer, persisted, drawn, completed, announced, checking, pending, calls, claiming,
                 commits>>

(* A synchronization, a rejected operation, a snapshot, another user.      *)
CommitElsewhere ==
  /\ Drawn /\ client # NotYet /\ commits < MaxCommits
  /\ UNCHANGED <<viewer, persisted, drawn, completed, announced, checking, pending, calls>>
  /\ \E complete \in BOOLEAN : Emit(State(complete))
  /\ commits' = commits + 1
  /\ claiming' = IF Shown'.complete THEN claiming ELSE claiming \ {"panel"}

(* A spot's condition checks in once at a time, and all of mui together.   *)
StartCheckIn(spot) ==
  /\ Drawn /\ client # NotYet
  /\ spot \notin checking /\ (viewer = "mui" => checking = {})
  /\ checking' = checking \union {spot}
  /\ UNCHANGED <<viewer, persisted, client, own, drawn, completed, announced, pending, calls,
                 claiming, commits>>

(* The client refuses, or commits the stamp; in its turn, so the answer is *)
(* not older than what it emitted before.                                  *)
AnswerCheckIn(spot) ==
  /\ Drawn /\ spot \in checking /\ checking' = checking \ {spot}
  /\ \/ UNCHANGED <<client, own, commits>>
     \/ /\ commits < MaxCommits /\ commits' = commits + 1
        /\ \E complete \in {c \in BOOLEAN : client.complete => c} : Answered(State(complete))
  /\ UNCHANGED <<viewer, persisted, drawn, completed, announced, pending, calls, claiming>>

-----------------------------------------------------------------------------
MutantSharesClaim == FALSE

(* A claim of the reward that is under way is not made again.              *)
SharesClaim == pending

(* A card asks once; the panel is there while the rally shows completed,   *)
(* and forgets its claim when it goes.                                     *)
Claim(card) ==
  /\ Drawn /\ client # NotYet /\ card \notin claiming
  /\ card = "panel" => Shown.complete
  /\ claiming' = claiming \union {card}
  /\ IF SharesClaim THEN UNCHANGED <<pending, calls>>
                    ELSE pending' = TRUE /\ calls' = calls + 1
  /\ UNCHANGED <<viewer, persisted, client, own, drawn, completed, announced, checking, commits>>

AnswerClaim ==
  /\ Drawn /\ calls > 0 /\ calls' = calls - 1
  /\ pending' = FALSE /\ claiming' = {}
  /\ \/ UNCHANGED <<client, own, commits>>
     \/ /\ commits < MaxCommits /\ commits' = commits + 1
        /\ Answered(State(client.complete))
  /\ UNCHANGED <<viewer, persisted, drawn, completed, announced, checking>>

ViewerNext ==
  \/ RunViewerEffects \/ LoadClient \/ CommitElsewhere
  \/ \E spot \in CheckInSpots : StartCheckIn(spot) \/ AnswerCheckIn(spot)
  \/ \E card \in Cards : Claim(card)
  \/ AnswerClaim

ViewerFairness ==
  WF_viewerVars(RunViewerEffects) /\ WF_viewerVars(LoadClient) /\ WF_viewerVars(AnswerClaim)

ViewerSpec == ViewerInit /\ [][ViewerNext]_viewerVars /\ ViewerFairness

-----------------------------------------------------------------------------
(* However the cards of a reward come, go and are pressed, and whatever    *)
(* changes the state meanwhile, the client has at most one claim of it to  *)
(* answer, and a card that waits has one to wait for.                      *)
OneClaimAtATime ==
  /\ calls <= 1
  /\ claiming # {} => calls = 1

(* onCompleted is called for a completion the participant brought about:   *)
(* before, a state was drawn that did not complete the rally. A rally that *)
(* was completed when the page came is not announced again.                *)
CompletionIsNews ==
  [][announced' # announced => drawn # NotYet /\ ~drawn.complete]_viewerVars
=============================================================================
