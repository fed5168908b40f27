----------------------------- MODULE AdminEditor -----------------------------
(***************************************************************************)
(* The configuration editor of @stamprally/admin-ui and the host that      *)
(* embeds it. useAdminRallyEditor keeps a draft with its history next to   *)
(* the host's config property; two effects run after every render, one     *)
(* adopts a config the host hands over, one tells the host of a new draft. *)
(* A version is an object: two versions may hold equal documents. The host *)
(*   "sync"   puts what it is told into its property in the same batch,    *)
(*   "late"   does so later, with the object or a copy of it,              *)
(*   "keeps"  keeps its property (it only saves the draft),                *)
(*   "form"   is the owner of AdminRallyEditor, useSpotEditor and          *)
(*            useRewardEditor, which have no history.                      *)
(***************************************************************************)
EXTENDS Naturals, Sequences, SequencesExt, FiniteSets, FiniteSetsExt, Filtering

CONSTANTS
  Absent,          \* no document is asked for
  Hosts,           \* the hosts considered
  ResettingHosts,  \* the hosts whose user calls resetConfig
  Original,        \* the document the editor starts with
  MaxVersions,     \* bound: the versions a session makes
  MaxLetters       \* bound: the answers a late host may owe when the user acts

Ids(entities) == {entities[i].id : i \in DOMAIN entities}

(* The ids of a session: `${prefix}-${index}` is a pair.                   *)
Names ==
  Ids(Original.spots) \union Ids(Original.rewards)
    \union ({"spot", "spot-copy", "reward", "reward-copy"} \X Nat)

SpotItems == [id : Names, orderIndex : Nat, prerequisites : SUBSET Names]

Documents == [spots : Seq(SpotItems), rewards : Seq([id : Names]), text : Nat]

ASSUME OriginalAssumption == Original \in Documents

VARIABLES
  host,
  prop,     \* initialConfig, the version in the property
  letters,  \* the versions onChange was called with and a late host still has
  draft,    \* history: [past, present, future]
  base,     \* initialRef
  seen,     \* previousInitialRef
  told,     \* lastNotifiedRef
  shown,    \* <<present, property>> the effects last ran with
  asked,    \* history variable: the document of the user's last action, or Absent
  made      \* the number of versions made so far

editorVars == <<host, prop, letters, draft, base, seen, told, shown, asked, made>>

Version(doc) == [object |-> made + 1, doc |-> doc]

Fresh(version) == [past |-> <<>>, present |-> version, future |-> <<>>]

EditorInit ==
  LET first == [object |-> 0, doc |-> Original] IN
  /\ host \in Hosts
  /\ prop = first /\ base = first /\ seen = first /\ told = first
  /\ letters = <<>> /\ draft = Fresh(first) /\ shown = <<first, first>>
  /\ asked = Absent /\ made = 0

(* React runs the effects of a render, and renders what they set, before   *)
(* the next event; a sync host is part of the same batch.                  *)
Batched == host = "sync" => letters = <<>>

Rendered == Batched /\ shown = <<draft.present, prop>>

UserActs == Rendered /\ Len(letters) < MaxLetters

-----------------------------------------------------------------------------
(* The two effects.                                                        *)

MutantIsDirty == FALSE

IsDirty == draft.present.doc # base.doc

MutantKnown(adopts) == IF adopts THEN prop ELSE base

(* The host knows the version that was adopted from it.                    *)
Known(adopts) == IF adopts THEN prop ELSE told

RunEffects ==
  LET present == draft.present
      adopts == seen # prop /\ prop # present /\ ~IsDirty
      known == Known(adopts)
      tells == present # shown[1] /\ present # known
  IN
  /\ Batched /\ ~Rendered
  /\ shown' = <<present, prop>>
  /\ seen' = prop
  /\ base' = IF adopts THEN prop ELSE base
  /\ draft' = IF adopts THEN Fresh(prop) ELSE draft
  /\ told' = IF tells THEN present ELSE known
  /\ letters' = IF tells /\ host # "keeps" THEN Append(letters, present) ELSE letters
  /\ UNCHANGED <<host, prop, asked, made>>

(* The host renders the editor with what it was told.                      *)
HostAnswers ==
  /\ letters # <<>>
  /\ letters' = Tail(letters)
  /\ \/ prop' = Head(letters) /\ made' = made
     \/ host = "late" /\ made < MaxVersions /\ made' = made + 1
        /\ prop' = Version(Head(letters).doc)
  /\ UNCHANGED <<host, draft, base, seen, told, shown, asked>>

(* The host loads another configuration: a draft with edits stays.         *)
HostReplaces ==
  /\ Rendered /\ host # "form" /\ made < MaxVersions
  /\ prop' = Version([Original EXCEPT !.text = made + 1])
  /\ made' = made + 1 /\ asked' = IF draft.present.doc = base.doc THEN Absent ELSE asked
  /\ UNCHANGED <<host, letters, draft, base, seen, told, shown>>

-----------------------------------------------------------------------------
(* The operations of the hook. Every edit goes through commit.             *)

Commit(doc) ==
  /\ UserActs /\ host # "form" /\ made < MaxVersions
  /\ draft' = [past |-> Append(draft.past, draft.present), present |-> Version(doc), future |-> <<>>]
  /\ asked' = doc /\ made' = made + 1
  /\ UNCHANGED <<host, prop, letters, base, seen, told, shown>>

MutantNextEntityId(prefix, ids) == <<prefix, Cardinality(ids) + 1>>

(* `${prefix}-${index}`: the first index above the number of ids in use    *)
(* that is free.                                                           *)
NextEntityId(prefix, ids) ==
  LET above == (Cardinality(ids) + 1)..(2 * Cardinality(ids) + 1)
      free == {n \in above : <<prefix, n>> \notin ids}
  IN <<prefix, Min(free)>>

Reindexed(spots) == [i \in DOMAIN spots |-> [spots[i] EXCEPT !.orderIndex = i - 1]]

Without(entities, id) == At(entities, {i \in DOMAIN entities : entities[i].id # id})

(* moveTo: take the entity out and put it in at its new place.             *)
MoveTo(entities, from, to) == InsertAt(RemoveAt(entities, from), to, entities[from])

doc == draft.present.doc

AddSpot ==
  LET spot == [id |-> NextEntityId("spot", Ids(doc.spots)), orderIndex |-> Len(doc.spots),
               prerequisites |-> {}]
  IN Commit([doc EXCEPT !.spots = Append(@, spot)])

RemoveSpot ==
  \E id \in Ids(doc.spots) : Commit([doc EXCEPT !.spots = Reindexed(Without(@, id))])

ReorderSpots ==
  \E from, to \in DOMAIN doc.spots :
    from # to /\ Commit([doc EXCEPT !.spots = Reindexed(MoveTo(@, from, to))])

DuplicateSpot ==
  \E i \in DOMAIN doc.spots :
    LET copy == [doc.spots[i] EXCEPT !.id = NextEntityId("spot-copy", Ids(doc.spots)),
                                     !.orderIndex = Len(doc.spots)]
    IN Commit([doc EXCEPT !.spots = Append(@, copy)])

(* The checkbox of another spot in SpotItemForm.                           *)
Toggled(spot, other) ==
  [spot EXCEPT !.prerequisites = IF other \in @ THEN @ \ {other} ELSE @ \union {other}]

UpdateSpot ==
  \E i \in DOMAIN doc.spots, other \in Ids(doc.spots) :
    /\ other # doc.spots[i].id
    /\ Commit([doc EXCEPT !.spots[i] = Toggled(@, other)])

AddReward ==
  Commit([doc EXCEPT !.rewards = Append(@, [id |-> NextEntityId("reward", Ids(@))])])

RemoveReward ==
  \E id \in Ids(doc.rewards) : Commit([doc EXCEPT !.rewards = Without(@, id)])

DuplicateReward ==
  doc.rewards # <<>> /\
  Commit([doc EXCEPT !.rewards = Append(@, [id |-> NextEntityId("reward-copy", Ids(@))])])

ReorderRewards ==
  \E from, to \in DOMAIN doc.rewards :
    from # to /\ Commit([doc EXCEPT !.rewards = MoveTo(@, from, to)])

(* update, updateReward, updateLocalizedField, add- and removeCondition,   *)
(* and setConfig: an edit of what the structure does not depend on.        *)
UpdateText == Commit([doc EXCEPT !.text = made + 1])

Undo ==
  /\ UserActs /\ draft.past # <<>>
  /\ draft' = [past |-> Front(draft.past), present |-> Last(draft.past),
               future |-> <<draft.present>> \o draft.future]
  /\ asked' = draft'.present.doc
  /\ UNCHANGED <<host, prop, letters, base, seen, told, shown, made>>

Redo ==
  /\ UserActs /\ draft.future # <<>>
  /\ draft' = [past |-> Append(draft.past, draft.present), present |-> Head(draft.future),
               future |-> Tail(draft.future)]
  /\ asked' = draft'.present.doc
  /\ UNCHANGED <<host, prop, letters, base, seen, told, shown, made>>

(* resetConfig with an imported document, or reset() with initialRef. It   *)
(* tells the host at once: a sync host renders both changes together.      *)
Reset(version) ==
  /\ UserActs /\ host \in ResettingHosts
  /\ draft' = Fresh(version)
  /\ base' = version /\ seen' = version /\ told' = version
  /\ asked' = version.doc
  /\ prop' = IF host = "sync" THEN version ELSE prop
  /\ letters' = IF host = "late" THEN Append(letters, version) ELSE letters
  /\ UNCHANGED <<host, shown>>

ResetConfig ==
  /\ made < MaxVersions
  /\ Reset(Version([Original EXCEPT !.text = made + 1]))
  /\ made' = made + 1

ResetToBase == draft.present # base /\ Reset(base) /\ made' = made

-----------------------------------------------------------------------------
(* AdminRallyEditor has no document of its own: every handler hands the    *)
(* host a new one, which it shows. useSpotEditor and useRewardEditor keep  *)
(* one and hand out each change, which a host keeps likewise.              *)

FormEdit(new) ==
  LET version == Version(new) IN
  /\ host = "form" /\ made < MaxVersions
  /\ prop' = version /\ draft' = Fresh(version) /\ shown' = <<version, version>>
  /\ asked' = new /\ made' = made + 1
  /\ UNCHANGED <<host, letters, base, seen, told>>

(* updateSpots *)
FormSpots(spots) == FormEdit([doc EXCEPT !.spots = Reindexed(spots)])

(* "Add spot" names the spot after its place, whatever ids are in use.     *)
FormAddSpot ==
  FormSpots(Append(doc.spots, [id |-> <<"spot", Len(doc.spots) + 1>>,
                               orderIndex |-> Len(doc.spots), prerequisites |-> {}]))

FormRemoveSpot == \E id \in Ids(doc.spots) : FormSpots(Without(doc.spots, id))

(* The first spot of that id stands for the edited one: every spot of the  *)
(* id is replaced.                                                         *)
FormChangeSpot ==
  \E i \in DOMAIN doc.spots, other \in Ids(doc.spots) :
    LET next == Toggled(doc.spots[i], other) IN
    other # doc.spots[i].id /\
    FormSpots([k \in DOMAIN doc.spots |->
                 IF doc.spots[k].id = next.id THEN next ELSE doc.spots[k]])

FormMoveSpot ==
  \E i \in DOMAIN doc.spots, by \in {"up", "down"} :
    LET target == IF by = "up" THEN i - 1 ELSE i + 1 IN
    target \in DOMAIN doc.spots /\ FormSpots(MoveTo(doc.spots, i, target))

FormAddReward ==
  FormEdit([doc EXCEPT !.rewards = Append(@, [id |-> <<"reward", Len(@) + 1>>])])

FormRemoveReward ==
  \E id \in Ids(doc.rewards) : FormEdit([doc EXCEPT !.rewards = Without(@, id)])

FormMoveReward ==
  \E i \in DOMAIN doc.rewards, by \in {"up", "down"} :
    LET target == IF by = "up" THEN i - 1 ELSE i + 1 IN
    target \in DOMAIN doc.rewards /\ FormEdit([doc EXCEPT !.rewards = MoveTo(@, i, target)])

(* useSpotEditor().remove leaves the order of the others as it is.         *)
FocusedRemoveSpot ==
  \E id \in Ids(doc.spots) : FormEdit([doc EXCEPT !.spots = Without(@, id)])

FocusedRemoveReward ==
  \E id \in Ids(doc.rewards) : FormEdit([doc EXCEPT !.rewards = Without(@, id)])

(* GeneralSettingsForm: title, inventory and passcode.                     *)
FormUpdateText == FormEdit([doc EXCEPT !.text = made + 1])

(* JsonConfigIO: what does not parse as a configuration is only reported.  *)
FormImport ==
  \E parsed \in [success : BOOLEAN, data : {[Original EXCEPT !.text = made + 1]}] :
    parsed.success /\ FormEdit(parsed.data)

StructuralEdit ==
  \/ AddSpot \/ RemoveSpot \/ ReorderSpots \/ DuplicateSpot \/ UpdateSpot
  \/ AddReward \/ RemoveReward \/ DuplicateReward \/ ReorderRewards
  \/ FormAddSpot \/ FormRemoveSpot \/ FormChangeSpot \/ FormMoveSpot
  \/ FormAddReward \/ FormRemoveReward \/ FormMoveReward
  \/ FocusedRemoveSpot \/ FocusedRemoveReward
  \/ FormUpdateText \/ FormImport

EditorNext ==
  \/ RunEffects \/ HostAnswers \/ HostReplaces
  \/ UpdateText \/ Undo \/ Redo \/ ResetConfig \/ ResetToBase
  \/ StructuralEdit

-----------------------------------------------------------------------------

(* Nothing is left to render, to notify or to hand over.                   *)
Quiet == Rendered /\ letters = <<>>

(* What the user last did is what is shown: no effect takes an edit, an    *)
(* undo or a reset back (the adoption effect of useAdminRallyEditor). A    *)
(* late host is left out: its answer to an edit that was undone meanwhile  *)
(* passes for a configuration of its own, and is adopted.                  *)
ShownIsAsked ==
  Quiet /\ asked # Absent /\ host # "late" => draft.present.doc = asked

(* The host is never left with an outdated draft: whatever edits, undos,   *)
(* resets, late answers and replaced configurations crossed, the document  *)
(* it was last told of, or gave, is the one that is shown (the             *)
(* notification effect and lastNotifiedRef).                               *)
HostInformed ==
  Quiet /\ host # "form" => told.doc = draft.present.doc

Ascending(spots) ==
  \A i, j \in DOMAIN spots : i < j => spots[i].orderIndex < spots[j].orderIndex

(* No sequence of edits, undos and redos in the hook gives two entities    *)
(* one id, and none, in the forms either, lets orderIndex and position     *)
(* disagree (nextEntityId, moveTo, updateSpots).                           *)
EntitiesDistinct ==
  /\ Ascending(doc.spots)
  /\ host # "form" =>
       /\ Cardinality(Ids(doc.spots)) = Len(doc.spots)
       /\ Cardinality(Ids(doc.rewards)) = Len(doc.rewards)
=============================================================================
