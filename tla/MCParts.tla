------------------------------ MODULE MCParts --------------------------------
(* Small instances of the parts around the core, one in each behavior:     *)
(* the editor, the detectors, the state storages, the publication of a     *)
(* configuration, the participant's viewer, the way into the server, and   *)
(* the storage of the offline queue.                                       *)
EXTENDS AdminEditor, Detectors, StateStorage, ConfigPublication, RallyViewer, ServerGate,
        QueueStorage, TLC

VARIABLE part

(* Spot and reward ids as the editor makes them; one id is skipped.        *)
TwoSpotsAndAReward ==
  [spots |-> <<[id |-> <<"spot", 1>>, orderIndex |-> 0, prerequisites |-> {}],
               [id |-> <<"spot", 3>>, orderIndex |-> 1, prerequisites |-> {}]>>,
   rewards |-> <<[id |-> <<"reward", 2>>]>>, text |-> 0]

Parts == {"editor", "detectors", "storage", "publication", "viewer", "gate", "queue"}

allVars == <<part, editorVars, detectorVars, storageVars, publicationVars, viewerVars, gateVars,
             queueStorageVars>>

(* A part that does not run in this behavior is in one initial state.      *)
Init ==
  /\ part \in Parts
  /\ EditorInit /\ (part = "editor" \/ host = "form")
  /\ DetectorInit
  /\ IF part = "storage"
       THEN StorageInit
       ELSE adapter = "none" /\ disk = Cell(Nothing, 0) /\ FreshStorage
  /\ IF part = "publication"
       THEN PublicationInit
       ELSE /\ admin = Ordinary("gps") /\ public = admin
            /\ links = OrdinaryLinks /\ accepted = "unread"
  /\ ViewerInit /\ (part = "viewer" \/ (viewer = "ui" /\ ~persisted))
  /\ GateInit /\ (part = "gate" \/ policy = "reject")
  /\ QueueStorageInit
  /\ part = "queue" \/ (offered = "nothing" /\ \A u \in Users : onDevice[u] = {})

(* A late host's user edits texts only, which bounds the documents.        *)
EditorStep ==
  /\ part = "editor" /\ EditorNext
  /\ host = "late" => doc'.spots = doc.spots /\ doc'.rewards = doc.rewards
  /\ UNCHANGED <<part, detectorVars, storageVars, publicationVars, viewerVars, gateVars,
                 queueStorageVars>>

DetectorStep ==
  /\ part = "detectors" /\ DetectorNext
  /\ UNCHANGED <<part, editorVars, storageVars, publicationVars, viewerVars, gateVars,
                 queueStorageVars>>

StorageStep ==
  /\ part = "storage" /\ StorageNext
  /\ UNCHANGED <<part, editorVars, detectorVars, publicationVars, viewerVars, gateVars,
                 queueStorageVars>>

PublicationStep ==
  /\ part = "publication" /\ PublicationNext
  /\ UNCHANGED <<part, editorVars, detectorVars, storageVars, viewerVars, gateVars,
                 queueStorageVars>>

ViewerStep ==
  /\ part = "viewer" /\ ViewerNext
  /\ UNCHANGED <<part, editorVars, detectorVars, storageVars, publicationVars, gateVars,
                 queueStorageVars>>

GateStep ==
  /\ part = "gate" /\ GateNext
  /\ UNCHANGED <<part, editorVars, detectorVars, storageVars, publicationVars, viewerVars,
                 queueStorageVars>>

QueueStep ==
  /\ part = "queue" /\ QueueStorageNext
  /\ UNCHANGED <<part, editorVars, detectorVars, storageVars, publicationVars, viewerVars, gateVars>>

Next ==
  \/ EditorStep \/ DetectorStep \/ StorageStep
  \/ PublicationStep \/ ViewerStep \/ GateStep \/ QueueStep

(* In a part that does not run nothing is owed.                            *)
Spec == Init /\ [][Next]_allVars /\ DetectorFairness /\ StorageFairness
=============================================================================
