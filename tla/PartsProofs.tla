----------------------------- MODULE PartsProofs -----------------------------
(***************************************************************************)
(* Proofs about the parts around the core, each of them on its own: the    *)
(* state storages, the storage of the offline queue, the participant's     *)
(* viewer, the way into the server, the editor and the publication of a    *)
(* configuration.                                                          *)
(***************************************************************************)
EXTENDS AdminEditor, StateStorage, ConfigPublication, RallyViewer, ServerGate, QueueStorage,
        SequenceLemmas, TLAPS

-----------------------------------------------------------------------------
(* The state storages.                                                     *)

CallKinds == {"load", "save", "remove"}

(* The cell that has the calls is never behind the last write that was     *)
(* resolved, if it has a state at all.                                     *)
UpToDate(cell) == cell.state > 0 => cell.state >= newest

StorageInv ==
  /\ disk \in [state : Int, write : Int] /\ memory \in [state : Int, write : Int]
  /\ call \in [Callers -> CallKinds \union {"none"}]
  /\ answer \in [Callers -> Int] /\ since \in [Callers -> Nat]
  /\ newest \in Nat /\ writes \in Nat /\ newest <= writes
  /\ \A c \in Callers : since[c] <= newest
  /\ adapter # "indexeddb" => \A c \in Callers : call[c] = "none"
  /\ IF fallen THEN adapter = "fallback" /\ UpToDate(memory) ELSE UpToDate(disk)
  /\ ~fallen => memory.state <= 0
  /\ NeverOlder

LEMMA Resolved ==
  ASSUME StorageInv, NEW c \in Callers, NEW kind \in CallKinds,
         NEW cell \in [state : Int, write : Int], UpToDate(cell), Resolve(c, kind, cell)
  PROVE  /\ After(kind, cell) \in [state : Int, write : Int]
         /\ answer' \in [Callers -> Int] /\ newest' \in Nat /\ writes' \in Nat
         /\ newest <= newest' /\ newest' <= writes'
         /\ After(kind, cell).state > 0 => After(kind, cell).state >= newest'
         /\ answer'[c] > 0 => answer'[c] >= newest
         /\ \A b \in Callers \ {c} : answer'[b] = answer[b]
<1>1. newest \in Nat /\ writes \in Nat /\ newest <= writes /\ answer \in [Callers -> Int]
      /\ cell.state \in Int
  BY DEF StorageInv
<1>2. /\ writes' = (IF Writing(kind) THEN writes + 1 ELSE writes)
      /\ newest' = (IF Writing(kind) THEN writes + 1 ELSE newest)
      /\ answer' = [answer EXCEPT ![c] = IF kind = "load" THEN cell.state ELSE Nothing]
  BY DEF Resolve
<1>3. answer' \in [Callers -> Int] /\ \A b \in Callers \ {c} : answer'[b] = answer[b]
  BY <1>1, <1>2 DEF Nothing
<1>4. answer'[c] = IF kind = "load" THEN cell.state ELSE 0
  BY <1>1, <1>2 DEF Nothing
<1>5. CASE kind = "load"
  BY <1>1, <1>2, <1>3, <1>4, <1>5 DEF After, Writing, UpToDate
<1>6. CASE kind = "save"
  BY <1>1, <1>2, <1>3, <1>4, <1>6 DEF After, Writing, Cell
<1>7. CASE kind = "remove"
  BY <1>1, <1>2, <1>3, <1>4, <1>7 DEF After, Writing, Cell, Nothing
<1> QED BY <1>5, <1>6, <1>7 DEF CallKinds

LEMMA LocalCallKeeps ==
  ASSUME StorageInv, NEW c \in Callers, LocalCall(c)
  PROVE  StorageInv'
<1> DEFINE Versions == [state : Int, write : Int]
<1>1. /\ adapter \in {"fallback", "throw"} /\ since' = [since EXCEPT ![c] = newest]
      /\ UNCHANGED <<adapter, connection, call, broken, outages, reloads>>
  BY DEF LocalCall, Ask
<1>2. /\ since' \in [Callers -> Nat] /\ since'[c] = newest
      /\ \A b \in Callers \ {c} : since'[b] = since[b]
  BY <1>1 DEF StorageInv
<1>3. PICK kind \in CallKinds :
        \/ /\ fallen
           /\ memory' = After(kind, memory) /\ Resolve(c, kind, memory)
           /\ UNCHANGED <<disk, fallen>>
        \/ /\ ~fallen
           /\ disk' = After(kind, disk) /\ Resolve(c, kind, disk)
           /\ UNCHANGED <<memory, fallen>>
        \/ /\ ~fallen /\ adapter = "fallback" /\ fallen' = TRUE
           /\ memory' = After(kind, memory) /\ Resolve(c, kind, memory)
           /\ UNCHANGED disk
        \/ /\ ~fallen /\ Reject(c) /\ UNCHANGED <<disk, memory, fallen>>
  BY DEF LocalCall, Calls, CallKinds, Falls
<1>4. CASE Resolve(c, kind, memory) /\ UpToDate(memory) /\ memory' = After(kind, memory)
           /\ UNCHANGED disk /\ fallen' /\ adapter = "fallback"
  <2>1. memory \in Versions
    BY DEF StorageInv
  <2>2. /\ memory' \in Versions /\ answer' \in [Callers -> Int]
        /\ newest' \in Nat /\ writes' \in Nat /\ newest <= newest' /\ newest' <= writes'
        /\ memory'.state > 0 => memory'.state >= newest'
        /\ answer'[c] > 0 => answer'[c] >= newest
        /\ \A b \in Callers \ {c} : answer'[b] = answer[b]
    BY <1>4, <2>1, Resolved, Zenon
  <2> QED BY <1>1, <1>2, <1>4, <2>2 DEF StorageInv, NeverOlder, UpToDate
<1>5. CASE Resolve(c, kind, disk) /\ UpToDate(disk) /\ disk' = After(kind, disk)
           /\ UNCHANGED memory /\ ~fallen /\ ~fallen'
  <2>1. disk \in Versions
    BY DEF StorageInv
  <2>2. /\ disk' \in Versions /\ answer' \in [Callers -> Int]
        /\ newest' \in Nat /\ writes' \in Nat /\ newest <= newest' /\ newest' <= writes'
        /\ disk'.state > 0 => disk'.state >= newest'
        /\ answer'[c] > 0 => answer'[c] >= newest
        /\ \A b \in Callers \ {c} : answer'[b] = answer[b]
    BY <1>5, <2>1, Resolved, Zenon
  <2> QED BY <1>1, <1>2, <1>5, <2>2 DEF StorageInv, NeverOlder, UpToDate
<1>6. CASE ~fallen /\ Reject(c) /\ UNCHANGED <<disk, memory, fallen>>
  BY <1>1, <1>2, <1>6 DEF StorageInv, NeverOlder, UpToDate, Reject, Failed
<1>7. ~fallen => UpToDate(memory) /\ UpToDate(disk)
  BY DEF StorageInv, UpToDate
<1>8. fallen => UpToDate(memory) /\ adapter = "fallback"
  BY DEF StorageInv
<1> QED BY <1>3, <1>4, <1>5, <1>6, <1>7, <1>8

LEMMA TransactKeeps ==
  ASSUME StorageInv, NEW c \in Callers, Transact(c)
  PROVE  StorageInv'
<1> DEFINE Versions == [state : Int, write : Int]
<1>1. /\ call[c] \in CallKinds /\ call' = [call EXCEPT ![c] = "none"] /\ ~fallen
      /\ UNCHANGED <<adapter, memory, fallen, connection, since, broken, outages, reloads>>
  BY DEF Transact, StorageInv
<1>2. /\ call' \in [Callers -> CallKinds \union {"none"}]
      /\ adapter' # "indexeddb" => \A b \in Callers : call'[b] = "none"
  BY <1>1 DEF StorageInv
<1>3. CASE disk' = After(call[c], disk) /\ Resolve(c, call[c], disk)
  <2>1. disk \in Versions /\ UpToDate(disk)
    BY <1>1 DEF StorageInv
  <2>2. /\ disk' \in Versions /\ answer' \in [Callers -> Int]
        /\ newest' \in Nat /\ writes' \in Nat /\ newest <= newest' /\ newest' <= writes'
        /\ disk'.state > 0 => disk'.state >= newest'
        /\ answer'[c] > 0 => answer'[c] >= newest
        /\ \A b \in Callers \ {c} : answer'[b] = answer[b]
    BY <1>1, <1>3, <2>1, Resolved, Zenon
  <2> QED BY <1>1, <1>2, <2>2 DEF StorageInv, NeverOlder, UpToDate
<1>4. CASE Reject(c) /\ UNCHANGED disk
  BY <1>1, <1>2, <1>4 DEF StorageInv, NeverOlder, UpToDate, Reject, Failed
<1> QED BY <1>3, <1>4 DEF Transact

(* A load never gives a state that a write which had been resolved when it *)
(* began replaced: storage and memory of LocalStorageAdapter, and the      *)
(* transactions of IndexedDBAdapter.                                       *)
THEOREM NoLoadIsOlder == StorageInit /\ [][StorageNext]_storageVars => []NeverOlder
<1>1. StorageInit => StorageInv
  BY DEF StorageInit, FreshStorage, StorageInv, NeverOlder, UpToDate, Cell, Nothing, Bad, Unanswered
<1>2. ASSUME StorageInv, [StorageNext]_storageVars
      PROVE  StorageInv'
  <2>1. ASSUME NEW c \in Callers, BeginCall(c)
        PROVE  StorageInv'
    <3>1. PICK kind \in CallKinds : call' = [call EXCEPT ![c] = kind]
      BY <2>1 DEF BeginCall, Calls, CallKinds
    <3>2. call' \in [Callers -> CallKinds \union {"none"}]
      BY <1>2, <3>1 DEF StorageInv
    <3>3. since' = [since EXCEPT ![c] = newest] /\ answer' = [answer EXCEPT ![c] = -3]
      BY <2>1 DEF BeginCall, Ask, Unanswered
    <3> QED BY <1>2, <2>1, <3>2, <3>3 DEF StorageInv, BeginCall, NeverOlder, UpToDate
  <2>2. CASE OpenDatabase
    BY <1>2, <2>2 DEF OpenDatabase, StorageInv, NeverOlder, UpToDate
  <2>3. CASE FailToOpen
    BY <1>2, <2>3 DEF FailToOpen, StorageInv, NeverOlder, UpToDate, Failed
  <2>4. CASE Outage
    BY <1>2, <2>4 DEF Outage, StorageInv, NeverOlder, UpToDate
  <2>5. CASE ReloadPage
    BY <1>2, <2>5 DEF ReloadPage, StorageInv, NeverOlder, UpToDate, Cell, Nothing, Unanswered
  <2>6. CASE UNCHANGED storageVars
    BY <1>2, <2>6 DEF storageVars, StorageInv, NeverOlder, UpToDate
  <2> QED
    BY <1>2, <2>1, <2>2, <2>3, <2>4, <2>5, <2>6, LocalCallKeeps, TransactKeeps DEF StorageNext
<1>3. StorageInv => NeverOlder
  BY DEF StorageInv
<1> QED BY <1>1, <1>2, <1>3, PTL

-----------------------------------------------------------------------------
(* The participant's viewer.                                               *)

(* A claim that is pending is the one call the client has not answered,    *)
(* and the cards that wait, wait for it.                                   *)
ClaimInv ==
  \/ calls = 0 /\ pending = FALSE /\ claiming = {}
  \/ calls = 1 /\ pending = TRUE

(* Whatever the cards do, the client has one claim of the reward to answer *)
(* at a time: the page shares the promise of a claim under way.            *)
THEOREM ClaimsAreShared == ViewerInit /\ [][ViewerNext]_viewerVars => []OneClaimAtATime
<1>1. ViewerInit => ClaimInv
  BY DEF ViewerInit, ClaimInv
<1>2. ASSUME ClaimInv, [ViewerNext]_viewerVars
      PROVE  ClaimInv'
  <2>1. CASE RunViewerEffects
    BY <1>2, <2>1 DEF RunViewerEffects, ClaimInv
  <2>2. CASE LoadClient
    BY <1>2, <2>2 DEF LoadClient, ClaimInv
  <2>3. CASE CommitElsewhere
    <3>1. claiming' \subseteq claiming
      BY <2>3 DEF CommitElsewhere
    <3> QED BY <1>2, <2>3, <3>1 DEF CommitElsewhere, ClaimInv
  <2>4. ASSUME NEW spot \in CheckInSpots, StartCheckIn(spot) \/ AnswerCheckIn(spot)
        PROVE  ClaimInv'
    BY <1>2, <2>4 DEF StartCheckIn, AnswerCheckIn, ClaimInv
  <2>5. ASSUME NEW card \in Cards, Claim(card)
        PROVE  ClaimInv'
    <3>1. CASE calls = 1
      BY <1>2, <2>5, <3>1 DEF Claim, SharesClaim, ClaimInv
    <3>2. CASE calls = 0
      BY <1>2, <2>5, <3>2 DEF Claim, SharesClaim, ClaimInv
    <3> QED BY <1>2, <3>1, <3>2 DEF ClaimInv
  <2>6. CASE AnswerClaim
    BY <1>2, <2>6 DEF AnswerClaim, ClaimInv
  <2>7. CASE UNCHANGED viewerVars
    BY <1>2, <2>7 DEF viewerVars, ClaimInv
  <2> QED BY <1>2, <2>1, <2>2, <2>3, <2>4, <2>5, <2>6, <2>7 DEF ViewerNext
<1>3. ClaimInv => OneClaimAtATime
  BY DEF ClaimInv, OneClaimAtATime
<1> QED BY <1>1, <1>2, <1>3, PTL

(* What completedRef knows is what was drawn; of a page that has not been  *)
(* drawn, the ui viewer knows the state it mounts with.                    *)
DrawnInv ==
  /\ viewer \in {"ui", "mui"} /\ commits \in Nat
  /\ client # NotYet /\ Shown # NotYet
  /\ drawn # NotYet => completed = Flag(drawn.complete) /\ completed # "unset"
  /\ drawn = NotYet => completed = IF viewer = "ui" THEN Flag(Shown.complete) ELSE "unset"

(* A page that mounts over a client with a loaded state announces only     *)
(* completions that it saw come about. (Over a client that still loads,    *)
(* either viewer announces an old completion as well.)                     *)
THEOREM CompletionsAreNews ==
  ASSUME LoadedAtMount = {TRUE}, Viewers \subseteq {"ui", "mui"}
  PROVE  ViewerInit /\ [][ViewerNext]_viewerVars => CompletionIsNews
<1>1. ViewerInit => DrawnInv
  BY DEF ViewerInit, DrawnInv, NotYet, Shown, Flag
<1>2. ASSUME NEW complete \in BOOLEAN, commits \in Nat
      PROVE  State(complete) # NotYet
  BY <1>2 DEF State, NotYet
<1>3. ASSUME DrawnInv, [ViewerNext]_viewerVars
      PROVE  DrawnInv'
  <2>1. CASE RunViewerEffects
    <3>1. /\ drawn' = Shown /\ completed' = Flag(Shown.complete)
          /\ UNCHANGED <<viewer, client, own, commits>>
      BY <2>1 DEF RunViewerEffects
    <3>2. Shown' = Shown
      BY <3>1 DEF Shown
    <3> QED BY <1>3, <3>1, <3>2 DEF DrawnInv, Flag
  <2>2. CASE LoadClient
    BY <1>3, <2>2 DEF LoadClient, DrawnInv
  <2>3. ASSUME NEW complete \in BOOLEAN,
               Emit(State(complete)) \/ Answered(State(complete)),
               Drawn, commits' = commits + 1, UNCHANGED <<viewer, drawn, completed>>
        PROVE  DrawnInv'
    <3>1. State(complete) # NotYet /\ drawn # NotYet
      BY <1>2, <1>3, <2>3 DEF DrawnInv, Drawn
    <3>2. client' # NotYet /\ Shown' # NotYet
      BY <1>3, <2>3, <3>1 DEF Emit, Answered, Shown, DrawnInv
    <3> QED BY <1>3, <2>3, <3>1, <3>2 DEF DrawnInv
  <2>4. CASE CommitElsewhere
    BY <2>3, <2>4 DEF CommitElsewhere
  <2>5. ASSUME UNCHANGED <<viewer, client, own, drawn, completed, commits>>
        PROVE  DrawnInv'
    <3>1. Shown' = Shown
      BY <2>5 DEF Shown
    <3> QED BY <1>3, <2>5, <3>1 DEF DrawnInv
  <2>6. ASSUME NEW spot \in CheckInSpots, StartCheckIn(spot) \/ AnswerCheckIn(spot)
        PROVE  DrawnInv'
    <3>1. CASE StartCheckIn(spot)
      BY <2>5, <3>1 DEF StartCheckIn
    <3>2. CASE AnswerCheckIn(spot)
      BY <2>3, <2>5, <3>2 DEF AnswerCheckIn
    <3> QED BY <2>6, <3>1, <3>2
  <2>7. ASSUME NEW card \in Cards, Claim(card)
        PROVE  DrawnInv'
    BY <2>5, <2>7 DEF Claim
  <2>8. CASE AnswerClaim
    <3>1. CASE UNCHANGED <<client, own, commits>>
      BY <2>5, <2>8, <3>1 DEF AnswerClaim
    <3>2. CASE commits' = commits + 1 /\ Answered(State(client.complete))
      <4>1. State(client.complete) # NotYet /\ drawn # NotYet
        BY <1>3, <2>8, <3>2 DEF DrawnInv, Drawn, AnswerClaim, State, NotYet
      <4>2. client' # NotYet /\ Shown' # NotYet
        BY <1>3, <2>8, <3>2, <4>1 DEF Answered, Shown, DrawnInv
      <4> QED BY <1>3, <2>8, <3>2, <4>1, <4>2 DEF DrawnInv, AnswerClaim
    <3> QED BY <2>8, <3>1, <3>2 DEF AnswerClaim
  <2>9. CASE UNCHANGED viewerVars
    BY <2>5, <2>9 DEF viewerVars
  <2> QED
    BY <1>3, <2>1, <2>2, <2>4, <2>6, <2>7, <2>8, <2>9 DEF ViewerNext
<1>4. ASSUME DrawnInv, [ViewerNext]_viewerVars
      PROVE  [announced' # announced => drawn # NotYet /\ ~drawn.complete]_viewerVars
  <2>1. ASSUME announced' # announced
        PROVE  RunViewerEffects
    BY <1>4, <2>1 DEF ViewerNext, viewerVars, LoadClient, CommitElsewhere, StartCheckIn,
                      AnswerCheckIn, Claim, AnswerClaim
  <2>2. ASSUME RunViewerEffects, announced' # announced
        PROVE  drawn # NotYet /\ ~drawn.complete
    <3>1. Announces
      BY <2>2 DEF RunViewerEffects
    <3>2. drawn # NotYet
      BY <1>4, <3>1 DEF Announces, DrawnInv, Flag
    <3>3. completed # "yes"
      BY <1>4, <3>1 DEF Announces, DrawnInv
    <3> QED BY <1>4, <3>2, <3>3 DEF DrawnInv, Flag
  <2> QED BY <2>1, <2>2
<1> QED BY <1>1, <1>3, <1>4, PTL DEF CompletionIsNews

-----------------------------------------------------------------------------
(* The storage of the offline queue.                                       *)

(* A queue in memory is known to be one, and before that nothing is in     *)
(* memory; what was accepted in the scope is in the array, which the next  *)
(* save writes, or stays where a queue in memory does not write.           *)
QueueStorageInv ==
  /\ queued \subseteq Operations /\ hollow \subseteq queued /\ warned \in BOOLEAN
  /\ onDevice \in [Users -> (SUBSET Operations) \union {Unreadable}]
  /\ volatile \in [Users -> SUBSET Operations] /\ promised \in [Users -> SUBSET Operations]
  /\ IsPersistent(capability) => \A u \in Users : volatile[u] = {}
  /\ loaded /\ ~IsPersistent(capability) => warned
  /\ loaded =>
       /\ scope \in Users
       /\ promised[scope] \subseteq
            queued \union (IF IsPersistent(capability) THEN {} ELSE Readable(onDevice[scope]))
  /\ AcceptedIsKept

LEMMA ReadableIs ==
  ASSUME NEW value \in (SUBSET Operations) \union {Unreadable}
  PROVE  /\ Readable(value) \subseteq Operations
         /\ value \in SUBSET Operations => Readable(value) = value
BY UnreadableIsNoList DEF Readable, Unreadable

LEMMA InitializeKeeps ==
  ASSUME QueueStorageInv, NEW u \in Users, Initialize(u)
  PROVE  QueueStorageInv'
<1>1. /\ scope' = u /\ loaded' = TRUE /\ UNCHANGED <<onDevice, volatile>> /\ hollow' = {}
      /\ promised' \in [Users -> SUBSET Operations]
      /\ \A w \in Users : promised'[w] = promised[w] \ IF w = scope THEN hollow ELSE {}
  BY DEF Initialize, LoseArray, QueueStorageInv
<1>2. Readable(onDevice[u]) \subseteq Operations /\ Readable(volatile[u]) = volatile[u]
      /\ volatile[u] \subseteq Operations
  BY ReadableIs DEF QueueStorageInv
<1>3. /\ \A w \in Users : \A op \in promised'[w] :
           op \in Readable(onDevice[w]) \/ (warned /\ op \in volatile[w])
      /\ promised'[u] \subseteq Readable(onDevice[u]) \union volatile[u]
  BY <1>1 DEF QueueStorageInv, AcceptedIsKept
<1>4. CASE IsPersistent(capability) /\ queued' = Readable(onDevice[u]) /\ UNCHANGED <<capability, warned>>
  BY <1>1, <1>2, <1>3, <1>4 DEF QueueStorageInv, AcceptedIsKept, IsPersistent
<1>5. CASE ~IsPersistent(capability) /\ queued' = volatile[u] /\ warned' = TRUE /\ UNCHANGED capability
  BY <1>1, <1>2, <1>3, <1>5 DEF QueueStorageInv, AcceptedIsKept, IsPersistent
<1>6. CASE IsPersistent(capability) /\ capability' = "memory" /\ queued' = {} /\ warned' = TRUE
  BY <1>1, <1>2, <1>3, <1>6 DEF QueueStorageInv, AcceptedIsKept, IsPersistent
<1>7. IsPersistent(capability) => (warned \/ ~IsPersistent(capability)) = warned
  BY DEF QueueStorageInv
<1>8. ~IsPersistent(capability) => (warned \/ ~IsPersistent(capability)) = TRUE
  OBVIOUS
<1>9. CASE /\ queued' = Readable(IF IsPersistent(capability) THEN onDevice[u] ELSE volatile[u])
           /\ warned' = (warned \/ ~IsPersistent(capability))
           /\ UNCHANGED capability
  <2>1. CASE IsPersistent(capability)
    BY <1>4, <1>7, <1>9, <2>1
  <2>2. CASE ~IsPersistent(capability)
    BY <1>2, <1>5, <1>8, <1>9, <2>2
  <2> QED BY <2>1, <2>2
<1> QED BY <1>6, <1>9 DEF Initialize, Rejects, Fallback

(* A call in a loaded scope whose array holds what is promised after it.   *)
LEMMA SaveKeeps ==
  ASSUME QueueStorageInv, loaded, UNCHANGED settledVars,
         NEW operations \in SUBSET Operations, NEW promises \in SUBSET Operations, NEW ok \in BOOLEAN,
         Save(operations, ok),
         promised' = [promised EXCEPT ![scope] = promises],
         promises \subseteq operations \union
           (IF IsPersistent(capability) THEN {} ELSE Readable(onDevice[scope])),
         ~ok => promises \subseteq promised[scope]
  PROVE  QueueStorageInv'
<1>1. /\ scope \in Users /\ loaded' /\ UNCHANGED <<capability, scope, warned>>
      /\ queued' = operations /\ hollow' = IF ok THEN {} ELSE hollow \intersect operations
  BY DEF QueueStorageInv, settledVars, Save
<1>2. /\ promised' \in [Users -> SUBSET Operations] /\ promised'[scope] = promises
      /\ \A u \in Users \ {scope} : promised'[u] = promised[u]
  BY <1>1 DEF QueueStorageInv
<1>3. CASE ~ok
  BY <1>1, <1>2, <1>3 DEF QueueStorageInv, Save, AcceptedIsKept, IsPersistent
<1>4. CASE ok /\ IsPersistent(capability)
  <2>1. /\ onDevice' \in [Users -> (SUBSET Operations) \union {Unreadable}]
        /\ onDevice'[scope] = operations /\ volatile' = volatile
        /\ \A u \in Users \ {scope} : onDevice'[u] = onDevice[u]
    BY <1>1, <1>4 DEF QueueStorageInv, Save
  <2>2. Readable(operations) = operations
    BY ReadableIs
  <2>3. AcceptedIsKept'
    BY <1>1, <1>2, <1>4, <2>1, <2>2 DEF QueueStorageInv, AcceptedIsKept
  <2> QED BY <1>1, <1>2, <1>4, <2>1, <2>3 DEF QueueStorageInv, IsPersistent
<1>5. CASE ok /\ ~IsPersistent(capability)
  <2>1. /\ volatile' \in [Users -> SUBSET Operations]
        /\ volatile'[scope] = operations /\ onDevice' = onDevice
        /\ \A u \in Users \ {scope} : volatile'[u] = volatile[u]
    BY <1>1, <1>5 DEF QueueStorageInv, Save
  <2>2. warned'
    BY <1>1, <1>5 DEF QueueStorageInv
  <2>3. AcceptedIsKept'
    BY <1>1, <1>2, <1>5, <2>1, <2>2 DEF QueueStorageInv, AcceptedIsKept
  <2> QED BY <1>1, <1>2, <1>5, <2>1, <2>2, <2>3 DEF QueueStorageInv, IsPersistent
<1> QED BY <1>3, <1>4, <1>5

(* What enqueue accepted stays on the device for its user until it has an  *)
(* answer, or is in memory and the page was told so: whichever storage the *)
(* queue has, however it fails, and through changes of the user and        *)
(* reloads (OfflineQueue.initialize, save and the fallback). The only ones *)
(* excepted are those enqueue finds in the array since an earlier call     *)
(* whose save was rejected, until they are saved.                          *)
THEOREM AcceptedStays ==
  QueueStorageInit /\ [][QueueStorageNext]_queueStorageVars => []AcceptedIsKept
<1>1. QueueStorageInit => QueueStorageInv
  BY DEF QueueStorageInit, QueueStorageInv, AcceptedIsKept
<1>2. ASSUME QueueStorageInv, [QueueStorageNext]_queueStorageVars
      PROVE  QueueStorageInv'
  <2>1. ASSUME NEW u \in Users, SetScope(u)
        PROVE  QueueStorageInv'
    BY <1>2, <2>1, InitializeKeeps DEF SetScope
  <2>2. ASSUME NEW op \in Operations, NEW ok \in BOOLEAN, EnqueueOperation(op, ok)
        PROVE  QueueStorageInv'
    <3>1. loaded /\ UNCHANGED settledVars /\ scope \in Users /\ promised[scope] \in SUBSET Operations
      BY <1>2, <2>2 DEF EnqueueOperation, QueueStorageInv
    <3>2. CASE op \in queued
      <4>1. /\ promised' = [promised EXCEPT ![scope] = @ \union {op}]
            /\ hollow' = hollow \union ({op} \ (promised[scope] \union Held))
            /\ UNCHANGED <<queued, onDevice, volatile>>
        BY <2>2, <3>2 DEF EnqueueOperation
      <4>2. UNCHANGED <<capability, scope, loaded, warned>>
        BY <3>1 DEF settledVars
      <4>3. /\ promised' \in [Users -> SUBSET Operations]
            /\ promised'[scope] = promised[scope] \union {op}
            /\ \A w \in Users \ {scope} : promised'[w] = promised[w]
        BY <1>2, <3>1, <4>1 DEF QueueStorageInv
      <4>4. op \in promised[scope] \/ op \in hollow' \/ op \in Held
        BY <4>1
      <4>5. op \in Held => op \in Readable(onDevice[scope]) \/ (warned /\ op \in volatile[scope])
        BY <1>2, <3>1, ReadableIs DEF Held, QueueStorageInv
      <4>6. AcceptedIsKept'
        BY <1>2, <3>1, <4>1, <4>2, <4>3, <4>4, <4>5 DEF QueueStorageInv, AcceptedIsKept
      <4> QED BY <1>2, <3>1, <3>2, <4>1, <4>2, <4>3, <4>6 DEF QueueStorageInv
    <3>3. CASE op \notin queued /\ ok
      <4> DEFINE more == promised[scope] \union {op}
      <4>1. Save(queued \union {op}, ok)
            /\ promised' = [promised EXCEPT ![scope] = more]
        BY <2>2, <3>3 DEF EnqueueOperation
      <4>2. queued \union {op} \in SUBSET Operations /\ more \in SUBSET Operations
            /\ more \subseteq (queued \union {op}) \union
                 (IF IsPersistent(capability) THEN {} ELSE Readable(onDevice[scope]))
        BY <1>2, <3>1 DEF QueueStorageInv
      <4> HIDE DEF more
      <4> QED BY <1>2, <3>1, <3>3, <4>1, <4>2, SaveKeeps
    <3>4. CASE op \notin queued /\ ~ok
      <4> DEFINE same == promised[scope]
      <4>1. Save(queued \union {op}, ok)
            /\ promised' = [promised EXCEPT ![scope] = same]
        BY <1>2, <2>2, <3>4 DEF EnqueueOperation, QueueStorageInv
      <4>2. queued \union {op} \in SUBSET Operations /\ same \in SUBSET Operations
            /\ same \subseteq promised[scope]
            /\ same \subseteq (queued \union {op}) \union
                 (IF IsPersistent(capability) THEN {} ELSE Readable(onDevice[scope]))
        BY <1>2, <3>1 DEF QueueStorageInv
      <4> HIDE DEF same
      <4> QED BY <1>2, <2>2, <3>1, <4>1, <4>2, SaveKeeps
    <3> QED BY <3>2, <3>3, <3>4
  <2>3. ASSUME NEW op \in Operations, NEW ok \in BOOLEAN, RemoveAnswered(op, ok)
        PROVE  QueueStorageInv'
    <3> DEFINE less == promised[scope] \ {op}
    <3>1. loaded /\ UNCHANGED settledVars /\ Save(queued \ {op}, ok)
          /\ promised' = [promised EXCEPT ![scope] = less]
      BY <2>3 DEF RemoveAnswered
    <3>2. queued \ {op} \in SUBSET Operations /\ less \in SUBSET Operations
          /\ less \subseteq promised[scope]
          /\ less \subseteq (queued \ {op}) \union
               (IF IsPersistent(capability) THEN {} ELSE Readable(onDevice[scope]))
      BY <1>2, <3>1 DEF QueueStorageInv
    <3> HIDE DEF less
    <3> QED BY <1>2, <2>3, <3>1, <3>2, SaveKeeps
  <2>4. ASSUME NEW ok \in BOOLEAN, ClearQueue(ok)
        PROVE  QueueStorageInv'
    <3>1. loaded /\ UNCHANGED settledVars /\ Save({}, ok)
          /\ promised' = [promised EXCEPT ![scope] = {}]
      BY <2>4 DEF ClearQueue
    <3> QED BY <1>2, <2>4, <3>1, SaveKeeps
  <2>5. CASE Breakdown
    BY <1>2, <2>5 DEF Breakdown, QueueStorageInv, AcceptedIsKept
  <2>6. CASE LoadPage
    <3>1. /\ queued' = {} /\ hollow' = {} /\ loaded' = FALSE /\ onDevice' = onDevice
          /\ volatile' = [u \in Users |-> {}] /\ warned' = FALSE
          /\ promised' \in [Users -> SUBSET Operations]
          /\ \A u \in Users : promised'[u] = promised[u] \ (volatile[u] \union IF u = scope THEN hollow ELSE {})
      BY <1>2, <2>6 DEF LoadPage, NewQueue, LoseArray, QueueStorageInv
    <3>2. \A u \in Users : \A op \in promised'[u] : op \in Readable(onDevice[u])
      BY <1>2, <3>1 DEF QueueStorageInv, AcceptedIsKept
    <3> QED BY <1>2, <3>1, <3>2 DEF QueueStorageInv, AcceptedIsKept
  <2>7. CASE UNCHANGED queueStorageVars
    BY <1>2, <2>7 DEF queueStorageVars, QueueStorageInv, AcceptedIsKept
  <2> QED
    BY <1>2, <2>1, <2>2, <2>3, <2>4, <2>5, <2>6, <2>7 DEF QueueStorageNext
<1>3. QueueStorageInv => AcceptedIsKept
  BY DEF QueueStorageInv
<1> QED BY <1>1, <1>2, <1>3, PTL

-----------------------------------------------------------------------------
(* The way into the server.                                                *)

Identified(act) ==
  /\ NonEmpty(act.user)
  /\ act.by # "host" => act.user = act.by
  /\ act.user = "anonymous" => act.policy = "shared_global_opt_in_insecure"
  /\ act.by # "host" /\ act.policy = "authenticate" => act.user \in Accounts

LEMMA BodyIs ==
  ASSUME NEW body \in Bodies
  PROVE  /\ body = [field \in DOMAIN body |-> body[field]]
         /\ "userId" \in DOMAIN body /\ "anonymousSessionId" \in DOMAIN body
         /\ body.userId \in {NoField, Blank} \union Accounts
         /\ body.anonymousSessionId \in {NoField} \union Sessions
<1> DEFINE whole == {"rallyId", "resource", "idempotencyKey", "userId", "anonymousSessionId", "now",
                     "staffPasscode", "proof"}
<1>1. CompleteBody = [field \in whole |-> CompleteBody[field]] /\ DOMAIN CompleteBody = whole
  BY DEF CompleteBody
<1> DEFINE odds == {CompleteBody, [CompleteBody EXCEPT !.rallyId = "other"],
                    [CompleteBody EXCEPT !.resource = "unknown"],
                    [CompleteBody EXCEPT !.idempotencyKey = Blank],
                    [CompleteBody EXCEPT !.staffPasscode = Blank],
                    [CompleteBody EXCEPT !.proof = [type |-> "qr", value |-> Blank]],
                    [CompleteBody EXCEPT !.proof = [type |-> "gps", value |-> <<0, 181>>]]}
           names == [userId : {NoField, Blank} \union Accounts,
                     anonymousSessionId : {NoField} \union Sessions]
<1>2. PICK odd \in odds, name \in names :
        body = [odd EXCEPT !.userId = name.userId, !.anonymousSessionId = name.anonymousSessionId]
  <2>1. body \in UNION {{[odd EXCEPT !.userId = name.userId, !.anonymousSessionId = name.anonymousSessionId] :
                          name \in names} : odd \in odds}
    BY Zenon DEF Bodies
  <2> HIDE DEF odds, names
  <2> QED BY <2>1
<1>3. DOMAIN odd = whole
  BY <1>1
<1> HIDE DEF odds
<1> QED BY <1>2, <1>3

LEMMA CallerIs ==
  ASSUME NEW caller \in HttpCallers, UserOf(caller) # NoField, UserOf(caller) # Blank
  PROVE  /\ UserOf(caller) = "anonymous" => policy = "shared_global_opt_in_insecure"
         /\ policy = "authenticate" => UserOf(caller) \in Accounts
BY IdentitiesAreNames DEF UserOf, HttpCallers

LEMMA OperateIdentifies ==
  ASSUME NEW caller \in HttpCallers, NEW kind, NEW body \in Bodies, Operate(kind, caller, body),
         \A act \in acts : Identified(act)
  PROVE  \A act \in acts' : Identified(act)
<1> DEFINE user == UserOf(caller)
           direct == WithSession(WithIdentity(body, user), caller)
<1>1. direct.userId = user
  BY BodyIs DEF WithSession, WithIdentity
<1>2. CASE UNCHANGED acts
  BY <1>2
<1>3. CASE user # NoField /\ DirectValid(kind, direct) /\ acts' = acts \union {Runs(user, "route", direct)}
  <2>1. user # Blank
    BY <1>1, <1>3 DEF DirectValid, IdentityValid, Optional
  <2>2. Identified(Runs(user, "route", direct))
    BY <1>1, <1>3, <2>1, CallerIs DEF Identified, Runs, NonEmpty
  <2> QED BY <1>3, <2>2
<1> QED BY <1>2, <1>3 DEF Operate, Refuse

LEMMA SynchronizeIdentifies ==
  ASSUME NEW caller \in HttpCallers, NEW body,
         \A i \in DOMAIN body.operations : body.operations[i].request \in Bodies,
         Synchronize(caller, body), \A act \in acts : Identified(act)
  PROVE  \A act \in acts' : Identified(act)
<1> DEFINE user == UserOf(caller)
           runOf(i) == Runs(user, "batch", WithIdentity(body.operations[i].request, user))
<1>1. CASE UNCHANGED acts
  BY <1>1
<1>2. ASSUME user # NoField, NonEmpty(user),
             NEW run \in SUBSET DOMAIN body.operations,
             acts' = acts \union {runOf(i) : i \in run}
      PROVE  \A act \in acts' : Identified(act)
  <2>1. ASSUME NEW i \in run
        PROVE  Identified(runOf(i))
    <3>1. WithIdentity(body.operations[i].request, user).userId = user
      BY BodyIs DEF WithIdentity
    <3> QED BY <1>2, <3>1, CallerIs DEF Identified, Runs, NonEmpty
  <2> QED BY <1>2, <2>1
<1>3. UNCHANGED acts \/
      (/\ user # NoField /\ NonEmpty(user)
       /\ acts' = acts \union {runOf(i) : i \in {i \in DOMAIN body.operations : Admitted(body.operations[i], user)}})
  BY DEF Synchronize, Refuse
<1> QED BY <1>1, <1>2, <1>3

(* Every operation that runs acts for the caller that was identified,      *)
(* whatever user or session the body names (#user, withIdentity).          *)
THEOREM OperationsActForTheirCaller == GateInit /\ [][GateNext]_gateVars => []ActsForCaller
<1>1. ActsForCaller = \A act \in acts : Identified(act)
  BY DEF ActsForCaller, Identified
<1>2. GateInit => ActsForCaller
  BY DEF GateInit, ActsForCaller
<1>3. ASSUME ActsForCaller, [GateNext]_gateVars
      PROVE  ActsForCaller'
  <2> SUFFICES \A act \in acts' : Identified(act)
    BY DEF ActsForCaller, Identified
  <2>1. \A act \in acts : Identified(act)
    BY <1>1, <1>3
  <2>2. CASE UNCHANGED acts
    BY <2>1, <2>2
  <2>3. CASE PostOperation
    BY <2>1, <2>3, OperateIdentifies DEF PostOperation
  <2>4. CASE PostSync
    <3>1. PICK caller \in HttpCallers, operations \in SeqOf(Queued, 2), rally \in {"this", "other"} :
            Synchronize(caller, [rallyId |-> rally, userId |-> NoField, operations |-> operations])
      BY <2>4 DEF PostSync
    <3>2. \A i \in DOMAIN operations : operations[i] \in Queued
      BY <3>1 DEF SeqOf
    <3>3. \A i \in DOMAIN operations : operations[i].request \in Bodies
      BY <3>2 DEF Queued
    <3> QED BY <2>1, <3>1, <3>3, SynchronizeIdentifies
  <2>5. CASE HostCalls
    <3>1. PICK kind \in {"checkIn", "claimReward"}, body \in Bodies :
            acts' = IF DirectValid(kind, OwnIdentity(body))
                      THEN acts \union {Runs("host", "call", OwnIdentity(body))} ELSE acts
      BY <2>5 DEF HostCalls
    <3>2. OwnIdentity(body).userId =
            (IF body.userId = NoField /\ body.anonymousSessionId \in Sessions
               THEN body.anonymousSessionId ELSE body.userId)
          /\ OwnIdentity(body).anonymousSessionId = body.anonymousSessionId
      BY BodyIs DEF OwnIdentity
    <3>3. ASSUME DirectValid(kind, OwnIdentity(body))
          PROVE  Identified(Runs("host", "call", OwnIdentity(body)))
      <4>1. OwnIdentity(body).userId \notin {NoField, Blank, "anonymous"}
        BY <3>2, <3>3, BodyIs, IdentitiesAreNames DEF DirectValid, IdentityValid, Optional
      <4> QED BY <4>1 DEF Identified, Runs, NonEmpty
    <3> QED BY <2>1, <3>1, <3>3
  <2> QED
    BY <1>3, <2>2, <2>3, <2>4, <2>5 DEF GateNext, gateVars, WrongMethod, UnknownRoute, Refuse
<1> QED BY <1>2, <1>3, PTL

-----------------------------------------------------------------------------
(* The editor. Its edits differ in the document they make, which neither   *)
(* the effects nor the host look into.                                     *)

Edits == \/ \E new : Commit(new)
         \/ \E new : FormEdit(new)

LEMMA EditsAre == StructuralEdit \/ UpdateText => Edits
<1>1. AddSpot => Edits          BY DEF AddSpot, Edits
<1>2. RemoveSpot => Edits       BY DEF RemoveSpot, Edits
<1>3. ReorderSpots => Edits     BY DEF ReorderSpots, Edits
<1>4. DuplicateSpot => Edits    BY DEF DuplicateSpot, Edits
<1>5. UpdateSpot => Edits       BY DEF UpdateSpot, Edits
<1>6. AddReward => Edits        BY DEF AddReward, Edits
<1>7. RemoveReward => Edits     BY DEF RemoveReward, Edits
<1>8. DuplicateReward => Edits  BY DEF DuplicateReward, Edits
<1>9. ReorderRewards => Edits   BY DEF ReorderRewards, Edits
<1>10. UpdateText => Edits      BY DEF UpdateText, Edits
<1>11. FormAddSpot => Edits     BY DEF FormAddSpot, FormSpots, Edits
<1>12. FormRemoveSpot => Edits  BY DEF FormRemoveSpot, FormSpots, Edits
<1>13. FormChangeSpot => Edits  BY DEF FormChangeSpot, FormSpots, Edits
<1>14. FormMoveSpot => Edits    BY DEF FormMoveSpot, FormSpots, Edits
<1>15. FormAddReward => Edits   BY DEF FormAddReward, Edits
<1>16. FormRemoveReward => Edits  BY DEF FormRemoveReward, Edits
<1>17. FormMoveReward => Edits  BY DEF FormMoveReward, Edits
<1>18. FocusedRemoveSpot => Edits  BY DEF FocusedRemoveSpot, Edits
<1>19. FocusedRemoveReward => Edits  BY DEF FocusedRemoveReward, Edits
<1>20. FormUpdateText => Edits  BY DEF FormUpdateText, Edits
<1>21. FormImport => Edits      BY DEF FormImport, Edits
<1> QED
  BY <1>1, <1>2, <1>3, <1>4, <1>5, <1>6, <1>7, <1>8, <1>9, <1>10, <1>11, <1>12, <1>13, <1>14, <1>15,
     <1>16, <1>17, <1>18, <1>19, <1>20, <1>21 DEF StructuralEdit

LEMMA EditorSteps ==
  ASSUME EditorNext
  PROVE  \/ RunEffects \/ HostAnswers \/ HostReplaces
         \/ \E new : Commit(new)
         \/ \E new : FormEdit(new)
         \/ Undo \/ Redo
         \/ \E version : Reset(version)
<1>1. ResetConfig => \E version : Reset(version)
  BY DEF ResetConfig
<1>2. ResetToBase => \E version : Reset(version)
  BY DEF ResetToBase
<1> QED BY <1>1, <1>2, EditsAre DEF EditorNext, Edits

(* The notification effect ran for the draft that it ran with last.        *)
ToldInv == host # "form" /\ shown[1] = draft.present => told.doc = draft.present.doc

(* Whatever edits, undos, resets, late answers and replaced configurations *)
(* crossed, the host knows the document that is shown when nothing is      *)
(* left to do (the notification effect of useAdminRallyEditor).            *)
THEOREM HostIsInformed == EditorInit /\ [][EditorNext]_editorVars => []HostInformed
<1>1. EditorInit => ToldInv
  BY DEF EditorInit, ToldInv, Fresh
<1>2. ASSUME ToldInv, [EditorNext]_editorVars
      PROVE  ToldInv'
  <2>1. CASE RunEffects
    <3> DEFINE present == draft.present
               adopts == seen # prop /\ prop # present /\ ~IsDirty
               tells == present # shown[1] /\ present # Known(adopts)
    <3>1. /\ shown' = <<present, prop>> /\ host' = host
          /\ draft' = (IF adopts THEN Fresh(prop) ELSE draft)
          /\ told' = (IF tells THEN present ELSE Known(adopts))
      BY <2>1 DEF RunEffects
    <3>2. CASE adopts
      BY <3>1, <3>2 DEF ToldInv, Fresh
    <3>3. CASE ~adopts
      BY <1>2, <3>1, <3>3 DEF ToldInv, Known
    <3> QED BY <3>2, <3>3
  <2>2. CASE HostAnswers \/ HostReplaces
    BY <1>2, <2>2 DEF HostAnswers, HostReplaces, ToldInv
  <2>3. ASSUME Rendered, UNCHANGED <<host, shown, told>>
        PROVE  ToldInv'
    <3>1. shown[1] = draft.present
      BY <2>3 DEF Rendered
    <3> QED BY <1>2, <2>3, <3>1 DEF ToldInv
  <2>4. ASSUME (\E new : Commit(new)) \/ Undo \/ Redo
        PROVE  ToldInv'
    BY <2>3, <2>4 DEF Commit, Undo, Redo, UserActs
  <2>5. ASSUME NEW new, FormEdit(new)
        PROVE  ToldInv'
    BY <2>5 DEF FormEdit, ToldInv
  <2>6. ASSUME NEW version, Reset(version)
        PROVE  ToldInv'
    BY <2>6 DEF Reset, Fresh, ToldInv
  <2>7. CASE UNCHANGED editorVars
    BY <1>2, <2>7 DEF editorVars, ToldInv
  <2> QED BY <1>2, <2>1, <2>2, <2>4, <2>5, <2>6, <2>7, EditorSteps
<1>3. ToldInv => HostInformed
  BY DEF ToldInv, HostInformed, Quiet, Rendered
<1> QED BY <1>1, <1>2, <1>3, PTL

(* What a draft is adopted over: one the user has not asked for, that was  *)
(* already drawn; and the property was seen, or is about to be.            *)
AskedInv ==
  /\ host \in {"sync", "keeps"} =>
       /\ asked # Absent => draft.present.doc = asked
       /\ seen = shown[2] \/ (seen = prop /\ letters = <<>>)
       /\ seen # prop /\ prop # draft.present =>
            /\ shown[1] = draft.present /\ letters = <<>>
            /\ asked = Absent \/ draft.present.doc # base.doc
  /\ host = "sync" => letters \in {<<>>, <<draft.present>>}
  /\ host = "keeps" => letters = <<>>
  /\ host = "form" =>
       /\ shown = <<draft.present, prop>>
       /\ letters = <<>> /\ draft.past = <<>> /\ draft.future = <<>>
       /\ asked # Absent => draft.present.doc = asked

(* What the user last did is what is shown once the effects have run: the  *)
(* adoption effect takes back no edit, undo, redo or reset, of a host that *)
(* puts what it is told into its property at once or never. (A user of a   *)
(* host that never does is not offered resetConfig: its reset would be     *)
(* taken back by the property.)                                            *)
THEOREM ActionsStay ==
  ASSUME Hosts \subseteq {"sync", "late", "keeps", "form"}, ResettingHosts \subseteq {"sync", "late"}
  PROVE  EditorInit /\ [][EditorNext]_editorVars => []ShownIsAsked
<1> DEFINE EInv == AskedInv /\ host \in {"sync", "late", "keeps", "form"}
<1>1. EditorInit => EInv
  BY DEF EditorInit, AskedInv, Fresh
<1>2. ASSUME EInv, [EditorNext]_editorVars
      PROVE  EInv'
  <2>1. CASE RunEffects
    <3> DEFINE present == draft.present
               adopts == seen # prop /\ prop # present /\ ~IsDirty
               tells == present # shown[1] /\ present # Known(adopts)
    <3>1. /\ Batched /\ ~Rendered
          /\ shown' = <<present, prop>> /\ seen' = prop
          /\ draft' = (IF adopts THEN Fresh(prop) ELSE draft)
          /\ letters' = (IF tells /\ host # "keeps" THEN Append(letters, present) ELSE letters)
          /\ UNCHANGED <<host, prop, asked>>
      BY <2>1 DEF RunEffects
    <3>2. host # "form"
      BY <1>2, <3>1 DEF AskedInv, Rendered
    <3>3. host \in {"sync", "keeps"} => letters = <<>>
      BY <1>2, <3>1 DEF AskedInv, Batched
    <3>4. Append(<<>>, present) = <<present>>
      OBVIOUS
    <3>5. CASE adopts
      <4>1. host \in {"sync", "keeps"} => asked = Absent /\ ~tells
        BY <1>2, <3>5 DEF AskedInv, IsDirty
      <4> QED BY <1>2, <3>1, <3>2, <3>3, <3>5, <4>1 DEF AskedInv, Fresh
    <3>6. CASE ~adopts
      BY <1>2, <3>1, <3>2, <3>3, <3>4, <3>6 DEF AskedInv
    <3> QED BY <3>5, <3>6
  <2>2. CASE HostAnswers
    <3>1. letters # <<>> /\ letters' = Tail(letters)
          /\ UNCHANGED <<host, draft, base, seen, told, shown, asked>>
      BY <2>2 DEF HostAnswers
    <3>2. host # "form" /\ host # "keeps"
      BY <1>2, <3>1 DEF AskedInv
    <3>3. ASSUME host = "sync"
          PROVE  letters' = <<>> /\ prop' = draft.present
      <4>1. letters = <<draft.present>>
        BY <1>2, <3>1, <3>3 DEF AskedInv
      <4> QED BY <2>2, <3>1, <3>3, <4>1 DEF HostAnswers
    <3> QED BY <1>2, <3>1, <3>2, <3>3 DEF AskedInv
  <2>3. CASE HostReplaces
    <3>1. Batched /\ shown = <<draft.present, prop>> /\ host # "form"
          /\ asked' = (IF draft.present.doc = base.doc THEN Absent ELSE asked)
          /\ UNCHANGED <<host, letters, draft, base, seen, told, shown>>
      BY <2>3 DEF HostReplaces, Rendered
    <3>2. host \in {"sync", "keeps"} => letters = <<>>
      BY <1>2, <3>1 DEF AskedInv, Batched
    <3> QED BY <1>2, <3>1, <3>2 DEF AskedInv
  <2>4. ASSUME Rendered, host # "form", asked' = draft'.present.doc,
               UNCHANGED <<host, prop, letters, base, seen, shown>>
        PROVE  EInv'
    <3>1. Batched /\ shown = <<draft.present, prop>>
      BY <2>4 DEF Rendered
    <3>2. host \in {"sync", "keeps"} => letters = <<>> /\ seen = prop
      BY <1>2, <3>1 DEF AskedInv, Batched
    <3> QED BY <1>2, <2>4, <3>2 DEF AskedInv
  <2>5. ASSUME NEW new, Commit(new)
        PROVE  EInv'
    BY <2>4, <2>5 DEF Commit, UserActs, Version
  <2>6. CASE Undo \/ Redo
    <3>1. host # "form"
      BY <1>2, <2>6 DEF AskedInv, Undo, Redo
    <3>2. Redo => asked' = draft'.present.doc
      BY DEF Redo
    <3> QED BY <2>4, <2>6, <3>1, <3>2 DEF Undo, Redo, UserActs
  <2>7. ASSUME NEW new, FormEdit(new)
        PROVE  EInv'
    BY <1>2, <2>7 DEF FormEdit, Version, Fresh, AskedInv
  <2>8. ASSUME NEW version, Reset(version)
        PROVE  EInv'
    <3>1. /\ Batched /\ host \in {"sync", "late"} /\ draft' = Fresh(version) /\ asked' = version.doc
          /\ seen' = version /\ UNCHANGED <<host, shown>>
          /\ host = "sync" => prop' = version /\ letters' = letters
      BY <2>8 DEF Reset, UserActs, Rendered
    <3>2. host = "sync" => letters = <<>>
      BY <3>1 DEF Batched
    <3> QED BY <3>1, <3>2 DEF AskedInv, Fresh
  <2>9. CASE UNCHANGED editorVars
    BY <1>2, <2>9 DEF editorVars, AskedInv
  <2> HIDE DEF EInv
  <2> QED BY <1>2, <2>1, <2>2, <2>3, <2>5, <2>6, <2>7, <2>8, <2>9, EditorSteps
<1>3. EInv => ShownIsAsked
  BY DEF AskedInv, ShownIsAsked
<1> HIDE DEF EInv
<1> QED BY <1>1, <1>2, <1>3, PTL

-----------------------------------------------------------------------------
(* The entities of the editor's documents.                                 *)

(* Among the numbers above there is one that no id has.                    *)
LEMMA NextEntityIdIsFree ==
  ASSUME NEW ids, IsFiniteSet(ids), NEW prefix
  PROVE  \E n \in Nat : NextEntityId(prefix, ids) = <<prefix, n>> /\ <<prefix, n>> \notin ids
<1> DEFINE c == Cardinality(ids)
           above == (c + 1)..(2 * c + 1)
           free == {n \in above : <<prefix, n>> \notin ids}
           name == [n \in above |-> <<prefix, n>>]
<1>1. c \in Nat
  BY FS_CardinalityType
<1>2. free # {}
  <2> SUFFICES ASSUME \A n \in above : <<prefix, n>> \in ids PROVE FALSE
    OBVIOUS
  <2>1. name \in Injection(above, ids)
    BY Zenon DEF Injection, IsInjective
  <2>2. Cardinality(above) <= c
    BY <2>1, FS_Injection, Zenon
  <2>3. Cardinality(above) = c + 1
    BY <1>1, AboveIs
  <2> QED BY <1>1, <2>2, <2>3, SMT
<1>3. free \in SUBSET Nat
  BY <1>1, SMT
<1>4. Min(free) \in free
  BY <1>2, <1>3, MinIs
<1>5. NextEntityId(prefix, ids) = <<prefix, Min(free)>>
  BY DEF NextEntityId
<1> QED BY <1>3, <1>4, <1>5

Distinct(list) == \A i, j \in DOMAIN list : list[i].id = list[j].id => i = j

Numbered(spots) == \A i \in DOMAIN spots : spots[i].orderIndex = i - 1

Tidy(new) == Numbered(new.spots) /\ Distinct(new.spots) /\ Distinct(new.rewards)

LEMMA IdsAre ==
  ASSUME NEW S, NEW list \in Seq(S)
  PROVE  IsFiniteSet(Ids(list)) /\ (Distinct(list) => Cardinality(Ids(list)) = Len(list))
<1> DEFINE n == Len(list)
           f == [i \in 1..n |-> list[i].id]
<1>1. DOMAIN list = 1..n /\ n \in Nat
  BY LenProperties
<1>2. IsFiniteSet(1..n) /\ Cardinality(1..n) = n
  <2> HIDE DEF n
  <2>1. 1 \in Int /\ n \in Int /\ (IF 1 > n THEN 0 ELSE n - 1 + 1) = n
    BY <1>1, SMT
  <2> QED BY <2>1, FS_Interval
<1>3. f \in Surjection(1..n, Ids(list))
  BY <1>1, Zenon DEF Surjection, Ids
<1>4. Distinct(list) => f \in Injection(1..n, Ids(list))
  BY <1>1, <1>3, Zenon DEF Distinct, Surjection, Injection, IsInjective
<1> QED BY <1>2, <1>3, <1>4, FS_Surjection, Zenon

LEMMA DrawnIsDistinct ==
  ASSUME NEW list, Distinct(list), NEW new, NEW place \in [DOMAIN new -> DOMAIN list],
         \A i \in DOMAIN new : new[i].id = list[place[i]].id,
         \A i, j \in DOMAIN new : place[i] = place[j] => i = j
  PROVE  Distinct(new)
BY DEF Distinct

LEMMA AppendKeeps ==
  ASSUME NEW S, NEW list \in Seq(S), NEW e \in S
  PROVE  /\ Append(list, e) \in Seq(S)
         /\ Distinct(list) /\ e.id \notin Ids(list) => Distinct(Append(list, e))
         /\ Numbered(list) /\ e.orderIndex = Len(list) => Numbered(Append(list, e))
<1> DEFINE new == Append(list, e)
           n == Len(list)
<1>1. /\ new \in Seq(S) /\ DOMAIN new = 1..(n + 1) /\ n \in Nat /\ DOMAIN list = 1..n
      /\ \A i \in 1..n : new[i] = list[i]
      /\ new[n + 1] = e
  BY SMT
<1> HIDE DEF new, n
<1>2. ASSUME Distinct(list), e.id \notin Ids(list) PROVE Distinct(new)
  <2> SUFFICES ASSUME NEW i \in 1..(n + 1), NEW j \in 1..(n + 1), new[i].id = new[j].id, i # j
               PROVE  FALSE
    BY <1>1 DEF Distinct
  <2>1. \A k \in 1..(n + 1) : k = n + 1 \/ k \in 1..n
    BY <1>1, SMT
  <2>2. \A k \in 1..n : list[k].id \in Ids(list)
    BY <1>1, Zenon DEF Ids
  <2> QED BY <1>1, <1>2, <2>1, <2>2, Zenon DEF Distinct
<1>3. ASSUME Numbered(list), e.orderIndex = n PROVE Numbered(new)
  <2>1. ASSUME NEW k \in 1..(n + 1) PROVE new[k].orderIndex = k - 1
    <3>1. CASE k \in 1..n
      BY <1>1, <1>3, <3>1 DEF Numbered
    <3>2. CASE k = n + 1
      BY <1>1, <1>3, <3>2, SMT
    <3> QED BY <1>1, <3>1, <3>2, SMT
  <2> QED BY <1>1, <2>1 DEF Numbered
<1> QED BY <1>1, <1>2, <1>3 DEF new, n

LEMMA WithoutKeeps ==
  ASSUME NEW S, NEW list \in Seq(S), NEW id
  PROVE  /\ Without(list, id) \in Seq(S)
         /\ Distinct(list) => Distinct(Without(list, id))
         /\ Ascending(list) => Ascending(Without(list, id))
<1> DEFINE places == {i \in DOMAIN list : list[i].id # id}
           new == Without(list, id)
           N == Len(new)
<1>1. new = At(list, places) /\ places \in SUBSET DOMAIN list
  BY DEF Without
<1>2. new \in Seq(S) /\ N \in Nat /\ DOMAIN new = 1..N
  BY <1>1, AtIs, LenProperties
<1>3. PICK place \in [1..N -> places] :
        /\ \A n \in 1..N : new[n] = list[place[n]]
        /\ \A n, m \in 1..N : n < m => place[n] < place[m]
  <2> HIDE DEF places
  <2>1. \E place \in [1..Len(At(list, places)) -> places] :
          /\ \A n \in 1..Len(At(list, places)) : At(list, places)[n] = list[place[n]]
          /\ \A n, m \in 1..Len(At(list, places)) : n < m => place[n] < place[m]
    BY <1>1, AtOrder
  <2> QED BY <1>1, <2>1, Zenon
<1> HIDE DEF places, new, N
<1>4. \A n \in 1..N : place[n] \in DOMAIN list /\ place[n] \in Nat
  <2>1. DOMAIN list = 1..Len(list) /\ Len(list) \in Nat
    BY LenProperties
  <2> QED BY <1>1, <1>3, <2>1, SMT
<1>5. \A n, m \in 1..N : place[n] = place[m] => n = m
  <2> SUFFICES ASSUME NEW n \in 1..N, NEW m \in 1..N, place[n] = place[m], n # m PROVE FALSE
    OBVIOUS
  <2>1. n < m \/ m < n
    BY <1>2, SMT
  <2> QED BY <1>3, <1>4, <2>1, SMT
<1>6. place \in [1..N -> DOMAIN list]
  BY <1>3, <1>4
<1>7. Distinct(list) => Distinct(new)
  BY <1>2, <1>3, <1>5, <1>6, DrawnIsDistinct
<1>8. Ascending(list) => Ascending(new)
  BY <1>2, <1>3, <1>4 DEF Ascending
<1> QED BY <1>2, <1>7, <1>8 DEF new

(* Where each element of the moved list was.                               *)
Moved(n, from, to) ==
  [i \in 1..n |-> IF i = to THEN from
                  ELSE IF i < to THEN IF i < from THEN i ELSE i + 1
                  ELSE IF i - 1 < from THEN i - 1 ELSE i]

LEMMA MovedIs ==
  ASSUME NEW n \in Nat, NEW from \in 1..n, NEW to \in 1..n
  PROVE  /\ Moved(n, from, to) \in [1..n -> 1..n]
         /\ \A i, j \in 1..n : Moved(n, from, to)[i] = Moved(n, from, to)[j] => i = j
<1>1. ASSUME NEW i \in 1..n PROVE Moved(n, from, to)[i] \in 1..n
  BY SMT DEF Moved
<1>2. ASSUME NEW i \in 1..n, NEW j \in 1..n, Moved(n, from, to)[i] = Moved(n, from, to)[j]
      PROVE  i = j
  BY <1>2, SMT DEF Moved
<1>3. Moved(n, from, to) = [i \in 1..n |-> Moved(n, from, to)[i]]
  BY DEF Moved
<1> QED BY <1>1, <1>2, <1>3

LEMMA MoveToKeeps ==
  ASSUME NEW S, NEW list \in Seq(S), NEW from \in DOMAIN list, NEW to \in DOMAIN list
  PROVE  /\ MoveTo(list, from, to) \in Seq(S)
         /\ Distinct(list) => Distinct(MoveTo(list, from, to))
<1>1. PICK n : n = Len(list)
  OBVIOUS
<1>2. n \in Nat /\ DOMAIN list = 1..n /\ from \in 1..n /\ to \in 1..n /\ list[from] \in S
  BY <1>1, LenProperties, ElementOfSeq
<1>3. PICK rest : rest = RemoveAt(list, from)
  OBVIOUS
<1>4. /\ rest \in Seq(S) /\ DOMAIN rest = 1..(n - 1)
      /\ \A i \in 1..(n - 1) : rest[i] = IF i < from THEN list[i] ELSE list[i + 1]
  BY <1>1, <1>2, <1>3, RemoveAtIs
<1>5. Len(rest) + 1 = n
  <2>1. Len(rest) \in Nat /\ 1..Len(rest) = 1..(n - 1)
    BY <1>4, LenProperties
  <2>2. n - 1 \in Nat
    BY <1>2, SMT
  <2>3. Len(rest) = n - 1
    BY <2>1, <2>2, SMT
  <2> QED BY <1>2, <2>3, SMT
<1>6. PICK new : new = MoveTo(list, from, to)
  OBVIOUS
<1>7. /\ new \in Seq(S) /\ DOMAIN new = 1..n
      /\ \A i \in 1..n : new[i] = IF i < to THEN rest[i] ELSE IF i = to THEN list[from] ELSE rest[i - 1]
  <2>1. new = InsertAt(rest, to, list[from])
    BY <1>3, <1>6 DEF MoveTo
  <2>2. to \in 1..(Len(rest) + 1)
    BY <1>2, <1>5
  <2>3. ASSUME NEW e, e \in S, NEW k, k \in 1..(Len(rest) + 1)
        PROVE  /\ InsertAt(rest, k, e) \in Seq(S)
               /\ DOMAIN InsertAt(rest, k, e) = 1..(Len(rest) + 1)
               /\ \A i \in 1..(Len(rest) + 1) :
                    InsertAt(rest, k, e)[i]
                      = IF i < k THEN rest[i] ELSE IF i = k THEN e ELSE rest[i - 1]
    <3>1. rest \in Seq(S)
      BY <1>4
    <3> QED BY ONLY <2>3, <3>1, InsertAtIs
  <2> QED BY <1>2, <1>5, <2>1, <2>2, <2>3, Zenon
<1>8. ASSUME NEW i \in 1..n PROVE new[i] = list[Moved(n, from, to)[i]]
  BY <1>2, <1>4, <1>7, SMT DEF Moved
<1>9. /\ Moved(n, from, to) \in [1..n -> 1..n]
      /\ \A i, j \in 1..n : Moved(n, from, to)[i] = Moved(n, from, to)[j] => i = j
  BY <1>2, MovedIs
<1>10. ASSUME Distinct(list) PROVE Distinct(new)
  <2> SUFFICES ASSUME NEW i \in 1..n, NEW j \in 1..n, new[i].id = new[j].id PROVE i = j
    BY <1>7 DEF Distinct
  <2>1. Moved(n, from, to)[i] \in 1..n /\ Moved(n, from, to)[j] \in 1..n
    BY <1>9
  <2>2. Moved(n, from, to)[i] = Moved(n, from, to)[j]
    BY <1>2, <1>8, <1>10, <2>1 DEF Distinct
  <2> QED BY <1>9, <2>2
<1> QED BY <1>6, <1>7, <1>10

LEMMA ReindexedIs ==
  ASSUME NEW spots \in Seq(SpotItems)
  PROVE  /\ Reindexed(spots) \in Seq(SpotItems)
         /\ Numbered(Reindexed(spots)) /\ Ascending(Reindexed(spots))
         /\ Distinct(spots) => Distinct(Reindexed(spots))
<1> DEFINE n == Len(spots)
           new == Reindexed(spots)
<1>1. n \in Nat /\ DOMAIN spots = 1..n /\ \A i \in 1..n : spots[i] \in SpotItems
  BY LenProperties, ElementOfSeq
<1>2. DOMAIN new = 1..n /\ \A i \in 1..n : new[i] = [spots[i] EXCEPT !.orderIndex = i - 1]
  BY <1>1 DEF Reindexed
<1>3. ASSUME NEW i \in 1..n
      PROVE  new[i] \in SpotItems /\ new[i].id = spots[i].id /\ new[i].orderIndex = i - 1
  <2>1. i - 1 \in Nat
    BY <1>1, SMT
  <2> QED BY <1>1, <1>2, <2>1 DEF SpotItems
<1>4. new = [i \in 1..n |-> new[i]]
  BY <1>1 DEF Reindexed
<1> HIDE DEF new, n
<1>5. new \in Seq(SpotItems)
  <2>1. new \in [1..n -> SpotItems]
    BY <1>3, <1>4
  <2> QED BY <1>1, <2>1, SeqDef
<1>6. Numbered(new)
  BY <1>2, <1>3 DEF Numbered
<1>7. Ascending(new)
  BY <1>1, <1>2, <1>3, SMT DEF Ascending
<1>8. Distinct(spots) => Distinct(new)
  BY <1>1, <1>2, <1>3 DEF Distinct
<1> QED BY <1>5, <1>6, <1>7, <1>8 DEF new

(* The documents that a session of this host may show.                     *)
Fine == {new \in Documents : Ascending(new.spots) /\ (host # "form" => Tidy(new))}

LEMMA NumberedAscends ==
  ASSUME NEW spots \in Seq(SpotItems), Numbered(spots)
  PROVE  Ascending(spots)
<1>1. DOMAIN spots = 1..Len(spots) /\ Len(spots) \in Nat
  BY LenProperties
<1>2. \A i \in DOMAIN spots : spots[i].orderIndex = i - 1
  BY DEF Numbered
<1> SUFFICES ASSUME NEW i \in DOMAIN spots, NEW j \in DOMAIN spots, i < j
             PROVE  spots[i].orderIndex < spots[j].orderIndex
  BY DEF Ascending
<1>3. i - 1 < j - 1
  BY <1>1, SMT
<1> QED BY <1>2, <1>3

LEMMA FineIs ==
  ASSUME doc \in Fine
  PROVE  /\ doc \in Documents /\ doc.spots \in Seq(SpotItems) /\ doc.rewards \in Seq([id : Names])
         /\ Ascending(doc.spots)
         /\ host # "form" => Numbered(doc.spots) /\ Distinct(doc.spots) /\ Distinct(doc.rewards)
BY DEF Fine, Documents, Tidy

LEMMA SpotsFine ==
  ASSUME doc \in Fine, NEW spots \in Seq(SpotItems), Ascending(spots),
         host # "form" => Numbered(spots) /\ Distinct(spots)
  PROVE  [doc EXCEPT !.spots = spots] \in Fine
<1> DEFINE new == [doc EXCEPT !.spots = spots]
<1>1. new \in Documents /\ new.spots = spots /\ new.rewards = doc.rewards
  BY FineIs DEF Documents
<1> HIDE DEF new
<1>2. new \in Fine
  BY <1>1, FineIs DEF Fine, Tidy
<1> QED BY <1>2 DEF new

LEMMA RewardsFine ==
  ASSUME doc \in Fine, NEW rewards \in Seq([id : Names]),
         host # "form" => Distinct(rewards)
  PROVE  [doc EXCEPT !.rewards = rewards] \in Fine
<1> DEFINE new == [doc EXCEPT !.rewards = rewards]
<1>1. new \in Documents /\ new.spots = doc.spots /\ new.rewards = rewards
  BY FineIs DEF Documents
<1> HIDE DEF new
<1>2. new \in Fine
  BY <1>1, FineIs DEF Fine, Tidy
<1> QED BY <1>2 DEF new

LEMMA TextFine ==
  ASSUME NEW given \in Fine, NEW n \in Nat
  PROVE  [given EXCEPT !.text = n] \in Fine
<1> DEFINE new == [given EXCEPT !.text = n]
<1>1. given \in Documents /\ Ascending(given.spots) /\ (host # "form" => Tidy(given))
  BY DEF Fine
<1>2. new \in Documents /\ new.spots = given.spots /\ new.rewards = given.rewards
  BY <1>1 DEF Documents
<1> HIDE DEF new
<1>3. new \in Fine
  BY <1>1, <1>2 DEF Fine, Tidy
<1> QED BY <1>3 DEF new

LEMMA NewName ==
  ASSUME NEW S, NEW list \in Seq(S), NEW prefix \in {"spot", "spot-copy", "reward", "reward-copy"}
  PROVE  NextEntityId(prefix, Ids(list)) \in Names \ Ids(list)
<1>1. PICK n \in Nat : /\ NextEntityId(prefix, Ids(list)) = <<prefix, n>>
                       /\ <<prefix, n>> \notin Ids(list)
  BY IdsAre, NextEntityIdIsFree
<1>2. <<prefix, n>> \in Names
  BY DEF Names
<1> QED BY <1>1, <1>2

LEMMA IdsAreNames ==
  ASSUME doc \in Fine
  PROVE  Ids(doc.spots) \subseteq Names
<1>1. DOMAIN doc.spots = 1..Len(doc.spots) /\ \A i \in 1..Len(doc.spots) : doc.spots[i] \in SpotItems
  BY FineIs, LenProperties, ElementOfSeq
<1> QED BY <1>1 DEF Ids, SpotItems

LEMMA ToggledIs ==
  ASSUME NEW spot \in SpotItems, NEW other \in Names
  PROVE  /\ Toggled(spot, other) \in SpotItems
         /\ Toggled(spot, other).id = spot.id /\ Toggled(spot, other).orderIndex = spot.orderIndex
BY DEF Toggled, SpotItems

FineEdit == \E new \in Fine : Commit(new) \/ FormEdit(new)

LEMMA DocIs ==
  ASSUME doc \in Fine
  PROVE  /\ Len(doc.spots) \in Nat /\ DOMAIN doc.spots = 1..Len(doc.spots)
         /\ \A i \in DOMAIN doc.spots : doc.spots[i] \in SpotItems
         /\ Len(doc.rewards) \in Nat /\ DOMAIN doc.rewards = 1..Len(doc.rewards)
  BY FineIs, LenProperties, ElementOfSeq

LEMMA AddSpotFine ==
  ASSUME doc \in Fine, AddSpot
  PROVE  FineEdit
<1>1. PICK spot : spot = [id |-> NextEntityId("spot", Ids(doc.spots)),
                          orderIndex |-> Len(doc.spots), prerequisites |-> {}]
  OBVIOUS
<1>2. NextEntityId("spot", Ids(doc.spots)) \in Names \ Ids(doc.spots)
  BY FineIs, NewName
<1>3. spot \in SpotItems /\ spot.id \notin Ids(doc.spots) /\ spot.orderIndex = Len(doc.spots)
  BY <1>1, <1>2, DocIs DEF SpotItems
<1>4. Commit([doc EXCEPT !.spots = Append(doc.spots, spot)])
  BY <1>1, Zenon DEF AddSpot
<1>5. host # "form"
  BY <1>4 DEF Commit
<1>6. /\ Append(doc.spots, spot) \in Seq(SpotItems)
      /\ Numbered(Append(doc.spots, spot)) /\ Distinct(Append(doc.spots, spot))
  BY <1>3, <1>5, FineIs, AppendKeeps
<1>7. Ascending(Append(doc.spots, spot))
  BY <1>6, NumberedAscends
<1> QED BY <1>4, <1>6, <1>7, SpotsFine DEF FineEdit

LEMMA DuplicateSpotFine ==
  ASSUME doc \in Fine, DuplicateSpot
  PROVE  FineEdit
<1>1. PICK i \in DOMAIN doc.spots :
        Commit([doc EXCEPT !.spots =
          Append(@, [doc.spots[i] EXCEPT !.id = NextEntityId("spot-copy", Ids(doc.spots)),
                                         !.orderIndex = Len(doc.spots)])])
  BY Zenon DEF DuplicateSpot
<1>2. PICK copy : copy = [doc.spots[i] EXCEPT !.id = NextEntityId("spot-copy", Ids(doc.spots)),
                                             !.orderIndex = Len(doc.spots)]
  OBVIOUS
<1>3. NextEntityId("spot-copy", Ids(doc.spots)) \in Names \ Ids(doc.spots)
  BY FineIs, NewName
<1>4. doc.spots[i] \in SpotItems /\ Len(doc.spots) \in Nat
  BY DocIs
<1>5. copy \in SpotItems /\ copy.id \notin Ids(doc.spots) /\ copy.orderIndex = Len(doc.spots)
  BY <1>2, <1>3, <1>4 DEF SpotItems
<1>6. Commit([doc EXCEPT !.spots = Append(doc.spots, copy)])
  BY <1>1, <1>2, Zenon
<1>7. host # "form"
  BY <1>6 DEF Commit
<1>8. /\ Append(doc.spots, copy) \in Seq(SpotItems)
      /\ Numbered(Append(doc.spots, copy)) /\ Distinct(Append(doc.spots, copy))
  BY <1>5, <1>7, FineIs, AppendKeeps
<1>9. Ascending(Append(doc.spots, copy))
  BY <1>8, NumberedAscends
<1> QED BY <1>6, <1>8, <1>9, SpotsFine DEF FineEdit

(* The edits that give the spots their places anew.                        *)
LEMMA ReindexedFine ==
  ASSUME doc \in Fine, NEW spots \in Seq(SpotItems), host # "form" => Distinct(spots)
  PROVE  [doc EXCEPT !.spots = Reindexed(spots)] \in Fine
  BY ReindexedIs, SpotsFine

LEMMA FormSpotsFine ==
  ASSUME doc \in Fine, NEW spots \in Seq(SpotItems), FormSpots(spots)
  PROVE  FineEdit
<1>1. FormEdit([doc EXCEPT !.spots = Reindexed(spots)])
  BY DEF FormSpots
<1>2. host = "form"
  BY <1>1 DEF FormEdit
<1> QED BY <1>1, <1>2, ReindexedFine DEF FineEdit

LEMMA RemoveSpotFine ==
  ASSUME doc \in Fine, RemoveSpot \/ FormRemoveSpot
  PROVE  FineEdit
<1>1. ASSUME NEW id
      PROVE  /\ Without(doc.spots, id) \in Seq(SpotItems)
             /\ host # "form" => Distinct(Without(doc.spots, id))
  BY FineIs, WithoutKeeps
<1>2. CASE RemoveSpot
  <2>1. PICK id \in Ids(doc.spots) : Commit([doc EXCEPT !.spots = Reindexed(Without(doc.spots, id))])
    BY <1>2, Zenon DEF RemoveSpot
  <2> QED BY <1>1, <2>1, ReindexedFine DEF FineEdit
<1>3. CASE FormRemoveSpot
  BY <1>1, <1>3, FormSpotsFine DEF FormRemoveSpot
<1> QED BY <1>2, <1>3

LEMMA ReorderSpotsFine ==
  ASSUME doc \in Fine, ReorderSpots \/ FormMoveSpot
  PROVE  FineEdit
<1>1. ASSUME NEW from \in DOMAIN doc.spots, NEW to \in DOMAIN doc.spots
      PROVE  /\ MoveTo(doc.spots, from, to) \in Seq(SpotItems)
             /\ host # "form" => Distinct(MoveTo(doc.spots, from, to))
  BY FineIs, MoveToKeeps
<1>2. CASE ReorderSpots
  <2>1. PICK from \in DOMAIN doc.spots, to \in DOMAIN doc.spots :
          Commit([doc EXCEPT !.spots = Reindexed(MoveTo(doc.spots, from, to))])
    BY <1>2, Zenon DEF ReorderSpots
  <2> QED BY <1>1, <2>1, ReindexedFine DEF FineEdit
<1>3. CASE FormMoveSpot
  <2>1. PICK i \in DOMAIN doc.spots, target \in DOMAIN doc.spots :
          FormSpots(MoveTo(doc.spots, i, target))
    BY <1>3 DEF FormMoveSpot
  <2> QED BY <1>1, <2>1, FormSpotsFine
<1> QED BY <1>2, <1>3

LEMMA UpdateSpotFine ==
  ASSUME doc \in Fine, UpdateSpot
  PROVE  FineEdit
<1>1. PICK i \in DOMAIN doc.spots, other \in Ids(doc.spots) :
        Commit([doc EXCEPT !.spots[i] = Toggled(@, other)])
  BY Zenon DEF UpdateSpot
<1>2. PICK spots : spots = [doc.spots EXCEPT ![i] = Toggled(doc.spots[i], other)]
  OBVIOUS
<1>3. Commit([doc EXCEPT !.spots = spots])
  <2>1. [doc EXCEPT !.spots[i] = Toggled(@, other)] = [doc EXCEPT !.spots = spots]
    BY <1>2
  <2> QED BY <1>1, <2>1, Zenon
<1>4. /\ Toggled(doc.spots[i], other) \in SpotItems
      /\ Toggled(doc.spots[i], other).id = doc.spots[i].id
      /\ Toggled(doc.spots[i], other).orderIndex = doc.spots[i].orderIndex
  BY DocIs, IdsAreNames, ToggledIs
<1>5. /\ spots \in Seq(SpotItems) /\ DOMAIN spots = DOMAIN doc.spots
      /\ \A j \in DOMAIN doc.spots : spots[j] = IF j = i THEN Toggled(doc.spots[i], other)
                                                ELSE doc.spots[j]
  BY <1>2, <1>4, FineIs, ExceptSeq
<1>6. \A j \in DOMAIN doc.spots : /\ spots[j].id = doc.spots[j].id
                                /\ spots[j].orderIndex = doc.spots[j].orderIndex
  BY <1>4, <1>5
<1>7. Ascending(spots)
  BY <1>5, <1>6, FineIs DEF Ascending
<1>8. host # "form" => Numbered(spots) /\ Distinct(spots)
  BY <1>5, <1>6, FineIs DEF Numbered, Distinct
<1> QED BY <1>3, <1>5, <1>7, <1>8, SpotsFine DEF FineEdit

LEMMA FormSpotEditsFine ==
  ASSUME doc \in Fine, FormAddSpot \/ FormChangeSpot \/ FocusedRemoveSpot
  PROVE  FineEdit
<1>1. CASE FormAddSpot
  <2>1. PICK spot : spot = [id |-> <<"spot", Len(doc.spots) + 1>>,
                            orderIndex |-> Len(doc.spots), prerequisites |-> {}]
    OBVIOUS
  <2>2. <<"spot", Len(doc.spots) + 1>> \in Names
    <3>1. Len(doc.spots) + 1 \in Nat
      BY DocIs
    <3> QED BY <3>1 DEF Names
  <2>3. spot \in SpotItems
    BY <2>1, <2>2, DocIs DEF SpotItems
  <2>4. Append(doc.spots, spot) \in Seq(SpotItems)
    BY <2>3, FineIs, AppendKeeps
  <2>5. FormSpots(Append(doc.spots, spot))
    BY <1>1, <2>1, Zenon DEF FormAddSpot
  <2> QED BY <2>4, <2>5, FormSpotsFine
<1>2. CASE FormChangeSpot
  <2>1. PICK i \in DOMAIN doc.spots, other \in Ids(doc.spots) :
          FormSpots([k \in DOMAIN doc.spots |->
                       IF doc.spots[k].id = Toggled(doc.spots[i], other).id
                         THEN Toggled(doc.spots[i], other) ELSE doc.spots[k]])
    BY <1>2, Zenon DEF FormChangeSpot
  <2>2. Toggled(doc.spots[i], other) \in SpotItems
    BY DocIs, IdsAreNames, ToggledIs
  <2>3. [k \in DOMAIN doc.spots |-> IF doc.spots[k].id = Toggled(doc.spots[i], other).id
                                      THEN Toggled(doc.spots[i], other) ELSE doc.spots[k]]
          \in [1..Len(doc.spots) -> SpotItems]
    BY <2>2, DocIs
  <2>4. \A spots \in [1..Len(doc.spots) -> SpotItems] : spots \in Seq(SpotItems)
    BY DocIs, SeqDef
  <2> QED BY <2>1, <2>3, <2>4, FormSpotsFine
<1>3. CASE FocusedRemoveSpot
  <2>1. PICK id \in Ids(doc.spots) : FormEdit([doc EXCEPT !.spots = Without(doc.spots, id)])
    BY <1>3, Zenon DEF FocusedRemoveSpot
  <2>2. host = "form"
    BY <2>1 DEF FormEdit
  <2>3. Without(doc.spots, id) \in Seq(SpotItems) /\ Ascending(Without(doc.spots, id))
    BY FineIs, WithoutKeeps
  <2> QED BY <2>1, <2>2, <2>3, SpotsFine DEF FineEdit
<1> QED BY <1>1, <1>2, <1>3

LEMMA AddRewardsFine ==
  ASSUME doc \in Fine, AddReward \/ DuplicateReward \/ FormAddReward
  PROVE  FineEdit
<1>1. ASSUME NEW id \in Names, host # "form" => id \notin Ids(doc.rewards)
      PROVE  [doc EXCEPT !.rewards = Append(doc.rewards, [id |-> id])] \in Fine
  <2>1. PICK reward : reward = [id |-> id]
    OBVIOUS
  <2>2. reward \in [id : Names] /\ reward.id = id
    BY <2>1
  <2>3. Append(doc.rewards, reward) \in Seq([id : Names])
    BY <2>2, FineIs, AppendKeeps
  <2>4. host # "form" => Distinct(Append(doc.rewards, reward))
    BY <1>1, <2>2, FineIs, AppendKeeps
  <2> QED BY <2>1, <2>3, <2>4, RewardsFine
<1>2. \A prefix \in {"reward", "reward-copy"} :
        NextEntityId(prefix, Ids(doc.rewards)) \in Names \ Ids(doc.rewards)
  BY FineIs, NewName
<1>3. CASE AddReward
  <2>1. Commit([doc EXCEPT !.rewards =
                  Append(doc.rewards, [id |-> NextEntityId("reward", Ids(doc.rewards))])])
    BY <1>3, Zenon DEF AddReward
  <2> QED BY <1>1, <1>2, <2>1 DEF FineEdit
<1>4. CASE DuplicateReward
  <2>1. Commit([doc EXCEPT !.rewards =
                  Append(doc.rewards, [id |-> NextEntityId("reward-copy", Ids(doc.rewards))])])
    BY <1>4, Zenon DEF DuplicateReward
  <2> QED BY <1>1, <1>2, <2>1 DEF FineEdit
<1>5. CASE FormAddReward
  <2>1. FormEdit([doc EXCEPT !.rewards =
                    Append(doc.rewards, [id |-> <<"reward", Len(doc.rewards) + 1>>])])
    BY <1>5, Zenon DEF FormAddReward
  <2>2. host = "form"
    BY <2>1 DEF FormEdit
  <2>3. <<"reward", Len(doc.rewards) + 1>> \in Names
    <3>1. Len(doc.rewards) + 1 \in Nat
      BY DocIs
    <3> QED BY <3>1 DEF Names
  <2> QED BY <1>1, <2>1, <2>2, <2>3 DEF FineEdit
<1> QED BY <1>3, <1>4, <1>5

LEMMA RemoveRewardsFine ==
  ASSUME doc \in Fine, RemoveReward \/ FormRemoveReward \/ FocusedRemoveReward
  PROVE  FineEdit
<1>1. ASSUME NEW id
      PROVE  [doc EXCEPT !.rewards = Without(doc.rewards, id)] \in Fine
  <2>1. Without(doc.rewards, id) \in Seq([id : Names])
    BY FineIs, WithoutKeeps
  <2>2. host # "form" => Distinct(Without(doc.rewards, id))
    BY FineIs, WithoutKeeps
  <2> QED BY <2>1, <2>2, RewardsFine
<1>2. CASE RemoveReward
  <2>1. PICK id \in Ids(doc.rewards) : Commit([doc EXCEPT !.rewards = Without(doc.rewards, id)])
    BY <1>2, Zenon DEF RemoveReward
  <2> QED BY <1>1, <2>1 DEF FineEdit
<1>3. CASE FormRemoveReward
  <2>1. PICK id \in Ids(doc.rewards) : FormEdit([doc EXCEPT !.rewards = Without(doc.rewards, id)])
    BY <1>3, Zenon DEF FormRemoveReward
  <2> QED BY <1>1, <2>1 DEF FineEdit
<1>4. CASE FocusedRemoveReward
  <2>1. PICK id \in Ids(doc.rewards) : FormEdit([doc EXCEPT !.rewards = Without(doc.rewards, id)])
    BY <1>4, Zenon DEF FocusedRemoveReward
  <2> QED BY <1>1, <2>1 DEF FineEdit
<1> QED BY <1>2, <1>3, <1>4

LEMMA MoveRewardsFine ==
  ASSUME doc \in Fine, ReorderRewards \/ FormMoveReward
  PROVE  FineEdit
<1>1. ASSUME NEW from \in DOMAIN doc.rewards, NEW to \in DOMAIN doc.rewards
      PROVE  [doc EXCEPT !.rewards = MoveTo(doc.rewards, from, to)] \in Fine
  <2>1. MoveTo(doc.rewards, from, to) \in Seq([id : Names])
    BY FineIs, MoveToKeeps
  <2>2. host # "form" => Distinct(MoveTo(doc.rewards, from, to))
    BY FineIs, MoveToKeeps
  <2> QED BY <2>1, <2>2, RewardsFine
<1>2. CASE ReorderRewards
  <2>1. PICK from \in DOMAIN doc.rewards, to \in DOMAIN doc.rewards :
          Commit([doc EXCEPT !.rewards = MoveTo(doc.rewards, from, to)])
    BY <1>2, Zenon DEF ReorderRewards
  <2> QED BY <1>1, <2>1 DEF FineEdit
<1>3. CASE FormMoveReward
  <2>1. PICK i \in DOMAIN doc.rewards, target \in DOMAIN doc.rewards :
          FormEdit([doc EXCEPT !.rewards = MoveTo(doc.rewards, i, target)])
    BY <1>3, Zenon DEF FormMoveReward
  <2> QED BY <1>1, <2>1 DEF FineEdit
<1> QED BY <1>2, <1>3

LEMMA TextsFine ==
  ASSUME doc \in Fine, Original \in Fine, made \in Nat, UpdateText \/ FormUpdateText \/ FormImport
  PROVE  FineEdit
<1>1. made + 1 \in Nat
  BY SMT
<1>2. [doc EXCEPT !.text = made + 1] \in Fine /\ [Original EXCEPT !.text = made + 1] \in Fine
  BY <1>1, TextFine
<1>3. CASE UpdateText
  BY <1>2, <1>3 DEF UpdateText, FineEdit
<1>4. CASE FormUpdateText
  BY <1>2, <1>4 DEF FormUpdateText, FineEdit
<1>5. CASE FormImport
  BY <1>2, <1>5 DEF FormImport, FineEdit
<1> QED BY <1>3, <1>4, <1>5

LEMMA EditsAreFine ==
  ASSUME doc \in Fine, Original \in Fine, made \in Nat, StructuralEdit \/ UpdateText
  PROVE  FineEdit
  BY AddSpotFine, DuplicateSpotFine, RemoveSpotFine, ReorderSpotsFine, UpdateSpotFine,
     FormSpotEditsFine, AddRewardsFine, RemoveRewardsFine, MoveRewardsFine, TextsFine
     DEF StructuralEdit

(* What the user has seen, undone or was handed is fine.                   *)
FineVersions == [object : Nat, doc : Fine]

EntityInv ==
  /\ made \in Nat
  /\ Original \in Fine
  /\ prop \in FineVersions /\ base \in FineVersions
  /\ letters \in Seq(FineVersions)
  /\ draft \in [past : Seq(FineVersions), present : FineVersions, future : Seq(FineVersions)]

LEMMA VersionFine ==
  ASSUME made \in Nat, NEW new \in Fine
  PROVE  Version(new) \in FineVersions
  BY DEF Version, FineVersions

LEMMA FreshFine ==
  ASSUME NEW version \in FineVersions
  PROVE  Fresh(version) \in [past : Seq(FineVersions), present : FineVersions,
                             future : Seq(FineVersions)]
<1>1. <<>> \in Seq(FineVersions)
  OBVIOUS
<1> QED BY <1>1 DEF Fresh

LEMMA FrontIs ==
  ASSUME NEW S, NEW s \in Seq(S), s # <<>>
  PROVE  Front(s) \in Seq(S) /\ Last(s) \in S
<1>1. Len(s) \in Nat \ {0} /\ DOMAIN s = 1..Len(s)
  BY EmptySeq, LenProperties
<1>2. Len(s) \in 1..Len(s)
  BY <1>1, SMT
<1> QED BY <1>1, <1>2, ElementOfSeq, SMT DEF Front, Last

(* The hook's ids stay distinct, and orderIndex keeps to the position: for *)
(* a document that starts so, every document a session can come to show,   *)
(* also by undo, redo, reset or a host's answer, is one of them (the edits *)
(* of useAdminRallyEditor and AdminRallyEditor, nextEntityId, moveTo).     *)
THEOREM EntitiesStayDistinct ==
  ASSUME Tidy(Original)
  PROVE  EditorInit /\ [][EditorNext]_editorVars => []EntitiesDistinct
<1>1. EditorInit => EntityInv
  <2> SUFFICES ASSUME EditorInit PROVE EntityInv
    OBVIOUS
  <2>1. Original \in Fine
    <3>1. Original \in Documents /\ Original.spots \in Seq(SpotItems)
      BY OriginalAssumption DEF Documents
    <3>2. Ascending(Original.spots)
      BY <3>1, NumberedAscends DEF Tidy
    <3> QED BY <3>1, <3>2 DEF Fine
  <2>2. [object |-> 0, doc |-> Original] \in FineVersions
    BY <2>1 DEF FineVersions
  <2>3. <<>> \in Seq(FineVersions)
    OBVIOUS
  <2> QED BY <2>1, <2>2, <2>3, FreshFine DEF EditorInit, EntityInv
<1>2. ASSUME EntityInv, [EditorNext]_editorVars
      PROVE  EntityInv'
  <2>1. /\ made \in Nat /\ Original \in Fine /\ prop \in FineVersions /\ base \in FineVersions
        /\ letters \in Seq(FineVersions)
        /\ draft \in [past : Seq(FineVersions), present : FineVersions, future : Seq(FineVersions)]
    BY <1>2 DEF EntityInv
  <2>2. doc \in Fine /\ draft.present \in FineVersions
    BY <2>1 DEF doc, FineVersions
  <2>3. made + 1 \in Nat
    BY <2>1, SMT
  <2>4. ASSUME host' = host PROVE Fine' = Fine /\ FineVersions' = FineVersions
    BY <2>4 DEF Fine, FineVersions
  <2>5. CASE RunEffects
    <3>1. host' = host /\ prop' = prop /\ made' = made
      BY <2>5 DEF RunEffects
    <3>2. draft' \in {draft, Fresh(prop)} /\ base' \in {base, prop}
      BY <2>5 DEF RunEffects
    <3>3. letters' \in {letters, Append(letters, draft.present)}
      BY <2>5 DEF RunEffects
    <3>4. Append(letters, draft.present) \in Seq(FineVersions)
      BY <2>1, <2>2, AppendProperties
    <3> QED BY <2>1, <2>4, <3>1, <3>2, <3>3, <3>4, FreshFine DEF EntityInv
  <2>6. CASE HostAnswers
    <3>1. /\ letters # <<>> /\ letters' = Tail(letters) /\ host' = host /\ base' = base
          /\ draft' = draft /\ made' \in {made, made + 1}
          /\ prop' \in {Head(letters), Version(Head(letters).doc)}
      BY <2>6 DEF HostAnswers
    <3>2. Head(letters) \in FineVersions /\ Tail(letters) \in Seq(FineVersions)
      BY <2>1, <3>1, HeadIs
    <3>3. Version(Head(letters).doc) \in FineVersions
      BY <2>1, <3>2, VersionFine DEF FineVersions
    <3> QED BY <2>1, <2>3, <2>4, <3>1, <3>2, <3>3 DEF EntityInv
  <2>7. CASE HostReplaces
    <3>1. /\ host' = host /\ letters' = letters /\ draft' = draft /\ base' = base
          /\ made' = made + 1 /\ prop' = Version([Original EXCEPT !.text = made + 1])
      BY <2>7 DEF HostReplaces
    <3>2. Version([Original EXCEPT !.text = made + 1]) \in FineVersions
      BY <2>1, <2>3, TextFine, VersionFine
    <3> QED BY <2>1, <2>3, <2>4, <3>1, <3>2 DEF EntityInv
  <2>8. CASE StructuralEdit \/ UpdateText
    <3>1. PICK new \in Fine : Commit(new) \/ FormEdit(new)
      BY <2>1, <2>2, <2>8, EditsAreFine DEF FineEdit
    <3>2. Version(new) \in FineVersions
      BY <2>1, VersionFine
    <3>3. CASE Commit(new)
      <4>1. /\ host' = host /\ letters' = letters /\ prop' = prop /\ base' = base
            /\ made' = made + 1
            /\ draft' = [past |-> Append(draft.past, draft.present), present |-> Version(new),
                         future |-> <<>>]
        BY <3>3 DEF Commit
      <4>2. Append(draft.past, draft.present) \in Seq(FineVersions) /\ <<>> \in Seq(FineVersions)
        BY <2>1, AppendProperties
      <4> QED BY <2>1, <2>3, <2>4, <3>2, <4>1, <4>2 DEF EntityInv
    <3>4. CASE FormEdit(new)
      <4>1. /\ host' = host /\ letters' = letters /\ prop' = Version(new) /\ base' = base
            /\ made' = made + 1 /\ draft' = Fresh(Version(new))
        BY <3>4 DEF FormEdit
      <4> QED BY <2>1, <2>3, <2>4, <3>2, <4>1, FreshFine DEF EntityInv
    <3> QED BY <3>1, <3>3, <3>4
  <2>9. CASE Undo
    <3>1. /\ host' = host /\ letters' = letters /\ prop' = prop /\ base' = base /\ made' = made
          /\ draft.past # <<>>
          /\ draft' = [past |-> Front(draft.past), present |-> Last(draft.past),
                       future |-> <<draft.present>> \o draft.future]
      BY <2>9 DEF Undo
    <3>2. Front(draft.past) \in Seq(FineVersions) /\ Last(draft.past) \in FineVersions
      BY <2>1, <3>1, FrontIs
    <3>3. <<draft.present>> \in Seq(FineVersions) /\ draft.future \in Seq(FineVersions)
      BY <2>1
    <3>4. <<draft.present>> \o draft.future \in Seq(FineVersions)
      BY <3>3, ConcatIs
    <3> QED BY <2>1, <2>4, <3>1, <3>2, <3>4 DEF EntityInv
  <2>10. CASE Redo
    <3>1. /\ host' = host /\ letters' = letters /\ prop' = prop /\ base' = base /\ made' = made
          /\ draft.future # <<>>
          /\ draft' = [past |-> Append(draft.past, draft.present), present |-> Head(draft.future),
                       future |-> Tail(draft.future)]
      BY <2>10 DEF Redo
    <3>2. Head(draft.future) \in FineVersions /\ Tail(draft.future) \in Seq(FineVersions)
      BY <2>1, <3>1, HeadIs
    <3>3. Append(draft.past, draft.present) \in Seq(FineVersions)
      BY <2>1, AppendProperties
    <3> QED BY <2>1, <2>4, <3>1, <3>2, <3>3 DEF EntityInv
  <2>11. ASSUME NEW version \in FineVersions, Reset(version), made' \in Nat
         PROVE  EntityInv'
    <3>1. /\ host' = host /\ base' = version /\ draft' = Fresh(version)
          /\ prop' \in {prop, version} /\ letters' \in {letters, Append(letters, version)}
      BY <2>11 DEF Reset
    <3>2. Append(letters, version) \in Seq(FineVersions)
      BY <2>1, <2>11, AppendProperties
    <3> QED BY <2>1, <2>4, <2>11, <3>1, <3>2, FreshFine DEF EntityInv
  <2>12. CASE ResetConfig
    <3>1. /\ Reset(Version([Original EXCEPT !.text = made + 1])) /\ made' = made + 1
      BY <2>12 DEF ResetConfig
    <3>2. Version([Original EXCEPT !.text = made + 1]) \in FineVersions
      BY <2>1, <2>3, TextFine, VersionFine
    <3> QED BY <2>3, <2>11, <3>1, <3>2
  <2>13. CASE ResetToBase
    BY <2>1, <2>11, <2>13 DEF ResetToBase
  <2>14. CASE UNCHANGED editorVars
    BY <2>1, <2>4, <2>14 DEF editorVars, EntityInv
  <2> QED
    BY <1>2, <2>5, <2>6, <2>7, <2>8, <2>9, <2>10, <2>12, <2>13, <2>14 DEF EditorNext
<1>3. EntityInv => EntitiesDistinct
  <2> SUFFICES ASSUME EntityInv PROVE EntitiesDistinct
    OBVIOUS
  <2>1. doc \in Fine
    BY DEF EntityInv, doc, FineVersions
  <2> QED BY <2>1, FineIs, IdsAre DEF EntitiesDistinct
<1> QED BY <1>1, <1>2, <1>3, PTL

-----------------------------------------------------------------------------
(* The publication of a configuration.                                     *)

Entities == {"config", "theme", "spot", "location", "reference", "condition", "reward", "unlock"}

(* A document of any kinds of fields, of which only the condition's type   *)
(* is known.                                                               *)
Document(given) ==
  /\ DOMAIN given = Entities
  /\ \A entity \in Entities \ {"condition"} :
       given[entity] \in [DOMAIN FieldsOf(entity, given, FALSE) -> Kinds]
  /\ DOMAIN given["condition"] = DOMAIN AnyCondition
  /\ given["condition"].type \in ConditionTypes
  /\ \A key \in DOMAIN AnyCondition \ {"type"} : given["condition"][key] \in Kinds

(* What is left of a field.                                                *)
Left(given, entity, key) ==
  IF IsPrivateKey(key) \/ ~Kept(entity, key, given) THEN "absent"
  ELSE SanitizeValue(IF /\ entity = "config" /\ key = "metadata"
                        /\ given["config"].publicMetadata \notin Missing
                     THEN given["config"].publicMetadata ELSE given[entity][key])

LEMMA FieldIs ==
  ASSUME NEW given, NEW entity \in DOMAIN given, NEW key \in DOMAIN given[entity]
  PROVE  SanitizeAdminConfig(given)[entity][key] = Left(given, entity, key)
BY DEF SanitizeAdminConfig, Sanitize, ToPublicConfig, Left, SanitizeValue, Maps, Missing

LEMMA ShapeStays ==
  ASSUME NEW given
  PROVE  /\ DOMAIN SanitizeAdminConfig(given) = DOMAIN given
         /\ \A entity \in DOMAIN given : DOMAIN SanitizeAdminConfig(given)[entity] = DOMAIN given[entity]
BY DEF SanitizeAdminConfig, Sanitize, ToPublicConfig

LEMMA ValueIs ==
  ASSUME NEW kind \in Kinds
  PROVE  /\ SanitizeValue(kind) \in Kinds
         /\ SanitizeValue(kind) \notin {"undefined", "mapWithToken", "mapWithPassword"}
         /\ kind \notin Maps \union {"undefined"} => SanitizeValue(kind) = kind
         /\ kind \in Maps => SanitizeValue(kind) = "map"
         /\ kind = "undefined" => SanitizeValue(kind) = "absent"
BY DEF Kinds, SanitizeValue, Maps, Missing, Strings, Numbers

(* A field of a document, but for those of the condition.                  *)
LEMMA FieldOf ==
  ASSUME NEW given, Document(given), NEW entity \in Entities \ {"condition"},
         NEW key \in DOMAIN FieldsOf(entity, given, FALSE)
  PROVE  entity \in DOMAIN given /\ key \in DOMAIN given[entity] /\ given[entity][key] \in Kinds
<1>1. DOMAIN given = Entities /\ given[entity] \in [DOMAIN FieldsOf(entity, given, FALSE) -> Kinds]
  BY DEF Document
<1> QED BY <1>1

LEMMA PartFields ==
  ASSUME NEW given
  PROVE  /\ "theme" \in DOMAIN FieldsOf("config", given, FALSE)
         /\ {"location", "externalReferences"} \subseteq DOMAIN FieldsOf("spot", given, FALSE)
         /\ "conditions" \in DOMAIN FieldsOf("reward", given, FALSE)
BY DEF FieldsOf, ConfigFields, SpotFields, RewardFields

(* The fields a parser looks at, after the organizer's accepted them.      *)
LEMMA PublishedPart ==
  ASSUME NEW given, Document(given), Validate(given, FALSE),
         NEW entity \in Entities, Part(entity, SanitizeAdminConfig(given))
  PROVE  /\ Part(entity, given)
         /\ \A key \in DOMAIN FieldsOf(entity, given, FALSE) :
              given[entity][key] \in FieldsOf(entity, given, FALSE)[key]
<1> DEFINE new == SanitizeAdminConfig(given)
<1>1. DOMAIN given = Entities
  BY DEF Document
<1>2. Part("theme", new) => Part("theme", given)
  <2>1. "config" \in DOMAIN given /\ "theme" \in DOMAIN given["config"]
        /\ given["config"].theme \in Kinds
    BY FieldOf, PartFields DEF Entities
  <2>2. new["config"].theme = SanitizeValue(given["config"].theme)
    BY <1>1, <2>1, FieldIs DEF Left, IsPrivateKey, PrivateKeys, Kept, Published
  <2> QED BY <2>1, <2>2, ValueIs DEF Part, Maps
<1>3. (Part("location", new) => Part("location", given))
      /\ (Part("reference", new) => Part("reference", given))
  <2>1. /\ "spot" \in DOMAIN given
        /\ {"location", "externalReferences"} \subseteq DOMAIN given["spot"]
        /\ given["spot"].location \in Kinds /\ given["spot"].externalReferences \in Kinds
    BY FieldOf, PartFields DEF Entities
  <2>2. /\ new["spot"].location = SanitizeValue(given["spot"].location)
        /\ new["spot"].externalReferences = SanitizeValue(given["spot"].externalReferences)
    BY <1>1, <2>1, FieldIs DEF Left, IsPrivateKey, PrivateKeys, Kept
  <2> QED BY <2>1, <2>2, ValueIs DEF Part, Maps
<1>4. Part("unlock", new) => Part("unlock", given)
  <2>1. "reward" \in DOMAIN given /\ "conditions" \in DOMAIN given["reward"]
        /\ given["reward"].conditions \in Kinds
    BY FieldOf, PartFields DEF Entities
  <2>2. new["reward"].conditions = SanitizeValue(given["reward"].conditions)
    BY <1>1, <2>1, FieldIs DEF Left, IsPrivateKey, PrivateKeys, Kept
  <2> QED BY <2>1, <2>2, ValueIs DEF Part, Maps
<1>5. Part(entity, given)
  BY <1>2, <1>3, <1>4 DEF Part, Entities
<1> QED BY <1>1, <1>5 DEF Validate

(* Where nothing is taken out but what is private.                         *)
LEMMA OnlyPrivateGoes ==
  ASSUME NEW given, Document(given), NEW entity \in {"theme", "spot", "location", "reference", "unlock"},
         NEW key \in DOMAIN FieldsOf(entity, given, FALSE)
  PROVE  /\ given[entity][key] \in Kinds
         /\ SanitizeAdminConfig(given)[entity][key] =
              IF IsPrivateKey(key) THEN "absent" ELSE SanitizeValue(given[entity][key])
<1>1. entity \in Entities \ {"condition"} /\ entity \in DOMAIN given /\ key \in DOMAIN given[entity]
      /\ given[entity][key] \in Kinds
  BY FieldOf DEF Entities
<1> QED BY <1>1, FieldIs DEF Left, Kept

LEMMA StillAccepted ==
  ASSUME NEW given, Document(given),
         NEW kinds \in {ThemeFields, SpotFields, LocationFields, ReferenceFields, UnlockFields},
         NEW key \in DOMAIN kinds, NEW kind \in kinds[key], kind \in Kinds
  PROVE  (IF IsPrivateKey(key) THEN "absent" ELSE SanitizeValue(kind)) \in kinds[key]
<1>1. CASE kinds = ThemeFields
  <2>1. key \in {"primaryColor", "backgroundColor", "slotShape", "gridColumns", "unclaimedOpacity", "password"}
    BY <1>1 DEF ThemeFields
  <2> QED BY <1>1, <2>1, ValueIs DEF ThemeFields, RequiredString, OptionalString, IsPrivateKey,
             PrivateKeys, Missing, Strings, Maps, Anything, Kinds
<1>2. CASE kinds = SpotFields
  <2>1. key \in {"id", "orderIndex", "name", "description", "imageUrl", "location", "conditions",
                 "externalReferences", "metadata", "password", "staffPasscode"}
    BY <1>2 DEF SpotFields
  <2> QED BY <1>2, <2>1, ValueIs
         DEF SpotFields, RequiredString, OptionalString, LocalizedText, OptionalText,
             Whole, OptionalRecord, IsPrivateKey, PrivateKeys, Missing, Strings, Maps, Anything, Kinds
<1>3. CASE kinds = LocationFields
  <2>1. key \in {"latitude", "longitude", "address"}
    BY <1>3 DEF LocationFields
  <2> QED BY <1>3, <2>1, ValueIs DEF LocationFields, OptionalText, LocalizedText, Numbers,
             IsPrivateKey, PrivateKeys, Missing, Strings, Maps
<1>4. CASE kinds = ReferenceFields
  <2>1. key \in {"type", "id", "url", "code"}
    BY <1>4 DEF ReferenceFields
  <2> QED BY <1>4, <2>1, ValueIs DEF ReferenceFields, RequiredString, OptionalString,
             IsPrivateKey, PrivateKeys, Missing, Strings, Maps, Anything, Kinds
<1>5. CASE kinds = UnlockFields
  <2>1. key \in {"type", "count"}
    BY <1>5 DEF UnlockFields
  <2> QED BY <1>5, <2>1, ValueIs
         DEF UnlockFields, Numbers, IsPrivateKey, PrivateKeys, Missing, Strings, Maps
<1> QED BY <1>1, <1>2, <1>3, <1>4, <1>5

LEMMA ConfigAccepted ==
  ASSUME NEW given, Document(given), Validate(given, FALSE), NEW key \in DOMAIN ConfigFields(TRUE)
  PROVE  SanitizeAdminConfig(given)["config"][key] \in ConfigFields(TRUE)[key]
<1> DEFINE new == SanitizeAdminConfig(given)
           keys == {"id", "version", "title", "description", "theme", "completion", "availability",
                    "metadata", "publicMetadata", "serverEndpoint", "staffPasscode", "serverMetadata",
                    "inventory", "inventoryMode", "spots", "rewards"}
<1> SUFFICES new["config"][key] \in ConfigFields(TRUE)[key]
  OBVIOUS
<1>1. key \in keys
  BY DEF ConfigFields
<1>2. keys = DOMAIN ConfigFields(FALSE) /\ ConfigFields(FALSE) = FieldsOf("config", given, FALSE)
  BY DEF ConfigFields, FieldsOf
<1>3. /\ "config" \in DOMAIN given
      /\ \A k \in keys : k \in DOMAIN given["config"] /\ given["config"][k] \in Kinds
  BY <1>2, FieldOf DEF Entities
<1>4. \A k \in keys : given["config"][k] \in ConfigFields(FALSE)[k]
  BY <1>2, <1>3 DEF Validate, Part
<1>5. new["config"][key] = Left(given, "config", key)
  BY <1>1, <1>3, FieldIs
<1> HIDE DEF new
<1>6. CASE key \in {"metadata", "publicMetadata"}
  <2>1. given["config"].metadata \in Kinds /\ given["config"].publicMetadata \in Kinds
    BY <1>3
  <2>2. new["config"][key] \in Kinds
    BY <1>5, <1>6, <2>1, ValueIs DEF Left, IsPrivateKey, PrivateKeys, Kept, Published, Kinds, Missing
  <2> QED BY <1>6, <2>2 DEF ConfigFields, Anything
<1>7. CASE key \in {"staffPasscode", "serverMetadata", "inventory", "inventoryMode"}
  <2>1. new["config"][key] = "absent"
    BY <1>5, <1>7 DEF Left, IsPrivateKey, PrivateKeys, Kept, Published
  <2> QED BY <1>7, <2>1 DEF ConfigFields, Never
<1>8. CASE key \in Published
  <2>1. new["config"][key] = SanitizeValue(given["config"][key])
    BY <1>5, <1>8 DEF Left, IsPrivateKey, PrivateKeys, Kept, Published
  <2>2. given["config"][key] \in ConfigFields(FALSE)[key] /\ given["config"][key] \in Kinds
    BY <1>1, <1>3, <1>4
  <2>3. CASE key \in {"id", "version", "title", "description"}
    BY <2>1, <2>2, <2>3, ValueIs
       DEF ConfigFields, RequiredString, LocalizedText, OptionalText, Missing, Strings, Maps
  <2>4. CASE key \in {"theme", "completion", "availability", "serverEndpoint"}
    BY <2>1, <2>2, <2>4, ValueIs
       DEF ConfigFields, OptionalRecord, OptionalString, Missing, Strings, Maps
  <2>5. CASE key \in {"spots", "rewards"}
    BY <2>1, <2>2, <2>5, ValueIs DEF ConfigFields, Maps
  <2> QED BY <1>8, <2>3, <2>4, <2>5 DEF Published
<1> QED BY <1>1, <1>6, <1>7, <1>8 DEF Published

LEMMA RewardAccepted ==
  ASSUME NEW given, Document(given), Validate(given, FALSE), NEW key \in DOMAIN RewardFields(TRUE)
  PROVE  SanitizeAdminConfig(given)["reward"][key] \in RewardFields(TRUE)[key]
<1> DEFINE new == SanitizeAdminConfig(given)
           keys == {"id", "title", "description", "type", "redemptionMethod", "requiredStampCount",
                    "stockLimit", "userClaimLimit", "stockKey", "validUntil", "staffPasscode",
                    "digitalContentUrl", "conditions"}
<1> SUFFICES new["reward"][key] \in RewardFields(TRUE)[key]
  OBVIOUS
<1>1. key \in keys
  BY DEF RewardFields
<1>2. keys = DOMAIN RewardFields(FALSE) /\ RewardFields(FALSE) = FieldsOf("reward", given, FALSE)
  BY DEF RewardFields, FieldsOf
<1>3. /\ "reward" \in DOMAIN given
      /\ \A k \in keys : k \in DOMAIN given["reward"] /\ given["reward"][k] \in Kinds
  BY <1>2, FieldOf DEF Entities
<1>4. \A k \in keys : given["reward"][k] \in RewardFields(FALSE)[k]
  BY <1>2, <1>3 DEF Validate, Part
<1>5. new["reward"][key] = Left(given, "reward", key)
  BY <1>1, <1>3, FieldIs
<1> HIDE DEF new
<1>6. CASE key \in {"staffPasscode", "digitalContentUrl"}
  <2>1. new["reward"][key] = "absent"
    BY <1>5, <1>6 DEF Left, IsPrivateKey, PrivateKeys
  <2> QED BY <1>6, <2>1 DEF RewardFields, Never
<1>7. CASE key \notin {"staffPasscode", "digitalContentUrl"}
  <2>1. new["reward"][key] = SanitizeValue(given["reward"][key])
    BY <1>1, <1>5, <1>7 DEF Left, IsPrivateKey, PrivateKeys, Kept
  <2>2. given["reward"][key] \in RewardFields(FALSE)[key] /\ given["reward"][key] \in Kinds
    BY <1>1, <1>3, <1>4
  <2>3. CASE key \in {"id", "title", "description", "type", "redemptionMethod", "requiredStampCount"}
    BY <2>1, <2>2, <2>3, ValueIs
       DEF RewardFields, RequiredString, LocalizedText, OptionalText, ReadAsKnown, Whole, Strings, Maps
  <2>4. CASE key \in {"stockLimit", "userClaimLimit", "stockKey", "validUntil", "conditions"}
    BY <2>1, <2>2, <2>4, ValueIs DEF RewardFields, OptionalString, Missing, Strings, Whole, Maps
  <2> QED BY <1>1, <1>7, <2>3, <2>4
<1> QED BY <1>6, <1>7

(* The condition keeps its type and what a participant needs of it.        *)
LEMMA ConditionAccepted ==
  ASSUME NEW given, Document(given), Validate(given, FALSE)
  PROVE  LET condition == SanitizeAdminConfig(given)["condition"]
         IN  /\ condition.type = given["condition"].type
             /\ \A key \in DOMAIN ConditionFields(condition.type, TRUE) :
                  condition[key] \in ConditionFields(condition.type, TRUE)[key]
<1> DEFINE new == SanitizeAdminConfig(given)
           type == given["condition"].type
           keys == {"type", "secretToken", "qrEntryUrl", "code", "caseSensitive", "latitude", "radiusMeters",
                    "tagId", "validatorName", "secretParams"}
<1>1. keys = DOMAIN AnyCondition /\ type \in ConditionTypes
  BY DEF AnyCondition, Document
<1>2. type \in {"qr", "passcode", "gps", "nfc", "custom"}
  BY <1>1, TypesAssumption
<1>3. DOMAIN ConditionFields(type, FALSE) = keys /\ DOMAIN ConditionFields(type, TRUE) = keys
  BY <1>1, <1>2 DEF ConditionFields
<1>4. /\ "condition" \in DOMAIN given /\ DOMAIN given["condition"] = keys
      /\ \A k \in keys \ {"type"} : given["condition"][k] \in Kinds
  BY <1>1 DEF Document, Entities
<1>5. \A k \in keys : given["condition"][k] \in ConditionFields(type, FALSE)[k]
  BY <1>3, <1>4 DEF Validate, Part, FieldsOf
<1>6. \A k \in keys : new["condition"][k] = Left(given, "condition", k)
  BY <1>4, FieldIs
<1> HIDE DEF new, type
<1>7. new["condition"].type = type
  BY <1>2, <1>6 DEF Left, IsPrivateKey, PrivateKeys, Kept, SanitizeValue, Maps, type
<1>8. ASSUME NEW key \in keys
      PROVE  new["condition"][key] \in ConditionFields(type, TRUE)[key]
  <2>1. CASE key = "type"
    BY <1>1, <1>2, <1>7, <2>1 DEF ConditionFields, AnyCondition
  <2>2. CASE key # "type" /\ (IsPrivateKey(key) \/ key \notin PublicFields(type))
    <3>1. new["condition"][key] = "absent"
      BY <1>6, <2>2 DEF Left, Kept, type
    <3>2. "absent" \in Anything
      BY DEF Anything, Kinds, Missing
    <3>3. key # "validatorName" \/ type # "custom"
      BY <2>2 DEF IsPrivateKey, PrivateKeys, PublicFields
    <3>4. key \notin {"latitude", "radiusMeters"} \/ type # "gps"
      BY <2>2 DEF IsPrivateKey, PrivateKeys, PublicFields
    <3>5. "absent" \in ConditionFields(type, TRUE)[key]
      <4>1. AnyCondition[key] = Anything
        BY <2>2 DEF AnyCondition
      <4>2. CASE type = "qr"
        <5>1. ConditionFields(type, TRUE) =
                [AnyCondition EXCEPT !.secretToken = Never, !.qrEntryUrl = OptionalString]
          BY <4>2 DEF ConditionFields
        <5> QED BY <1>1, <2>2, <3>2, <4>1, <4>2, <5>1 DEF Never, OptionalString, Missing
      <4>3. CASE type = "passcode"
        <5>1. ConditionFields(type, TRUE) =
                [AnyCondition EXCEPT !.code = Never, !.caseSensitive = Never]
          BY <4>3 DEF ConditionFields
        <5> QED BY <1>1, <2>2, <3>2, <4>1, <4>3, <5>1 DEF Never, OptionalString, Missing
      <4>4. CASE type = "gps"
        <5>1. ConditionFields(type, TRUE) =
                [AnyCondition EXCEPT !.latitude = Numbers \ {"excess"},
                                     !.radiusMeters = {"fraction", "number", "excess"}]
          BY <4>4 DEF ConditionFields
        <5> QED BY <1>1, <2>2, <3>2, <3>4, <4>1, <4>4, <5>1 DEF Never, OptionalString, Missing
      <4>5. CASE type = "nfc"
        <5>1. ConditionFields(type, TRUE) =
                [AnyCondition EXCEPT !.tagId = Never]
          BY <4>5 DEF ConditionFields
        <5> QED BY <1>1, <2>2, <3>2, <4>1, <4>5, <5>1 DEF Never, OptionalString, Missing
      <4>6. CASE type = "custom"
        <5>1. ConditionFields(type, TRUE) =
                [AnyCondition EXCEPT !.validatorName = RequiredString, !.secretParams = Never]
          BY <4>6 DEF ConditionFields
        <5> QED BY <1>1, <2>2, <3>2, <3>3, <4>1, <4>6, <5>1 DEF Never, OptionalString, Missing
      <4> QED BY <1>2, <4>2, <4>3, <4>4, <4>5, <4>6
    <3> QED BY <3>1, <3>5
  <2>3. CASE key # "type" /\ ~IsPrivateKey(key) /\ key \in PublicFields(type)
    <3>1. new["condition"][key] = SanitizeValue(given["condition"][key])
      BY <1>6, <2>3 DEF Left, Kept, type
    <3>2. given["condition"][key] \in ConditionFields(type, FALSE)[key]
          /\ given["condition"][key] \in Kinds
      BY <1>4, <1>5, <2>3
    <3>3. \/ type = "qr" /\ key = "qrEntryUrl"
          \/ type = "gps" /\ key \in {"latitude", "radiusMeters"}
          \/ type = "custom" /\ key = "validatorName"
      BY <1>2, <2>3 DEF PublicFields
    <3>4. CASE type = "qr" /\ key = "qrEntryUrl"
      BY <3>1, <3>2, <3>4, ValueIs
         DEF ConditionFields, AnyCondition, OptionalString, Missing, Strings, Maps
    <3>5. CASE type = "gps" /\ key \in {"latitude", "radiusMeters"}
      <4>1. CASE key = "latitude"
        BY <3>1, <3>2, <3>5, <4>1, ValueIs DEF ConditionFields, AnyCondition, Numbers, Maps
      <4>2. CASE key = "radiusMeters"
        BY <3>1, <3>2, <3>5, <4>2, ValueIs DEF ConditionFields, AnyCondition, Numbers, Maps
      <4> QED BY <3>5, <4>1, <4>2
    <3>6. CASE type = "custom" /\ key = "validatorName"
      BY <3>1, <3>2, <3>6, ValueIs DEF ConditionFields, AnyCondition, RequiredString, Maps
    <3> QED BY <3>3, <3>4, <3>5, <3>6
  <2> QED BY <2>1, <2>2, <2>3
<1> QED BY <1>3, <1>7, <1>8 DEF new, type

LEMMA PublishedParses ==
  ASSUME NEW given, NEW l, Document(given), SafeParse(given, l, FALSE), given["reward"].stockKey \in Missing
  PROVE  SafeParse(SanitizeAdminConfig(given), l, TRUE)
<1> DEFINE new == SanitizeAdminConfig(given)
<1>1. Validate(given, FALSE) /\ Relations(given, l) /\ DOMAIN given = Entities
  BY DEF SafeParse, Document
<1>2. ASSUME NEW entity \in Entities, Part(entity, new), NEW key \in DOMAIN FieldsOf(entity, new, TRUE)
      PROVE  new[entity][key] \in FieldsOf(entity, new, TRUE)[key]
  <2>1. CASE entity = "config"
    BY <1>1, <1>2, <2>1, ConfigAccepted DEF FieldsOf
  <2>2. CASE entity = "reward"
    BY <1>1, <1>2, <2>2, RewardAccepted DEF FieldsOf
  <2>3. CASE entity = "condition"
    BY <1>1, <1>2, <2>3, ConditionAccepted DEF FieldsOf
  <2>4. CASE entity \in {"theme", "spot", "location", "reference", "unlock"}
    <3> DEFINE kinds == FieldsOf(entity, given, FALSE)
    <3>1. kinds \in {ThemeFields, SpotFields, LocationFields, ReferenceFields, UnlockFields}
          /\ FieldsOf(entity, new, TRUE) = kinds
      BY <2>4 DEF FieldsOf
    <3>2. given[entity][key] \in kinds[key]
      BY <1>1, <1>2, <3>1, PublishedPart
    <3>3. /\ given[entity][key] \in Kinds
          /\ new[entity][key] = IF IsPrivateKey(key) THEN "absent" ELSE SanitizeValue(given[entity][key])
      BY <1>2, <2>4, <3>1, OnlyPrivateGoes
    <3> HIDE DEF kinds, new
    <3>4. key \in DOMAIN kinds
      BY <1>2, <3>1
    <3> QED BY <3>1, <3>2, <3>3, <3>4, StillAccepted
  <2> QED BY <2>1, <2>2, <2>3, <2>4 DEF Entities
<1>3. Validate(new, TRUE)
  BY <1>1, <1>2, ShapeStays DEF Validate
<1>4. Relations(new, l)
  <2>1. /\ {"requiredStampCount", "stockKey"} \subseteq DOMAIN FieldsOf("reward", given, FALSE)
        /\ "reward" \in Entities \ {"condition"}
    BY DEF FieldsOf, RewardFields, Entities
  <2>2. /\ "reward" \in DOMAIN given
        /\ {"requiredStampCount", "stockKey"} \subseteq DOMAIN given["reward"]
        /\ given["reward"].requiredStampCount \in Kinds /\ given["reward"].stockKey \in Kinds
    BY <2>1, FieldOf
  <2>3. /\ new["reward"].requiredStampCount = SanitizeValue(given["reward"].requiredStampCount)
        /\ new["reward"].stockKey = SanitizeValue(given["reward"].stockKey)
    BY <2>2, FieldIs DEF Left, IsPrivateKey, PrivateKeys, Kept
  <2>4. given["reward"].requiredStampCount # "excess"
    BY <1>1 DEF Relations
  <2>5. new["reward"].requiredStampCount # "excess"
    BY <2>2, <2>3, <2>4 DEF SanitizeValue, Maps
  <2>6. new["reward"].stockKey \in Missing
    BY <2>2, <2>3, ValueIs DEF Missing, Maps
  <2> HIDE DEF new
  <2> QED BY <1>1, <2>5, <2>6, Zenon DEF Relations
<1> QED BY <1>3, <1>4 DEF SafeParse

LEMMA NothingPrivate ==
  ASSUME NEW given, Document(given)
  PROVE  \A entity \in Entities : \A key \in DOMAIN SanitizeAdminConfig(given)[entity] :
            LET value == SanitizeAdminConfig(given)[entity][key]
            IN  /\ IsPrivateKey(key) => value = "absent"
                /\ value \notin {"mapWithToken", "mapWithPassword"}
<1> DEFINE new == SanitizeAdminConfig(given)
<1> SUFFICES ASSUME NEW entity \in Entities, NEW key \in DOMAIN new[entity]
             PROVE  /\ IsPrivateKey(key) => new[entity][key] = "absent"
                    /\ new[entity][key] \notin {"mapWithToken", "mapWithPassword"}
  OBVIOUS
<1>1. entity \in DOMAIN given /\ key \in DOMAIN given[entity]
  BY ShapeStays DEF Document
<1>2. new[entity][key] = Left(given, entity, key)
  BY <1>1, FieldIs
<1> HIDE DEF new
<1> QED BY <1>2 DEF Left, SanitizeValue, Maps

LEMMA PublishedIsPublic ==
  ASSUME NEW given, Document(given), Validate(given, FALSE), given["reward"].redemptionMethod = "known"
  PROVE  IsPublicConfig(SanitizeAdminConfig(given))
<1> DEFINE new == SanitizeAdminConfig(given)
           config == new["config"]
           condition == new["condition"]
           reward == new["reward"]
           spot == new["spot"]
<1>1. DOMAIN given = Entities /\ DOMAIN new = Entities
  BY ShapeStays DEF Document
<1>2. /\ \A entity \in Entities : \A key \in DOMAIN new[entity] :
           /\ key \in {"staffPasscode", "secretToken", "serverMetadata", "secretParams",
                       "digitalContentUrl", "code", "tagId"} => new[entity][key] = "absent"
           /\ new[entity][key] # "mapWithToken"
  BY NothingPrivate DEF IsPrivateKey, PrivateKeys
<1>3. /\ {config.id, config.version} \subseteq Strings \union {"known"}
      /\ config.title \in LocalizedText /\ config.spots = "list" /\ config.rewards = "list"
  BY ConfigAccepted DEF ConfigFields, RequiredString, Strings
<1>4. /\ reward.id \in Strings \union {"known"} /\ reward.requiredStampCount \in Numbers
      /\ reward.type = "known" /\ reward.redemptionMethod = "known"
  <2>1. "redemptionMethod" \in DOMAIN FieldsOf("reward", given, FALSE) /\ "reward" \in Entities \ {"condition"}
    BY DEF FieldsOf, RewardFields, Entities
  <2>2. reward.redemptionMethod = Left(given, "reward", "redemptionMethod")
    BY <2>1, FieldOf, FieldIs
  <2>3. reward.redemptionMethod = "known"
    BY <2>2 DEF Left, IsPrivateKey, PrivateKeys, Kept, SanitizeValue, Maps
  <2> HIDE DEF reward
  <2>4. \A key \in DOMAIN RewardFields(TRUE) : reward[key] \in RewardFields(TRUE)[key]
    BY RewardAccepted DEF reward
  <2> QED BY <2>3, <2>4 DEF RewardFields, RequiredString, Strings, Numbers, Whole
<1>5. /\ condition.type = "custom" => condition.validatorName \in Strings \union {"known"}
      /\ condition.type = "gps" => condition.latitude \in Numbers /\ condition.radiusMeters \in Numbers
  <2>1. \A key \in DOMAIN ConditionFields(condition.type, TRUE) :
          condition[key] \in ConditionFields(condition.type, TRUE)[key]
    BY ConditionAccepted
  <2> HIDE DEF condition
  <2>2. CASE condition.type = "custom"
    BY <2>1, <2>2 DEF ConditionFields, AnyCondition, RequiredString, Strings
  <2>3. CASE condition.type = "gps"
    BY <2>1, <2>3 DEF ConditionFields, AnyCondition, Numbers
  <2> QED BY <2>2, <2>3
<1>6. /\ spot.id \in Strings \union {"known"} /\ spot.orderIndex \in Numbers
      /\ spot.name \notin Missing /\ spot.conditions = "list"
  <2>1. FieldsOf("spot", given, FALSE) = SpotFields /\ "spot" \in Entities /\ Part("spot", given)
    BY DEF FieldsOf, Entities, Part
  <2>2. \A key \in DOMAIN SpotFields : given["spot"][key] \in SpotFields[key]
    BY <1>1, <2>1 DEF Validate
  <2>3. \A key \in DOMAIN SpotFields :
          /\ given["spot"][key] \in Kinds
          /\ spot[key] = IF IsPrivateKey(key) THEN "absent" ELSE SanitizeValue(given["spot"][key])
    BY <2>1, OnlyPrivateGoes
  <2>4. \A key \in DOMAIN SpotFields : spot[key] \in SpotFields[key]
    BY <2>2, <2>3, StillAccepted
  <2> HIDE DEF spot
  <2> QED BY <2>4
         DEF SpotFields, RequiredString, LocalizedText, Whole, Numbers, Missing, Strings, Maps
<1> HIDE DEF new, config, condition, reward, spot
<1>7. \A entity \in Entities :
        ~\E key \in {"staffPasscode", "secretToken", "serverMetadata", "secretParams",
                     "digitalContentUrl", "code", "tagId"} \intersect DOMAIN new[entity] :
           new[entity][key] # "absent"
  BY <1>2
<1>8. {"spot", "condition"} \subseteq Entities
  BY DEF Entities
<1>9. IsPublicConfig(new)
  BY <1>1, <1>2, <1>3, <1>4, <1>5, <1>6, <1>7, <1>8
     DEF IsPublicConfig, config, condition, reward, spot
<1> QED BY <1>9 DEF new

(* Whatever an organizer's document holds, if its parser accepts it, no    *)
(* private key is left at any depth of what is published; isPublicConfig   *)
(* takes it unless a redemption method is in a list, and                   *)
(* safeParsePublicConfig unless a stock is named.                          *)
THEOREM PublicationIsSafe ==
  ASSUME NEW given, NEW l, Document(given), SafeParse(given, l, FALSE)
  PROVE  LET new == SanitizeAdminConfig(given)
         IN  /\ Safe(new)
             /\ given["reward"].redemptionMethod = "known" => IsPublicConfig(new)
             /\ given["reward"].stockKey \in Missing => SafeParse(new, l, TRUE)
<1>1. Safe(SanitizeAdminConfig(given))
  BY NothingPrivate, ShapeStays DEF Safe, Document
<1> QED BY <1>1, PublishedIsPublic, PublishedParses DEF SafeParse

LEMMA OrdinaryIsDocument ==
  ASSUME NEW type \in ConditionTypes
  PROVE  Document(Ordinary(type))
<1> DEFINE d == Ordinary(type)
<1>1. type \in {"qr", "passcode", "gps", "nfc", "custom"}
  BY TypesAssumption
<1>2. DOMAIN d = Entities
  BY DEF Ordinary, Entities
<1>3. /\ DOMAIN d["condition"] = DOMAIN AnyCondition /\ d["condition"].type = type
      /\ \A key \in DOMAIN AnyCondition \ {"type"} : d["condition"][key] \in Kinds
  BY <1>1 DEF Ordinary, AnyCondition, Kinds, Missing, Strings, Maps, Numbers
<1>4. ASSUME NEW entity \in Entities \ {"condition"}
      PROVE  d[entity] \in [DOMAIN FieldsOf(entity, d, FALSE) -> Kinds]
  <2>1. FieldsOf(entity, d, FALSE) = FieldsOf(entity, <<>>, FALSE)
    BY DEF FieldsOf, Entities
  <2>2. {"text", "map", "mapWithToken", "known", "list", "number", "absent"} \subseteq Kinds
    BY DEF Kinds, Missing, Strings, Maps, Numbers
  <2>3. CASE entity = "reward"
    BY <2>2, <2>3 DEF Ordinary, FieldsOf
  <2>4. CASE entity # "reward"
    BY <2>1, <2>2, <2>4 DEF Ordinary, Entities
  <2> QED BY <2>3, <2>4
<1> QED BY <1>2, <1>3, <1>4 DEF Document

LEMMA VariantsAreDocuments ==
  ASSUME NEW given, Document(given), NEW variant \in Variants(given)
  PROVE  Document(variant)
<1>1. CASE variant = given
  BY <1>1
<1>2. ASSUME NEW field \in Fields(given), NEW kind \in Kinds,
             variant = Changed(given, field[1], field[2], kind)
      PROVE  Document(variant)
  <2>0. PICK entity \in DOMAIN given :
          field \in {entity} \X DOMAIN given[entity] /\ field # <<"condition", "type">>
    BY DEF Fields
  <2>1. PICK key \in DOMAIN given[entity] :
          field = <<entity, key>> /\ <<entity, key>> # <<"condition", "type">>
    BY <2>0
  <2>2. /\ DOMAIN variant = DOMAIN given
        /\ \A e \in DOMAIN given : DOMAIN variant[e] = DOMAIN given[e]
        /\ \A e \in DOMAIN given : \A k \in DOMAIN given[e] :
             variant[e][k] = IF e = entity /\ k = key THEN kind ELSE given[e][k]
    BY <1>2, <2>1 DEF Changed
  <2>3. ASSUME NEW e \in Entities \ {"condition"}
        PROVE  variant[e] \in [DOMAIN FieldsOf(e, variant, FALSE) -> Kinds]
    <3>1. FieldsOf(e, variant, FALSE) = FieldsOf(e, given, FALSE)
      BY DEF FieldsOf, Entities
    <3>2. given[e] \in [DOMAIN FieldsOf(e, given, FALSE) -> Kinds] /\ DOMAIN given = Entities
      BY DEF Document
    <3>3. variant[e] = IF e = entity THEN [given[e] EXCEPT ![key] = kind] ELSE given[e]
      BY <1>2, <2>1, <3>2 DEF Changed
    <3> HIDE DEF Document
    <3> QED BY <3>1, <3>2, <3>3
  <2>4. /\ DOMAIN variant = Entities /\ DOMAIN variant["condition"] = DOMAIN AnyCondition
        /\ variant["condition"].type \in ConditionTypes
        /\ \A k \in DOMAIN AnyCondition \ {"type"} : variant["condition"][k] \in Kinds
    <3>1. "condition" \in DOMAIN given /\ "type" \in DOMAIN given["condition"]
      BY DEF Document, Entities, AnyCondition
    <3> QED BY <2>1, <2>2, <3>1 DEF Document
  <2> QED BY <2>3, <2>4 DEF Document
<1>3. Variants(given) =
        {given} \union {Changed(given, field[1], field[2], kind) : field \in Fields(given), kind \in Kinds}
  BY DEF Variants
<1>4. variant = given \/ \E field \in Fields(given) : \E kind \in Kinds :
                           variant = Changed(given, field[1], field[2], kind)
  BY <1>3, SMT
<1> QED BY <1>1, <1>2, <1>4, Zenon

(* What is published is the organizer's document, and was accepted.        *)
PublicationInv ==
  /\ Document(admin)
  /\ accepted = "published" => SafeParse(admin, links, FALSE) /\ public = SanitizeAdminConfig(admin)

(* The same of the documents that are published one after the other.       *)
THEOREM PublishedIsSafeAlways ==
  PublicationInit /\ [][PublicationNext]_publicationVars => []PublishedIsSafe
<1>1. PublicationInit => PublicationInv
  <2> SUFFICES ASSUME PublicationInit PROVE PublicationInv
    OBVIOUS
  <2>0. \A given : given \in Variants(given)
    BY DEF Variants
  <2>1. accepted = "unread" /\ \E type \in ConditionTypes : admin \in Variants(Ordinary(type))
    BY <2>0, Zenon DEF PublicationInit
  <2> QED BY <2>1, OrdinaryIsDocument, VariantsAreDocuments DEF PublicationInv
<1>2. PublicationInv /\ [PublicationNext]_publicationVars => PublicationInv'
  BY DEF PublicationInv, PublicationNext, Publish, publicationVars
<1>3. PublicationInv => PublishedIsSafe
  BY PublicationIsSafe DEF PublicationInv, PublishedIsSafe
<1> QED BY <1>1, <1>2, <1>3, PTL
=============================================================================
