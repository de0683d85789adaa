----------------------------- MODULE PushProofs -----------------------------
(***************************************************************************)
(* Theorems about PushProtocol for every set of sessions, refs and commits *)
(* and every bound.                                                        *)
(***************************************************************************)
EXTENDS PushProtocol, WellFoundedInduction, TLAPS

-----------------------------------------------------------------------------
(* The operators of RefTable *)

(* A set of branches that is not empty has a first one (helper.go, pickHead: *)
(* the fallback always finds a branch when there is one).                    *)
LEMMA FirstBranchExists ==
    ASSUME NEW born \in SUBSET Branches, born # {}
    PROVE  \E r \in born : \A q \in born : Rank[r] <= Rank[q]
<1> DEFINE less == OpToRel(<, Nat)
           ranks == {Rank[r] : r \in born}
<1>1. ranks \subseteq Nat /\ ranks # {}
    BY RefTableAssumption
<1>2. IsWellFoundedOn(less, Nat)
    BY NatLessThanWellFounded
<1> HIDE DEF less
<1>3. PICK n \in ranks : \A m \in ranks : ~(<<m, n>> \in less)
    BY <1>1, <1>2, WFMin
<1>4. \A m \in ranks : ~(m < n)
    BY <1>1, <1>3 DEF less, OpToRel
<1>5. PICK r \in born : Rank[r] = n
    OBVIOUS
<1>6. ASSUME NEW q \in born
      PROVE  Rank[r] <= Rank[q]
  <2>1. Rank[q] \in Nat /\ Rank[r] \in Nat /\ ~(Rank[q] < Rank[r])
      BY <1>1, <1>4, <1>5
  <2>2. QED
      BY <2>1
<1>7. QED
    BY <1>6

(* The HEAD a listing advertises names a ref of the table, or nothing. *)
LEMMA PickHeadExists ==
    ASSUME NEW table \in Table, NEW was
    PROVE  PickHead(table, was) \in Existing(table) \cup {None}
<1> DEFINE born == Branches \cap Existing(table)
<1>1. born # {} =>
        (CHOOSE r \in born : \A q \in born : Rank[r] <= Rank[q]) \in born
    BY FirstBranchExists
<1>2. QED
    BY <1>1 DEF PickHead

(* The advertised HEAD has its type. *)
LEMMA PickHeadType ==
    ASSUME NEW table \in Table, NEW was
    PROVE  PickHead(table, was) \in HeadName
BY PickHeadExists DEF HeadName, Existing

(* A HEAD that does not dangle is advertised as it was. *)
LEMMA PickHeadKeeps ==
    ASSUME NEW table, NEW was \in Existing(table)
    PROVE  PickHead(table, was) = was
BY DEF PickHead

(* Validation keeps a batch a batch, of commands it accepted. *)
LEMMA SurvivorsAccepted ==
    ASSUME NEW table, NEW has, NEW batch \in Batch
    PROVE  /\ Survivors(table, has, batch) \in Batch
           /\ \A r \in DOMAIN Survivors(table, has, batch) :
                Accepts(table, has, r, Survivors(table, has, batch)[r])
<1>1. PICK D \in SUBSET Refs : batch \in [D -> Command]
    BY DEF Batch
<1> DEFINE E == {q \in DOMAIN batch : Accepts(table, has, q, batch[q])}
<1>2. E \in SUBSET Refs /\ Survivors(table, has, batch) \in [E -> Command]
    BY <1>1 DEF Survivors
<1>3. QED
    BY <1>2 DEF Batch, Survivors

(* Applying a batch to a table gives a table. *)
LEMMA AppliedType ==
    ASSUME NEW table \in Table, NEW updates \in Batch
    PROVE  Applied(table, updates) \in Table
<1>1. PICK D \in SUBSET Refs : updates \in [D -> Command]
    BY DEF Batch
<1>2. ASSUME NEW r \in DOMAIN updates
      PROVE  updates[r].src \in Commits \cup {None}
    BY <1>1 DEF Command
<1>3. QED
    BY <1>2 DEF Applied, Table

(* The HEAD of a new table is one of its refs, or nothing. *)
LEMMA NewHeadsExist ==
    ASSUME NEW table, NEW head, NEW updates \in Batch,
           NEW new \in NewHeads(Applied(table, updates), head, updates)
    PROVE  new \in Existing(Applied(table, updates)) \cup {None}
<1>1. PICK D \in SUBSET Refs : updates \in [D -> Command]
    BY DEF Batch
<1>2. QED
    BY <1>1 DEF NewHeads, Existing, Applied

(* The history of a table consists of commits. *)
LEMMA HistoryType ==
    ASSUME NEW table \in Table
    PROVE  History(table) \in SUBSET Commits
BY RefTableAssumption DEF History, Existing, Table

(* The history of a table contains the object every ref points at. *)
LEMMA TipsInHistory ==
    ASSUME NEW table \in Table, NEW r \in Existing(table)
    PROVE  table[r] \in History(table) /\ table[r] \in Commits
BY RefTableAssumption DEF History, Existing, Table

-----------------------------------------------------------------------------
(* Types *)

(* An ETag is a token. *)
LEMMA ETagType == ASSUME NEW o \in StateObject PROVE ETag(o) \in Token
BY DEF ETag, Token, StateObject

(* The empty table is a table, without refs. *)
LEMMA EmptyTableType == EmptyTable \in Table /\ Existing(EmptyTable) = {}
BY RefTableAssumption DEF EmptyTable, Table, Existing

(* Pushing nothing is a batch. *)
LEMMA NoUpdatesType == NoUpdates \in Batch
<1>1. NoUpdates \in [{} -> Command]
    BY DEF NoUpdates
<1>2. QED
    BY <1>1 DEF Batch

(* The absent object has the type of a state object. *)
LEMMA NoObjectType == NoObject \in StateObject
BY EmptyTableType DEF NoObject, StateObject, HeadName

(* A session starts with a well-typed view. *)
LEMMA FreshHelperType == FreshHelper \in Helper
<1>1. ETag(NoObject) \in Token
    BY NoObjectType, ETagType
<1>2. QED
    BY <1>1, EmptyTableType DEF FreshHelper, Helper, HeadName

(* A session starts with a well-typed push in progress: none. *)
LEMMA NoRecordType == NoRecord \in Record
BY EmptyTableType, NoUpdatesType DEF NoRecord, Record, HeadName

(* The remotes to start from are tables with a HEAD. *)
LEMMA V2RemotesType ==
    ASSUME NEW remote \in V2Remotes
    PROVE  remote \in [refs : Table, head : HeadName]
BY PushAssumption

(* The initial states are well typed. *)
LEMMA TypeInit == Init => TypeOK
<1> SUFFICES ASSUME Init PROVE TypeOK
    OBVIOUS
<1> USE DEF Init
<1>1. state \in StateObject /\ writes \in Nat
    BY NoObjectType
<1>2. v2 \in [refs : Table, head : HeadName]
    BY V2RemotesType
<1>3. stored \subseteq SUBSET Commits
    BY <1>2, RefTableAssumption DEF Existing, Table
<1>4. h \in [Sessions -> Helper] /\ next \in [Sessions -> Record]
    BY FreshHelperType, NoRecordType
<1>5. QED
    BY <1>1, <1>2, <1>3, <1>4, PushAssumption DEF TypeOK, Reports

(* The fields a session fills in keep its view well typed. *)
LEMMA ViewUpdateType ==
    ASSUME NEW view \in Helper, NEW refs \in Table, NEW head \in HeadName,
           NEW bundle \in SUBSET Commits, NEW flag \in BOOLEAN
    PROVE  /\ [view EXCEPT !.refs = refs] \in Helper
           /\ [view EXCEPT !.headRef = head] \in Helper
           /\ [view EXCEPT !.unbundled = flag] \in Helper
           /\ [view EXCEPT !.refs = refs, !.headRef = head,
                           !.known = TRUE, !.bundle = bundle] \in Helper
BY DEF Helper

(* The answer that ends a push. *)
LEMMA AnswerType ==
    ASSUME TypeOK, NEW s \in Sessions, NEW outcome \in Reports, Answer(s, outcome)
    PROVE  /\ report' \in [Sessions -> Reports]
           /\ next' \in [Sessions -> Record]
           /\ pc' \in [Sessions -> {"idle", "get", "v2refs", "v2head", "ready"} \cup InPush]
BY NoRecordType DEF TypeOK, Answer

(* A state write leaves a well-typed state object. *)
LEMMA WriteStateType ==
    ASSUME TypeOK, NEW s \in Sessions, WriteState(s)
    PROVE  state' \in StateObject /\ writes' \in Nat
BY DEF TypeOK, WriteState, StateObject, Record

(* Every step keeps the types, action by action. *)
LEMMA TypeNext == TypeOK /\ [Next]_vars => TypeOK'
<1> SUFFICES ASSUME TypeOK, [Next]_vars PROVE TypeOK'
    OBVIOUS
<1> USE DEF TypeOK
<1>1. ASSUME NEW s \in Sessions, ListETag(s) PROVE TypeOK'
  <2>1. [FreshHelper EXCEPT !.stateETag = ETag(state), !.unbundled = h[s].unbundled]
            \in Helper
      BY FreshHelperType, ETagType DEF Helper
  <2>2. h' \in [Sessions -> Helper]
      BY <1>1, <2>1 DEF ListETag
  <2>3. QED
      BY <1>1, <2>2 DEF ListETag, Reports
<1>2. ASSUME NEW s \in Sessions, ListGet(s) PROVE TypeOK'
  <2>1. PickHead(state.refs, state.head) \in HeadName
      BY PickHeadType DEF StateObject
  <2>2. [h[s] EXCEPT !.refs = state.refs, !.headRef = PickHead(state.refs, state.head),
                      !.known = TRUE, !.bundle = state.bundle] \in Helper
    <3>1. state.refs \in Table /\ state.bundle \in SUBSET Commits
        BY DEF StateObject
    <3>2. QED
        BY <2>1, <3>1, ViewUpdateType
  <2>3. h' \in [Sessions -> Helper]
      BY <1>2, <2>2 DEF ListGet
  <2>4. QED
      BY <1>2, <2>3 DEF ListGet
<1>3. ASSUME NEW s \in Sessions, ListV2Refs(s) PROVE TypeOK'
  <2>1. [h[s] EXCEPT !.refs = v2.refs] \in Helper
      BY DEF Helper
  <2>2. h' \in [Sessions -> Helper]
      BY <1>3, <2>1 DEF ListV2Refs
  <2>3. QED
      BY <1>3, <2>2 DEF ListV2Refs
<1>4. ASSUME NEW s \in Sessions, ListV2Head(s) PROVE TypeOK'
  <2>1. PickHead(h[s].refs, v2.head) \in HeadName
      BY PickHeadType DEF Helper
  <2>2. [h[s] EXCEPT !.headRef = PickHead(h[s].refs, v2.head)] \in Helper
      BY <2>1, ViewUpdateType
  <2>3. h' \in [Sessions -> Helper]
      BY <1>4, <2>2 DEF ListV2Head
  <2>4. QED
      BY <1>4, <2>3 DEF ListV2Head
<1>5. ASSUME NEW s \in Sessions, NEW c \in Tips(h[s].refs), Fetch(s, c) PROVE TypeOK'
  <2>1. c \in Commits
      BY DEF Tips, Existing, Helper, Table
  <2>2. Download(s, c) \subseteq Commits
      BY <2>1, RefTableAssumption DEF Download, Helper
  <2>3. [h[s] EXCEPT !.unbundled = h[s].unbundled \/ h[s].known] \in Helper
    <3>1. (h[s].unbundled \/ h[s].known) \in BOOLEAN
        OBVIOUS
    <3>2. QED
        BY <3>1, ViewUpdateType
  <2>4. h' \in [Sessions -> Helper]
      BY <1>5, <2>3 DEF Fetch
  <2>5. QED
      BY <1>5, <2>2, <2>4 DEF Fetch
<1>6. ASSUME NEW s \in Sessions, NEW c \in Commits, LocalCommit(s, c) PROVE TypeOK'
    BY <1>6 DEF LocalCommit
<1>7. ASSUME NEW s \in Sessions, NEW batch \in Batch, PushBatch(s, batch) PROVE TypeOK'
  <2> DEFINE valid == Survivors(h[s].refs, odb[s], batch)
             table == Applied(h[s].refs, valid)
  <2>1. valid \in Batch
      BY SurvivorsAccepted
  <2>2. table \in Table
      BY <2>1, AppliedType DEF Helper
  <2>3. ASSUME NEW head \in NewHeads(table, h[s].headRef, valid)
        PROVE  [refs |-> table, head |-> head, bundle |-> {}, updates |-> valid] \in Record
      BY <2>1, <2>2, NewHeadsExist DEF Record, HeadName, Existing
  <2> HIDE DEF valid, table
  <2>4. CASE valid = NoUpdates
      BY <1>7, <2>4 DEF PushBatch, valid, Reports
  <2>5. CASE valid # NoUpdates
    <3>1. PICK head \in NewHeads(table, h[s].headRef, valid) :
             next' = [next EXCEPT ![s] = [refs |-> table, head |-> head,
                                          bundle |-> {}, updates |-> valid]]
        BY <1>7, <2>5 DEF PushBatch, valid, table
    <3>2. next' \in [Sessions -> Record]
        BY <2>3, <3>1
    <3>3. QED
      <4>1. report' = [report EXCEPT ![s] = "pending"] /\ pc' = [pc EXCEPT ![s] = "build"]
          BY <1>7, <2>5 DEF PushBatch, valid
      <4>2. sent' \in [Sessions -> [lists : Nat, batches : Nat]]
          BY <1>7 DEF PushBatch
      <4>3. UNCHANGED <<state, writes, stored, v2, odb, h>>
          BY <1>7 DEF PushBatch
      <4>4. QED
          BY <3>2, <4>1, <4>2, <4>3 DEF Reports, InPush
  <2>6. QED
      BY <2>4, <2>5
<1>8. ASSUME NEW s \in Sessions, BuildBundle(s) PROVE TypeOK'
  <2>1. [next[s] EXCEPT !.bundle = History(next[s].refs)] \in Record
      BY HistoryType DEF Record
  <2>2. next' \in [Sessions -> Record]
      BY <1>8, <2>1 DEF BuildBundle
  <2>3. QED
      BY <1>8, <2>2 DEF BuildBundle, InPush
<1>9. ASSUME NEW s \in Sessions, UploadBundle(s) PROVE TypeOK'
  <2>1. next[s].bundle \in SUBSET Commits
      BY DEF Record
  <2>2. stored' \subseteq SUBSET Commits
      BY <1>9, <2>1 DEF UploadBundle
  <2>3. QED
      BY <1>9, <2>2 DEF UploadBundle, InPush
<1>10. ASSUME NEW s \in Sessions, SaveState(s) PROVE TypeOK'
    BY <1>10, WriteStateType DEF SaveState, InPush
<1>11. ASSUME NEW s \in Sessions, SaveStateUnanswered(s) PROVE TypeOK'
  <2>1. PICK outcome \in Reports : Answer(s, outcome)
      BY <1>11 DEF SaveStateUnanswered, Reports
  <2>2. QED
      BY <1>11, <2>1, AnswerType, WriteStateType DEF SaveStateUnanswered
<1>12. ASSUME NEW s \in Sessions, SaveConflict(s) PROVE TypeOK'
    BY <1>12, AnswerType DEF SaveConflict, Reports
<1>13. ASSUME NEW s \in Sessions, CleanV2Refs(s) PROVE TypeOK'
    BY <1>13, EmptyTableType DEF CleanV2Refs, InPush
<1>14. ASSUME NEW s \in Sessions, CleanV2Head(s) PROVE TypeOK'
    BY <1>14 DEF CleanV2Head, InPush, HeadName
<1>15. ASSUME NEW s \in Sessions, RereadETag(s) PROVE TypeOK'
  <2>1. ETag(state) \in Token /\ ETag(NoObject) \in Token
      BY ETagType, NoObjectType
  <2>2. h' \in [Sessions -> Helper]
      BY <1>15, <2>1 DEF RereadETag, Helper, Record
  <2>3. QED
      BY <1>15, <2>2, AnswerType DEF RereadETag, Reports
<1>16. ASSUME NEW s \in Sessions, PushFails(s) PROVE TypeOK'
    BY <1>16, AnswerType DEF PushFails, Reports
<1>17. ASSUME NEW s \in Sessions, Quit(s) PROVE TypeOK'
    BY <1>17, FreshHelperType, NoRecordType DEF Quit, Reports
<1>18. CASE UNCHANGED vars
    BY <1>18 DEF vars
<1>19. QED
    BY <1>1, <1>2, <1>3, <1>4, <1>5, <1>6, <1>7, <1>8, <1>9, <1>10, <1>11, <1>12,
       <1>13, <1>14, <1>15, <1>16, <1>17, <1>18 DEF Next, Progress, Environment

(* Every variable stays in its type. *)
THEOREM TypeCorrect == Spec => []TypeOK
BY TypeInit, TypeNext, PTL DEF Spec

-----------------------------------------------------------------------------
(* What the remote and every session hold can be restored *)

(* The bundles of the per-ref manifests are kopia objects. *)
V2Stored == \A r \in Existing(v2.refs) : Closure[v2.refs[r]] \in stored

(* Every table a session has read is covered by objects it can download. *)
ViewRestorable(s) ==
    /\ h[s].known => /\ History(h[s].refs) \subseteq h[s].bundle
                     /\ h[s].bundle # {} => h[s].bundle \in stored
    /\ ~h[s].known => \A r \in Existing(h[s].refs) : Closure[h[s].refs[r]] \in stored
    /\ pc[s] \in {"get", "v2refs", "v2head"} => ~h[s].known

(* The push in progress: its bundle covers its table before it is saved. *)
PushRestorable(s) ==
    /\ pc[s] = "build" => CanBuild(s)
    /\ pc[s] \in InPush =>
        /\ next[s].head \in Existing(next[s].refs) \cup {None}
        /\ pc[s] # "build" => next[s].bundle = History(next[s].refs)
        /\ pc[s] \notin {"build", "upload"} /\ next[s].bundle # {} =>
              next[s].bundle \in stored

RestoreInv ==
    /\ TypeOK
    /\ Restorable
    /\ V2Stored
    /\ \A s \in Sessions : ViewRestorable(s) /\ PushRestorable(s)

(* At the start the v2 bundles are stored and nothing is in progress. *)
LEMMA RestoreInit == Init => RestoreInv
<1> SUFFICES ASSUME Init PROVE RestoreInv
    OBVIOUS
<1>1. TypeOK
    BY TypeInit
<1>2. Restorable
    BY EmptyTableType DEF Init, Restorable, NoObject, History
<1>3. V2Stored
    BY DEF Init, V2Stored
<1>4. ASSUME NEW s \in Sessions PROVE ViewRestorable(s) /\ PushRestorable(s)
    BY EmptyTableType DEF Init, ViewRestorable, PushRestorable, FreshHelper, InPush
<1>5. QED
    BY <1>1, <1>2, <1>3, <1>4 DEF RestoreInv

(* Kopia objects are never removed, so what could be restored still can be. *)
LEMMA RestorableKept ==
    ASSUME RestoreInv, state' = state, stored \subseteq stored'
    PROVE  Restorable'
BY DEF RestoreInv, Restorable

(* Manifests nobody removes keep their bundles. *)
LEMMA V2StoredKept ==
    ASSUME RestoreInv, v2' = v2, stored \subseteq stored'
    PROVE  V2Stored'
BY DEF RestoreInv, V2Stored

(* What a session has read stays downloadable. *)
LEMMA ViewRestorableKept ==
    ASSUME RestoreInv, NEW s \in Sessions, stored \subseteq stored',
           h'[s] = h[s], pc'[s] = pc[s] \/ pc'[s] \notin {"get", "v2refs", "v2head"}
    PROVE  ViewRestorable(s)'
BY DEF RestoreInv, ViewRestorable

(* So does what its push in progress needs. *)
LEMMA PushRestorableKept ==
    ASSUME RestoreInv, NEW s \in Sessions, stored \subseteq stored',
           h'[s] = h[s], pc'[s] = pc[s], next'[s] = next[s], odb'[s] = odb[s]
    PROVE  PushRestorable(s)'
BY DEF RestoreInv, PushRestorable, CanBuild, Seed

(* A session with no push in progress has nothing to keep for one. *)
LEMMA NoPushRestorable ==
    ASSUME NEW s \in Sessions, pc'[s] \notin InPush
    PROVE  PushRestorable(s)'
BY DEF PushRestorable, InPush

(* The frame of every step: one session moves, the others stay put. *)
LEMMA RestoreFrame ==
    ASSUME RestoreInv, TypeOK', NEW s \in Sessions, stored \subseteq stored',
           Restorable', V2Stored', ViewRestorable(s)', PushRestorable(s)',
           \A t \in Sessions \ {s} : /\ h'[t] = h[t] /\ pc'[t] = pc[t]
                                     /\ next'[t] = next[t] /\ odb'[t] = odb[t]
    PROVE  RestoreInv'
<1>1. ASSUME NEW t \in Sessions PROVE ViewRestorable(t)' /\ PushRestorable(t)'
  <2>1. CASE t = s
      BY <2>1
  <2>2. CASE t # s
      BY <2>2, ViewRestorableKept, PushRestorableKept
  <2>3. QED
      BY <2>1, <2>2
<1>2. QED
    BY <1>1 DEF RestoreInv

(* A validated table can be bundled from what the session has read. *)
LEMMA ValidatedIsBuildable ==
    ASSUME RestoreInv, NEW s \in Sessions, NEW batch \in Batch
    PROVE  Tips(Applied(h[s].refs, Survivors(h[s].refs, odb[s], batch)))
             \subseteq odb[s] \cup Seed(s)
<1> DEFINE valid == Survivors(h[s].refs, odb[s], batch)
           table == Applied(h[s].refs, valid)
<1>1. h[s].refs \in Table
    BY DEF RestoreInv, TypeOK, Helper
<1>2. History(h[s].refs) \subseteq Seed(s)
    BY DEF RestoreInv, ViewRestorable, Seed
<1>3. \A r \in DOMAIN valid : Accepts(h[s].refs, odb[s], r, valid[r])
    BY SurvivorsAccepted
<1> HIDE DEF valid
<1>4. ASSUME NEW r \in Existing(table) PROVE table[r] \in odb[s] \cup Seed(s)
  <2>1. r \in Refs /\ table[r] # None
      BY DEF Existing
  <2>2. CASE r \in DOMAIN valid
      BY <1>3, <2>1, <2>2 DEF Applied, Accepts
  <2>3. CASE r \notin DOMAIN valid
    <3>1. table[r] = h[s].refs[r] /\ r \in Existing(h[s].refs)
        BY <2>1, <2>3 DEF Applied, Existing
    <3>2. QED
        BY <1>1, <1>2, <3>1, TipsInHistory
  <2>4. QED
      BY <2>2, <2>3
<1>5. QED
    BY <1>4 DEF Tips, valid

(* The end of a push leaves the session's view alone. *)
LEMMA AnswerRestores ==
    ASSUME RestoreInv, TypeOK', NEW s \in Sessions, NEW outcome, Answer(s, outcome),
           UNCHANGED <<h, odb, v2, stored>>, Restorable'
    PROVE  RestoreInv'
<1>1. pc'[s] = "ready"
    BY DEF Answer, RestoreInv, TypeOK
<1>2. V2Stored' /\ ViewRestorable(s)' /\ PushRestorable(s)'
    BY <1>1, V2StoredKept, ViewRestorableKept, NoPushRestorable DEF InPush
<1>3. \A t \in Sessions \ {s} : pc'[t] = pc[t] /\ next'[t] = next[t]
    BY DEF Answer, RestoreInv, TypeOK
<1>4. QED
    BY <1>2, <1>3, RestoreFrame

(* The saved record is one whose bundle is durable. *)
LEMMA WriteRestores ==
    ASSUME RestoreInv, NEW s \in Sessions, pc[s] = "save", WriteState(s), stored' = stored
    PROVE  Restorable'
<1>1. PushRestorable(s)
    BY DEF RestoreInv
<1>2. /\ state'.refs = next[s].refs
      /\ state'.head = next[s].head
      /\ state'.bundle = next[s].bundle
    BY DEF WriteState
<1>3. QED
    BY <1>1, <1>2 DEF PushRestorable, Restorable, InPush

(* Every step keeps the invariant, action by action. *)
LEMMA RestoreNext == RestoreInv /\ [Next]_vars => RestoreInv'
<1> SUFFICES ASSUME RestoreInv, [Next]_vars PROVE RestoreInv'
    OBVIOUS
<1>0. TypeOK /\ TypeOK'
    BY TypeNext DEF RestoreInv
<1>1. ASSUME NEW s \in Sessions, ListETag(s) PROVE RestoreInv'
  <2>1. /\ h'[s].refs = EmptyTable /\ h'[s].known = FALSE
        /\ pc'[s] \in {"get", "v2refs"}
      BY <1>0, <1>1 DEF ListETag, TypeOK, FreshHelper
  <2>2. ViewRestorable(s)' /\ PushRestorable(s)'
      BY <2>1, EmptyTableType, NoPushRestorable DEF ViewRestorable, InPush
  <2>3. Restorable' /\ V2Stored'
      BY <1>1, RestorableKept, V2StoredKept DEF ListETag
  <2>4. QED
      BY <1>0, <1>1, <2>2, <2>3, RestoreFrame DEF ListETag, TypeOK
<1>2. ASSUME NEW s \in Sessions, ListGet(s) PROVE RestoreInv'
  <2>1. /\ h'[s].refs = state.refs /\ h'[s].known = TRUE /\ h'[s].bundle = state.bundle
        /\ pc'[s] = "ready"
      BY <1>0, <1>2 DEF ListGet, TypeOK, Helper
  <2>2. ViewRestorable(s)' /\ PushRestorable(s)'
    <3>1. stored' = stored
        BY <1>2 DEF ListGet
    <3>2. QED
        BY <2>1, <3>1, NoPushRestorable DEF ViewRestorable, InPush, RestoreInv, Restorable
  <2>3. Restorable' /\ V2Stored'
      BY <1>2, RestorableKept, V2StoredKept DEF ListGet
  <2>4. QED
      BY <1>0, <1>2, <2>2, <2>3, RestoreFrame DEF ListGet, TypeOK
<1>3. ASSUME NEW s \in Sessions, ListV2Refs(s) PROVE RestoreInv'
  <2>1. /\ h'[s].refs = v2.refs /\ h'[s].known = h[s].known /\ ~h[s].known
        /\ pc'[s] = "v2head" /\ stored' = stored
      BY <1>0, <1>3 DEF ListV2Refs, TypeOK, Helper, RestoreInv, ViewRestorable
  <2>2. ViewRestorable(s)' /\ PushRestorable(s)'
      BY <2>1, NoPushRestorable DEF ViewRestorable, InPush, RestoreInv, V2Stored
  <2>3. Restorable' /\ V2Stored'
      BY <1>3, RestorableKept, V2StoredKept DEF ListV2Refs
  <2>4. QED
      BY <1>0, <1>3, <2>2, <2>3, RestoreFrame DEF ListV2Refs, TypeOK
<1>4. ASSUME NEW s \in Sessions, ListV2Head(s) PROVE RestoreInv'
  <2>1. /\ h'[s].refs = h[s].refs /\ h'[s].known = h[s].known
        /\ h'[s].bundle = h[s].bundle /\ pc'[s] = "ready" /\ stored' = stored
      BY <1>0, <1>4 DEF ListV2Head, TypeOK, Helper
  <2>2. ViewRestorable(s)' /\ PushRestorable(s)'
      BY <2>1, NoPushRestorable DEF ViewRestorable, InPush, RestoreInv
  <2>3. Restorable' /\ V2Stored'
      BY <1>4, RestorableKept, V2StoredKept DEF ListV2Head
  <2>4. QED
      BY <1>0, <1>4, <2>2, <2>3, RestoreFrame DEF ListV2Head, TypeOK
<1>5. ASSUME NEW s \in Sessions, NEW c \in Tips(h[s].refs), Fetch(s, c) PROVE RestoreInv'
  <2>1. /\ h'[s].refs = h[s].refs /\ h'[s].known = h[s].known
        /\ h'[s].bundle = h[s].bundle /\ pc'[s] = "ready" /\ stored' = stored
      BY <1>0, <1>5 DEF Fetch, TypeOK, Helper
  <2>2. ViewRestorable(s)' /\ PushRestorable(s)'
      BY <2>1, NoPushRestorable DEF ViewRestorable, InPush, RestoreInv
  <2>3. Restorable' /\ V2Stored'
      BY <1>5, RestorableKept, V2StoredKept DEF Fetch
  <2>4. QED
      BY <1>0, <1>5, <2>2, <2>3, RestoreFrame DEF Fetch, TypeOK
<1>6. ASSUME NEW s \in Sessions, NEW c \in Commits, LocalCommit(s, c) PROVE RestoreInv'
  <2>1. pc'[s] \in {"idle", "ready"} /\ h' = h /\ stored' = stored
      BY <1>6 DEF LocalCommit
  <2>2. ViewRestorable(s)' /\ PushRestorable(s)'
      BY <2>1, ViewRestorableKept, NoPushRestorable DEF InPush
  <2>3. Restorable' /\ V2Stored'
      BY <1>6, RestorableKept, V2StoredKept DEF LocalCommit
  <2>4. QED
      BY <1>0, <1>6, <2>2, <2>3, RestoreFrame DEF LocalCommit, TypeOK
<1>7. ASSUME NEW s \in Sessions, NEW batch \in Batch, PushBatch(s, batch) PROVE RestoreInv'
  <2> DEFINE valid == Survivors(h[s].refs, odb[s], batch)
             table == Applied(h[s].refs, valid)
  <2>1. h' = h /\ odb' = odb /\ stored' = stored /\ pc[s] = "ready"
      BY <1>7 DEF PushBatch
  <2>2. Restorable' /\ V2Stored'
      BY <1>7, RestorableKept, V2StoredKept DEF PushBatch
  <2>3. CASE valid = NoUpdates
    <3>1. pc' = pc /\ next' = next
        BY <1>7, <2>3 DEF PushBatch
    <3>2. QED
        BY <1>0, <2>1, <2>2, <3>1, ViewRestorableKept, PushRestorableKept, RestoreFrame
  <2>4. CASE valid # NoUpdates
    <3>1. PICK head \in NewHeads(table, h[s].headRef, valid) :
             next' = [next EXCEPT ![s] = [refs |-> table, head |-> head,
                                          bundle |-> {}, updates |-> valid]]
        BY <1>7, <2>4 DEF PushBatch
    <3>2. pc' = [pc EXCEPT ![s] = "build"]
        BY <1>7, <2>4 DEF PushBatch
    <3>3. head \in Existing(table) \cup {None}
        BY SurvivorsAccepted, NewHeadsExist
    <3>4. Tips(table) \subseteq odb[s] \cup Seed(s)
        BY ValidatedIsBuildable
    <3> HIDE DEF valid, table
    <3>5. pc'[s] = "build" /\ next'[s].refs = table /\ next'[s].head = head
        BY <1>0, <3>1, <3>2 DEF TypeOK
    <3>6. ViewRestorable(s)'
        BY <2>1, <3>5, ViewRestorableKept
    <3>7. PushRestorable(s)'
        BY <2>1, <3>3, <3>4, <3>5 DEF PushRestorable, CanBuild, Seed
    <3>8. QED
        BY <1>0, <2>1, <2>2, <3>1, <3>2, <3>6, <3>7, RestoreFrame DEF TypeOK
  <2>5. QED
      BY <2>3, <2>4
<1>8. ASSUME NEW s \in Sessions, BuildBundle(s) PROVE RestoreInv'
  <2>1. /\ pc[s] = "build" /\ pc'[s] = "upload" /\ h' = h /\ stored' = stored
        /\ next'[s].refs = next[s].refs /\ next'[s].head = next[s].head
        /\ next'[s].bundle = History(next[s].refs)
      BY <1>0, <1>8 DEF BuildBundle, TypeOK, Record
  <2>2. ViewRestorable(s)'
      BY <2>1, ViewRestorableKept
  <2>3. PushRestorable(s)'
      BY <2>1 DEF PushRestorable, InPush, RestoreInv
  <2>4. Restorable' /\ V2Stored'
      BY <1>8, RestorableKept, V2StoredKept DEF BuildBundle
  <2>5. QED
      BY <1>0, <1>8, <2>2, <2>3, <2>4, RestoreFrame DEF BuildBundle, TypeOK
<1>9. ASSUME NEW s \in Sessions, UploadBundle(s) PROVE RestoreInv'
  <2>1. /\ pc[s] = "upload" /\ pc'[s] = "save" /\ next' = next /\ h' = h
        /\ stored \subseteq stored'
      BY <1>0, <1>9 DEF UploadBundle, TypeOK
  <2>2. PushRestorable(s)
      BY DEF RestoreInv
  <2>3. next[s].bundle # {} => next[s].bundle \in stored'
    <3>1. next[s].refs = EmptyTable => next[s].bundle = {}
        BY <2>1, <2>2, EmptyTableType DEF PushRestorable, InPush, History
    <3>2. QED
        BY <1>9, <3>1 DEF UploadBundle
  <2>4. PushRestorable(s)'
      BY <2>1, <2>2, <2>3 DEF PushRestorable, InPush
  <2>5. ViewRestorable(s)'
      BY <2>1, ViewRestorableKept
  <2>6. Restorable' /\ V2Stored'
      BY <1>9, <2>1, RestorableKept, V2StoredKept DEF UploadBundle
  <2>7. QED
      BY <1>0, <1>9, <2>1, <2>4, <2>5, <2>6, RestoreFrame DEF UploadBundle, TypeOK
<1>10. ASSUME NEW s \in Sessions, SaveState(s) PROVE RestoreInv'
  <2>1. /\ pc[s] = "save" /\ pc'[s] \in {"clean refs", "reread"}
        /\ next' = next /\ h' = h /\ stored' = stored
      BY <1>0, <1>10 DEF SaveState, TypeOK
  <2>2. Restorable'
      BY <1>10, <2>1, WriteRestores DEF SaveState
  <2>3. V2Stored' /\ ViewRestorable(s)'
      BY <1>10, <2>1, V2StoredKept, ViewRestorableKept DEF SaveState
  <2>4. PushRestorable(s)'
      BY <2>1 DEF PushRestorable, InPush, RestoreInv
  <2>5. QED
      BY <1>0, <1>10, <2>2, <2>3, <2>4, RestoreFrame DEF SaveState, TypeOK
<1>11. ASSUME NEW s \in Sessions, SaveStateUnanswered(s) PROVE RestoreInv'
  <2>1. Restorable'
      BY <1>11, WriteRestores DEF SaveStateUnanswered
  <2>2. QED
      BY <1>0, <1>11, <2>1, AnswerRestores DEF SaveStateUnanswered
<1>12. ASSUME NEW s \in Sessions, SaveConflict(s) PROVE RestoreInv'
    BY <1>0, <1>12, RestorableKept, AnswerRestores DEF SaveConflict
<1>13. ASSUME NEW s \in Sessions, CleanV2Refs(s) PROVE RestoreInv'
  <2>1. /\ pc[s] = "clean refs" /\ pc'[s] \in {"clean head", "reread"}
        /\ next' = next /\ h' = h /\ stored' = stored
        /\ v2'.refs \in {v2.refs, EmptyTable}
      BY <1>0, <1>13 DEF CleanV2Refs, TypeOK
  <2>2. V2Stored'
      BY <2>1, EmptyTableType DEF V2Stored, RestoreInv
  <2>3. Restorable' /\ ViewRestorable(s)'
      BY <1>13, <2>1, RestorableKept, ViewRestorableKept DEF CleanV2Refs
  <2>4. PushRestorable(s)'
      BY <2>1 DEF PushRestorable, InPush, RestoreInv
  <2>5. QED
      BY <1>0, <1>13, <2>1, <2>2, <2>3, <2>4, RestoreFrame DEF CleanV2Refs, TypeOK
<1>14. ASSUME NEW s \in Sessions, CleanV2Head(s) PROVE RestoreInv'
  <2>1. /\ pc[s] = "clean head" /\ pc'[s] = "reread"
        /\ next' = next /\ h' = h /\ stored' = stored /\ v2'.refs = v2.refs
      BY <1>0, <1>14 DEF CleanV2Head, TypeOK
  <2>2. V2Stored'
      BY <2>1 DEF V2Stored, RestoreInv
  <2>3. Restorable' /\ ViewRestorable(s)'
      BY <1>14, <2>1, RestorableKept, ViewRestorableKept DEF CleanV2Head
  <2>4. PushRestorable(s)'
      BY <2>1 DEF PushRestorable, InPush, RestoreInv
  <2>5. QED
      BY <1>0, <1>14, <2>1, <2>2, <2>3, <2>4, RestoreFrame DEF CleanV2Head, TypeOK
<1>15. ASSUME NEW s \in Sessions, RereadETag(s) PROVE RestoreInv'
  <2>1. /\ h'[s].refs = next[s].refs /\ h'[s].bundle = next[s].bundle
        /\ h'[s].known = TRUE /\ pc'[s] = "ready" /\ stored' = stored
    <3>1. PICK etag \in {ETag(state), ETag(NoObject)} :
             h' = [h EXCEPT ![s] = [refs |-> next[s].refs, headRef |-> next[s].head,
                                    known |-> TRUE, bundle |-> next[s].bundle,
                                    stateETag |-> etag, unbundled |-> FALSE]]
        BY <1>15 DEF RereadETag
    <3>2. h'[s] = [refs |-> next[s].refs, headRef |-> next[s].head,
                   known |-> TRUE, bundle |-> next[s].bundle,
                   stateETag |-> etag, unbundled |-> FALSE]
        BY <1>0, <3>1 DEF TypeOK
    <3>3. QED
        BY <1>0, <1>15, <3>2 DEF RereadETag, Answer, TypeOK
  <2>2. PushRestorable(s) /\ pc[s] = "reread"
      BY <1>15 DEF RestoreInv, RereadETag
  <2>3. ViewRestorable(s)' /\ PushRestorable(s)'
      BY <2>1, <2>2, NoPushRestorable DEF ViewRestorable, PushRestorable, InPush
  <2>4. Restorable' /\ V2Stored'
      BY <1>15, RestorableKept, V2StoredKept DEF RereadETag
  <2>5. \A t \in Sessions \ {s} : /\ h'[t] = h[t] /\ pc'[t] = pc[t]
                                  /\ next'[t] = next[t] /\ odb'[t] = odb[t]
    <3>1. \A t \in Sessions \ {s} : h'[t] = h[t]
      <4>1. PICK etag \in {ETag(state), ETag(NoObject)} :
               h' = [h EXCEPT ![s] = [refs |-> next[s].refs, headRef |-> next[s].head,
                                      known |-> TRUE, bundle |-> next[s].bundle,
                                      stateETag |-> etag, unbundled |-> FALSE]]
          BY <1>15 DEF RereadETag
      <4>2. QED
          BY <1>0, <4>1 DEF TypeOK
    <3>2. Answer(s, "ok") /\ odb' = odb
        BY <1>15 DEF RereadETag
    <3>3. QED
        BY <1>0, <3>1, <3>2 DEF Answer, TypeOK
  <2>6. QED
      BY <1>0, <2>1, <2>3, <2>4, <2>5, RestoreFrame
<1>16. ASSUME NEW s \in Sessions, PushFails(s) PROVE RestoreInv'
    BY <1>0, <1>16, RestorableKept, AnswerRestores DEF PushFails
<1>17. ASSUME NEW s \in Sessions, Quit(s) PROVE RestoreInv'
  <2>1. h'[s].refs = EmptyTable /\ h'[s].known = FALSE /\ pc'[s] = "idle"
      BY <1>0, <1>17 DEF Quit, TypeOK, FreshHelper
  <2>2. ViewRestorable(s)' /\ PushRestorable(s)'
      BY <2>1, EmptyTableType, NoPushRestorable DEF ViewRestorable, InPush
  <2>3. Restorable' /\ V2Stored'
      BY <1>17, RestorableKept, V2StoredKept DEF Quit
  <2>4. QED
      BY <1>0, <1>17, <2>2, <2>3, RestoreFrame DEF Quit, TypeOK
<1>18. CASE UNCHANGED vars
  <2>1. UNCHANGED <<state, stored, v2, odb, pc, h, next>>
      BY <1>18 DEF vars
  <2>2. \A s \in Sessions : ViewRestorable(s)' /\ PushRestorable(s)'
      BY <2>1, ViewRestorableKept, PushRestorableKept
  <2>3. QED
      BY <1>0, <2>1, <2>2, RestorableKept, V2StoredKept DEF RestoreInv
<1>19. QED
    BY <1>1, <1>2, <1>3, <1>4, <1>5, <1>6, <1>7, <1>8, <1>9, <1>10, <1>11, <1>12,
       <1>13, <1>14, <1>15, <1>16, <1>17, <1>18 DEF Next, Progress, Environment

(* The strengthened invariant holds in every reachable state. *)
LEMMA RestoreInvariant == Spec => []RestoreInv
BY RestoreInit, RestoreNext, PTL DEF Spec

(* Whatever sessions do and wherever they stop, the remote can be cloned:    *)
(* the bundle its state object names is durable and covers every ref (with   *)
(* or without encryption and conditional writes, and however many batches).  *)
THEOREM AlwaysRestorable == Spec => []Restorable
<1>1. RestoreInv => Restorable
    BY DEF RestoreInv
<1>2. QED
    BY <1>1, RestoreInvariant, PTL

(* A validated push never lacks an object for its bundle. *)
THEOREM AlwaysBuildable == Spec => []PushIsBuildable
<1>1. RestoreInv => PushIsBuildable
    BY DEF RestoreInv, PushRestorable, PushIsBuildable
<1>2. QED
    BY <1>1, RestoreInvariant, PTL
=============================================================================
