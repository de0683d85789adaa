------------------------- MODULE PushRegisterProofs -------------------------
(***************************************************************************)
(* Why concurrent pushes cannot lose each other: with conditional writes   *)
(* on state objects whose bytes never repeat, and one push batch in each   *)
(* session, PushProtocol implements SnapshotRegister.                      *)
(***************************************************************************)
EXTENDS PushProofs

(* Every state object has bytes of its own, and its writes are conditional. *)
Guarded == Encrypted /\ Conditional

OneBatch == MaxBatches <= 1

Listing == {"get", "v2refs", "v2head"}
AfterSave == {"clean refs", "clean head", "reread"}

(* The session still holds the token of the object as it is now. *)
TokenCurrent(s) == h[s].stateETag = ETag(state)

-----------------------------------------------------------------------------
(* Tokens *)

(* No token is newer than the state object, and one as new is its own. *)
TokenSound(s) ==
    /\ h[s].stateETag[1] <= writes
    /\ h[s].stateETag[1] = writes => h[s].stateETag = ETag(state)
    /\ report[s] = "conflict" => h[s].stateETag[1] < writes

TokenInv ==
    /\ TypeOK
    /\ state.nonce = writes
    /\ writes = 0 => state = NoObject
    /\ \A s \in Sessions : TokenSound(s)

(* A token tells the write that made its object. *)
LEMMA ETagNonce ==
    ASSUME NEW o PROVE ETag(o)[1] = o.nonce
BY DEF ETag

(* The token of the absent object is older than every write. *)
LEMMA NoObjectNonce == ETag(NoObject)[1] = 0
BY ETagNonce DEF NoObject

(* At the start every token is that of the absent object. *)
LEMMA TokenInit == Init => TokenInv
<1> SUFFICES ASSUME Init PROVE TokenInv
    OBVIOUS
<1>1. TypeOK
    BY TypeInit
<1>2. \A s \in Sessions : TokenSound(s)
    BY NoObjectNonce DEF Init, TokenSound, FreshHelper
<1>3. QED
    BY <1>1, <1>2 DEF Init, TokenInv, NoObject

(* Steps that leave the state object alone: a token may only be kept, taken *)
(* from the object, or dropped, and no conflict is reported by surprise.    *)
LEMMA TokenFrame ==
    ASSUME TokenInv, TypeOK', UNCHANGED <<state, writes>>,
           \A s \in Sessions :
              /\ h'[s].stateETag \in {h[s].stateETag, ETag(state), ETag(NoObject)}
              /\ report'[s] = "conflict" =>
                    /\ h'[s].stateETag = h[s].stateETag
                    /\ report[s] = "conflict" \/ h[s].stateETag # ETag(state)
    PROVE  TokenInv'
<1>1. ASSUME NEW s \in Sessions PROVE TokenSound(s)'
  <2>1. writes \in Nat /\ ETag(state)[1] = writes /\ ETag(NoObject)[1] = 0
      BY ETagNonce, NoObjectNonce DEF TokenInv, TypeOK
  <2>2. writes = 0 => ETag(NoObject) = ETag(state)
      BY DEF TokenInv
  <2>3. h[s].stateETag[1] \in Nat
      BY DEF TokenInv, TypeOK, Helper, Token
  <2>4. TokenSound(s)
      BY DEF TokenInv
  <2>5. ETag(state)' = ETag(state)
      BY DEF ETag
  <2>6. CASE h'[s].stateETag = h[s].stateETag
      BY <2>1, <2>3, <2>4, <2>5, <2>6 DEF TokenSound
  <2>7. CASE h'[s].stateETag = ETag(state) /\ report'[s] # "conflict"
      BY <2>1, <2>5, <2>7 DEF TokenSound
  <2>8. CASE h'[s].stateETag = ETag(NoObject) /\ report'[s] # "conflict"
      BY <2>1, <2>2, <2>5, <2>8 DEF TokenSound
  <2>9. QED
      BY <2>6, <2>7, <2>8
<1>2. QED
    BY <1>1 DEF TokenInv

(* A state write makes every token stale. *)
LEMMA TokenWrite ==
    ASSUME TokenInv, TypeOK', Guarded, NEW s \in Sessions, WriteState(s), h' = h
    PROVE  /\ TokenInv'
           /\ \A t \in Sessions : ~TokenCurrent(t)'
<1>1. writes \in Nat /\ writes' = writes + 1 /\ state'.nonce = writes'
    BY DEF TokenInv, TypeOK, WriteState, Guarded
<1>2. ETag(state)'[1] = writes'
    BY <1>1 DEF ETag
<1>3. ASSUME NEW t \in Sessions
      PROVE  h'[t].stateETag[1] \in Nat /\ h'[t].stateETag[1] < writes'
  <2>1. h[t].stateETag[1] \in Nat /\ h[t].stateETag[1] <= writes
      BY DEF TokenInv, TypeOK, TokenSound, Helper, Token
  <2>2. QED
      BY <1>1, <2>1
<1>4. \A t \in Sessions : TokenSound(t)'
  <2>1. ASSUME NEW t \in Sessions PROVE h'[t].stateETag[1] # writes'
      BY <1>1, <1>3
  <2>2. QED
      BY <1>1, <1>3, <2>1 DEF TokenSound
<1>5. QED
    BY <1>1, <1>2, <1>3, <1>4 DEF TokenInv, TokenCurrent

(* Every step keeps tokens sound, action by action. *)
LEMMA TokenNext == Guarded /\ TokenInv /\ [Next]_vars => TokenInv'
<1> SUFFICES ASSUME Guarded, TokenInv, [Next]_vars PROVE TokenInv'
    OBVIOUS
<1>0. TypeOK /\ TypeOK'
    BY TypeNext DEF TokenInv
<1> USE DEF TypeOK
<1>1. ASSUME NEW s \in Sessions, ListETag(s) PROVE TokenInv'
    BY <1>0, <1>1, TokenFrame DEF ListETag, FreshHelper
<1>2. ASSUME NEW s \in Sessions, ListGet(s) PROVE TokenInv'
    BY <1>0, <1>2, TokenFrame DEF ListGet, Helper
<1>3. ASSUME NEW s \in Sessions, ListV2Refs(s) PROVE TokenInv'
    BY <1>0, <1>3, TokenFrame DEF ListV2Refs, Helper
<1>4. ASSUME NEW s \in Sessions, ListV2Head(s) PROVE TokenInv'
    BY <1>0, <1>4, TokenFrame DEF ListV2Head, Helper
<1>5. ASSUME NEW s \in Sessions, NEW c \in Tips(h[s].refs), Fetch(s, c) PROVE TokenInv'
    BY <1>0, <1>5, TokenFrame DEF Fetch, Helper
<1>6. ASSUME NEW s \in Sessions, NEW c \in Commits, LocalCommit(s, c) PROVE TokenInv'
    BY <1>0, <1>6, TokenFrame DEF LocalCommit
<1>7. ASSUME NEW s \in Sessions, NEW batch \in Batch, PushBatch(s, batch) PROVE TokenInv'
    BY <1>0, <1>7, TokenFrame DEF PushBatch
<1>8. ASSUME NEW s \in Sessions, BuildBundle(s) \/ UploadBundle(s) PROVE TokenInv'
    BY <1>0, <1>8, TokenFrame DEF BuildBundle, UploadBundle
<1>9. ASSUME NEW s \in Sessions, SaveState(s) \/ SaveStateUnanswered(s) PROVE TokenInv'
    BY <1>0, <1>9, TokenWrite DEF SaveState, SaveStateUnanswered
<1>10. ASSUME NEW s \in Sessions, SaveConflict(s) PROVE TokenInv'
    BY <1>0, <1>10, TokenFrame DEF SaveConflict, Answer, Matches
<1>11. ASSUME NEW s \in Sessions, CleanV2Refs(s) \/ CleanV2Head(s) PROVE TokenInv'
    BY <1>0, <1>11, TokenFrame DEF CleanV2Refs, CleanV2Head
<1>12. ASSUME NEW s \in Sessions, RereadETag(s) PROVE TokenInv'
    BY <1>0, <1>12, TokenFrame DEF RereadETag, Answer
<1>13. ASSUME NEW s \in Sessions, PushFails(s) PROVE TokenInv'
    BY <1>0, <1>13, TokenFrame DEF PushFails, Answer
<1>14. ASSUME NEW s \in Sessions, Quit(s) PROVE TokenInv'
    BY <1>0, <1>14, TokenFrame DEF Quit, FreshHelper
<1>15. ASSUME UNCHANGED vars PROVE TokenInv'
    BY <1>0, <1>15, TokenFrame DEF vars
<1>16. QED
    BY <1>1, <1>2, <1>3, <1>4, <1>5, <1>6, <1>7, <1>8, <1>9, <1>10, <1>11, <1>12,
       <1>13, <1>14, <1>15 DEF Next, Progress, Environment

(* With conditional writes on objects whose bytes never repeat, no session   *)
(* ever holds a token from the future, or a second token for one write, and  *)
(* a session told of a conflict holds an old one (storage.go, PutIf).        *)
THEOREM TokenInvariant == Guarded => (Spec => []TokenInv)
<1>1. ASSUME Guarded PROVE Spec => []TokenInv
    BY <1>1, TokenInit, TokenNext, PTL DEF Spec
<1>2. QED
    BY <1>1

(* With conditional writes on objects whose bytes never repeat, a refused   *)
(* push stays refused: no later state of the remote, whoever pushes, matches *)
(* the token again (helper.go, pushSnapshot; snapshot.go, Save).             *)
THEOREM RefusedStaysRefused == Guarded => (Spec => []ConflictIsFinal)
<1>1. TokenInv => ConflictIsFinal
  <2> SUFFICES ASSUME TokenInv, NEW s \in Sessions, report[s] = "conflict"
               PROVE  h[s].stateETag # ETag(state)
      BY DEF ConflictIsFinal
  <2>1. h[s].stateETag[1] < writes /\ writes \in Nat
      BY DEF TokenInv, TokenSound, TypeOK
  <2>2. ETag(state)[1] = writes
      BY ETagNonce DEF TokenInv
  <2>3. QED
      BY <2>1, <2>2
<1>2. QED
    BY <1>1, TokenInvariant, PTL

-----------------------------------------------------------------------------
(* Views *)

(* What the session would list if it listed now. *)
ViewCurrent(s) ==
    /\ h[s].refs = VisibleRefs
    /\ h[s].headRef = VisibleHead

(* A session about to push, or pushing, whose token still is the object's *)
(* own has a view of the table as it is now.                              *)
ViewSound(s) ==
    /\ pc[s] = "get" => writes > 0
    /\ pc[s] = "v2refs" => h[s].stateETag = ETag(NoObject)
    /\ pc[s] = "v2head" => /\ h[s].stateETag = ETag(NoObject)
                           /\ writes = 0 => h[s].refs = v2.refs
    /\ \/ pc[s] = "ready" /\ sent[s].batches = 0
       \/ pc[s] \in {"build", "upload", "save"}
       => (TokenCurrent(s) => ViewCurrent(s))
    /\ pc[s] \in AfterSave => writes > 0
    /\ pc[s] \in InPush => sent[s].batches > 0

(* The push in progress is computed from the session's view. *)
PushSound(s) ==
    /\ pc[s] \in {"build", "upload", "save"} =>
          /\ next[s].refs = Applied(h[s].refs, next[s].updates)
          /\ next[s].head \in NewHeads(next[s].refs, h[s].headRef, next[s].updates)
          /\ \A r \in DOMAIN next[s].updates :
                Accepts(h[s].refs, Commits, r, next[s].updates[r])
    /\ pc[s] \in InPush <=> report[s] = "pending"
    /\ pc[s] \notin InPush => next[s].updates = NoUpdates

RegisterInv ==
    /\ TokenInv
    /\ \A s \in Sessions : ViewSound(s) /\ PushSound(s)

(* At the start nobody has a view or a push in progress. *)
LEMMA RegisterInit == Init => RegisterInv
<1> SUFFICES ASSUME Init PROVE RegisterInv
    OBVIOUS
<1>1. TokenInv
    BY TokenInit
<1>2. \A s \in Sessions : ViewSound(s) /\ PushSound(s)
    BY DEF Init, ViewSound, PushSound, InPush, AfterSave, NoRecord
<1>3. QED
    BY <1>1, <1>2 DEF RegisterInv

(* What a listing shows does not change while the state object stays and the *)
(* v2 manifests stay, or no longer count.                                    *)
LEMMA VisibleFrame ==
    ASSUME TypeOK, UNCHANGED state, state.nonce > 0 \/ UNCHANGED v2
    PROVE  VisibleRefs' = VisibleRefs /\ VisibleHead' = VisibleHead
<1>1. state.nonce \in Nat
    BY DEF TypeOK, StateObject
<1>2. VisibleRefs' = VisibleRefs
    BY <1>1 DEF VisibleRefs
<1>3. QED
    BY <1>1, <1>2 DEF VisibleHead

(* A session none of whose own fields change keeps its part of the invariant *)
(* when what it could list stays, or its token is stale.                     *)
LEMMA OthersKept ==
    ASSUME RegisterInv, TypeOK', NEW s \in Sessions,
           h'[s] = h[s], next'[s] = next[s], pc'[s] = pc[s],
           report'[s] = report[s], sent'[s] = sent[s],
           writes' >= writes, writes' = 0 => v2' = v2,
           \/ ~TokenCurrent(s)'
           \/ state' = state /\ VisibleRefs' = VisibleRefs /\ VisibleHead' = VisibleHead
    PROVE  ViewSound(s)' /\ PushSound(s)'
<1>0. ViewSound(s) /\ PushSound(s) /\ writes \in Nat /\ writes' \in Nat
    BY DEF RegisterInv, TokenInv, TypeOK
<1>1. PushSound(s)'
    BY <1>0 DEF PushSound
<1>2. TokenCurrent(s)' => TokenCurrent(s)
    BY DEF TokenCurrent, ETag
<1>3. TokenCurrent(s)' /\ ViewCurrent(s) => ViewCurrent(s)'
    BY DEF ViewCurrent
<1>4. (writes > 0 => writes' > 0) /\ (writes' = 0 => writes = 0)
    BY <1>0
<1>5. ViewSound(s)'
    BY <1>0, <1>2, <1>3, <1>4 DEF ViewSound, AfterSave
<1>6. QED
    BY <1>1, <1>5

(* A step of one session that leaves the state object alone. *)
LEMMA RegisterFrame ==
    ASSUME RegisterInv, TypeOK', TokenInv', UNCHANGED <<state, writes>>,
           writes > 0 \/ UNCHANGED v2,
           NEW s \in Sessions,
           \A t \in Sessions \ {s} :
              /\ h'[t] = h[t] /\ next'[t] = next[t] /\ pc'[t] = pc[t]
              /\ report'[t] = report[t] /\ sent'[t] = sent[t],
           VisibleRefs' = VisibleRefs /\ VisibleHead' = VisibleHead =>
              ViewSound(s)' /\ PushSound(s)'
    PROVE  RegisterInv'
<1>1. TypeOK /\ writes \in Nat /\ state.nonce = writes
    BY DEF RegisterInv, TokenInv, TypeOK
<1>2. VisibleRefs' = VisibleRefs /\ VisibleHead' = VisibleHead
    BY <1>1, VisibleFrame
<1>3. \A t \in Sessions \ {s} : ViewSound(t)' /\ PushSound(t)'
  <2>1. writes' >= writes /\ (writes' = 0 => v2' = v2)
      BY <1>1
  <2>2. QED
      BY <1>2, <2>1, OthersKept
<1>4. QED
    BY <1>2, <1>3 DEF RegisterInv

(* A state write: every other session's token is stale from now on. *)
LEMMA RegisterWrite ==
    ASSUME Guarded, RegisterInv, TypeOK', NEW s \in Sessions, WriteState(s),
           UNCHANGED <<h, sent>>,
           \A t \in Sessions \ {s} :
              next'[t] = next[t] /\ pc'[t] = pc[t] /\ report'[t] = report[t],
           writes' > 0 /\ ~TokenCurrent(s)' => ViewSound(s)' /\ PushSound(s)'
    PROVE  RegisterInv'
<1>1. TokenInv' /\ \A t \in Sessions : ~TokenCurrent(t)'
    BY TokenWrite DEF RegisterInv
<1>2. writes \in Nat /\ writes' = writes + 1
    BY DEF RegisterInv, TokenInv, TypeOK, WriteState
<1>3. \A t \in Sessions \ {s} : ViewSound(t)' /\ PushSound(t)'
  <2>1. writes' >= writes /\ writes' # 0
      BY <1>2
  <2>2. QED
      BY <1>1, <2>1, OthersKept
<1>4. ViewSound(s)' /\ PushSound(s)'
    BY <1>1, <1>2
<1>5. QED
    BY <1>1, <1>3, <1>4 DEF RegisterInv

(* Every step keeps views and pushes sound, action by action. *)
LEMMA RegisterNextKept ==
    Guarded /\ OneBatch /\ RegisterInv /\ [Next]_vars => RegisterInv'
<1> SUFFICES ASSUME Guarded, OneBatch, RegisterInv, [Next]_vars PROVE RegisterInv'
    OBVIOUS
<1>0. TypeOK /\ TypeOK' /\ TokenInv /\ TokenInv'
    BY TokenNext, TypeNext DEF RegisterInv, TokenInv
<1>a. writes \in Nat /\ state.nonce = writes /\ (writes = 0 => state = NoObject)
    BY <1>0 DEF TypeOK, TokenInv
<1>b. ASSUME NEW s \in Sessions PROVE ViewSound(s) /\ PushSound(s)
    BY DEF RegisterInv
<1>1. ASSUME NEW s \in Sessions, ListETag(s) PROVE RegisterInv'
  <2>1. pc[s] \notin InPush /\ pc'[s] \in {"v2refs", "get"} /\ next' = next
        /\ report'[s] = "none"
      BY <1>0, <1>1 DEF ListETag, TypeOK, InPush
  <2>2. PushSound(s)'
      BY <1>b, <2>1 DEF PushSound, InPush
  <2>3. pc'[s] = "v2refs" => h'[s].stateETag = ETag(NoObject)
      BY <1>0, <1>1, <1>a DEF ListETag, TypeOK, FreshHelper
  <2>4. pc'[s] = "get" => writes' > 0
      BY <1>0, <1>1, <1>a DEF ListETag, TypeOK
  <2>5. ViewSound(s)'
      BY <2>1, <2>3, <2>4 DEF ViewSound, AfterSave, InPush
  <2>6. QED
      BY <1>0, <1>1, <2>2, <2>5, RegisterFrame DEF ListETag, TypeOK
<1>2. ASSUME NEW s \in Sessions, ListGet(s) PROVE RegisterInv'
  <2>1. pc'[s] = "ready" /\ next' = next /\ report' = report /\ pc[s] = "get"
      BY <1>0, <1>2 DEF ListGet, TypeOK
  <2>2. PushSound(s)'
      BY <1>b, <2>1 DEF PushSound, InPush
  <2>3. h'[s].refs = state.refs /\ h'[s].headRef = PickHead(state.refs, state.head)
      BY <1>0, <1>2 DEF ListGet, TypeOK, Helper
  <2>4. writes > 0
      BY <1>b, <2>1 DEF ViewSound
  <2>5. ViewCurrent(s)'
      BY <1>2, <1>a, <2>3, <2>4 DEF ListGet, ViewCurrent, VisibleRefs, VisibleHead
  <2>6. ViewSound(s)'
      BY <2>1, <2>5 DEF ViewSound, AfterSave, InPush
  <2>7. QED
      BY <1>0, <1>2, <2>2, <2>6, RegisterFrame DEF ListGet, TypeOK
<1>3. ASSUME NEW s \in Sessions, ListV2Refs(s) PROVE RegisterInv'
  <2>1. pc'[s] = "v2head" /\ next' = next /\ report' = report /\ pc[s] = "v2refs"
      BY <1>0, <1>3 DEF ListV2Refs, TypeOK
  <2>2. PushSound(s)'
      BY <1>b, <2>1 DEF PushSound, InPush
  <2>3. h'[s].refs = v2'.refs /\ h'[s].stateETag = h[s].stateETag
      BY <1>0, <1>3 DEF ListV2Refs, TypeOK, Helper
  <2>4. ViewSound(s)'
      BY <1>b, <2>1, <2>3 DEF ViewSound, AfterSave, InPush
  <2>5. QED
      BY <1>0, <1>3, <2>2, <2>4, RegisterFrame DEF ListV2Refs, TypeOK
<1>4. ASSUME NEW s \in Sessions, ListV2Head(s) PROVE RegisterInv'
  <2>1. pc'[s] = "ready" /\ next' = next /\ report' = report /\ pc[s] = "v2head"
      BY <1>0, <1>4 DEF ListV2Head, TypeOK
  <2>2. PushSound(s)'
      BY <1>b, <2>1 DEF PushSound, InPush
  <2>3. h'[s].refs = h[s].refs /\ h'[s].stateETag = h[s].stateETag
        /\ h'[s].headRef = PickHead(h[s].refs, v2.head)
      BY <1>0, <1>4 DEF ListV2Head, TypeOK, Helper
  <2>4. h[s].stateETag = ETag(NoObject) /\ (writes = 0 => h[s].refs = v2.refs)
      BY <1>b, <2>1 DEF ViewSound
  <2>5. TokenCurrent(s)' => writes = 0
    <3>1. ETag(state)[1] = writes
        BY <1>a, ETagNonce
    <3>2. ETag(state)' = ETag(state)
        BY <1>4 DEF ListV2Head
    <3>3. QED
        BY <2>3, <2>4, <3>1, <3>2, NoObjectNonce DEF TokenCurrent
  <2>6. TokenCurrent(s)' => ViewCurrent(s)'
      BY <1>4, <1>a, <2>3, <2>4, <2>5 DEF ListV2Head, ViewCurrent, VisibleRefs, VisibleHead
  <2>7. ViewSound(s)'
      BY <2>1, <2>6 DEF ViewSound, AfterSave, InPush
  <2>8. QED
      BY <1>0, <1>4, <2>2, <2>7, RegisterFrame DEF ListV2Head, TypeOK
<1>5. ASSUME NEW s \in Sessions, NEW c \in Tips(h[s].refs), Fetch(s, c) PROVE RegisterInv'
  <2>1. /\ h'[s].refs = h[s].refs /\ h'[s].stateETag = h[s].stateETag
        /\ h'[s].headRef = h[s].headRef
      BY <1>0, <1>5 DEF Fetch, TypeOK, Helper
  <2>2. PushSound(s)'
      BY <1>5, <1>b, <2>1 DEF PushSound, Fetch
  <2>3. TokenCurrent(s)' => TokenCurrent(s)
      BY <1>5, <2>1 DEF TokenCurrent, ETag, Fetch
  <2>4. VisibleRefs' = VisibleRefs /\ VisibleHead' = VisibleHead => ViewSound(s)'
      BY <1>5, <1>b, <2>1, <2>3 DEF ViewSound, ViewCurrent, Fetch
  <2>5. QED
      BY <1>0, <1>5, <2>2, <2>4, RegisterFrame DEF Fetch, TypeOK
<1>6. ASSUME NEW s \in Sessions, NEW c \in Commits, LocalCommit(s, c) PROVE RegisterInv'
  <2>1. ViewSound(s)' /\ PushSound(s)'
    <3>1. VisibleRefs' = VisibleRefs /\ VisibleHead' = VisibleHead
        BY <1>0, <1>6, VisibleFrame DEF LocalCommit
    <3>2. writes' >= writes /\ (writes' = 0 => v2' = v2)
        BY <1>a, <1>6 DEF LocalCommit
    <3>3. QED
        BY <1>0, <1>6, <3>1, <3>2, OthersKept DEF LocalCommit
  <2>2. QED
      BY <1>0, <1>6, <2>1, RegisterFrame DEF LocalCommit, TypeOK
<1>7. ASSUME NEW s \in Sessions, NEW batch \in Batch, PushBatch(s, batch) PROVE RegisterInv'
  <2> DEFINE valid == Survivors(h[s].refs, odb[s], batch)
             table == Applied(h[s].refs, valid)
  <2>1. pc[s] = "ready" /\ sent[s].batches = 0 /\ sent'[s].batches > 0 /\ h' = h
    <3>1. sent[s].batches \in Nat /\ sent[s].batches < MaxBatches /\ pc[s] = "ready" /\ h' = h
        BY <1>0, <1>7 DEF PushBatch, TypeOK
    <3>2. sent'[s].batches = sent[s].batches + 1
        BY <1>0, <1>7 DEF PushBatch, TypeOK
    <3>3. QED
        BY <3>1, <3>2, PushAssumption DEF OneBatch
  <2>2. TokenCurrent(s)' => TokenCurrent(s)
      BY <1>7 DEF PushBatch, TokenCurrent, ETag
  <2>3. VisibleRefs' = VisibleRefs /\ VisibleHead' = VisibleHead =>
            (TokenCurrent(s)' => ViewCurrent(s)')
      BY <1>b, <2>1, <2>2 DEF ViewSound, ViewCurrent
  <2>4. CASE valid = NoUpdates
    <3>1. pc'[s] = "ready" /\ next' = next /\ report'[s] = "none"
        BY <1>0, <1>7, <2>1, <2>4 DEF PushBatch, TypeOK
    <3>2. PushSound(s)'
        BY <1>b, <2>1, <3>1 DEF PushSound, InPush
    <3>3. ViewSound(s)'
        BY <2>1, <3>1 DEF ViewSound, AfterSave, InPush
    <3>4. QED
        BY <1>0, <1>7, <3>2, <3>3, RegisterFrame DEF PushBatch, TypeOK
  <2>5. CASE valid # NoUpdates
    <3>1. pc'[s] = "build" /\ report'[s] = "pending"
        BY <1>0, <1>7, <2>5 DEF PushBatch, TypeOK
    <3>2. PICK head \in NewHeads(table, h[s].headRef, valid) :
             next'[s] = [refs |-> table, head |-> head, bundle |-> {}, updates |-> valid]
        BY <1>0, <1>7, <2>5 DEF PushBatch, TypeOK
    <3>3. \A r \in DOMAIN valid : Accepts(h[s].refs, Commits, r, valid[r])
      <4>1. \A r \in DOMAIN valid : Accepts(h[s].refs, odb[s], r, valid[r])
          BY SurvivorsAccepted
      <4>2. odb[s] \subseteq Commits
          BY <1>0 DEF TypeOK
      <4> HIDE DEF valid
      <4>3. QED
          BY <4>1, <4>2 DEF Accepts
    <3> HIDE DEF valid
    <3>4. PushSound(s)'
        BY <2>1, <3>1, <3>2, <3>3 DEF PushSound, InPush
    <3>5. VisibleRefs' = VisibleRefs /\ VisibleHead' = VisibleHead => ViewSound(s)'
        BY <2>1, <2>3, <3>1 DEF ViewSound, AfterSave, InPush
    <3>6. QED
        BY <1>0, <1>7, <3>4, <3>5, RegisterFrame DEF PushBatch, TypeOK
  <2>6. QED
      BY <2>4, <2>5
<1>8. ASSUME NEW s \in Sessions, BuildBundle(s) \/ UploadBundle(s) PROVE RegisterInv'
  <2>1. /\ pc[s] \in {"build", "upload"} /\ pc'[s] \in {"upload", "save"}
        /\ next'[s].refs = next[s].refs /\ next'[s].head = next[s].head
        /\ next'[s].updates = next[s].updates
        /\ UNCHANGED <<state, writes, v2, h, report, sent>>
      BY <1>0, <1>8 DEF BuildBundle, UploadBundle, TypeOK, Record
  <2>2. PushSound(s)'
      BY <1>b, <2>1 DEF PushSound, InPush
  <2>3. TokenCurrent(s)' => TokenCurrent(s)
      BY <2>1 DEF TokenCurrent, ETag
  <2>4. VisibleRefs' = VisibleRefs /\ VisibleHead' = VisibleHead => ViewSound(s)'
      BY <1>b, <2>1, <2>3 DEF ViewSound, ViewCurrent, AfterSave, InPush
  <2>5. QED
      BY <1>0, <1>8, <2>1, <2>2, <2>4, RegisterFrame DEF BuildBundle, UploadBundle, TypeOK
<1>9. ASSUME NEW s \in Sessions, SaveState(s) PROVE RegisterInv'
  <2>1. pc[s] = "save" /\ pc'[s] \in {"clean refs", "reread"} /\ next' = next
        /\ UNCHANGED <<report, sent>>
      BY <1>0, <1>9 DEF SaveState, TypeOK
  <2>2. PushSound(s)'
      BY <1>b, <2>1 DEF PushSound, InPush
  <2>3. writes' > 0 /\ ~TokenCurrent(s)' => ViewSound(s)'
      BY <1>b, <2>1 DEF ViewSound, AfterSave, InPush
  <2>4. QED
      BY <1>0, <1>9, <2>2, <2>3, RegisterWrite DEF SaveState, TypeOK
<1>10. ASSUME NEW s \in Sessions, SaveStateUnanswered(s) PROVE RegisterInv'
  <2>1. pc'[s] = "ready" /\ next'[s] = NoRecord /\ report'[s] \in {"failed", "conflict"}
      BY <1>0, <1>10 DEF SaveStateUnanswered, Answer, TypeOK
  <2>2. PushSound(s)'
      BY <2>1 DEF PushSound, InPush, NoRecord
  <2>3. writes' > 0 /\ ~TokenCurrent(s)' => ViewSound(s)'
      BY <2>1 DEF ViewSound, AfterSave, InPush
  <2>4. QED
      BY <1>0, <1>10, <2>2, <2>3, RegisterWrite DEF SaveStateUnanswered, Answer, TypeOK
<1>11. ASSUME NEW s \in Sessions, SaveConflict(s) \/ PushFails(s) PROVE RegisterInv'
  <2>1. /\ pc[s] \in {"build", "upload", "save"} /\ pc'[s] = "ready"
        /\ next'[s] = NoRecord /\ report'[s] \in {"failed", "conflict"}
        /\ UNCHANGED <<state, writes, v2, h, sent>>
      BY <1>0, <1>11 DEF SaveConflict, PushFails, Answer, TypeOK
  <2>2. PushSound(s)'
      BY <2>1 DEF PushSound, InPush, NoRecord
  <2>3. ViewSound(s)'
    <3>1. sent[s].batches \in Nat /\ sent[s].batches > 0
        BY <1>0, <1>b, <2>1 DEF ViewSound, InPush, TypeOK
    <3>2. sent'[s].batches # 0
        BY <2>1, <3>1
    <3>3. QED
        BY <2>1, <3>2 DEF ViewSound, AfterSave, InPush
  <2>4. QED
      BY <1>0, <1>11, <2>1, <2>2, <2>3, RegisterFrame
      DEF SaveConflict, PushFails, Answer, TypeOK
<1>12. ASSUME NEW s \in Sessions, CleanV2Refs(s) \/ CleanV2Head(s) PROVE RegisterInv'
  <2>1. /\ pc[s] \in AfterSave /\ pc'[s] \in AfterSave
        /\ UNCHANGED <<state, writes, h, next, report, sent>>
      BY <1>0, <1>12 DEF CleanV2Refs, CleanV2Head, AfterSave, TypeOK
  <2>2. writes > 0
      BY <1>b, <2>1 DEF ViewSound
  <2>3. PushSound(s)'
      BY <1>b, <2>1 DEF PushSound, InPush, AfterSave
  <2>4. ViewSound(s)'
      BY <1>b, <2>1, <2>2 DEF ViewSound, AfterSave, InPush
  <2>5. QED
      BY <1>0, <1>12, <2>1, <2>2, <2>3, <2>4, RegisterFrame
      DEF CleanV2Refs, CleanV2Head, TypeOK
<1>13. ASSUME NEW s \in Sessions, RereadETag(s) PROVE RegisterInv'
  <2>1. /\ pc[s] = "reread" /\ pc'[s] = "ready" /\ next'[s] = NoRecord
        /\ report'[s] = "ok" /\ UNCHANGED <<state, writes, v2, sent>>
      BY <1>0, <1>13 DEF RereadETag, Answer, TypeOK
  <2>2. PushSound(s)'
      BY <2>1 DEF PushSound, InPush, NoRecord
  <2>3. ViewSound(s)'
    <3>1. sent[s].batches \in Nat /\ sent[s].batches > 0
        BY <1>0, <1>b, <2>1 DEF ViewSound, InPush, TypeOK
    <3>2. sent'[s].batches # 0
        BY <2>1, <3>1
    <3>3. QED
        BY <2>1, <3>2 DEF ViewSound, AfterSave, InPush
  <2>4. QED
      BY <1>0, <1>13, <2>1, <2>2, <2>3, RegisterFrame DEF RereadETag, Answer, TypeOK
<1>14. ASSUME NEW s \in Sessions, Quit(s) PROVE RegisterInv'
  <2>1. pc'[s] = "idle" /\ next'[s] = NoRecord /\ report'[s] = "none"
      BY <1>0, <1>14 DEF Quit, TypeOK
  <2>2. PushSound(s)' /\ ViewSound(s)'
      BY <2>1 DEF PushSound, ViewSound, InPush, AfterSave, NoRecord
  <2>3. QED
      BY <1>0, <1>14, <2>2, RegisterFrame DEF Quit, TypeOK
<1>15. ASSUME UNCHANGED vars PROVE RegisterInv'
  <2>1. VisibleRefs' = VisibleRefs /\ VisibleHead' = VisibleHead
      BY <1>0, <1>15, VisibleFrame DEF vars
  <2>2. writes' >= writes
      BY <1>a, <1>15 DEF vars
  <2>3. \A s \in Sessions : ViewSound(s)' /\ PushSound(s)'
      BY <1>0, <1>15, <2>1, <2>2, OthersKept DEF vars
  <2>4. QED
      BY <1>0, <2>3 DEF RegisterInv
<1>16. QED
    BY <1>1, <1>2, <1>3, <1>4, <1>5, <1>6, <1>7, <1>8, <1>9, <1>10, <1>11, <1>12,
       <1>13, <1>14, <1>15 DEF Next, Progress, Environment

(* With one batch in a session, a session whose token still matches has the  *)
(* table and HEAD of the object it matches, and the push in progress was     *)
(* computed from them (helper.go, loadRemoteRefs and cmdPushBatch).          *)
THEOREM RegisterInvariant == Guarded /\ OneBatch => (Spec => []RegisterInv)
<1>1. ASSUME Guarded, OneBatch PROVE Spec => []RegisterInv
    BY <1>1, RegisterInit, RegisterNextKept, PTL DEF Spec
<1>2. QED
    BY <1>1
-----------------------------------------------------------------------------
(* Refinement *)

(* What the register sees of one session. *)
SameSession(s) ==
    /\ next'[s].updates = next[s].updates
    /\ Phase(s)' = Phase(s)
    /\ Answered(s)' = Answered(s)

(* A step that changes nothing the register sees is a stuttering step. *)
LEMMA Unseen ==
    ASSUME VisibleRefs' = VisibleRefs, VisibleHead' = VisibleHead,
           \A s \in Sessions : SameSession(s)
    PROVE  UNCHANGED Register!registerVars
BY DEF Register!registerVars, SameSession

(* A session finishing, with the outcome it reports. *)
LEMMA Finishing ==
    ASSUME NEW s \in Sessions, NEW outcome,
           \A t \in Sessions \ {s} : SameSession(t),
           next'[s].updates = NoUpdates, Phase(s)' = "quiet", Answered(s)' = outcome
    PROVE  Register!Finish(s, outcome)
BY DEF Register!Finish, SameSession, Register!NoUpdates, NoUpdates

(* A session none of whose fields change looks the same to the register. *)
LEMMA SameWhenKept ==
    ASSUME NEW s \in Sessions,
           next'[s] = next[s], pc'[s] = pc[s], report'[s] = report[s]
    PROVE  SameSession(s)
BY DEF SameSession, Phase, Answered

(* The answer to a batch finishes it: with an error, or ok. *)
LEMMA Answering ==
    ASSUME TypeOK, NEW s \in Sessions, NEW outcome \in {"ok", "conflict", "failed"},
           Answer(s, outcome)
    PROVE  Register!Finish(s, IF outcome = "ok" THEN "ok" ELSE "error")
<1>1. pc'[s] = "ready" /\ next'[s] = NoRecord /\ report'[s] = outcome
    BY DEF Answer, TypeOK
<1>2. next'[s].updates = NoUpdates /\ Phase(s)' = "quiet"
    BY <1>1 DEF NoRecord, Phase, InPush
<1>3. Answered(s)' = IF outcome = "ok" THEN "ok" ELSE "error"
    BY <1>1 DEF Answered
<1>4. \A t \in Sessions \ {s} : SameSession(t)
    BY SameWhenKept DEF Answer, TypeOK
<1>5. QED
    BY <1>2, <1>3, <1>4, Finishing

(* The remotes to start from are initial states of the register. *)
LEMMA RefinesInit == Init => Register!RegisterInit
<1> SUFFICES ASSUME Init PROVE Register!RegisterInit
    OBVIOUS
<1>1. VisibleRefs = v2.refs /\ VisibleHead = PickHead(v2.refs, v2.head)
    BY DEF Init, NoObject, VisibleRefs, VisibleHead
<1>2. \A s \in Sessions : /\ next[s].updates = NoUpdates
                          /\ Phase(s) = "quiet" /\ Answered(s) = "none"
    BY DEF Init, NoRecord, Phase, Answered, InPush
<1>3. QED
    BY <1>1, <1>2 DEF Init, Register!RegisterInit, Register!NoUpdates, NoUpdates,
                      Register!PickHead, PickHead, Register!Existing, Existing

(* The write of a state that nobody replaced in the meantime applies exactly *)
(* the updates of the session to the table it replaces.                      *)
LEMMA WriteApplies ==
    ASSUME Guarded, RegisterInv, NEW s \in Sessions,
           pc[s] = "save", Matches(s), WriteState(s)
    PROVE  Register!Apply(s)
<1>1. ViewSound(s) /\ PushSound(s) /\ TypeOK
    BY DEF RegisterInv, TokenInv
<1>2. ViewCurrent(s)
    BY <1>1 DEF ViewSound, Guarded, Matches, TokenCurrent
<1> DEFINE updates == next[s].updates
<1>3. /\ next[s].refs = Applied(VisibleRefs, updates)
      /\ next[s].head \in NewHeads(next[s].refs, VisibleHead, updates)
      /\ \A r \in DOMAIN updates : Accepts(VisibleRefs, Commits, r, updates[r])
    BY <1>1, <1>2 DEF PushSound, ViewCurrent
<1>4. state'.nonce # 0 /\ state'.refs = next[s].refs /\ state'.head = next[s].head
    BY <1>1 DEF WriteState, TypeOK
<1>5. VisibleRefs' = Applied(VisibleRefs, updates)
    BY <1>3, <1>4 DEF VisibleRefs
<1>6. VisibleHead' = PickHead(VisibleRefs', next[s].head)
    BY <1>4 DEF VisibleHead
<1>7. next[s].head \in NewHeads(VisibleRefs', VisibleHead, updates)
    BY <1>3, <1>5
<1>8. Phase(s) = "asked"
    BY DEF Phase
<1> HIDE DEF updates
<1>9. \A r \in DOMAIN updates : Register!Accepts(VisibleRefs, Commits, r, updates[r])
    BY <1>3 DEF Accepts, Register!Accepts
<1>10. VisibleRefs' = Register!Applied(VisibleRefs, updates)
    BY <1>5 DEF Applied, Register!Applied
<1>11. \A table, head : /\ Register!NewHeads(table, head, updates) = NewHeads(table, head, updates)
                        /\ Register!PickHead(table, head) = PickHead(table, head)
    BY DEF NewHeads, Register!NewHeads, PickHead, Register!PickHead,
           Existing, Register!Existing
<1>12. QED
    BY <1>6, <1>7, <1>8, <1>9, <1>10, <1>11 DEF Register!Apply, updates

(* Every step is a step of the register, or none. *)
LEMMA RefinesNext ==
    Guarded /\ RegisterInv /\ RegisterInv' /\ [Next]_vars
        => [Register!RegisterNext]_Register!registerVars
<1> SUFFICES ASSUME Guarded, RegisterInv, RegisterInv', [Next]_vars
             PROVE  [Register!RegisterNext]_Register!registerVars
    OBVIOUS
<1>0. TypeOK /\ TypeOK'
    BY DEF RegisterInv, TokenInv
<1>a. writes \in Nat /\ state.nonce = writes
    BY <1>0 DEF RegisterInv, TokenInv, TypeOK
<1>b. ASSUME NEW s \in Sessions PROVE ViewSound(s) /\ PushSound(s)
    BY DEF RegisterInv
<1>c. ASSUME UNCHANGED <<state, v2>>
      PROVE  VisibleRefs' = VisibleRefs /\ VisibleHead' = VisibleHead
    BY <1>0, <1>c, VisibleFrame
<1>1. ASSUME NEW s \in Sessions, ListETag(s) PROVE Register!Forget(s)
  <2>1. /\ pc[s] \notin InPush /\ next' = next
        /\ Phase(s)' = "quiet" /\ Answered(s)' = "none"
      BY <1>0, <1>1 DEF ListETag, TypeOK, InPush, Phase, Answered
  <2>2. next'[s].updates = NoUpdates
      BY <1>b, <2>1 DEF PushSound
  <2>3. \A t \in Sessions \ {s} : SameSession(t)
      BY <1>0, <1>1, SameWhenKept DEF ListETag, TypeOK
  <2>4. QED
      BY <1>1, <1>c, <2>1, <2>2, <2>3, Finishing DEF ListETag, Register!Forget
<1>2. ASSUME NEW s \in Sessions, ListGet(s) \/ ListV2Refs(s) \/ ListV2Head(s)
      PROVE  UNCHANGED Register!registerVars
  <2>1. \A t \in Sessions : SameSession(t)
      BY <1>0, <1>2 DEF ListGet, ListV2Refs, ListV2Head, TypeOK, InPush, SameSession,
                        Phase, Answered
  <2>2. QED
      BY <1>2, <1>c, <2>1, Unseen DEF ListGet, ListV2Refs, ListV2Head
<1>3. ASSUME NEW s \in Sessions, NEW c, Fetch(s, c) \/ LocalCommit(s, c)
      PROVE  UNCHANGED Register!registerVars
  <2>1. \A t \in Sessions : SameSession(t)
      BY <1>3, SameWhenKept DEF Fetch, LocalCommit
  <2>2. QED
      BY <1>3, <1>c, <2>1, Unseen DEF Fetch, LocalCommit
<1>4. ASSUME NEW s \in Sessions, NEW batch \in Batch, PushBatch(s, batch)
      PROVE  Register!Ask(s) \/ Register!Forget(s)
  <2> DEFINE valid == Survivors(h[s].refs, odb[s], batch)
  <2>1. \A t \in Sessions \ {s} : SameSession(t)
      BY <1>0, <1>4, SameWhenKept DEF PushBatch, TypeOK
  <2>2. VisibleRefs' = VisibleRefs /\ VisibleHead' = VisibleHead
      BY <1>4, <1>c DEF PushBatch
  <2>3. pc[s] = "ready" /\ Phase(s) = "quiet"
      BY <1>4 DEF PushBatch, Phase, InPush
  <2>4. CASE valid = NoUpdates
    <3>1. pc' = pc /\ next' = next /\ report'[s] = "none"
        BY <1>0, <1>4, <2>4 DEF PushBatch, TypeOK
    <3>2. next'[s].updates = NoUpdates
        BY <1>b, <2>3, <3>1 DEF PushSound, InPush
    <3>3. Phase(s)' = "quiet" /\ Answered(s)' = "none"
        BY <2>3, <3>1 DEF Phase, Answered
    <3>4. QED
        BY <2>1, <2>2, <3>2, <3>3, Finishing DEF Register!Forget
  <2>5. CASE valid # NoUpdates
    <3>1. pc'[s] = "build" /\ report'[s] = "pending"
        BY <1>0, <1>4, <2>5 DEF PushBatch, TypeOK
    <3>2. Phase(s)' = "asked" /\ Answered(s)' = "none"
        BY <3>1 DEF Phase, Answered
    <3>3. next'[s].updates \in Batch
        BY <1>0 DEF TypeOK, Record
    <3>4. QED
        BY <2>1, <2>2, <2>3, <3>2, <3>3
        DEF Register!Ask, SameSession, Register!Batch, Batch, Register!Command, Command
  <2>6. QED
      BY <2>4, <2>5
<1>5. ASSUME NEW s \in Sessions, BuildBundle(s) \/ UploadBundle(s)
      PROVE  UNCHANGED Register!registerVars
  <2>1. \A t \in Sessions : SameSession(t)
      BY <1>0, <1>5 DEF BuildBundle, UploadBundle, TypeOK, Record, SameSession,
                        Phase, Answered
  <2>2. QED
      BY <1>5, <1>c, <2>1, Unseen DEF BuildBundle, UploadBundle
<1>6. ASSUME NEW s \in Sessions, SaveState(s) PROVE Register!Land(s)
  <2>1. Register!Apply(s)
      BY <1>6, WriteApplies DEF SaveState
  <2>2. Phase(s)' = "landed"
      BY <1>0, <1>6 DEF SaveState, TypeOK, Phase, InPush
  <2>3. \A t \in Sessions \ {s} : SameSession(t)
      BY <1>0, <1>6, SameWhenKept DEF SaveState, TypeOK
  <2>4. next' = next /\ Answered(s)' = Answered(s)
      BY <1>6 DEF SaveState, Answered
  <2>5. QED
      BY <2>1, <2>2, <2>3, <2>4 DEF Register!Land, SameSession
<1>7. ASSUME NEW s \in Sessions, SaveStateUnanswered(s) PROVE Register!LandUnanswered(s)
  <2>1. Register!Apply(s)
      BY <1>7, WriteApplies DEF SaveStateUnanswered
  <2>2. PICK outcome \in {"conflict", "failed"} : Answer(s, outcome)
      BY <1>7 DEF SaveStateUnanswered
  <2>3. Register!Finish(s, "error")
      BY <1>0, <2>2, Answering
  <2>4. QED
      BY <2>1, <2>3 DEF Register!LandUnanswered
<1>8. ASSUME NEW s \in Sessions, SaveConflict(s) \/ PushFails(s) PROVE Register!Refuse(s)
  <2>1. Phase(s) = "asked"
      BY <1>8 DEF SaveConflict, PushFails, Phase
  <2>2. PICK outcome \in {"conflict", "failed"} : Answer(s, outcome)
      BY <1>8 DEF SaveConflict, PushFails
  <2>3. Register!Finish(s, "error")
      BY <1>0, <2>2, Answering
  <2>4. QED
      BY <1>8, <1>c, <2>1, <2>3 DEF SaveConflict, PushFails, Register!Refuse
<1>9. ASSUME NEW s \in Sessions, CleanV2Refs(s) \/ CleanV2Head(s)
      PROVE  UNCHANGED Register!registerVars
  <2>1. writes > 0
      BY <1>9, <1>b DEF CleanV2Refs, CleanV2Head, ViewSound, AfterSave
  <2>2. VisibleRefs' = VisibleRefs /\ VisibleHead' = VisibleHead
      BY <1>0, <1>a, <1>9, <2>1, VisibleFrame DEF CleanV2Refs, CleanV2Head
  <2>3. \A t \in Sessions : SameSession(t)
      BY <1>0, <1>9 DEF CleanV2Refs, CleanV2Head, TypeOK, SameSession, Phase, Answered,
                        InPush
  <2>4. QED
      BY <2>2, <2>3, Unseen
<1>10. ASSUME NEW s \in Sessions, RereadETag(s) PROVE Register!Succeed(s)
  <2>1. Phase(s) = "landed"
      BY <1>10 DEF RereadETag, Phase, InPush
  <2>2. Register!Finish(s, "ok")
      BY <1>0, <1>10, Answering DEF RereadETag
  <2>3. QED
      BY <1>10, <1>c, <2>1, <2>2 DEF RereadETag, Register!Succeed
<1>11. ASSUME NEW s \in Sessions, Quit(s) PROVE Register!Forget(s)
  <2>1. /\ next'[s].updates = NoUpdates
        /\ Phase(s)' = "quiet" /\ Answered(s)' = "none"
      BY <1>0, <1>11 DEF Quit, TypeOK, Phase, Answered, InPush, NoRecord
  <2>2. \A t \in Sessions \ {s} : SameSession(t)
      BY <1>0, <1>11, SameWhenKept DEF Quit, TypeOK
  <2>3. QED
      BY <1>11, <1>c, <2>1, <2>2, Finishing DEF Quit, Register!Forget
<1>12. ASSUME UNCHANGED vars PROVE UNCHANGED Register!registerVars
    BY <1>12, <1>c, SameWhenKept, Unseen DEF vars
<1>13. QED
    BY <1>1, <1>2, <1>3, <1>4, <1>5, <1>6, <1>7, <1>8, <1>9, <1>10, <1>11, <1>12
    DEF Next, Progress, Environment, Register!RegisterNext

(* Concurrent pushes lose cleanly: with conditional writes on objects whose  *)
(* bytes never repeat, and one batch in each session, every remote behaves   *)
(* as the one register of SnapshotRegister (snapshot.go, package comment).   *)
THEOREM PushesAreAtomic == Guarded /\ OneBatch => (Spec => IsRegister)
<1>1. ASSUME Guarded, OneBatch PROVE Spec => Register!RegisterSpec
  <2>1. Spec => []RegisterInv
      BY <1>1, RegisterInvariant
  <2>2. QED
      BY <1>1, <2>1, RefinesInit, RefinesNext, PTL DEF Spec, Register!RegisterSpec
<1>2. QED
    BY <1>1 DEF IsRegister
=============================================================================
