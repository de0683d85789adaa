--------------------------- MODULE PushFetchProofs ---------------------------
(***************************************************************************)
(* A session that lists once can fetch whatever it has listed.             *)
(***************************************************************************)
EXTENDS PushProofs

(* git lists a remote once before it fetches or pushes. *)
OneList == MaxLists <= 1

(* The flag is set by a fetch of the bundle the session still holds, and *)
(* such a session has used its listing.                                  *)
FlagSound(s) ==
    /\ pc[s] # "idle" => sent[s].lists > 0
    /\ h[s].unbundled =>
          pc[s] # "idle" /\ h[s].known /\ h[s].bundle \subseteq odb[s]

FetchInv == RestoreInv /\ \A s \in Sessions : FlagSound(s)

(* At the start no bundle has been applied. *)
LEMMA FetchInit == Init => FetchInv
BY RestoreInit DEF Init, FetchInv, FlagSound, FreshHelper

(* A session keeps its flag when its view stays and its objects do, or when *)
(* the flag is not set.                                                     *)
LEMMA FlagKept ==
    ASSUME NEW s \in Sessions, FlagSound(s),
           sent'[s].lists = sent[s].lists, pc'[s] = pc[s] \/ (pc[s] # "idle" /\ pc'[s] # "idle"),
           ~h'[s].unbundled \/ (h'[s] = h[s] /\ odb[s] \subseteq odb'[s])
    PROVE  FlagSound(s)'
BY DEF FlagSound

(* A session none of whose fields change keeps its flag. *)
LEMMA FlagUntouched ==
    ASSUME NEW s \in Sessions, FlagSound(s), h'[s] = h[s], pc'[s] = pc[s],
           odb'[s] = odb[s], sent'[s] = sent[s]
    PROVE  FlagSound(s)'
BY DEF FlagSound

(* A step of a session that is not idle, and does not become so. *)
LEMMA StaysBusy ==
    ASSUME TypeOK, NEW s \in Sessions, NEW t \in Sessions,
           NEW step \in InPush \cup {"ready"}, pc[s] # "idle", pc' = [pc EXCEPT ![s] = step]
    PROVE  pc'[t] = pc[t] \/ (pc[t] # "idle" /\ pc'[t] # "idle")
BY DEF TypeOK, InPush

(* Reading a record into the view leaves the flag as it is. *)
LEMMA FlagInView ==
    ASSUME NEW view \in Helper, NEW refs, NEW head, NEW bundle
    PROVE  /\ [view EXCEPT !.refs = refs].unbundled = view.unbundled
           /\ [view EXCEPT !.headRef = head].unbundled = view.unbundled
           /\ [view EXCEPT !.refs = refs, !.headRef = head,
                           !.known = TRUE, !.bundle = bundle].unbundled = view.unbundled
BY DEF Helper

(* Every step keeps the flags sound, action by action. *)
LEMMA FetchNext == OneList /\ FetchInv /\ [Next]_vars => FetchInv'
<1> SUFFICES ASSUME OneList, FetchInv, [Next]_vars PROVE FetchInv'
    OBVIOUS
<1>0. TypeOK /\ RestoreInv' /\ \A t \in Sessions : FlagSound(t)
    BY RestoreNext DEF FetchInv, RestoreInv
<1> USE DEF TypeOK
<1> SUFFICES ASSUME NEW t \in Sessions PROVE FlagSound(t)'
    BY <1>0 DEF FetchInv
<1>1. ASSUME NEW s \in Sessions, ListETag(s) PROVE FlagSound(t)'
  <2>1. sent[s].lists \in Nat /\ sent[s].lists < MaxLists
      BY <1>0, <1>1 DEF ListETag
  <2>2. ~h[s].unbundled
      BY <1>0, <2>1, PushAssumption DEF OneList, FlagSound
  <2>3. CASE t = s
    <3>1. ~h'[s].unbundled /\ sent'[s].lists = sent[s].lists + 1
        BY <1>0, <1>1, <2>2 DEF ListETag, FreshHelper
    <3>2. QED
        BY <2>1, <2>3, <3>1 DEF FlagSound
  <2>4. CASE t # s
      BY <1>0, <1>1, <2>4, FlagUntouched DEF ListETag
  <2>5. QED
      BY <2>3, <2>4
<1>2. ASSUME NEW s \in Sessions, ListGet(s) \/ ListV2Refs(s) \/ ListV2Head(s)
      PROVE  FlagSound(t)'
  <2>1. ~h[s].known
      BY <1>2 DEF FetchInv, RestoreInv, ViewRestorable, ListGet, ListV2Refs, ListV2Head
  <2>2. ~h[s].unbundled
      BY <1>0, <2>1 DEF FlagSound
  <2>3. h'[s].unbundled = h[s].unbundled
    <3>1. CASE ListGet(s)
        BY <1>0, <3>1, FlagInView DEF ListGet
    <3>2. CASE ListV2Refs(s)
        BY <1>0, <3>2, FlagInView DEF ListV2Refs
    <3>3. CASE ListV2Head(s)
        BY <1>0, <3>3, FlagInView DEF ListV2Head
    <3>4. QED
        BY <1>2, <3>1, <3>2, <3>3
  <2>4. pc[s] # "idle" /\ pc'[s] # "idle" /\ sent' = sent
      BY <1>0, <1>2 DEF ListGet, ListV2Refs, ListV2Head
  <2>5. CASE t = s
      BY <1>0, <2>2, <2>3, <2>4, <2>5, FlagKept
  <2>6. CASE t # s
      BY <1>0, <1>2, <2>6, FlagUntouched DEF ListGet, ListV2Refs, ListV2Head
  <2>7. QED
      BY <2>5, <2>6
<1>3. ASSUME NEW s \in Sessions, NEW c \in Tips(h[s].refs), Fetch(s, c) PROVE FlagSound(t)'
  <2>1. CASE t = s
    <3>1. pc' = pc /\ sent' = sent /\ pc[s] = "ready"
        BY <1>3 DEF Fetch
    <3>2. odb'[s] = odb[s] \cup Download(s, c)
        BY <1>0, <1>3 DEF Fetch
    <3>3. h' = [h EXCEPT ![s].unbundled = h[s].unbundled \/ h[s].known]
        BY <1>3 DEF Fetch
    <3>4. h'[s].known = h[s].known /\ h'[s].bundle = h[s].bundle
        BY <1>0, <3>3 DEF Helper
    <3>5. h'[s].unbundled <=> h[s].unbundled \/ h[s].known
        BY <1>0, <3>3, Zenon DEF Helper
    <3>6. QED
        BY <1>0, <2>1, <3>1, <3>2, <3>4, <3>5 DEF FlagSound, Download
  <2>2. CASE t # s
      BY <1>0, <1>3, <2>2, FlagUntouched DEF Fetch
  <2>3. QED
      BY <2>1, <2>2
<1>4. ASSUME NEW s \in Sessions, NEW c \in Commits, LocalCommit(s, c) PROVE FlagSound(t)'
  <2>1. UNCHANGED <<h, pc, sent>> /\ odb[t] \subseteq odb'[t]
      BY <1>0, <1>4 DEF LocalCommit
  <2>2. QED
      BY <1>0, <2>1 DEF FlagSound
<1>5. ASSUME NEW s \in Sessions, NEW batch \in Batch, PushBatch(s, batch) PROVE FlagSound(t)'
  <2>1. UNCHANGED <<h, odb>> /\ pc[s] = "ready" /\ sent'[t].lists = sent[t].lists
      BY <1>0, <1>5 DEF PushBatch
  <2>2. pc' = pc \/ pc' = [pc EXCEPT ![s] = "build"]
      BY <1>5 DEF PushBatch
  <2>3. pc'[t] = pc[t] \/ (pc[t] # "idle" /\ pc'[t] # "idle")
      BY <1>0, <2>1, <2>2, StaysBusy
  <2>4. QED
      BY <1>0, <2>1, <2>3, FlagKept
<1>6. ASSUME NEW s \in Sessions,
             BuildBundle(s) \/ UploadBundle(s) \/ SaveState(s) \/ CleanV2Refs(s) \/ CleanV2Head(s)
      PROVE  FlagSound(t)'
  <2>1. UNCHANGED <<h, odb, sent>> /\ pc[s] # "idle"
      BY <1>6 DEF BuildBundle, UploadBundle, SaveState, CleanV2Refs, CleanV2Head
  <2>2. PICK step \in InPush : pc' = [pc EXCEPT ![s] = step]
      BY <1>6 DEF BuildBundle, UploadBundle, SaveState, CleanV2Refs, CleanV2Head, InPush
  <2>3. pc'[t] = pc[t] \/ (pc[t] # "idle" /\ pc'[t] # "idle")
      BY <1>0, <2>1, <2>2, StaysBusy DEF InPush
  <2>4. QED
      BY <1>0, <2>1, <2>3, FlagKept
<1>7. ASSUME NEW s \in Sessions,
             SaveStateUnanswered(s) \/ SaveConflict(s) \/ PushFails(s) \/ RereadETag(s)
      PROVE  FlagSound(t)'
  <2>1. UNCHANGED <<odb, sent>> /\ pc[s] # "idle" /\ pc' = [pc EXCEPT ![s] = "ready"]
      BY <1>7 DEF SaveStateUnanswered, SaveConflict, PushFails, RereadETag, Answer
  <2>2. pc'[t] = pc[t] \/ (pc[t] # "idle" /\ pc'[t] # "idle")
      BY <1>0, <2>1, StaysBusy
  <2>3. ~h'[t].unbundled \/ h'[t] = h[t]
    <3>1. CASE RereadETag(s)
        BY <1>0, <3>1 DEF RereadETag
    <3>2. CASE ~RereadETag(s)
        BY <1>7, <3>2 DEF SaveStateUnanswered, SaveConflict, PushFails
    <3>3. QED
        BY <3>1, <3>2
  <2>4. QED
      BY <1>0, <2>1, <2>2, <2>3, FlagKept
<1>8. ASSUME NEW s \in Sessions, Quit(s) PROVE FlagSound(t)'
  <2>1. CASE t = s
      BY <1>0, <1>8, <2>1 DEF Quit, FreshHelper, FlagSound
  <2>2. CASE t # s
    <3>1. h'[t] = h[t] /\ pc'[t] = pc[t] /\ sent'[t] = sent[t] /\ odb'[t] = odb[t]
        BY <1>0, <1>8, <2>2 DEF Quit
    <3>2. QED
        BY <1>0, <3>1, FlagUntouched
  <2>3. QED
      BY <2>1, <2>2
<1>9. CASE UNCHANGED vars
  <2>1. UNCHANGED <<h, pc, sent, odb>>
      BY <1>9 DEF vars
  <2>2. QED
      BY <1>0, <2>1, FlagUntouched
<1>10. QED
    BY <1>1, <1>2, <1>3, <1>4, <1>5, <1>6, <1>7, <1>8, <1>9
    DEF Next, Progress, Environment

(* A session that lists once never asks for a bundle that is not there, and  *)
(* never finds a listed object missing from the bundle it applied, whatever  *)
(* other sessions push or migrate meanwhile (helper.go, fetchOne).           *)
THEOREM ListedStaysFetchable == OneList => (Spec => []ListedIsFetchable)
<1>1. FetchInv => ListedIsFetchable
  <2> SUFFICES ASSUME FetchInv, NEW s \in Sessions, NEW c \in Tips(h[s].refs)
               PROVE  CanFetch(s, c)
      BY DEF ListedIsFetchable
  <2>1. PICK r \in Existing(h[s].refs) : c = h[s].refs[r]
      BY DEF Tips
  <2>2. ViewRestorable(s) /\ FlagSound(s) /\ h[s].refs \in Table
      BY DEF FetchInv, RestoreInv, TypeOK, Helper
  <2>3. CASE h[s].known
    <3>1. c \in h[s].bundle
        BY <2>1, <2>2, <2>3, TipsInHistory DEF ViewRestorable
    <3>2. QED
        BY <2>2, <2>3, <3>1 DEF ViewRestorable, FlagSound, CanFetch, Download
  <2>4. CASE ~h[s].known
    <3>1. c \in Closure[c] /\ Closure[c] \in stored
        BY <2>1, <2>2, <2>4, TipsInHistory, RefTableAssumption DEF ViewRestorable
    <3>2. QED
        BY <2>4, <3>1 DEF CanFetch, Download
  <2>5. QED
      BY <2>3, <2>4
<1>2. ASSUME OneList PROVE Spec => []FetchInv
    BY <1>2, FetchInit, FetchNext, PTL DEF Spec
<1>3. ASSUME OneList PROVE Spec => []ListedIsFetchable
    BY <1>1, <1>2, <1>3, PTL
<1>4. QED
    BY <1>3
=============================================================================
