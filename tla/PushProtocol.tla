---------------------------- MODULE PushProtocol ----------------------------
(***************************************************************************)
(* Remote-helper sessions listing, fetching from and pushing to one data   *)
(* generation of a remote.                                                 *)
(*                                                                         *)
(* The remote holds the state object (ref table, HEAD and the id of the    *)
(* one bundle that covers every ref), the kopia objects the bundles are    *)
(* stored as and, on remotes of an older format, per-ref manifests ("v2"). *)
(* A session reads the table, validates pushes against what it read,       *)
(* uploads a bundle for the complete new table and swaps the state object  *)
(* with a conditional write on the ETag it read.                           *)
(*                                                                         *)
(* Abstractions.  A bundle is the set of objects in it, and kopia object   *)
(* ids are content addresses, so the bundle is its own id; {} is the empty *)
(* id.  The bytes of the state object are its record plus a nonce: every   *)
(* age encryption of a record is different, the plaintext of a record is   *)
(* always the same.  A session belongs to a clone and a clone runs one     *)
(* session at a time; a PUT still travelling when its session dies is a    *)
(* session that dies after the PUT has landed.  Clones are complete: of a  *)
(* commit they hold they hold the history (a shallow clone does not).      *)
(***************************************************************************)
EXTENDS RefTable

CONSTANTS
    Sessions,     \* the clones, each running one helper session at a time
    Cloned,       \* Cloned[s]: the objects of a clone at the start
    Authored,     \* Authored[s]: the commits its user may make later
    V2Remotes,    \* what a remote may hold at the start: records [refs, head]
    Encrypted,    \* FALSE = encryption=none
    Conditional,  \* FALSE = a backend without conditional writes
    MaxLists,     \* list commands git sends in one session
    MaxBatches,   \* push batches git sends in one session
    MaxWrites     \* bound: state writes in a behaviour

ASSUME PushAssumption ==
    /\ Encrypted \in BOOLEAN
    /\ Conditional \in BOOLEAN
    /\ MaxLists \in Nat
    /\ MaxBatches \in Nat
    /\ MaxWrites \in Nat
    /\ Cloned \in [Sessions -> SUBSET Commits]
    /\ Authored \in [Sessions -> SUBSET Commits]
    /\ \A s \in Sessions : \A c \in Cloned[s] : Closure[c] \subseteq Cloned[s]
    /\ V2Remotes \subseteq [refs : Table, head : HeadName]

VARIABLES
    state,   \* the object state-<gen>; nonce 0 = the object does not exist
    writes,  \* state objects written so far
    stored,  \* bundles that are durable kopia objects
    v2,      \* the per-ref manifests: [refs, head]
    odb,     \* odb[s]: the objects of the clone's local repository
    pc,      \* pc[s]: what the session does next
    h,       \* h[s]: the Helper's fields that hold the remote's state
    next,    \* next[s]: the push in progress: its commands, the record it will save
    report,  \* report[s]: the answer to the surviving commands of its last batch
    sent     \* sent[s]: commands git has sent in this session

vars == <<state, writes, stored, v2, odb, pc, h, next, report, sent>>

StateObject ==
    [refs : Table, head : HeadName, bundle : SUBSET Commits, nonce : Nat]

NoObject == [refs |-> EmptyTable, head |-> None, bundle |-> {}, nonce |-> 0]

(* A collision-free digest of the object's bytes; that of NoObject is "". *)
ETag(o) == <<o.nonce, o.refs, o.head, o.bundle>>

Token == Nat \X Table \X HeadName \X SUBSET Commits

(* The Helper between process start and its first list. *)
FreshHelper ==
    [refs |-> EmptyTable, headRef |-> None,
     known |-> FALSE,              \* h.state # nil
     bundle |-> {},                \* h.state.Bundle
     stateETag |-> ETag(NoObject),
     unbundled |-> FALSE]

Helper == [refs : Table, headRef : HeadName, known : BOOLEAN, bundle : SUBSET Commits,
           stateETag : Token, unbundled : BOOLEAN]

(* The push in progress: the snapshot.State it will save and its commands. *)
Record == [refs : Table, head : HeadName, bundle : SUBSET Commits, updates : Batch]

NoRecord == [refs |-> EmptyTable, head |-> None, bundle |-> {}, updates |-> NoUpdates]

Reports == {"none", "pending", "ok", "conflict", "failed"}

Init ==
    /\ state = NoObject
    /\ writes = 0
    /\ v2 \in V2Remotes
    /\ stored = {Closure[v2.refs[r]] : r \in Existing(v2.refs)}
    /\ odb = Cloned
    /\ pc = [s \in Sessions |-> "idle"]
    /\ h = [s \in Sessions |-> FreshHelper]
    /\ next = [s \in Sessions |-> NoRecord]
    /\ report = [s \in Sessions |-> "none"]
    /\ sent = [s \in Sessions |-> [lists |-> 0, batches |-> 0]]

-----------------------------------------------------------------------------
(* list *)

(* The first call of a listing: the fields are reset and the state object's *)
(* ETag is taken.  Without the object the v2 manifests are read instead.    *)
(* A remote without keyring or repository lists like one without either.    *)
ListETag(s) ==
    /\ pc[s] \in {"idle", "ready"}
    /\ sent[s].lists < MaxLists
    /\ sent' = [sent EXCEPT ![s].lists = @ + 1]
    /\ h' = [h EXCEPT ![s] = [FreshHelper EXCEPT !.stateETag = ETag(state),
                                                 !.unbundled = h[s].unbundled]]
    /\ report' = [report EXCEPT ![s] = "none"]
    /\ pc' = [pc EXCEPT ![s] = IF state.nonce = 0 THEN "v2refs" ELSE "get"]
    /\ UNCHANGED <<state, writes, stored, v2, odb, next>>

(* The second call reads the record, which may be newer than the ETag. *)
ListGet(s) ==
    /\ pc[s] = "get"
    /\ h' = [h EXCEPT ![s] = [@ EXCEPT !.refs = state.refs,
                                       !.headRef = PickHead(state.refs, state.head),
                                       !.known = TRUE,
                                       !.bundle = state.bundle]]
    /\ pc' = [pc EXCEPT ![s] = "ready"]
    /\ UNCHANGED <<state, writes, stored, v2, odb, next, report, sent>>

ListV2Refs(s) ==
    /\ pc[s] = "v2refs"
    /\ h' = [h EXCEPT ![s].refs = v2.refs]
    /\ pc' = [pc EXCEPT ![s] = "v2head"]
    /\ UNCHANGED <<state, writes, stored, v2, odb, next, report, sent>>

ListV2Head(s) ==
    /\ pc[s] = "v2head"
    /\ h' = [h EXCEPT ![s].headRef = PickHead(h[s].refs, v2.head)]
    /\ pc' = [pc EXCEPT ![s] = "ready"]
    /\ UNCHANGED <<state, writes, stored, v2, odb, next, report, sent>>

-----------------------------------------------------------------------------
(* fetch *)

(* What the remote delivers for one wanted object: the one bundle, or the *)
(* bundle of the v2 ref that points at it.                                *)
Download(s, c) == IF h[s].known THEN h[s].bundle ELSE Closure[c]

(* A want the session can satisfy: the object is here, or in a bundle it *)
(* has not applied yet.                                                  *)
CanFetch(s, c) ==
    \/ c \in odb[s]
    \/ /\ h[s].known => ~h[s].unbundled
       /\ Download(s, c) \in stored
       /\ c \in Download(s, c)

Fetch(s, c) ==
    /\ pc[s] = "ready"
    /\ c \notin odb[s]
    /\ CanFetch(s, c)
    /\ odb' = [odb EXCEPT ![s] = @ \cup Download(s, c)]
    /\ h' = [h EXCEPT ![s].unbundled = @ \/ h[s].known]
    /\ UNCHANGED <<state, writes, stored, v2, pc, next, report, sent>>

(* The clone's user, or another git process, commits on what it has. *)
LocalCommit(s, c) ==
    /\ pc[s] \in {"idle", "ready"}
    /\ c \in Authored[s] \ odb[s]
    /\ Closure[c] \ {c} \subseteq odb[s]
    /\ odb' = [odb EXCEPT ![s] = @ \cup {c}]
    /\ UNCHANGED <<state, writes, stored, v2, pc, h, next, report, sent>>

-----------------------------------------------------------------------------
(* push *)

InPush == {"build", "upload", "save", "clean refs", "clean head", "reread"}

Pushing == {s \in Sessions : pc[s] \in {"build", "upload", "save"}}

(* A batch is validated against the table the session read.  Refused        *)
(* commands are answered as such and change nothing; the others become ONE  *)
(* new table and share one answer.                                          *)
PushBatch(s, batch) ==
    LET valid == Survivors(h[s].refs, odb[s], batch)
        table == Applied(h[s].refs, valid)
    IN  /\ pc[s] = "ready"
        /\ batch # NoUpdates
        /\ sent[s].batches < MaxBatches
        /\ writes + Cardinality(Pushing) < MaxWrites
        /\ sent' = [sent EXCEPT ![s].batches = @ + 1]
        /\ report' = [report EXCEPT ![s] = IF valid = NoUpdates THEN "none" ELSE "pending"]
        /\ IF valid = NoUpdates
           THEN UNCHANGED <<pc, next>>
           ELSE /\ \E head \in NewHeads(table, h[s].headRef, valid) :
                     next' = [next EXCEPT ![s] = [refs |-> table, head |-> head,
                                                  bundle |-> {}, updates |-> valid]]
                /\ pc' = [pc EXCEPT ![s] = "build"]
        /\ UNCHANGED <<state, writes, stored, v2, odb, h>>

(* The one answer for all updates of the batch, and the end of the batch. *)
Answer(s, outcome) ==
    /\ report' = [report EXCEPT ![s] = outcome]
    /\ next' = [next EXCEPT ![s] = NoRecord]
    /\ pc' = [pc EXCEPT ![s] = "ready"]

(* Remote objects for a push whose table names refs absent from the clone: *)
(* those of the snapshot, or of every v2 ref, that the session has read.   *)
(* (Slips: one of the two is forgotten.)                                   *)
SeedFromSnapshotOnly(s) == h[s].bundle

SeedFromManifestsOnly(s) == IF h[s].known THEN {} ELSE History(h[s].refs)

Seed(s) == IF h[s].known THEN h[s].bundle ELSE History(h[s].refs)

Tips(table) == {table[r] : r \in Existing(table)}

CanBuild(s) == Tips(next[s].refs) \subseteq odb[s] \cup Seed(s)

(* Slip: the bundle is made from the local repository alone.               *)
BuildLocalBundle(s) ==
    /\ pc[s] = "build"
    /\ next' = [next EXCEPT ![s].bundle = History(next[s].refs) \cap odb[s]]
    /\ pc' = [pc EXCEPT ![s] = "upload"]
    /\ UNCHANGED <<state, writes, stored, v2, odb, h, report, sent>>

(* Either way of bundling, locally or merged in a scratch repository, gives *)
(* the full history of every ref of the new table.                          *)
BuildBundle(s) ==
    /\ pc[s] = "build"
    /\ CanBuild(s)
    /\ next' = [next EXCEPT ![s].bundle = History(next[s].refs)]
    /\ pc' = [pc EXCEPT ![s] = "upload"]
    /\ UNCHANGED <<state, writes, stored, v2, odb, h, report, sent>>

(* Slip: the state is saved before the upload is durable. *)
UploadInBackground(s) ==
    /\ pc[s] = "upload"
    /\ pc' = [pc EXCEPT ![s] = "save"]
    /\ UNCHANGED <<state, writes, stored, v2, odb, h, next, report, sent>>

(* An empty table has no bundle and uploads nothing. *)
UploadBundle(s) ==
    /\ pc[s] = "upload"
    /\ stored' = IF next[s].refs = EmptyTable THEN stored ELSE stored \cup {next[s].bundle}
    /\ pc' = [pc EXCEPT ![s] = "save"]
    /\ UNCHANGED <<state, writes, v2, odb, h, next, report, sent>>

(* The conditional write finds the object the session read; a backend *)
(* without conditional writes takes the plain write that follows.     *)
(* (Slip: the condition is dropped for an object that should be new.) *)
MatchesOrNew(s) ==
    Conditional => h[s].stateETag \in {ETag(state), ETag(NoObject)}

Matches(s) == Conditional => h[s].stateETag = ETag(state)

WriteState(s) ==
    /\ writes' = writes + 1
    /\ state' = [refs |-> next[s].refs, head |-> next[s].head, bundle |-> next[s].bundle,
                 nonce |-> IF Encrypted THEN writes + 1 ELSE 1]

(* A table read from v2 manifests is superseded: they are removed next. *)
SaveState(s) ==
    /\ pc[s] = "save"
    /\ Matches(s)
    /\ WriteState(s)
    /\ pc' = [pc EXCEPT ![s] = IF ~h[s].known /\ Existing(h[s].refs) # {}
                               THEN "clean refs" ELSE "reread"]
    /\ UNCHANGED <<stored, v2, odb, h, next, report, sent>>

(* The write lands and its response is lost: the caller sees an error, or  *)
(* the client library's own retry finds the precondition no longer holds.  *)
SaveStateUnanswered(s) ==
    /\ pc[s] = "save"
    /\ Matches(s)
    /\ WriteState(s)
    /\ \E outcome \in {"failed"} \cup {o \in {"conflict"} : Conditional} : Answer(s, outcome)
    /\ UNCHANGED <<stored, v2, odb, h, sent>>

(* Slip: the token is refreshed without reading the table again. *)
SaveConflictRefreshing(s) ==
    /\ pc[s] = "save"
    /\ ~Matches(s)
    /\ h' = [h EXCEPT ![s].stateETag = ETag(state)]
    /\ Answer(s, "conflict")
    /\ UNCHANGED <<state, writes, stored, v2, odb, sent>>

SaveConflict(s) ==
    /\ pc[s] = "save"
    /\ ~Matches(s)
    /\ Answer(s, "conflict")
    /\ UNCHANGED <<state, writes, stored, v2, odb, h, sent>>

(* Removing the manifests is best effort, in two write sessions: an error *)
(* in either is only a warning.                                           *)
CleanV2Refs(s) ==
    /\ pc[s] = "clean refs"
    /\ \/ /\ v2' = [v2 EXCEPT !.refs = EmptyTable]
          /\ pc' = [pc EXCEPT ![s] = "clean head"]
       \/ /\ v2' = v2
          /\ pc' = [pc EXCEPT ![s] = "reread"]
    /\ UNCHANGED <<state, writes, stored, odb, h, next, report, sent>>

CleanV2Head(s) ==
    /\ pc[s] = "clean head"
    /\ v2' \in {v2, [v2 EXCEPT !.head = None]}
    /\ pc' = [pc EXCEPT ![s] = "reread"]
    /\ UNCHANGED <<state, writes, stored, odb, h, next, report, sent>>

(* The session adopts what it wrote, with the ETag the object has by now *)
(* ("" when asking for it fails), and answers ok.                        *)
RereadETag(s) ==
    /\ pc[s] = "reread"
    /\ \E etag \in {ETag(state), ETag(NoObject)} :
         h' = [h EXCEPT ![s] = [refs |-> next[s].refs, headRef |-> next[s].head,
                                known |-> TRUE, bundle |-> next[s].bundle,
                                stateETag |-> etag, unbundled |-> FALSE]]
    /\ Answer(s, "ok")
    /\ UNCHANGED <<state, writes, stored, v2, odb, sent>>

(* Building, uploading or the state write fails before anything lands. *)
PushFails(s) ==
    /\ pc[s] \in {"build", "upload", "save"}
    /\ Answer(s, "failed")
    /\ UNCHANGED <<state, writes, stored, v2, odb, h, sent>>

-----------------------------------------------------------------------------
(* The session ends: git is done with it, a list or fetch returned an error, *)
(* or the process was killed, at any point.                                  *)
Quit(s) ==
    /\ pc[s] # "idle"
    /\ pc' = [pc EXCEPT ![s] = "idle"]
    /\ h' = [h EXCEPT ![s] = FreshHelper]
    /\ next' = [next EXCEPT ![s] = NoRecord]
    /\ report' = [report EXCEPT ![s] = "none"]
    /\ sent' = [sent EXCEPT ![s] = [lists |-> 0, batches |-> 0]]
    /\ UNCHANGED <<state, writes, stored, v2, odb>>

(* What a session does by itself once git has sent the command. *)
Progress(s) ==
    \/ ListGet(s) \/ ListV2Refs(s) \/ ListV2Head(s)
    \/ BuildBundle(s) \/ UploadBundle(s)
    \/ SaveState(s) \/ SaveStateUnanswered(s) \/ SaveConflict(s)
    \/ CleanV2Refs(s) \/ CleanV2Head(s) \/ RereadETag(s)

(* What git, its user and the network decide. *)
Environment(s) ==
    \/ ListETag(s)
    \/ \E c \in Tips(h[s].refs) : Fetch(s, c)
    \/ \E c \in Commits : LocalCommit(s, c)
    \/ \E batch \in Batch : PushBatch(s, batch)
    \/ PushFails(s)
    \/ Quit(s)

Next == \E s \in Sessions : Progress(s) \/ Environment(s)

Spec == Init /\ [][Next]_vars

(* A session that is not killed keeps executing its own steps. *)
FairSpec == Spec /\ \A s \in Sessions : WF_vars(Progress(s))

-----------------------------------------------------------------------------
(* Correctness *)

(* Every variable stays in its type. *)
TypeOK ==
    /\ state \in StateObject
    /\ writes \in Nat
    /\ stored \subseteq SUBSET Commits
    /\ v2 \in [refs : Table, head : HeadName]
    /\ odb \in [Sessions -> SUBSET Commits]
    /\ pc \in [Sessions -> {"idle", "get", "v2refs", "v2head", "ready"} \cup InPush]
    /\ h \in [Sessions -> Helper]
    /\ next \in [Sessions -> Record]
    /\ report \in [Sessions -> Reports]
    /\ sent \in [Sessions -> [lists : Nat, batches : Nat]]

(* A clone of the remote is always possible: the bundle the current state    *)
(* object names is a durable kopia object and holds the history of every ref *)
(* of its table, those the pushing clone never fetched included, and its     *)
(* HEAD does not dangle (helper.go, pushSnapshot and buildSnapshotBundle).   *)
Restorable ==
    /\ History(state.refs) \subseteq state.bundle
    /\ state.bundle # {} => state.bundle \in stored
    /\ state.head \in Existing(state.refs) \cup {None}

(* Every ref a session lists can be fetched by that session, whatever other *)
(* sessions push meanwhile (helper.go, fetchOne: "missing from the snapshot *)
(* bundle" and "no bundle found" never happen).                             *)
ListedIsFetchable ==
    \A s \in Sessions :
        pc[s] = "ready" => \A c \in Tips(h[s].refs) : CanFetch(s, c)

(* A validated push can always be bundled: each object the new table needs  *)
(* is local or in the remote objects the session has read (helper.go,       *)
(* buildSnapshotBundle never fails to find a ref in either repository).     *)
PushIsBuildable == \A s \in Sessions : pc[s] = "build" => CanBuild(s)

(* A refused push stays refused: once told of a concurrent push, the token  *)
(* the session still holds never matches the state object again, so only a  *)
(* new listing can push (snapshot.go, ErrConcurrentUpdate: "the caller      *)
(* fetches and retries").                                                   *)
ConflictIsFinal ==
    \A s \in Sessions :
        report[s] = "conflict" => h[s].stateETag # ETag(state)

(* What a listing shows at this moment. *)
VisibleRefs == IF state.nonce = 0 THEN v2.refs ELSE state.refs
VisibleHead == PickHead(VisibleRefs, IF state.nonce = 0 THEN v2.head ELSE state.head)

Phase(s) ==
    IF pc[s] \in {"build", "upload", "save"} THEN "asked"
    ELSE IF pc[s] \in InPush THEN "landed" ELSE "quiet"

Answered(s) ==
    IF report[s] \in {"conflict", "failed"} THEN "error"
    ELSE IF report[s] = "ok" THEN "ok" ELSE "none"

Register == INSTANCE SnapshotRegister
                WITH refs <- VisibleRefs, head <- VisibleHead, Start <- V2Remotes,
                     request <- [s \in Sessions |-> next[s].updates],
                     phase <- [s \in Sessions |-> Phase(s)],
                     answer <- [s \in Sessions |-> Answered(s)]

(* The remote behaves as one register: every saved table is the session's    *)
(* own updates applied to the table it replaces, so no concurrent push is    *)
(* lost, deleted refs stay deleted through the migration of an old remote,   *)
(* refs move backwards only by force, and ok means landed, once (snapshot.go *)
(* package comment: "concurrent pushes lose cleanly").                       *)
IsRegister == Register!RegisterSpec
=============================================================================
