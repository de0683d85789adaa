------------------------------ MODULE Rotation ------------------------------
(***************************************************************************)
(* Key rotation: the whole remote is copied into a new generation under a  *)
(* new repository key, every key slot is re-wrapped, the generation        *)
(* pointer is swapped and the old generation deleted, while sessions push. *)
(*                                                                         *)
(* Every call on the bucket is a step, and a rotation may be killed before *)
(* any of them ("killed" also stands for a call that fails).               *)
(*                                                                         *)
(* Abstractions.  Generations data, data2, ... are 1, 2, ...; key 1 is the *)
(* first, run n of "key rotate" may generate key n + 1.  A kopia           *)
(* repository is the key that is its password, and its bundles are there   *)
(* while it is.  The table of a state record is the set of pushes in it,   *)
(* and its ETag is named after whoever wrote it, who writes it once.  The  *)
(* set of slots is fixed here, so a seal is the key it is made with and    *)
(* the repo.pub it covers, and reading them for it is one step.  The       *)
(* remote is encrypted, on a backend with conditional writes, and has no   *)
(* per-ref manifests: without a state record its table is empty.           *)
(***************************************************************************)
EXTENDS Integers, FiniteSets

CONSTANTS
    Rotators,   \* machines that run "key rotate"
    Owner,      \* Owner[r]: the slot the machine's identity opens
    Slots,      \* the key slots, members' and recovery
    Recorded,   \* those with a recorded public key
    Pushes,     \* pushes, one session each
    PushedBy,   \* PushedBy[q]: the slot the pushing clone opens
    Killable,   \* the points at which a rotation may be killed
    Flaky,      \* TRUE = a call may fail where the code goes on regardless
    Prefixed,   \* TRUE = the remote has a prefix, FALSE = it is a whole bucket
    MaxRuns,    \* bound: rotations started
    MaxRounds,  \* rounds of Build before it gives up (5 in the code)
    None

Runs == 1..MaxRuns
Gens == 1..(MaxRuns + 1)
Keys == 1..(MaxRuns + 1)

ASSUME RotationAssumption ==
    /\ MaxRuns \in Nat
    /\ MaxRounds \in Nat \ {0}
    /\ Flaky \in BOOLEAN
    /\ Prefixed \in BOOLEAN
    /\ Recorded \subseteq Slots
    /\ Owner \in [Rotators -> Slots]
    /\ PushedBy \in [Pushes -> Slots]
    /\ Pushes \cap (0..MaxRuns) = {}
    /\ None \notin Pushes \cup (0..MaxRuns)

VARIABLES
    pointer,  \* the object .keys/generation; 0 = absent
    repo,     \* repo[g]: the key of the generation's kopia repository; 0 = none
    state,    \* state[g]: the object state-<gen>
    slot,     \* slot[m]: the key that the slot's .age object holds
    repoPub,  \* the key whose public half repo.pub is
    seal,     \* the object .keys/seal
    staged,   \* the object .keys/rotation-next.age
    runs,     \* rotations started so far
    pc,       \* pc[r]: the next call of the rotation
    rot,      \* rot[r]: the Rotator and the locals of its methods
    outcome,  \* outcome[r]: how its last rotation ended
    step,     \* step[q]: the next call of the pushing session
    sess,     \* sess[q]: what the session holds
    acked,    \* pushes answered ok
    late,     \* history: of these, the ones a rotation may have passed over
    reborn    \* history: generations that a session has initialised

bucket == <<pointer, repo, state, slot, repoPub, seal, staged>>
rotating == <<runs, pc, rot, outcome>>
pushing == <<step, sess, acked, late, reborn>>
vars == <<bucket, rotating, pushing>>

Tag == Pushes \cup (0..MaxRuns) \cup {None}

State == [by : 0..(MaxRuns + 1), has : SUBSET Pushes, tag : Tag]

NoState == [by |-> 0, has |-> {}, tag |-> None]

NoStaged == [key |-> 0, under |-> 0]

NoSeal == [by |-> 0, repo |-> 0]

NewRotator ==
    [run |-> 0, dekOld |-> 0, dekNew |-> 0, CurGen |-> 1, NextGen |-> 1,
     pointerETag |-> 0, doomed |-> {}, round |-> 1, srcETag |-> None, table |-> {},
     prevETag |-> None, todo |-> {}]

NewSession == [key |-> 0, gen |-> 1, create |-> FALSE, etag |-> None, has |-> {}]

Init ==
    /\ pointer = 0
    /\ repo = [g \in Gens |-> IF g = 1 THEN 1 ELSE 0]
    /\ state = [g \in Gens |-> IF g = 1 THEN [by |-> 1, has |-> {}, tag |-> 0] ELSE NoState]
    /\ slot = [m \in Slots |-> 1]
    /\ repoPub = 1
    /\ seal \in {NoSeal, [by |-> 1, repo |-> 1]}
    /\ staged = NoStaged
    /\ runs = 0
    /\ pc = [r \in Rotators |-> "idle"]
    /\ rot = [r \in Rotators |-> NewRotator]
    /\ outcome = [r \in Rotators |-> "none"]
    /\ step = [q \in Pushes |-> "idle"]
    /\ sess = [q \in Pushes |-> NewSession]
    /\ acked = {}
    /\ late = {}
    /\ reborn = {}

-----------------------------------------------------------------------------
(* Generations *)

FirstGeneration == 1

(* The pointer names the active generation; absent, it is the first. *)
Active == IF pointer = 0 THEN FirstGeneration ELSE pointer

(* A pointer that cannot be read counts as absent. *)
CurrentGenerations == {Active} \cup {g \in {FirstGeneration} : Flaky}

(* (Slip: the generation after the next.) *)
SkippedGeneration(g) == g + 2

NextGeneration(g) == g + 1

-----------------------------------------------------------------------------
(* A rotation *)

(* On to the next call, with other locals (bound by the action) or the same. *)
Goto(r, label) == pc' = [pc EXCEPT ![r] = label] /\ UNCHANGED outcome

Continue(r, label) == Goto(r, label) /\ UNCHANGED rot

End(r, how) ==
    /\ pc' = [pc EXCEPT ![r] = "idle"]
    /\ rot' = [rot EXCEPT ![r] = NewRotator]
    /\ outcome' = [outcome EXCEPT ![r] = how]

(* The command unwraps the repository key with the machine's own slot. *)
Start(r) ==
    /\ pc[r] = "idle"
    /\ runs < MaxRuns
    /\ runs' = runs + 1
    /\ rot' = [rot EXCEPT ![r] = [NewRotator EXCEPT !.run = runs + 1,
                                                    !.dekOld = slot[Owner[r]]]]
    /\ pc' = [pc EXCEPT ![r] = "pointer etag"]
    /\ outcome' = [outcome EXCEPT ![r] = "none"]
    /\ UNCHANGED <<bucket, pushing>>

ReadPointerETag(r) ==
    /\ pc[r] = "pointer etag"
    /\ \E etag \in {pointer} \cup {e \in {0} : Flaky} :
         rot' = [rot EXCEPT ![r].pointerETag = etag]
    /\ Goto(r, "pointer")
    /\ UNCHANGED <<bucket, runs, pushing>>

ReadPointer(r) ==
    /\ pc[r] = "pointer"
    /\ \/ rot' = [rot EXCEPT ![r].CurGen = Active, ![r].NextGen = NextGeneration(Active)]
       \/ /\ Flaky
          /\ rot' = [rot EXCEPT ![r].CurGen = FirstGeneration,
                                ![r].NextGen = NextGeneration(FirstGeneration),
                                ![r].pointerETag = 0]
    /\ Goto(r, "staged")
    /\ UNCHANGED <<bucket, runs, pushing>>

Fresh(r) == rot[r].run + 1

(* Slip: what is staged is never used again. *)
StageAnother(r) ==
    /\ pc[r] = "staged"
    /\ rot' = [rot EXCEPT ![r].dekNew = Fresh(r)]
    /\ Goto(r, "stage")
    /\ UNCHANGED <<bucket, runs, pushing>>

(* A staged key that the old key opens is used again; one that is missing, *)
(* unreadable or wrapped to another key is replaced.                       *)
LoadStaged(r) ==
    /\ pc[r] = "staged"
    /\ \/ /\ staged # NoStaged
          /\ staged.under = rot[r].dekOld
          /\ rot' = [rot EXCEPT ![r].dekNew = staged.key]
          /\ Goto(r, "sweep list")
       \/ /\ staged = NoStaged \/ staged.under # rot[r].dekOld \/ Flaky
          /\ rot' = [rot EXCEPT ![r].dekNew = Fresh(r)]
          /\ Goto(r, "stage")
    /\ UNCHANGED <<bucket, runs, pushing>>

StageNext(r) ==
    /\ pc[r] = "stage"
    /\ staged' = [key |-> rot[r].dekNew, under |-> rot[r].dekOld]
    /\ Continue(r, "sweep list")
    /\ UNCHANGED <<pointer, repo, state, slot, repoPub, seal, runs, pushing>>

(* The generations that have any object. *)
Occupied == {g \in Gens : repo[g] # 0 \/ state[g] # NoState}

(* Slip: nothing is swept. *)
SweepNothing(r) ==
    /\ pc[r] = "sweep list"
    /\ Continue(r, "open source")
    /\ UNCHANGED <<bucket, runs, pushing>>

(* Slip: all but the generation to build is swept. *)
SweepOthers(r) ==
    /\ pc[r] = "sweep list"
    /\ rot' = [rot EXCEPT ![r].doomed = Occupied \ {rot[r].NextGen}]
    /\ Goto(r, IF rot'[r].doomed = {} THEN "open source" ELSE "sweep")
    /\ UNCHANGED <<bucket, runs, pushing>>

(* What is listed: without a prefix this is "/", with which no object begins. *)
Listed == IF Prefixed THEN Occupied ELSE {}

(* Everything listed that belongs to neither generation of this rotation ... *)
SweepList(r) ==
    /\ pc[r] = "sweep list"
    /\ rot' = [rot EXCEPT ![r].doomed = Listed \ {rot[r].CurGen, rot[r].NextGen}]
    /\ Goto(r, IF rot'[r].doomed = {} THEN "open source" ELSE "sweep")
    /\ UNCHANGED <<bucket, runs, pushing>>

(* ... is deleted, here one generation at a time. *)
SweepOne(r, g) ==
    /\ pc[r] = "sweep"
    /\ g \in rot[r].doomed
    /\ repo' = [repo EXCEPT ![g] = 0]
    /\ state' = [state EXCEPT ![g] = NoState]
    /\ rot' = [rot EXCEPT ![r].doomed = @ \ {g}]
    /\ Goto(r, IF rot[r].doomed = {g} THEN "open source" ELSE "sweep")
    /\ UNCHANGED <<pointer, slot, repoPub, seal, staged, runs, pushing>>

(* Build *)

OpenSource(r) ==
    /\ pc[r] = "open source"
    /\ IF repo[rot[r].CurGen] = rot[r].dekOld
       THEN Continue(r, "open target") ELSE End(r, "failed")
    /\ UNCHANGED <<bucket, runs, pushing>>

(* The next generation is initialised, or the half-built one opened. *)
OpenTarget(r) ==
    LET next == rot[r].NextGen
    IN  /\ pc[r] = "open target"
        /\ IF repo[next] \in {0, rot[r].dekNew}
           THEN repo' = [repo EXCEPT ![next] = rot[r].dekNew] /\ Continue(r, "load etag")
           ELSE repo' = repo /\ End(r, "failed")
        /\ UNCHANGED <<pointer, state, slot, repoPub, seal, staged, runs, pushing>>

LoadETag(r) ==
    LET source == state[rot[r].CurGen]
    IN  /\ pc[r] = "load etag"
        /\ rot' = [rot EXCEPT ![r].srcETag = source.tag, ![r].table = {}]
        /\ Goto(r, IF source = NoState THEN "check" ELSE "load")
        /\ UNCHANGED <<bucket, runs, pushing>>

LoadState(r) ==
    LET source == state[rot[r].CurGen]
    IN  /\ pc[r] = "load"
        /\ IF source.by = rot[r].dekOld
           THEN rot' = [rot EXCEPT ![r].table = source.has] /\ Goto(r, "copy")
           ELSE End(r, "failed")
        /\ UNCHANGED <<bucket, runs, pushing>>

CopyBundle(r) ==
    /\ pc[r] = "copy"
    /\ IF repo[rot[r].CurGen] = rot[r].dekOld
       THEN Continue(r, "check") ELSE End(r, "failed")
    /\ UNCHANGED <<bucket, runs, pushing>>

(* Slip: the source is not looked at again. *)
TrustSource(r) ==
    /\ pc[r] = "check"
    /\ Continue(r, "target etag")
    /\ UNCHANGED <<bucket, runs, pushing>>

(* The round counts only if the source did not move under the copy. *)
CheckSource(r) ==
    /\ pc[r] = "check"
    /\ IF state[rot[r].CurGen].tag = rot[r].srcETag
       THEN Continue(r, "target etag")
       ELSE IF rot[r].round < MaxRounds
       THEN rot' = [rot EXCEPT ![r].round = @ + 1] /\ Goto(r, "load etag")
       ELSE End(r, "failed")
    /\ UNCHANGED <<bucket, runs, pushing>>

TargetETag(r) ==
    /\ pc[r] = "target etag"
    /\ rot' = [rot EXCEPT ![r].prevETag = state[rot[r].NextGen].tag]
    /\ Goto(r, "save")
    /\ UNCHANGED <<bucket, runs, pushing>>

SaveTarget(r) ==
    LET next == rot[r].NextGen
    IN  /\ pc[r] = "save"
        /\ IF state[next].tag = rot[r].prevETag
           THEN /\ state' = [state EXCEPT ![next] = [by |-> rot[r].dekNew,
                                                     has |-> rot[r].table,
                                                     tag |-> rot[r].run]]
                /\ Continue(r, "verify seal")
           ELSE state' = state /\ End(r, "failed")
        /\ UNCHANGED <<pointer, repo, slot, repoPub, seal, staged, runs, pushing>>

(* RewrapKeys *)

(* A missing seal does not abort, and an unreadable one counts as missing. *)
SealPasses(r) == seal \in {NoSeal, [by |-> rot[r].dekOld, repo |-> repoPub]} \/ Flaky

(* Slots without a readable public key are passed over.                    *)
Rewrappable == {Recorded} \cup {T \in SUBSET Recorded : Flaky}

VerifySeal(r) ==
    /\ pc[r] = "verify seal"
    /\ IF SealPasses(r)
       THEN \E todo \in Rewrappable :
              /\ rot' = [rot EXCEPT ![r].todo = todo]
              /\ Goto(r, IF todo = {} THEN "repo key" ELSE "rewrap")
       ELSE End(r, "failed")
    /\ UNCHANGED <<bucket, runs, pushing>>

(* Slip: the loop stops after one slot. *)
RewrapOne(r, m) ==
    /\ pc[r] = "rewrap"
    /\ m \in rot[r].todo
    /\ slot' = [slot EXCEPT ![m] = rot[r].dekNew]
    /\ rot' = [rot EXCEPT ![r].todo = {}]
    /\ Goto(r, "seal slots")
    /\ UNCHANGED <<pointer, repo, state, repoPub, seal, staged, runs, pushing>>

(* The slot's .age object; its .pub object is written as it was. *)
RewrapSlot(r, m) ==
    /\ pc[r] = "rewrap"
    /\ m \in rot[r].todo
    /\ slot' = [slot EXCEPT ![m] = rot[r].dekNew]
    /\ rot' = [rot EXCEPT ![r].todo = @ \ {m}]
    /\ Goto(r, "seal slots")
    /\ UNCHANGED <<pointer, repo, state, repoPub, seal, staged, runs, pushing>>

(* Each grant ends by sealing with the key it granted. *)
SealSlots(r) ==
    /\ pc[r] = "seal slots"
    /\ seal' = [by |-> rot[r].dekNew, repo |-> repoPub]
    /\ Continue(r, IF rot[r].todo = {} THEN "repo key" ELSE "rewrap")
    /\ UNCHANGED <<pointer, repo, state, slot, repoPub, staged, runs, pushing>>

SetRepoKey(r) ==
    /\ pc[r] = "repo key"
    /\ repoPub' = rot[r].dekNew
    /\ Continue(r, "seal repo key")
    /\ UNCHANGED <<pointer, repo, state, slot, seal, staged, runs, pushing>>

SealRepoKey(r) ==
    /\ pc[r] = "seal repo key"
    /\ seal' = [by |-> rot[r].dekNew, repo |-> repoPub]
    /\ Continue(r, "flip")
    /\ UNCHANGED <<pointer, repo, state, slot, repoPub, staged, runs, pushing>>

(* The atomic switch, conditional on the pointer read at the start. *)
Flip(r) ==
    /\ pc[r] = "flip"
    /\ IF pointer = rot[r].pointerETag
       THEN pointer' = rot[r].NextGen /\ Continue(r, "clean repo")
       ELSE pointer' = pointer /\ End(r, "failed")
    /\ UNCHANGED <<repo, state, slot, repoPub, seal, staged, runs, pushing>>

(* Cleanup *)

CleanRepo(r) ==
    /\ pc[r] = "clean repo"
    /\ repo' = [repo EXCEPT ![rot[r].CurGen] = 0]
    /\ Continue(r, "clean state")
    /\ UNCHANGED <<pointer, state, slot, repoPub, seal, staged, runs, pushing>>

CleanState(r) ==
    /\ pc[r] = "clean state"
    /\ \/ state' = [state EXCEPT ![rot[r].CurGen] = NoState]
       \/ Flaky /\ state' = state
    /\ Continue(r, "clean staged")
    /\ UNCHANGED <<pointer, repo, slot, repoPub, seal, staged, runs, pushing>>

CleanStaged(r) ==
    /\ pc[r] = "clean staged"
    /\ staged' = NoStaged \/ (Flaky /\ staged' = staged)
    /\ End(r, "done")
    /\ UNCHANGED <<pointer, repo, state, slot, repoPub, seal, runs, pushing>>

Kill(r) ==
    /\ pc[r] \in Killable
    /\ End(r, "killed")
    /\ UNCHANGED <<bucket, runs, pushing>>

-----------------------------------------------------------------------------
(* A pushing session, reduced to the key, generation and record it uses.    *)

Move(q, label) == step' = [step EXCEPT ![q] = label]

Leave(q, label) == Move(q, label) /\ sess' = [sess EXCEPT ![q] = NewSession]

PushUnwrap(q) ==
    /\ step[q] = "idle"
    /\ sess' = [sess EXCEPT ![q].key = slot[PushedBy[q]]]
    /\ Move(q, "pointer")
    /\ UNCHANGED <<bucket, rotating, acked, late, reborn>>

PushPointer(q) ==
    /\ step[q] = "pointer"
    /\ \E g \in CurrentGenerations : sess' = [sess EXCEPT ![q].gen = g]
    /\ Move(q, "open")
    /\ UNCHANGED <<bucket, rotating, acked, late, reborn>>

(* A generation without a repository lists as an empty remote.  The push   *)
(* that follows looks for the active generation again, and initialises it  *)
(* if it has no repository either.                                         *)
PushOpen(q) ==
    /\ step[q] = "open"
    /\ \/ /\ repo[sess[q].gen] = sess[q].key
          /\ Move(q, IF sess[q].create THEN "save" ELSE "etag")
          /\ UNCHANGED <<repo, sess, reborn>>
       \/ /\ repo[sess[q].gen] = 0
          /\ ~sess[q].create
          /\ sess' = [sess EXCEPT ![q].create = TRUE]
          /\ Move(q, "pointer")
          /\ UNCHANGED <<repo, reborn>>
       \/ /\ repo[sess[q].gen] = 0
          /\ sess[q].create
          /\ repo' = [repo EXCEPT ![sess[q].gen] = sess[q].key]
          /\ reborn' = reborn \cup {sess[q].gen}
          /\ Move(q, "save")
          /\ UNCHANGED sess
       \/ /\ repo[sess[q].gen] \notin {0, sess[q].key}
          /\ Leave(q, "idle")
          /\ UNCHANGED <<repo, reborn>>
    /\ UNCHANGED <<pointer, state, slot, repoPub, seal, staged, rotating, acked, late>>

PushETag(q) ==
    LET record == state[sess[q].gen]
    IN  /\ step[q] = "etag"
        /\ sess' = [sess EXCEPT ![q].etag = record.tag]
        /\ Move(q, IF record = NoState THEN "save" ELSE "get")
        /\ UNCHANGED <<bucket, rotating, acked, late, reborn>>

PushGet(q) ==
    LET record == state[sess[q].gen]
    IN  /\ step[q] = "get"
        /\ IF record.by = sess[q].key
           THEN sess' = [sess EXCEPT ![q].has = record.has] /\ Move(q, "save")
           ELSE Leave(q, "idle")
        /\ UNCHANGED <<bucket, rotating, acked, late, reborn>>

(* From the last look at the source on, a rotation does not see pushes. *)
PastCheck ==
    {"target etag", "save", "verify seal", "rewrap", "seal slots", "repo key",
     "seal repo key", "flip", "clean repo", "clean state"}

PassedOver(g) == g # Active \/ \E r \in Rotators : rot[r].CurGen = g /\ pc[r] \in PastCheck

PushSave(q) ==
    LET g == sess[q].gen
    IN  /\ step[q] = "save"
        /\ IF state[g].tag = sess[q].etag
           THEN /\ state' = [state EXCEPT ![g] = [by |-> sess[q].key,
                                                  has |-> sess[q].has \cup {q},
                                                  tag |-> q]]
                /\ acked' = acked \cup {q}
                /\ late' = IF PassedOver(g) THEN late \cup {q} ELSE late
                /\ Leave(q, "ok")
           ELSE /\ Leave(q, "idle")
                /\ UNCHANGED <<state, acked, late, reborn>>
        /\ UNCHANGED <<pointer, repo, slot, repoPub, seal, staged, rotating, reborn>>

PushQuit(q) ==
    /\ step[q] \notin {"idle", "ok"}
    /\ Leave(q, "idle")
    /\ UNCHANGED <<bucket, rotating, acked, late, reborn>>

-----------------------------------------------------------------------------
Rotate(r) ==
    \/ ReadPointerETag(r) \/ ReadPointer(r)
    \/ LoadStaged(r) \/ StageNext(r)
    \/ SweepList(r) \/ \E g \in Gens : SweepOne(r, g)
    \/ OpenSource(r) \/ OpenTarget(r)
    \/ LoadETag(r) \/ LoadState(r) \/ CopyBundle(r) \/ CheckSource(r)
    \/ TargetETag(r) \/ SaveTarget(r)
    \/ VerifySeal(r) \/ (\E m \in Slots : RewrapSlot(r, m)) \/ SealSlots(r)
    \/ SetRepoKey(r) \/ SealRepoKey(r)
    \/ Flip(r)
    \/ CleanRepo(r) \/ CleanState(r) \/ CleanStaged(r)

Push(q) ==
    \/ PushUnwrap(q) \/ PushPointer(q) \/ PushOpen(q)
    \/ PushETag(q) \/ PushGet(q) \/ PushSave(q) \/ PushQuit(q)

Next ==
    \/ \E r \in Rotators : Start(r) \/ Rotate(r) \/ Kill(r)
    \/ \E q \in Pushes : Push(q)

Spec == Init /\ [][Next]_vars

-----------------------------------------------------------------------------
(* Correctness *)

RotatorPoints ==
    {"idle", "pointer etag", "pointer", "staged", "stage", "sweep list", "sweep",
     "open source", "open target", "load etag", "load", "copy", "check"} \cup PastCheck
    \cup {"clean staged"}

Rotator ==
    [run : 0..MaxRuns, dekOld : {0} \cup Keys, dekNew : {0} \cup Keys,
     CurGen : Gens, NextGen : Gens, pointerETag : {0} \cup Gens,
     doomed : SUBSET Gens, round : 1..MaxRounds, srcETag : Tag,
     table : SUBSET Pushes, prevETag : Tag, todo : SUBSET Recorded]

Session == [key : {0} \cup Keys, gen : Gens, create : BOOLEAN, etag : Tag, has : SUBSET Pushes]

(* Every variable stays in its type. *)
TypeOK ==
    /\ pointer \in {0} \cup Gens
    /\ repo \in [Gens -> {0} \cup Keys]
    /\ state \in [Gens -> State]
    /\ slot \in [Slots -> Keys]
    /\ repoPub \in Keys
    /\ seal \in [by : Keys, repo : Keys] \cup {NoSeal}
    /\ staged \in [key : {0} \cup Keys, under : {0} \cup Keys]
    /\ runs \in 0..MaxRuns
    /\ pc \in [Rotators -> RotatorPoints]
    /\ rot \in [Rotators -> Rotator]
    /\ outcome \in [Rotators -> {"none", "done", "failed", "killed"}]
    /\ step \in [Pushes -> {"idle", "pointer", "open", "etag", "get", "save", "ok"}]
    /\ sess \in [Pushes -> Session]
    /\ acked \subseteq Pushes
    /\ late \subseteq acked
    /\ reborn \subseteq Gens

(* From the first re-wrapped slot to the flip the slots are ahead of the    *)
(* pointer.                                                                 *)
Switching == {"rewrap", "seal slots", "repo key", "seal repo key", "flip"}

CanRead(m) ==
    /\ repo[Active] = slot[m]
    /\ state[Active] # NoState => state[Active].by = slot[m]

(* The key in every slot with a recorded public key opens the active       *)
(* generation, whenever no rotation is switching: teammates and the        *)
(* recovery secret keep working (rotation.go, RewrapKeys and Flip).        *)
MembersCanRead ==
    (\A r \in Rotators : pc[r] \notin Switching) => \A m \in Recorded : CanRead(m)

(* The repository and the record of the active generation are never         *)
(* deleted, by the sweep of any run, also the one after a rotation killed    *)
(* in its clean-up (rotation.go, SweepStaleGenerations: "generations other  *)
(* than the active one AND the one being built").                           *)
ActiveIsKept == repo[Active] # 0 /\ state[Active] # NoState

(* A push that was answered ok is in the table of the active generation,   *)
(* at every moment (README: "the remote stays fully usable").              *)
AckedIsVisible == acked \subseteq state[Active].has

(* Only pushes that landed after a rotation's last look at its source, or  *)
(* in a generation no longer active, can be lost by it (rotation.go, Build *)
(* loops until the source is stable).                                      *)
LostOnlyIfLate == acked \ late \subseteq state[Active].has

(* No rotation ends in an error: one that was interrupted is resumed by the *)
(* next (rotation.go, loadOrStageNextDEK: same staged key for the           *)
(* half-built generation).                                                  *)
RerunSucceeds == \A r \in Rotators : outcome[r] # "failed"

(* After a finished rotation no generation, and no staged key, opens with  *)
(* an earlier key, whatever earlier interrupted rotations left behind,     *)
(* except what a session still holding the old generation wrote            *)
(* (rotation.go, Cleanup, and SweepStaleGenerations: "removes leftovers of *)
(* generations other than the active one AND the one being built").        *)
OldKeysAreUseless ==
    \A r \in Rotators : outcome[r] = "done" =>
        /\ staged.under \in {0, repo[Active]}
        /\ \A g \in Gens : /\ repo[g] \in {0, repo[Active]} \/ g \in reborn
                           /\ state[g].by \in {0, repo[Active]} \/ state[g].tag \in late
=============================================================================
