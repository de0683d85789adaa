---------------------------- MODULE VaultProofs ----------------------------
(***************************************************************************)
(* Theorems about Vault for every set of machines, labels and recipients   *)
(* and every choice of commands, with conditional writes.                  *)
(***************************************************************************)
EXTENDS Vault, KeyringProofs

(* Where a rotation may be in each of its phases. *)
Verifying == {"repo pub", "unwrap", "get seal", "verify repo", "verify slots", "next slot"}
Wrapping == {"next slot", "put age", "put pub"} \cup Sealing
Publishing == {"next slot"} \cup Sealing

ControlInv ==
    /\ repoPub # None
    /\ active \in {Founder, Rotator}
    /\ rotation \in {"before", "verify", "wrap", "publish", "over"}
    /\ hands \in [Labels -> SUBSET Actors] /\ missed \subseteq Labels
    /\ rotation = "verify" => pc[Rotator] \in Verifying /\ job[Rotator].task = NoTask
    /\ rotation = "wrap" => pc[Rotator] \in Wrapping
    /\ rotation = "publish" => pc[Rotator] \in Publishing

VaultTypeInv == TypeInv /\ ControlInv

-----------------------------------------------------------------------------
(* Types and control *)

(* The machine that rotates is one of them, and its key is not the founder's. *)
LEMMA RotatorIsActor ==
    /\ Rotator \in Actors /\ Rotator \in Keys
    /\ Rotator # None /\ Rotator # Founder
BY VaultAssumption, KeyringAssumption DEF Keys

(* The initial states. *)
LEMMA VaultTypeInit == VaultInit => VaultTypeInv
<1> SUFFICES ASSUME VaultInit PROVE VaultTypeInv
    OBVIOUS
<1>1. TypeInv
    BY TypeInit DEF VaultInit
<1>2. repoPub # None
    <2>1. PICK slots \in Foundings : repoPub = IF slots = {} THEN None ELSE Founder
        BY DEF VaultInit, Init
    <2>2. slots # {} /\ Founder # None
        BY VaultAssumption, KeyringAssumption
    <2>3. QED
        BY <2>1, <2>2
<1>3. QED
    BY <1>1, <1>2 DEF VaultTypeInv, ControlInv, VaultInit

(* A step of Vault is a step of one command of the keyring, which notes the  *)
(* slots at risk, or one of the rotation's own.                              *)
LEMMA VaultSteps ==
    ASSUME VaultTypeInv, VaultNext
    PROVE  \/ SharedStep
           \/ \E a \in Actors : Other(a)
           \/ StartRotation \/ ListSlots \/ Rewrap \/ SetRepoKey \/ Flip
BY DEF VaultNext

(* Both kinds of the first are steps of the keyring. *)
LEMMA SharedIsKeyring ==
    /\ SharedStep => KeyringStep(Rotator) /\ Handle(Rotator) /\ Miss(Rotator) /\ UNCHANGED active
    /\ \A a \in Actors :
          Other(a) => KeyringStep(a) /\ Handle(a) /\ Miss(a) /\ UNCHANGED <<active, rotation>>
BY DEF SharedStep, Other, KeyringStep, Command

(* The notes keep their types. *)
LEMMA NotesType ==
    ASSUME ControlInv, NEW a \in Actors, Handle(a), Miss(a)
    PROVE  hands' \in [Labels -> SUBSET Actors] /\ missed' \subseteq Labels
BY DEF ControlInv, Handle, Miss

(* A step of a command of the keyring keeps the types, and repo.pub, even if *)
(* it could not be read: it is there, and the write is create-only.          *)
LEMMA KeyringStepTypes ==
    ASSUME VaultTypeInv, NEW a \in Actors, KeyringStep(a)
    PROVE  /\ TypeInv'
           /\ repoPub' = repoPub
           /\ \A b \in Actors \ {a} : pc'[b] = pc[b] /\ job'[b] = job[b]
<1>1. TypeInv'
    BY TypeNext DEF VaultTypeInv, KeyringStep, Next
<1>2. \A b \in Actors \ {a} : pc'[b] = pc[b] /\ job'[b] = job[b]
    BY OthersWait DEF VaultTypeInv, KeyringStep
<1>3. repoPub # None /\ Conditional
    BY VaultAssumption DEF VaultTypeInv, ControlInv
<1>4. CASE \/ (\E task \in left[a] : Start(a, task)) \/ Kill(a)
           \/ RepoRecipient(a) \/ VerifySlots(a) \/ Prove(a) \/ NextSlot(a)
    BY <1>1, <1>2, <1>3, <1>4
       DEF Start, Kill, RepoRecipient, VerifySlots, Prove, NextSlot, objects
<1>5. CASE Unwrap(a) \/ Publish(a)
    BY <1>1, <1>2, <1>3, <1>5 DEF Unwrap, Publish, objects
<1>6. CASE \/ GetSeal(a) \/ VerifyRepo(a) \/ (\E x \in Slot : PutAge(a, x)) \/ PutPub(a)
           \/ Find(a) \/ DeleteAge(a) \/ DeletePub(a)
           \/ SealRepo(a) \/ SealSlots(a) \/ PutSeal(a)
    BY <1>1, <1>2, <1>3, <1>6
       DEF GetSeal, VerifyRepo, PutAge, PutPub, Find, DeleteAge, DeletePub, SealRepo,
           SealSlots, PutSeal, objects
<1>7. QED
    BY <1>1, <1>2, <1>4, <1>5, <1>6 DEF KeyringStep, Command

(* A step of a rotation that it shares keeps it within its phase, or ends it. *)
LEMMA SharedControl ==
    ASSUME VaultTypeInv, SharedStep
    PROVE  \/ pc'[Rotator] = "idle" /\ rotation' = "over"
           \/ /\ rotation' = rotation
              /\ rotation = "verify" => /\ pc'[Rotator] \in Verifying
                                        /\ job'[Rotator].task = NoTask
              /\ rotation = "wrap" => pc'[Rotator] \in Wrapping
              /\ rotation = "publish" => pc'[Rotator] \in Publishing
<1> USE RotatorIsActor
<1>1. /\ pc \in [Actors -> Points] /\ job \in [Actors -> Job]
      /\ Rotating
      /\ rotation = "verify" => pc[Rotator] \in Verifying /\ job[Rotator].task = NoTask
      /\ rotation = "wrap" => pc[Rotator] \in Wrapping
      /\ rotation = "publish" => pc[Rotator] \in Publishing
    BY DEF VaultTypeInv, ControlInv, TypeInv, TypeOK, SharedStep
<1>2. rotation' = IF pc'[Rotator] = "idle" THEN "over" ELSE rotation
    BY DEF SharedStep
<1>3. SUFFICES ASSUME pc'[Rotator] # "idle"
      PROVE  /\ rotation = "verify" => /\ pc'[Rotator] \in Verifying
                                       /\ job'[Rotator].task = NoTask
             /\ rotation = "wrap" => pc'[Rotator] \in Wrapping
             /\ rotation = "publish" => pc'[Rotator] \in Publishing
    BY <1>2
<1>4. ~Kill(Rotator)
    BY <1>1, <1>3 DEF Kill, End
<1>5. CASE RepoRecipient(Rotator)
    <2>1. rotation = "verify" /\ job[Rotator].task = NoTask
        BY <1>1, <1>5 DEF RepoRecipient, Rotating, Wrapping, Publishing, Sealing
    <2>2. Op(Rotator) = "grant"
        BY <2>1 DEF Op, NoTask
    <2>3. Continue(Rotator, "unwrap")
        BY <1>1, <1>3, <1>5, <2>2 DEF RepoRecipient, End
    <2>4. QED
        BY <1>1, <2>1, <2>3 DEF Continue, Goto, Verifying
<1>6. CASE Unwrap(Rotator)
    <2>1. rotation = "verify" /\ job[Rotator].task = NoTask
        BY <1>1, <1>6 DEF Unwrap, Rotating, Wrapping, Publishing, Sealing
    <2>2. Op(Rotator) = "grant"
        BY <2>1 DEF Op, NoTask
    <2>3. PICK key : /\ job' = [job EXCEPT ![Rotator].dek = key]
                     /\ pc' = [pc EXCEPT ![Rotator] = "get seal"]
        BY <1>1, <1>3, <1>6, <2>2 DEF Unwrap, AfterUnwrap, Goto, End
    <2>4. QED
        BY <1>1, <2>1, <2>3 DEF Verifying, Job
<1>7. CASE GetSeal(Rotator) \/ VerifyRepo(Rotator) \/ VerifySlots(Rotator)
    <2>1. rotation = "verify" /\ job[Rotator].task = NoTask
        BY <1>1, <1>7 DEF GetSeal, VerifyRepo, VerifySlots, Rotating, Wrapping, Publishing, Sealing
    <2>2. Op(Rotator) = "grant"
        BY <2>1 DEF Op, NoTask
    <2>3. pc'[Rotator] \in Verifying
        BY <1>1, <1>3, <1>7, <2>2
           DEF GetSeal, VerifyRepo, VerifySlots, Continue, Goto, End, Verifying
    <2>4. job'[Rotator].task = job[Rotator].task
        <3>1. CASE GetSeal(Rotator)
            BY <1>1, <3>1 DEF GetSeal, Job
        <3>2. CASE VerifyRepo(Rotator)
            BY <1>1, <3>2 DEF VerifyRepo, Job
        <3>3. CASE VerifySlots(Rotator)
            BY <1>1, <1>3, <3>3 DEF VerifySlots, Continue, End
        <3>4. QED
            BY <1>7, <3>1, <3>2, <3>3
    <2>5. QED
        BY <2>1, <2>3, <2>4
<1>8. CASE (\E x \in Slot : PutAge(Rotator, x)) \/ PutPub(Rotator)
    BY <1>1, <1>8
       DEF PutAge, PutPub, Continue, Goto, Verifying, Wrapping, Publishing, Sealing
<1>9. CASE SealRepo(Rotator) \/ SealSlots(Rotator) \/ PutSeal(Rotator)
    BY <1>1, <1>9
       DEF SealRepo, SealSlots, PutSeal, Continue, Goto, Read, Verifying, Wrapping, Publishing,
           Sealing
<1>10. QED
    BY <1>4, <1>5, <1>6, <1>7, <1>8, <1>9 DEF SharedStep

(* The rotation's own steps keep types and control. *)
LEMMA RotationTypes ==
    ASSUME VaultTypeInv,
           StartRotation \/ ListSlots \/ Rewrap \/ SetRepoKey \/ Flip
    PROVE  VaultTypeInv'
<1> USE RotatorIsActor
<1>t. /\ TypeInv /\ ControlInv
      /\ pc \in [Actors -> Points] /\ job \in [Actors -> Job] /\ job[Rotator] \in Job
      /\ pub \in [Labels -> Recipients \cup {None}]
      /\ pc[Rotator] \in Holding => job[Rotator].dek \in Keys
    BY DEF VaultTypeInv, TypeInv, TypeOK
<1>p. {"next slot", "put age", "seal repo"} \subseteq Holding \cap Points
    BY DEF Holding, Granting, Sealing, Points
<1>q. {"next slot", "put age", "seal repo"} \cap Placing = {}
    BY DEF Placing, Revoking
<1>1. CASE StartRotation
    <2> USE <1>1 DEF StartRotation
    <2>1. /\ pc' \in [Actors -> Points] /\ job' \in [Actors -> Job]
          /\ outcome' \in [Actors -> {"none", "ok", "joined", "failed", "seal mismatch", "killed"}]
        BY <1>t, NoJobType DEF TypeInv, TypeOK, Points
    <2>2. /\ pc'[Rotator] = "repo pub" /\ job'[Rotator] = NoJob
          /\ \A b \in Actors \ {Rotator} : pc'[b] = pc[b] /\ job'[b] = job[b]
        BY <1>t
    <2>3. TypeOK'
        BY <1>t, <2>1 DEF TypeInv, TypeOK, objects
    <2>4. TasksAreTheirs'
        BY <1>t, <2>2, NoJobType DEF TypeInv, TasksAreTheirs
    <2>5. TypeInv'
        BY <1>t, <2>2, <2>3, <2>4
           DEF TypeInv, Holding, Placing, Granting, Revoking, Sealing
    <2>6. ControlInv'
        BY <1>t, <2>2, NoJobType DEF ControlInv, objects, atRisk, Verifying
    <2>7. QED
        BY <2>5, <2>6 DEF VaultTypeInv
<1>2. CASE ListSlots
    <2>1. PICK unread \in Unread(Rotator) :
            List({[label |-> l, to |-> pub[l]] : l \in Recorded \ unread})
        BY <1>2 DEF ListSlots
    <2> DEFINE todo == {[label |-> l, to |-> pub[l]] : l \in Recorded \ unread}
               j == [job[Rotator] EXCEPT !.dek = Rotator, !.todo = todo]
    <2>2. todo \in SUBSET Slot
        BY <1>t DEF Slot, Recorded
    <2> HIDE DEF todo
    <2>3. /\ j \in Job /\ j.task = job[Rotator].task
          /\ j.dek = Rotator /\ j.at = job[Rotator].at
        BY <1>t, <2>2 DEF Job
    <2>4. job' = [job EXCEPT ![Rotator] = j]
        BY <1>t, <2>1 DEF todo, List
    <2>5. /\ Goto(Rotator, "next slot") /\ UNCHANGED objects
          /\ pc' = pc /\ rotation' = "wrap" /\ UNCHANGED <<active, hands>>
          /\ pc[Rotator] = "next slot" /\ missed' \subseteq Labels
        BY <2>1, <1>t DEF List, Goto
    <2> HIDE DEF j
    <2>6. TypeInv'
        BY <1>t, <1>p, <1>q, <2>3, <2>4, <2>5, ObjectsKept, GoingOn, TypeMove
    <2>7. ControlInv'
        BY <1>t, <2>5 DEF ControlInv, objects, Wrapping
    <2>8. QED
        BY <2>6, <2>7 DEF VaultTypeInv
<1>3. CASE Rewrap \/ SetRepoKey
    <2>1. pc[Rotator] = "next slot" /\ job[Rotator].dek \in Keys
        BY <1>3, <1>t, <1>p DEF Rewrap, SetRepoKey
    <2>2. PICK p \in {"put age", "seal repo"} : Continue(Rotator, p)
        BY <1>3 DEF Rewrap, SetRepoKey
    <2>3. /\ repoPub' \in Keys \cup {None} /\ age' = age /\ pub' = pub /\ seal' = seal
          /\ UNCHANGED atRisk /\ active' = active /\ repoPub' # None
        BY <1>3, <1>t DEF Rewrap, SetRepoKey, objects, ControlInv, TypeInv, TypeOK
    <2>4. TypeInv'
        BY <1>t, <1>p, <1>q, <2>1, <2>2, <2>3, TypeContinue DEF TypeInv, TypeOK
    <2>5. ControlInv'
        BY <1>3, <1>t, <2>2, <2>3
           DEF Rewrap, SetRepoKey, Continue, Goto, atRisk, ControlInv, Wrapping, Publishing,
               Sealing
    <2>6. QED
        BY <2>4, <2>5 DEF VaultTypeInv
<1>4. CASE Flip
    <2>1. TypeInv'
        BY <1>4, <1>t, TypeEnd DEF Flip
    <2>2. ControlInv'
        BY <1>4, <1>t DEF Flip, End, ControlInv, objects, atRisk
    <2>3. QED
        BY <2>1, <2>2 DEF VaultTypeInv
<1>5. QED
    BY <1>1, <1>2, <1>3, <1>4

(* So does every step. *)
LEMMA VaultTypeNext == VaultTypeInv /\ [VaultNext]_vaultVars => VaultTypeInv'
<1> SUFFICES ASSUME VaultTypeInv, [VaultNext]_vaultVars PROVE VaultTypeInv'
    OBVIOUS
<1>t. pc \in [Actors -> Points] /\ ControlInv
    BY DEF VaultTypeInv, TypeInv, TypeOK
<1>1. CASE UNCHANGED vaultVars
    <2>1. TypeInv'
        BY <1>1, TypeNext DEF vaultVars, VaultTypeInv
    <2>2. QED
        BY <1>1, <2>1 DEF vaultVars, vars, objects, atRisk, VaultTypeInv, ControlInv
<1>2. CASE SharedStep
    <2>1. KeyringStep(Rotator) /\ Handle(Rotator) /\ Miss(Rotator) /\ UNCHANGED active
        BY <1>2, SharedIsKeyring
    <2>2. hands' \in [Labels -> SUBSET Actors] /\ missed' \subseteq Labels
        BY <1>t, <2>1, NotesType, RotatorIsActor
    <2>3. ControlInv'
        BY <1>2, <1>t, <2>1, <2>2, RotatorIsActor, KeyringStepTypes, SharedControl
           DEF ControlInv, SharedStep, Rotating
    <2>4. QED
        BY <2>1, <2>3, RotatorIsActor, KeyringStepTypes DEF VaultTypeInv
<1>3. CASE \E a \in Actors : Other(a)
    <2>1. PICK a \in Actors : Other(a)
        BY <1>3
    <2>2. KeyringStep(a) /\ Handle(a) /\ Miss(a) /\ UNCHANGED <<active, rotation>>
        BY <2>1, SharedIsKeyring
    <2>3. hands' \in [Labels -> SUBSET Actors] /\ missed' \subseteq Labels
        BY <1>t, <2>2, NotesType
    <2>4. Rotating => pc'[Rotator] = pc[Rotator] /\ job'[Rotator] = job[Rotator]
        BY <2>1, <2>2, RotatorIsActor, KeyringStepTypes DEF Other
    <2>5. ControlInv'
        BY <1>t, <2>2, <2>3, <2>4, KeyringStepTypes DEF ControlInv, Rotating
    <2>6. QED
        BY <2>2, <2>5, KeyringStepTypes DEF VaultTypeInv
<1>4. QED
    BY <1>1, <1>2, <1>3, VaultSteps, RotationTypes

LEMMA VaultTypeAlways == VaultSpec => []VaultTypeInv
BY VaultTypeInit, VaultTypeNext, PTL DEF VaultSpec

(* Every variable of the composition stays in its type: a rotation works with *)
(* the keys and slots of the keyring, and leaves repo.pub in place            *)
(* (rotation.go, RewrapKeys).                                                 *)
THEOREM VaultTypes == VaultSpec => []VaultTypeOK
<1>1. VaultTypeInv => VaultTypeOK
    BY DEF VaultTypeInv, ControlInv, TypeInv, VaultTypeOK
<1>2. QED
    BY <1>1, VaultTypeAlways, PTL

-----------------------------------------------------------------------------
(* What is recorded for a slot *)

Placed(a, l) == pc[a] \in {"put pub", "delete pub"} /\ job[a].at.label = l

(* AsRecorded is not inductive: a command that has had the slot to itself     *)
(* since it wrote the first object will record what it has wrapped.           *)
Recording(l) ==
    /\ \A a \in Actors : Placed(a, l) => a \in hands[l]
    /\ hands[l] = {} => pub[l] = age[l].to
    /\ \A a \in Actors : Placed(a, l) /\ hands[l] = {a} => job[a].at.to = age[l].to

RecordInv ==
    /\ \A a \in Actors : pc[a] \in Revoking => job[a].at.to = None
    /\ \A l \in Labels : Recording(l)

(* No command has a slot in hand at the start. *)
LEMMA RecordInit == VaultInit => RecordInv
<1> SUFFICES ASSUME VaultInit PROVE RecordInv
    OBVIOUS
<1>1. \A a \in Actors : pc[a] = "idle"
    BY DEF VaultInit, Init
<1>2. PICK slots \in Foundings :
        age = FoundedAge(slots) /\ pub = [l \in Labels |-> FoundedAge(slots)[l].to]
    BY DEF VaultInit, Init
<1>3. QED
    BY <1>1, <1>2 DEF RecordInv, Recording, Placed, Revoking

(* A command that is not in the middle of a slot, and does not wrap a key,   *)
(* leaves the slots as they are.                                             *)
LEMMA SlotsWait ==
    ASSUME VaultTypeInv, NEW a \in Actors, KeyringStep(a),
           ~\E x \in Slot : PutAge(a, x), ~PutPub(a), ~DeleteAge(a), ~DeletePub(a)
    PROVE  /\ age' = age /\ pub' = pub
           /\ pc'[a] \notin {"put pub", "delete pub"}
           /\ pc[a] \in {"put pub", "delete pub"} => pc'[a] = "idle"
           /\ pc'[a] \in Revoking => job'[a].at.to = None
<1>t. pc \in [Actors -> Points] /\ job \in [Actors -> Job]
    BY DEF VaultTypeInv, TypeInv, TypeOK
<1>1. CASE (\E task \in left[a] : Start(a, task)) \/ Kill(a)
    BY <1>t, <1>1 DEF Start, Kill, End, objects, Revoking
<1>2. CASE \/ RepoRecipient(a) \/ VerifySlots(a) \/ Prove(a) \/ NextSlot(a)
           \/ GetSeal(a) \/ VerifyRepo(a) \/ PutSeal(a)
    BY <1>t, <1>2
       DEF RepoRecipient, VerifySlots, Prove, NextSlot, GetSeal, VerifyRepo, PutSeal,
           Continue, Goto, End, objects, Revoking
<1>3. CASE Unwrap(a) \/ Publish(a)
    BY <1>t, <1>3
       DEF Unwrap, Publish, AfterUnwrap, Continue, Goto, End, objects, Revoking
<1>4. CASE SealRepo(a) \/ SealSlots(a)
    BY <1>t, <1>4 DEF SealRepo, SealSlots, Read, objects, Revoking
<1>5. CASE Find(a)
    <2>1. age' = age /\ pub' = pub /\ pc[a] = "find"
        BY <1>5 DEF Find, objects
    <2>2. CASE End(a, "failed")
        BY <1>t, <2>1, <2>2 DEF End, Revoking
    <2>3. CASE \E l \in Labels : /\ job' = [job EXCEPT ![a].at = [label |-> l, to |-> None]]
                                 /\ Goto(a, "delete age")
        <3>1. PICK l \in Labels : /\ job' = [job EXCEPT ![a].at = [label |-> l, to |-> None]]
                                  /\ Goto(a, "delete age")
            BY <2>3
        <3>2. job'[a] = [job[a] EXCEPT !.at = [label |-> l, to |-> None]] /\ job[a] \in Job
            BY <1>t, <3>1
        <3>3. job'[a].at.to = None
            BY <3>2 DEF Job
        <3>4. pc'[a] = "delete age"
            BY <1>t, <3>1 DEF Goto
        <3>5. QED
            BY <2>1, <3>3, <3>4
    <2>4. QED
        BY <1>5, <2>2, <2>3 DEF Find
<1>6. QED
    BY <1>1, <1>2, <1>3, <1>4, <1>5 DEF KeyringStep, Command

(* A step of one command keeps the record of every slot: it takes the slot in *)
(* hand with the first object, and lets go of it with the second.             *)
LEMMA RecordStep ==
    ASSUME VaultTypeInv, RecordInv, NEW a \in Actors, KeyringStep(a), Handle(a)
    PROVE  RecordInv'
<1>t. /\ pc \in [Actors -> Points] /\ job \in [Actors -> Job]
      /\ age \in [Labels -> Wrap \cup {NoWrap}] /\ pub \in [Labels -> Recipients \cup {None}]
      /\ pc[a] \in Placing => job[a].at \in [label : Labels, to : Recipients \cup {None}]
    BY DEF VaultTypeInv, TypeInv, TypeOK, Job
<1>o. \A b \in Actors \ {a} : pc'[b] = pc[b] /\ job'[b] = job[b]
    BY KeyringStepTypes
<1>r. \A b \in Actors \ {a} : \A l : Placed(b, l)' <=> Placed(b, l)
    BY <1>o DEF Placed
<1>i. /\ \A l \in Labels : Recording(l)
      /\ \A b \in Actors : pc[b] \in Revoking => job[b].at.to = None
    BY DEF RecordInv
<1>h. ASSUME NEW l \in Labels
      PROVE  /\ Opens(a, l) => hands'[l] = {a} \cup {b \in Actors : l \in HalfWritten(b)}
             /\ ~Opens(a, l) /\ Closes(a, l) /\ hands[l] = {a} => hands'[l] = {}
             /\ ~Opens(a, l) /\ ~(Closes(a, l) /\ hands[l] = {a}) => hands'[l] = hands[l]
    BY DEF Handle
<1>k. ASSUME NEW l \in Labels, ~Opens(a, l), ~Closes(a, l), ~Placed(a, l)',
             age'[l] = age[l], pub'[l] = pub[l]
      PROVE  Recording(l)'
    <2>1. hands'[l] = hands[l]
        BY <1>h, <1>k
    <2>2. QED
        BY <1>i, <1>o, <1>r, <1>k, <2>1 DEF Recording
<1>p. ASSUME NEW l \in Labels, Opens(a, l), job'[a].at.to = age'[l].to
      PROVE  Recording(l)'
    <2>1. a \in hands'[l]
        BY <1>h, <1>p
    <2>2. ASSUME NEW b \in Actors \ {a}, Placed(b, l)
          PROVE  b \in hands'[l]
        <3>1. l \in HalfWritten(b)
            BY <2>2 DEF HalfWritten, Placed
        <3>2. QED
            BY <1>h, <1>p, <3>1
    <2>3. QED
        BY <1>r, <1>p, <2>1, <2>2 DEF Recording
<1>1. CASE \E x \in Slot : PutAge(a, x)
    <2>1. PICK x \in Slot : PutAge(a, x)
        BY <1>1
    <2>2. /\ pc[a] = "put age" /\ pc'[a] = "put pub" /\ job'[a].at = x /\ pub' = pub
          /\ age' = [age EXCEPT ![x.label] = [key |-> job[a].dek, to |-> x.to]]
        BY <1>t, <2>1 DEF PutAge, Goto, Job
    <2>3. x.label \in Labels
        BY DEF Slot
    <2>4. ASSUME NEW l \in Labels
          PROVE  Recording(l)'
        <3>1. CASE l = x.label
            <4>1. Opens(a, l) /\ job'[a].at.to = age'[l].to
                BY <1>t, <2>2, <3>1 DEF Opens
            <4>2. QED
                BY <1>p, <4>1
        <3>2. CASE l # x.label
            <4>1. /\ ~Opens(a, l) /\ ~Closes(a, l) /\ ~Placed(a, l)'
                  /\ age'[l] = age[l] /\ pub'[l] = pub[l]
                BY <1>t, <2>2, <2>3, <3>2 DEF Opens, Closes, Placed
            <4>2. QED
                BY <1>k, <4>1
        <3>3. QED
            BY <3>1, <3>2
    <2>5. QED
        BY <1>o, <1>i, <2>2, <2>4 DEF RecordInv, Revoking
<1>2. CASE PutPub(a) \/ DeletePub(a)
    <2>1. /\ pc[a] \in {"put pub", "delete pub"} /\ pc'[a] = "seal repo" /\ age' = age
          /\ job[a].at.label \in Labels
          /\ pub' = [pub EXCEPT ![job[a].at.label] = job[a].at.to]
        BY <1>t, <1>i, <1>2 DEF PutPub, DeletePub, Continue, Goto, Placing, Revoking
    <2>2. ASSUME NEW l \in Labels
          PROVE  Recording(l)'
        <3>0. ~Placed(a, l)' /\ ~Opens(a, l)
            BY <2>1 DEF Placed, Opens
        <3>1. CASE l = job[a].at.label
            <4>1. Placed(a, l) /\ Closes(a, l) /\ a \in hands[l]
                BY <1>i, <2>1, <3>1 DEF Placed, Closes, Recording
            <4>2. CASE hands[l] = {a}
                <5>1. hands'[l] = {}
                    BY <1>h, <3>0, <4>1, <4>2
                <5>2. job[a].at.to = age[l].to
                    BY <1>i, <4>1, <4>2 DEF Recording
                <5>3. pub'[l] = age'[l].to
                    BY <1>t, <2>1, <3>1, <5>2
                <5>4. \A b \in Actors \ {a} : ~Placed(b, l)
                    BY <1>i, <4>2 DEF Recording
                <5>5. QED
                    BY <1>r, <3>0, <5>1, <5>3, <5>4 DEF Recording
            <4>3. CASE hands[l] # {a}
                <5>1. hands'[l] = hands[l] /\ hands[l] # {}
                    BY <1>h, <3>0, <4>1, <4>3
                <5>2. ASSUME NEW b \in Actors, Placed(b, l)'
                      PROVE  /\ Placed(b, l) /\ job'[b] = job[b]
                             /\ b \in hands[l] /\ hands[l] # {b}
                    <6>1. b # a
                        BY <3>0, <5>2
                    <6>2. Placed(b, l) /\ job'[b] = job[b]
                        BY <1>o, <1>r, <5>2, <6>1
                    <6>3. QED
                        BY <1>i, <4>1, <6>1, <6>2 DEF Recording
                <5>3. QED
                    BY <5>1, <5>2 DEF Recording
            <4>4. QED
                BY <4>2, <4>3
        <3>2. CASE l # job[a].at.label
            <4>1. ~Closes(a, l) /\ age'[l] = age[l] /\ pub'[l] = pub[l]
                BY <1>t, <2>1, <3>2 DEF Closes
            <4>2. QED
                BY <1>k, <3>0, <4>1
        <3>3. QED
            BY <3>1, <3>2
    <2>3. QED
        BY <1>o, <1>i, <2>1, <2>2 DEF RecordInv, Revoking
<1>3. CASE DeleteAge(a)
    <2>1. /\ pc[a] = "delete age" /\ pc'[a] = "delete pub" /\ pub' = pub
          /\ job' = job /\ job[a].at.label \in Labels
          /\ age' = [age EXCEPT ![job[a].at.label] = NoWrap]
        BY <1>t, <1>3 DEF DeleteAge, Continue, Goto, Placing, Revoking
    <2>2. job[a].at.to = None
        BY <1>i, <2>1 DEF Revoking
    <2>3. ASSUME NEW l \in Labels
          PROVE  Recording(l)'
        <3>1. CASE l = job[a].at.label
            <4>1. Opens(a, l) /\ job'[a].at.to = age'[l].to
                BY <1>t, <2>1, <2>2, <3>1 DEF Opens, NoWrap
            <4>2. QED
                BY <1>p, <4>1
        <3>2. CASE l # job[a].at.label
            <4>1. /\ ~Opens(a, l) /\ ~Closes(a, l) /\ ~Placed(a, l)'
                  /\ age'[l] = age[l] /\ pub'[l] = pub[l]
                BY <1>t, <2>1, <3>2 DEF Opens, Closes, Placed
            <4>2. QED
                BY <1>k, <4>1
        <3>3. QED
            BY <3>1, <3>2
    <2>4. QED
        BY <1>o, <1>i, <2>1, <2>2, <2>3 DEF RecordInv
<1>4. CASE ~((\E x \in Slot : PutAge(a, x)) \/ PutPub(a) \/ DeleteAge(a) \/ DeletePub(a))
    <2>1. /\ age' = age /\ pub' = pub
          /\ pc'[a] \notin {"put pub", "delete pub"}
          /\ pc[a] \in {"put pub", "delete pub"} => pc'[a] = "idle"
          /\ pc'[a] \in Revoking => job'[a].at.to = None
        BY <1>4, SlotsWait
    <2>2. ASSUME NEW l \in Labels
          PROVE  Recording(l)'
        <3>1. ~Opens(a, l) /\ ~Closes(a, l) /\ ~Placed(a, l)'
            BY <2>1 DEF Opens, Closes, Placed
        <3>2. QED
            BY <1>k, <2>1, <3>1
    <2>3. QED
        BY <1>o, <1>i, <2>1, <2>2 DEF RecordInv
<1>5. QED
    BY <1>1, <1>2, <1>3, <1>4

(* The rotation's own steps write no slot. *)
LEMMA RecordRotation ==
    ASSUME VaultTypeInv, RecordInv,
           StartRotation \/ ListSlots \/ Rewrap \/ SetRepoKey \/ Flip
    PROVE  RecordInv'
<1> USE RotatorIsActor
<1>1. /\ pc \in [Actors -> Points] /\ job \in [Actors -> Job]
      /\ age' = age /\ pub' = pub /\ hands' = hands
    BY DEF VaultTypeInv, TypeInv, TypeOK, StartRotation, ListSlots, List, Rewrap, SetRepoKey,
           Flip, objects, atRisk
<1>2. /\ pc[Rotator] \in {"idle", "next slot"}
      /\ pc'[Rotator] \in {"idle", "repo pub", "next slot", "put age", "seal repo"}
      /\ \A b \in Actors \ {Rotator} : pc'[b] = pc[b] /\ job'[b] = job[b]
    BY <1>1 DEF StartRotation, ListSlots, List, Rewrap, SetRepoKey, Flip, Continue, Goto, End
<1>3. \A b \in Actors : \A l : Placed(b, l)' <=> Placed(b, l)
    BY <1>2 DEF Placed
<1>4. \A b \in Actors : \A l : Placed(b, l) => job'[b] = job[b]
    BY <1>2 DEF Placed
<1>5. \A a \in Actors : pc'[a] \in Revoking => pc[a] \in Revoking /\ job'[a] = job[a]
    BY <1>2 DEF Revoking
<1>6. QED
    BY <1>1, <1>3, <1>4, <1>5 DEF RecordInv, Recording

(* Every step keeps the records. *)
LEMMA RecordNext == VaultTypeInv /\ RecordInv /\ [VaultNext]_vaultVars => RecordInv'
<1> SUFFICES ASSUME VaultTypeInv, RecordInv, [VaultNext]_vaultVars PROVE RecordInv'
    OBVIOUS
<1>1. CASE UNCHANGED vaultVars
    <2>1. UNCHANGED <<age, pub, pc, job, hands>>
        BY <1>1 DEF vaultVars, vars, objects, atRisk
    <2>2. \A a, l : Placed(a, l)' <=> Placed(a, l)
        BY <2>1 DEF Placed
    <2>3. QED
        BY <2>1, <2>2 DEF RecordInv, Recording
<1>2. CASE SharedStep
    BY <1>2, SharedIsKeyring, RecordStep, RotatorIsActor
<1>3. CASE \E a \in Actors : Other(a)
    BY <1>3, SharedIsKeyring, RecordStep
<1>4. QED
    BY <1>1, <1>2, <1>3, VaultSteps, RecordRotation

LEMMA RecordAlways == VaultSpec => [](VaultTypeInv /\ RecordInv)
BY VaultTypeInit, VaultTypeNext, RecordInit, RecordNext, PTL DEF VaultSpec

(* The recipient recorded for a slot is the one its wrapped key opens with,  *)
(* whatever commands run at the same time, rotations among them.  Where one  *)
(* died between the two objects of a slot, or two had it in hand at once,    *)
(* that is so again once a command has written both with the slot to itself  *)
(* (keyring.go, Grant and Revoke).                                           *)
THEOREM SlotsAreAsRecorded == VaultSpec => []AsRecorded
<1>1. RecordInv => AsRecorded
    BY DEF RecordInv, Recording, AsRecorded
<1>2. QED
    BY <1>1, RecordAlways, PTL

-----------------------------------------------------------------------------
(* The key of every slot *)

Whole(S) == \A l \in S \ missed : age[l] # NoWrap => age[l].key = Rotator

(* While the rotation re-wraps, a slot either has the new key or is still to *)
(* be done, for the recipient it has.  Founder is the key before the flip.   *)
RewrapInv ==
    /\ rotation # "over" => active = Founder
    /\ rotation \in {"wrap", "publish"} => job[Rotator].dek = Rotator
    /\ rotation = "wrap" =>
          LET todo == job[Rotator].todo
          IN  /\ \A x, y \in todo : x.label = y.label => x = y
              /\ \A x \in todo : x.label \in missed \/ age[x.label].to = x.to
              /\ Whole(Labels \ {x.label : x \in todo})
    /\ rotation = "publish" \/ (rotation = "over" /\ active = Rotator) => Whole(Labels)

(* A step changes the key of a slot only by writing it, and then to its own. *)
LEMMA KeyStep ==
    ASSUME VaultTypeInv, NEW a \in Actors, KeyringStep(a), NEW l \in Labels
    PROVE  \/ age'[l] = age[l]
           \/ Opens(a, l) /\ (age'[l] = NoWrap \/ age'[l].key = job[a].dek)
<1>t. /\ pc \in [Actors -> Points] /\ job \in [Actors -> Job]
      /\ age \in [Labels -> Wrap \cup {NoWrap}]
    BY DEF VaultTypeInv, TypeInv, TypeOK
<1>1. CASE \E x \in Slot : PutAge(a, x)
    <2>1. PICK x \in Slot : PutAge(a, x)
        BY <1>1
    <2>2. /\ pc[a] = "put age" /\ pc'[a] = "put pub" /\ job'[a].at = x
          /\ age' = [age EXCEPT ![x.label] = [key |-> job[a].dek, to |-> x.to]]
        BY <1>t, <2>1 DEF PutAge, Goto, Job
    <2>3. x.label \in Labels
        BY DEF Slot
    <2>4. CASE l = x.label
        <3>1. age'[l].key = job[a].dek
            BY <1>t, <2>2, <2>4
        <3>2. Opens(a, l)
            BY <2>2, <2>4 DEF Opens
        <3>3. QED
            BY <3>1, <3>2
    <2>5. QED
        BY <1>t, <2>2, <2>3, <2>4
<1>2. CASE DeleteAge(a)
    <2>1. /\ pc[a] = "delete age" /\ pc'[a] = "delete pub" /\ job' = job
          /\ age' = [age EXCEPT ![job[a].at.label] = NoWrap]
        BY <1>t, <1>2 DEF DeleteAge, Continue, Goto
    <2>2. CASE l = job[a].at.label
        BY <1>t, <2>1, <2>2 DEF Opens
    <2>3. QED
        BY <1>t, <2>1, <2>2
<1>3. CASE PutPub(a) \/ DeletePub(a)
    BY <1>3 DEF PutPub, DeletePub
<1>4. QED
    BY <1>1, <1>2, <1>3, SlotsWait

(* Who writes the first object of a slot writes its own key, or none. *)
LEMMA OpensKey ==
    ASSUME VaultTypeInv, NEW a \in Actors, KeyringStep(a), NEW l \in Labels, Opens(a, l)
    PROVE  age'[l] = NoWrap \/ age'[l].key = job[a].dek
<1>t. /\ pc \in [Actors -> Points] /\ job \in [Actors -> Job]
      /\ age \in [Labels -> Wrap \cup {NoWrap}]
    BY DEF VaultTypeInv, TypeInv, TypeOK
<1>1. CASE \E x \in Slot : PutAge(a, x)
    <2>1. PICK x \in Slot : PutAge(a, x)
        BY <1>1
    <2>2. /\ job'[a].at = x
          /\ age' = [age EXCEPT ![x.label] = [key |-> job[a].dek, to |-> x.to]]
        BY <1>t, <2>1 DEF PutAge, Goto, Job
    <2>3. QED
        BY <1>t, <2>2 DEF Opens
<1>2. CASE DeleteAge(a)
    BY <1>t, <1>2 DEF DeleteAge, Continue, Goto, Opens
<1>3. CASE PutPub(a) \/ DeletePub(a)
    BY <1>t, <1>3 DEF PutPub, DeletePub, Opens
<1>4. QED
    BY <1>1, <1>2, <1>3, SlotsWait DEF Opens

(* A step of a command that is not the rotation, in whatever phase. *)
LEMMA RewrapOther ==
    ASSUME VaultTypeInv, RewrapInv, NEW a \in Actors, Other(a)
    PROVE  RewrapInv'
<1> USE RotatorIsActor
<1>1. /\ KeyringStep(a) /\ Miss(a) /\ UNCHANGED <<active, rotation>>
      /\ ~(a = Rotator /\ Rotating)
    BY SharedIsKeyring DEF Other
<1>2. ASSUME NEW l \in Labels
      PROVE  /\ rotation \in {"wrap", "publish"} \/ job[a].dek # active
                    => (l \in missed' <=> l \in missed \/ Opens(a, l))
             /\ l \notin missed' => l \notin missed \/ Opens(a, l)
    BY <1>1 DEF Miss
<1>3. Rotating => job'[Rotator] = job[Rotator]
    BY <1>1, KeyringStepTypes
<1>4. ASSUME NEW l \in Labels \ missed'
      PROVE  /\ rotation \in {"wrap", "publish"} => l \notin missed /\ age'[l] = age[l]
             /\ active = Rotator =>
                    \/ l \notin missed /\ age'[l] = age[l]
                    \/ age'[l] = NoWrap \/ age'[l].key = Rotator
    <2>1. CASE rotation \in {"wrap", "publish"} \/ job[a].dek # active
        BY <1>1, <1>2, <2>1, KeyStep
    <2>2. CASE ~(rotation \in {"wrap", "publish"} \/ job[a].dek # active)
        <3>1. CASE Opens(a, l)
            BY <1>1, <2>2, <3>1, OpensKey
        <3>2. CASE ~Opens(a, l)
            BY <1>1, <1>2, <2>2, <3>2, KeyStep
        <3>3. QED
            BY <3>1, <3>2
    <2>3. QED
        BY <2>1, <2>2
<1>5. rotation \in {"wrap", "publish"} => job[Rotator].dek = Rotator /\ Rotating
    BY DEF RewrapInv, Rotating
<1>6. CASE rotation = "wrap"
    <2> DEFINE todo == job[Rotator].todo
    <2>1. job'[Rotator] = job[Rotator] /\ rotation' = "wrap" /\ active' = Founder
        BY <1>1, <1>3, <1>5, <1>6 DEF RewrapInv
    <2>2. \A x \in todo : x.label \in missed' \/ age'[x.label].to = x.to
        <3>1. ASSUME NEW x \in todo, x.label \notin missed'
              PROVE  age'[x.label].to = x.to
            <4>1. job[Rotator] \in Job /\ x \in job[Rotator].todo
                BY DEF VaultTypeInv, TypeInv, TypeOK
            <4>2. x.label \in Labels
                BY <4>1 DEF Job, Slot
            <4>3. x.label \notin missed /\ age'[x.label] = age[x.label]
                BY <1>4, <1>6, <3>1, <4>2
            <4>4. QED
                BY <1>6, <4>3 DEF RewrapInv
        <3>2. QED
            BY <3>1
    <2>3. Whole(Labels \ {x.label : x \in todo})'
        BY <1>4, <1>6, <2>1 DEF RewrapInv, Whole
    <2>4. QED
        BY <1>6, <2>1, <2>2, <2>3 DEF RewrapInv
<1>7. CASE rotation # "wrap"
    BY <1>1, <1>3, <1>4, <1>5, <1>7 DEF RewrapInv, Whole
<1>8. QED
    BY <1>6, <1>7

(* A step of the rotation on the keyring. *)
LEMMA RewrapShared ==
    ASSUME VaultTypeInv, RewrapInv, SharedStep
    PROVE  RewrapInv'
<1> USE RotatorIsActor
<1>t. /\ KeyringStep(Rotator) /\ Miss(Rotator) /\ UNCHANGED active /\ Rotating
      /\ pc \in [Actors -> Points] /\ job \in [Actors -> Job]
      /\ age \in [Labels -> Wrap \cup {NoWrap}]
      /\ active = Founder
    BY SharedIsKeyring
       DEF SharedStep, VaultTypeInv, TypeInv, TypeOK, RewrapInv, Rotating
<1>m. missed' = missed \ {l \in Labels : Opens(Rotator, l)}
    BY <1>t DEF Miss
<1>1. CASE rotation' = "over"
    BY <1>t, <1>1 DEF RewrapInv
<1>2. CASE rotation' # "over" /\ rotation = "verify"
    BY <1>t, <1>2, SharedControl DEF RewrapInv
<1>3. CASE rotation' # "over" /\ rotation \in {"wrap", "publish"}
    <2>1. rotation' = rotation /\ pc'[Rotator] # "idle" /\ job[Rotator].dek = Rotator
        BY <1>3 DEF SharedStep, RewrapInv
    <2>2. pc[Rotator] \in Wrapping \cup Publishing
        BY <1>3 DEF VaultTypeInv, ControlInv
    <2>3. CASE \E x \in Slot : PutAge(Rotator, x)
        <3>1. PICK x \in Slot : PutAge(Rotator, x)
            BY <2>3
        <3>2. /\ x \in job[Rotator].todo
              /\ age' = [age EXCEPT ![x.label] = [key |-> Rotator, to |-> x.to]]
              /\ job'[Rotator].todo = job[Rotator].todo \ {x}
              /\ job'[Rotator].dek = Rotator
            BY <1>t, <2>1, <3>1 DEF PutAge, Job
        <3>3. rotation = "wrap"
            BY <1>3, <3>1 DEF PutAge, VaultTypeInv, ControlInv, Publishing, Sealing
        <3>4. /\ \A y, z \in job[Rotator].todo : y.label = z.label => y = z
              /\ \A y \in job[Rotator].todo : y.label \in missed \/ age[y.label].to = y.to
              /\ Whole(Labels \ {y.label : y \in job[Rotator].todo})
            BY <3>3 DEF RewrapInv
        <3>5. \A y \in job'[Rotator].todo : y.label # x.label /\ y \in job[Rotator].todo
            BY <3>2, <3>4
        <3>m. missed' = missed \ {x.label}
            <4>1. /\ pc[Rotator] = "put age" /\ pc'[Rotator] = "put pub"
                  /\ job'[Rotator].at = x /\ x.label \in Labels
                BY <1>t, <3>1 DEF PutAge, Goto, Job, Slot
            <4>2. {l \in Labels : Opens(Rotator, l)} = {x.label}
                BY <4>1 DEF Opens
            <4>3. QED
                BY <1>m, <4>2
        <3>6. \A y \in job'[Rotator].todo : y.label \in missed' \/ age'[y.label].to = y.to
            <4>1. ASSUME NEW y \in job'[Rotator].todo
                  PROVE  age'[y.label] = age[y.label] /\ (y.label \in missed' <=> y.label \in missed)
                <5>1. y.label \in Labels
                    BY <1>t, <3>5 DEF Job, Slot
                <5>2. QED
                    BY <1>t, <3>2, <3>5, <3>m, <5>1
            <4>2. QED
                BY <1>t, <3>4, <3>5, <4>1
        <3>7. ASSUME NEW l \in Labels \ missed', l \notin {y.label : y \in job'[Rotator].todo}
              PROVE  age'[l] # NoWrap => age'[l].key = Rotator
            <4>1. CASE l = x.label
                BY <1>t, <3>2, <4>1
            <4>2. CASE l # x.label
                <5>1. l \notin {y.label : y \in job[Rotator].todo} /\ age'[l] = age[l]
                    BY <1>t, <3>2, <3>7, <4>2
                <5>2. QED
                    BY <1>t, <3>4, <3>7, <3>m, <4>2, <5>1 DEF Whole
            <4>3. QED
                BY <4>1, <4>2
        <3>8. Whole(Labels \ {y.label : y \in job[Rotator].todo})'
            BY <3>7 DEF Whole
        <3>9. QED
            BY <1>t, <2>1, <3>2, <3>3, <3>4, <3>5, <3>6, <3>8 DEF RewrapInv
    <2>4. CASE ~\E x \in Slot : PutAge(Rotator, x)
        <3>1. \/ PutPub(Rotator) \/ SealRepo(Rotator) \/ SealSlots(Rotator) \/ PutSeal(Rotator)
            BY <1>t, <2>1, <2>2, <2>4
               DEF SharedStep, RepoRecipient, Unwrap, GetSeal, VerifyRepo, VerifySlots, Kill,
                   End, Wrapping, Publishing, Sealing
        <3>2. age' = age
            BY <3>1 DEF PutPub, SealRepo, SealSlots, PutSeal, objects
        <3>3. /\ job'[Rotator].todo = job[Rotator].todo
              /\ job'[Rotator].dek = job[Rotator].dek
            BY <1>t, <3>1 DEF PutPub, SealRepo, SealSlots, PutSeal, Continue, Job
        <3>4. missed' = missed
            <4>1. pc[Rotator] \notin {"put age", "delete age"}
                BY <3>1 DEF PutPub, SealRepo, SealSlots, PutSeal
            <4>2. QED
                BY <1>m, <4>1 DEF Opens
        <3>5. QED
            BY <1>t, <2>1, <3>2, <3>3, <3>4 DEF RewrapInv, Whole
    <2>5. QED
        BY <2>3, <2>4
<1>4. QED
    BY <1>1, <1>2, <1>3, <1>t DEF Rotating

(* The slots that are listed are those that open, as long as they are whole. *)
LEMMA RewrapListed ==
    ASSUME VaultTypeInv, RecordInv, RewrapInv, ListSlots
    PROVE  RewrapInv'
<1> USE RotatorIsActor
<1>1. PICK unread \in Unread(Rotator) :
        List({[label |-> l, to |-> pub[l]] : l \in Recorded \ unread})
    BY DEF ListSlots
<1> DEFINE todo == {[label |-> l, to |-> pub[l]] : l \in Recorded \ unread}
<1>t. /\ job \in [Actors -> Job] /\ active = Founder
      /\ age \in [Labels -> Wrap \cup {NoWrap}]
      /\ age' = age /\ UNCHANGED active /\ rotation' = "wrap" /\ pc[Rotator] = "next slot"
      /\ job' = [job EXCEPT ![Rotator].dek = Rotator, ![Rotator].todo = todo]
    BY <1>1 DEF VaultTypeInv, TypeInv, TypeOK, List, RewrapInv, objects
<1>2. missed' = {l \in Labels : \/ hands[l] # {}
                                \/ age[l] # NoWrap /\ l \notin {x.label : x \in todo}}
    BY <1>1 DEF List
<1>3. \A x \in todo : x.label \in Labels /\ x.to = pub[x.label]
    BY DEF Recorded
<1>4. \A x, y \in todo : x.label = y.label => x = y
    OBVIOUS
<1> HIDE DEF todo
<1>5. job'[Rotator].dek = Rotator /\ job'[Rotator].todo = todo
    BY <1>t DEF Job
<1>6. \A l \in Labels \ missed' : pub[l] = age[l].to
    BY <1>2 DEF RecordInv, Recording
<1>7. \A x \in todo : x.label \in missed' \/ age'[x.label].to = x.to
    BY <1>t, <1>3, <1>6
<1>8. Whole(Labels \ {x.label : x \in job[Rotator].todo})'
    BY <1>t, <1>2, <1>5 DEF Whole
<1>9. QED
    BY <1>t, <1>4, <1>5, <1>7, <1>8 DEF RewrapInv

(* The rotation's other steps: the last slot is done before repo.pub is set. *)
LEMMA RewrapRotation ==
    ASSUME VaultTypeInv, RewrapInv, StartRotation \/ Rewrap \/ SetRepoKey \/ Flip
    PROVE  RewrapInv'
<1> USE RotatorIsActor
<1>1. /\ age' = age /\ missed' = missed
      /\ job \in [Actors -> Job]
    BY DEF VaultTypeInv, TypeInv, TypeOK, StartRotation, Rewrap, SetRepoKey, Flip, objects,
           atRisk
<1>2. CASE StartRotation
    BY <1>1, <1>2 DEF StartRotation, RewrapInv
<1>3. CASE Rewrap
    BY <1>1, <1>3 DEF Rewrap, Continue, RewrapInv, Whole
<1>4. CASE SetRepoKey
    <2>1. {x.label : x \in job[Rotator].todo} = {} /\ rotation = "wrap"
        BY <1>4 DEF SetRepoKey
    <2>2. Whole(Labels)
        BY <2>1 DEF RewrapInv
    <2>3. QED
        BY <1>1, <1>4, <2>2 DEF SetRepoKey, Continue, RewrapInv, Whole
<1>5. CASE Flip
    BY <1>1, <1>5 DEF Flip, RewrapInv, Whole
<1>6. QED
    BY <1>2, <1>3, <1>4, <1>5

(* Every step keeps the keys whole, and a step that re-wraps a slot keeps its *)
(* recipient.                                                                 *)
LEMMA RewrapNext == VaultTypeInv /\ RecordInv /\ RewrapInv /\ [VaultNext]_vaultVars => RewrapInv'
<1> SUFFICES ASSUME VaultTypeInv, RecordInv, RewrapInv, [VaultNext]_vaultVars PROVE RewrapInv'
    OBVIOUS
<1>1. CASE UNCHANGED vaultVars
    <2>1. UNCHANGED <<age, job, active, rotation, missed>>
        BY <1>1 DEF vaultVars, vars, objects, atRisk
    <2>2. QED
        BY <2>1 DEF RewrapInv, Whole
<1>2. QED
    BY <1>1, VaultSteps, RewrapOther, RewrapShared, RewrapListed, RewrapRotation

LEMMA RewrapAlways == VaultSpec => [](VaultTypeInv /\ RewrapInv)
<1>1. VaultInit => RewrapInv
    BY RotatorIsActor DEF VaultInit, RewrapInv
<1>2. QED
    BY <1>1, VaultTypeInit, VaultTypeNext, RecordInit, RecordNext, RewrapNext, PTL DEF VaultSpec

(* Once the active generation is under the new key, every slot opens it, in  *)
(* whatever order the rotation and the others take their steps, with         *)
(* conditional writes.  Excepted is a slot whose recipient was not recorded, *)
(* or could not be read, when the rotation listed the slots; one that        *)
(* another command wrote after that, or had in hand or left half written     *)
(* then, if the rotation has not re-wrapped it since; and one that was last  *)
(* written with the key that the flip replaced (rotation.go, RewrapKeys).    *)
THEOREM RotationKeepsAccess == VaultSpec => []KeptByRotation
<1>1. RewrapInv => KeptByRotation
    BY DEF RewrapInv, KeptByRotation, Whole
<1>2. QED
    BY <1>1, RewrapAlways, PTL

(* When a rotation re-wraps a slot, the new key goes to the recipient of the *)
(* old one, if the slot was whole, its recipient recorded and readable when  *)
(* the rotation listed the slots, and no other command has written it since. *)
(* Nothing is said of a slot that a killed grant or revoke left half         *)
(* written, nor of one that was revoked meanwhile (rotation.go, RewrapKeys). *)
THEOREM RotationMovesNobody == VaultSpec => SameAccess
<1>1. ASSUME VaultTypeInv, RewrapInv, [VaultNext]_vaultVars,
             Rotating, pc[Rotator] = "put age", pc'[Rotator] = "put pub",
             NEW l \in Labels \ missed
      PROVE  age'[l].to = age[l].to
    <2> USE RotatorIsActor
    <2>1. /\ rotation = "wrap" /\ pc \in [Actors -> Points] /\ job \in [Actors -> Job]
          /\ age \in [Labels -> Wrap \cup {NoWrap}]
        BY <1>1
           DEF Rotating, VaultTypeInv, ControlInv, TypeInv, TypeOK, Verifying, Publishing, Sealing
    <2>2. ~UNCHANGED vaultVars
        BY <1>1 DEF vaultVars, vars
    <2>3. ASSUME NEW a \in Actors, Other(a)
          PROVE  FALSE
        BY <1>1, <2>3, SharedIsKeyring, KeyringStepTypes DEF Other
    <2>4. ~(StartRotation \/ ListSlots \/ Rewrap \/ SetRepoKey \/ Flip)
        BY <1>1 DEF StartRotation, ListSlots, List, Rewrap, SetRepoKey, Flip
    <2>5. SharedStep
        BY <1>1, <2>2, <2>3, <2>4, VaultSteps
    <2>6. PICK x \in Slot : PutAge(Rotator, x)
        BY <1>1, <2>1, <2>5
           DEF SharedStep, RepoRecipient, Unwrap, GetSeal, VerifyRepo, VerifySlots, PutPub,
               SealRepo, SealSlots, PutSeal, Kill, End
    <2>7. /\ x \in job[Rotator].todo
          /\ age' = [age EXCEPT ![x.label] = [key |-> job[Rotator].dek, to |-> x.to]]
        BY <2>6 DEF PutAge
    <2>8. x.label \in missed \/ age[x.label].to = x.to
        BY <1>1, <2>1, <2>7 DEF RewrapInv
    <2>9. CASE l = x.label
        BY <2>1, <2>7, <2>8, <2>9
    <2>10. CASE l # x.label
        BY <2>1, <2>7, <2>10
    <2>11. QED
        BY <2>9, <2>10
<1>2. VaultTypeInv /\ RewrapInv /\ [VaultNext]_vaultVars
        => [Rotating /\ pc[Rotator] = "put age" /\ pc'[Rotator] = "put pub" =>
              \A l \in Labels \ missed : age'[l].to = age[l].to]_vaultVars
    BY <1>1
<1>3. QED
    BY <1>2, RewrapAlways, PTL DEF SameAccess, VaultSpec

-----------------------------------------------------------------------------
(* The seal *)

(* The rotation ends with a seal like the others do; it has no slots of its  *)
(* own, so what Keyring says of progress is not said of it.                  *)
(* Before the rotation there is one key; after it, a sure command has the   *)
(* new one, or the slot that it has written is missed.                       *)
KeyAt(a) ==
    a \in sure /\ job[a].at # None /\ pc[a] # "delete age" =>
        job[a].dek = Rotator \/ missed # {}

CoverInv ==
    /\ AloneInv
    /\ \A a \in Actors : EarlyAt(a) /\ SealedAt(a)
    /\ \A a \in Actors : ~(a = Rotator /\ Rotating) => ProgressAt(a)
    /\ rotation = "verify" => job[Rotator].at = None
    /\ rotation = "publish" /\ pc[Rotator] = "next slot" /\ Rotator \in sure
          => seal = SealBy(Rotator)
    /\ rotation = "before" => KeyInv
    /\ rotation = "publish" \/ active = Rotator => repoPub = Rotator
    /\ active = Rotator => \A a \in Actors : KeyAt(a)
    /\ CleanIsCovered

LEMMA CoverInit == VaultInit => CoverInv
<1> SUFFICES ASSUME VaultInit PROVE CoverInv
    OBVIOUS
<1>1. CleanInv /\ ~clean
    BY CleanInvInit DEF VaultInit, Init
<1>2. KeyInv
    BY VaultAssumption, KeyInit DEF VaultInit
<1>3. QED
    BY <1>1, <1>2, RotatorIsActor DEF CleanInv, CoverInv, CleanIsCovered, VaultInit

(* Who does not take the step is as before, and no longer sure.  *)
LEMMA OthersStayCovered ==
    ASSUME VaultTypeInv, CoverInv, NEW a \in Actors, KeyringStep(a), NEW b \in Actors \ {a}
    PROVE  /\ (EarlyAt(b) /\ SealedAt(b))'
           /\ ProgressAt(b) => ProgressAt(b)'
           /\ b \notin sure'
<1>1. pc'[b] = pc[b] /\ job'[b] = job[b]
    BY KeyringStepTypes
<1>2. b \notin sure'
    BY AloneStep DEF VaultTypeInv, CoverInv
<1>3. QED
    BY <1>1, <1>2 DEF CoverInv, EarlyAt, SealedAt, ProgressAt, Op

(* The command that takes the step has the new key, or what it writes is *)
(* missed.                                                               *)
LEMMA KeyAtStep ==
    ASSUME VaultTypeInv, NEW a \in Actors, KeyringStep(a), Miss(a), ~Rotating,
           active = Rotator, AloneInv, EarlyAt(a), KeyAt(a)
    PROVE  KeyAt(a)'
<1>t. pc \in [Actors -> Points] /\ job \in [Actors -> Job] /\ job[a] \in Job
    BY DEF VaultTypeInv, TypeInv, TypeOK
<1>m. \A l \in Labels : Opens(a, l) /\ job[a].dek # Rotator => l \in missed'
    BY DEF Miss
<1>n. pc[a] \notin {"put age", "delete age"} => missed' = missed
    BY DEF Miss, Opens
<1>1. CASE (\E task \in left[a] : Start(a, task)) \/ Kill(a) \/ \E how : End(a, how)
    <2>1. CASE \E task \in left[a] : Start(a, task)
        <3>1. PICK task \in left[a] :
                job' = [job EXCEPT ![a] = [NoJob EXCEPT !.task = task, !.todo = task.slots]]
            BY <2>1 DEF Start
        <3>2. job'[a].at = None
            BY <1>t, <3>1 DEF NoJob
        <3>3. QED
            BY <3>2 DEF KeyAt
    <2>2. CASE Kill(a) \/ \E how : End(a, how)
        BY <2>2 DEF Kill, End, KeyAt
    <2>3. QED
        BY <1>1, <2>1, <2>2
<1>2. CASE /\ ~\E how : End(a, how)
           /\ \/ RepoRecipient(a) \/ Publish(a) \/ Unwrap(a) \/ GetSeal(a)
              \/ VerifyRepo(a) \/ VerifySlots(a) \/ Prove(a)
    <2>1. job[a].at = None
        BY <1>2 DEF RepoRecipient, Publish, Unwrap, GetSeal, VerifyRepo, VerifySlots, Prove,
                    EarlyAt, Early
    <2>2. job'[a].at = job[a].at
        <3>1. CASE RepoRecipient(a) \/ VerifySlots(a) \/ Prove(a)
            BY <1>2, <3>1 DEF RepoRecipient, VerifySlots, Prove, Continue
        <3>2. CASE Publish(a)
            BY <1>t, <3>2 DEF Publish, Continue, Job
        <3>3. CASE Unwrap(a)
            <4>1. PICK key : job' = [job EXCEPT ![a].dek = key]
                BY <1>2, <3>3 DEF Unwrap
            <4>2. QED
                BY <1>t, <4>1 DEF Job
        <3>4. CASE GetSeal(a)
            BY <1>t, <3>4 DEF GetSeal, Job
        <3>5. CASE VerifyRepo(a)
            BY <1>t, <3>5 DEF VerifyRepo, Job
        <3>6. QED
            BY <1>2, <3>1, <3>2, <3>3, <3>4, <3>5
    <2>3. QED
        BY <2>1, <2>2 DEF KeyAt
<1>3. CASE ~(\E how : End(a, how)) /\ Find(a)
    <2>1. pc'[a] = "delete age"
        BY <1>t, <1>3 DEF Find, Goto
    <2>2. QED
        BY <2>1 DEF KeyAt
<1>4. CASE \E x \in Slot : PutAge(a, x)
    <2>1. PICK x \in Slot : PutAge(a, x)
        BY <1>4
    <2>2. /\ pc[a] = "put age" /\ pc'[a] = "put pub"
          /\ job'[a].at = x /\ job'[a].dek = job[a].dek
        BY <1>t, <2>1 DEF PutAge, Goto, Job
    <2>3. x.label \in Labels /\ Opens(a, x.label)
        BY <2>2 DEF Slot, Opens
    <2>4. QED
        BY <1>m, <2>2, <2>3 DEF KeyAt
<1>5. CASE DeleteAge(a)
    <2>1. /\ pc[a] = "delete age" /\ pc'[a] = "delete pub" /\ job' = job
        BY <1>t, <1>5 DEF DeleteAge, Continue, Goto
    <2>2. job[a].at.label \in Labels
        BY <1>t, <2>1 DEF VaultTypeInv, TypeInv, Placing, Revoking, Job
    <2>3. Opens(a, job[a].at.label)
        BY <2>1 DEF Opens
    <2>4. QED
        BY <1>m, <2>1, <2>2, <2>3 DEF KeyAt
<1>6. CASE /\ ~\E how : End(a, how)
           /\ \/ NextSlot(a) \/ PutPub(a) \/ DeletePub(a)
              \/ SealRepo(a) \/ SealSlots(a) \/ PutSeal(a)
    <2>1. pc[a] \notin {"put age", "delete age"}
        BY <1>6 DEF NextSlot, PutPub, DeletePub, SealRepo, SealSlots, PutSeal
    <2>2. sure' \subseteq sure
        BY <1>6 DEF NextSlot, PutPub, DeletePub, SealRepo, SealSlots, PutSeal, Continue, Goto,
                    Read, history
    <2>3. job'[a].at = job[a].at /\ job'[a].dek = job[a].dek
        <3>1. CASE NextSlot(a) \/ PutPub(a) \/ DeletePub(a) \/ PutSeal(a)
            BY <1>6, <3>1 DEF NextSlot, PutPub, DeletePub, PutSeal, Continue
        <3>2. CASE SealRepo(a)
            BY <1>t, <3>2 DEF SealRepo, Job
        <3>3. CASE SealSlots(a)
            BY <1>t, <3>3 DEF SealSlots, Job
        <3>4. QED
            BY <1>6, <3>1, <3>2, <3>3
    <2>4. QED
        BY <1>n, <2>1, <2>2, <2>3 DEF KeyAt
<1>7. QED
    BY <1>1, <1>2, <1>3, <1>4, <1>5, <1>6 DEF KeyringStep, Command

(* A step of a command that is not the rotation. *)
LEMMA CoverOther ==
    ASSUME VaultTypeInv, CoverInv, RewrapInv, NEW a \in Actors, Other(a)
    PROVE  CoverInv'
<1> USE RotatorIsActor
<1>1. /\ KeyringStep(a) /\ Miss(a) /\ UNCHANGED <<active, rotation>>
      /\ ~(a = Rotator /\ Rotating)
    BY SharedIsKeyring DEF Other
<1>2. TypeInv /\ AloneInv /\ EarlyAt(a) /\ SealedAt(a) /\ ProgressAt(a)
    BY <1>1 DEF VaultTypeInv, CoverInv
<1>3. AloneInv' /\ (EarlyAt(a) /\ SealedAt(a) /\ ProgressAt(a))'
    BY <1>1, <1>2, AloneStep, EarlyStep, SealedStep, ProgressStep
<1>4. \A b \in Actors \ {a} : /\ (EarlyAt(b) /\ SealedAt(b))'
                              /\ ProgressAt(b) => ProgressAt(b)'
                              /\ b \notin sure'
    BY <1>1, OthersStayCovered
<1>5. Rotating' = Rotating
    BY <1>1 DEF Rotating
<1>6. \A b \in Actors : ~(b = Rotator /\ Rotating') => ProgressAt(b)'
    BY <1>1, <1>3, <1>4, <1>5 DEF CoverInv
<1>k. active = Rotator => ~Rotating
    BY DEF RewrapInv, Rotating
<1>7. CleanIsCovered'
    <2>1. ASSUME clean' PROVE seal'.repo = repoPub' /\ seal'.slots = SlotView'
        <3>1. UNCHANGED <<repoPub, age, pub, seal>> /\ seal = SealBy(a)
            BY <1>1, <1>2, <2>1, CleanStep DEF objects
        <3>2. SlotView' = SlotView
            BY <3>1, ViewKept
        <3>3. QED
            BY <3>1, <3>2 DEF SealBy
    <2>2. ASSUME clean', rotation' = "before" \/ (active' = Rotator /\ missed' = {})
          PROVE  seal'.by = repoPub'
        <3>0. UNCHANGED objects /\ NextSlot(a) /\ seal = SealBy(a) /\ a \in sure /\ job[a].at # None
            BY <1>1, <1>2, <2>2, CleanStep
        <3>1. /\ UNCHANGED <<repoPub, seal>> /\ seal.by = job[a].dek
              /\ pc[a] = "next slot" /\ a \in sure /\ job[a].at # None
            BY <3>0 DEF objects, NextSlot, SealBy
        <3>2. CASE rotation' = "before"
            BY <1>1, <3>1, <3>2 DEF CoverInv, KeyInv, Holding, Granting
        <3>3. CASE active' = Rotator /\ missed' = {}
            <4>1. missed = {}
                BY <1>1, <3>1, <3>3 DEF Miss, Opens
            <4>2. QED
                BY <1>1, <3>1, <3>3, <4>1 DEF CoverInv, KeyAt
        <3>4. QED
            BY <2>2, <3>2, <3>3
    <2>3. QED
        BY <2>1, <2>2 DEF CleanIsCovered
<1>8. Rotating => job'[Rotator] = job[Rotator] /\ Rotator \notin sure'
    BY <1>1, <1>4, KeyringStepTypes
<1>9. rotation' = "before" => KeyInv'
    BY <1>1, <1>2, VaultAssumption, KeyNext DEF CoverInv, KeyringStep, Next
<1>10. rotation' = "publish" \/ active' = Rotator => repoPub' = Rotator
    BY <1>1, KeyringStepTypes DEF CoverInv
<1>11. active' = Rotator => \A b \in Actors : KeyAt(b)'
    <2>1. ASSUME active' = Rotator PROVE KeyAt(a)'
        BY <1>1, <1>2, <1>k, <2>1, KeyAtStep DEF CoverInv
    <2>2. \A b \in Actors \ {a} : KeyAt(b)'
        BY <1>4 DEF KeyAt
    <2>3. QED
        BY <2>1, <2>2
<1>12. QED
    BY <1>1, <1>3, <1>4, <1>6, <1>7, <1>8, <1>9, <1>10, <1>11 DEF CoverInv, Rotating

(* A step of the rotation on the keyring. *)
LEMMA CoverShared ==
    ASSUME VaultTypeInv, CoverInv, RewrapInv, SharedStep
    PROVE  CoverInv'
<1> USE RotatorIsActor
<1>1. /\ KeyringStep(Rotator) /\ Rotating
      /\ rotation' = IF pc'[Rotator] = "idle" THEN "over" ELSE rotation
      /\ pc \in [Actors -> Points] /\ job \in [Actors -> Job]
    BY SharedIsKeyring DEF SharedStep, VaultTypeInv, TypeInv, TypeOK
<1>2. TypeInv /\ AloneInv /\ EarlyAt(Rotator) /\ SealedAt(Rotator)
    BY DEF VaultTypeInv, CoverInv
<1>3. AloneInv' /\ (EarlyAt(Rotator) /\ SealedAt(Rotator))'
    BY <1>1, <1>2, AloneStep, EarlyStep, SealedStep
<1>4. \A b \in Actors \ {Rotator} : /\ (EarlyAt(b) /\ SealedAt(b))'
                                    /\ ProgressAt(b) => ProgressAt(b)'
    BY <1>1, OthersStayCovered
<1>5. ~Rotating' => ProgressAt(Rotator)'
    BY <1>1 DEF Rotating, ProgressAt
<1>6. \A b \in Actors : ~(b = Rotator /\ Rotating') => ProgressAt(b)'
    BY <1>4, <1>5 DEF CoverInv
<1>7. ~clean'
    <2>1. CASE Kill(Rotator)
        BY <2>1 DEF Kill, End
    <2>2. CASE Command(Rotator)
        <3>1. ~clean
            BY <2>2, <1>2, CommandMoves DEF AloneInv
        <3>2. ~NextSlot(Rotator) \/ Kill(Rotator)
            BY DEF SharedStep, NextSlot, RepoRecipient, Unwrap, GetSeal, VerifyRepo,
                   VerifySlots, PutAge, PutPub, SealRepo, SealSlots, PutSeal
        <3>3. QED
            BY <1>2, <2>1, <2>2, <3>1, <3>2, CommandMoves DEF End
    <2>3. Command(Rotator) \/ Kill(Rotator)
        BY DEF SharedStep, Command
    <2>4. QED
        BY <2>1, <2>2, <2>3
<1>8. ASSUME rotation' = "verify"
      PROVE  job'[Rotator].at = None
    <2>1. rotation = "verify" /\ pc'[Rotator] # "idle"
        BY <1>1, <1>8
    <2>2. job[Rotator].at = None
        BY <2>1 DEF CoverInv
    <2>3. pc[Rotator] \in Verifying
        BY <2>1 DEF VaultTypeInv, ControlInv
    <2>4. \/ RepoRecipient(Rotator) \/ Unwrap(Rotator)
          \/ GetSeal(Rotator) \/ VerifyRepo(Rotator) \/ VerifySlots(Rotator)
        BY <1>1, <2>1, <2>3
           DEF SharedStep, PutAge, PutPub, SealRepo, SealSlots, PutSeal, Kill, End, Verifying
    <2>5. CASE RepoRecipient(Rotator) \/ VerifySlots(Rotator)
        BY <1>1, <2>1, <2>2, <2>5 DEF RepoRecipient, VerifySlots, Continue, End
    <2>6. CASE Unwrap(Rotator)
        BY <1>1, <2>1, <2>2, <2>6 DEF Unwrap, End, Job
    <2>7. CASE GetSeal(Rotator) \/ VerifyRepo(Rotator)
        BY <1>1, <2>2, <2>7 DEF GetSeal, VerifyRepo, Job
    <2>8. QED
        BY <2>4, <2>5, <2>6, <2>7
<1>9. ASSUME rotation' = "publish", pc'[Rotator] = "next slot", Rotator \in sure'
      PROVE  seal' = SealBy(Rotator)'
    <2>1. rotation = "publish" /\ pc[Rotator] \in Publishing
        BY <1>1, <1>9 DEF VaultTypeInv, ControlInv
    <2>2. PutSeal(Rotator)
        BY <1>1, <1>9, <2>1
           DEF SharedStep, RepoRecipient, Unwrap, GetSeal, VerifyRepo, VerifySlots, PutAge,
               PutPub, SealRepo, SealSlots, Continue, Goto, Read, Kill, End, Publishing,
               Sealing
    <2>3. /\ pc[Rotator] = "put seal" /\ seal' = job[Rotator].stored /\ Rotator \in sure
          /\ UNCHANGED <<repoPub, age, pub, job>>
        BY <1>9, <2>2 DEF PutSeal, Continue, Goto, history
    <2>4. SealBy(Rotator)' = SealBy(Rotator)
        BY <2>3, ViewKept DEF SealBy
    <2>5. QED
        BY <1>2, <2>3, <2>4 DEF SealedAt
<1>10. /\ rotation' # "before" /\ active' # Rotator
       /\ rotation' = "publish" => repoPub' = Rotator
    <2>1. rotation # "before" /\ active = Founder /\ active' = active
        BY <1>1, SharedIsKeyring DEF RewrapInv, Rotating
    <2>2. rotation' = rotation \/ rotation' = "over"
        BY <1>1
    <2>3. repoPub' = repoPub
        BY <1>1, KeyringStepTypes
    <2>4. QED
        BY <2>1, <2>2, <2>3 DEF CoverInv
<1>11. QED
    BY <1>3, <1>4, <1>6, <1>7, <1>8, <1>9, <1>10 DEF CoverInv, CleanIsCovered

(* The rotation's own steps. *)
LEMMA CoverRotation ==
    ASSUME VaultTypeInv, CoverInv, RewrapInv,
           StartRotation \/ ListSlots \/ Rewrap \/ SetRepoKey \/ Flip
    PROVE  CoverInv'
<1> USE RotatorIsActor
<1>t. pc \in [Actors -> Points] /\ job \in [Actors -> Job] /\ sure \subseteq Actors
    BY DEF VaultTypeInv, TypeInv, TypeOK
<1>o. \A b \in Actors \ {Rotator} : pc'[b] = pc[b] /\ job'[b] = job[b]
    BY <1>t DEF StartRotation, ListSlots, List, Rewrap, SetRepoKey, Flip, Continue, Goto, End
<1>f. ~Flip => active' = Founder /\ rotation' # "before"
    BY DEF RewrapInv, StartRotation, ListSlots, List, Rewrap, SetRepoKey
<1>1. CASE StartRotation
    <2>1. /\ pc'[Rotator] = "repo pub" /\ job'[Rotator].at = None
          /\ ~clean' /\ rotation' = "verify"
        BY <1>t, <1>1 DEF StartRotation, NoJob
    <2>2. AloneInv' /\ sure' \subseteq {Rotator}
        BY <1>t, <1>o, <1>1, <2>1 DEF StartRotation, AloneInv
    <2>3. (EarlyAt(Rotator) /\ SealedAt(Rotator))'
        BY <2>1 DEF EarlyAt, SealedAt
    <2>4. \A b \in Actors \ {Rotator} : (EarlyAt(b) /\ SealedAt(b))'
        BY <1>o, <2>2 DEF CoverInv, EarlyAt, SealedAt
    <2>5. \A b \in Actors \ {Rotator} : ProgressAt(b)'
        BY <1>o DEF CoverInv, ProgressAt, Op
    <2>6. ~Flip
        BY <1>1 DEF StartRotation, Flip
    <2>7. QED
        BY <1>f, <2>1, <2>2, <2>3, <2>4, <2>5, <2>6 DEF CoverInv, CleanIsCovered, Rotating
<1>2. CASE ListSlots \/ Rewrap \/ SetRepoKey
    <2>1. /\ pc[Rotator] = "next slot" /\ UNCHANGED <<sure, clean>> /\ Rotating /\ Rotating'
          /\ pc'[Rotator] \in {"next slot", "put age", "seal repo"}
        BY <1>t, <1>2
           DEF ListSlots, List, Rewrap, SetRepoKey, Continue, Goto, history, Rotating
    <2>2. AloneInv' /\ sure \subseteq {Rotator} /\ ~clean
        BY <1>t, <1>o, <2>1 DEF CoverInv, AloneInv
    <2>3. \A b \in Actors \ {Rotator} : (EarlyAt(b) /\ SealedAt(b))' /\ ProgressAt(b)'
        BY <1>o, <2>1, <2>2 DEF CoverInv, EarlyAt, SealedAt, ProgressAt, Op
    <2>4. (EarlyAt(Rotator) /\ SealedAt(Rotator))'
        <3>1. CASE ListSlots
            <4>1. PICK todo : job' = [job EXCEPT ![Rotator].dek = Rotator, ![Rotator].todo = todo]
                BY <3>1 DEF ListSlots, List
            <4>2. job[Rotator].at = None /\ rotation' # "verify"
                BY <3>1 DEF ListSlots, List, CoverInv
            <4>3. Rotator \in Actors /\ job[Rotator] \in Job
                BY <1>t, VaultAssumption
            <4>4. job'[Rotator] = [job[Rotator] EXCEPT !.dek = Rotator, !.todo = todo]
                BY <1>t, <4>1, <4>3
            <4>5. job'[Rotator].at = None
                BY <4>2, <4>3, <4>4 DEF Job
            <4>6. QED
                BY <2>1, <3>1, <4>5 DEF ListSlots, List, EarlyAt, SealedAt
        <3>2. CASE Rewrap \/ SetRepoKey
            <4>1. pc'[Rotator] \in {"put age", "seal repo"}
                BY <1>t, <3>2 DEF Rewrap, SetRepoKey, Continue, Goto
            <4>2. QED
                BY <4>1 DEF EarlyAt, SealedAt, Early
        <3>3. QED
            BY <1>2, <3>1, <3>2
    <2>5. /\ rotation' # "verify"
          /\ ~(rotation' = "publish" /\ pc'[Rotator] = "next slot")
        BY <1>t, <1>2 DEF ListSlots, List, Rewrap, SetRepoKey, Continue, Goto
    <2>6. rotation' = "publish" => repoPub' = Rotator
        BY <1>2 DEF ListSlots, List, Rewrap, SetRepoKey
    <2>7. ~Flip
        BY <1>2, <2>5 DEF ListSlots, List, Rewrap, SetRepoKey, Flip
    <2>8. QED
        BY <1>f, <2>1, <2>2, <2>3, <2>4, <2>5, <2>6, <2>7 DEF CoverInv, CleanIsCovered
<1>3. CASE Flip
    <2>1. /\ pc[Rotator] = "next slot" /\ rotation = "publish" /\ UNCHANGED objects
          /\ rotation' = "over" /\ pc'[Rotator] = "idle" /\ sure' = sure \ {Rotator}
          /\ clean' => Rotator \in sure
        BY <1>t, <1>3 DEF Flip, End
    <2>2. sure \subseteq {Rotator}
        BY <1>t, <2>1 DEF CoverInv, AloneInv
    <2>3. AloneInv'
        BY <1>o, <2>1, <2>2 DEF CoverInv, AloneInv
    <2>4. \A b \in Actors : (EarlyAt(b) /\ SealedAt(b))'
        BY <1>o, <2>1, <2>2 DEF CoverInv, EarlyAt, SealedAt, Early
    <2>5. \A b \in Actors : ProgressAt(b)'
        BY <1>o, <2>1 DEF CoverInv, ProgressAt, Op
    <2>6. seal = SealBy(Rotator) \/ ~clean'
        BY <2>1 DEF CoverInv
    <2>7. repoPub' = Rotator /\ job[Rotator].dek = Rotator
        BY <2>1 DEF CoverInv, RewrapInv, objects
    <2>8. CleanIsCovered'
        <3>1. UNCHANGED <<repoPub, age, pub, seal>>
            BY <2>1 DEF objects
        <3>2. SlotView' = SlotView
            BY <3>1, ViewKept
        <3>3. QED
            BY <2>6, <2>7, <3>1, <3>2 DEF CleanIsCovered, SealBy
    <2>9. sure' = {}
        BY <2>1, <2>2
    <2>10. QED
        BY <2>1, <2>3, <2>4, <2>5, <2>7, <2>8, <2>9 DEF CoverInv, KeyAt
<1>4. QED
    BY <1>1, <1>2, <1>3

(* Every step keeps what the seal rests on. *)
LEMMA CoverNext == VaultTypeInv /\ RewrapInv /\ CoverInv /\ [VaultNext]_vaultVars => CoverInv'
<1> SUFFICES ASSUME VaultTypeInv, RewrapInv, CoverInv, [VaultNext]_vaultVars PROVE CoverInv'
    OBVIOUS
<1>1. CASE UNCHANGED vaultVars
    <2>1. UNCHANGED <<repoPub, age, pub, seal, pc, job, sure, clean, rotation, active, missed>>
        BY <1>1 DEF vaultVars, vars, objects, history, atRisk
    <2>2. /\ \A a \in Actors : SealBy(a)' = SealBy(a)
          /\ SlotView' = SlotView
        BY <2>1, ViewKept DEF SealBy
    <2>3. AloneInv' /\ CleanIsCovered' /\ Rotating' = Rotating
        BY <2>1, <2>2 DEF CoverInv, AloneInv, CleanIsCovered, Rotating
    <2>4. \A a \in Actors : (EarlyAt(a) /\ SealedAt(a))'
        BY <2>1, <2>2 DEF CoverInv, EarlyAt, SealedAt
    <2>5. \A a \in Actors : ProgressAt(a) => ProgressAt(a)'
        BY <2>1 DEF ProgressAt, Op
    <2>6. KeyInv' = KeyInv /\ \A a \in Actors : KeyAt(a)' = KeyAt(a)
        BY <2>1 DEF KeyInv, OneKey, KeyAt
    <2>7. QED
        BY <2>1, <2>2, <2>3, <2>4, <2>5, <2>6, RotatorIsActor DEF CoverInv
<1>2. QED
    BY <1>1, VaultSteps, CoverOther, CoverShared, CoverRotation

(* With conditional writes, a command that ran alone to its end, a rotation  *)
(* too, and could read what it sealed, leaves a seal over what is there,     *)
(* whatever others left before it.  Its key is that of repo.pub before any   *)
(* rotation, and after one that is complete and has missed no slot           *)
(* (keyring.go, Seal and SetRepoKey).                                        *)
THEOREM CleanSealCovers == VaultSpec => []CleanIsCovered
<1>1. CoverInv => CleanIsCovered
    BY DEF CoverInv
<1>2. VaultInit => RewrapInv
    BY RotatorIsActor DEF VaultInit, RewrapInv
<1>3. QED
    BY <1>1, <1>2, VaultTypeInit, VaultTypeNext, RecordInit, RecordNext, RewrapNext,
       CoverInit, CoverNext, PTL DEF VaultSpec
=============================================================================
