--------------------------- MODULE KeyringProofs ---------------------------
(***************************************************************************)
(* Theorems about Keyring for every set of actors, labels and recipients   *)
(* and every choice of tasks.                                              *)
(***************************************************************************)
EXTENDS Keyring, TLAPS

(* The points at which a command has the key in hand. *)
Holding ==
    {"get seal", "verify repo", "verify slots", "prove", "find"}
    \cup Granting \cup Revoking \cup Sealing

(* The points at which a command is in the middle of a slot. *)
Placing == {"put pub"} \cup Revoking

(* A command is one of those its actor may run. *)
TasksAreTheirs ==
    \A a \in Actors : left[a] \subseteq Tasks[a] /\ job[a].task \in Tasks[a] \cup {NoTask}

(* TypeOK alone is not inductive: what a command writes has its type only if *)
(* it has a key in hand, and a slot.                                         *)
TypeInv ==
    /\ TypeOK
    /\ TasksAreTheirs
    /\ \A a \in Actors : /\ pc[a] \in Holding => job[a].dek \in Keys
                         /\ pc[a] \in Placing => job[a].at # None

-----------------------------------------------------------------------------
(* Types *)

(* What nobody has written yet is told apart from what somebody has. *)
LEMMA NoneIsNoKey ==
    /\ None \notin Keys /\ None \notin Recipients /\ None \notin Labels
    /\ NoWrap \notin Wrap
BY KeyringAssumption DEF Keys, NoWrap, Wrap

(* The seal covers something of the type it says. *)
LEMMA ViewType ==
    ASSUME TypeOK, NEW a \in Actors
    PROVE  Views(a) \subseteq Covered
BY DEF TypeOK, Views, SlotsRead, Covered

(* What is listed is the same as long as nobody writes a slot. *)
LEMMA ViewKept == UNCHANGED <<age, pub>> => SlotView' = SlotView
BY DEF SlotView, SlotsRead

(* No seal is a seal. *)
LEMMA NoSealType == NoSeal \in Seal
BY DEF NoSeal, Seal, NoView, Covered

(* Nothing to do is a job. *)
LEMMA NoJobType == NoTask \in Task /\ NoJob \in Job /\ NoJob.task = NoTask
<1>1. NoTask \in Task
    BY DEF NoTask, Task
<1>2. QED
    BY <1>1, NoSealType DEF NoJob, Job

(* The keyrings to start from have their types. *)
LEMMA FoundedType ==
    ASSUME NEW slots \in Foundings
    PROVE  /\ FoundedAge(slots) \in [Labels -> Wrap \cup {NoWrap}]
           /\ [l \in Labels |-> FoundedAge(slots)[l].to] \in [Labels -> Recipients \cup {None}]
           /\ \A l \in Labels : FoundedAge(slots)[l] # NoWrap =>
                 slots # {} /\ FoundedAge(slots)[l].key = Founder
<1>1. slots \subseteq Slot
    BY KeyringAssumption
<1>2. ASSUME NEW l \in Labels, \E x \in slots : x.label = l
      PROVE  (CHOOSE x \in slots : x.label = l) \in Slot
    BY <1>1, <1>2
<1>3. ASSUME NEW l \in Labels, \E x \in slots : x.label = l
      PROVE  (CHOOSE x \in slots : x.label = l).to \in Recipients
    BY <1>2, <1>3 DEF Slot
<1>4. ASSUME NEW l \in Labels
      PROVE  /\ FoundedAge(slots)[l] \in Wrap \cup {NoWrap}
             /\ FoundedAge(slots)[l].to \in Recipients \cup {None}
             /\ FoundedAge(slots)[l] # NoWrap =>
                  slots # {} /\ FoundedAge(slots)[l].key = Founder
    <2>1. CASE \E x \in slots : x.label = l
        BY <2>1, <1>3 DEF FoundedAge, Wrap, Keys
    <2>2. CASE ~\E x \in slots : x.label = l
        BY <2>2 DEF FoundedAge, NoWrap
    <2>3. QED
        BY <2>1, <2>2
<1>5. FoundedAge(slots) \in [Labels -> Wrap \cup {NoWrap}]
    BY <1>4 DEF FoundedAge
<1>6. QED
    BY <1>4, <1>5

(* The initial states are well typed. *)
LEMMA TypeInit == Init => TypeInv
<1> SUFFICES ASSUME Init PROVE TypeInv
    OBVIOUS
<1>1. PICK slots \in Foundings :
        /\ age = FoundedAge(slots)
        /\ pub = [l \in Labels |-> FoundedAge(slots)[l].to]
        /\ repoPub = IF slots = {} THEN None ELSE Founder
    BY DEF Init
<1>2. /\ age \in [Labels -> Wrap \cup {NoWrap}]
      /\ pub \in [Labels -> Recipients \cup {None}]
      /\ repoPub \in Keys \cup {None}
    BY <1>1, FoundedType DEF Keys
<1>3. pub \in Covered
    BY <1>2 DEF Covered
<1>4. seal \in Seal
    BY <1>2, <1>3, NoSealType DEF Init, Seal, Keys
<1>5. /\ left \in [Actors -> SUBSET Task]
      /\ pc \in [Actors -> Points]
      /\ job \in [Actors -> Job]
      /\ outcome \in [Actors -> {"none", "ok", "joined", "failed", "seal mismatch", "killed"}]
    BY KeyringAssumption, NoJobType DEF Init, Points
<1>6. \A a \in Actors : pc[a] = "idle" /\ job[a] = NoJob /\ left[a] = Tasks[a]
    BY DEF Init
<1>7. QED
    BY <1>2, <1>4, <1>5, <1>6
       DEF Init, TypeInv, TypeOK, TasksAreTheirs, NoJob, Holding, Placing, Granting,
           Revoking, Sealing

(* A command goes on, whether or not it could read what it seals. *)
Moves(a, p) ==
    /\ pc' = [pc EXCEPT ![a] = p]
    /\ sure' \in {sure, sure \ {a}}
    /\ UNCHANGED <<left, outcome, clean>>

LEMMA GoingOn ==
    ASSUME NEW a \in Actors, NEW p \in Points
    PROVE  /\ Goto(a, p) => Moves(a, p)
           /\ \A right \in BOOLEAN : Read(a, p, right) => Moves(a, p)
BY DEF Goto, Read, Moves, history

(* A step of one command: the objects keep their types, and so do the fields *)
(* of its job.                                                               *)
LEMMA TypeMove ==
    ASSUME TypeInv, NEW a \in Actors, NEW p \in Points, NEW j \in Job,
           repoPub' \in Keys \cup {None}, age' \in [Labels -> Wrap \cup {NoWrap}],
           pub' \in [Labels -> Recipients \cup {None}], seal' \in Seal,
           job' = [job EXCEPT ![a] = j], j.task = job[a].task,
           Moves(a, p), p \in Holding => j.dek \in Keys, p \in Placing => j.at # None
    PROVE  TypeInv'
<1>1. /\ pc' \in [Actors -> Points]
      /\ job' \in [Actors -> Job]
    BY DEF TypeInv, TypeOK, Moves
<1>2. /\ pc'[a] = p /\ job'[a] = j
      /\ \A b \in Actors \ {a} : pc'[b] = pc[b] /\ job'[b] = job[b]
    BY DEF TypeInv, TypeOK, Moves
<1>3. TypeOK'
    BY <1>1 DEF TypeInv, TypeOK, Moves
<1>4. TasksAreTheirs'
    BY <1>2 DEF TypeInv, TasksAreTheirs, Moves
<1>5. QED
    BY <1>2, <1>3, <1>4 DEF TypeInv

(* The same for a step that leaves the job as it is. *)
LEMMA TypeContinue ==
    ASSUME TypeInv, NEW a \in Actors, NEW p \in Points,
           repoPub' \in Keys \cup {None}, age' \in [Labels -> Wrap \cup {NoWrap}],
           pub' \in [Labels -> Recipients \cup {None}], seal' \in Seal,
           Continue(a, p),
           p \in Holding => job[a].dek \in Keys, p \in Placing => job[a].at # None
    PROVE  TypeInv'
<1>1. job' = [job EXCEPT ![a] = job[a]] /\ job[a] \in Job
    BY DEF Continue, TypeInv, TypeOK
<1>2. QED
    BY <1>1, TypeMove, GoingOn DEF Continue

(* The end of a command. *)
LEMMA TypeEnd ==
    ASSUME TypeInv, NEW a \in Actors, UNCHANGED objects,
           NEW how \in {"ok", "joined", "failed", "seal mismatch", "killed"}, End(a, how)
    PROVE  TypeInv'
<1>1. /\ pc' \in [Actors -> Points]
      /\ job' \in [Actors -> Job]
      /\ outcome' \in [Actors -> {"none", "ok", "joined", "failed", "seal mismatch", "killed"}]
    BY NoJobType DEF TypeInv, TypeOK, End, Points
<1>2. /\ pc'[a] = "idle" /\ job'[a] = NoJob
      /\ \A b \in Actors \ {a} : pc'[b] = pc[b] /\ job'[b] = job[b]
    BY DEF TypeInv, TypeOK, End
<1>3. TypeOK'
    BY <1>1 DEF TypeInv, TypeOK, End, objects
<1>4. TasksAreTheirs'
    BY <1>2, NoJobType DEF TypeInv, TasksAreTheirs, End
<1>5. QED
    BY <1>2, <1>3, <1>4
       DEF TypeInv, Holding, Placing, Granting, Revoking, Sealing

(* The start of a command. *)
LEMMA TypeStart ==
    ASSUME TypeInv, NEW a \in Actors, NEW task \in left[a], Start(a, task)
    PROVE  TypeInv'
<1>1. task \in Tasks[a] /\ task \in Task
    BY KeyringAssumption DEF TypeInv, TypeOK, TasksAreTheirs
<1> DEFINE j == [NoJob EXCEPT !.task = task, !.todo = task.slots]
<1>2. j \in Job /\ j.task = task
    BY <1>1, NoJobType DEF Job, Task, NoJob
<1>3. job' = [job EXCEPT ![a] = j]
    BY DEF Start
<1>4. /\ pc' \in [Actors -> Points]
      /\ job' \in [Actors -> Job]
      /\ left' \in [Actors -> SUBSET Task]
      /\ outcome' \in [Actors -> {"none", "ok", "joined", "failed", "seal mismatch", "killed"}]
    BY <1>2, <1>3 DEF TypeInv, TypeOK, Start, Points
<1>5. /\ pc'[a] \in {"unwrap", "repo pub"} /\ job'[a] = j /\ left'[a] \subseteq left[a]
      /\ \A b \in Actors \ {a} : pc'[b] = pc[b] /\ job'[b] = job[b] /\ left'[b] = left[b]
    BY <1>3 DEF TypeInv, TypeOK, Start
<1>6. TypeOK'
    BY <1>4 DEF TypeInv, TypeOK, Start, objects
<1> HIDE DEF j
<1>7. TasksAreTheirs'
    <2>1. \A b \in Actors : left'[b] \subseteq Tasks[b]
        BY <1>5 DEF TypeInv, TasksAreTheirs
    <2>2. \A b \in Actors : job'[b].task \in Tasks[b] \cup {NoTask}
        BY <1>1, <1>2, <1>5 DEF TypeInv, TasksAreTheirs
    <2>3. QED
        BY <2>1, <2>2 DEF TasksAreTheirs
<1>8. QED
    BY <1>5, <1>6, <1>7
       DEF TypeInv, Holding, Placing, Granting, Revoking, Sealing

(* The objects keep their types when nobody writes them. *)
LEMMA ObjectsKept ==
    ASSUME TypeInv, UNCHANGED objects
    PROVE  /\ repoPub' \in Keys \cup {None}
           /\ age' \in [Labels -> Wrap \cup {NoWrap}]
           /\ pub' \in [Labels -> Recipients \cup {None}]
           /\ seal' \in Seal
BY DEF TypeInv, TypeOK, objects

(* The fields a command fills in keep its job well typed. *)
LEMMA JobUpdateType ==
    ASSUME NEW j \in Job, NEW key \in Keys \cup {None}, NEW s \in Seal
    PROVE  /\ [j EXCEPT !.dek = key] \in Job /\ [j EXCEPT !.dek = key].task = j.task
           /\ [j EXCEPT !.dek = key].dek = key
           /\ [j EXCEPT !.repo = key] \in Job /\ [j EXCEPT !.repo = key].task = j.task
           /\ [j EXCEPT !.repo = key].dek = j.dek /\ [j EXCEPT !.repo = key].at = j.at
           /\ [j EXCEPT !.stored = s] \in Job /\ [j EXCEPT !.stored = s].task = j.task
           /\ [j EXCEPT !.stored = s].dek = j.dek /\ [j EXCEPT !.stored = s].at = j.at
BY DEF Job

(* What Unwrap finds is a key, whichever identities are tried. *)
LEMMA UnwrapFindsKeys ==
    ASSUME TypeInv, NEW a \in Actors, NEW l \in Labels, age[l].to \in Identities(a)
    PROVE  age[l] \in Wrap /\ age[l].key \in Keys
<1>1. None \notin Identities(a)
    <2>1. job[a].task \in Tasks[a] \/ job[a].task.op # "recover"
        BY DEF TypeInv, TasksAreTheirs, NoTask
    <2>2. Secrets[a] \subseteq Recipients
        BY KeyringAssumption
    <2>3. QED
        BY <2>1, <2>2, NoneIsNoKey, KeyringAssumption DEF Identities, Op
<1>2. age[l] # NoWrap
    BY <1>1 DEF NoWrap
<1>3. QED
    BY <1>2 DEF TypeInv, TypeOK, Wrap

(* Every step of a command keeps the types, action by action. *)
LEMMA TypeCommand ==
    ASSUME TypeInv, NEW a \in Actors, Command(a)
    PROVE  TypeInv'
<1> USE DEF Holding, Placing, Granting, Revoking, Sealing, Points
<1>t. job[a] \in Job /\ pc[a] \in Points
    BY DEF TypeInv, TypeOK
<1>h. /\ pc[a] \in Holding => job[a].dek \in Keys
      /\ pc[a] \in Placing => job[a].at # None
    BY DEF TypeInv
<1>1. CASE RepoRecipient(a)
    BY <1>1, ObjectsKept, TypeContinue, TypeEnd DEF RepoRecipient
<1>2. CASE Publish(a)
    <2> USE <1>2 DEF Publish
    <2>1. CASE repoPub = None \/ ~Conditional
        <3> DEFINE j == [job[a] EXCEPT !.dek = a]
        <3>1. a \in Keys
            BY DEF Keys
        <3>2. j \in Job /\ j.task = job[a].task /\ j.dek = a
            BY <1>t, <3>1, NoSealType, JobUpdateType
        <3>3. job' = [job EXCEPT ![a] = j] /\ Goto(a, "next slot") /\ repoPub' = a
            BY <2>1 DEF TypeInv, TypeOK
        <3>4. age' = age /\ pub' = pub /\ seal' = seal
            OBVIOUS
        <3> HIDE DEF j
        <3>5. "next slot" \in Points /\ "next slot" \notin Placing
            BY DEF Points, Placing, Granting, Revoking
        <3>6. age' \in [Labels -> Wrap \cup {NoWrap}] /\ seal' \in Seal
              /\ pub' \in [Labels -> Recipients \cup {None}] /\ repoPub' \in Keys \cup {None}
            BY <3>1, <3>3, <3>4 DEF TypeInv, TypeOK
        <3>7. QED
            BY <3>1, <3>2, <3>3, <3>5, <3>6, GoingOn, TypeMove
    <2>2. CASE ~(repoPub = None \/ ~Conditional)
        BY <2>2, ObjectsKept, TypeContinue DEF objects
    <2>3. QED
        BY <2>1, <2>2
<1>3. CASE Unwrap(a)
    <2> DEFINE keys == {age[l].key : l \in {k \in Labels : age[k].to \in Identities(a)}}
    <2>1. keys \subseteq Keys
        BY UnwrapFindsKeys
    <2>2. CASE keys = {} \/ Op(a) = "init"
        BY <1>3, <2>2, TypeEnd DEF Unwrap
    <2>3. CASE ~(keys = {} \/ Op(a) = "init")
        <3>1. PICK key \in keys : /\ job' = [job EXCEPT ![a].dek = key]
                                  /\ Goto(a, AfterUnwrap(Op(a)))
            BY <1>3, <2>3 DEF Unwrap
        <3> DEFINE j == [job[a] EXCEPT !.dek = key]
        <3>2. key \in Keys
            BY <2>1
        <3>3. j \in Job /\ j.task = job[a].task /\ j.dek = key
            BY <1>t, <3>2, NoSealType, JobUpdateType
        <3>4. job' = [job EXCEPT ![a] = j] /\ UNCHANGED objects
            BY <1>3, <3>1 DEF TypeInv, TypeOK, Unwrap
        <3>5. AfterUnwrap(Op(a)) \in Points \ Placing
            BY DEF AfterUnwrap
        <3> HIDE DEF j
        <3>6. QED
            BY <3>1, <3>2, <3>3, <3>4, <3>5, ObjectsKept, GoingOn, TypeMove
    <2>4. QED
        BY <2>2, <2>3
<1>4. CASE GetSeal(a)
    <2>1. PICK stored \in {seal, NoSeal} :
            /\ job' = [job EXCEPT ![a].stored = stored]
            /\ Goto(a, IF stored # NoSeal THEN "verify repo"
                       ELSE IF Op(a) = "recovery-init" THEN "prove" ELSE "next slot")
        BY <1>4 DEF GetSeal, Got
    <2> DEFINE j == [job[a] EXCEPT !.stored = stored]
    <2>2. stored \in Seal
        BY NoSealType DEF TypeInv, TypeOK
    <2>3. j \in Job /\ j.task = job[a].task /\ j.dek = job[a].dek
        BY <1>t, <2>2, JobUpdateType
    <2>4. job' = [job EXCEPT ![a] = j] /\ job[a].dek \in Keys /\ UNCHANGED objects
        BY <1>t, <1>4, <1>h, <2>1 DEF GetSeal
    <2>5. \E p \in {"verify repo", "prove", "next slot"} : Goto(a, p)
        BY <2>1
    <2> HIDE DEF j
    <2>6. QED
        BY <2>3, <2>4, <2>5, ObjectsKept, GoingOn, TypeMove
<1>5. CASE VerifyRepo(a) \/ SealRepo(a)
    <2>1. PICK there \in {repoPub, None} : job' = [job EXCEPT ![a].repo = there]
        BY <1>5 DEF VerifyRepo, SealRepo, Got
    <2> DEFINE j == [job[a] EXCEPT !.repo = there]
    <2>2. j \in Job /\ j.task = job[a].task /\ j.dek = job[a].dek
        <3>1. there \in Keys \cup {None}
            BY DEF TypeInv, TypeOK
        <3>2. QED
            BY <1>t, <3>1, NoSealType, JobUpdateType
    <2>3. job' = [job EXCEPT ![a] = j] /\ job[a].dek \in Keys /\ UNCHANGED objects
        BY <1>5, <1>h, <2>1 DEF VerifyRepo, SealRepo, TypeInv, TypeOK
    <2>4. Moves(a, "verify slots") \/ Moves(a, "seal slots")
        BY <1>5, GoingOn DEF VerifyRepo, SealRepo
    <2> HIDE DEF j
    <2>5. QED
        BY <2>2, <2>3, <2>4, ObjectsKept, TypeMove
<1>6. CASE VerifySlots(a) \/ Prove(a) \/ NextSlot(a)
    <2>1. pc[a] \in Holding /\ UNCHANGED objects
        BY <1>6 DEF VerifySlots, Prove, NextSlot
    <2>2. \/ \E p \in Points \ Placing : Continue(a, p)
          \/ \E how \in {"ok", "failed", "seal mismatch"} : End(a, how)
        BY <1>6 DEF VerifySlots, Prove, NextSlot
    <2>3. QED
        BY <1>h, <2>1, <2>2, ObjectsKept, TypeContinue, TypeEnd
<1>7. CASE \E x \in Slot : PutAge(a, x)
    <2>1. PICK x \in Slot : PutAge(a, x)
        BY <1>7
    <2> USE <2>1 DEF PutAge
    <2> DEFINE j == [job[a] EXCEPT !.todo = @ \ {x}, !.at = x]
    <2>2. job[a].dek \in Keys /\ x.label \in Labels /\ x.to \in Recipients
        BY <1>h DEF Slot
    <2>3. age' \in [Labels -> Wrap \cup {NoWrap}]
        BY <2>2 DEF TypeInv, TypeOK, Wrap
    <2>4. j \in Job /\ j.task = job[a].task /\ j.dek = job[a].dek /\ j.at = x
        BY <1>t DEF Job, Slot
    <2>5. x # None
        BY KeyringAssumption DEF Slot
    <2>6. job' = [job EXCEPT ![a] = j] /\ Goto(a, "put pub")
        BY DEF TypeInv, TypeOK
    <2>7. /\ repoPub' \in Keys \cup {None}
          /\ pub' \in [Labels -> Recipients \cup {None}]
          /\ seal' \in Seal
        BY DEF TypeInv, TypeOK
    <2>8. "put pub" \in Points
        OBVIOUS
    <2>9. j.dek \in Keys /\ j.at # None
        BY <2>2, <2>4, <2>5
    <2> HIDE <2>1 DEF j, PutAge, Holding, Placing, Points
    <2>10. QED
        BY <2>3, <2>4, <2>6, <2>7, <2>8, <2>9, GoingOn, TypeMove
<1>8. CASE PutPub(a)
    <2>1. job[a].at \in [label : Labels, to : Recipients \cup {None}]
        BY <1>8, <1>t, <1>h DEF PutPub, Job
    <2>2. pub' \in [Labels -> Recipients \cup {None}]
        BY <1>8, <2>1 DEF PutPub, TypeInv, TypeOK
    <2>3. QED
        BY <1>8, <1>h, <2>2, TypeContinue DEF PutPub, TypeInv, TypeOK
<1>9. CASE Find(a)
    <2>1. CASE \E how \in {"failed"} : End(a, how)
        BY <1>9, <2>1, TypeEnd DEF Find
    <2>2. CASE \E l \in Labels : /\ job' = [job EXCEPT ![a].at = [label |-> l, to |-> None]]
                                 /\ Goto(a, "delete age")
        <3>1. PICK l \in Labels : /\ job' = [job EXCEPT ![a].at = [label |-> l, to |-> None]]
                                  /\ Goto(a, "delete age")
            BY <2>2
        <3> DEFINE j == [job[a] EXCEPT !.at = [label |-> l, to |-> None]]
        <3>2. /\ j \in Job /\ j.task = job[a].task /\ j.dek = job[a].dek
              /\ j.at = [label |-> l, to |-> None]
            BY <1>t DEF Job
        <3>3. /\ job' = [job EXCEPT ![a] = j]
              /\ job[a].dek \in Keys /\ UNCHANGED objects
            BY <1>9, <1>h, <3>1 DEF Find, TypeInv, TypeOK
        <3>4. j.at # None
            BY <3>2, KeyringAssumption
        <3> HIDE DEF j
        <3>5. QED
            BY <3>1, <3>2, <3>3, <3>4, ObjectsKept, GoingOn, TypeMove
    <2>3. QED
        BY <1>9, <2>1, <2>2 DEF Find
<1>10. CASE DeleteAge(a)
    <2>1. job[a].at.label \in Labels
        BY <1>10, <1>t, <1>h DEF DeleteAge, Job
    <2>2. age' \in [Labels -> Wrap \cup {NoWrap}]
        BY <1>10, <2>1 DEF DeleteAge, TypeInv, TypeOK
    <2>3. QED
        BY <1>10, <1>h, <2>2, TypeContinue DEF DeleteAge, TypeInv, TypeOK
<1>11. CASE DeletePub(a)
    <2>1. job[a].at.label \in Labels
        BY <1>11, <1>t, <1>h DEF DeletePub, Job
    <2>2. pub' \in [Labels -> Recipients \cup {None}]
        BY <1>11, <2>1 DEF DeletePub, TypeInv, TypeOK
    <2>3. QED
        BY <1>11, <1>h, <2>2, TypeContinue DEF DeletePub, TypeInv, TypeOK
<1>12. CASE SealSlots(a)
    <2>1. PICK view \in Views(a) :
            /\ job' = [job EXCEPT ![a].stored = [by |-> job[a].dek, repo |-> job[a].repo,
                                                 slots |-> view]]
            /\ Read(a, "put seal", view = SlotView)
        BY <1>12 DEF SealSlots
    <2> DEFINE s == [by |-> job[a].dek, repo |-> job[a].repo, slots |-> view]
               j == [job[a] EXCEPT !.stored = s]
    <2>2. s \in Seal
        BY <1>t, ViewType DEF TypeInv, Seal, Job
    <2>3. j \in Job /\ j.task = job[a].task /\ j.dek = job[a].dek
        BY <1>t, <2>2, JobUpdateType
    <2>4. job' = [job EXCEPT ![a] = j] /\ job[a].dek \in Keys /\ UNCHANGED objects
        BY <1>12, <1>h, <2>1 DEF SealSlots, TypeInv, TypeOK
    <2>5. Moves(a, "put seal")
        BY <2>1, GoingOn
    <2> HIDE DEF j
    <2>6. QED
        BY <2>3, <2>4, <2>5, ObjectsKept, TypeMove
<1>13. CASE PutSeal(a)
    <2>1. seal' \in Seal
        BY <1>13, <1>t DEF PutSeal, Job
    <2>2. QED
        BY <1>13, <1>h, <2>1, TypeContinue DEF PutSeal, TypeInv, TypeOK
<1>14. QED
    BY <1>1, <1>2, <1>3, <1>4, <1>5, <1>6, <1>7, <1>8, <1>9, <1>10, <1>11, <1>12, <1>13
       DEF Command

(* Every step keeps the types. *)
LEMMA TypeNext == TypeInv /\ [Next]_vars => TypeInv'
<1> SUFFICES ASSUME TypeInv, [Next]_vars PROVE TypeInv'
    OBVIOUS
<1>1. CASE UNCHANGED vars
    BY <1>1 DEF vars, objects, history, TypeInv, TypeOK, TasksAreTheirs
<1>2. CASE Next
    <2>1. PICK a \in Actors : (\E task \in left[a] : Start(a, task)) \/ Command(a) \/ Kill(a)
        BY <1>2 DEF Next
    <2>2. CASE \E task \in left[a] : Start(a, task)
        BY <2>2, TypeStart
    <2>3. CASE Command(a)
        BY <2>3, TypeCommand
    <2>4. CASE Kill(a)
        BY <2>4, TypeEnd DEF Kill
    <2>5. QED
        BY <2>1, <2>2, <2>3, <2>4
<1>3. QED
    BY <1>1, <1>2

(* The types hold, together with what makes them inductive. *)
LEMMA TypeAlways == Spec => []TypeInv
BY TypeInit, TypeNext, PTL DEF Spec

(* Every variable of the keyring stays in its type: in particular nothing is *)
(* wrapped or sealed by a command that has no key (keyring.go, Grant, Seal). *)
THEOREM KeyringTypes == Spec => []TypeOK
<1>1. TypeInv => TypeOK
    BY DEF TypeInv
<1>2. QED
    BY <1>1, TypeAlways, PTL

-----------------------------------------------------------------------------
(* One key *)

(* Whoever has a key in hand has the one that repo.pub belongs to.  The proof *)
(* needs it since that command may wrap its key at any later moment.          *)
KeyInv ==
    /\ OneKey
    /\ \A a \in Actors : pc[a] \in Holding => job[a].dek = repoPub

(* Only the founder's key is there at the start. *)
LEMMA KeyInit == Init => KeyInv
<1> SUFFICES ASSUME Init PROVE KeyInv
    OBVIOUS
<1>1. PICK slots \in Foundings :
        /\ age = FoundedAge(slots)
        /\ repoPub = IF slots = {} THEN None ELSE Founder
    BY DEF Init
<1>2. OneKey
    BY <1>1, FoundedType DEF OneKey
<1>3. \A a \in Actors : pc[a] = "idle"
    BY DEF Init
<1>4. QED
    BY <1>2, <1>3 DEF KeyInv, Holding, Granting, Revoking, Sealing

(* A step of one command that leaves repo.pub and the wrapped keys alone, and *)
(* the key it has in hand.                                                    *)
LEMMA KeyKept ==
    ASSUME TypeInv, KeyInv, NEW a \in Actors, UNCHANGED <<repoPub, age>>,
           \A b \in Actors \ {a} : pc'[b] = pc[b] /\ job'[b] = job[b],
           pc'[a] \in Holding => job'[a].dek = repoPub
    PROVE  KeyInv'
BY DEF KeyInv, OneKey

(* Where a step takes its own command, it leaves the others. *)
LEMMA OthersWait ==
    ASSUME TypeInv, NEW a \in Actors,
           \/ \E task \in left[a] : Start(a, task)
           \/ Command(a)
           \/ Kill(a)
    PROVE  \A b \in Actors \ {a} : pc'[b] = pc[b] /\ job'[b] = job[b]
BY DEF TypeInv, TypeOK, Start, Command, Kill, RepoRecipient, Publish, Unwrap, GetSeal,
       VerifyRepo, VerifySlots, Prove, NextSlot, PutAge, PutPub, Find, DeleteAge, DeletePub,
       SealRepo, SealSlots, PutSeal, Continue, Goto, Read, End

(* A command ends, or begins, without a key in hand. *)
LEMMA IdleHoldsNothing ==
    ASSUME TypeInv, NEW a \in Actors,
           \/ \E how \in {"ok", "joined", "failed", "seal mismatch", "killed"} : End(a, how)
           \/ \E task \in left[a] : Start(a, task)
    PROVE  pc'[a] \notin Holding
<1>1. pc'[a] \in {"idle", "unwrap", "repo pub"}
    BY DEF TypeInv, TypeOK, End, Start
<1>2. QED
    BY <1>1 DEF Holding, Granting, Revoking, Sealing

(* A step that goes on without touching the key. *)
LEMMA StepHolds ==
    ASSUME TypeInv, KeyInv, NEW a \in Actors, pc[a] \in Holding,
           \/ GetSeal(a) \/ VerifyRepo(a) \/ VerifySlots(a) \/ Prove(a) \/ NextSlot(a)
           \/ (\E x \in Slot : PutAge(a, x)) \/ PutPub(a)
           \/ Find(a) \/ DeleteAge(a) \/ DeletePub(a)
           \/ SealRepo(a) \/ SealSlots(a) \/ PutSeal(a)
    PROVE  repoPub' = repoPub /\ (pc'[a] \in Holding => job'[a].dek = repoPub)
<1>1. job[a] \in Job /\ job[a].dek = repoPub /\ job \in [Actors -> Job]
    BY DEF TypeInv, TypeOK, KeyInv
<1>2. CASE VerifySlots(a) \/ Prove(a) \/ NextSlot(a) \/ PutPub(a) \/ DeleteAge(a)
           \/ DeletePub(a) \/ PutSeal(a)
    <2>1. repoPub' = repoPub
        BY <1>2 DEF VerifySlots, Prove, NextSlot, PutPub, DeleteAge, DeletePub, PutSeal, objects
    <2>2. \/ UNCHANGED job
          \/ \E how \in {"ok", "joined", "failed", "seal mismatch", "killed"} : End(a, how)
        BY <1>2 DEF VerifySlots, Prove, NextSlot, PutPub, DeleteAge, DeletePub, PutSeal, Continue
    <2>3. QED
        BY <1>1, <2>1, <2>2, IdleHoldsNothing
<1>3. CASE GetSeal(a) \/ VerifyRepo(a) \/ SealRepo(a) \/ SealSlots(a)
           \/ \E x \in Slot : PutAge(a, x)
    <2>1. repoPub' = repoPub
        BY <1>3 DEF GetSeal, VerifyRepo, SealRepo, SealSlots, PutAge, objects
    <2>2. job'[a].dek = job[a].dek
        <3>1. CASE GetSeal(a) \/ VerifyRepo(a)
            BY <1>1, <3>1 DEF GetSeal, VerifyRepo, Job
        <3>2. CASE SealRepo(a) \/ SealSlots(a)
            BY <1>1, <3>2 DEF SealRepo, SealSlots, Job
        <3>3. CASE \E x \in Slot : PutAge(a, x)
            <4>1. PICK x \in Slot : job' = [job EXCEPT ![a].todo = @ \ {x}, ![a].at = x]
                BY <3>3 DEF PutAge
            <4>2. QED
                BY <1>1, <4>1 DEF Job
        <3>4. QED
            BY <1>3, <3>1, <3>2, <3>3
    <2>3. QED
        BY <1>1, <2>1, <2>2
<1>4. CASE Find(a)
    <2>1. repoPub' = repoPub
        BY <1>4 DEF Find, objects
    <2>2. job'[a].dek = job[a].dek \/ End(a, "failed")
        BY <1>1, <1>4 DEF Find, Job
    <2>3. QED
        BY <1>1, <2>1, <2>2, IdleHoldsNothing
<1>5. QED
    BY <1>2, <1>3, <1>4

(* With conditional writes every step keeps the one key.  A publication finds *)
(* no key anywhere; a grant has the key of repo.pub in hand; an unwrapped key *)
(* was in a slot.                                                             *)
LEMMA KeyNext == ASSUME Conditional PROVE TypeInv /\ KeyInv /\ [Next]_vars => KeyInv'
<1> SUFFICES ASSUME TypeInv, KeyInv, [Next]_vars PROVE KeyInv'
    OBVIOUS
<1>1. CASE UNCHANGED vars
    BY <1>1 DEF vars, objects, history, KeyInv, OneKey
<1>2. CASE Next
    <2>1. PICK a \in Actors : (\E task \in left[a] : Start(a, task)) \/ Command(a) \/ Kill(a)
        BY <1>2 DEF Next
    <2>2. \A b \in Actors \ {a} : pc'[b] = pc[b] /\ job'[b] = job[b]
        BY <2>1, OthersWait
    <2>3. CASE \E task \in left[a] : Start(a, task)
        BY <2>2, <2>3, KeyKept, IdleHoldsNothing DEF Start, objects
    <2>4. CASE Kill(a)
        BY <2>2, <2>4, KeyKept, IdleHoldsNothing DEF Kill, objects
    <2>5. CASE RepoRecipient(a)
        <3>1. pc'[a] \notin Holding
            BY <2>5, IdleHoldsNothing
               DEF RepoRecipient, Continue, Goto, TypeInv, TypeOK, Holding, Granting,
                   Revoking, Sealing
        <3>2. QED
            BY <2>2, <2>5, <3>1, KeyKept DEF RepoRecipient, objects
    <2>6. CASE Publish(a)
        <3>1. CASE repoPub = None
            <4>1. \A l \in Labels : age[l] = NoWrap
                BY <3>1, NoneIsNoKey DEF KeyInv, OneKey, TypeInv, TypeOK, Wrap
            <4>2. \A b \in Actors : pc[b] \notin Holding
                BY <3>1, NoneIsNoKey DEF KeyInv, TypeInv
            <4>3. age' = age /\ repoPub' = a /\ job' = [job EXCEPT ![a].dek = a]
                BY <2>6, <3>1 DEF Publish
            <4>4. job'[a].dek = a
                BY <4>3 DEF TypeInv, TypeOK, Job
            <4>5. QED
                BY <2>2, <4>1, <4>2, <4>3, <4>4 DEF KeyInv, OneKey
        <3>2. CASE repoPub # None
            <4>1. Continue(a, "unwrap") /\ repoPub' = repoPub /\ age' = age
                BY <2>6, <3>2 DEF Publish
            <4>2. pc'[a] \notin Holding
                BY <4>1 DEF Continue, Goto, TypeInv, TypeOK, Holding, Granting, Revoking, Sealing
            <4>3. QED
                BY <2>2, <4>1, <4>2, KeyKept
        <3>3. QED
            BY <3>1, <3>2
    <2>7. CASE Unwrap(a)
        <3> DEFINE keys == {age[l].key : l \in {k \in Labels : age[k].to \in Identities(a)}}
        <3>1. \A key \in keys : key = repoPub
            BY UnwrapFindsKeys, NoneIsNoKey DEF KeyInv, OneKey
        <3>2. \/ \E how \in {"failed", "joined"} : End(a, how)
              \/ \E key \in keys : job' = [job EXCEPT ![a].dek = key]
            BY <2>7 DEF Unwrap
        <3>3. pc'[a] \in Holding => job'[a].dek = repoPub
            <4>1. CASE \E how \in {"failed", "joined"} : End(a, how)
                BY <4>1, IdleHoldsNothing
            <4>2. CASE \E key \in keys : job' = [job EXCEPT ![a].dek = key]
                <5>1. PICK key \in keys : job' = [job EXCEPT ![a].dek = key]
                    BY <4>2
                <5>2. QED
                    BY <3>1, <5>1 DEF TypeInv, TypeOK, Job
            <4>3. QED
                BY <3>2, <4>1, <4>2
        <3>4. QED
            BY <2>2, <2>7, <3>3, KeyKept DEF Unwrap, objects
    <2>8. CASE \/ GetSeal(a) \/ VerifyRepo(a) \/ VerifySlots(a) \/ Prove(a) \/ NextSlot(a)
               \/ (\E x \in Slot : PutAge(a, x)) \/ PutPub(a)
               \/ Find(a) \/ DeleteAge(a) \/ DeletePub(a)
               \/ SealRepo(a) \/ SealSlots(a) \/ PutSeal(a)
        <3>1. pc[a] \in Holding
            BY <2>8
               DEF GetSeal, VerifyRepo, VerifySlots, Prove, NextSlot, PutAge, PutPub, Find,
                   DeleteAge, DeletePub, SealRepo, SealSlots, PutSeal, Holding, Granting,
                   Revoking, Sealing
        <3>2. repoPub' = repoPub /\ (pc'[a] \in Holding => job'[a].dek = repoPub)
            BY <2>8, <3>1, StepHolds
        <3>3. OneKey'
            <4>1. CASE \E x \in Slot : PutAge(a, x)
                <5>1. PICK x \in Slot :
                        age' = [age EXCEPT ![x.label] = [key |-> job[a].dek, to |-> x.to]]
                    BY <4>1 DEF PutAge
                <5>2. job[a].dek = repoPub /\ DOMAIN age = Labels
                    BY <3>1 DEF KeyInv, TypeInv, TypeOK
                <5>3. ASSUME NEW l \in Labels
                      PROVE  age'[l] = age[l] \/ age'[l].key = repoPub
                    BY <5>1, <5>2
                <5>4. QED
                    BY <3>2, <5>3 DEF KeyInv, OneKey
            <4>2. CASE DeleteAge(a)
                BY <3>2, <4>2 DEF DeleteAge, KeyInv, OneKey, TypeInv, TypeOK
            <4>3. CASE UNCHANGED age
                BY <3>2, <4>3 DEF KeyInv, OneKey
            <4>4. QED
                BY <2>8, <4>1, <4>2, <4>3
                   DEF GetSeal, VerifyRepo, VerifySlots, Prove, NextSlot, PutPub, Find,
                       DeletePub, SealRepo, SealSlots, PutSeal, objects
        <3>4. QED
            BY <2>2, <3>2, <3>3 DEF KeyInv
    <2>9. QED
        BY <2>1, <2>3, <2>4, <2>5, <2>6, <2>7, <2>8 DEF Command
<1>3. QED
    BY <1>1, <1>2

(* With conditional writes all slots hold one key for ever, the one repo.pub *)
(* is the public half of, however many clones found the keyring at the same  *)
(* moment, and whatever is granted, revoked or killed (keyring.go, Init:     *)
(* "exactly one wins").                                                      *)
THEOREM OneKeyForAll == ASSUME Conditional PROVE Spec => []OneKey
<1>1. KeyInv => OneKey
    BY DEF KeyInv
<1>2. QED
    BY <1>1, KeyInit, KeyNext, TypeAlways, PTL DEF Spec

-----------------------------------------------------------------------------
(* The seal *)

KeyringStep(a) == (\E task \in left[a] : Start(a, task)) \/ Command(a) \/ Kill(a)

(* The points before a command has a slot at hand. *)
Early ==
    {"repo pub", "publish", "unwrap", "get seal", "verify repo", "verify slots", "prove", "find"}

EarlyAt(a) == pc[a] \in Early => job[a].at = None

(* A sure command is the only one, and nothing has begun since a clean one. *)
AloneInv ==
    /\ clean => \A a \in Actors : pc[a] = "idle"
    /\ \A a \in sure : pc[a] # "idle" /\ \A b \in Actors \ {a} : pc[b] = "idle"

SealBy(a) == [by |-> job[a].dek, repo |-> repoPub, slots |-> SlotView]

(* What a command has sealed is what is there, while it is sure of it. *)
SealedAt(a) ==
    a \in sure =>
        /\ pc[a] = "seal slots" => job[a].repo = repoPub
        /\ pc[a] = "put seal" => job[a].stored = SealBy(a)
        /\ pc[a] = "next slot" /\ job[a].at # None => seal = SealBy(a)

(* A command that has no slot at hand yet has one to grant, or to find. *)
ProgressAt(a) ==
    pc[a] # "idle" =>
        /\ job[a].task \in Tasks[a]
        /\ job[a].at = None => job[a].todo = job[a].task.slots
        /\ job[a].at = None /\ pc[a] \notin {"repo pub", "unwrap", "find"} => Op(a) # "revoke"

(* A command goes on, or ends, which is well only when no slot is left. *)
LEMMA CommandMoves ==
    ASSUME TypeInv, NEW a \in Actors, Command(a)
    PROVE  /\ pc[a] # "idle"
           /\ \/ pc'[a] # "idle" /\ clean' = clean /\ sure' \in {sure, sure \ {a}}
              \/ /\ UNCHANGED objects
                 /\ \E how \in {"ok", "joined", "failed", "seal mismatch"} :
                       End(a, how) /\ (how = "ok" => NextSlot(a))
<1>t. pc \in [Actors -> Points]
    BY DEF TypeInv, TypeOK
<1>1. CASE RepoRecipient(a) \/ VerifySlots(a) \/ Prove(a)
    BY <1>t, <1>1 DEF RepoRecipient, VerifySlots, Prove, Continue, Goto, history
<1>2. CASE NextSlot(a)
    BY <1>t, <1>2 DEF NextSlot, Continue, Goto, history
<1>3. CASE Unwrap(a)
    BY <1>t, <1>3 DEF Unwrap, AfterUnwrap, Goto, history
<1>4. CASE Find(a)
    BY <1>t, <1>4 DEF Find, Goto, history
<1>5. CASE \/ Publish(a) \/ GetSeal(a) \/ VerifyRepo(a) \/ (\E x \in Slot : PutAge(a, x))
           \/ PutPub(a) \/ DeleteAge(a) \/ DeletePub(a)
           \/ SealRepo(a) \/ SealSlots(a) \/ PutSeal(a)
    BY <1>t, <1>5
       DEF Publish, GetSeal, VerifyRepo, PutAge, PutPub, DeleteAge, DeletePub, SealRepo,
           SealSlots, PutSeal, Continue, Goto, Read, history
<1>6. QED
    BY <1>1, <1>2, <1>3, <1>4, <1>5 DEF Command

(* Every step of one command keeps who is sure. *)
LEMMA AloneStep ==
    ASSUME TypeInv, AloneInv, NEW a \in Actors, KeyringStep(a)
    PROVE  AloneInv' /\ sure' \subseteq {a}
<1>t. pc \in [Actors -> Points] /\ sure \subseteq Actors
    BY DEF TypeInv, TypeOK
<1>o. \A b \in Actors \ {a} : pc'[b] = pc[b]
    BY OthersWait DEF KeyringStep
<1>1. CASE \E task \in left[a] : Start(a, task)
    BY <1>t, <1>o, <1>1 DEF Start, AloneInv
<1>2. CASE Command(a) \/ Kill(a)
    <2>1. pc[a] # "idle"
        BY <1>2, CommandMoves DEF Kill
    <2>2. sure \subseteq {a} /\ ~clean
        BY <1>t, <2>1 DEF AloneInv
    <2>3. CASE pc'[a] # "idle" /\ clean' = clean /\ sure' \in {sure, sure \ {a}}
        BY <1>o, <2>2, <2>3 DEF AloneInv
    <2>4. CASE \E how : End(a, how)
        BY <1>t, <1>o, <2>2, <2>4 DEF End, AloneInv
    <2>5. QED
        BY <1>2, <2>3, <2>4, CommandMoves DEF Kill
<1>3. QED
    BY <1>1, <1>2 DEF KeyringStep

(* The command that takes the step has no slot at hand too early. *)
LEMMA EarlyStep ==
    ASSUME TypeInv, NEW a \in Actors, EarlyAt(a), KeyringStep(a)
    PROVE  EarlyAt(a)'
<1>t. pc \in [Actors -> Points] /\ job \in [Actors -> Job] /\ job[a] \in Job
    BY DEF TypeInv, TypeOK
<1>1. CASE \E task \in left[a] : Start(a, task)
    <2>1. PICK task \in left[a] :
            job' = [job EXCEPT ![a] = [NoJob EXCEPT !.task = task, !.todo = task.slots]]
        BY <1>1 DEF Start
    <2>2. QED
        BY <1>t, <2>1 DEF EarlyAt, NoJob
<1>2. CASE Kill(a)
    BY <1>t, <1>2 DEF Kill, End, EarlyAt, NoJob
<1>3. CASE RepoRecipient(a) \/ VerifySlots(a) \/ Prove(a) \/ NextSlot(a)
    BY <1>t, <1>3 DEF RepoRecipient, VerifySlots, Prove, NextSlot, Continue, Goto, End,
                      EarlyAt, Early
<1>4. CASE Publish(a)
    BY <1>t, <1>4 DEF Publish, Continue, Goto, EarlyAt, Early, Job
<1>5. CASE Unwrap(a)
    <2>1. CASE \E how : End(a, how)
        BY <1>t, <2>1 DEF End, EarlyAt, Early
    <2>2. CASE ~\E how : End(a, how)
        <3>1. PICK key : job' = [job EXCEPT ![a].dek = key]
            BY <1>5, <2>2 DEF Unwrap
        <3>2. job'[a].at = job[a].at /\ pc[a] = "unwrap"
            BY <1>t, <1>5, <3>1 DEF Unwrap, Job
        <3>3. QED
            BY <3>2 DEF EarlyAt, Early
    <2>3. QED
        BY <2>1, <2>2
<1>6. CASE GetSeal(a)
    BY <1>t, <1>6 DEF GetSeal, Goto, EarlyAt, Early, Job
<1>7. CASE VerifyRepo(a)
    BY <1>t, <1>7 DEF VerifyRepo, Goto, EarlyAt, Early, Job
<1>8. CASE (\E x \in Slot : PutAge(a, x)) \/ PutPub(a) \/ DeleteAge(a) \/ DeletePub(a)
           \/ SealRepo(a) \/ SealSlots(a) \/ PutSeal(a)
    <2>1. pc'[a] \in {"put pub", "delete pub", "seal repo", "seal slots", "put seal", "next slot"}
        BY <1>t, <1>8 DEF PutAge, PutPub, DeleteAge, DeletePub, SealRepo, SealSlots, PutSeal,
                          Continue, Goto, Read
    <2>2. QED
        BY <2>1 DEF EarlyAt, Early
<1>9. CASE Find(a)
    BY <1>t, <1>9 DEF Find, Goto, End, EarlyAt, Early
<1>10. QED
    BY <1>1, <1>2, <1>3, <1>4, <1>5, <1>6, <1>7, <1>8, <1>9 DEF KeyringStep, Command

(* What the command that takes the step reads, and seals, is what is there,  *)
(* for as long as it is sure.                                                *)
LEMMA SealedStep ==
    ASSUME TypeInv, AloneInv, NEW a \in Actors, EarlyAt(a), SealedAt(a), KeyringStep(a)
    PROVE  SealedAt(a)'
<1>t. pc \in [Actors -> Points] /\ job \in [Actors -> Job] /\ job[a] \in Job
    BY DEF TypeInv, TypeOK
<1>1. CASE (\E task \in left[a] : Start(a, task)) \/ Kill(a) \/ \E how : End(a, how)
    BY <1>t, <1>1 DEF Start, Kill, End, SealedAt
<1>2. CASE sure' \subseteq sure /\ Command(a)
    <2>1. a \in sure' => a \in sure
        BY <1>2
    <2>2. CASE RepoRecipient(a) \/ PutPub(a) \/ DeleteAge(a) \/ DeletePub(a)
               \/ (\E x \in Slot : PutAge(a, x)) \/ Find(a) \/ VerifyRepo(a)
        <3>1. pc'[a] \notin {"seal slots", "put seal", "next slot"}
            BY <1>t, <2>2
               DEF RepoRecipient, PutPub, DeleteAge, DeletePub, PutAge, Find, VerifyRepo,
                   Continue, Goto, End
        <3>2. QED
            BY <3>1 DEF SealedAt
    <2>3. CASE Publish(a) \/ Unwrap(a) \/ GetSeal(a) \/ VerifySlots(a) \/ Prove(a)
        <3>1. pc[a] \in Early
            BY <2>3 DEF Publish, Unwrap, GetSeal, VerifySlots, Prove, Early
        <3>2. job'[a].at = None
            <4>1. job[a].at = None
                BY <3>1 DEF EarlyAt
            <4>2. job'[a] = NoJob \/ job'[a].at = job[a].at
                <5>1. CASE Publish(a) \/ GetSeal(a)
                    BY <1>t, <5>1 DEF Publish, GetSeal, Continue, Job
                <5>2. CASE Unwrap(a)
                    BY <1>t, <5>2 DEF Unwrap, End, Job
                <5>3. CASE VerifySlots(a) \/ Prove(a)
                    BY <1>t, <5>3 DEF VerifySlots, Prove, Continue, End
                <5>4. QED
                    BY <2>3, <5>1, <5>2, <5>3
            <4>3. QED
                BY <4>1, <4>2 DEF NoJob
        <3>3. pc'[a] \notin {"seal slots", "put seal"}
            BY <1>t, <2>3
               DEF Publish, Unwrap, AfterUnwrap, GetSeal, VerifySlots, Prove, Continue, Goto, End
        <3>4. QED
            BY <3>2, <3>3 DEF SealedAt
    <2>4. CASE NextSlot(a)
        <3>1. pc'[a] \in {"idle", "put age"}
            BY <1>t, <2>4 DEF NextSlot, Continue, Goto, End
        <3>2. QED
            BY <3>1 DEF SealedAt
    <2>5. CASE SealRepo(a)
        <3>1. PICK there \in {repoPub, None} :
                job' = [job EXCEPT ![a].repo = there] /\ Read(a, "seal slots", there = repoPub)
            BY <2>5 DEF SealRepo, Got
        <3>2. /\ pc'[a] = "seal slots" /\ job'[a].repo = there
              /\ a \in sure' => there = repoPub
            BY <1>t, <3>1 DEF Read, Job
        <3>3. repoPub' = repoPub
            BY <2>5 DEF SealRepo, objects
        <3>4. QED
            BY <3>2, <3>3 DEF SealedAt
    <2>6. CASE SealSlots(a)
        <3>1. PICK view \in Views(a) :
                /\ job' = [job EXCEPT ![a].stored = [by |-> job[a].dek, repo |-> job[a].repo,
                                                     slots |-> view]]
                /\ Read(a, "put seal", view = SlotView)
            BY <2>6 DEF SealSlots
        <3>2. /\ pc[a] = "seal slots" /\ pc'[a] = "put seal" /\ UNCHANGED objects
              /\ job'[a].dek = job[a].dek
              /\ job'[a].stored = [by |-> job[a].dek, repo |-> job[a].repo, slots |-> view]
              /\ a \in sure' => view = SlotView
            BY <1>t, <2>6, <3>1 DEF SealSlots, Read, Job
        <3>3. SlotView' = SlotView /\ repoPub' = repoPub
            BY <3>2, ViewKept DEF objects
        <3>4. QED
            BY <2>1, <3>2, <3>3 DEF SealedAt, SealBy
    <2>7. CASE PutSeal(a)
        <3>1. /\ pc[a] = "put seal" /\ pc'[a] = "next slot" /\ seal' = job[a].stored
              /\ job' = job /\ UNCHANGED <<repoPub, age, pub>>
            BY <1>t, <2>7 DEF PutSeal, Continue, Goto
        <3>2. SlotView' = SlotView
            BY <3>1, ViewKept
        <3>3. QED
            BY <2>1, <3>1, <3>2 DEF SealedAt, SealBy
    <2>8. QED
        BY <1>2, <2>2, <2>3, <2>4, <2>5, <2>6, <2>7 DEF Command
<1>3. QED
    BY <1>1, <1>2, CommandMoves DEF KeyringStep

(* The command that takes the step has still something to do. *)
LEMMA ProgressStep ==
    ASSUME TypeInv, NEW a \in Actors, EarlyAt(a), ProgressAt(a), KeyringStep(a)
    PROVE  ProgressAt(a)'
<1>t. pc \in [Actors -> Points] /\ job \in [Actors -> Job] /\ job[a] \in Job
    BY DEF TypeInv, TypeOK
<1>1. CASE \E task \in left[a] : Start(a, task)
    <2>1. PICK task \in left[a] : Start(a, task)
        BY <1>1
    <2>2. task \in Tasks[a] /\ task \in Task
        BY KeyringAssumption DEF TypeInv, TasksAreTheirs
    <2>3. /\ job'[a] = [NoJob EXCEPT !.task = task, !.todo = task.slots]
          /\ pc'[a] \in {"unwrap", "repo pub"}
        BY <1>t, <2>1 DEF Start
    <2>4. job'[a].task = task /\ job'[a].todo = task.slots
        BY <2>3 DEF NoJob
    <2>5. QED
        BY <2>2, <2>3, <2>4 DEF ProgressAt
<1>2. CASE Kill(a) \/ \E how : End(a, how)
    BY <1>t, <1>2 DEF Kill, End, ProgressAt
<1>3. CASE Command(a) /\ ~\E how : End(a, how)
    <2>1. /\ job[a].task \in Tasks[a]
          /\ job[a].at = None => job[a].todo = job[a].task.slots
          /\ job[a].at = None /\ pc[a] \notin {"repo pub", "unwrap", "find"} => Op(a) # "revoke"
        BY <1>3, CommandMoves DEF ProgressAt
    <2>2. CASE RepoRecipient(a) \/ VerifySlots(a) \/ Prove(a) \/ NextSlot(a) \/ PutPub(a)
               \/ DeleteAge(a) \/ DeletePub(a) \/ PutSeal(a)
        BY <1>t, <1>3, <2>1, <2>2
           DEF RepoRecipient, VerifySlots, Prove, NextSlot, PutPub, DeleteAge, DeletePub,
               PutSeal, Continue, Goto, ProgressAt, Op
    <2>3. CASE GetSeal(a) \/ VerifyRepo(a) \/ SealRepo(a) \/ SealSlots(a)
        <3>1. /\ job'[a].task = job[a].task /\ job'[a].at = job[a].at
              /\ job'[a].todo = job[a].todo
            <4>1. CASE GetSeal(a)
                BY <1>t, <4>1 DEF GetSeal, Job
            <4>2. CASE VerifyRepo(a)
                BY <1>t, <4>2 DEF VerifyRepo, Job
            <4>3. CASE SealRepo(a)
                BY <1>t, <4>3 DEF SealRepo, Job
            <4>4. CASE SealSlots(a)
                BY <1>t, <4>4 DEF SealSlots, Job
            <4>5. QED
                BY <2>3, <4>1, <4>2, <4>3, <4>4
        <3>2. pc[a] \notin {"repo pub", "unwrap", "find"}
            BY <2>3 DEF GetSeal, VerifyRepo, SealRepo, SealSlots
        <3>3. QED
            BY <2>1, <3>1, <3>2 DEF ProgressAt, Op
    <2>4. CASE Publish(a)
        <3>1. /\ job'[a].task = job[a].task /\ job'[a].at = job[a].at
              /\ job'[a].todo = job[a].todo
            BY <1>t, <2>4 DEF Publish, Continue, Job
        <3>2. pc[a] \notin {"repo pub", "unwrap", "find"}
            BY <2>4 DEF Publish
        <3>3. QED
            BY <2>1, <3>1, <3>2 DEF ProgressAt, Op
    <2>5. CASE Unwrap(a)
        <3>1. PICK key : /\ job' = [job EXCEPT ![a].dek = key]
                         /\ Goto(a, AfterUnwrap(Op(a)))
            BY <1>3, <2>5 DEF Unwrap
        <3>2. /\ job'[a].task = job[a].task /\ job'[a].at = job[a].at
              /\ job'[a].todo = job[a].todo
            BY <1>t, <3>1 DEF Job
        <3>3. Op(a) = "revoke" => pc'[a] = "find"
            BY <1>t, <3>1 DEF Goto, AfterUnwrap
        <3>4. QED
            BY <2>1, <3>2, <3>3 DEF ProgressAt, Op
    <2>6. CASE \E x \in Slot : PutAge(a, x)
        <3>1. PICK x \in Slot : job' = [job EXCEPT ![a].todo = @ \ {x}, ![a].at = x]
            BY <2>6 DEF PutAge
        <3>2. job'[a].task = job[a].task /\ job'[a].at = x
            BY <1>t, <3>1 DEF Job
        <3>3. job'[a].at # None
            BY <3>2, KeyringAssumption DEF Slot
        <3>4. QED
            BY <2>1, <3>2, <3>3 DEF ProgressAt
    <2>7. CASE Find(a)
        <3>1. PICK l \in Labels : job' = [job EXCEPT ![a].at = [label |-> l, to |-> None]]
            BY <1>3, <2>7 DEF Find
        <3>2. job'[a].task = job[a].task /\ job'[a].at = [label |-> l, to |-> None]
            BY <1>t, <3>1 DEF Job
        <3>3. job'[a].at # None
            BY <3>2, KeyringAssumption
        <3>4. QED
            BY <2>1, <3>2, <3>3 DEF ProgressAt
    <2>8. QED
        BY <1>3, <2>2, <2>3, <2>4, <2>5, <2>6, <2>7 DEF Command
<1>4. QED
    BY <1>1, <1>2, <1>3 DEF KeyringStep

(* A command that makes the keyring clean has just sealed it. *)
LEMMA CleanStep ==
    ASSUME TypeInv, AloneInv, NEW a \in Actors, SealedAt(a), ProgressAt(a), KeyringStep(a),
           clean'
    PROVE  /\ UNCHANGED objects /\ NextSlot(a) /\ seal = SealBy(a)
           /\ a \in sure /\ job[a].at # None
<1>1. ~\E task \in left[a] : Start(a, task)
    BY DEF Start
<1>2. ~Kill(a)
    BY DEF Kill, End
<1>3. pc[a] # "idle" /\ ~clean
    BY <1>1, <1>2, CommandMoves DEF KeyringStep, AloneInv
<1>4. UNCHANGED objects /\ NextSlot(a) /\ End(a, "ok")
    BY <1>1, <1>2, <1>3, CommandMoves DEF KeyringStep, End
<1>5. pc[a] = "next slot" /\ job[a].todo = {} /\ a \in sure
    BY <1>4 DEF NextSlot, End, Continue, Goto, TypeInv, TypeOK
<1>6. job[a].at # None
    <2>1. SUFFICES ASSUME job[a].at = None PROVE FALSE
        OBVIOUS
    <2>2. /\ job[a].task \in Tasks[a] /\ job[a].task.slots = {}
          /\ job[a].task.op # "revoke"
        BY <1>5, <2>1 DEF ProgressAt, Op
    <2>3. QED
        BY <2>2, KeyringAssumption
<1>7. QED
    BY <1>4, <1>5, <1>6 DEF SealedAt

CleanInv ==
    /\ AloneInv
    /\ \A a \in Actors : EarlyAt(a) /\ SealedAt(a) /\ ProgressAt(a)

(* Who does not take the step is as before, and no longer sure. *)
LEMMA OthersStayClean ==
    ASSUME TypeInv, CleanInv, NEW a \in Actors, KeyringStep(a), NEW b \in Actors \ {a}
    PROVE  (EarlyAt(b) /\ SealedAt(b) /\ ProgressAt(b))'
<1>1. pc'[b] = pc[b] /\ job'[b] = job[b]
    BY OthersWait DEF KeyringStep
<1>2. b \notin sure'
    BY AloneStep DEF CleanInv
<1>3. QED
    BY <1>1, <1>2 DEF CleanInv, EarlyAt, SealedAt, ProgressAt, Op

(* Every step keeps what a sure command relies on. *)
LEMMA CleanInvNext == TypeInv /\ CleanInv /\ [Next]_vars => CleanInv'
<1> SUFFICES ASSUME TypeInv, CleanInv, [Next]_vars PROVE CleanInv'
    OBVIOUS
<1>1. CASE UNCHANGED vars
    <2>1. UNCHANGED <<repoPub, age, pub, seal, pc, job, sure, clean>>
        BY <1>1 DEF vars, objects, history
    <2>2. \A a \in Actors : SealBy(a)' = SealBy(a)
        BY <2>1, ViewKept DEF SealBy
    <2>3. QED
        BY <2>1, <2>2 DEF CleanInv, AloneInv, EarlyAt, SealedAt, ProgressAt, Op
<1>2. CASE \E a \in Actors : KeyringStep(a)
    <2>1. PICK a \in Actors : KeyringStep(a)
        BY <1>2
    <2>2. (EarlyAt(a) /\ SealedAt(a) /\ ProgressAt(a))'
        BY <2>1, EarlyStep, SealedStep, ProgressStep DEF CleanInv
    <2>3. AloneInv'
        BY <2>1, AloneStep DEF CleanInv
    <2>4. \A b \in Actors : (EarlyAt(b) /\ SealedAt(b) /\ ProgressAt(b))'
        BY <2>1, <2>2, OthersStayClean
    <2>5. QED
        BY <2>3, <2>4 DEF CleanInv
<1>3. QED
    BY <1>1, <1>2 DEF Next, KeyringStep

LEMMA CleanInvInit == Init => CleanInv
<1> SUFFICES ASSUME Init PROVE CleanInv
    OBVIOUS
<1>1. sure = {} /\ ~clean /\ \A a \in Actors : pc[a] = "idle"
    BY DEF Init
<1>2. QED
    BY <1>1 DEF CleanInv, AloneInv, EarlyAt, Early, SealedAt, ProgressAt

(* A clean keyring stays sealed until the next command begins. *)
LEMMA SealNext ==
    ASSUME Conditional
    PROVE  TypeInv /\ KeyInv /\ CleanInv /\ CleanIsSealed /\ [Next]_vars => CleanIsSealed'
<1> SUFFICES ASSUME TypeInv, KeyInv, CleanInv, CleanIsSealed, [Next]_vars, clean'
             PROVE  SealMatches'
    BY DEF CleanIsSealed
<1>1. CASE UNCHANGED vars
    BY <1>1, ViewKept DEF vars, objects, history, CleanIsSealed, SealMatches
<1>2. CASE \E a \in Actors : KeyringStep(a)
    <2>1. PICK a \in Actors : KeyringStep(a)
        BY <1>2
    <2>2. UNCHANGED objects /\ pc[a] = "next slot" /\ seal = SealBy(a)
        BY <2>1, CleanStep DEF CleanInv, NextSlot
    <2>3. job[a].dek = repoPub
        BY <2>2 DEF KeyInv, Holding, Granting
    <2>4. QED
        BY <2>2, <2>3, ViewKept DEF SealBy, SealMatches, objects
<1>3. QED
    BY <1>1, <1>2 DEF Next, KeyringStep

(* With conditional writes, a command that ran alone to its end, and could   *)
(* read what it sealed, leaves a seal that matches, whatever overlapping or  *)
(* killed commands and failed reads left before it: no keyring needs more    *)
(* than one such command to be trusted again (keyring.go, Seal; key.go,      *)
(* revoke "repairs the seal").                                               *)
THEOREM SealIsRepaired == ASSUME Conditional PROVE Spec => []CleanIsSealed
<1>1. Init => CleanIsSealed
    BY DEF Init, CleanIsSealed
<1>2. QED
    BY <1>1, TypeInit, TypeNext, KeyInit, KeyNext, CleanInvInit, CleanInvNext, SealNext, PTL
       DEF Spec
=============================================================================
