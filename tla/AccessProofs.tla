---------------------------- MODULE AccessProofs ----------------------------
(***************************************************************************)
(* Keyring implements AccessList: whatever the calls of several commands   *)
(* do to each other, who has access changes label by label, as asked.      *)
(***************************************************************************)
EXTENDS KeyringProofs

(* The state of the abstract list. *)
access == [l \in Labels |-> age[l].to]
missing == [a \in Actors |-> IF a \in Busy THEN Missing(a) ELSE [l \in {} |-> None]]
answer == [a \in Actors |-> IF outcome[a] = "ok" THEN "ok" ELSE "none"]

OneToALabel(slots) == \A x, y \in slots : x.label = y.label => x = y

(* A command has at most one key to grant for a label, and a revoke none at *)
(* all.                                                                    *)
ChangeInv ==
    \A a \in Actors :
        pc[a] # "idle" =>
            /\ job[a].task \in Tasks[a]
            /\ job[a].todo \subseteq job[a].task.slots
            /\ pc[a] \in {"find"} \cup Revoking => Op(a) = "revoke"

-----------------------------------------------------------------------------
(* It holds before any command has begun, and every step keeps it. *)
LEMMA ChangeInvInit == Init => ChangeInv
BY DEF Init, ChangeInv

(* A command keeps its task, and has ever fewer slots to grant. *)
LEMMA ChangeInvNext == TypeInv /\ ChangeInv /\ [Next]_vars => ChangeInv'
<1> SUFFICES ASSUME TypeInv, ChangeInv, [Next]_vars PROVE ChangeInv'
    OBVIOUS
<1>t. pc \in [Actors -> Points] /\ job \in [Actors -> Job]
    BY DEF TypeInv, TypeOK
<1>1. CASE UNCHANGED vars
    BY <1>1 DEF vars, ChangeInv, Op
<1>2. CASE Next
    <2>1. PICK a \in Actors : (\E task \in left[a] : Start(a, task)) \/ Command(a) \/ Kill(a)
        BY <1>2 DEF Next
    <2>2. \A b \in Actors \ {a} : pc'[b] = pc[b] /\ job'[b] = job[b]
        BY <2>1, OthersWait
    <2>3. SUFFICES ASSUME pc'[a] # "idle"
                   PROVE  /\ job'[a].task \in Tasks[a]
                          /\ job'[a].todo \subseteq job'[a].task.slots
                          /\ pc'[a] \in {"find"} \cup Revoking => job'[a].task.op = "revoke"
        BY <2>2 DEF ChangeInv, Op
    <2>4. CASE \E task \in left[a] : Start(a, task)
        <3>1. PICK task \in left[a] :
                /\ job' = [job EXCEPT ![a] = [NoJob EXCEPT !.task = task, !.todo = task.slots]]
                /\ pc' = [pc EXCEPT ![a] = IF task.op = "recover" THEN "unwrap" ELSE "repo pub"]
            BY <2>4 DEF Start
        <3>2. task \in Tasks[a]
            BY <3>1 DEF TypeInv, TasksAreTheirs
        <3>3. job'[a].task = task /\ job'[a].todo = task.slots /\ pc'[a] \in {"unwrap", "repo pub"}
            BY <1>t, <3>1 DEF NoJob
        <3>4. QED
            BY <3>2, <3>3 DEF Revoking
    <2>5. CASE Kill(a) \/ \E how : End(a, how)
        BY <1>t, <2>3, <2>5 DEF Kill, End
    <2>6. CASE Command(a) /\ ~\E how : End(a, how)
        <3>0. pc[a] # "idle" /\ job[a] \in Job
            BY <1>t, <2>6, CommandMoves
        <3>1. /\ job[a].task \in Tasks[a]
              /\ job[a].todo \subseteq job[a].task.slots
              /\ pc[a] \in {"find"} \cup Revoking => Op(a) = "revoke"
            BY <3>0 DEF ChangeInv
        <3>2. job'[a].task = job[a].task /\ job'[a].todo \subseteq job[a].todo
            <4>1. CASE RepoRecipient(a) \/ VerifySlots(a) \/ Prove(a) \/ NextSlot(a) \/ PutPub(a)
                       \/ DeleteAge(a) \/ DeletePub(a) \/ PutSeal(a)
                BY <2>6, <4>1
                   DEF RepoRecipient, VerifySlots, Prove, NextSlot, PutPub, DeleteAge, DeletePub,
                       PutSeal, Continue
            <4>2. CASE GetSeal(a)
                BY <1>t, <3>0, <4>2 DEF GetSeal, Job
            <4>3. CASE VerifyRepo(a) \/ SealRepo(a)
                BY <1>t, <3>0, <4>3 DEF VerifyRepo, SealRepo, Job
            <4>4. CASE SealSlots(a)
                BY <1>t, <3>0, <4>4 DEF SealSlots, Job
            <4>5. CASE Publish(a)
                BY <1>t, <3>0, <4>5 DEF Publish, Continue, Job
            <4>6. CASE Unwrap(a)
                <5>1. PICK key : job' = [job EXCEPT ![a].dek = key]
                    BY <2>6, <4>6 DEF Unwrap
                <5>2. QED
                    BY <1>t, <3>0, <5>1 DEF Job
            <4>7. CASE \E x \in Slot : PutAge(a, x)
                <5>1. PICK x \in Slot : job' = [job EXCEPT ![a].todo = @ \ {x}, ![a].at = x]
                    BY <4>7 DEF PutAge
                <5>2. QED
                    BY <1>t, <3>0, <5>1 DEF Job
            <4>8. CASE Find(a)
                <5>1. PICK l \in Labels : job' = [job EXCEPT ![a].at = [label |-> l, to |-> None]]
                    BY <2>6, <4>8 DEF Find
                <5>2. QED
                    BY <1>t, <3>0, <5>1 DEF Job
            <4>9. QED
                BY <2>6, <4>1, <4>2, <4>3, <4>4, <4>5, <4>6, <4>7, <4>8 DEF Command
        <3>3. ASSUME pc'[a] \in {"find"} \cup Revoking
              PROVE  Op(a) = "revoke"
            <4>1. pc[a] \in {"find"} \cup Revoking \/ (Unwrap(a) /\ pc'[a] = AfterUnwrap(Op(a)))
                BY <1>t, <2>6, <3>3
                   DEF Command, RepoRecipient, Publish, Unwrap, GetSeal, VerifyRepo, VerifySlots,
                       Prove, NextSlot, PutAge, PutPub, SealRepo, SealSlots, PutSeal,
                       Find, DeleteAge, DeletePub, Continue, Goto, Read, Revoking
            <4>2. QED
                BY <3>1, <3>3, <4>1 DEF AfterUnwrap, Revoking
        <3>4. QED
            BY <3>1, <3>2, <3>3 DEF Op
    <2>7. QED
        BY <2>1, <2>4, <2>5, <2>6
<1>3. QED
    BY <1>1, <1>2

-----------------------------------------------------------------------------
(* Changes *)

(* The change that grants these slots. *)
Wanted(slots) ==
    [l \in {x.label : x \in slots} |-> (CHOOSE x \in slots : x.label = l).to]

(* It names each label once, and a slot granted is a change less. *)
LEMMA WantedIs ==
    ASSUME NEW slots \in SUBSET Slot, OneToALabel(slots)
    PROVE  /\ Wanted(slots) \in Access!Change
           /\ \A x \in slots :
                /\ x.label \in DOMAIN Wanted(slots)
                /\ Wanted(slots)[x.label] = x.to
                /\ Wanted(slots \ {x}) =
                      [k \in DOMAIN Wanted(slots) \ {x.label} |-> Wanted(slots)[k]]
<1>1. \A x \in slots : (CHOOSE y \in slots : y.label = x.label) = x
    BY DEF OneToALabel
<1>2. \A x \in slots : x.label \in Labels /\ x.to \in Recipients
    BY DEF Slot
<1>3. \A x \in slots : x.label \in DOMAIN Wanted(slots) /\ Wanted(slots)[x.label] = x.to
    BY <1>1 DEF Wanted
<1>4. DOMAIN Wanted(slots) \in SUBSET Labels
    BY <1>2 DEF Wanted
<1>5. Wanted(slots) \in [DOMAIN Wanted(slots) -> Recipients \cup {None}]
    BY <1>2, <1>3 DEF Wanted
<1>6. ASSUME NEW x \in slots
      PROVE  Wanted(slots \ {x}) = [k \in DOMAIN Wanted(slots) \ {x.label} |-> Wanted(slots)[k]]
    <2>1. {y.label : y \in slots \ {x}} = {y.label : y \in slots} \ {x.label}
        BY DEF OneToALabel
    <2>2. \A y \in slots \ {x} : (CHOOSE z \in slots \ {x} : z.label = y.label) = y
        BY DEF OneToALabel
    <2>3. \A y \in slots \ {x} : (CHOOSE z \in slots \ {x} : z.label = y.label).to
                                   = Wanted(slots)[y.label]
        BY <1>3, <2>2
    <2> DEFINE rest == {y.label : y \in slots \ {x}}
    <2>4. Wanted(slots \ {x}) = [l \in rest |-> (CHOOSE z \in slots \ {x} : z.label = l).to]
        BY DEF Wanted
    <2>5. \A l \in rest : (CHOOSE z \in slots \ {x} : z.label = l).to = Wanted(slots)[l]
        BY <2>3
    <2>6. rest = DOMAIN Wanted(slots) \ {x.label}
        BY <2>1 DEF Wanted
    <2> HIDE DEF rest
    <2>7. Wanted(slots \ {x}) = [l \in rest |-> Wanted(slots)[l]]
        BY <2>4, <2>5
    <2>8. QED
        BY <2>6, <2>7
<1>7. QED
    BY <1>3, <1>4, <1>5, <1>6 DEF Access!Change

(* Nothing to grant is no change. *)
LEMMA WantedNone == Wanted({}) = Access!NoChange
BY DEF Wanted, Access!NoChange

-----------------------------------------------------------------------------
(* The mapping *)

(* What a command has yet to do, before a step and after it. *)
LEMMA MissingIs ==
    ASSUME NEW a \in Actors
    PROVE  /\ Missing(a) = IF pc[a] = "delete age" THEN [l \in {job[a].at.label} |-> None]
                                                  ELSE Wanted(job[a].todo)
           /\ Missing(a)' = IF pc'[a] = "delete age" THEN [l \in {job'[a].at.label} |-> None]
                                                    ELSE Wanted(job'[a].todo)
BY DEF Missing, Wanted

(* What the list sees of an actor. *)
Seen(a) == <<IF a \in Busy THEN "asked" ELSE "not asked", missing[a], answer[a]>>

(* A step of the keyring is seen of who takes it only. *)
LEMMA OthersUnseen ==
    ASSUME TypeInv, NEW a \in Actors, KeyringStep(a)
    PROVE  \A b \in Actors \ {a} : Seen(b)' = Seen(b)
<1>1. \A b \in Actors \ {a} : pc'[b] = pc[b] /\ job'[b] = job[b]
    BY OthersWait DEF KeyringStep
<1>2. \A b \in Actors \ {a} : outcome'[b] = outcome[b]
    BY DEF TypeInv, TypeOK, KeyringStep, Start, Command, Kill, RepoRecipient, Publish, Unwrap,
           GetSeal, VerifyRepo, VerifySlots, Prove, NextSlot, PutAge, PutPub, Find, DeleteAge,
           DeletePub, SealRepo, SealSlots, PutSeal, Continue, Goto, Read, End
<1>3. ASSUME NEW b \in Actors \ {a} PROVE Seen(b)' = Seen(b)
    <2>1. (b \in Busy)' <=> b \in Busy
        BY <1>1 DEF Busy
    <2>2. Missing(b)' = Missing(b)
        BY <1>1, MissingIs
    <2>3. missing'[b] = missing[b]
        BY <2>1, <2>2 DEF missing
    <2>4. answer'[b] = answer[b]
        BY <1>2 DEF answer
    <2>5. QED
        BY <2>1, <2>3, <2>4 DEF Seen
<1>4. QED
    BY <1>3

(* Who takes a step without being seen takes a stuttering step. *)
LEMMA Unseen ==
    ASSUME NEW a \in Actors, \A b \in Actors : Seen(b)' = Seen(b), access' = access
    PROVE  UNCHANGED Access!accessVars
<1>1. Busy' = Busy
    BY DEF Seen, Busy
<1>2. missing' = missing /\ answer' = answer
    BY DEF Seen, missing, answer
<1>3. QED
    BY <1>1, <1>2 DEF Access!accessVars, access, missing, answer

(* An actor leaving, with the answer it has. *)
LEMMA Leaving ==
    ASSUME NEW a \in Actors, NEW how, \A b \in Actors \ {a} : Seen(b)' = Seen(b),
           a \in Busy, Seen(a)' = <<"not asked", Access!NoChange, how>>, access' = access
    PROVE  Access!Leave(a, how)
<1>1. Busy' = Busy \ {a}
    BY DEF Seen, Busy
<1>2. missing' = [missing EXCEPT ![a] = Access!NoChange] /\ answer' = [answer EXCEPT ![a] = how]
    BY DEF Seen, missing, answer
<1>3. QED
    BY <1>1, <1>2 DEF Access!Leave, access, missing, answer

(* An actor beginning to make changes. *)
LEMMA Asking ==
    ASSUME NEW a \in Actors, NEW change \in Access!Change,
           \A b \in Actors \ {a} : Seen(b)' = Seen(b),
           a \notin Busy, Seen(a)' = <<"asked", change, answer[a]>>, access' = access
    PROVE  Access!Ask(a)
<1>1. Busy' = Busy \cup {a}
    BY DEF Seen, Busy
<1>2. /\ missing' = [missing EXCEPT ![a] = change] /\ missing'[a] = change
      /\ answer' = answer
    BY DEF Seen, missing, answer
<1>3. QED
    BY <1>1, <1>2 DEF Access!Ask, access, missing, answer

(* An actor that is not at it forgetting its answer. *)
LEMMA Forgetting ==
    ASSUME NEW a \in Actors, \A b \in Actors \ {a} : Seen(b)' = Seen(b),
           a \notin Busy, Seen(a)' = <<"not asked", missing[a], "none">>, access' = access
    PROVE  Access!Forget(a)
<1>1. Busy' = Busy
    BY DEF Seen, Busy
<1>2. missing' = missing /\ answer' = [answer EXCEPT ![a] = "none"]
    BY DEF Seen, missing, answer
<1>3. QED
    BY <1>1, <1>2 DEF Access!Forget, access, missing, answer

(* An actor making one of its changes. *)
LEMMA Landing ==
    ASSUME NEW a \in Actors, NEW l \in Labels, \A b \in Actors \ {a} : Seen(b)' = Seen(b),
           a \in Busy, l \in DOMAIN missing[a],
           Seen(a)' = <<"asked", [k \in DOMAIN missing[a] \ {l} |-> missing[a][k]], answer[a]>>,
           access' = [access EXCEPT ![l] = missing[a][l]]
    PROVE  Access!Land(a, l)
<1>1. Busy' = Busy
    BY DEF Seen, Busy
<1>2. /\ missing' = [missing EXCEPT ![a] = [k \in DOMAIN @ \ {l} |-> @[k]]]
      /\ answer' = answer
    BY DEF Seen, missing, answer
<1>3. QED
    BY <1>1, <1>2 DEF Access!Land, access, missing, answer

-----------------------------------------------------------------------------
(* The steps *)

(* A step that is seen of nobody. *)
LEMMA StepUnseen ==
    ASSUME TypeInv, NEW a \in Actors, KeyringStep(a),
           UNCHANGED <<age, outcome>>, job'[a].todo = job[a].todo,
           "delete age" \notin {pc[a], pc'[a]}, (a \in Busy)' <=> a \in Busy
    PROVE  UNCHANGED Access!accessVars
<1>1. Missing(a)' = Missing(a)
    BY MissingIs
<1>2. missing'[a] = missing[a] /\ answer'[a] = answer[a]
    BY <1>1 DEF missing, answer
<1>3. Seen(a)' = Seen(a)
    BY <1>2 DEF Seen
<1>4. access' = access
    BY DEF access
<1>5. QED
    BY <1>3, <1>4, OthersUnseen, Unseen

(* The step after which a command makes its changes. *)
LEMMA StepAsks ==
    ASSUME TypeInv, ChangeInv, NEW a \in Actors, KeyringStep(a),
           UNCHANGED <<age, outcome>>, a \notin Busy, (a \in Busy)',
           Missing(a)' \in Access!Change
    PROVE  Access!Ask(a)
<1>1. Seen(a)' = <<"asked", Missing(a)', answer[a]>>
    BY DEF Seen, missing, answer
<1>2. access' = access
    BY DEF access
<1>3. QED
    BY <1>1, <1>2, OthersUnseen, Asking

(* The step with which a command ends. *)
LEMMA StepEnds ==
    ASSUME TypeInv, NEW a \in Actors, KeyringStep(a), UNCHANGED age,
           NEW how \in {"ok", "joined", "failed", "seal mismatch", "killed"}, End(a, how),
           how = "ok" => a \in Busy /\ Missing(a) = Access!NoChange
    PROVE  Access!Forget(a) \/ Access!Succeed(a) \/ Access!Die(a)
<1>1. pc'[a] = "idle" /\ outcome'[a] = how
    BY DEF TypeInv, TypeOK, End
<1>2. Seen(a)' = <<"not asked", Access!NoChange, IF how = "ok" THEN "ok" ELSE "none">>
    <2>1. ~(a \in Busy)'
        BY <1>1 DEF Busy, Granting, Revoking, Sealing
    <2>2. missing'[a] = Access!NoChange
        BY <2>1 DEF missing, Access!NoChange
    <2>3. answer'[a] = IF how = "ok" THEN "ok" ELSE "none"
        BY <1>1 DEF answer
    <2>4. QED
        BY <2>1, <2>2, <2>3 DEF Seen
<1>3. access' = access
    BY DEF access
<1>4. CASE a \in Busy
    <2>1. Access!Leave(a, IF how = "ok" THEN "ok" ELSE "none")
        BY <1>2, <1>3, <1>4, OthersUnseen, Leaving
    <2>2. how = "ok" => missing[a] = Access!NoChange
        BY <1>4 DEF missing
    <2>3. QED
        BY <2>1, <2>2 DEF Access!Succeed, Access!Die, missing
<1>5. CASE a \notin Busy
    <2>1. missing[a] = Access!NoChange
        BY <1>5 DEF missing, Access!NoChange
    <2>2. QED
        BY <1>2, <1>3, <1>5, <2>1, OthersUnseen, Forgetting
<1>6. QED
    BY <1>4, <1>5

(* What a command has yet to do is a change. *)
LEMMA MissingType ==
    ASSUME TypeInv', ChangeInv', NEW a \in Actors, pc'[a] # "idle",
           pc'[a] = "delete age" => job'[a].at # None
    PROVE  Missing(a)' \in Access!Change
<1>1. CASE pc'[a] = "delete age"
    <2>1. job'[a].at.label \in Labels
        BY <1>1 DEF TypeInv, TypeOK, Job
    <2>2. /\ {job'[a].at.label} \in SUBSET Labels
          /\ [l \in {job'[a].at.label} |-> None] \in [{job'[a].at.label} -> Recipients \cup {None}]
        BY <2>1
    <2>3. QED
        BY <1>1, <2>2, MissingIs DEF Access!Change
<1>2. CASE pc'[a] # "delete age"
    <2>1. job'[a].todo \subseteq job'[a].task.slots /\ job'[a].task \in Tasks[a]
        BY DEF ChangeInv
    <2>2. job'[a].todo \in SUBSET Slot
        BY DEF TypeInv, TypeOK, Job
    <2>3. \A x, y \in job'[a].task.slots : x.label = y.label => x = y
        BY <2>1, KeyringAssumption
    <2>4. OneToALabel(job'[a].todo)
        BY <2>1, <2>3 DEF OneToALabel
    <2>5. QED
        BY <1>2, <2>2, <2>4, MissingIs, WantedIs
<1>3. QED
    BY <1>1, <1>2

(* Starting a command changes nothing yet. *)
LEMMA StartForgets ==
    ASSUME TypeInv, NEW a \in Actors, \E task \in left[a] : Start(a, task)
    PROVE  Access!Forget(a)
<1>1. /\ pc[a] = "idle" /\ pc'[a] \in {"unwrap", "repo pub"}
      /\ outcome'[a] = "none" /\ age' = age
    BY DEF TypeInv, TypeOK, Start, objects
<1>2. a \notin Busy /\ ~(a \in Busy)'
    BY <1>1 DEF Busy, Granting, Revoking, Sealing
<1>3. missing'[a] = missing[a] /\ answer'[a] = "none"
    BY <1>1, <1>2 DEF missing, answer
<1>4. Seen(a)' = <<"not asked", missing[a], "none">>
    BY <1>2, <1>3 DEF Seen
<1>5. access' = access
    BY <1>1 DEF access
<1>6. QED
    BY <1>2, <1>4, <1>5, OthersUnseen, Forgetting DEF KeyringStep

(* Granting a slot makes one change. *)
LEMMA PutAgeLands ==
    ASSUME TypeInv, ChangeInv, NEW a \in Actors, NEW x \in Slot, PutAge(a, x)
    PROVE  \E l \in Labels : Access!Land(a, l)
<1>t. pc \in [Actors -> Points] /\ job \in [Actors -> Job] /\ job[a] \in Job
      /\ age \in [Labels -> Wrap \cup {NoWrap}]
    BY DEF TypeInv, TypeOK
<1>1. /\ pc[a] = "put age" /\ pc'[a] = "put pub" /\ outcome' = outcome
      /\ x \in job[a].todo /\ job'[a].todo = job[a].todo \ {x}
      /\ age' = [age EXCEPT ![x.label] = [key |-> job[a].dek, to |-> x.to]]
    BY <1>t DEF PutAge, Goto, Job
<1>2. a \in Busy /\ (a \in Busy)'
    BY <1>1 DEF Busy, Granting
<1>3. job[a].todo \in SUBSET Slot /\ OneToALabel(job[a].todo)
    <2>1. job[a].todo \subseteq job[a].task.slots /\ job[a].task \in Tasks[a]
        BY <1>1 DEF ChangeInv
    <2>2. QED
        BY <1>t, <2>1, KeyringAssumption DEF OneToALabel, Job
<1>4. missing[a] = Wanted(job[a].todo) /\ missing'[a] = Wanted(job'[a].todo)
    BY <1>1, <1>2, MissingIs DEF missing
<1>5. /\ x.label \in DOMAIN missing[a] /\ missing[a][x.label] = x.to
      /\ missing'[a] = [k \in DOMAIN missing[a] \ {x.label} |-> missing[a][k]]
    <2> DEFINE todo == job[a].todo
    <2>1. /\ x.label \in DOMAIN Wanted(todo) /\ Wanted(todo)[x.label] = x.to
          /\ Wanted(todo \ {x}) = [k \in DOMAIN Wanted(todo) \ {x.label} |-> Wanted(todo)[k]]
        BY <1>1, <1>3, WantedIs
    <2>2. missing[a] = Wanted(todo) /\ missing'[a] = Wanted(todo \ {x})
        BY <1>1, <1>4
    <2>3. QED
        BY <2>1, <2>2
<1>6. Seen(a)' = <<"asked", [k \in DOMAIN missing[a] \ {x.label} |-> missing[a][k]], answer[a]>>
    BY <1>1, <1>2, <1>5 DEF Seen, answer
<1>7. x.label \in Labels /\ access' = [access EXCEPT ![x.label] = missing[a][x.label]]
    BY <1>t, <1>1, <1>5 DEF access, Slot
<1>8. QED
    BY <1>2, <1>5, <1>6, <1>7, OthersUnseen, Landing DEF KeyringStep, Command

(* Deleting a slot makes the change of a revoke. *)
LEMMA DeleteAgeLands ==
    ASSUME TypeInv, ChangeInv, NEW a \in Actors, DeleteAge(a)
    PROVE  \E l \in Labels : Access!Land(a, l)
<1>t. pc \in [Actors -> Points] /\ job \in [Actors -> Job] /\ job[a] \in Job
      /\ age \in [Labels -> Wrap \cup {NoWrap}]
    BY DEF TypeInv, TypeOK
<1> DEFINE l == job[a].at.label
<1>1. /\ pc[a] = "delete age" /\ pc'[a] = "delete pub" /\ outcome' = outcome /\ job' = job
      /\ age' = [age EXCEPT ![l] = NoWrap]
    BY <1>t DEF DeleteAge, Continue, Goto
<1>2. a \in Busy /\ (a \in Busy)'
    BY <1>1 DEF Busy, Revoking
<1>3. job[a].todo = {} /\ l \in Labels
    <2>1. job[a].todo \subseteq job[a].task.slots /\ job[a].task \in Tasks[a] /\ Op(a) = "revoke"
        BY <1>1 DEF ChangeInv, Revoking
    <2>2. job[a].task.slots = {}
        BY <2>1, KeyringAssumption DEF Op
    <2>3. job[a].at # None
        BY <1>1 DEF TypeInv, Placing, Revoking
    <2>4. QED
        BY <1>t, <2>1, <2>2, <2>3 DEF Job
<1>4. missing[a] = [k \in {l} |-> None] /\ missing'[a] = Access!NoChange
    BY <1>1, <1>2, <1>3, MissingIs, WantedNone DEF missing
<1>5. [k \in DOMAIN missing[a] \ {l} |-> missing[a][k]] = Access!NoChange
    BY <1>4 DEF Access!NoChange
<1>6. Seen(a)' = <<"asked", [k \in DOMAIN missing[a] \ {l} |-> missing[a][k]], answer[a]>>
    BY <1>1, <1>2, <1>4, <1>5 DEF Seen, answer
<1>7. l \in DOMAIN missing[a] /\ missing[a][l] = None
    BY <1>4
<1>8. access' = [access EXCEPT ![l] = missing[a][l]]
    BY <1>t, <1>1, <1>3, <1>7 DEF access, NoWrap
<1>9. QED
    BY <1>2, <1>3, <1>6, <1>7, <1>8, OthersUnseen, Landing DEF KeyringStep, Command

(* Every other call that does not end its command is seen at most as its *)
(* beginning to make changes.                                            *)
LEMMA CommandQuiet ==
    ASSUME TypeInv, NEW a \in Actors, Command(a), pc'[a] # "idle",
           ~Find(a), ~DeleteAge(a), ~\E x \in Slot : PutAge(a, x)
    PROVE  /\ UNCHANGED <<age, outcome>>
           /\ job'[a].todo = job[a].todo
           /\ "delete age" \notin {pc[a], pc'[a]}
           /\ a \in Busy => (a \in Busy)'
<1>t. pc \in [Actors -> Points] /\ job \in [Actors -> Job] /\ job[a] \in Job
    BY DEF TypeInv, TypeOK
<1> USE <1>t
<1> DEFINE BusyPoints == Granting \cup Revoking \cup Sealing
<1>1. SUFFICES /\ UNCHANGED <<age, outcome>> /\ job'[a].todo = job[a].todo
               /\ "delete age" \notin {pc[a], pc'[a]}
               /\ pc[a] \in BusyPoints => pc'[a] \in BusyPoints
    BY DEF Busy
<1> USE DEF Granting, Revoking, Sealing
<1>2. CASE RepoRecipient(a) \/ VerifySlots(a) \/ Prove(a) \/ NextSlot(a)
    BY <1>2 DEF RepoRecipient, VerifySlots, Prove, NextSlot, End, Continue, Goto, objects
<1>3. CASE PutPub(a) \/ DeletePub(a) \/ PutSeal(a)
    BY <1>3 DEF PutPub, DeletePub, PutSeal, Continue, Goto
<1>4. CASE Publish(a)
    <2>1. job' = [job EXCEPT ![a].dek = a] \/ job' = job
        BY <1>4 DEF Publish, Continue
    <2>2. job'[a].todo = job[a].todo
        BY <2>1 DEF Job
    <2>3. QED
        BY <1>4, <2>2 DEF Publish, Continue, Goto
<1>5. CASE Unwrap(a)
    <2>1. PICK key : /\ job' = [job EXCEPT ![a].dek = key]
                     /\ Goto(a, AfterUnwrap(Op(a)))
        BY <1>5 DEF Unwrap, End
    <2>2. job'[a].todo = job[a].todo
        BY <2>1 DEF Job
    <2>3. QED
        BY <1>5, <2>1, <2>2 DEF Unwrap, AfterUnwrap, Goto, objects
<1>6. CASE GetSeal(a)
    BY <1>6 DEF GetSeal, Goto, Job, objects
<1>7. CASE VerifyRepo(a) \/ SealRepo(a)
    <2>1. job'[a].todo = job[a].todo
        BY <1>7 DEF VerifyRepo, SealRepo, Job
    <2>2. QED
        BY <1>7, <2>1 DEF VerifyRepo, SealRepo, Goto, Read, objects
<1>8. CASE SealSlots(a)
    <2>1. job'[a].todo = job[a].todo
        BY <1>8 DEF SealSlots, Job
    <2>2. QED
        BY <1>8, <2>1 DEF SealSlots, Read, objects
<1>9. QED
    BY <1>2, <1>3, <1>4, <1>5, <1>6, <1>7, <1>8 DEF Command

(* A call of a command does to the list what the list allows. *)
LEMMA CommandRefines ==
    ASSUME TypeInv, ChangeInv, TypeInv', ChangeInv', NEW a \in Actors, Command(a)
    PROVE  \/ UNCHANGED Access!accessVars
           \/ Access!Forget(a) \/ Access!Ask(a) \/ Access!Succeed(a) \/ Access!Die(a)
           \/ \E l \in Labels : Access!Land(a, l)
<1>t. pc \in [Actors -> Points] /\ job \in [Actors -> Job] /\ job[a] \in Job
    BY DEF TypeInv, TypeOK
<1>s. KeyringStep(a)
    BY DEF KeyringStep
<1>1. CASE pc'[a] = "idle"
    <2>1. PICK how \in {"ok", "joined", "failed", "seal mismatch"} :
                End(a, how) /\ (how = "ok" => NextSlot(a))
        BY <1>1, CommandMoves
    <2>2. UNCHANGED age
        BY <1>1, CommandMoves DEF objects
    <2>3. ASSUME how = "ok" PROVE a \in Busy /\ Missing(a) = Access!NoChange
        <3>1. pc[a] = "next slot" /\ job[a].todo = {}
            BY <1>t, <1>1, <2>1, <2>3 DEF NextSlot, Continue, Goto
        <3>2. QED
            BY <3>1, MissingIs, WantedNone DEF Busy, Granting
    <2>4. QED
        BY <1>s, <2>1, <2>2, <2>3, StepEnds
<1>2. CASE pc'[a] # "idle" /\ ~Find(a) /\ ~DeleteAge(a) /\ ~\E x \in Slot : PutAge(a, x)
    <2>1. /\ UNCHANGED <<age, outcome>> /\ job'[a].todo = job[a].todo
          /\ "delete age" \notin {pc[a], pc'[a]} /\ (a \in Busy => (a \in Busy)')
        BY <1>2, CommandQuiet
    <2>2. Missing(a)' \in Access!Change
        BY <1>2, <2>1, MissingType
    <2>3. CASE (a \in Busy)' <=> a \in Busy
        BY <1>s, <2>1, <2>3, StepUnseen
    <2>4. CASE a \notin Busy /\ (a \in Busy)'
        BY <1>s, <2>1, <2>2, <2>4, StepAsks
    <2>5. QED
        BY <2>1, <2>3, <2>4
<1>3. CASE pc'[a] # "idle" /\ Find(a)
    <2>1. /\ UNCHANGED <<age, outcome>> /\ pc[a] = "find" /\ pc'[a] = "delete age"
          /\ a \notin Busy /\ (a \in Busy)'
        BY <1>t, <1>3 DEF Find, End, Goto, objects, Busy, Granting, Revoking, Sealing
    <2>2. job'[a].at # None
        BY <2>1 DEF TypeInv, Placing, Revoking
    <2>3. Missing(a)' \in Access!Change
        BY <1>3, <2>2, MissingType
    <2>4. QED
        BY <1>s, <2>1, <2>3, StepAsks
<1>4. CASE (\E x \in Slot : PutAge(a, x)) \/ DeleteAge(a)
    BY <1>4, PutAgeLands, DeleteAgeLands
<1>5. QED
    BY <1>1, <1>2, <1>3, <1>4

-----------------------------------------------------------------------------
(* Refinement *)

(* The keyrings to start from are lists to start from. *)
LEMMA AccessRefinesInit == Init => Access!AccessInit
<1> SUFFICES ASSUME Init PROVE Access!AccessInit
    OBVIOUS
<1>1. \A a \in Actors : pc[a] = "idle" /\ outcome[a] = "none"
    BY DEF Init
<1>2. Busy = {}
    BY <1>1 DEF Busy, Granting, Revoking, Sealing
<1>3. PICK slots \in Foundings : age = FoundedAge(slots)
    BY DEF Init
<1>4. QED
    BY <1>1, <1>2, <1>3 DEF Access!AccessInit, Access!NoChange

(* Every step is one of the list, or is not seen. *)
LEMMA AccessRefinesNext ==
    TypeInv /\ ChangeInv /\ TypeInv' /\ ChangeInv' /\ [Next]_vars
        => [Access!AccessNext]_Access!accessVars
<1> SUFFICES ASSUME TypeInv, ChangeInv, TypeInv', ChangeInv', [Next]_vars
             PROVE  [Access!AccessNext]_Access!accessVars
    OBVIOUS
<1>1. CASE UNCHANGED vars
    BY <1>1 DEF vars, objects, Access!accessVars, Busy, Missing
<1>2. CASE Next
    <2>1. PICK a \in Actors : (\E task \in left[a] : Start(a, task)) \/ Command(a) \/ Kill(a)
        BY <1>2 DEF Next
    <2>2. CASE \E task \in left[a] : Start(a, task)
        BY <2>2, StartForgets DEF Access!AccessNext
    <2>3. CASE Command(a)
        BY <2>3, CommandRefines DEF Access!AccessNext
    <2>4. CASE Kill(a)
        <3>1. Access!Forget(a) \/ Access!Succeed(a) \/ Access!Die(a)
            BY <2>4, StepEnds DEF Kill, objects, KeyringStep
        <3>2. QED
            BY <3>1 DEF Access!AccessNext
    <2>5. QED
        BY <2>1, <2>2, <2>3, <2>4
<1>3. QED
    BY <1>1, <1>2

(* Who has access changes label by label, as asked, for any number of       *)
(* members, labels and commands, with or without conditional writes         *)
(* (keyring.go, Grant and Revoke).                                          *)
THEOREM KeyringIsAccessList == Spec => IsAccessList
<1>1. Spec => []TypeInv
    BY TypeAlways
<1>2. Spec => []ChangeInv
    BY <1>1, ChangeInvInit, ChangeInvNext, PTL DEF Spec
<1>3. Spec => Access!AccessSpec
    BY <1>1, <1>2, AccessRefinesInit, AccessRefinesNext, PTL DEF Spec, Access!AccessSpec
<1>4. QED
    BY <1>3 DEF IsAccessList
=============================================================================
