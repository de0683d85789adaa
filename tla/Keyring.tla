------------------------------ MODULE Keyring ------------------------------
(***************************************************************************)
(* The keyring of a remote: repo.pub, one .age and one .pub object for     *)
(* each slot, and the seal over repo.pub and the slots.  Members, and      *)
(* clones that push for the first time, run commands on it at the same     *)
(* time; each command is a sequence of single-object calls without a lock, *)
(* and may be killed before any of them.                                   *)
(*                                                                         *)
(* Abstractions.  A recipient is a public key; an actor holds the secrets  *)
(* of some.  The key an actor would found a keyring with bears its name.   *)
(* Listing the slots and reading their .pub objects is one step, and so is *)
(* trying the .age objects.  The HMAC of the seal is the record of the key *)
(* and what it covers.  Each task of an actor is run at most once.         *)
(*                                                                         *)
(* The Get of any object may fail.  Where the code takes that for an       *)
(* object that is not there, and goes on, so does the model; where it      *)
(* gives up with an error, the command is as good as killed.               *)
(***************************************************************************)
EXTENDS FiniteSets

CONSTANTS
    Actors,       \* processes that use the keyring
    Labels,       \* slot labels
    Recovery,     \* the label of the recovery slot
    Recipients,   \* public keys
    Secrets,      \* Secrets[a]: the recipients whose secret key a holds
    Tasks,        \* Tasks[a]: the commands a may run
    Foundings,    \* the keyrings to start from: sets of slots, {} for none
    Founder,      \* the key of a keyring that is there at the start
    Conditional,  \* FALSE = a backend without conditional writes
    Flaky,        \* the actors whose reads may fail
    None

Slot == [label : Labels, to : Recipients]

(* One command.  init, grant, recovery-init and recover grant "slots";     *)
(* revoke removes the slot that "needle" names; "proof" is the recovery    *)
(* secret entered for recovery-init, with "force" none is asked for.       *)
Task == [op : {"init", "grant", "revoke", "recovery-init", "recover"},
         slots : SUBSET Slot, needle : Labels \cup Recipients \cup {None},
         proof : Recipients \cup {None}, force : BOOLEAN]

ASSUME KeyringAssumption ==
    /\ Recovery \in Labels
    /\ Secrets \in [Actors -> SUBSET Recipients]
    /\ Tasks \in [Actors -> SUBSET Task]
    /\ \A a \in Actors : \A task \in Tasks[a] :
          /\ task.op = "recover" => task.proof # None
          /\ task.slots = {} <=> task.op = "revoke"
          /\ \A x, y \in task.slots : x.label = y.label => x = y
    /\ Foundings \subseteq SUBSET Slot
    /\ \A slots \in Foundings : \A x, y \in slots : x.label = y.label => x = y
    /\ Founder \notin Actors
    /\ Conditional \in BOOLEAN
    /\ Flaky \subseteq Actors
    /\ None \notin Actors \cup Recipients \cup Labels \cup {Founder}
    /\ None \notin [label : Labels, to : Recipients \cup {None}]

Keys == Actors \cup {Founder}

VARIABLES
    repoPub,  \* the key whose public half repo.pub is, or None
    age,      \* age[l]: what the slot's .age object wraps, and to whom
    pub,      \* pub[l]: the recipient in the slot's .pub object, or None
    seal,     \* the object .keys/seal
    left,     \* left[a]: the tasks a has not begun
    pc,       \* pc[a]: the next call of its command
    job,      \* job[a]: the command and what it has read
    outcome,  \* outcome[a]: how its last command ended
    sure,     \* history: the commands that no other has overlapped, and that could
              \* read all they have sealed
    clean     \* history: the last command was sure to its end, and none has begun since

objects == <<repoPub, age, pub, seal>>
history == <<sure, clean>>
vars == <<objects, left, pc, job, outcome, history>>

Wrap == [key : Keys, to : Recipients]

NoWrap == [key |-> None, to |-> None]

(* What the seal covers of the slots: None without either object, "" (no    *)
(* recorded recipient) with only the .age object, else the .pub object.     *)
Covered == [Labels -> Recipients \cup {None, ""}]

SlotsRead(unread) ==
    [l \in Labels |-> IF pub[l] # None /\ l \notin unread THEN pub[l]
                      ELSE IF age[l] # NoWrap THEN "" ELSE None]

Recorded == {l \in Labels : pub[l] # None}

SlotView == SlotsRead({})

(* What Slots may return: it skips a .pub object that it cannot read, and *)
(* one that is cut short is as useless.                                   *)
Unread(a) == IF a \in Flaky THEN SUBSET Recorded ELSE {{}}

Views(a) == {SlotsRead(unread) : unread \in Unread(a)}

(* Any other object: as it is, or as if it were not there. *)
Got(a, object, nothing) == {object} \cup (IF a \in Flaky THEN {nothing} ELSE {})

NoView == [l \in Labels |-> None]

Seal == [by : Keys \cup {None}, repo : Keys \cup {None}, slots : Covered]

NoSeal == [by |-> None, repo |-> None, slots |-> NoView]

NoTask == [op |-> "grant", slots |-> {}, needle |-> None, proof |-> None, force |-> FALSE]

(* dek is the key in use, todo the slots to grant, at the slot at hand, read *)
(* the message of a seal and stored the seal to verify it against.           *)
NoJob == [task |-> NoTask, dek |-> None, todo |-> {}, at |-> None,
          repo |-> None, stored |-> NoSeal]

FoundedAge(slots) ==
    [l \in Labels |-> IF \E x \in slots : x.label = l
                      THEN [key |-> Founder, to |-> (CHOOSE x \in slots : x.label = l).to]
                      ELSE NoWrap]

Init ==
    /\ \E slots \in Foundings :
        /\ age = FoundedAge(slots)
        /\ pub = [l \in Labels |-> FoundedAge(slots)[l].to]
        /\ repoPub = IF slots = {} THEN None ELSE Founder
    /\ seal \in {NoSeal} \cup (IF repoPub = None THEN {}
                               ELSE {[by |-> Founder, repo |-> Founder, slots |-> pub]})
    /\ left = Tasks
    /\ pc = [a \in Actors |-> "idle"]
    /\ job = [a \in Actors |-> NoJob]
    /\ outcome = [a \in Actors |-> "none"]
    /\ sure = {}
    /\ clean = FALSE

-----------------------------------------------------------------------------
(* Control *)

(* The commands of the history variable "sure" are those in progress. *)
Start(a, task) ==
    /\ pc[a] = "idle"
    /\ task \in left[a]
    /\ left' = [left EXCEPT ![a] = @ \ {task}]
    /\ job' = [job EXCEPT ![a] = [NoJob EXCEPT !.task = task, !.todo = task.slots]]
    /\ pc' = [pc EXCEPT ![a] = IF task.op = "recover" THEN "unwrap" ELSE "repo pub"]
    /\ outcome' = [outcome EXCEPT ![a] = "none"]
    /\ sure' = {b \in {a} : \A c \in Actors : pc[c] = "idle"}
    /\ clean' = FALSE
    /\ UNCHANGED objects

Goto(a, label) == pc' = [pc EXCEPT ![a] = label] /\ UNCHANGED <<left, outcome, history>>

Continue(a, label) == Goto(a, label) /\ UNCHANGED job

(* On to the next call, with a seal that covers the keyring as it was read. *)
Read(a, label, right) ==
    /\ pc' = [pc EXCEPT ![a] = label]
    /\ sure' = IF right THEN sure ELSE sure \ {a}
    /\ UNCHANGED <<left, outcome, clean>>

End(a, how) ==
    /\ pc' = [pc EXCEPT ![a] = "idle"]
    /\ job' = [job EXCEPT ![a] = NoJob]
    /\ outcome' = [outcome EXCEPT ![a] = how]
    /\ clean' = (how = "ok" /\ a \in sure)
    /\ sure' = sure \ {a}
    /\ UNCHANGED left

Kill(a) ==
    /\ pc[a] # "idle"
    /\ End(a, "killed")
    /\ UNCHANGED objects

Op(a) == job[a].task.op

-----------------------------------------------------------------------------
(* Init *)

(* Only a first push, or setup, founds a keyring; the others need one. *)
RepoRecipient(a) ==
    /\ pc[a] = "repo pub"
    /\ \E there \in Got(a, repoPub, None) :
         IF there # None THEN Continue(a, "unwrap")
         ELSE IF Op(a) = "init" THEN Continue(a, "publish")
         ELSE End(a, "failed")
    /\ UNCHANGED objects

(* Slip: the last one to publish wins. *)
PublishAnyway(a) ==
    /\ pc[a] = "publish"
    /\ repoPub' = a
    /\ job' = [job EXCEPT ![a].dek = a]
    /\ Goto(a, "next slot")
    /\ UNCHANGED <<age, pub, seal>>

(* The create-only write decides a race; its loser joins as a member. *)
Publish(a) ==
    /\ pc[a] = "publish"
    /\ IF repoPub = None \/ ~Conditional
       THEN /\ repoPub' = a
            /\ job' = [job EXCEPT ![a].dek = a]
            /\ Goto(a, "next slot")
       ELSE repoPub' = repoPub /\ Continue(a, "unwrap")
    /\ UNCHANGED <<age, pub, seal>>

(* The identities that a command tries: those of the machine, or the *)
(* recovery secret that was entered.                                 *)
Identities(a) == IF Op(a) = "recover" THEN {job[a].task.proof} ELSE Secrets[a]

AfterUnwrap(op) ==
    CASE op = "recover" -> "next slot"
      [] op = "revoke" -> "find"
      [] OTHER -> "get seal"

(* Any slot wrapped to one of the identities will do.  A push that joins  *)
(* needs no more than the key.                                            *)
Unwrap(a) ==
    LET keys == {age[l].key : l \in {k \in Labels : age[k].to \in Identities(a)}}
    IN  /\ pc[a] = "unwrap"
        /\ IF keys = {} THEN End(a, "failed")
           ELSE IF Op(a) = "init" THEN End(a, "joined")
           ELSE \E key \in keys :
                  /\ job' = [job EXCEPT ![a].dek = key]
                  /\ Goto(a, AfterUnwrap(Op(a)))
        /\ UNCHANGED objects

-----------------------------------------------------------------------------
(* VerifySeal *)

(* Without a seal, or with one that cannot be read, nothing is verified. *)
GetSeal(a) ==
    /\ pc[a] = "get seal"
    /\ \E stored \in Got(a, seal, NoSeal) :
         /\ job' = [job EXCEPT ![a].stored = stored]
         /\ Goto(a, IF stored # NoSeal THEN "verify repo"
                    ELSE IF Op(a) = "recovery-init" THEN "prove" ELSE "next slot")
    /\ UNCHANGED objects

VerifyRepo(a) ==
    /\ pc[a] = "verify repo"
    /\ \E there \in Got(a, repoPub, None) : job' = [job EXCEPT ![a].repo = there]
    /\ Goto(a, "verify slots")
    /\ UNCHANGED objects

VerifySlots(a) ==
    /\ pc[a] = "verify slots"
    /\ \E view \in Views(a) :
         IF job[a].stored = [by |-> job[a].dek, repo |-> job[a].repo, slots |-> view]
         THEN Continue(a, IF Op(a) = "recovery-init" THEN "prove" ELSE "next slot")
         ELSE End(a, "seal mismatch")
    /\ UNCHANGED objects

(* A recovery key that exists is replaced only by who enters its secret, *)
(* unless forced.                                                        *)
Prove(a) ==
    /\ pc[a] = "prove"
    /\ \E view \in Views(a) :
         IF \/ view[Recovery] = None \/ job[a].task.force
            \/ view[Recovery] = job[a].task.proof
         THEN Continue(a, "next slot") ELSE End(a, "failed")
    /\ UNCHANGED objects

-----------------------------------------------------------------------------
(* Grant *)

NextSlot(a) ==
    /\ pc[a] = "next slot"
    /\ IF job[a].todo = {} THEN End(a, "ok") ELSE Continue(a, "put age")
    /\ UNCHANGED objects

PutAge(a, x) ==
    /\ pc[a] = "put age"
    /\ x \in job[a].todo
    /\ age' = [age EXCEPT ![x.label] = [key |-> job[a].dek, to |-> x.to]]
    /\ job' = [job EXCEPT ![a].todo = @ \ {x}, ![a].at = x]
    /\ Goto(a, "put pub")
    /\ UNCHANGED <<repoPub, pub, seal>>

(* Slip: the whole slot is written. *)
PutSlot(a) ==
    /\ pc[a] = "put pub"
    /\ pub' = [pub EXCEPT ![job[a].at.label] = job[a].at]
    /\ Continue(a, "seal repo")
    /\ UNCHANGED <<repoPub, age, seal>>

PutPub(a) ==
    /\ pc[a] = "put pub"
    /\ pub' = [pub EXCEPT ![job[a].at.label] = job[a].at.to]
    /\ Continue(a, "seal repo")
    /\ UNCHANGED <<repoPub, age, seal>>

-----------------------------------------------------------------------------
(* Revoke *)

(* The first slot of that label, or with that recipient recorded. *)
Find(a) ==
    /\ pc[a] = "find"
    /\ \E view \in Views(a) :
         LET found == {l \in Labels : view[l] # None /\ job[a].task.needle \in {l, view[l]}}
         IN  IF found = {} THEN End(a, "failed")
             ELSE \E l \in found :
                    /\ job' = [job EXCEPT ![a].at = [label |-> l, to |-> None]]
                    /\ Goto(a, "delete age")
    /\ UNCHANGED objects

(* Slip: the wrapped key stays. *)
KeepAge(a) ==
    /\ pc[a] = "delete age"
    /\ Continue(a, "delete pub")
    /\ UNCHANGED objects

DeleteAge(a) ==
    /\ pc[a] = "delete age"
    /\ age' = [age EXCEPT ![job[a].at.label] = NoWrap]
    /\ Continue(a, "delete pub")
    /\ UNCHANGED <<repoPub, pub, seal>>

DeletePub(a) ==
    /\ pc[a] = "delete pub"
    /\ pub' = [pub EXCEPT ![job[a].at.label] = None]
    /\ Continue(a, "seal repo")
    /\ UNCHANGED <<repoPub, age, seal>>

-----------------------------------------------------------------------------
(* Seal *)

(* What cannot be read is not sealed, and nothing tells. *)
SealRepo(a) ==
    /\ pc[a] = "seal repo"
    /\ \E there \in Got(a, repoPub, None) :
         /\ job' = [job EXCEPT ![a].repo = there]
         /\ Read(a, "seal slots", there = repoPub)
    /\ UNCHANGED objects

(* Slip: the seal is made over what was verified before the change. *)
SealAsStored(a) ==
    /\ pc[a] = "seal slots"
    /\ job' = [job EXCEPT ![a].stored.by = job[a].dek, ![a].stored.repo = job[a].repo]
    /\ Goto(a, "put seal")
    /\ UNCHANGED objects

SealSlots(a) ==
    /\ pc[a] = "seal slots"
    /\ \E view \in Views(a) :
         /\ job' = [job EXCEPT ![a].stored = [by |-> job[a].dek, repo |-> job[a].repo,
                                              slots |-> view]]
         /\ Read(a, "put seal", view = SlotView)
    /\ UNCHANGED objects

PutSeal(a) ==
    /\ pc[a] = "put seal"
    /\ seal' = job[a].stored
    /\ Continue(a, "next slot")
    /\ UNCHANGED <<repoPub, age, pub>>

-----------------------------------------------------------------------------
Command(a) ==
    \/ RepoRecipient(a) \/ Publish(a) \/ Unwrap(a)
    \/ GetSeal(a) \/ VerifyRepo(a) \/ VerifySlots(a) \/ Prove(a)
    \/ NextSlot(a) \/ (\E x \in Slot : PutAge(a, x)) \/ PutPub(a)
    \/ Find(a) \/ DeleteAge(a) \/ DeletePub(a)
    \/ SealRepo(a) \/ SealSlots(a) \/ PutSeal(a)

Next ==
    \E a \in Actors : (\E task \in left[a] : Start(a, task)) \/ Command(a) \/ Kill(a)

Spec == Init /\ [][Next]_vars

-----------------------------------------------------------------------------
(* Correctness *)

Granting == {"next slot", "put age", "put pub"}
Revoking == {"delete age", "delete pub"}
Sealing == {"seal repo", "seal slots", "put seal"}
Points ==
    {"idle", "repo pub", "publish", "unwrap", "get seal", "verify repo", "verify slots",
     "prove", "find"} \cup Granting \cup Revoking \cup Sealing

Job == [task : Task, dek : Keys \cup {None}, todo : SUBSET Slot,
        at : [label : Labels, to : Recipients \cup {None}] \cup {None},
        repo : Keys \cup {None}, stored : Seal]

(* Every variable stays in its type. *)
TypeOK ==
    /\ repoPub \in Keys \cup {None}
    /\ age \in [Labels -> Wrap \cup {NoWrap}]
    /\ pub \in [Labels -> Recipients \cup {None}]
    /\ seal \in Seal
    /\ left \in [Actors -> SUBSET Task]
    /\ pc \in [Actors -> Points]
    /\ job \in [Actors -> Job]
    /\ outcome \in [Actors -> {"none", "ok", "joined", "failed", "seal mismatch", "killed"}]
    /\ sure \subseteq Actors
    /\ clean \in BOOLEAN

(* All slots hold one key, the one repo.pub is the public half of, even if *)
(* several clones found the keyring at the same moment (keyring.go, Init:  *)
(* "exactly one wins").                                                    *)
OneKey == \A l \in Labels : age[l] # NoWrap => age[l].key = repoPub

SealMatches == seal = [by |-> repoPub, repo |-> repoPub, slots |-> SlotView]

(* A command that ran alone to its end, and could read what it sealed,      *)
(* leaves a seal that matches, whatever overlapping or killed commands and  *)
(* failed reads left before it and whichever of its own other reads failed, *)
(* so the next one is not refused (keyring.go, Seal; key.go, revoke         *)
(* "repairs the seal").                                                     *)
CleanIsSealed == clean => SealMatches

(* A keyring that was founded can be opened by somebody, once nobody is at *)
(* work on it (keyring.go, Init: "a crashed winner leaves a valid keyring, *)
(* not a stuck lock").                                                     *)
FoundedIsUsable ==
    repoPub # None /\ (\A a \in Actors : pc[a] = "idle") => \E l \in Labels : age[l] # NoWrap

(* The changes a command has yet to make to the list of who has access. *)
Missing(a) ==
    IF pc[a] = "delete age" THEN [l \in {job[a].at.label} |-> None]
    ELSE [l \in {x.label : x \in job[a].todo} |->
            (CHOOSE x \in job[a].todo : x.label = l).to]

Busy == {a \in Actors : pc[a] \in Granting \cup Revoking \cup Sealing}

Access == INSTANCE AccessList
              WITH Founding <- {[l \in Labels |-> FoundedAge(slots)[l].to] : slots \in Foundings},
                   access <- [l \in Labels |-> age[l].to],
                   asked <- Busy,
                   missing <- [a \in Actors |-> IF a \in Busy THEN Missing(a)
                                                ELSE [l \in {} |-> None]],
                   answer <- [a \in Actors |-> IF outcome[a] = "ok" THEN "ok" ELSE "none"]

(* Who has access changes label by label, as asked: a grant answered ok has *)
(* given access, a revoke answered ok has taken it, and no command touches  *)
(* a label that is not its own (keyring.go, Grant and Revoke).              *)
IsAccessList == Access!AccessSpec
=============================================================================
