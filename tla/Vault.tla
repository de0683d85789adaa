-------------------------------- MODULE Vault --------------------------------
(***************************************************************************)
(* The keyring while one machine rotates the repository key and the others *)
(* grant, revoke, replace the recovery key and recover.  The rotation      *)
(* re-wraps the slots it has listed one by one, publishes the new          *)
(* repo.pub and then makes the generation under the new key the active     *)
(* one; nothing keeps other commands out meanwhile.                        *)
(*                                                                         *)
(* Abstractions.  The new key bears the name of the machine that rotates,  *)
(* which does so once: Rotation has the data, the staged key, re-runs and  *)
(* rotations at the same time.  Of the data there is only the key that     *)
(* opens the active generation.  The keyring is there at the start.        *)
(***************************************************************************)
EXTENDS Keyring

CONSTANT Rotator  \* the machine that rotates

(* Without conditional writes, a first push that cannot read repo.pub puts *)
(* another key in its place.                                               *)
ASSUME VaultAssumption == Rotator \in Actors /\ {} \notin Foundings /\ Conditional

VARIABLES
    active,    \* the key that opens the active generation
    rotation,  \* how far the rotation is
    hands,     \* history: who has written an object of the slot since it was whole
    missed     \* history: slots the rotation has not seen as they are

atRisk == <<hands, missed>>
vaultVars == <<vars, active, rotation, atRisk>>

VaultInit ==
    /\ Init
    /\ active = Founder
    /\ rotation = "before"
    /\ hands = [l \in Labels |-> {}]
    /\ missed = {}

Rotating == rotation \in {"verify", "wrap", "publish"}

-----------------------------------------------------------------------------
(* Slots at risk *)

(* The slot of which a command has written one object of two. *)
HalfWritten(a) == {l \in Labels : pc[a] \in {"put pub", "delete pub"} /\ job[a].at.label = l}

(* A command writes the first object of a slot, and the second. *)
Opens(a, l) ==
    /\ pc[a] \in {"put age", "delete age"} /\ pc'[a] \in {"put pub", "delete pub"}
    /\ job'[a].at.label = l

Closes(a, l) ==
    /\ pc[a] \in {"put pub", "delete pub"} /\ pc'[a] = "seal repo"
    /\ job[a].at.label = l

(* A slot is whole again once a command has written both objects and no *)
(* other has had it in hand meanwhile.                                  *)
Handle(a) ==
    hands' = [l \in Labels |->
                 IF Opens(a, l) THEN {a} \cup {b \in Actors : l \in HalfWritten(b)}
                 ELSE IF Closes(a, l) /\ hands[l] = {a} THEN {} ELSE hands[l]]

(* The rotation misses what others write after it has listed the slots, and *)
(* what they write later with a key that is not the one in force.           *)
Miss(a) ==
    LET opened == {l \in Labels : Opens(a, l)}
    IN  missed' = IF /\ ~(a = Rotator /\ Rotating)
                     /\ rotation \in {"wrap", "publish"} \/ job[a].dek # active
                  THEN missed \cup opened ELSE missed \ opened

-----------------------------------------------------------------------------
(* The rotation: the steps it shares with the other commands, and its own *)

(* A rotation has no slots of its own to grant, and verifies as a grant does. *)
StartRotation ==
    /\ rotation = "before"
    /\ pc[Rotator] = "idle"
    /\ rotation' = "verify"
    /\ job' = [job EXCEPT ![Rotator] = NoJob]
    /\ pc' = [pc EXCEPT ![Rotator] = "repo pub"]
    /\ outcome' = [outcome EXCEPT ![Rotator] = "none"]
    /\ sure' = {b \in {Rotator} : \A c \in Actors : pc[c] = "idle"}
    /\ clean' = FALSE
    /\ UNCHANGED <<objects, left, active, atRisk>>

(* The key is unwrapped, the seal verified, a slot granted. *)
SharedStep ==
    /\ Rotating
    /\ \/ RepoRecipient(Rotator) \/ Unwrap(Rotator)
       \/ GetSeal(Rotator) \/ VerifyRepo(Rotator) \/ VerifySlots(Rotator)
       \/ (\E x \in Slot : PutAge(Rotator, x)) \/ PutPub(Rotator)
       \/ SealRepo(Rotator) \/ SealSlots(Rotator) \/ PutSeal(Rotator)
       \/ Kill(Rotator)
    /\ rotation' = IF pc'[Rotator] = "idle" THEN "over" ELSE rotation
    /\ Handle(Rotator) /\ Miss(Rotator)
    /\ UNCHANGED active

(* The slots to re-wrap are those whose recorded recipient can be read. *)
List(slots) ==
    /\ rotation = "verify"
    /\ pc[Rotator] = "next slot"
    /\ rotation' = "wrap"
    /\ job' = [job EXCEPT ![Rotator].dek = Rotator, ![Rotator].todo = slots]
    /\ missed' = {l \in Labels : \/ hands[l] # {}
                                 \/ age[l] # NoWrap /\ l \notin {x.label : x \in slots}}
    /\ UNCHANGED <<objects, left, pc, outcome, history, active, hands>>

(* Slip: if there is a seal, the slots are those that it covers. *)
ListSealed ==
    LET listed == IF seal = NoSeal THEN pub ELSE seal.slots
    IN  List({[label |-> l, to |-> listed[l]] : l \in {k \in Labels : listed[k] \in Recipients}})

(* A slot without recorded recipient, or whose record cannot be read, is *)
(* passed over.                                                          *)
ListSlots ==
    \E unread \in Unread(Rotator) :
        List({[label |-> l, to |-> pub[l]] : l \in Recorded \ unread})

Rewrap ==
    /\ rotation = "wrap"
    /\ pc[Rotator] = "next slot"
    /\ job[Rotator].todo # {}
    /\ Continue(Rotator, "put age")
    /\ UNCHANGED <<objects, active, rotation, atRisk>>

(* Slips: a slot that cannot be re-wrapped does not end the rotation; the   *)
(* keyring is not sealed again.                                            *)
SetRepoKeyAnyway ==
    /\ rotation = "wrap"
    /\ pc[Rotator] = "next slot"
    /\ repoPub' = Rotator
    /\ rotation' = "publish"
    /\ Continue(Rotator, "seal repo")
    /\ UNCHANGED <<age, pub, seal, active, atRisk>>

SetRepoKeyOnly ==
    /\ rotation = "wrap"
    /\ pc[Rotator] = "next slot"
    /\ job[Rotator].todo = {}
    /\ repoPub' = Rotator
    /\ rotation' = "publish"
    /\ Continue(Rotator, "next slot")
    /\ UNCHANGED <<age, pub, seal, active, atRisk>>

SetRepoKey ==
    /\ rotation = "wrap"
    /\ pc[Rotator] = "next slot"
    /\ job[Rotator].todo = {}
    /\ repoPub' = Rotator
    /\ rotation' = "publish"
    /\ Continue(Rotator, "seal repo")
    /\ UNCHANGED <<age, pub, seal, active, atRisk>>

Flip ==
    /\ rotation = "publish"
    /\ pc[Rotator] = "next slot"
    /\ active' = Rotator
    /\ rotation' = "over"
    /\ End(Rotator, "ok")
    /\ UNCHANGED <<objects, atRisk>>

-----------------------------------------------------------------------------
Other(a) ==
    /\ ~(a = Rotator /\ Rotating)
    /\ (\E task \in left[a] : Start(a, task)) \/ Command(a) \/ Kill(a)
    /\ Handle(a) /\ Miss(a)
    /\ UNCHANGED <<active, rotation>>

VaultNext ==
    \/ StartRotation \/ SharedStep \/ ListSlots \/ Rewrap \/ SetRepoKey \/ Flip
    \/ \E a \in Actors : Other(a)

VaultSpec == VaultInit /\ [][VaultNext]_vaultVars

-----------------------------------------------------------------------------
(* Correctness *)

(* Every variable stays in its type. *)
VaultTypeOK ==
    /\ TypeOK
    /\ repoPub # None
    /\ active \in {Founder, Rotator}
    /\ rotation \in {"before", "verify", "wrap", "publish", "over"}
    /\ hands \in [Labels -> SUBSET Actors]
    /\ missed \subseteq Labels

(* Once the active generation is under the new key, every slot opens it,   *)
(* those granted later included.  Four kinds are excepted (missed): a slot *)
(* whose recipient was not recorded, or could not be read, when the        *)
(* rotation listed the slots; one that another command wrote after that,   *)
(* unless the rotation re-wrapped it later still; one in the middle of     *)
(* which a command was or had died then, until it is re-wrapped; and one   *)
(* that was written after the flip with the key that the flip replaced     *)
(* (rotation.go, RewrapKeys).                                              *)
KeptByRotation ==
    rotation = "over" /\ active = Rotator =>
        \A l \in Labels \ missed : age[l] # NoWrap => age[l].key = active

(* The recipient recorded for a slot is the one its key is wrapped to, so  *)
(* that a rotation re-wraps for who has access, the seal covers who has    *)
(* access, and recovery-init asks for the secret that is in force.  If two *)
(* commands had the slot in hand at once, or one died between its objects, *)
(* that is so again from the next command that has it to itself            *)
(* (keyring.go, Grant and Revoke).                                         *)
AsRecorded == \A l \in Labels : hands[l] = {} => pub[l] = age[l].to

(* A rotation re-wraps a slot for the recipient that could open it before, *)
(* if the slot was whole when the rotation listed the slots and no other   *)
(* command has written it since: only then does it give nobody access who  *)
(* had none, and take nobody's (rotation.go, RewrapKeys).                  *)
SameAccess ==
    [][Rotating /\ pc[Rotator] = "put age" /\ pc'[Rotator] = "put pub" =>
         \A l \in Labels \ missed : age'[l].to = age[l].to]_vaultVars

(* A command that ran alone to its end, a rotation too, and could read what *)
(* it sealed, leaves a seal over what is there, whatever others left before *)
(* it.  The key of the seal is the one of repo.pub before any rotation, and *)
(* after one that is complete and has missed no slot, so that who opens any *)
(* slot is not refused (keyring.go, Seal; SetRepoKey "re-seals the keyring  *)
(* under the same DEK").                                                    *)
CleanIsCovered ==
    clean =>
        /\ seal.repo = repoPub /\ seal.slots = SlotView
        /\ rotation = "before" \/ (active = Rotator /\ missed = {}) => seal.by = repoPub
=============================================================================
