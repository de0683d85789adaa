----------------------------- MODULE MCKeyring -----------------------------
(* Small instances of Keyring.                                             *)
EXTENDS Keyring, TLC

CONSTANTS ann, bob,           \* machines
          annSlot, bobSlot, recoverySlot,  \* labels
          annKey, bobKey, oldPaper, newPaper  \* public keys

MCActors == {ann, bob}
MCLabels == {annSlot, bobSlot, recoverySlot}
MCRecipients == {annKey, bobKey, oldPaper, newPaper}
MCSecrets == (ann :> {annKey}) @@ (bob :> {bobKey})

ForAnn == [label |-> annSlot, to |-> annKey]
ForBob == [label |-> bobSlot, to |-> bobKey]
OnPaper(k) == [label |-> recoverySlot, to |-> k]

Give(kind, slots) == [NoTask EXCEPT !.op = kind, !.slots = slots]
RevokeOf(n) == [NoTask EXCEPT !.op = "revoke", !.needle = n]
Replace(k, force) ==
    [NoTask EXCEPT !.op = "recovery-init", !.slots = {OnPaper(newPaper)},
                   !.proof = k, !.force = force]
RecoverBy(k, x) == [NoTask EXCEPT !.op = "recover", !.slots = {x}, !.proof = k]

(* Both may found the keyring.  Ann replaces the recovery key and revokes *)
(* Bob, who recovers.                                                     *)
AllTasks ==
    (ann :> {Give("init", {ForAnn}), Replace(oldPaper, FALSE), RevokeOf(bobKey)})
    @@ (bob :> {Give("init", {ForBob}), RecoverBy(oldPaper, ForBob)})
OnlyFound == (ann :> {Give("init", {ForAnn})}) @@ (bob :> {Give("init", {ForBob})})

Fresh == {{}}
FreshOrShared == {{}, {ForAnn, OnPaper(oldPaper)}}
=============================================================================
