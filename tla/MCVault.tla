------------------------------- MODULE MCVault -------------------------------
(* A small instance of Vault.                                              *)
EXTENDS Vault, TLC

CONSTANTS ann, bob,                   \* machines
          annSlot, recoverySlot,      \* labels
          annKey, oldPaper, newPaper  \* public keys

MCActors == {ann, bob}
MCLabels == {annSlot, recoverySlot}
MCRecipients == {annKey, oldPaper, newPaper}
MCSecrets == (ann :> {annKey}) @@ (bob :> {annKey})

ForAnn == [label |-> annSlot, to |-> annKey]
OnPaper(k) == [label |-> recoverySlot, to |-> k]

(* Ann rotates.  Bob, who has access by a key they share, replaces the   *)
(* recovery key, takes it back, and recovers with the first one.         *)
Commands ==
    (ann :> {})
    @@ (bob :> {[NoTask EXCEPT !.op = "recovery-init", !.slots = {OnPaper(newPaper)},
                               !.proof = oldPaper],
                [NoTask EXCEPT !.op = "recover", !.slots = {ForAnn}, !.proof = oldPaper],
                [NoTask EXCEPT !.op = "revoke", !.needle = newPaper]})

Shared == {{ForAnn, OnPaper(oldPaper)}}
=============================================================================
