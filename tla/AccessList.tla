----------------------------- MODULE AccessList -----------------------------
(***************************************************************************)
(* What the keyring of a remote promises: a list of labels, each with the  *)
(* key it gives access to.  Commands change it label by label, and only    *)
(* the labels they were asked to; a command answered ok has made all its   *)
(* changes; one that dies has made some of them.                           *)
(***************************************************************************)
CONSTANTS
    Actors,      \* who changes the list
    Labels,      \* slot labels
    Recipients,  \* public keys
    None,        \* no key: the label is not in the list
    Founding     \* the lists to start from

VARIABLES
    access,   \* access[l]: who the label lets in
    asked,    \* the actors in the middle of a command
    missing,  \* missing[a]: the changes its command has yet to make
    answer    \* answer[a]: "ok" once its command has succeeded, else "none"

accessVars == <<access, asked, missing, answer>>

Change == UNION {[D -> Recipients \cup {None}] : D \in SUBSET Labels}

NoChange == [l \in {} |-> None]

AccessInit ==
    /\ access \in Founding
    /\ asked = {}
    /\ missing = [a \in Actors |-> NoChange]
    /\ answer = [a \in Actors |-> "none"]

(* A new command leaves the last answer behind. *)
Forget(a) ==
    /\ a \notin asked
    /\ answer' = [answer EXCEPT ![a] = "none"]
    /\ UNCHANGED <<access, asked, missing>>

Ask(a) ==
    /\ a \notin asked
    /\ asked' = asked \cup {a}
    /\ missing'[a] \in Change
    /\ missing' = [missing EXCEPT ![a] = missing'[a]]
    /\ UNCHANGED <<access, answer>>

Land(a, l) ==
    /\ a \in asked
    /\ l \in DOMAIN missing[a]
    /\ access' = [access EXCEPT ![l] = missing[a][l]]
    /\ missing' = [missing EXCEPT ![a] = [k \in DOMAIN @ \ {l} |-> @[k]]]
    /\ UNCHANGED <<asked, answer>>

Leave(a, how) ==
    /\ a \in asked
    /\ asked' = asked \ {a}
    /\ missing' = [missing EXCEPT ![a] = NoChange]
    /\ answer' = [answer EXCEPT ![a] = how]
    /\ UNCHANGED access

Succeed(a) == missing[a] = NoChange /\ Leave(a, "ok")

Die(a) == Leave(a, "none")

AccessNext ==
    \E a \in Actors :
        \/ Forget(a) \/ Ask(a)
        \/ \E l \in Labels : Land(a, l)
        \/ Succeed(a) \/ Die(a)

AccessSpec == AccessInit /\ [][AccessNext]_accessVars
=============================================================================
