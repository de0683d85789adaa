------------------------------ MODULE RefTable ------------------------------
(***************************************************************************)
(* The pure part of a push: ref tables, push commands, the fast-forward    *)
(* rule and the choice of HEAD.  It is shared by SnapshotRegister (what a  *)
(* remote promises) and PushProtocol (how helper sessions keep it).        *)
(*                                                                         *)
(* A commit stands for any git object a ref can point at.  Closure[c] is   *)
(* the set of objects its full history needs, c included, so "a is an      *)
(* ancestor of b" is a \in Closure[b].                                     *)
(***************************************************************************)
EXTENDS Integers, FiniteSets

CONSTANTS
    Refs,      \* the ref names
    Branches,  \* those under refs/heads/
    Rank,      \* order of the HEAD fallback: main, master, then by name
    Commits,   \* git objects
    Closure,   \* Closure[c]: c and everything reachable from it
    None       \* no object, no ref

ASSUME RefTableAssumption ==
    /\ Branches \subseteq Refs
    /\ Rank \in [Branches -> Nat]
    /\ \A a, b \in Branches : Rank[a] = Rank[b] => a = b
    /\ Closure \in [Commits -> SUBSET Commits]
    /\ \A c \in Commits : c \in Closure[c]
    /\ \A c \in Commits : \A d \in Closure[c] : Closure[d] \subseteq Closure[c]
    /\ None \notin Commits
    /\ None \notin Refs

(* A ref table: None marks a ref that does not exist. *)
Table == [Refs -> Commits \cup {None}]

EmptyTable == [r \in Refs |-> None]

Existing(table) == {r \in Refs : table[r] # None}

HeadName == Refs \cup {None}

(* Everything a clone needs to check out every ref of a table. *)
History(table) == UNION {Closure[table[r]] : r \in Existing(table)}

(* One "push [+]<src>:<dst>" line; src = None deletes the destination, for *)
(* which the + makes no difference.                                        *)
Command == [src : Commits, force : BOOLEAN] \cup [src : {None}, force : {FALSE}]

(* A batch holds at most one command per destination (git refuses more). *)
Batch == UNION {[D -> Command] : D \in SUBSET Refs}

NoUpdates == [r \in {} |-> None]

(* The check of one refspec against the table the session has read.  *)
(* "has" is the set of objects the pushing clone holds.              *)
Accepts(table, has, r, cmd) ==
    IF cmd.src = None
    THEN table[r] # None
    ELSE /\ cmd.src \in has
         /\ \/ table[r] \in {None, cmd.src}
            \/ cmd.force
            \/ table[r] \in has /\ table[r] \in Closure[cmd.src]

(* The updates that survive validation. *)
Survivors(table, has, batch) ==
    [r \in {q \in DOMAIN batch : Accepts(table, has, q, batch[q])} |-> batch[r]]

(* The new complete ref table: what the session read, with the updates. *)
(* (Slip: the update itself is stored, not the object it names.)        *)
AppliedWhole(table, updates) ==
    [r \in Refs |-> IF r \in DOMAIN updates THEN updates[r] ELSE table[r]]

Applied(table, updates) ==
    [r \in Refs |-> IF r \in DOMAIN updates THEN updates[r].src ELSE table[r]]

(* HEAD stays while its branch exists; otherwise the first pushed branch,  *)
(* in the order git sent them (any of them, here), takes its place.        *)
NewHeads(table, head, updates) ==
    LET pushed == {r \in DOMAIN updates \cap Branches : updates[r].src # None}
    IN  IF head \in Existing(table) THEN {head}
        ELSE IF pushed = {} THEN {None} ELSE pushed

(* The HEAD a listing advertises: the stored one unless it dangles. *)
PickHead(table, stored) ==
    LET born == Branches \cap Existing(table)
    IN  IF stored \in Existing(table) THEN stored
        ELSE IF born = {} THEN None
        ELSE CHOOSE r \in born : \A q \in born : Rank[r] <= Rank[q]
=============================================================================
