------------------------------- MODULE MCPush -------------------------------
(* Small instances of PushProtocol.                                         *)
EXTENDS PushProtocol, TLC

CONSTANTS s1, s2,                     \* sessions
          main, dev,                  \* refs
          base, left, right           \* commits

MCSessions == {s1, s2}
TwoRefs == {main, dev}
RankTwo == (main :> 0) @@ (dev :> 1)

(* One commit; two in a line; two unrelated ones. *)
Solo == {base}
SoloClosure == base :> {base}
Line == {base, left}
LineClosure == (base :> {base}) @@ (left :> {base, left})
Roots == {left, right}
RootsClosure == (left :> {left}) @@ (right :> {right})

(* What each clone holds at the start, and what its user commits later. *)
EachBase == [s \in MCSessions |-> {base}]
OneAhead == (s1 :> {base, left}) @@ (s2 :> {base})
OnlyFirst == (s1 :> {left}) @@ (s2 :> {})
Nothing == [s \in MCSessions |-> {}]
SecondCommits == (s1 :> {}) @@ (s2 :> {right})

FreshRemote == [refs |-> EmptyTable, head |-> None]
OldRemote(c) == [refs |-> [EmptyTable EXCEPT ![main] = c], head |-> main]
Fresh == {FreshRemote}
FreshOrOld == {FreshRemote, OldRemote(base)}
Ahead == {OldRemote(left)}
=============================================================================
