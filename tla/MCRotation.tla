----------------------------- MODULE MCRotation -----------------------------
(* Small instances of Rotation.                                             *)
EXTENDS Rotation, TLC

CONSTANTS r1, r2,              \* machines that rotate
          alice, bob, legacy,  \* slots; the last one has no recorded key
          q1, q2               \* pushes

OneRotator == {r1}
TwoRotators == {r1, r2}
AliceRotates == r1 :> alice
EachRotates == (r1 :> alice) @@ (r2 :> bob)
AllSlots == {alice, bob, legacy}
RecordedSlots == {alice, bob}
OnePush == {q1}
TwoPushes == {q1, q2}
BobPushes == q1 :> bob
EachPushes == (q1 :> alice) @@ (q2 :> bob)

(* A rotation is killed anywhere but while it switches; anywhere; nowhere. *)
Anywhere == RotatorPoints \ {"idle"}
OutsideSwitch == Anywhere \ Switching
Nowhere == {}
=============================================================================
