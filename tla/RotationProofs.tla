--------------------------- MODULE RotationProofs ---------------------------
(***************************************************************************)
(* Theorems about Rotation for every set of machines, slots and pushes and *)
(* every number of runs.                                                   *)
(***************************************************************************)
EXTENDS Rotation, FiniteSetTheorems, TLAPS

-----------------------------------------------------------------------------
(* Types *)

(* The points before the flip, and of these the ones after the pointer was *)
(* read, and after the next key was chosen.                                *)
Reading == {"pointer etag", "pointer"}
Planned ==
    {"staged", "stage", "sweep list", "sweep", "open source", "open target", "load etag",
     "load", "copy", "check", "target etag", "save", "verify seal"} \cup Switching
Unflipped == Reading \cup Planned
Keyed == (Planned \ {"staged"}) \cup {"clean repo", "clean state", "clean staged"}

(* A rotation has its number and the old key from its start on, and the new *)
(* key from the point where it is staged.                                   *)
RunInv ==
    /\ staged # NoStaged => staged.key \in Keys
    /\ \A r \in Rotators :
         /\ pc[r] # "idle" => rot[r].run \in 1..runs /\ rot[r].dekOld \in Keys
         /\ pc[r] \in Keyed => rot[r].dekNew \in Keys
    /\ \A q \in Pushes : step[q] \notin {"idle", "ok"} => sess[q].key \in Keys

(* No two rotations have one number. *)
OneRunEach ==
    \A r, s \in Rotators :
        pc[r] # "idle" /\ pc[s] # "idle" /\ rot[r].run = rot[s].run => r = s

(* The runs that have yet to move the pointer. *)
OpenRuns == {rot[r].run : r \in {s \in Rotators : pc[s] \in Unflipped}}

(* What a rotation has read of the pointer is the pointer or older, and it  *)
(* aims at the generation after the one it read.                            *)
Behind(j) == j.pointerETag <= pointer

Aimed(j) ==
    /\ j.NextGen = j.CurGen + 1
    /\ pointer = j.pointerETag => j.CurGen = Active

(* Each run moves the pointer by one at most: it has not run ahead of them, *)
(* and there is room for the generation that a run is to build.             *)
PointerInv ==
    /\ Active + Cardinality(OpenRuns) <= runs + 1
    /\ \A r \in Rotators :
         /\ pc[r] \in Unflipped => Behind(rot[r])
         /\ pc[r] \in Planned => Aimed(rot[r])

TypeInv == TypeOK /\ RunInv /\ OneRunEach /\ PointerInv

(* There is a first run, a first generation and a first key. *)
LEMMA Firsts ==
    /\ 1 \in Gens /\ 1 \in Keys /\ 0 \notin Gens /\ 0 \notin Keys
    /\ NewRotator \in Rotator /\ NewSession \in Session
    /\ NoState \in State /\ NoState.has = {} /\ NoState.by = 0 /\ NoState.tag = None
<1>1. MaxRuns \in Nat /\ MaxRounds \in Nat \ {0}
    BY RotationAssumption
<1>2. 1 \in Gens /\ 1 \in Keys /\ 0 \notin Gens /\ 0 \notin Keys
    BY <1>1 DEF Gens, Keys
<1>3. NewRotator \in Rotator
    BY <1>1, <1>2 DEF NewRotator, Rotator, Tag
<1>4. NewSession \in Session
    BY <1>2 DEF NewSession, Session, Tag
<1>5. NoState \in State /\ NoState.has = {} /\ NoState.by = 0 /\ NoState.tag = None
    BY <1>1 DEF NoState, State, Tag
<1>6. QED
    BY <1>2, <1>3, <1>4, <1>5

(* The start is well typed. *)
LEMMA TypeInit == Init => TypeInv
<1> SUFFICES ASSUME Init PROVE TypeInv
    OBVIOUS
<1>1. MaxRuns \in Nat
    BY RotationAssumption
<1>2. [by |-> 1, has |-> {}, tag |-> 0] \in State
    BY <1>1 DEF State, Tag
<1>3. TypeOK
    BY <1>1, <1>2, Firsts DEF Init, TypeOK, NoStaged, RotatorPoints
<1>4. \A r \in Rotators : pc[r] = "idle"
    BY DEF Init
<1>5. RunInv /\ OneRunEach
    BY <1>4 DEF Init, RunInv, OneRunEach, Keyed, Planned, Switching
<1>6. OpenRuns = {}
    BY <1>4 DEF OpenRuns, Unflipped, Reading, Planned, Switching
<1>7. PointerInv
    BY <1>4, <1>6, FS_EmptySet
       DEF Init, PointerInv, Active, FirstGeneration, Unflipped, Reading, Planned, Switching
<1>8. QED
    BY <1>3, <1>5, <1>7 DEF TypeInv

(* What is counted. *)
LEMMA Numbers ==
    ASSUME TypeInv
    PROVE  /\ MaxRuns \in Nat /\ runs \in Nat /\ runs <= MaxRuns
           /\ pointer \in Nat /\ Active \in Nat /\ Active \in Gens /\ pointer <= Active
           /\ \A r \in Rotators : rot[r].pointerETag \in Nat /\ rot[r].run \in Nat
<1>1. MaxRuns \in Nat
    BY RotationAssumption
<1>2. runs \in 0..MaxRuns /\ pointer \in {0} \cup Gens
    BY DEF TypeInv, TypeOK
<1>3. Active \in Gens /\ pointer <= Active /\ pointer \in Nat
    BY <1>1, <1>2 DEF Active, FirstGeneration, Gens
<1>4. ASSUME NEW r \in Rotators PROVE rot[r].pointerETag \in Nat /\ rot[r].run \in Nat
    <2>1. rot[r].pointerETag \in {0} \cup Gens /\ rot[r].run \in 0..MaxRuns
        BY DEF TypeInv, TypeOK, Rotator
    <2>2. QED
        BY <1>1, <2>1 DEF Gens
<1>5. QED
    BY <1>1, <1>2, <1>3, <1>4 DEF Gens

(* The runs that have yet to move the pointer are a finite set. *)
LEMMA OpenRunsFinite ==
    ASSUME TypeInv
    PROVE  /\ OpenRuns \subseteq 1..runs
           /\ IsFiniteSet(OpenRuns)
           /\ Cardinality(OpenRuns) \in Nat
<1>1. runs \in Nat
    BY RotationAssumption DEF TypeInv, TypeOK
<1>2. OpenRuns \subseteq 1..runs
    BY DEF TypeInv, RunInv, OpenRuns, Unflipped, Reading, Planned, Switching
<1>3. IsFiniteSet(1..runs)
    BY <1>1, FS_Interval
<1>4. IsFiniteSet(OpenRuns)
    BY <1>2, <1>3, FS_Subset
<1>5. QED
    BY <1>2, <1>4, FS_CardinalityType

(* The others are where they were. *)
OthersWait(r) == \A s \in Rotators \ {r} : pc'[s] = pc[s] /\ rot'[s] = rot[s]

(* What a step of one rotation does to the runs that have yet to move it. *)
LEMMA OpenRunsStep ==
    ASSUME TypeInv, NEW r \in Rotators, OthersWait(r)
    PROVE  /\ rot'[r].run = rot[r].run /\ (pc'[r] \in Unflipped <=> pc[r] \in Unflipped)
                => OpenRuns' = OpenRuns
           /\ pc[r] \in Unflipped /\ pc'[r] \notin Unflipped
                => OpenRuns' = OpenRuns \ {rot[r].run}
           /\ pc[r] \notin Unflipped /\ pc'[r] \notin Unflipped => OpenRuns' = OpenRuns
           /\ pc[r] \notin Unflipped /\ pc'[r] \in Unflipped
                => OpenRuns' = OpenRuns \cup {rot'[r].run}
<1>1. \A s \in Rotators : pc[s] \in Unflipped => pc[s] # "idle"
    BY DEF Unflipped, Reading, Planned, Switching
<1>2. \A s, t \in Rotators :
          pc[s] \in Unflipped /\ pc[t] \in Unflipped /\ rot[s].run = rot[t].run => s = t
    BY <1>1 DEF TypeInv, OneRunEach
<1> HIDE DEF Unflipped
<1>3. \A n : n \in OpenRuns <=> \E s \in Rotators : pc[s] \in Unflipped /\ rot[s].run = n
    BY DEF OpenRuns
<1>4. \A n : n \in OpenRuns' <=> \E s \in Rotators : pc'[s] \in Unflipped /\ rot'[s].run = n
    BY DEF OpenRuns
<1>5. ASSUME rot'[r].run = rot[r].run, pc'[r] \in Unflipped <=> pc[r] \in Unflipped
      PROVE  OpenRuns' = OpenRuns
    <2>1. \A s \in Rotators : /\ pc'[s] \in Unflipped <=> pc[s] \in Unflipped
                              /\ rot'[s].run = rot[s].run
        BY <1>5 DEF OthersWait
    <2>2. QED
        BY <2>1 DEF OpenRuns
<1>6. ASSUME pc[r] \in Unflipped, pc'[r] \notin Unflipped
      PROVE  OpenRuns' = OpenRuns \ {rot[r].run}
    BY <1>2, <1>3, <1>4, <1>6 DEF OthersWait
<1>7. ASSUME pc[r] \notin Unflipped, pc'[r] \notin Unflipped PROVE OpenRuns' = OpenRuns
    <2>1. {t \in Rotators : pc'[t] \in Unflipped} = {t \in Rotators : pc[t] \in Unflipped}
        BY <1>7 DEF OthersWait
    <2>2. \A t \in Rotators : pc[t] \in Unflipped => rot'[t].run = rot[t].run
        BY <1>7 DEF OthersWait
    <2>3. QED
        BY <2>1, <2>2 DEF OpenRuns
<1>8. ASSUME pc[r] \notin Unflipped, pc'[r] \in Unflipped
      PROVE  OpenRuns' = OpenRuns \cup {rot'[r].run}
    BY <1>3, <1>4, <1>8 DEF OthersWait
<1>9. QED
    BY <1>5, <1>6, <1>7, <1>8

(* The objects that one rotation writes, and the session variables, have     *)
(* their types.                                                              *)
Typed ==
    /\ repo \in [Gens -> {0} \cup Keys]
    /\ state \in [Gens -> State]
    /\ slot \in [Slots -> Keys]
    /\ repoPub \in Keys
    /\ seal \in [by : Keys, repo : Keys] \cup {NoSeal}
    /\ staged \in [key : {0} \cup Keys, under : {0} \cup Keys]
    /\ staged # NoStaged => staged.key \in Keys

(* A rotation going on to its next call, short of the flip or after it. *)
LEMMA TypeMove ==
    ASSUME TypeInv, NEW r \in Rotators, NEW p \in RotatorPoints, NEW j \in Rotator,
           pc[r] # "idle", p # "idle", p \in Unflipped <=> pc[r] \in Unflipped,
           rot' = [rot EXCEPT ![r] = j], Goto(r, p),
           UNCHANGED <<pointer, runs, pushing>>, Typed',
           j.run = rot[r].run, j.dekOld = rot[r].dekOld, p \in Keyed => j.dekNew \in Keys,
           p \in Unflipped => Behind(j), p \in Planned => Aimed(j)
    PROVE  TypeInv'
<1>1. /\ pc' \in [Rotators -> RotatorPoints]
      /\ rot' \in [Rotators -> Rotator]
      /\ pc'[r] = p /\ rot'[r] = j
      /\ OthersWait(r)
    BY DEF TypeInv, TypeOK, Goto, OthersWait
<1>2. TypeOK'
    BY <1>1 DEF TypeInv, TypeOK, Typed, Goto, pushing
<1>3. RunInv'
    BY <1>1 DEF TypeInv, RunInv, Typed, OthersWait, pushing
<1>4. OneRunEach'
    BY <1>1 DEF TypeInv, OneRunEach, OthersWait
<1>5. OpenRuns' = OpenRuns /\ Active' = Active
    BY <1>1, OpenRunsStep DEF Active
<1>6. PointerInv'
    BY <1>1, <1>5 DEF TypeInv, PointerInv, OthersWait, Behind, Aimed
<1>7. QED
    BY <1>2, <1>3, <1>4, <1>6 DEF TypeInv

(* A rotation ending. *)
LEMMA TypeEnd ==
    ASSUME TypeInv, NEW r \in Rotators, NEW how \in {"done", "failed", "killed"},
           End(r, how), UNCHANGED <<pointer, runs, pushing>>, Typed'
    PROVE  TypeInv'
<1>1. /\ pc' \in [Rotators -> RotatorPoints]
      /\ rot' \in [Rotators -> Rotator]
      /\ outcome' \in [Rotators -> {"none", "done", "failed", "killed"}]
      /\ pc'[r] = "idle"
      /\ OthersWait(r)
    BY Firsts DEF TypeInv, TypeOK, End, OthersWait, RotatorPoints
<1>2. TypeOK'
    BY <1>1 DEF TypeInv, TypeOK, Typed, pushing
<1>3. pc'[r] \notin Unflipped /\ pc'[r] \notin Planned /\ pc'[r] \notin Keyed
    BY <1>1 DEF Unflipped, Reading, Planned, Switching, Keyed
<1>4. RunInv' /\ OneRunEach'
    BY <1>1, <1>3 DEF TypeInv, RunInv, OneRunEach, Typed, OthersWait, pushing
<1>5. Cardinality(OpenRuns') <= Cardinality(OpenRuns) /\ Cardinality(OpenRuns') \in Nat
    <2>1. OpenRuns' = OpenRuns \/ OpenRuns' = OpenRuns \ {rot[r].run}
        BY <1>1, <1>3, OpenRunsStep
    <2>2. IsFiniteSet(OpenRuns) /\ Cardinality(OpenRuns) \in Nat
        BY OpenRunsFinite
    <2>3. /\ IsFiniteSet(OpenRuns \ {rot[r].run})
          /\ Cardinality(OpenRuns \ {rot[r].run}) \in {Cardinality(OpenRuns), Cardinality(OpenRuns) - 1}
        BY <2>2, FS_RemoveElement
    <2>4. Cardinality(OpenRuns \ {rot[r].run}) \in Nat
        BY <2>3, FS_CardinalityType
    <2>5. QED
        BY <2>1, <2>2, <2>3, <2>4
<1>6. Active' = Active /\ Active \in Nat /\ runs \in Nat
    BY RotationAssumption DEF Active, FirstGeneration, TypeInv, TypeOK, Gens
<1>7. Active' + Cardinality(OpenRuns') <= runs' + 1
    BY <1>5, <1>6, OpenRunsFinite DEF TypeInv, PointerInv
<1>8. PointerInv'
    BY <1>1, <1>3, <1>6, <1>7 DEF TypeInv, PointerInv, OthersWait, Behind, Aimed
<1>9. QED
    BY <1>2, <1>4, <1>8 DEF TypeInv

(* The same for a step after which the locals are as they were. *)
LEMMA TypeContinue ==
    ASSUME TypeInv, NEW r \in Rotators, NEW p \in RotatorPoints,
           pc[r] # "idle", p # "idle", p \in Unflipped <=> pc[r] \in Unflipped,
           p \in Planned => pc[r] \in Planned, p \in Keyed => rot[r].dekNew \in Keys,
           Continue(r, p), UNCHANGED <<pointer, runs, pushing>>, Typed'
    PROVE  TypeInv'
<1>1. rot' = [rot EXCEPT ![r] = rot[r]] /\ Goto(r, p) /\ rot[r] \in Rotator
    BY DEF Continue, TypeInv, TypeOK
<1>2. /\ p \in Unflipped => Behind(rot[r])
      /\ p \in Planned => Aimed(rot[r])
    BY DEF TypeInv, PointerInv
<1>3. QED
    BY <1>1, <1>2, TypeMove

(* A rotation that starts. *)
LEMMA TypeStart == ASSUME TypeInv, NEW r \in Rotators, Start(r) PROVE TypeInv'
<1> DEFINE j == [NewRotator EXCEPT !.run = runs + 1, !.dekOld = slot[Owner[r]]]
<1>1. /\ pc[r] = "idle" /\ rot' = [rot EXCEPT ![r] = j]
      /\ pc' = [pc EXCEPT ![r] = "pointer etag"]
      /\ outcome' = [outcome EXCEPT ![r] = "none"]
      /\ UNCHANGED <<bucket, pushing>>
    BY DEF Start
<1>2. runs \in Nat /\ MaxRuns \in Nat /\ slot[Owner[r]] \in Keys
    BY Numbers, RotationAssumption DEF TypeInv, TypeOK
<1>n. runs < MaxRuns /\ runs' = runs + 1
    BY DEF Start
<1>3. runs' \in 0..MaxRuns /\ runs + 1 \in 0..MaxRuns
    BY <1>n, <1>2
<1>4. /\ j \in Rotator /\ j.run = runs + 1 /\ j.dekOld \in Keys
      /\ j.pointerETag = NewRotator.pointerETag
    BY <1>2, <1>3, Firsts DEF Rotator
<1>5. j.pointerETag = 0
    BY <1>4 DEF NewRotator
<1> HIDE DEF j
<1>6. /\ pc' \in [Rotators -> RotatorPoints]
      /\ rot' \in [Rotators -> Rotator]
      /\ outcome' \in [Rotators -> {"none", "done", "failed", "killed"}]
    BY <1>1, <1>4 DEF TypeInv, TypeOK, RotatorPoints
<1>7. pc'[r] = "pointer etag" /\ OthersWait(r)
    BY <1>1 DEF TypeInv, TypeOK, OthersWait
<1>j. rot'[r] = j
    BY <1>1 DEF TypeInv, TypeOK
<1>8. TypeOK'
    BY <1>1, <1>3, <1>6 DEF TypeInv, TypeOK, bucket, pushing
<1>9. /\ pc'[r] \in Unflipped /\ pc'[r] \notin Planned /\ pc'[r] \notin Keyed
      /\ pc[r] \notin Unflipped
    BY <1>1, <1>7 DEF Unflipped, Reading, Planned, Switching, Keyed
<1>10. RunInv'
    <2>1. rot'[r].run \in 1..runs' /\ rot'[r].dekOld \in Keys
        BY <1>n, <1>2, <1>4, <1>j
    <2>m. runs <= runs' /\ runs \in Nat /\ runs' \in Nat
        BY <1>n, <1>2
    <2>2. \A s \in Rotators : pc[s] # "idle" => rot[s].run \in 1..runs'
        BY <2>m DEF TypeInv, RunInv
    <2>3. QED
        BY <1>1, <1>7, <1>9, <2>1, <2>2
           DEF TypeInv, RunInv, OthersWait, bucket, pushing
<1>11. OneRunEach'
    <2>1. \A s \in Rotators : pc[s] # "idle" => rot[s].run \in 1..runs
        BY DEF TypeInv, RunInv
    <2>2. \A s \in Rotators : pc[s] # "idle" => rot[s].run # rot'[r].run
        BY <1>2, <1>4, <1>j, <2>1
    <2>3. QED
        BY <1>7, <2>2 DEF TypeInv, OneRunEach, OthersWait
<1>12. Cardinality(OpenRuns') = Cardinality(OpenRuns) + 1
    <2>1. OpenRuns' = OpenRuns \cup {runs + 1}
        BY <1>4, <1>j, <1>7, <1>9, OpenRunsStep
    <2>2. runs + 1 \notin OpenRuns
        BY <1>2, OpenRunsFinite
    <2>3. QED
        BY <2>1, <2>2, OpenRunsFinite, FS_AddElement
<1>13. Active' = Active /\ Active \in Nat /\ pointer \in Nat /\ pointer' = pointer
    BY <1>1, Numbers DEF bucket, Active
<1>14. Active' + Cardinality(OpenRuns') <= runs' + 1
    <2>1. Active + Cardinality(OpenRuns) <= runs + 1 /\ Cardinality(OpenRuns) \in Nat
        BY OpenRunsFinite DEF TypeInv, PointerInv
    <2>2. QED
        BY <1>n, <1>2, <1>12, <1>13, <2>1
<1>15. PointerInv'
    <2>1. Behind(rot[r])'
        BY <1>5, <1>j, <1>13 DEF Behind
    <2>2. QED
        BY <1>7, <1>9, <1>13, <1>14, <2>1 DEF TypeInv, PointerInv, OthersWait, Behind, Aimed
<1>16. QED
    BY <1>8, <1>10, <1>11, <1>15 DEF TypeInv

(* There is room for the generation after the active one. *)
LEMMA RoomForNext ==
    ASSUME TypeInv, NEW r \in Rotators, pc[r] \in Unflipped
    PROVE  Active \in Gens /\ Active + 1 \in Gens /\ pointer <= Active
<1>1. runs \in 0..MaxRuns /\ MaxRuns \in Nat /\ pointer \in {0} \cup Gens
    BY RotationAssumption DEF TypeInv, TypeOK
<1>2. Active \in Gens /\ pointer <= Active
    BY <1>1 DEF Active, FirstGeneration, Gens
<1>3. rot[r].run \in OpenRuns
    BY DEF OpenRuns
<1>4. Cardinality(OpenRuns) # 0
    BY <1>3, OpenRunsFinite, FS_EmptySet
<1>5. Active + 1 <= runs + 1
    BY <1>1, <1>2, <1>4, OpenRunsFinite DEF TypeInv, PointerInv, Gens
<1>6. QED
    BY <1>1, <1>2, <1>5 DEF Gens

(* The flip moves the pointer by one, if nobody else has moved it. *)
LEMMA TypeFlip == ASSUME TypeInv, NEW r \in Rotators, Flip(r) PROVE TypeInv'
<1>t. pc \in [Rotators -> RotatorPoints] /\ rot \in [Rotators -> Rotator] /\ rot[r] \in Rotator
    BY DEF TypeInv, TypeOK
<1>f. pc[r] = "flip" /\ pc[r] \in Unflipped /\ pc[r] \in Planned
    BY DEF Flip, Unflipped, Planned, Switching
<1>1. CASE pointer = rot[r].pointerETag
    <2>1. /\ rot' = rot /\ pc' = [pc EXCEPT ![r] = "clean repo"]
          /\ outcome' = outcome
        BY <1>1, <1>f DEF Flip, Continue, Goto
    <2>n. pointer' = Active + 1
        BY <1>1, <1>f DEF Flip, TypeInv, PointerInv, Aimed
    <2>2. Active + 1 \in Gens /\ Active \in Gens /\ pointer <= Active /\ Active \in Nat
          /\ pointer \in Nat
        BY <1>f, RoomForNext, RotationAssumption DEF Gens, TypeInv, TypeOK
    <2>3. Active' = Active + 1
        <3>1. Active + 1 # 0
            BY <2>2
        <3>2. Active' = pointer'
            BY <2>n, <3>1 DEF Active
        <3>3. QED
            BY <2>n, <3>2
    <2>4. pc'[r] = "clean repo" /\ OthersWait(r) /\ pc' \in [Rotators -> RotatorPoints]
        BY <1>t, <2>1 DEF OthersWait, RotatorPoints, PastCheck
    <2>5. pc'[r] \notin Unflipped /\ pc'[r] \notin Planned
        BY <2>4 DEF Unflipped, Reading, Planned, Switching
    <2>6. TypeOK'
        BY <2>1, <2>n, <2>2, <2>4 DEF Flip, TypeInv, TypeOK, pushing
    <2>7. RunInv' /\ OneRunEach'
        BY <1>f, <2>1, <2>4
           DEF Flip, TypeInv, RunInv, OneRunEach, OthersWait, pushing, Keyed, Planned, Switching
    <2>8. OpenRuns' = OpenRuns \ {rot[r].run} /\ rot[r].run \in OpenRuns
        BY <1>f, <2>4, <2>5, OpenRunsStep DEF OpenRuns
    <2>9. Cardinality(OpenRuns') = Cardinality(OpenRuns) - 1
        BY <2>8, OpenRunsFinite, FS_RemoveElement
    <2>10. Active' + Cardinality(OpenRuns') <= runs' + 1
        <3>1. Active + Cardinality(OpenRuns) <= runs + 1 /\ runs' = runs
            BY DEF Flip, TypeInv, PointerInv
        <3>2. QED
            BY <2>2, <2>3, <2>9, <3>1, OpenRunsFinite, Numbers
    <2>11. ASSUME NEW s \in Rotators
           PROVE  /\ pc'[s] \in Unflipped => Behind(rot[s])'
                  /\ pc'[s] \in Planned => Aimed(rot[s])'
        <3>1. rot[s].pointerETag \in Nat
            BY Numbers
        <3>2. pc'[s] \in Planned => pc[s] \in Planned /\ pc[s] \in Unflipped
            BY <2>4, <2>5 DEF OthersWait, Unflipped
        <3>3. pc'[s] \in Unflipped => rot[s].pointerETag <= pointer
            BY <2>4, <2>5 DEF TypeInv, PointerInv, OthersWait, Behind
        <3>4. pc'[s] \in Unflipped => rot[s].pointerETag <= pointer' /\ rot[s].pointerETag # pointer'
            BY <2>n, <2>2, <3>1, <3>3
        <3>5. pc'[s] \in Planned => rot[s].NextGen = rot[s].CurGen + 1
            BY <3>2 DEF TypeInv, PointerInv, Aimed
        <3>6. QED
            BY <2>1, <3>4, <3>5 DEF Unflipped, Behind, Aimed
    <2>12. PointerInv'
        BY <2>10, <2>11 DEF PointerInv
    <2>13. QED
        BY <2>6, <2>7, <2>12 DEF TypeInv
<1>2. CASE pointer # rot[r].pointerETag
    BY <1>2, TypeEnd DEF Flip, TypeInv, TypeOK, RunInv, Typed
<1>3. QED
    BY <1>1, <1>2

(* Two Rotators with one number, old key and reading of the pointer. *)
SamePlan(j, k) ==
    /\ j.run = k.run /\ j.dekOld = k.dekOld
    /\ j.pointerETag = k.pointerETag /\ j.CurGen = k.CurGen /\ j.NextGen = k.NextGen

(* A step that changes other locals than these. *)
LEMMA TypeUpdate ==
    ASSUME TypeInv, NEW r \in Rotators, NEW p \in Planned, NEW j \in Rotator,
           pc[r] \in Planned, SamePlan(j, rot[r]), p \in Keyed => j.dekNew \in Keys,
           rot' = [rot EXCEPT ![r] = j], Goto(r, p),
           UNCHANGED <<pointer, runs, pushing>>, Typed'
    PROVE  TypeInv'
<1>1. p \in RotatorPoints /\ p # "idle" /\ pc[r] # "idle" /\ p \in Unflipped /\ pc[r] \in Unflipped
    BY DEF RotatorPoints, PastCheck, Unflipped, Planned, Switching
<1>2. Behind(j) /\ Aimed(j)
    <2>1. Behind(rot[r]) /\ Aimed(rot[r])
        BY <1>1 DEF TypeInv, PointerInv
    <2>2. QED
        BY <2>1 DEF SamePlan, Behind, Aimed
<1>3. j.run = rot[r].run /\ j.dekOld = rot[r].dekOld
    BY DEF SamePlan
<1>4. QED
    BY <1>1, <1>2, <1>3, TypeMove

(* Objects that nobody writes keep their types. *)
LEMMA ObjectsTyped ==
    ASSUME TypeInv
    PROVE  /\ Typed
           /\ UNCHANGED <<repo, state, slot, repoPub, seal, staged>> => Typed'
BY DEF TypeInv, TypeOK, RunInv, Typed

(* The first calls: the pointer. *)
LEMMA TypeRead ==
    ASSUME TypeInv, NEW r \in Rotators, ReadPointerETag(r) \/ ReadPointer(r)
    PROVE  TypeInv'
<1>t. rot[r] \in Rotator /\ pointer \in {0} \cup Gens /\ Typed'
    BY ObjectsTyped DEF TypeInv, TypeOK, ReadPointerETag, ReadPointer, bucket
<1>1. CASE ReadPointerETag(r)
    <2>1. PICK etag \in {pointer} \cup {e \in {0} : Flaky} :
            rot' = [rot EXCEPT ![r].pointerETag = etag]
        BY <1>1 DEF ReadPointerETag
    <2> DEFINE j == [rot[r] EXCEPT !.pointerETag = etag]
    <2>2. etag \in {0} \cup Gens /\ etag <= pointer
        BY <1>t, Numbers
    <2>3. /\ j \in Rotator /\ j.run = rot[r].run /\ j.dekOld = rot[r].dekOld
          /\ j.pointerETag = etag
        BY <1>t, <2>2 DEF Rotator
    <2>4. rot' = [rot EXCEPT ![r] = j]
        BY <2>1
    <2> HIDE DEF j
    <2>5. Behind(j)
        BY <2>2, <2>3 DEF Behind
    <2>6. /\ "pointer" \in RotatorPoints /\ "pointer" \in Unflipped /\ pc[r] \in Unflipped
          /\ "pointer" \notin Planned /\ "pointer" \notin Keyed /\ pc[r] # "idle"
        BY <1>1 DEF ReadPointerETag, RotatorPoints, Unflipped, Reading, Planned, Switching, Keyed
    <2>7. QED
        BY <1>t, <1>1, <2>3, <2>4, <2>5, <2>6, TypeMove DEF ReadPointerETag, bucket
<1>2. CASE ReadPointer(r)
    <2>p. /\ "staged" \in RotatorPoints /\ "staged" \in Unflipped /\ pc[r] \in Unflipped
          /\ "staged" \in Planned /\ "staged" \notin Keyed /\ pc[r] # "idle"
        BY <1>2 DEF ReadPointer, RotatorPoints, Unflipped, Reading, Planned, Switching, Keyed
    <2>1. PICK g \in {Active} \cup {FirstGeneration}, etag \in {rot[r].pointerETag} \cup {0} :
            /\ rot' = [rot EXCEPT ![r] = [rot[r] EXCEPT !.CurGen = g, !.NextGen = g + 1,
                                                        !.pointerETag = etag]]
            /\ g = Active \/ etag = 0
        <3>1. CASE rot' = [rot EXCEPT ![r].CurGen = Active, ![r].NextGen = NextGeneration(Active)]
            <4>1. [rot[r] EXCEPT !.CurGen = Active, !.NextGen = Active + 1] =
                  [rot[r] EXCEPT !.CurGen = Active, !.NextGen = Active + 1,
                                 !.pointerETag = rot[r].pointerETag]
                BY <1>t DEF Rotator
            <4>2. QED
                BY <3>1, <4>1 DEF NextGeneration
        <3>2. CASE rot' = [rot EXCEPT ![r].CurGen = FirstGeneration,
                                      ![r].NextGen = NextGeneration(FirstGeneration),
                                      ![r].pointerETag = 0]
            BY <3>2 DEF NextGeneration
        <3>3. QED
            BY <1>2, <3>1, <3>2 DEF ReadPointer
    <2> DEFINE j == [rot[r] EXCEPT !.CurGen = g, !.NextGen = g + 1, !.pointerETag = etag]
    <2>2. g \in Gens /\ g + 1 \in Gens /\ etag \in {0} \cup Gens
        <3>1. Active \in Gens /\ Active + 1 \in Gens
            BY <2>p, RoomForNext
        <3>2. FirstGeneration \in Gens /\ FirstGeneration + 1 \in Gens
            BY <3>1, Numbers DEF FirstGeneration, Gens
        <3>3. QED
            BY <1>t, <3>1, <3>2 DEF Rotator
    <2>3. /\ j \in Rotator /\ j.run = rot[r].run /\ j.dekOld = rot[r].dekOld
          /\ j.pointerETag = etag /\ j.CurGen = g /\ j.NextGen = g + 1
        BY <1>t, <2>2 DEF Rotator
    <2>4. rot' = [rot EXCEPT ![r] = j]
        BY <2>1
    <2> HIDE DEF j
    <2>5. Behind(j)
        <3>1. Behind(rot[r])
            BY <2>p DEF TypeInv, PointerInv
        <3>2. QED
            BY <2>3, <3>1, Numbers DEF Behind
    <2>6. Aimed(j)
        BY <2>1, <2>3 DEF Aimed, Active, FirstGeneration
    <2>7. QED
        BY <1>t, <1>2, <2>p, <2>3, <2>4, <2>5, <2>6, TypeMove DEF ReadPointer, bucket
<1>3. QED
    BY <1>1, <1>2

(* Staging the next key, and the sweep. *)
LEMMA TypeStage ==
    ASSUME TypeInv, NEW r \in Rotators,
           \/ LoadStaged(r) \/ StageNext(r)
           \/ SweepList(r) \/ \E g \in Gens : SweepOne(r, g)
    PROVE  TypeInv'
<1>t. rot[r] \in Rotator /\ TypeOK /\ Typed
    BY ObjectsTyped DEF TypeInv, TypeOK
<1>p. /\ {"staged", "stage", "sweep list", "sweep", "open source"} \subseteq Planned
      /\ "staged" \notin Keyed /\ {"stage", "sweep list", "sweep"} \subseteq Keyed
    BY DEF Planned, Keyed
<1>k. pc[r] \in Keyed => rot[r].dekNew \in Keys
    BY DEF TypeInv, RunInv
<1>f. ASSUME rot[r].run \in 1..runs PROVE Fresh(r) \in Keys
    BY <1>f, Numbers DEF Fresh, Keys
<1>1. CASE LoadStaged(r)
    <2>2. Fresh(r) \in Keys
        BY <1>1, <1>f DEF LoadStaged, TypeInv, RunInv
    <2>1. PICK key \in {staged.key, Fresh(r)}, p \in {"sweep list", "stage"} :
            /\ rot' = [rot EXCEPT ![r] = [rot[r] EXCEPT !.dekNew = key]]
            /\ Goto(r, p)
            /\ key = Fresh(r) \/ staged # NoStaged
        BY <1>1 DEF LoadStaged
    <2>3. key \in Keys
        BY <2>1, <2>2 DEF TypeInv, RunInv
    <2> DEFINE j == [rot[r] EXCEPT !.dekNew = key]
    <2>4. j \in Rotator /\ SamePlan(j, rot[r]) /\ j.dekNew = key
        BY <1>t, <2>3 DEF Rotator, SamePlan
    <2>5. rot' = [rot EXCEPT ![r] = j] /\ p \in Planned
        BY <1>p, <2>1
    <2> HIDE DEF j
    <2>6. QED
        BY <1>1, <1>p, <2>1, <2>3, <2>4, <2>5, ObjectsTyped, TypeUpdate
           DEF LoadStaged, bucket
<1>2. CASE StageNext(r)
    <2>1. rot[r].dekNew \in Keys /\ rot[r].dekOld \in Keys
        BY <1>2, <1>p, <1>k DEF StageNext, TypeInv, RunInv
    <2>2. Typed'
        BY <1>2, <1>t, <2>1 DEF StageNext, Typed
    <2>3. QED
        BY <1>2, <1>p, <2>1, <2>2, TypeContinue
           DEF StageNext, RotatorPoints, Unflipped, Planned
<1>3. CASE SweepList(r)
    <2> DEFINE doomed == Listed \ {rot[r].CurGen, rot[r].NextGen}
               j == [rot[r] EXCEPT !.doomed = doomed]
    <2>1. doomed \in SUBSET Gens
        BY DEF Listed, Occupied
    <2> HIDE DEF doomed
    <2>2. j \in Rotator /\ SamePlan(j, rot[r]) /\ j.dekNew = rot[r].dekNew
        BY <1>t, <2>1 DEF Rotator, SamePlan
    <2>3. rot' = [rot EXCEPT ![r] = j]
        BY <1>3 DEF SweepList, doomed
    <2> HIDE DEF j
    <2>4. PICK p \in {"open source", "sweep"} : Goto(r, p)
        BY <1>3 DEF SweepList
    <2>5. rot[r].dekNew \in Keys /\ pc[r] \in Planned
        BY <1>3, <1>p, <1>k DEF SweepList
    <2>6. p \in Planned
        BY <1>p, <2>4
    <2>7. QED
        BY <1>3, <2>2, <2>3, <2>4, <2>5, <2>6, ObjectsTyped, TypeUpdate
           DEF SweepList, bucket
<1>4. CASE \E g \in Gens : SweepOne(r, g)
    <2>1. PICK g \in Gens : SweepOne(r, g)
        BY <1>4
    <2> DEFINE j == [rot[r] EXCEPT !.doomed = rot[r].doomed \ {g}]
    <2>2. j \in Rotator /\ SamePlan(j, rot[r]) /\ j.dekNew = rot[r].dekNew
        BY <1>t DEF Rotator, SamePlan
    <2>3. rot' = [rot EXCEPT ![r] = j]
        BY <2>1 DEF SweepOne
    <2> HIDE DEF j
    <2>4. PICK p \in {"open source", "sweep"} : Goto(r, p)
        BY <2>1 DEF SweepOne
    <2>5. rot[r].dekNew \in Keys /\ pc[r] \in Planned /\ p \in Planned
        BY <2>1, <2>4, <1>p, <1>k DEF SweepOne
    <2>6. Typed'
        BY <1>t, <2>1, Firsts DEF SweepOne, Typed
    <2>7. QED
        BY <2>1, <2>2, <2>3, <2>4, <2>5, <2>6, TypeUpdate DEF SweepOne
<1>5. QED
    BY <1>1, <1>2, <1>3, <1>4

(* Building the next generation. *)
LEMMA TypeBuild ==
    ASSUME TypeInv, NEW r \in Rotators,
           \/ OpenSource(r) \/ OpenTarget(r)
           \/ LoadETag(r) \/ LoadState(r) \/ CopyBundle(r) \/ CheckSource(r)
           \/ TargetETag(r) \/ SaveTarget(r)
    PROVE  TypeInv'
<1>t. rot[r] \in Rotator /\ TypeOK /\ Typed
    BY ObjectsTyped DEF TypeInv, TypeOK
<1>p. /\ {"open source", "open target", "load etag", "load", "copy", "check", "target etag",
          "save", "verify seal"} \subseteq Planned \cap Keyed
      /\ Planned \subseteq RotatorPoints \cap Unflipped
      /\ "idle" \notin Planned
    BY DEF Planned, Keyed, RotatorPoints, PastCheck, Unflipped, Switching
<1>q. pc[r] \in Planned \cap Keyed
    BY <1>p DEF OpenSource, OpenTarget, LoadETag, LoadState, CopyBundle, CheckSource,
                TargetETag, SaveTarget
<1>k. rot[r].dekNew \in Keys
    BY <1>q DEF TypeInv, RunInv
<1>g. rot[r].CurGen \in Gens /\ rot[r].NextGen \in Gens
    BY <1>t DEF Rotator
<1>f. ASSUME End(r, "failed"), UNCHANGED <<bucket, runs, pushing>> PROVE TypeInv'
    BY <1>f, ObjectsTyped, TypeEnd DEF bucket
<1>c. ASSUME NEW p \in Planned \cap Keyed, Continue(r, p),
             UNCHANGED <<pointer, runs, pushing>>, Typed'
      PROVE  TypeInv'
    BY <1>c, <1>p, <1>q, <1>k, TypeContinue
<1>1. CASE OpenSource(r) \/ CopyBundle(r)
    BY <1>1, <1>f, <1>c, <1>p, ObjectsTyped DEF OpenSource, CopyBundle, bucket
<1>2. CASE OpenTarget(r)
    <2>1. Typed'
        BY <1>2, <1>t, <1>k DEF OpenTarget, Typed
    <2>2. CASE repo[rot[r].NextGen] \in {0, rot[r].dekNew}
        BY <1>2, <1>c, <1>p, <2>1, <2>2 DEF OpenTarget
    <2>3. CASE repo[rot[r].NextGen] \notin {0, rot[r].dekNew}
        BY <1>2, <1>f, <2>3 DEF OpenTarget, bucket
    <2>4. QED
        BY <2>2, <2>3
<1>3. CASE LoadETag(r)
    <2> DEFINE source == state[rot[r].CurGen]
               j == [rot[r] EXCEPT !.srcETag = source.tag, !.table = {}]
    <2>1. source.tag \in Tag
        BY <1>t, <1>g DEF TypeOK, State
    <2>2. j \in Rotator /\ SamePlan(j, rot[r]) /\ j.dekNew = rot[r].dekNew
        BY <1>t, <2>1 DEF Rotator, SamePlan
    <2>3. rot' = [rot EXCEPT ![r] = j]
        BY <1>3 DEF LoadETag
    <2> HIDE DEF j
    <2>4. PICK p \in {"check", "load"} : Goto(r, p)
        BY <1>3 DEF LoadETag
    <2>5. p \in Planned
        BY <1>p, <2>4
    <2>6. QED
        BY <1>3, <1>q, <1>k, <2>2, <2>3, <2>4, <2>5, ObjectsTyped, TypeUpdate
           DEF LoadETag, bucket
<1>4. CASE LoadState(r)
    <2>1. CASE state[rot[r].CurGen].by = rot[r].dekOld
        <3> DEFINE j == [rot[r] EXCEPT !.table = state[rot[r].CurGen].has]
        <3>1. state[rot[r].CurGen].has \in SUBSET Pushes
            BY <1>t, <1>g DEF TypeOK, State
        <3>2. j \in Rotator /\ SamePlan(j, rot[r]) /\ j.dekNew = rot[r].dekNew
            BY <1>t, <3>1 DEF Rotator, SamePlan
        <3>3. rot' = [rot EXCEPT ![r] = j] /\ Goto(r, "copy")
            BY <1>4, <2>1 DEF LoadState
        <3> HIDE DEF j
        <3>4. QED
            BY <1>4, <1>p, <1>q, <1>k, <3>2, <3>3, ObjectsTyped, TypeUpdate
               DEF LoadState, bucket
    <2>2. CASE state[rot[r].CurGen].by # rot[r].dekOld
        BY <1>4, <1>f, <2>2 DEF LoadState
    <2>3. QED
        BY <2>1, <2>2
<1>5. CASE CheckSource(r)
    <2>1. CASE Continue(r, "target etag")
        BY <1>5, <1>c, <1>p, <2>1, ObjectsTyped DEF CheckSource, bucket
    <2>2. CASE rot[r].round < MaxRounds /\ rot' = [rot EXCEPT ![r].round = @ + 1]
               /\ Goto(r, "load etag")
        <3> DEFINE j == [rot[r] EXCEPT !.round = rot[r].round + 1]
        <3>1. rot[r].round + 1 \in 1..MaxRounds
            <4>1. rot[r].round \in 1..MaxRounds /\ rot[r].round < MaxRounds /\ MaxRounds \in Nat
                BY <1>t, <2>2, RotationAssumption DEF Rotator
            <4>2. QED
                BY <4>1
        <3>2. j \in Rotator /\ SamePlan(j, rot[r]) /\ j.dekNew = rot[r].dekNew
            BY <1>t, <3>1 DEF Rotator, SamePlan
        <3>3. rot' = [rot EXCEPT ![r] = j] /\ Goto(r, "load etag")
            BY <2>2
        <3> HIDE DEF j
        <3>4. QED
            BY <1>5, <1>p, <1>q, <1>k, <3>2, <3>3, ObjectsTyped, TypeUpdate
               DEF CheckSource, bucket
    <2>3. CASE End(r, "failed")
        BY <1>5, <1>f, <2>3 DEF CheckSource
    <2>4. QED
        BY <1>5, <2>1, <2>2, <2>3 DEF CheckSource
<1>6. CASE TargetETag(r)
    <2> DEFINE j == [rot[r] EXCEPT !.prevETag = state[rot[r].NextGen].tag]
    <2>1. state[rot[r].NextGen].tag \in Tag
        BY <1>t, <1>g DEF TypeOK, State
    <2>2. j \in Rotator /\ SamePlan(j, rot[r]) /\ j.dekNew = rot[r].dekNew
        BY <1>t, <2>1 DEF Rotator, SamePlan
    <2>3. rot' = [rot EXCEPT ![r] = j] /\ Goto(r, "save")
        BY <1>6 DEF TargetETag
    <2> HIDE DEF j
    <2>4. QED
        BY <1>6, <1>p, <1>q, <1>k, <2>2, <2>3, ObjectsTyped, TypeUpdate DEF TargetETag, bucket
<1>7. CASE SaveTarget(r)
    <2>1. CASE state[rot[r].NextGen].tag = rot[r].prevETag
        <3> DEFINE o == [by |-> rot[r].dekNew, has |-> rot[r].table, tag |-> rot[r].run]
        <3>1. rot[r].dekNew \in 0..(MaxRuns + 1) /\ rot[r].run \in Tag
            BY <1>t, <1>k, Numbers DEF Keys, Rotator, Tag
        <3>2. o \in State
            BY <1>t, <3>1 DEF Rotator, State
        <3>3. state' = [state EXCEPT ![rot[r].NextGen] = o] /\ Continue(r, "verify seal")
            BY <1>7, <2>1 DEF SaveTarget
        <3> HIDE DEF o
        <3>4. Typed'
            BY <1>7, <1>t, <3>2, <3>3 DEF SaveTarget, Typed
        <3>5. QED
            BY <1>7, <1>c, <1>p, <3>3, <3>4 DEF SaveTarget
    <2>2. CASE state[rot[r].NextGen].tag # rot[r].prevETag
        BY <1>7, <1>f, <2>2 DEF SaveTarget, bucket
    <2>3. QED
        BY <2>1, <2>2
<1>8. QED
    BY <1>1, <1>2, <1>3, <1>4, <1>5, <1>6, <1>7

(* The switch, and the clean-up. *)
LEMMA TypeSwitch ==
    ASSUME TypeInv, NEW r \in Rotators,
           \/ VerifySeal(r) \/ (\E m \in Slots : RewrapSlot(r, m)) \/ SealSlots(r)
           \/ SetRepoKey(r) \/ SealRepoKey(r)
    PROVE  TypeInv'
<1>t. rot[r] \in Rotator /\ TypeOK /\ Typed
    BY ObjectsTyped DEF TypeInv, TypeOK
<1>p. /\ Switching \cup {"verify seal"} \subseteq Planned \cap Keyed
      /\ Planned \subseteq RotatorPoints \cap Unflipped
      /\ "idle" \notin Planned
    BY DEF Planned, Keyed, RotatorPoints, PastCheck, Unflipped, Switching
<1>s. Switching = {"rewrap", "seal slots", "repo key", "seal repo key", "flip"}
    BY DEF Switching
<1>q. pc[r] \in Planned \cap Keyed
    BY <1>p, <1>s DEF VerifySeal, RewrapSlot, SealSlots, SetRepoKey, SealRepoKey
<1>k. rot[r].dekNew \in Keys
    BY <1>q DEF TypeInv, RunInv
<1>c. ASSUME NEW p \in Switching, Continue(r, p), UNCHANGED <<pointer, runs, pushing>>, Typed'
      PROVE  TypeInv'
    BY <1>c, <1>p, <1>q, <1>k, TypeContinue
<1>u. ASSUME NEW todo \in SUBSET Recorded, NEW p \in Switching, Goto(r, p),
             rot' = [rot EXCEPT ![r] = [rot[r] EXCEPT !.todo = todo]],
             UNCHANGED <<pointer, runs, pushing>>, Typed'
      PROVE  TypeInv'
    <2> DEFINE j == [rot[r] EXCEPT !.todo = todo]
    <2>1. j \in Rotator /\ SamePlan(j, rot[r]) /\ j.dekNew = rot[r].dekNew
        BY <1>t DEF Rotator, SamePlan
    <2>2. rot' = [rot EXCEPT ![r] = j] /\ p \in Planned
        BY <1>p, <1>u
    <2> HIDE DEF j
    <2>3. QED
        BY <1>p, <1>q, <1>k, <1>u, <2>1, <2>2, TypeUpdate
<1>1. CASE VerifySeal(r)
    <2>1. CASE SealPasses(r)
        <3>1. PICK todo \in Rewrappable, p \in {"repo key", "rewrap"} :
                /\ rot' = [rot EXCEPT ![r] = [rot[r] EXCEPT !.todo = todo]]
                /\ Goto(r, p)
            BY <1>1, <2>1 DEF VerifySeal
        <3>2. todo \in SUBSET Recorded
            BY DEF Rewrappable
        <3>3. QED
            BY <1>1, <1>s, <1>u, <3>1, <3>2, ObjectsTyped DEF VerifySeal, bucket
    <2>2. CASE ~SealPasses(r)
        BY <1>1, <2>2, ObjectsTyped, TypeEnd DEF VerifySeal, bucket
    <2>3. QED
        BY <2>1, <2>2
<1>2. CASE \E m \in Slots : RewrapSlot(r, m)
    <2>1. PICK m \in Slots : RewrapSlot(r, m)
        BY <1>2
    <2>2. rot[r].todo \ {m} \in SUBSET Recorded
        BY <1>t DEF Rotator
    <2>3. /\ rot' = [rot EXCEPT ![r] = [rot[r] EXCEPT !.todo = rot[r].todo \ {m}]]
          /\ Goto(r, "seal slots")
        BY <2>1 DEF RewrapSlot
    <2>4. Typed'
        BY <1>t, <1>k, <2>1 DEF RewrapSlot, Typed
    <2>5. QED
        BY <1>s, <1>u, <2>1, <2>2, <2>3, <2>4 DEF RewrapSlot
<1>3. CASE SealSlots(r)
    <2>1. Typed'
        BY <1>t, <1>k, <1>3 DEF SealSlots, Typed
    <2>2. PICK p \in {"repo key", "rewrap"} : Continue(r, p)
        BY <1>3 DEF SealSlots
    <2>3. QED
        BY <1>3, <1>c, <1>s, <2>1, <2>2 DEF SealSlots
<1>4. CASE SetRepoKey(r)
    <2>1. Typed'
        BY <1>t, <1>k, <1>4 DEF SetRepoKey, Typed
    <2>2. QED
        BY <1>4, <1>c, <1>s, <2>1 DEF SetRepoKey
<1>5. CASE SealRepoKey(r)
    <2>1. Typed'
        BY <1>t, <1>k, <1>5 DEF SealRepoKey, Typed
    <2>2. QED
        BY <1>5, <1>c, <1>s, <2>1 DEF SealRepoKey
<1>6. QED
    BY <1>1, <1>2, <1>3, <1>4, <1>5

(* The clean-up keeps the types. *)
LEMMA TypeClean ==
    ASSUME TypeInv, NEW r \in Rotators, CleanRepo(r) \/ CleanState(r) \/ CleanStaged(r) \/ Kill(r)
    PROVE  TypeInv'
<1>t. rot[r] \in Rotator /\ TypeOK /\ Typed /\ rot[r].CurGen \in Gens
    BY ObjectsTyped DEF TypeInv, TypeOK, Rotator
<1>p. /\ {"clean repo", "clean state", "clean staged"} \subseteq Keyed
      /\ {"clean state", "clean staged"} \subseteq RotatorPoints
      /\ {"clean repo", "clean state", "clean staged"} \cap (Planned \cup Unflipped) = {}
    BY DEF Keyed, RotatorPoints, PastCheck, Unflipped, Reading, Planned, Switching
<1>1. CASE CleanRepo(r)
    <2>1. Typed'
        BY <1>1, <1>t DEF CleanRepo, Typed
    <2>2. rot[r].dekNew \in Keys
        BY <1>1, <1>p DEF CleanRepo, TypeInv, RunInv
    <2>3. QED
        BY <1>1, <1>p, <2>1, <2>2, TypeContinue DEF CleanRepo
<1>2. CASE CleanState(r)
    <2>1. Typed'
        BY ZenonT(60), <1>2, <1>t, Firsts DEF CleanState, Typed
    <2>2. rot[r].dekNew \in Keys
        BY <1>2, <1>p DEF CleanState, TypeInv, RunInv
    <2>3. QED
        BY <1>2, <1>p, <2>1, <2>2, TypeContinue DEF CleanState
<1>3. CASE CleanStaged(r)
    <2>1. staged' = NoStaged \/ staged' = staged
        BY <1>3 DEF CleanStaged
    <2>2. Typed'
        <3>1. NoStaged \in [key : {0} \cup Keys, under : {0} \cup Keys]
            BY DEF NoStaged
        <3>2. QED
            BY <1>3, <1>t, <2>1, <3>1 DEF CleanStaged, Typed
    <2>3. QED
        BY <1>3, <2>2, TypeEnd DEF CleanStaged
<1>4. CASE Kill(r)
    BY <1>4, ObjectsTyped, TypeEnd DEF Kill, bucket
<1>5. QED
    BY <1>1, <1>2, <1>3, <1>4

(* A step of a rotation. *)
LEMMA TypeRotate ==
    ASSUME TypeInv, NEW r \in Rotators, Start(r) \/ Rotate(r) \/ Kill(r)
    PROVE  TypeInv'
BY TypeStart, TypeRead, TypeStage, TypeBuild, TypeSwitch, TypeFlip, TypeClean DEF Rotate

(* A session that takes a step without a rotation noticing. *)
LEMMA TypeSession ==
    ASSUME TypeInv, NEW q \in Pushes, NEW x \in Session,
           NEW label \in {"idle", "pointer", "open", "etag", "get", "save", "ok"},
           Move(q, label), sess' = [sess EXCEPT ![q] = x],
           label \notin {"idle", "ok"} => x.key \in Keys,
           UNCHANGED <<pointer, slot, repoPub, seal, staged, rotating>>,
           repo' \in [Gens -> {0} \cup Keys], state' \in [Gens -> State],
           acked' \in SUBSET Pushes, late' \in SUBSET acked', reborn' \in SUBSET Gens
    PROVE  TypeInv'
<1>1. /\ step' \in [Pushes -> {"idle", "pointer", "open", "etag", "get", "save", "ok"}]
      /\ sess' \in [Pushes -> Session]
      /\ step'[q] = label /\ sess'[q] = x
      /\ \A u \in Pushes \ {q} : step'[u] = step[u] /\ sess'[u] = sess[u]
    BY DEF TypeInv, TypeOK, Move
<1>2. TypeOK'
    BY <1>1 DEF TypeInv, TypeOK, rotating
<1>3. RunInv'
    BY <1>1 DEF TypeInv, RunInv, rotating
<1>4. OneRunEach' /\ PointerInv'
    BY DEF TypeInv, OneRunEach, PointerInv, Behind, Aimed, Active, OpenRuns, rotating
<1>5. QED
    BY <1>2, <1>3, <1>4 DEF TypeInv

(* A step of a session. *)
LEMMA TypePush == ASSUME TypeInv, NEW q \in Pushes, Push(q) PROVE TypeInv'
<1>t. /\ TypeOK /\ sess[q] \in Session /\ slot[PushedBy[q]] \in Keys /\ q \in Tag
      /\ step[q] \notin {"idle", "ok"} => sess[q].key \in Keys
    BY RotationAssumption DEF TypeInv, TypeOK, RunInv, Tag
<1>o. /\ repo \in [Gens -> {0} \cup Keys] /\ state \in [Gens -> State]
      /\ acked \in SUBSET Pushes /\ late \in SUBSET acked /\ reborn \in SUBSET Gens
    BY <1>t DEF TypeOK
<1>g. sess[q].gen \in Gens
    BY <1>t DEF Session
<1>m. ASSUME NEW x \in Session, NEW label \in {"pointer", "open", "etag", "get", "save"},
             Move(q, label), sess' = [sess EXCEPT ![q] = x], x.key \in Keys,
             UNCHANGED <<bucket, rotating, acked, late, reborn>>
      PROVE  TypeInv'
    BY <1>m, <1>o, TypeSession DEF bucket
<1>1. CASE PushUnwrap(q)
    <2> DEFINE x == [sess[q] EXCEPT !.key = slot[PushedBy[q]]]
    <2>1. x \in Session /\ x.key \in Keys
        BY <1>t DEF Session
    <2>2. sess' = [sess EXCEPT ![q] = x]
        BY <1>1 DEF PushUnwrap
    <2> HIDE DEF x
    <2>3. QED
        BY <1>1, <1>m, <2>1, <2>2 DEF PushUnwrap
<1>2. CASE PushPointer(q)
    <2>1. PICK g \in CurrentGenerations : sess' = [sess EXCEPT ![q] = [sess[q] EXCEPT !.gen = g]]
        BY <1>2 DEF PushPointer
    <2>2. g \in Gens
        BY Firsts, Numbers DEF CurrentGenerations, FirstGeneration
    <2> DEFINE x == [sess[q] EXCEPT !.gen = g]
    <2>3. x \in Session /\ x.key = sess[q].key
        BY <1>t, <2>2 DEF Session
    <2> HIDE DEF x
    <2>4. QED
        BY <1>2, <1>m, <1>t, <2>1, <2>3 DEF PushPointer, x
<1>3. CASE PushOpen(q)
    <2>1. sess[q].key \in Keys
        BY <1>3, <1>t DEF PushOpen
    <2>2. CASE /\ Move(q, IF sess[q].create THEN "save" ELSE "etag")
               /\ UNCHANGED <<repo, sess, reborn>>
        <3>1. sess' = [sess EXCEPT ![q] = sess[q]]
            BY <1>t, <2>2 DEF TypeOK
        <3>2. PICK label \in {"save", "etag"} : Move(q, label)
            BY <2>2
        <3>3. QED
            BY <1>3, <1>t, <1>m, <2>1, <2>2, <3>1, <3>2 DEF PushOpen, bucket
    <2>3. CASE /\ sess' = [sess EXCEPT ![q].create = TRUE]
               /\ Move(q, "pointer")
               /\ UNCHANGED <<repo, reborn>>
        <3> DEFINE x == [sess[q] EXCEPT !.create = TRUE]
        <3>1. x \in Session /\ x.key = sess[q].key /\ sess' = [sess EXCEPT ![q] = x]
            BY <1>t, <2>3 DEF Session
        <3> HIDE DEF x
        <3>2. QED
            BY <1>3, <1>m, <2>1, <2>3, <3>1 DEF PushOpen, bucket
    <2>4. CASE /\ repo' = [repo EXCEPT ![sess[q].gen] = sess[q].key]
               /\ reborn' = reborn \cup {sess[q].gen}
               /\ Move(q, "save")
               /\ UNCHANGED sess
        <3>1. sess' = [sess EXCEPT ![q] = sess[q]]
            BY <1>t, <2>4 DEF TypeOK
        <3>2. /\ repo' \in [Gens -> {0} \cup Keys] /\ reborn' \in SUBSET Gens
              /\ state' \in [Gens -> State] /\ acked' \in SUBSET Pushes
              /\ late' \in SUBSET acked'
            BY <1>3, <1>o, <1>g, <2>1, <2>4 DEF PushOpen
        <3>3. QED
            BY <1>3, <1>t, <2>1, <2>4, <3>1, <3>2, TypeSession DEF PushOpen
    <2>5. CASE Leave(q, "idle") /\ UNCHANGED <<repo, reborn>>
        BY <1>3, <1>o, <2>5, Firsts, TypeSession DEF PushOpen, Leave
    <2>6. QED
        BY <1>3, <2>2, <2>3, <2>4, <2>5 DEF PushOpen
<1>4. CASE PushETag(q)
    <2> DEFINE x == [sess[q] EXCEPT !.etag = state[sess[q].gen].tag]
    <2>1. state[sess[q].gen].tag \in Tag
        BY <1>o, <1>g DEF State
    <2>2. x \in Session /\ x.key = sess[q].key
        BY <1>t, <2>1 DEF Session
    <2>3. sess' = [sess EXCEPT ![q] = x]
        BY <1>4 DEF PushETag
    <2> HIDE DEF x
    <2>4. PICK label \in {"save", "get"} : Move(q, label)
        BY <1>4 DEF PushETag
    <2>5. QED
        BY <1>4, <1>t, <1>m, <2>2, <2>3, <2>4 DEF PushETag
<1>5. CASE PushGet(q)
    <2>1. CASE Leave(q, "idle")
        BY <1>5, <1>o, <2>1, Firsts, TypeSession DEF PushGet, Leave, bucket
    <2>2. CASE ~Leave(q, "idle")
        <3> DEFINE x == [sess[q] EXCEPT !.has = state[sess[q].gen].has]
        <3>1. state[sess[q].gen].has \in SUBSET Pushes
            BY <1>o, <1>g DEF State
        <3>2. x \in Session /\ x.key = sess[q].key
            BY <1>t, <3>1 DEF Session
        <3>3. sess' = [sess EXCEPT ![q] = x] /\ Move(q, "save")
            BY <1>5, <2>2 DEF PushGet
        <3> HIDE DEF x
        <3>4. QED
            BY <1>5, <1>t, <1>m, <3>2, <3>3 DEF PushGet
    <2>3. QED
        BY <2>1, <2>2
<1>6. CASE PushSave(q)
    <2>1. CASE Leave(q, "idle") /\ UNCHANGED <<state, acked, late>>
        BY <1>6, <1>o, <2>1, Firsts, TypeSession DEF PushSave, Leave
    <2>2. CASE Leave(q, "ok") /\ acked' = acked \cup {q}
               /\ late' \in {late, late \cup {q}}
               /\ state' = [state EXCEPT ![sess[q].gen] = [by |-> sess[q].key,
                                                           has |-> sess[q].has \cup {q},
                                                           tag |-> q]]
        <3> DEFINE o == [by |-> sess[q].key, has |-> sess[q].has \cup {q}, tag |-> q]
        <3>1. sess[q].key \in 0..(MaxRuns + 1)
            BY <1>t, Numbers DEF Session, Keys
        <3>2. o \in State
            BY <1>t, <3>1 DEF Session, State
        <3>3. state' = [state EXCEPT ![sess[q].gen] = o]
            BY <2>2
        <3> HIDE DEF o
        <3>4. /\ state' \in [Gens -> State] /\ acked' \in SUBSET Pushes
              /\ late' \in SUBSET acked'
            BY <1>o, <2>2, <3>2, <3>3
        <3>5. QED
            BY <1>6, <1>o, <2>2, <3>4, Firsts, TypeSession DEF PushSave, Leave
    <2>3. QED
        BY <1>6, <2>1, <2>2 DEF PushSave
<1>7. CASE PushQuit(q)
    BY <1>7, <1>o, Firsts, TypeSession DEF PushQuit, Leave, bucket
<1>8. QED
    BY <1>1, <1>2, <1>3, <1>4, <1>5, <1>6, <1>7 DEF Push

(* Every step keeps the types. *)
LEMMA TypeNext == TypeInv /\ [Next]_vars => TypeInv'
<1> SUFFICES ASSUME TypeInv, [Next]_vars PROVE TypeInv'
    OBVIOUS
<1>1. CASE UNCHANGED vars
    <2>1. TypeOK' /\ RunInv' /\ OneRunEach'
        BY <1>1 DEF TypeInv, TypeOK, RunInv, OneRunEach, vars, bucket, rotating, pushing
    <2>2. PointerInv'
        BY <1>1 DEF TypeInv, PointerInv, Behind, Aimed, Active, OpenRuns,
                    vars, bucket, rotating, pushing
    <2>3. QED
        BY <2>1, <2>2 DEF TypeInv
<1>2. CASE Next
    BY <1>2, TypeRotate, TypePush DEF Next
<1>3. QED
    BY <1>1, <1>2

(* The invariant of the types, always. *)
LEMMA TypeAlways == Spec => []TypeInv
BY TypeInit, TypeNext, PTL DEF Spec

(* Every variable stays in its type, for any number of rotations at once:  *)
(* in particular each run finds room for the generation it builds, since   *)
(* no run moves the pointer by more than one (rotation.go, Flip).          *)
THEOREM RotationTypes == Spec => []TypeOK
<1>1. TypeInv => TypeOK
    BY DEF TypeInv
<1>2. QED
    BY <1>1, TypeAlways, PTL

-----------------------------------------------------------------------------
(* One machine at a time rotates, and no call fails silently *)

OneMachine == \A r, s \in Rotators : r = s

(* The points at which the next generation has its repository, and its     *)
(* record; and the clean-up.                                                *)
Built == {"load etag", "load", "copy", "check", "target etag", "save", "verify seal"} \cup Switching
Saved == {"verify seal"} \cup Switching
Cleaning == {"clean repo", "clean state", "clean staged"}

(* Until the flip a rotation copies the active generation, spares it in its *)
(* sweep and fills another, complete before the switch; after the flip it   *)
(* deletes one that is no longer active.                                    *)
Spares(r) ==
    /\ pc[r] \in Planned => rot[r].CurGen = Active
    /\ pc[r] = "sweep" => rot[r].CurGen \notin rot[r].doomed
    /\ pc[r] \in Built => repo[rot[r].NextGen] # 0
    /\ pc[r] \in Saved => state[rot[r].NextGen] # NoState
    /\ pc[r] \in Cleaning => rot[r].CurGen # Active

(* No session is ahead of the pointer. *)
SessionsBehind == \A q \in Pushes : sess[q].gen <= Active

KeepInv ==
    /\ ActiveIsKept
    /\ SessionsBehind
    /\ \A r \in Rotators : Spares(r)

(* The points of a rotation by what holds at them. *)
LEMMA Points ==
    /\ Built \subseteq Planned /\ Saved \subseteq Built /\ Planned \subseteq RotatorPoints
    /\ Switching \subseteq Saved
    /\ Cleaning \cap Planned = {} /\ "idle" \notin Planned \cup Cleaning
    /\ "sweep" \in Planned \ Built /\ "sweep" \notin Cleaning
    /\ Built \cup Cleaning \subseteq Keyed
BY DEF Built, Saved, Cleaning, Planned, Switching, RotatorPoints, PastCheck, Keyed

(* The generation that is filled is neither the active one nor one that a   *)
(* session works in.                                                        *)
LEMMA NextIsApart ==
    ASSUME TypeInv, SessionsBehind, NEW r \in Rotators, pc[r] \in Planned, rot[r].CurGen = Active
    PROVE  /\ rot[r].NextGen \in Gens /\ rot[r].NextGen # Active
           /\ \A q \in Pushes : sess[q].gen # rot[r].NextGen
<1>1. rot[r].NextGen = Active + 1
    BY Points DEF TypeInv, PointerInv, Aimed
<1>2. rot[r].NextGen \in Gens
    BY DEF TypeInv, TypeOK, Rotator
<1>3. \A q \in Pushes : sess[q].gen \in Nat
    BY Numbers DEF TypeInv, TypeOK, Session, Gens
<1>4. QED
    BY <1>1, <1>2, <1>3, Numbers DEF SessionsBehind

(* A rotation that takes a step alone. *)
LEMMA SparesAlone ==
    ASSUME OneMachine, NEW r \in Rotators, Spares(r)'
    PROVE  \A s \in Rotators : Spares(s)'
BY DEF OneMachine

(* A step that neither touches the generations nor looks at the pointer. *)
LEMMA KeepQuiet ==
    ASSUME OneMachine, TypeInv, KeepInv, NEW r \in Rotators, NEW p,
           pc'[r] = p, p # "sweep",
           p \in Planned => pc[r] \in Planned, p \in Built => pc[r] \in Built,
           p \in Saved => pc[r] \in Saved, p \in Cleaning => pc[r] \in Cleaning,
           p # "idle" => rot'[r].CurGen = rot[r].CurGen /\ rot'[r].NextGen = rot[r].NextGen,
           UNCHANGED <<pointer, repo, state, pushing>>
    PROVE  KeepInv'
<1>1. Active' = Active
    BY DEF Active
<1>2. ActiveIsKept' /\ SessionsBehind'
    BY <1>1 DEF KeepInv, ActiveIsKept, SessionsBehind, pushing
<1>3. Spares(r)'
    BY <1>1, Points DEF KeepInv, Spares
<1>4. QED
    BY <1>2, <1>3, SparesAlone DEF KeepInv

(* After a step of a rotation that keeps its plan, the locals that the      *)
(* invariants speak of.                                                     *)
LEMMA Locals ==
    ASSUME TypeInv, NEW r \in Rotators, NEW p
    PROVE  /\ rot[r] \in Rotator
           /\ rot[r].CurGen \in Gens /\ rot[r].NextGen \in Gens
           /\ Goto(r, p) => pc'[r] = p
           /\ Continue(r, p) => pc'[r] = p /\ rot'[r] = rot[r]
           /\ \A how : End(r, how) => pc'[r] = "idle" /\ rot'[r] = NewRotator
           /\ \A j : rot' = [rot EXCEPT ![r] = j] => rot'[r] = j
<1>1. pc \in [Rotators -> RotatorPoints] /\ rot \in [Rotators -> Rotator]
    BY DEF TypeInv, TypeOK
<1>2. rot[r].CurGen \in Gens /\ rot[r].NextGen \in Gens
    BY <1>1 DEF Rotator
<1>3. QED
    BY <1>1, <1>2 DEF Goto, Continue, End

(* Reading the pointer, and staging the next key. *)
LEMMA KeepRead ==
    ASSUME ~Flaky, OneMachine, TypeInv, KeepInv, NEW r \in Rotators,
           \/ Start(r) \/ ReadPointerETag(r) \/ ReadPointer(r)
           \/ LoadStaged(r) \/ StageNext(r) \/ Kill(r)
    PROVE  KeepInv'
<1>t. rot[r] \in Rotator /\ rot \in [Rotators -> Rotator] /\ pc \in [Rotators -> RotatorPoints]
    BY DEF TypeInv, TypeOK
<1>p. /\ {"pointer etag", "pointer"} \cap (Planned \cup Cleaning) = {}
      /\ {"staged", "stage", "sweep list"} \subseteq Planned \ Built
    BY DEF Built, Saved, Cleaning, Planned, Switching
<1>1. CASE Start(r)
    <2>1. pc'[r] = "pointer etag"
        BY <1>1, <1>t DEF Start
    <2>2. QED
        BY <1>1, <1>p, <2>1, Points
           DEF KeepInv, OneMachine, Start, Spares, ActiveIsKept, SessionsBehind, Active,
               bucket, pushing
<1>2. CASE ReadPointerETag(r)
    <2>1. pc'[r] = "pointer"
        BY <1>2, Locals DEF ReadPointerETag
    <2>2. UNCHANGED <<pointer, repo, state, pushing>>
        BY <1>2 DEF ReadPointerETag, bucket
    <2>3. Active' = Active /\ Spares(r)'
        BY <1>p, <2>1, <2>2, Points DEF Spares, Active
    <2>4. QED
        BY <2>2, <2>3, SparesAlone DEF KeepInv, ActiveIsKept, SessionsBehind, pushing
<1>3. CASE ReadPointer(r)
    <2>1. pc'[r] = "staged"
        BY <1>3, Locals DEF ReadPointer
    <2>2. UNCHANGED <<pointer, repo, state, pushing>>
        BY <1>3 DEF ReadPointer, bucket
    <2>3. rot'[r].CurGen = Active
        BY <1>3, <1>t DEF ReadPointer, Rotator
    <2>4. Active' = Active /\ Spares(r)'
        BY <1>p, <2>1, <2>2, <2>3, Points DEF Spares, Active
    <2>5. QED
        BY <2>2, <2>4, SparesAlone DEF KeepInv, ActiveIsKept, SessionsBehind, pushing
<1>4. CASE LoadStaged(r)
    <2>1. PICK key \in {staged.key, Fresh(r)}, p \in {"sweep list", "stage"} :
            /\ rot' = [rot EXCEPT ![r] = [rot[r] EXCEPT !.dekNew = key]]
            /\ Goto(r, p)
        BY <1>4 DEF LoadStaged
    <2>2. rot'[r].CurGen = rot[r].CurGen /\ rot'[r].NextGen = rot[r].NextGen
        BY <1>t, <2>1 DEF Rotator
    <2>3. pc'[r] = p /\ pc[r] = "staged"
        BY <1>4, <2>1, Locals DEF LoadStaged
    <2>4. QED
        BY <1>4, <1>p, <2>1, <2>2, <2>3, KeepQuiet, Points DEF LoadStaged, bucket
<1>5. CASE StageNext(r)
    <2>1. pc'[r] = "sweep list" /\ rot'[r] = rot[r]
        BY <1>5, Locals DEF StageNext
    <2>2. QED
        BY <1>5, <1>p, <2>1, KeepQuiet, Points DEF StageNext
<1>6. CASE Kill(r)
    <2>1. pc'[r] = "idle"
        BY <1>6, Locals DEF Kill
    <2>2. QED
        BY <1>6, <2>1, KeepQuiet, Points DEF Kill, bucket
<1>7. QED
    BY <1>1, <1>2, <1>3, <1>4, <1>5, <1>6

(* The sweep takes neither the active generation nor the next. *)
LEMMA KeepSweep ==
    ASSUME OneMachine, TypeInv, KeepInv, NEW r \in Rotators,
           SweepList(r) \/ \E g \in Gens : SweepOne(r, g)
    PROVE  KeepInv'
<1>t. /\ rot[r] \in Rotator /\ rot \in [Rotators -> Rotator]
      /\ repo \in [Gens -> {0} \cup Keys] /\ state \in [Gens -> State]
      /\ Active \in Gens
    BY Numbers DEF TypeInv, TypeOK
<1>p. /\ {"sweep list", "sweep", "open source"} \subseteq Planned
      /\ {"sweep", "open source"} \cap (Built \cup Saved \cup Cleaning) = {}
    BY DEF Built, Saved, Cleaning, Planned, Switching
<1>1. CASE SweepList(r)
    <2> DEFINE doomed == Listed \ {rot[r].CurGen, rot[r].NextGen}
    <2>1. rot' = [rot EXCEPT ![r] = [rot[r] EXCEPT !.doomed = doomed]] /\ pc[r] = "sweep list"
        BY <1>1 DEF SweepList
    <2>2. PICK p \in {"open source", "sweep"} : Goto(r, p)
        BY <1>1 DEF SweepList
    <2>3. /\ rot'[r].CurGen = rot[r].CurGen /\ rot'[r].doomed = doomed
          /\ rot[r].CurGen \notin doomed
        BY <1>t, <2>1 DEF Rotator
    <2> HIDE DEF doomed
    <2>4. pc'[r] = p /\ p \in Planned /\ p \notin Built \cup Saved \cup Cleaning
        BY <1>p, <2>2, Locals
    <2>5. UNCHANGED <<pointer, repo, state, pushing>> /\ Active' = Active
        BY <1>1 DEF SweepList, bucket, Active
    <2>6. Spares(r)'
        BY <1>p, <2>1, <2>3, <2>4, <2>5 DEF KeepInv, Spares
    <2>7. QED
        BY <2>5, <2>6, SparesAlone DEF KeepInv, ActiveIsKept, SessionsBehind, pushing
<1>2. ASSUME NEW g \in Gens, SweepOne(r, g) PROVE KeepInv'
    <2>1. /\ rot' = [rot EXCEPT ![r] = [rot[r] EXCEPT !.doomed = rot[r].doomed \ {g}]]
          /\ pc[r] = "sweep" /\ g \in rot[r].doomed
        BY <1>2 DEF SweepOne
    <2>2. PICK p \in {"open source", "sweep"} : Goto(r, p)
        BY <1>2 DEF SweepOne
    <2>3. /\ rot'[r].CurGen = rot[r].CurGen
          /\ rot'[r].doomed = rot[r].doomed \ {g}
        BY <1>t, <2>1 DEF Rotator
    <2>4. pc'[r] = p /\ p \in Planned /\ p \notin Built \cup Saved \cup Cleaning
        BY <1>p, <2>2, Locals
    <2>5. UNCHANGED <<pointer, pushing>> /\ Active' = Active
        BY <1>2 DEF SweepOne, Active
    <2>6. rot[r].CurGen = Active /\ g # Active
        BY <1>p, <2>1 DEF KeepInv, Spares
    <2>7. repo'[Active] = repo[Active] /\ state'[Active] = state[Active]
        BY <1>2, <1>t, <2>6 DEF SweepOne
    <2>8. Spares(r)'
        BY <1>p, <2>1, <2>3, <2>4, <2>5, <2>6 DEF KeepInv, Spares
    <2>9. QED
        BY <2>5, <2>7, <2>8, SparesAlone DEF KeepInv, ActiveIsKept, SessionsBehind, pushing
<1>3. QED
    BY <1>1, <1>2

(* Building the next generation leaves the active one alone. *)
LEMMA KeepBuild ==
    ASSUME OneMachine, TypeInv, KeepInv, NEW r \in Rotators,
           \/ OpenSource(r) \/ OpenTarget(r)
           \/ LoadETag(r) \/ LoadState(r) \/ CopyBundle(r) \/ CheckSource(r)
           \/ TargetETag(r) \/ SaveTarget(r)
    PROVE  KeepInv'
<1>t. /\ rot[r] \in Rotator /\ rot \in [Rotators -> Rotator]
      /\ repo \in [Gens -> {0} \cup Keys] /\ state \in [Gens -> State]
      /\ Active \in Gens
    BY Numbers DEF TypeInv, TypeOK
<1>p. /\ {"open source", "open target"} \subseteq Planned
      /\ {"open target"} \cap (Built \cup Saved \cup Cleaning) = {}
      /\ {"load etag", "load", "copy", "check", "target etag", "save"} \subseteq Built \ (Saved \cup Cleaning)
      /\ "verify seal" \in Saved
    BY DEF Built, Saved, Cleaning, Planned, Switching
<1>q. pc[r] \in Planned
    BY <1>p, Points DEF OpenSource, OpenTarget, LoadETag, LoadState, CopyBundle, CheckSource,
                        TargetETag, SaveTarget
<1>n. /\ rot[r].CurGen = Active /\ rot[r].NextGen # Active /\ rot[r].NextGen \in Gens
    BY <1>q, NextIsApart DEF KeepInv, Spares
<1>f. ASSUME End(r, "failed"), UNCHANGED <<pointer, repo, state, pushing>> PROVE KeepInv'
    BY <1>f, Locals, Points, KeepQuiet
<1>c. ASSUME pc[r] \in Built,
             NEW p \in {"load etag", "load", "copy", "check", "target etag", "save"},
             Goto(r, p), UNCHANGED <<pointer, repo, state, pushing>>,
             rot'[r].CurGen = rot[r].CurGen, rot'[r].NextGen = rot[r].NextGen
      PROVE  KeepInv'
    BY <1>c, <1>p, <1>q, Locals, Points, KeepQuiet
<1>1. CASE OpenSource(r)
    <2>1. CASE Continue(r, "open target")
        <3>1. pc'[r] = "open target" /\ rot'[r] = rot[r]
            BY <2>1, Locals
        <3>2. QED
            BY <1>1, <1>p, <1>q, <3>1, Points, KeepQuiet DEF OpenSource, bucket
    <2>2. QED
        BY <1>1, <1>f, <2>1 DEF OpenSource, bucket
<1>2. CASE OpenTarget(r)
    <2>1. CASE repo[rot[r].NextGen] \in {0, rot[r].dekNew}
        <3>1. pc'[r] = "load etag" /\ rot'[r] = rot[r]
            BY <1>2, <2>1, Locals DEF OpenTarget
        <3>2. repo' = [repo EXCEPT ![rot[r].NextGen] = rot[r].dekNew]
              /\ UNCHANGED <<pointer, state, pushing>> /\ Active' = Active
            BY <1>2, <2>1 DEF OpenTarget, Active
        <3>3. rot[r].dekNew # 0
            BY <1>2, Firsts DEF OpenTarget, TypeInv, RunInv, Keyed, Planned
        <3>4. ActiveIsKept' /\ SessionsBehind'
            BY <1>t, <1>n, <3>2 DEF KeepInv, ActiveIsKept, SessionsBehind, pushing
        <3>5. Spares(r)'
            BY <1>t, <1>p, <1>n, <3>1, <3>2, <3>3 DEF Spares
        <3>6. QED
            BY <3>4, <3>5, SparesAlone DEF KeepInv
    <2>2. CASE repo[rot[r].NextGen] \notin {0, rot[r].dekNew}
        BY <1>2, <1>f, <2>2 DEF OpenTarget
    <2>3. QED
        BY <2>1, <2>2
<1>3. CASE LoadETag(r)
    <2>1. PICK tag \in {state[rot[r].CurGen].tag}, p \in {"check", "load"} :
            /\ rot' = [rot EXCEPT ![r] = [rot[r] EXCEPT !.srcETag = tag, !.table = {}]]
            /\ Goto(r, p)
        BY <1>3 DEF LoadETag
    <2>2. rot'[r].CurGen = rot[r].CurGen /\ rot'[r].NextGen = rot[r].NextGen
        BY <1>t, <2>1 DEF Rotator
    <2>3. QED
        BY <1>3, <1>p, <1>c, <2>1, <2>2 DEF LoadETag, bucket
<1>4. CASE LoadState(r)
    <2>1. CASE rot' = [rot EXCEPT ![r].table = state[rot[r].CurGen].has] /\ Goto(r, "copy")
        <3>1. rot'[r].CurGen = rot[r].CurGen /\ rot'[r].NextGen = rot[r].NextGen
            BY <1>t, <2>1 DEF Rotator
        <3>2. QED
            BY <1>4, <1>p, <1>c, <2>1, <3>1 DEF LoadState, bucket
    <2>2. QED
        BY <1>4, <1>f, <2>1 DEF LoadState, bucket
<1>5. CASE CopyBundle(r)
    <2>1. CASE Continue(r, "check")
        BY <1>5, <1>p, <1>c, <2>1, Locals DEF CopyBundle, Continue, bucket
    <2>2. QED
        BY <1>5, <1>f, <2>1 DEF CopyBundle, bucket
<1>6. CASE CheckSource(r)
    <2>1. CASE Continue(r, "target etag")
        BY <1>6, <1>p, <1>c, <2>1, Locals DEF CheckSource, Continue, bucket
    <2>2. CASE rot' = [rot EXCEPT ![r].round = @ + 1] /\ Goto(r, "load etag")
        <3>1. rot'[r].CurGen = rot[r].CurGen /\ rot'[r].NextGen = rot[r].NextGen
            BY <1>t, <2>2 DEF Rotator
        <3>2. QED
            BY <1>6, <1>p, <1>c, <2>2, <3>1 DEF CheckSource, bucket
    <2>3. QED
        BY <1>6, <1>f, <2>1, <2>2 DEF CheckSource, bucket
<1>7. CASE TargetETag(r)
    <2>1. rot' = [rot EXCEPT ![r].prevETag = state[rot[r].NextGen].tag] /\ Goto(r, "save")
        BY <1>7 DEF TargetETag
    <2>2. rot'[r].CurGen = rot[r].CurGen /\ rot'[r].NextGen = rot[r].NextGen
        BY <1>t, <2>1 DEF Rotator
    <2>3. QED
        BY <1>7, <1>p, <1>c, <2>1, <2>2 DEF TargetETag, bucket
<1>8. CASE SaveTarget(r)
    <2>1. CASE state[rot[r].NextGen].tag = rot[r].prevETag
        <3> DEFINE o == [by |-> rot[r].dekNew, has |-> rot[r].table, tag |-> rot[r].run]
        <3>1. pc'[r] = "verify seal" /\ rot'[r] = rot[r] /\ pc[r] = "save"
            BY <1>8, <2>1, Locals DEF SaveTarget
        <3>2. state' = [state EXCEPT ![rot[r].NextGen] = o]
              /\ UNCHANGED <<pointer, repo, pushing>> /\ Active' = Active
            BY <1>8, <2>1 DEF SaveTarget, Active
        <3>3. o # NoState
            <4>1. rot[r].dekNew # 0
                BY <1>p, <3>1, Points, Firsts DEF TypeInv, RunInv
            <4>2. QED
                BY <4>1, Firsts
        <3> HIDE DEF o
        <3>4. ActiveIsKept' /\ SessionsBehind'
            BY <1>t, <1>n, <3>2 DEF KeepInv, ActiveIsKept, SessionsBehind, pushing
        <3>5. Spares(r)'
            BY <1>t, <1>p, <1>n, <3>1, <3>2, <3>3, Points DEF KeepInv, Spares
        <3>6. QED
            BY <3>4, <3>5, SparesAlone DEF KeepInv
    <2>2. CASE state[rot[r].NextGen].tag # rot[r].prevETag
        BY <1>8, <1>f, <2>2 DEF SaveTarget
    <2>3. QED
        BY <2>1, <2>2
<1>9. QED
    BY <1>1, <1>2, <1>3, <1>4, <1>5, <1>6, <1>7, <1>8

(* Re-wrapping the slots leaves both generations alone. *)
LEMMA KeepSwitch ==
    ASSUME OneMachine, TypeInv, KeepInv, NEW r \in Rotators,
           \/ VerifySeal(r) \/ (\E m \in Slots : RewrapSlot(r, m)) \/ SealSlots(r)
           \/ SetRepoKey(r) \/ SealRepoKey(r)
    PROVE  KeepInv'
<1>t. rot[r] \in Rotator /\ rot \in [Rotators -> Rotator]
    BY DEF TypeInv, TypeOK
<1>p. /\ Saved = {"verify seal", "rewrap", "seal slots", "repo key", "seal repo key", "flip"}
      /\ Saved \subseteq Built \cap Planned
      /\ Saved \cap (Cleaning \cup {"sweep", "idle"}) = {}
    BY DEF Built, Saved, Cleaning, Planned, Switching
<1>q. pc[r] \in Saved /\ UNCHANGED <<pointer, repo, state, pushing>>
    BY <1>p DEF VerifySeal, RewrapSlot, SealSlots, SetRepoKey, SealRepoKey, bucket
<1>c. ASSUME NEW p \in Saved, Goto(r, p),
             rot'[r].CurGen = rot[r].CurGen, rot'[r].NextGen = rot[r].NextGen
      PROVE  KeepInv'
    BY <1>c, <1>p, <1>q, Locals, KeepQuiet
<1>1. CASE VerifySeal(r)
    <2>1. CASE SealPasses(r)
        <3>1. PICK todo \in Rewrappable, p \in {"repo key", "rewrap"} :
                rot' = [rot EXCEPT ![r] = [rot[r] EXCEPT !.todo = todo]] /\ Goto(r, p)
            BY <1>1, <2>1 DEF VerifySeal
        <3>2. rot'[r].CurGen = rot[r].CurGen /\ rot'[r].NextGen = rot[r].NextGen
            BY <1>t, <3>1 DEF Rotator
        <3>3. QED
            BY <1>p, <1>c, <3>1, <3>2
    <2>2. CASE ~SealPasses(r)
        <3>1. pc'[r] = "idle"
            BY <1>1, <2>2, Locals DEF VerifySeal
        <3>2. QED
            BY <1>q, <3>1, Points, KeepQuiet
    <2>3. QED
        BY <2>1, <2>2
<1>2. ASSUME NEW m \in Slots, RewrapSlot(r, m) PROVE KeepInv'
    <2>1. /\ rot' = [rot EXCEPT ![r] = [rot[r] EXCEPT !.todo = rot[r].todo \ {m}]]
          /\ Goto(r, "seal slots")
        BY <1>2 DEF RewrapSlot
    <2>2. rot'[r].CurGen = rot[r].CurGen /\ rot'[r].NextGen = rot[r].NextGen
        BY <1>t, <2>1 DEF Rotator
    <2>3. QED
        BY <1>p, <1>c, <2>1, <2>2
<1>3. CASE SealSlots(r)
    <2>1. PICK p \in {"repo key", "rewrap"} : Continue(r, p)
        BY <1>3 DEF SealSlots
    <2>2. QED
        BY <1>p, <1>c, <2>1 DEF Continue
<1>4. CASE SetRepoKey(r) \/ SealRepoKey(r)
    BY <1>4, <1>p, <1>c DEF SetRepoKey, SealRepoKey, Continue
<1>5. QED
    BY <1>1, <1>2, <1>3, <1>4

(* The flip makes the next generation, which is complete, the active one. *)
LEMMA FlipMoves ==
    ASSUME TypeInv, KeepInv, NEW r \in Rotators, Flip(r), pointer = rot[r].pointerETag
    PROVE  /\ Active' = rot[r].NextGen /\ Active <= Active' /\ Active # Active'
           /\ pc[r] = "flip" /\ pc'[r] = "clean repo" /\ rot'[r] = rot[r] /\ rot[r].CurGen = Active
           /\ UNCHANGED <<repo, state, slot, pushing>>
<1>1. /\ pointer' = rot[r].NextGen /\ pc[r] = "flip" /\ Continue(r, "clean repo")
      /\ UNCHANGED <<repo, state, slot, pushing>>
    BY DEF Flip
<1>2. pc'[r] = "clean repo" /\ rot'[r] = rot[r]
    BY <1>1, Locals
<1>3. pc[r] \in Planned
    BY <1>1 DEF Planned, Switching
<1>4. rot[r].CurGen = Active /\ rot[r].NextGen = Active + 1
    BY <1>3 DEF TypeInv, PointerInv, Aimed, KeepInv, Spares
<1>5. pointer' = Active + 1
    BY <1>1, <1>4
<1>6. Active' = Active + 1
    BY <1>5, Numbers DEF Active
<1>7. Active <= Active' /\ Active # Active' /\ Active' = rot[r].NextGen
    BY <1>4, <1>6, Numbers
<1>8. QED
    BY <1>1, <1>2, <1>4, <1>7

(* The flip and the clean-up keep the active generation. *)
LEMMA KeepClean ==
    ASSUME OneMachine, TypeInv, TypeInv', KeepInv, NEW r \in Rotators,
           Flip(r) \/ CleanRepo(r) \/ CleanState(r) \/ CleanStaged(r)
    PROVE  KeepInv'
<1>t. /\ rot[r] \in Rotator /\ rot \in [Rotators -> Rotator]
      /\ repo \in [Gens -> {0} \cup Keys] /\ state \in [Gens -> State]
      /\ Active \in Gens
    BY Numbers DEF TypeInv, TypeOK
<1>p. /\ Cleaning = {"clean repo", "clean state", "clean staged"}
      /\ Cleaning \cap (Planned \cup Built \cup Saved \cup {"sweep", "idle"}) = {}
    BY DEF Built, Saved, Cleaning, Planned, Switching
<1>e. ASSUME NEW how, End(r, how), UNCHANGED <<pointer, repo, state, pushing>> PROVE KeepInv'
    BY <1>e, Locals, Points, KeepQuiet
<1>1. CASE Flip(r)
    <2>1. CASE pointer = rot[r].pointerETag
        <3>1. ActiveIsKept'
            BY ZenonT(60), <1>1, <2>1, FlipMoves, Points DEF KeepInv, Spares, ActiveIsKept, Switching
        <3>2. SessionsBehind'
            <4>1. ASSUME NEW q \in Pushes PROVE sess'[q].gen <= Active'
                <5>1. sess' = sess /\ Active <= Active' /\ Active' = rot[r].NextGen
                    BY <1>1, <2>1, FlipMoves DEF pushing
                <5>2. sess[q].gen \in Gens /\ rot[r].NextGen \in Gens /\ Active \in Nat
                    BY Numbers DEF TypeInv, TypeOK, Session, Rotator
                <5>3. sess[q].gen <= Active
                    BY DEF KeepInv, SessionsBehind
                <5>4. QED
                    BY <5>1, <5>2, <5>3, RotationAssumption DEF Gens
            <4>2. QED
                BY <4>1 DEF SessionsBehind
        <3>3. Spares(r)'
            BY <1>1, <1>p, <2>1, FlipMoves DEF Spares
        <3>4. QED
            BY <3>1, <3>2, <3>3, SparesAlone DEF KeepInv
    <2>2. CASE pointer # rot[r].pointerETag
        BY <1>1, <1>e, <2>2 DEF Flip
    <2>3. QED
        BY <2>1, <2>2
<1>2. ASSUME NEW p \in Cleaning, Continue(r, p), pc[r] \in Cleaning,
             UNCHANGED <<pointer, pushing>>,
             repo'[Active] = repo[Active], state'[Active] = state[Active]
      PROVE  KeepInv'
    <2>1. pc'[r] = p /\ rot'[r] = rot[r] /\ Active' = Active
        BY <1>2, Locals DEF Active
    <2>2. Spares(r)'
        BY <1>2, <1>p, <2>1 DEF KeepInv, Spares
    <2>3. QED
        BY <1>2, <2>1, <2>2, SparesAlone DEF KeepInv, ActiveIsKept, SessionsBehind, pushing
<1>3. CASE CleanRepo(r)
    <2>1. rot[r].CurGen # Active
        BY <1>3, <1>p DEF CleanRepo, KeepInv, Spares
    <2>2. QED
        BY <1>2, <1>3, <1>p, <1>t, <2>1 DEF CleanRepo
<1>4. CASE CleanState(r)
    <2>1. rot[r].CurGen # Active
        BY <1>4, <1>p DEF CleanState, KeepInv, Spares
    <2>2. QED
        BY <1>2, <1>4, <1>p, <1>t, <2>1 DEF CleanState
<1>5. CASE CleanStaged(r)
    BY <1>5, <1>e DEF CleanStaged
<1>6. QED
    BY <1>1, <1>3, <1>4, <1>5

(* A session neither empties the active generation nor enters another. *)
LEMMA KeepPush ==
    ASSUME ~Flaky, TypeInv, KeepInv, NEW q \in Pushes, Push(q)
    PROVE  KeepInv'
<1>t. /\ sess \in [Pushes -> Session] /\ sess[q] \in Session /\ sess[q].gen \in Gens
      /\ repo \in [Gens -> {0} \cup Keys] /\ state \in [Gens -> State]
      /\ q \in Tag /\ q # None /\ Active \in Gens
    BY Numbers, RotationAssumption DEF TypeInv, TypeOK, Session, Tag
<1>a. UNCHANGED <<pointer, rotating>> /\ Active' = Active
    BY DEF Push, PushUnwrap, PushPointer, PushOpen, PushETag, PushGet, PushSave, PushQuit,
           bucket, Active
<1>b. /\ \A g \in Gens : repo[g] # 0 => repo'[g] # 0
      /\ \A g \in Gens : state[g] # NoState => state'[g] # NoState
    <2>1. CASE PushOpen(q)
        BY <1>t, <2>1 DEF PushOpen
    <2>2. CASE PushSave(q)
        <3>1. PICK o \in {[by |-> sess[q].key, has |-> sess[q].has \cup {q}, tag |-> q]} :
                state' = state \/ state' = [state EXCEPT ![sess[q].gen] = o]
            BY <2>2 DEF PushSave
        <3>2. o # NoState
            BY <1>t, <3>1 DEF NoState
        <3>3. repo' = repo
            BY <2>2 DEF PushSave
        <3>4. QED
            BY <1>t, <3>1, <3>2, <3>3
    <2>3. CASE UNCHANGED <<repo, state>>
        BY <2>3
    <2>4. QED
        BY <2>1, <2>2, <2>3 DEF Push, PushUnwrap, PushPointer, PushETag, PushGet, PushQuit, bucket
<1>c. SessionsBehind'
    <2>1. \A u \in Pushes \ {q} : sess'[u] = sess[u]
        BY <1>t DEF Push, PushUnwrap, PushPointer, PushOpen, PushETag, PushGet, PushSave, PushQuit,
                    Leave
    <2>2. sess'[q].gen \in {1, Active, sess[q].gen}
        BY <1>t DEF Push, PushUnwrap, PushPointer, PushOpen, PushETag, PushGet, PushSave, PushQuit,
                    Leave, NewSession, CurrentGenerations, Session
    <2>3. 1 <= Active
        BY <1>t, RotationAssumption DEF Gens
    <2>4. QED
        BY <1>a, <2>1, <2>2, <2>3, Numbers DEF KeepInv, SessionsBehind
<1>d. ASSUME NEW r \in Rotators PROVE Spares(r)'
    <2>1. rot[r].NextGen \in Gens
        BY DEF TypeInv, TypeOK, Rotator
    <2>2. QED
        BY <1>a, <1>b, <2>1 DEF KeepInv, Spares, rotating
<1>e. QED
    BY <1>a, <1>b, <1>c, <1>d, <1>t DEF KeepInv, ActiveIsKept

(* Every step keeps the active generation. *)
LEMMA KeepNext ==
    ASSUME ~Flaky, OneMachine
    PROVE  TypeInv /\ TypeInv' /\ KeepInv /\ [Next]_vars => KeepInv'
<1> SUFFICES ASSUME TypeInv, TypeInv', KeepInv, [Next]_vars PROVE KeepInv'
    OBVIOUS
<1>1. CASE UNCHANGED vars
    BY <1>1 DEF KeepInv, ActiveIsKept, SessionsBehind, Spares, Active, vars, bucket, rotating,
                pushing
<1>2. CASE Next
    BY <1>2, KeepRead, KeepSweep, KeepBuild, KeepSwitch, KeepClean, KeepPush DEF Next, Rotate
<1>3. QED
    BY <1>1, <1>2

(* The first generation is there from the start. *)
LEMMA KeepInit == Init => KeepInv
<1> SUFFICES ASSUME Init PROVE KeepInv
    OBVIOUS
<1>1. Active = 1 /\ 1 \in Gens
    BY Firsts DEF Init, Active, FirstGeneration
<1>2. ActiveIsKept
    BY <1>1, Firsts DEF Init, ActiveIsKept
<1>3. SessionsBehind
    BY <1>1 DEF Init, SessionsBehind, NewSession
<1>4. \A r \in Rotators : Spares(r)
    BY Points DEF Init, Spares
<1>5. QED
    BY <1>2, <1>3, <1>4 DEF KeepInv

(* With one machine rotating at a time, wherever its rotations are killed  *)
(* and whatever sessions do meanwhile, no sweep and no clean-up deletes the *)
(* active generation (rotation.go, SweepStaleGenerations and Cleanup).     *)
THEOREM ActiveGenerationIsKept ==
    ASSUME ~Flaky, OneMachine
    PROVE  Spec => []ActiveIsKept
<1>1. TypeInv /\ TypeInv' /\ KeepInv /\ [Next]_vars => KeepInv'
    BY KeepNext
<1>2. KeepInv => ActiveIsKept
    BY DEF KeepInv
<1>3. QED
    BY <1>1, <1>2, KeepInit, TypeAlways, PTL DEF Spec

-----------------------------------------------------------------------------
(* What the records hold *)

(* The points between reading the source and comparing it with its ETag,    *)
(* and those after the comparison.                                          *)
Compared == {"copy", "check"}
Settled == {"target etag", "save"} \cup Saved

(* What a rotation has copied is the source, if its tag is still the one it *)
(* had; once that was so, it misses late pushes only, and what it writes is *)
(* what it has copied, under the new key.                                   *)
Copies(r) ==
    /\ rot[r].srcETag \in Pushes => rot[r].srcETag \in acked
    /\ pc[r] \in Compared /\ state[rot[r].CurGen].tag = rot[r].srcETag =>
         rot[r].table = state[rot[r].CurGen].has
    /\ pc[r] \in Settled => acked \ late \subseteq rot[r].table
    /\ pc[r] \in Built => repo[rot[r].NextGen] = rot[r].dekNew
    /\ pc[r] \in Saved => /\ state[rot[r].NextGen].has = rot[r].table
                          /\ state[rot[r].NextGen].by = rot[r].dekNew

(* What a session has read is the record, if its tag is still the one it    *)
(* had, and in the active generation the session's key is the repository's. *)
Reads(q) ==
    /\ q \in acked => step[q] = "ok"
    /\ sess[q].etag \in Pushes => sess[q].etag \in acked
    /\ step[q] \in {"idle", "pointer", "open", "etag"} => sess[q].etag = None /\ sess[q].has = {}
    /\ step[q] = "get" => sess[q].etag # None
    /\ step[q] = "save" /\ sess[q].etag = None => sess[q].has = {}
    /\ step[q] = "save" /\ state[sess[q].gen].tag = sess[q].etag =>
         sess[q].has = state[sess[q].gen].has
    /\ step[q] \in {"etag", "get", "save"} /\ sess[q].gen = Active => sess[q].key = repo[Active]

(* A record has a tag, and a push's tag says that the push was answered ok. *)
Tagged(g) ==
    /\ state[g].tag = None => state[g] = NoState
    /\ state[g].tag \in Pushes => state[g].tag \in acked

(* The active record is of the repository's key. *)
OneKey == state[Active].by = repo[Active]

ContentInv ==
    /\ LostOnlyIfLate /\ OneKey
    /\ \A g \in Gens : Tagged(g)
    /\ \A q \in Pushes : Reads(q)
    /\ \A r \in Rotators : Copies(r)

(* The points of a copy by what holds at them. *)
LEMMA CopyPoints ==
    /\ Compared \cup Settled \subseteq Built /\ Compared \cap Settled = {}
    /\ Saved \subseteq Settled
    /\ {"target etag", "save", "verify seal", "flip"} \subseteq Settled
    /\ {"verify seal", "flip"} \subseteq Saved
    /\ Settled \subseteq PastCheck
BY DEF Compared, Settled, Saved, Built, Switching, PastCheck

(* Sessions are not affected by a step that leaves the active generation    *)
(* alone, and writes to no generation of theirs but by deleting its record. *)
LEMMA ReadsKept ==
    ASSUME ContentInv, UNCHANGED pushing, Active' = Active, repo'[Active] = repo[Active],
           \A q \in Pushes : state'[sess[q].gen] \in {state[sess[q].gen], NoState}
    PROVE  \A q \in Pushes : Reads(q)'
<1> SUFFICES ASSUME NEW q \in Pushes PROVE Reads(q)'
    OBVIOUS
<1>1. sess' = sess /\ step' = step /\ acked' = acked
    BY DEF pushing
<1>2. Reads(q)
    BY DEF ContentInv
<1>3. step[q] = "save" /\ state'[sess[q].gen].tag = sess[q].etag =>
          sess[q].has = state'[sess[q].gen].has
    <2>1. CASE state'[sess[q].gen] = state[sess[q].gen]
        BY <1>2, <2>1 DEF Reads
    <2>2. CASE state'[sess[q].gen] = NoState
        BY <1>2, <2>2, Firsts DEF Reads
    <2>3. QED
        BY <2>1, <2>2
<1>4. QED
    BY <1>1, <1>2, <1>3 DEF Reads

(* A step of a rotation that writes neither objects nor what it has copied. *)
LEMMA ContentQuiet ==
    ASSUME OneMachine, ContentInv, NEW r \in Rotators, NEW p,
           pc'[r] = p,
           p \in Compared => pc[r] \in Compared, p \in Settled => pc[r] \in Settled,
           p \in Built => pc[r] \in Built, p \in Saved => pc[r] \in Saved,
           \/ /\ rot'[r].CurGen = rot[r].CurGen /\ rot'[r].NextGen = rot[r].NextGen
              /\ rot'[r].dekNew = rot[r].dekNew /\ rot'[r].table = rot[r].table
              /\ rot'[r].srcETag = rot[r].srcETag
           \/ /\ p \notin Built \cup Compared \cup Settled \cup Saved
              /\ rot'[r].srcETag \in {None, rot[r].srcETag},
           UNCHANGED <<pointer, repo, state, pushing>>
    PROVE  ContentInv'
<1>1. Active' = Active /\ acked' = acked /\ late' = late
    BY DEF Active, pushing
<1>2. Copies(r)'
    <2>1. None \notin Pushes
        BY RotationAssumption
    <2>2. Copies(r)
        BY DEF ContentInv
    <2>3. QED
        BY <1>1, <2>1, <2>2 DEF Copies
<1>3. \A s \in Rotators : Copies(s)'
    BY <1>2 DEF OneMachine
<1>4. \A q \in Pushes : Reads(q)'
    BY <1>1, ReadsKept
<1>5. LostOnlyIfLate' /\ OneKey' /\ \A g \in Gens : Tagged(g)'
    BY <1>1 DEF ContentInv, LostOnlyIfLate, OneKey, Tagged
<1>6. QED
    BY <1>3, <1>4, <1>5 DEF ContentInv

(* The records at the start. *)
LEMMA ContentInit == Init => ContentInv
<1> SUFFICES ASSUME Init PROVE ContentInv
    OBVIOUS
<1>1. Active = 1 /\ 1 \in Gens /\ None \notin Pushes
    BY Firsts, RotationAssumption DEF Init, Active, FirstGeneration
<1>2. LostOnlyIfLate /\ OneKey
    BY <1>1 DEF Init, LostOnlyIfLate, OneKey
<1>3. \A g \in Gens : Tagged(g)
    <2>1. 0 \notin Pushes /\ 0 # None
        BY RotationAssumption
    <2>2. QED
        BY <1>1, <2>1, Firsts DEF Init, Tagged
<1>4. \A q \in Pushes : Reads(q)
    BY <1>1 DEF Init, Reads, NewSession
<1>5. \A r \in Rotators : Copies(r)
    <2>1. ASSUME NEW r \in Rotators PROVE Copies(r)
        <3>1. pc[r] = "idle" /\ rot[r].srcETag = None
            BY DEF Init, NewRotator
        <3>2. pc[r] \notin Built
            BY <3>1, Points
        <3>3. QED
            BY <1>1, <3>1, <3>2, CopyPoints, Points DEF Copies
    <2>2. QED
        BY <2>1
<1>6. QED
    BY <1>2, <1>3, <1>4, <1>5 DEF ContentInv

(* Up to the sweep list nothing is copied. *)
LEMMA ContentRead ==
    ASSUME OneMachine, TypeInv, ContentInv, NEW r \in Rotators,
           \/ Start(r) \/ ReadPointerETag(r) \/ ReadPointer(r)
           \/ LoadStaged(r) \/ StageNext(r) \/ SweepList(r) \/ Kill(r)
    PROVE  ContentInv'
<1>t. rot[r] \in Rotator /\ rot \in [Rotators -> Rotator] /\ pc \in [Rotators -> RotatorPoints]
    BY DEF TypeInv, TypeOK
<1>p. {"idle", "pointer etag", "pointer", "staged", "stage", "sweep list", "sweep", "open source"}
        \cap (Built \cup Compared \cup Settled \cup Saved) = {}
    BY DEF Built, Compared, Settled, Saved, Switching
<1>o. UNCHANGED <<pointer, repo, state, pushing>>
    BY DEF Start, ReadPointerETag, ReadPointer, LoadStaged, StageNext, SweepList, Kill, bucket
<1>q. PICK p \in {"idle", "pointer etag", "pointer", "staged", "stage", "sweep list", "sweep",
                  "open source"} : pc'[r] = p
    BY <1>t, Locals
       DEF Start, ReadPointerETag, ReadPointer, LoadStaged, StageNext, SweepList, Kill,
           Goto, Continue, End
<1>s. rot'[r].srcETag \in {None, rot[r].srcETag}
    <2>1. CASE Start(r)
        <3>1. PICK n \in {runs + 1}, k \in {slot[Owner[r]]} :
                rot' = [rot EXCEPT ![r] = [NewRotator EXCEPT !.run = n, !.dekOld = k]]
            BY <2>1 DEF Start
        <3>2. QED
            BY <1>t, <3>1 DEF NewRotator
    <2>2. CASE Kill(r)
        BY <1>t, <2>2 DEF Kill, End, NewRotator
    <2>a. CASE ReadPointerETag(r)
        <3>1. PICK etag \in {pointer} \cup {e \in {0} : Flaky} :
                rot' = [rot EXCEPT ![r] = [rot[r] EXCEPT !.pointerETag = etag]]
            BY <2>a DEF ReadPointerETag
        <3>2. QED
            BY <1>t, <3>1 DEF Rotator
    <2>b. CASE ReadPointer(r)
        <3>1. CASE rot' = [rot EXCEPT ![r].CurGen = Active, ![r].NextGen = NextGeneration(Active)]
            BY <1>t, <3>1 DEF Rotator
        <3>2. CASE rot' = [rot EXCEPT ![r].CurGen = FirstGeneration,
                                      ![r].NextGen = NextGeneration(FirstGeneration),
                                      ![r].pointerETag = 0]
            BY <1>t, <3>2 DEF Rotator
        <3>3. QED
            BY <2>b, <3>1, <3>2 DEF ReadPointer
    <2>3. CASE LoadStaged(r) \/ StageNext(r) \/ SweepList(r)
        BY ZenonT(60), <1>t, <2>3 DEF LoadStaged, StageNext, SweepList, Continue, Rotator
    <2>4. QED
        BY <2>1, <2>2, <2>a, <2>b, <2>3
<1>1. QED
    BY <1>o, <1>p, <1>q, <1>s, ContentQuiet

(* The sweep only deletes. *)
LEMMA ContentSweep ==
    ASSUME OneMachine, TypeInv, KeepInv, ContentInv, NEW r \in Rotators, NEW g \in Gens, SweepOne(r, g)
    PROVE  ContentInv'
<1>t. /\ rot[r] \in Rotator /\ rot \in [Rotators -> Rotator]
      /\ repo \in [Gens -> {0} \cup Keys] /\ state \in [Gens -> State]
      /\ Active \in Gens
    BY Numbers DEF TypeInv, TypeOK
<1>p. /\ "sweep" \in Planned
      /\ {"sweep", "open source"} \cap (Built \cup Compared \cup Settled \cup Saved) = {}
    BY DEF Planned, Built, Compared, Settled, Saved, Switching
<1>1. /\ pc[r] = "sweep" /\ g \in rot[r].doomed
      /\ repo' = [repo EXCEPT ![g] = 0] /\ state' = [state EXCEPT ![g] = NoState]
      /\ rot' = [rot EXCEPT ![r] = [rot[r] EXCEPT !.doomed = rot[r].doomed \ {g}]]
      /\ UNCHANGED <<pointer, pushing>> /\ Active' = Active
      /\ acked' = acked /\ late' = late /\ sess' = sess
    BY DEF SweepOne, Active, pushing
<1>2. pc'[r] \in {"sweep", "open source"}
    BY <1>t, Locals DEF SweepOne
<1>3. g # Active
    BY <1>p, <1>1 DEF KeepInv, Spares
<1>4. LostOnlyIfLate' /\ OneKey'
    BY <1>1, <1>3, <1>t DEF ContentInv, LostOnlyIfLate, OneKey
<1>5. \A u \in Gens : Tagged(u)'
    <2>1. None \notin Pushes
        BY RotationAssumption
    <2>2. QED
        BY <1>1, <1>t, <2>1, Firsts DEF ContentInv, Tagged
<1>6. \A q \in Pushes : Reads(q)'
    <2>1. \A q \in Pushes : sess[q].gen \in Gens
        BY DEF TypeInv, TypeOK, Session
    <2>2. QED
        BY <1>1, <1>3, <1>t, <2>1, ReadsKept
<1>7. Copies(r)'
    <2>1. rot'[r].srcETag = rot[r].srcETag
        BY <1>1, <1>t DEF Rotator
    <2>2. pc'[r] \notin Built \cup Compared \cup Settled \cup Saved
        BY <1>p, <1>2
    <2>3. QED
        BY <1>1, <2>1, <2>2 DEF ContentInv, Copies
<1>8. QED
    BY <1>4, <1>5, <1>6, <1>7 DEF ContentInv, OneMachine

(* The copy: what it holds and writes. *)
LEMMA ContentBuild ==
    ASSUME OneMachine, TypeInv, KeepInv, ContentInv, NEW r \in Rotators,
           \/ OpenSource(r) \/ OpenTarget(r)
           \/ LoadETag(r) \/ LoadState(r) \/ CopyBundle(r) \/ CheckSource(r)
           \/ TargetETag(r) \/ SaveTarget(r)
    PROVE  ContentInv'
<1>t. /\ rot[r] \in Rotator /\ rot \in [Rotators -> Rotator]
      /\ repo \in [Gens -> {0} \cup Keys] /\ state \in [Gens -> State]
      /\ Active \in Gens
    BY Numbers DEF TypeInv, TypeOK
<1>p. /\ {"open source", "open target"} \cap Built = {}
      /\ {"load etag", "load"} \subseteq Built \ (Compared \cup Settled \cup Saved)
      /\ {"copy", "check"} \subseteq Compared \cap Built
      /\ {"copy", "check"} \cap (Settled \cup Saved) = {}
      /\ {"target etag", "save"} \subseteq Settled \ (Compared \cup Saved)
      /\ {"target etag", "save"} \subseteq Built
      /\ "verify seal" \in Saved /\ "verify seal" \notin Compared
      /\ "idle" \notin Built
    BY DEF Built, Compared, Settled, Saved, Switching
<1>q. pc[r] \in Planned
    BY <1>p, Points DEF OpenSource, OpenTarget, LoadETag, LoadState, CopyBundle, CheckSource,
                        TargetETag, SaveTarget, Planned
<1>n. /\ rot[r].CurGen = Active /\ rot[r].NextGen # Active /\ rot[r].NextGen \in Gens
      /\ \A q \in Pushes : sess[q].gen # rot[r].NextGen
    BY <1>q, NextIsApart DEF KeepInv, Spares
<1>k. acked' = acked /\ late' = late /\ UNCHANGED <<pointer, pushing>> /\ Active' = Active
    BY DEF OpenSource, OpenTarget, LoadETag, LoadState, CopyBundle, CheckSource,
           TargetETag, SaveTarget, bucket, pushing, Active
<1>h. Copies(r)
    BY DEF ContentInv
<1>f. ASSUME End(r, "failed"), UNCHANGED <<repo, state>> PROVE ContentInv'
    <2>1. pc'[r] = "idle" /\ rot'[r].srcETag = None
        BY <1>f, Locals DEF NewRotator
    <2>2. QED
        BY <1>f, <1>k, <1>p, <2>1, CopyPoints, ContentQuiet
<1>c. ASSUME NEW p, Continue(r, p), UNCHANGED <<repo, state>>,
             p \in Compared => pc[r] \in Compared, p \in Settled => pc[r] \in Settled,
             p \in Built => pc[r] \in Built, p \in Saved => pc[r] \in Saved
      PROVE  ContentInv'
    <2>1. pc'[r] = p /\ rot'[r] = rot[r]
        BY <1>c, Locals
    <2>2. QED
        BY <1>c, <1>k, <2>1, ContentQuiet
(* It is enough to look at the rotation when no object is written. *)
<1>o. ASSUME UNCHANGED <<repo, state>>, Copies(r)' PROVE ContentInv'
    <2>1. \A q \in Pushes : Reads(q)'
        BY <1>k, <1>o, ReadsKept
    <2>2. LostOnlyIfLate' /\ OneKey' /\ \A g \in Gens : Tagged(g)'
        BY <1>k, <1>o DEF ContentInv, LostOnlyIfLate, OneKey, Tagged
    <2>3. QED
        BY <1>o, <2>1, <2>2 DEF ContentInv, OneMachine
<1>1. CASE OpenSource(r)
    <2>1. CASE Continue(r, "open target")
        BY <1>1, <1>c, <1>p, <2>1, CopyPoints DEF OpenSource, bucket
    <2>2. QED
        BY <1>1, <1>f, <2>1 DEF OpenSource, bucket
<1>2. CASE OpenTarget(r)
    <2>1. CASE repo[rot[r].NextGen] \in {0, rot[r].dekNew}
        <3>1. pc'[r] = "load etag" /\ rot'[r] = rot[r]
            BY <1>2, <2>1, Locals DEF OpenTarget
        <3>2. repo' = [repo EXCEPT ![rot[r].NextGen] = rot[r].dekNew] /\ state' = state
            BY <1>2, <2>1 DEF OpenTarget
        <3>3. Copies(r)'
            BY <1>t, <1>p, <1>n, <1>k, <1>h, <3>1, <3>2 DEF Copies
        <3>4. LostOnlyIfLate' /\ OneKey' /\ \A g \in Gens : Tagged(g)'
            BY <1>t, <1>n, <1>k, <3>2 DEF ContentInv, LostOnlyIfLate, OneKey, Tagged
        <3>5. \A q \in Pushes : Reads(q)'
            BY <1>t, <1>n, <1>k, <3>2, ReadsKept
        <3>6. QED
            BY <3>3, <3>4, <3>5 DEF ContentInv, OneMachine
    <2>2. CASE repo[rot[r].NextGen] \notin {0, rot[r].dekNew}
        BY <1>2, <1>f, <2>2 DEF OpenTarget
    <2>3. QED
        BY <2>1, <2>2
<1>3. CASE LoadETag(r)
    <2> DEFINE source == state[rot[r].CurGen]
    <2>1. /\ rot' = [rot EXCEPT ![r] = [rot[r] EXCEPT !.srcETag = source.tag, !.table = {}]]
          /\ Goto(r, IF source = NoState THEN "check" ELSE "load")
          /\ UNCHANGED <<repo, state>> /\ pc[r] = "load etag"
        BY <1>3 DEF LoadETag, bucket
    <2>2. source # NoState
        BY <1>n DEF KeepInv, ActiveIsKept
    <2>3. pc'[r] = "load"
        BY <2>1, <2>2, Locals
    <2>4. /\ rot'[r].CurGen = rot[r].CurGen /\ rot'[r].NextGen = rot[r].NextGen
          /\ rot'[r].dekNew = rot[r].dekNew /\ rot'[r].srcETag = source.tag
        BY <1>t, <2>1 DEF Rotator
    <2>5. source.tag \in Pushes => source.tag \in acked
        BY <1>t, <1>n DEF ContentInv, Tagged
    <2> HIDE DEF source
    <2>6. repo[rot[r].NextGen] = rot[r].dekNew
        BY <1>p, <1>h, <2>1 DEF Copies
    <2>7. pc'[r] \notin Compared \cup Settled \cup Saved
        BY <1>p, <2>3
    <2>8. Copies(r)'
        <3>1. rot'[r].srcETag \in Pushes => rot'[r].srcETag \in acked'
            BY <1>k, <2>4, <2>5
        <3>2. repo'[rot'[r].NextGen] = rot'[r].dekNew
            BY <2>1, <2>4, <2>6
        <3>3. QED
            BY <2>7, <3>1, <3>2 DEF Copies
    <2>9. QED
        BY <1>o, <2>1, <2>8
<1>4. CASE LoadState(r)
    <2>1. CASE rot' = [rot EXCEPT ![r].table = state[rot[r].CurGen].has] /\ Goto(r, "copy")
        <3>1. /\ rot'[r].CurGen = rot[r].CurGen /\ rot'[r].NextGen = rot[r].NextGen
              /\ rot'[r].dekNew = rot[r].dekNew /\ rot'[r].srcETag = rot[r].srcETag
              /\ rot'[r].table = state[rot[r].CurGen].has
            BY <1>t, <2>1 DEF Rotator
        <3>2. pc'[r] = "copy" /\ pc[r] = "load" /\ UNCHANGED <<repo, state>>
            BY <1>4, <2>1, Locals DEF LoadState, bucket
        <3>3. Copies(r)'
            BY <1>p, <1>k, <1>h, <3>1, <3>2 DEF Copies
        <3>4. QED
            BY <1>o, <3>2, <3>3
    <2>2. QED
        BY <1>4, <1>f, <2>1 DEF LoadState, bucket
<1>5. CASE CopyBundle(r)
    <2>1. CASE Continue(r, "check")
        BY <1>5, <1>c, <1>p, <2>1 DEF CopyBundle, bucket
    <2>2. QED
        BY <1>5, <1>f, <2>1 DEF CopyBundle, bucket
<1>6. CASE CheckSource(r)
    <2>0. pc[r] = "check" /\ UNCHANGED <<repo, state>>
        BY <1>6 DEF CheckSource, bucket
    <2>1. CASE state[rot[r].CurGen].tag = rot[r].srcETag
        <3>1. pc'[r] = "target etag" /\ rot'[r] = rot[r]
            BY <1>6, <2>1, Locals DEF CheckSource
        <3>2. rot[r].table = state[Active].has
            BY <1>p, <1>n, <1>h, <2>0, <2>1 DEF Copies
        <3>3. acked \ late \subseteq rot[r].table
            BY <3>2 DEF ContentInv, LostOnlyIfLate
        <3>4. Copies(r)'
            BY <1>p, <1>k, <1>h, <2>0, <3>1, <3>3 DEF Copies
        <3>5. QED
            BY <1>o, <2>0, <3>4
    <2>2. CASE rot' = [rot EXCEPT ![r].round = @ + 1] /\ Goto(r, "load etag")
        <3>1. /\ rot'[r].CurGen = rot[r].CurGen /\ rot'[r].NextGen = rot[r].NextGen
              /\ rot'[r].dekNew = rot[r].dekNew /\ rot'[r].srcETag = rot[r].srcETag
              /\ rot'[r].table = rot[r].table
            BY <1>t, <2>2 DEF Rotator
        <3>2. pc'[r] = "load etag"
            BY <2>2, Locals
        <3>3. QED
            BY <1>p, <1>k, <2>0, <3>1, <3>2, ContentQuiet
    <2>3. QED
        BY <1>6, <1>f, <2>0, <2>1, <2>2 DEF CheckSource
<1>7. CASE TargetETag(r)
    <2>1. /\ rot' = [rot EXCEPT ![r].prevETag = state[rot[r].NextGen].tag] /\ Goto(r, "save")
          /\ pc[r] = "target etag" /\ UNCHANGED <<repo, state>>
        BY <1>7 DEF TargetETag, bucket
    <2>2. /\ rot'[r].CurGen = rot[r].CurGen /\ rot'[r].NextGen = rot[r].NextGen
          /\ rot'[r].dekNew = rot[r].dekNew /\ rot'[r].srcETag = rot[r].srcETag
          /\ rot'[r].table = rot[r].table
        BY <1>t, <2>1 DEF Rotator
    <2>3. pc'[r] = "save"
        BY <2>1, Locals
    <2>4. QED
        BY <1>p, <1>k, <2>1, <2>2, <2>3, ContentQuiet
<1>8. CASE SaveTarget(r)
    <2>1. CASE state[rot[r].NextGen].tag = rot[r].prevETag
        <3> DEFINE o == [by |-> rot[r].dekNew, has |-> rot[r].table, tag |-> rot[r].run]
        <3>1. pc'[r] = "verify seal" /\ rot'[r] = rot[r] /\ pc[r] = "save"
            BY <1>8, <2>1, Locals DEF SaveTarget
        <3>2. state' = [state EXCEPT ![rot[r].NextGen] = o] /\ repo' = repo
            BY <1>8, <2>1 DEF SaveTarget
        <3>3. o.has = rot[r].table /\ o.by = rot[r].dekNew
            OBVIOUS
        <3>4. o.tag \notin Pushes /\ o.tag # None
            BY <1>t, RotationAssumption DEF Rotator
        <3> HIDE DEF o
        <3>5. Copies(r)'
            BY <1>t, <1>p, <1>n, <1>k, <1>h, <3>1, <3>2, <3>3 DEF Copies
        <3>6. LostOnlyIfLate' /\ OneKey' /\ \A g \in Gens : Tagged(g)'
            BY <1>t, <1>n, <1>k, <3>2, <3>4 DEF ContentInv, LostOnlyIfLate, OneKey, Tagged
        <3>7. \A q \in Pushes : Reads(q)'
            <4>1. \A q \in Pushes : sess[q].gen \in Gens
                BY DEF TypeInv, TypeOK, Session
            <4>2. QED
                BY <1>t, <1>n, <1>k, <3>2, <4>1, ReadsKept
        <3>8. QED
            BY <3>5, <3>6, <3>7 DEF ContentInv, OneMachine
    <2>2. CASE state[rot[r].NextGen].tag # rot[r].prevETag
        BY <1>8, <1>f, <2>2 DEF SaveTarget
    <2>3. QED
        BY <2>1, <2>2
<1>9. QED
    BY <1>1, <1>2, <1>3, <1>4, <1>5, <1>6, <1>7, <1>8

(* The switch writes no record; the flip turns to the one that was written. *)
LEMMA ContentSwitch ==
    ASSUME OneMachine, TypeInv, KeepInv, ContentInv, NEW r \in Rotators,
           \/ VerifySeal(r) \/ (\E m \in Slots : RewrapSlot(r, m)) \/ SealSlots(r)
           \/ SetRepoKey(r) \/ SealRepoKey(r) \/ Flip(r)
    PROVE  ContentInv'
<1>t. rot[r] \in Rotator /\ rot \in [Rotators -> Rotator]
    BY DEF TypeInv, TypeOK
<1>p. /\ Saved = {"verify seal", "rewrap", "seal slots", "repo key", "seal repo key", "flip"}
      /\ Saved \subseteq Built \cap Settled \cap Planned
      /\ Saved \cap Compared = {}
      /\ {"idle", "clean repo"} \cap (Built \cup Compared \cup Settled \cup Saved) = {}
    BY DEF Built, Saved, Planned, Switching, Compared, Settled
<1>q. pc[r] \in Saved /\ UNCHANGED <<repo, state, pushing>>
    BY <1>p DEF VerifySeal, RewrapSlot, SealSlots, SetRepoKey, SealRepoKey, Flip, bucket
<1>h. Copies(r)
    BY DEF ContentInv
<1>c. ASSUME NEW p \in Saved, Goto(r, p), pointer' = pointer,
             rot'[r].CurGen = rot[r].CurGen, rot'[r].NextGen = rot[r].NextGen,
             rot'[r].dekNew = rot[r].dekNew, rot'[r].table = rot[r].table,
             rot'[r].srcETag = rot[r].srcETag
      PROVE  ContentInv'
    <2>1. pc'[r] = p
        BY <1>c, Locals
    <2>2. QED
        BY <1>c, <1>p, <1>q, <2>1, ContentQuiet
<1>f. ASSUME End(r, "failed"), pointer' = pointer PROVE ContentInv'
    <2>1. pc'[r] = "idle" /\ rot'[r].srcETag = None
        BY <1>f, Locals DEF NewRotator
    <2>2. QED
        BY <1>f, <1>p, <1>q, <2>1, ContentQuiet
<1>1. CASE VerifySeal(r)
    <2>1. CASE SealPasses(r)
        <3>1. PICK todo \in Rewrappable, p \in {"repo key", "rewrap"} :
                rot' = [rot EXCEPT ![r] = [rot[r] EXCEPT !.todo = todo]] /\ Goto(r, p)
            BY <1>1, <2>1 DEF VerifySeal
        <3>2. /\ rot'[r].CurGen = rot[r].CurGen /\ rot'[r].NextGen = rot[r].NextGen
              /\ rot'[r].dekNew = rot[r].dekNew /\ rot'[r].table = rot[r].table
              /\ rot'[r].srcETag = rot[r].srcETag
            BY <1>t, <3>1 DEF Rotator
        <3>3. QED
            BY <1>1, <1>p, <1>c, <3>1, <3>2 DEF VerifySeal, bucket
    <2>2. CASE ~SealPasses(r)
        BY <1>1, <1>f, <2>2 DEF VerifySeal, bucket
    <2>3. QED
        BY <2>1, <2>2
<1>2. ASSUME NEW m \in Slots, RewrapSlot(r, m) PROVE ContentInv'
    <2>1. /\ rot' = [rot EXCEPT ![r] = [rot[r] EXCEPT !.todo = rot[r].todo \ {m}]]
          /\ Goto(r, "seal slots")
        BY <1>2 DEF RewrapSlot
    <2>2. /\ rot'[r].CurGen = rot[r].CurGen /\ rot'[r].NextGen = rot[r].NextGen
          /\ rot'[r].dekNew = rot[r].dekNew /\ rot'[r].table = rot[r].table
          /\ rot'[r].srcETag = rot[r].srcETag
        BY <1>t, <2>1 DEF Rotator
    <2>3. QED
        BY <1>2, <1>p, <1>c, <2>1, <2>2 DEF RewrapSlot
<1>3. CASE SealSlots(r)
    <2>1. PICK p \in {"repo key", "rewrap"} : Continue(r, p)
        BY <1>3 DEF SealSlots
    <2>2. QED
        BY <1>3, <1>p, <1>c, <2>1 DEF Continue, SealSlots
<1>4. CASE SetRepoKey(r) \/ SealRepoKey(r)
    BY <1>4, <1>p, <1>c DEF SetRepoKey, SealRepoKey, Continue
<1>5. CASE Flip(r)
    <2>1. CASE pointer = rot[r].pointerETag
        <3>1. /\ Active' = rot[r].NextGen /\ pc[r] = "flip" /\ pc'[r] = "clean repo"
              /\ rot'[r] = rot[r] /\ rot[r].CurGen = Active
              /\ repo' = repo /\ state' = state /\ step' = step /\ sess' = sess
              /\ acked' = acked /\ late' = late
            BY <1>5, <2>1, FlipMoves DEF pushing
        <3>2. Copies(r)'
            BY <1>p, <1>h, <3>1 DEF Copies
        <3>3. LostOnlyIfLate' /\ OneKey'
            BY <1>p, <1>h, <3>1 DEF Copies, LostOnlyIfLate, OneKey
        <3>4. \A g \in Gens : Tagged(g)'
            BY <3>1 DEF ContentInv, Tagged
        <3>5. \A q \in Pushes : sess[q].gen # Active'
            BY <1>p, <3>1, NextIsApart DEF KeepInv
        <3>6. \A q \in Pushes : Reads(q)'
            BY <3>1, <3>5 DEF ContentInv, Reads
        <3>7. QED
            BY <3>2, <3>3, <3>4, <3>6 DEF ContentInv, OneMachine
    <2>2. CASE pointer # rot[r].pointerETag
        BY <1>5, <1>f, <2>2 DEF Flip
    <2>3. QED
        BY <2>1, <2>2
<1>6. QED
    BY <1>1, <1>2, <1>3, <1>4, <1>5

(* The clean-up deletes what is no longer active. *)
LEMMA ContentClean ==
    ASSUME OneMachine, TypeInv, KeepInv, ContentInv, NEW r \in Rotators,
           CleanRepo(r) \/ CleanState(r) \/ CleanStaged(r)
    PROVE  ContentInv'
<1>t. /\ rot[r] \in Rotator /\ repo \in [Gens -> {0} \cup Keys] /\ state \in [Gens -> State]
      /\ Active \in Gens /\ rot[r].CurGen \in Gens
    BY Numbers, Locals DEF TypeInv, TypeOK
<1>p. /\ Cleaning = {"clean repo", "clean state", "clean staged"}
      /\ (Cleaning \cup {"idle"}) \cap (Built \cup Compared \cup Settled \cup Saved) = {}
    BY DEF Cleaning, Built, Saved, Switching, Compared, Settled
<1>k. /\ acked' = acked /\ late' = late /\ UNCHANGED <<pointer, pushing>> /\ Active' = Active
      /\ pc[r] \in Cleaning
    BY <1>p DEF CleanRepo, CleanState, CleanStaged, pushing, Active
<1>n. rot[r].CurGen # Active
    BY <1>k DEF KeepInv, Spares
<1>1. CASE CleanRepo(r)
    <2>1. pc'[r] = "clean state" /\ rot'[r] = rot[r]
        BY <1>1, Locals DEF CleanRepo
    <2>2. repo' = [repo EXCEPT ![rot[r].CurGen] = 0] /\ state' = state
        BY <1>1 DEF CleanRepo
    <2>3. LostOnlyIfLate' /\ OneKey' /\ \A g \in Gens : Tagged(g)'
        BY <1>t, <1>n, <1>k, <2>2 DEF ContentInv, LostOnlyIfLate, OneKey, Tagged
    <2>4. \A q \in Pushes : Reads(q)'
        BY <1>t, <1>n, <1>k, <2>2, ReadsKept
    <2>5. Copies(r)'
        BY <1>p, <1>k, <2>1 DEF ContentInv, Copies
    <2>6. QED
        BY <2>3, <2>4, <2>5 DEF ContentInv, OneMachine
<1>2. CASE CleanState(r)
    <2>1. pc'[r] = "clean staged" /\ rot'[r] = rot[r]
        BY <1>2, Locals DEF CleanState
    <2>2. /\ repo' = repo
          /\ state' \in {state, [state EXCEPT ![rot[r].CurGen] = NoState]}
        BY <1>2 DEF CleanState
    <2>3. LostOnlyIfLate' /\ OneKey'
        BY <1>t, <1>n, <1>k, <2>2 DEF ContentInv, LostOnlyIfLate, OneKey
    <2>4. \A g \in Gens : Tagged(g)'
        <3>1. None \notin Pushes
            BY RotationAssumption
        <3>2. QED
            BY <1>t, <1>k, <2>2, <3>1, Firsts DEF ContentInv, Tagged
    <2>5. \A q \in Pushes : Reads(q)'
        <3>1. \A q \in Pushes : sess[q].gen \in Gens
            BY DEF TypeInv, TypeOK, Session
        <3>2. QED
            BY <1>t, <1>n, <1>k, <2>2, <3>1, ReadsKept
    <2>6. Copies(r)'
        BY <1>p, <1>k, <2>1 DEF ContentInv, Copies
    <2>7. QED
        BY <2>3, <2>4, <2>5, <2>6 DEF ContentInv, OneMachine
<1>3. CASE CleanStaged(r)
    <2>1. pc'[r] = "idle" /\ rot'[r].srcETag = None
        <3>1. End(r, "done")
            BY <1>3 DEF CleanStaged
        <3>2. QED
            BY <3>1, Locals DEF NewRotator
    <2>2. QED
        BY <1>3, <1>k, <1>p, <2>1, ContentQuiet DEF CleanStaged
<1>4. QED
    BY <1>1, <1>2, <1>3

(* A session's step that writes no record. *)
LEMMA ContentLook ==
    ASSUME TypeInv, ContentInv, NEW q \in Pushes, Reads(q)', Active' = Active,
           UNCHANGED <<state, rotating, acked, late>>,
           \A g \in Gens : repo[g] # 0 => repo'[g] = repo[g],
           repo'[Active] = repo[Active],
           \A r \in Rotators : pc[r] \in Built => repo[rot[r].NextGen] # 0,
           \A u \in Pushes \ {q} : step'[u] = step[u] /\ sess'[u] = sess[u]
    PROVE  ContentInv'
<1>1. LostOnlyIfLate' /\ OneKey' /\ \A g \in Gens : Tagged(g)'
    BY DEF ContentInv, LostOnlyIfLate, OneKey, Tagged
<1>2. \A u \in Pushes \ {q} : Reads(u)'
    BY DEF ContentInv, Reads
<1>3. \A r \in Rotators : Copies(r)'
    BY Locals DEF ContentInv, Copies, rotating
<1>4. QED
    BY <1>1, <1>2, <1>3 DEF ContentInv

(* Everything but the write of the state record. *)
LEMMA ContentPush ==
    ASSUME ~Flaky, TypeInv, KeepInv, ContentInv, NEW q \in Pushes,
           \/ PushUnwrap(q) \/ PushPointer(q) \/ PushOpen(q)
           \/ PushETag(q) \/ PushGet(q) \/ PushQuit(q)
    PROVE  ContentInv'
<1>t. /\ sess \in [Pushes -> Session] /\ sess[q] \in Session /\ sess[q].gen \in Gens
      /\ repo \in [Gens -> {0} \cup Keys] /\ state \in [Gens -> State]
      /\ step \in [Pushes -> {"idle", "pointer", "open", "etag", "get", "save", "ok"}]
      /\ Active \in Gens
    BY Numbers DEF TypeInv, TypeOK, Session
<1>n. \A r \in Rotators : pc[r] \in Built => repo[rot[r].NextGen] # 0
    BY DEF KeepInv, Spares
<1>i. None \notin Pushes
    BY RotationAssumption
<1>h. Reads(q) /\ \A g \in Gens : Tagged(g)
    BY DEF ContentInv
<1>k. /\ UNCHANGED <<state, rotating, acked, late>> /\ Active' = Active
      /\ acked' = acked /\ state' = state /\ q \notin acked
      /\ \A u \in Pushes \ {q} : step'[u] = step[u] /\ sess'[u] = sess[u]
    BY <1>t, <1>h DEF PushUnwrap, PushPointer, PushOpen, PushETag, PushGet, PushQuit, bucket, Active,
               Leave, Move, Reads
<1>a. repo[Active] # 0
    BY DEF KeepInv, ActiveIsKept
<1>o. ASSUME Reads(q)', repo' = repo PROVE ContentInv'
    BY <1>k, <1>n, <1>o, ContentLook
<1>l. ASSUME Leave(q, "idle") PROVE Reads(q)'
    <2>1. step'[q] = "idle" /\ sess'[q].etag = None /\ sess'[q].has = {}
        BY <1>t, <1>l DEF Leave, Move, NewSession
    <2>2. QED
        BY <1>i, <1>k, <2>1 DEF Reads
<1>1. CASE PushUnwrap(q)
    <2>1. step'[q] = "pointer" /\ repo' = repo /\ step[q] = "idle"
        BY <1>1, <1>t DEF PushUnwrap, Move, bucket
    <2>2. sess'[q].etag = sess[q].etag /\ sess'[q].has = sess[q].has
        BY <1>1, <1>t DEF PushUnwrap, Session
    <2>3. Reads(q)'
        BY <1>i, <1>h, <1>k, <2>1, <2>2 DEF Reads
    <2>4. QED
        BY <1>o, <2>1, <2>3
<1>2. CASE PushPointer(q)
    <2>1. step'[q] = "open" /\ repo' = repo /\ step[q] = "pointer"
        BY <1>2, <1>t DEF PushPointer, Move, bucket
    <2>2. sess'[q].etag = sess[q].etag /\ sess'[q].has = sess[q].has
        BY <1>2, <1>t DEF PushPointer, Session
    <2>3. Reads(q)'
        BY <1>i, <1>h, <1>k, <2>1, <2>2 DEF Reads
    <2>4. QED
        BY <1>o, <2>1, <2>3
<1>3. CASE PushOpen(q)
    <2>0. step[q] = "open"
        BY <1>3 DEF PushOpen
    <2>1. CASE /\ repo[sess[q].gen] = sess[q].key
               /\ Move(q, IF sess[q].create THEN "save" ELSE "etag")
               /\ UNCHANGED <<repo, sess, reborn>>
        <3>1. step'[q] \in {"save", "etag"} /\ sess' = sess /\ repo' = repo
            BY <1>t, <2>1 DEF Move
        <3>2. Reads(q)'
            <4>1. state[sess[q].gen].tag = None => state[sess[q].gen].has = {}
                BY <1>t, <1>h, Firsts DEF Tagged
            <4>2. sess[q].etag = None /\ sess[q].has = {}
                BY <1>h, <2>0 DEF Reads
            <4>3. QED
                BY <1>i, <1>k, <2>1, <3>1, <4>1, <4>2 DEF Reads
        <3>3. QED
            BY <1>o, <3>1, <3>2
    <2>2. CASE /\ sess' = [sess EXCEPT ![q].create = TRUE]
               /\ Move(q, "pointer")
               /\ UNCHANGED <<repo, reborn>>
        <3>1. step'[q] = "pointer" /\ repo' = repo
            BY <1>t, <2>2 DEF Move
        <3>2. sess'[q].etag = sess[q].etag /\ sess'[q].has = sess[q].has
            BY <1>t, <2>2 DEF Session
        <3>3. Reads(q)'
            BY <1>i, <1>h, <1>k, <2>0, <3>1, <3>2 DEF Reads
        <3>4. QED
            BY <1>o, <3>1, <3>3
    <2>3. CASE /\ repo[sess[q].gen] = 0
               /\ repo' = [repo EXCEPT ![sess[q].gen] = sess[q].key]
               /\ Move(q, "save")
               /\ UNCHANGED sess
        <3>1. step'[q] = "save" /\ sess' = sess
            BY <1>t, <2>3 DEF Move
        <3>2. sess[q].gen # Active /\ repo'[Active] = repo[Active]
            BY <1>t, <1>a, <2>3
        <3>3. Reads(q)'
            <4>1. state[sess[q].gen].tag = None => state[sess[q].gen].has = {}
                BY <1>t, <1>h, Firsts DEF Tagged
            <4>2. sess[q].etag = None /\ sess[q].has = {}
                BY <1>h, <2>0 DEF Reads
            <4>3. QED
                BY <1>i, <1>k, <3>1, <3>2, <4>1, <4>2 DEF Reads
        <3>4. \A g \in Gens : repo[g] # 0 => repo'[g] = repo[g]
            BY <1>t, <2>3
        <3>5. QED
            BY <1>k, <1>n, <3>2, <3>3, <3>4, ContentLook
    <2>4. CASE Leave(q, "idle") /\ repo' = repo
        BY <1>l, <1>o, <2>4
    <2>5. QED
        BY <1>3, <2>1, <2>2, <2>3, <2>4 DEF PushOpen
<1>4. CASE PushETag(q)
    <2> DEFINE record == state[sess[q].gen]
    <2>1. /\ sess' = [sess EXCEPT ![q] = [sess[q] EXCEPT !.etag = record.tag]]
          /\ Move(q, IF record = NoState THEN "save" ELSE "get")
          /\ step[q] = "etag" /\ repo' = repo
        BY <1>4 DEF PushETag, bucket
    <2>2. /\ sess'[q].etag = record.tag /\ sess'[q].has = sess[q].has
          /\ sess'[q].gen = sess[q].gen /\ sess'[q].key = sess[q].key
        BY <1>t, <2>1 DEF Session
    <2>3. step'[q] = IF record = NoState THEN "save" ELSE "get"
        BY <1>t, <2>1 DEF Move
    <2>4. /\ record.tag \in Pushes => record.tag \in acked
          /\ record = NoState => record.tag = None /\ record.has = {}
          /\ record.tag = None => record = NoState
        BY <1>t, <1>h, Firsts DEF Tagged
    <2>5. sess[q].has = {} /\ (sess[q].gen = Active => sess[q].key = repo[Active])
        BY <1>h, <2>1 DEF Reads
    <2> HIDE DEF record
    <2>6. state'[sess'[q].gen] = record
        BY <1>k, <2>2 DEF record
    <2>7. Reads(q)'
        BY <1>k, <2>1, <2>2, <2>3, <2>4, <2>5, <2>6 DEF Reads
    <2>8. QED
        BY <1>o, <2>1, <2>7
<1>5. CASE PushGet(q)
    <2>1. CASE Leave(q, "idle")
        BY <1>5, <1>l, <1>o, <2>1 DEF PushGet, bucket
    <2>2. CASE ~Leave(q, "idle")
        <3>1. /\ sess' = [sess EXCEPT ![q].has = state[sess[q].gen].has]
              /\ Move(q, "save") /\ step[q] = "get" /\ repo' = repo
            BY <1>5, <2>2 DEF PushGet, bucket
        <3>2. /\ sess'[q].etag = sess[q].etag /\ sess'[q].has = state[sess[q].gen].has
              /\ sess'[q].gen = sess[q].gen /\ sess'[q].key = sess[q].key
            BY <1>t, <3>1 DEF Session
        <3>3. step'[q] = "save"
            BY <1>t, <3>1 DEF Move
        <3>4. Reads(q)'
            BY <1>h, <1>k, <3>1, <3>2, <3>3 DEF Reads
        <3>5. QED
            BY <1>o, <3>1, <3>4
    <2>3. QED
        BY <2>1, <2>2
<1>6. CASE PushQuit(q)
    BY <1>6, <1>l, <1>o DEF PushQuit, bucket
<1>7. QED
    BY <1>1, <1>2, <1>3, <1>4, <1>5, <1>6

(* The write of the state record: it is built on the record that it         *)
(* replaces, and in the active generation under the repository's key.       *)
LEMMA ContentSave ==
    ASSUME TypeInv, KeepInv, ContentInv, NEW q \in Pushes, PushSave(q)
    PROVE  ContentInv'
<1> DEFINE g == sess[q].gen
           o == [by |-> sess[q].key, has |-> sess[q].has \cup {q}, tag |-> q]
<1>t. /\ sess \in [Pushes -> Session] /\ g \in Gens
      /\ state \in [Gens -> State]
      /\ step \in [Pushes -> {"idle", "pointer", "open", "etag", "get", "save", "ok"}]
      /\ Active \in Gens
    BY Numbers DEF TypeInv, TypeOK, Session
<1>i. None \notin Pushes
    BY RotationAssumption
<1>k. /\ repo' = repo /\ pc' = pc /\ rot' = rot /\ Active' = Active /\ step[q] = "save"
    BY DEF PushSave, Active, rotating
<1>h. Reads(q) /\ q \notin acked
    BY <1>k DEF ContentInv, Reads
<1>l. ASSUME NEW label \in {"idle", "ok"}, Leave(q, label)
      PROVE  /\ step'[q] = label /\ sess'[q].etag = None /\ sess'[q].has = {}
             /\ \A u \in Pushes \ {q} : step'[u] = step[u] /\ sess'[u] = sess[u]
    BY <1>t, <1>l DEF Leave, Move, NewSession
<1>1. CASE state[g].tag = sess[q].etag
    <2>1. /\ state' = [state EXCEPT ![g] = o] /\ acked' = acked \cup {q}
          /\ late' = IF PassedOver(g) THEN late \cup {q} ELSE late
          /\ Leave(q, "ok")
        BY <1>1 DEF PushSave
    <2>2. o.by = sess[q].key /\ o.has = state[g].has \cup {q} /\ o.tag = q
        BY <1>k, <1>h, <1>1 DEF Reads
    <2> HIDE DEF o
    <2>3. /\ state'[g] = o /\ \A u \in Gens \ {g} : state'[u] = state[u]
        BY <1>t, <2>1
    <2>4. g = Active => sess[q].key = repo[Active]
        BY <1>k, <1>h DEF Reads
    <2> HIDE DEF g
    <2>5. LostOnlyIfLate' /\ OneKey'
        <3>1. acked \ late \subseteq state[Active].has /\ OneKey
            BY DEF ContentInv, LostOnlyIfLate
        <3>2. CASE g = Active
            BY <1>k, <2>1, <2>2, <2>3, <2>4, <3>1, <3>2 DEF LostOnlyIfLate, OneKey
        <3>3. CASE g # Active
            <4>1. late' = late \cup {q}
                BY <2>1, <3>3 DEF PassedOver
            <4>2. QED
                BY <1>k, <1>t, <2>1, <2>3, <3>1, <3>3, <4>1 DEF LostOnlyIfLate, OneKey
        <3>4. QED
            BY <3>2, <3>3
    <2>6. \A u \in Gens : Tagged(u)'
        <3>1. ASSUME NEW u \in Gens PROVE Tagged(u)'
            BY <1>i, <2>1, <2>2, <2>3 DEF ContentInv, Tagged
        <3>2. QED
            BY <3>1
    <2>7. ASSUME NEW u \in Pushes PROVE Reads(u)'
        <3>1. CASE u = q
            BY <1>i, <1>l, <2>1, <3>1 DEF Reads
        <3>2. CASE u # q
            <4>1. Reads(u) /\ step'[u] = step[u] /\ sess'[u] = sess[u] /\ sess[u].gen \in Gens
                BY <1>l, <2>1, <3>2 DEF ContentInv, TypeInv, TypeOK, Session
            <4>2. sess[u].etag # q
                BY <1>h, <4>1 DEF Reads
            <4>3. sess[u].gen = g => state'[sess[u].gen].tag # sess[u].etag
                BY <2>2, <2>3, <4>2
            <4>4. sess[u].gen # g => state'[sess[u].gen] = state[sess[u].gen]
                BY <2>3, <4>1
            <4>5. QED
                BY <1>k, <2>1, <3>2, <4>1, <4>3, <4>4 DEF Reads
        <3>3. QED
            BY <3>1, <3>2
    <2>8. ASSUME NEW r \in Rotators PROVE Copies(r)'
        <3>1. Copies(r) /\ rot[r].CurGen \in Gens /\ rot[r].NextGen \in Gens
            BY Locals DEF ContentInv
        <3>2. pc[r] \in Built => g # rot[r].NextGen /\ rot[r].CurGen = Active
            BY Points, NextIsApart DEF g, KeepInv, Spares
        <3>3. rot[r].srcETag # q
            BY <1>h, <3>1 DEF Copies
        <3>4. pc[r] \in Compared /\ state'[rot[r].CurGen].tag = rot[r].srcETag =>
                  rot[r].table = state'[rot[r].CurGen].has
            BY <2>2, <2>3, <3>1, <3>3 DEF Copies
        <3>5. pc[r] \in Settled => acked' \ late' \subseteq rot[r].table
            <4>1. pc[r] \in Settled => PassedOver(g)
                BY <3>2, CopyPoints DEF PassedOver
            <4>2. QED
                BY <2>1, <3>1, <4>1 DEF Copies
        <3>6. pc[r] \in Built => state'[rot[r].NextGen] = state[rot[r].NextGen]
            BY <2>3, <3>1, <3>2
        <3>7. QED
            BY <1>k, <2>1, <3>1, <3>4, <3>5, <3>6, Points DEF Copies
    <2>9. QED
        BY <2>5, <2>6, <2>7, <2>8 DEF ContentInv
<1>2. CASE state[g].tag # sess[q].etag
    <2>1. Leave(q, "idle") /\ UNCHANGED <<state, acked, late, rotating>>
        BY <1>2 DEF PushSave
    <2>2. Reads(q)'
        BY <1>i, <1>l, <2>1, <1>h DEF Reads
    <2>3. \A r \in Rotators : pc[r] \in Built => repo[rot[r].NextGen] # 0
        BY DEF KeepInv, Spares
    <2>4. QED
        BY <1>k, <1>l, <2>1, <2>2, <2>3, ContentLook
<1>3. QED
    BY <1>1, <1>2

(* Every step keeps what the records hold. *)
LEMMA ContentNext ==
    ASSUME ~Flaky, OneMachine
    PROVE  TypeInv /\ KeepInv /\ ContentInv /\ [Next]_vars => ContentInv'
<1> SUFFICES ASSUME TypeInv, KeepInv, ContentInv, [Next]_vars PROVE ContentInv'
    OBVIOUS
<1>1. CASE UNCHANGED vars
    BY <1>1 DEF ContentInv, LostOnlyIfLate, OneKey, Tagged, Reads, Copies, Active,
                vars, bucket, rotating, pushing
<1>2. ASSUME NEW r \in Rotators, Start(r) \/ Rotate(r) \/ Kill(r) PROVE ContentInv'
    BY <1>2, ContentRead, ContentSweep, ContentBuild, ContentSwitch, ContentClean DEF Rotate
<1>3. ASSUME NEW q \in Pushes, Push(q) PROVE ContentInv'
    BY <1>3, ContentPush, ContentSave DEF Push
<1>4. QED
    BY <1>1, <1>2, <1>3 DEF Next

(* The three invariants, together. *)
LEMMA ContentAlways ==
    ASSUME ~Flaky, OneMachine
    PROVE  Spec => [](TypeInv /\ KeepInv /\ ContentInv)
<1>1. TypeInv /\ TypeInv' /\ KeepInv /\ [Next]_vars => KeepInv'
    BY KeepNext
<1>2. TypeInv /\ KeepInv /\ ContentInv /\ [Next]_vars => ContentInv'
    BY ContentNext
<1>3. QED
    BY <1>1, <1>2, KeepInit, ContentInit, TypeAlways, PTL DEF Spec

(* With one machine rotating at a time, wherever its rotations are killed,  *)
(* an answered push is in the active table unless it landed after a         *)
(* rotation's last look at its source (rotation.go, Build and Flip).        *)
THEOREM OnlyLatePushesAreLost ==
    ASSUME ~Flaky, OneMachine
    PROVE  Spec => []LostOnlyIfLate
<1>1. ContentInv => LostOnlyIfLate
    BY DEF ContentInv
<1>2. QED
    BY <1>1, ContentAlways, PTL

-----------------------------------------------------------------------------
(* Who opens the active generation *)

SlotsOpen == \A m \in Recorded : slot[m] = repo[Active]

(* The pointer is the one that the rotation has read; in the switch the     *)
(* slots that are done hold the next key, and before the flip all are done. *)
Rewraps(r) ==
    /\ pc[r] \in {"pointer"} \cup Planned => rot[r].pointerETag = pointer
    /\ pc[r] \in Switching => \A m \in Recorded \ rot[r].todo : slot[m] = rot[r].dekNew
    /\ pc[r] \in {"repo key", "seal repo key", "flip"} => rot[r].todo = {}

SlotInv ==
    /\ (\A r \in Rotators : pc[r] \notin Switching) => SlotsOpen
    /\ \A r \in Rotators : Rewraps(r)

(* A step outside of the switch. *)
LEMMA SlotQuiet ==
    ASSUME OneMachine, SlotInv, NEW r \in Rotators, pc[r] \notin Switching, pc'[r] \notin Switching,
           pc'[r] \in {"pointer"} \cup Planned => rot'[r].pointerETag = pointer,
           pointer' = pointer, slot' = slot, repo'[Active] = repo[Active]
    PROVE  SlotInv'
<1>1. Active' = Active
    BY DEF Active
<1>2. Rewraps(r)'
    BY DEF Rewraps, Switching
<1>3. SlotsOpen'
    BY <1>1 DEF SlotInv, SlotsOpen, OneMachine
<1>4. QED
    BY <1>2, <1>3 DEF SlotInv, OneMachine

(* The start: one key opens everything. *)
LEMMA SlotInit == Init => SlotInv
<1> SUFFICES ASSUME Init PROVE SlotInv
    OBVIOUS
<1>1. Active = 1 /\ 1 \in Gens
    BY Firsts DEF Init, Active, FirstGeneration
<1>2. SlotsOpen
    BY <1>1, RotationAssumption DEF Init, SlotsOpen
<1>3. \A r \in Rotators : Rewraps(r)
    BY Points DEF Init, Rewraps, Switching
<1>4. QED
    BY <1>2, <1>3 DEF SlotInv

(* Reading the pointer, staging and sweeping. *)
LEMMA SlotRead ==
    ASSUME ~Flaky, Killable \cap Switching = {}, OneMachine, TypeInv, KeepInv, SlotInv,
           NEW r \in Rotators,
           \/ Start(r) \/ ReadPointerETag(r) \/ ReadPointer(r)
           \/ LoadStaged(r) \/ StageNext(r) \/ Kill(r)
           \/ SweepList(r) \/ \E g \in Gens : SweepOne(r, g)
    PROVE  SlotInv'
<1>t. /\ rot[r] \in Rotator /\ rot \in [Rotators -> Rotator]
      /\ pc \in [Rotators -> RotatorPoints] /\ repo \in [Gens -> {0} \cup Keys]
      /\ Active \in Gens
    BY Numbers DEF TypeInv, TypeOK
<1> DEFINE early == {"idle", "pointer etag", "pointer", "staged", "stage", "sweep list", "sweep",
                     "open source"}
<1>p. /\ early \cap Switching = {}
      /\ {"staged", "stage", "sweep list", "sweep"} \subseteq Planned
      /\ {"idle", "pointer etag"} \cap Planned = {}
    BY DEF Planned, Switching
<1>o. pointer' = pointer /\ slot' = slot
    BY DEF Start, ReadPointerETag, ReadPointer, LoadStaged, StageNext, Kill, SweepList, SweepOne,
           bucket
<1>h. Rewraps(r)
    BY DEF SlotInv
<1>1. CASE Start(r)
    <2>1. pc'[r] = "pointer etag" /\ pc[r] = "idle" /\ repo' = repo
        BY <1>1, <1>t DEF Start, bucket
    <2>2. QED
        BY <1>o, <1>p, <2>1, SlotQuiet
<1>2. CASE ReadPointerETag(r)
    <2>1. pc'[r] = "pointer" /\ pc[r] = "pointer etag" /\ repo' = repo
        BY <1>2, Locals DEF ReadPointerETag, bucket
    <2>2. rot' = [rot EXCEPT ![r].pointerETag = pointer]
        BY <1>2 DEF ReadPointerETag
    <2>3. rot'[r].pointerETag = pointer
        BY <1>t, <2>2 DEF Rotator
    <2>4. QED
        BY <1>o, <1>p, <2>1, <2>3, SlotQuiet
<1>3. CASE ReadPointer(r)
    <2>1. pc'[r] = "staged" /\ pc[r] = "pointer" /\ repo' = repo
        BY <1>3, Locals DEF ReadPointer, bucket
    <2>2. rot' = [rot EXCEPT ![r].CurGen = Active, ![r].NextGen = NextGeneration(Active)]
        BY <1>3 DEF ReadPointer
    <2>3. rot'[r].pointerETag = rot[r].pointerETag
        BY <1>t, <2>2 DEF Rotator
    <2>4. rot[r].pointerETag = pointer
        BY <1>h, <2>1 DEF Rewraps
    <2>5. QED
        BY <1>o, <1>p, <2>1, <2>3, <2>4, SlotQuiet
<1>4. CASE LoadStaged(r) \/ SweepList(r)
    <2>1. pc'[r] \in early /\ pc[r] \in Planned /\ pc[r] \in early /\ repo' = repo
        BY <1>4, <1>p, Locals DEF LoadStaged, SweepList, bucket
    <2>2. rot'[r].pointerETag = rot[r].pointerETag
        BY <1>4, <1>t DEF LoadStaged, SweepList, Rotator
    <2>3. rot[r].pointerETag = pointer
        BY <1>h, <2>1 DEF Rewraps
    <2>4. QED
        BY <1>o, <1>p, <2>1, <2>2, <2>3, SlotQuiet
<1>5. CASE StageNext(r)
    <2>1. pc'[r] = "sweep list" /\ pc[r] = "stage" /\ repo' = repo /\ rot'[r] = rot[r]
        BY <1>5, Locals DEF StageNext
    <2>2. rot[r].pointerETag = pointer
        BY <1>h, <1>p, <2>1 DEF Rewraps
    <2>3. QED
        BY <1>o, <1>p, <2>1, <2>2, SlotQuiet
<1>6. CASE Kill(r)
    <2>1. pc'[r] = "idle" /\ pc[r] \in Killable /\ repo' = repo
        BY <1>6, Locals DEF Kill, bucket
    <2>2. QED
        BY <1>o, <1>p, <2>1, SlotQuiet
<1>7. ASSUME NEW g \in Gens, SweepOne(r, g) PROVE SlotInv'
    <2>1. /\ pc'[r] \in early /\ pc[r] = "sweep"
          /\ repo' = [repo EXCEPT ![g] = 0] /\ g \in rot[r].doomed
        BY <1>7, Locals DEF SweepOne
    <2>2. rot'[r].pointerETag = rot[r].pointerETag
        BY <1>7, <1>t DEF SweepOne, Rotator
    <2>3. rot[r].pointerETag = pointer
        BY <1>h, <1>p, <2>1 DEF Rewraps
    <2>4. g # Active
        BY <1>p, <2>1 DEF KeepInv, Spares
    <2>5. repo'[Active] = repo[Active]
        BY <1>t, <2>1, <2>4
    <2>6. QED
        BY <1>o, <1>p, <2>1, <2>2, <2>3, <2>5, SlotQuiet
<1>8. QED
    BY <1>1, <1>2, <1>3, <1>4, <1>5, <1>6, <1>7

(* The copy and the clean-up. *)
LEMMA SlotBuild ==
    ASSUME OneMachine, TypeInv, KeepInv, SlotInv, NEW r \in Rotators,
           \/ OpenSource(r) \/ OpenTarget(r)
           \/ LoadETag(r) \/ LoadState(r) \/ CopyBundle(r) \/ CheckSource(r)
           \/ TargetETag(r) \/ SaveTarget(r)
           \/ CleanRepo(r) \/ CleanState(r) \/ CleanStaged(r)
    PROVE  SlotInv'
<1>t. /\ rot[r] \in Rotator /\ rot \in [Rotators -> Rotator]
      /\ repo \in [Gens -> {0} \cup Keys] /\ Active \in Gens
    BY Numbers DEF TypeInv, TypeOK
<1> DEFINE copying == {"open source", "open target", "load etag", "load", "copy", "check",
                       "target etag", "save"}
           after == copying \cup {"verify seal"}
<1>p. /\ after \cap Switching = {} /\ Cleaning \cap Switching = {}
      /\ after \subseteq Planned /\ "pointer" \notin Cleaning /\ "idle" \notin Planned \cup Switching
      /\ Cleaning = {"clean repo", "clean state", "clean staged"}
    BY DEF Planned, Switching, Cleaning
<1>o. pointer' = pointer /\ slot' = slot
    BY DEF OpenSource, OpenTarget, LoadETag, LoadState, CopyBundle, CheckSource, TargetETag,
           SaveTarget, CleanRepo, CleanState, CleanStaged, bucket
<1>h. pc[r] \in Planned => rot[r].pointerETag = pointer /\ rot[r].CurGen = Active
    BY DEF SlotInv, Rewraps, KeepInv, Spares
<1>e. ASSUME NEW how, End(r, how), repo' = repo, pc[r] \notin Switching PROVE SlotInv'
    BY <1>e, <1>o, <1>p, Locals, SlotQuiet
<1>c. ASSUME NEW p \in after, Continue(r, p), repo'[Active] = repo[Active], pc[r] \in copying
      PROVE  SlotInv'
    <2>1. pc'[r] = p /\ rot'[r] = rot[r]
        BY <1>c, Locals
    <2>2. pc[r] \in Planned /\ pc[r] \notin Switching /\ p \notin Switching
        BY <1>c, <1>p
    <2>3. QED
        BY <1>c, <1>h, <1>o, <2>1, <2>2, SlotQuiet
<1>g. ASSUME NEW p \in after, Goto(r, p), repo' = repo, pc[r] \in copying,
             rot'[r].pointerETag = rot[r].pointerETag
      PROVE  SlotInv'
    <2>1. pc'[r] = p
        BY <1>g, Locals
    <2>2. pc[r] \in Planned /\ pc[r] \notin Switching /\ p \notin Switching
        BY <1>g, <1>p
    <2>3. QED
        BY <1>g, <1>h, <1>o, <2>1, <2>2, SlotQuiet
<1>1. CASE OpenSource(r) \/ CopyBundle(r)
    BY <1>1, <1>c, <1>e, <1>p DEF OpenSource, CopyBundle, bucket
<1>2. CASE OpenTarget(r)
    <2>1. pc[r] = "open target" /\ pc[r] \in Planned
        BY <1>2, <1>p DEF OpenTarget
    <2>2. rot[r].NextGen # Active /\ rot[r].NextGen \in Gens
        BY <1>h, <2>1, NextIsApart DEF KeepInv
    <2>3. repo'[Active] = repo[Active]
        BY <1>2, <1>t, <2>2 DEF OpenTarget
    <2>4. QED
        BY <1>2, <1>c, <1>e, <1>p, <2>3 DEF OpenTarget
<1>3. CASE LoadETag(r) \/ TargetETag(r)
    <2>1. rot'[r].pointerETag = rot[r].pointerETag
        BY <1>3, <1>t DEF LoadETag, TargetETag, Rotator
    <2>2. PICK p \in {"check", "load", "save"} : Goto(r, p)
        BY <1>3 DEF LoadETag, TargetETag
    <2>3. QED
        BY <1>3, <1>g, <2>1, <2>2 DEF LoadETag, TargetETag, bucket
<1>4. CASE LoadState(r)
    <2>1. CASE rot' = [rot EXCEPT ![r].table = state[rot[r].CurGen].has] /\ Goto(r, "copy")
        <3>1. rot'[r].pointerETag = rot[r].pointerETag
            BY <1>t, <2>1 DEF Rotator
        <3>2. QED
            BY <1>4, <1>g, <2>1, <3>1 DEF LoadState, bucket
    <2>2. QED
        BY <1>4, <1>e, <1>p, <2>1 DEF LoadState, bucket
<1>5. CASE CheckSource(r)
    <2>1. CASE rot' = [rot EXCEPT ![r].round = @ + 1] /\ Goto(r, "load etag")
        <3>1. rot'[r].pointerETag = rot[r].pointerETag
            BY <1>t, <2>1 DEF Rotator
        <3>2. QED
            BY <1>5, <1>g, <2>1, <3>1 DEF CheckSource, bucket
    <2>2. QED
        BY <1>5, <1>c, <1>e, <1>p, <2>1 DEF CheckSource, bucket
<1>6. CASE SaveTarget(r)
    BY <1>6, <1>c, <1>e, <1>p DEF SaveTarget
<1>7. CASE CleanRepo(r) \/ CleanState(r)
    <2>1. pc'[r] \in Cleaning /\ pc[r] \in Cleaning
        BY <1>7, <1>p, Locals DEF CleanRepo, CleanState
    <2>2. rot[r].CurGen # Active
        BY <2>1 DEF KeepInv, Spares
    <2>3. repo'[Active] = repo[Active]
        BY <1>7, <1>t, <2>2 DEF CleanRepo, CleanState
    <2>4. QED
        BY <1>o, <1>p, <2>1, <2>3, SlotQuiet, Points
<1>8. CASE CleanStaged(r)
    BY <1>8, <1>e, <1>p DEF CleanStaged
<1>9. QED
    BY <1>1, <1>2, <1>3, <1>4, <1>5, <1>6, <1>7, <1>8

(* The switch: one slot after the other, and the flip when all are done. *)
LEMMA SlotSwitch ==
    ASSUME ~Flaky, OneMachine, TypeInv, KeepInv, ContentInv, SlotInv, NEW r \in Rotators,
           \/ VerifySeal(r) \/ (\E m \in Slots : RewrapSlot(r, m)) \/ SealSlots(r)
           \/ SetRepoKey(r) \/ SealRepoKey(r) \/ Flip(r)
    PROVE  SlotInv'
<1>t. /\ rot[r] \in Rotator /\ rot \in [Rotators -> Rotator] /\ slot \in [Slots -> Keys]
      /\ rot[r].todo \subseteq Recorded /\ Recorded \subseteq Slots
    BY RotationAssumption DEF TypeInv, TypeOK, Rotator
<1>p. /\ Switching = {"rewrap", "seal slots", "repo key", "seal repo key", "flip"}
      /\ Switching \cup {"verify seal"} \subseteq Planned
      /\ "verify seal" \notin Switching
      /\ {"clean repo", "idle"} \cap (Switching \cup Planned) = {}
    BY DEF Planned, Switching
<1>h. Rewraps(r)
    BY DEF SlotInv
<1>o. pc[r] \in Planned /\ rot[r].pointerETag = pointer
    <2>1. pc[r] \in Planned
        BY <1>p DEF VerifySeal, RewrapSlot, SealSlots, SetRepoKey, SealRepoKey, Flip
    <2>2. QED
        BY <1>h, <2>1 DEF Rewraps
(* Inside of the switch it is enough to look at the rotation. *)
<1>s. ASSUME pc'[r] \in Switching, Rewraps(r)' PROVE SlotInv'
    BY <1>s DEF SlotInv, OneMachine
<1>1. CASE VerifySeal(r)
    <2>0. pc[r] = "verify seal" /\ UNCHANGED <<pointer, slot, repo>>
        BY <1>1 DEF VerifySeal, bucket
    <2>1. CASE SealPasses(r)
        <3>1. PICK todo \in Rewrappable :
                /\ rot' = [rot EXCEPT ![r] = [rot[r] EXCEPT !.todo = todo]]
                /\ Goto(r, IF todo = {} THEN "repo key" ELSE "rewrap")
            BY <1>1, <2>1 DEF VerifySeal
        <3>2. todo = Recorded
            BY <3>1 DEF Rewrappable
        <3>3. /\ rot'[r].todo = Recorded /\ rot'[r].pointerETag = rot[r].pointerETag
              /\ rot'[r].dekNew = rot[r].dekNew
            BY <1>t, <3>1, <3>2 DEF Rotator
        <3>4. pc'[r] = IF Recorded = {} THEN "repo key" ELSE "rewrap"
            BY <3>1, <3>2, Locals
        <3>5. Rewraps(r)'
            BY <1>o, <2>0, <3>3, <3>4 DEF Rewraps
        <3>6. QED
            BY <1>p, <1>s, <3>4, <3>5
    <2>2. CASE ~SealPasses(r)
        <3>1. pc'[r] = "idle"
            BY <1>1, <2>2, Locals DEF VerifySeal
        <3>2. QED
            BY <1>p, <2>0, <3>1, SlotQuiet
    <2>3. QED
        BY <2>1, <2>2
<1>2. ASSUME NEW m \in Slots, RewrapSlot(r, m) PROVE SlotInv'
    <2>1. /\ rot' = [rot EXCEPT ![r] = [rot[r] EXCEPT !.todo = rot[r].todo \ {m}]]
          /\ slot' = [slot EXCEPT ![m] = rot[r].dekNew]
          /\ pointer' = pointer /\ pc[r] = "rewrap"
        BY <1>2 DEF RewrapSlot
    <2>2. pc'[r] = "seal slots"
        BY <1>2, Locals DEF RewrapSlot
    <2>3. /\ rot'[r].todo = rot[r].todo \ {m} /\ rot'[r].pointerETag = rot[r].pointerETag
          /\ rot'[r].dekNew = rot[r].dekNew
        BY <1>t, <2>1 DEF Rotator
    <2>4. \A u \in Recorded \ rot[r].todo : slot[u] = rot[r].dekNew
        BY <1>h, <1>p, <2>1 DEF Rewraps
    <2>5. \A u \in Recorded \ rot'[r].todo : slot'[u] = rot'[r].dekNew
        BY <1>t, <2>1, <2>3, <2>4
    <2>6. Rewraps(r)'
        BY <1>o, <2>1, <2>2, <2>3, <2>5 DEF Rewraps
    <2>7. QED
        BY <1>p, <1>s, <2>2, <2>6
<1>3. CASE SealSlots(r) \/ SetRepoKey(r) \/ SealRepoKey(r)
    <2>1. rot'[r] = rot[r] /\ pointer' = pointer /\ slot' = slot /\ pc[r] \in Switching
        BY <1>3, <1>p, Locals DEF SealSlots, SetRepoKey, SealRepoKey
    <2>2. pc'[r] \in Switching /\ (pc'[r] \in {"repo key", "seal repo key", "flip"} => rot[r].todo = {})
        <3>1. CASE SealSlots(r)
            BY <1>p, <3>1, Locals DEF SealSlots
        <3>2. CASE SetRepoKey(r) \/ SealRepoKey(r)
            BY <1>p, <1>h, <3>2, Locals DEF SetRepoKey, SealRepoKey, Rewraps
        <3>3. QED
            BY <1>3, <3>1, <3>2
    <2>3. Rewraps(r)'
        BY <1>h, <1>o, <2>1, <2>2 DEF Rewraps
    <2>4. QED
        BY <1>s, <2>2, <2>3
<1>4. CASE Flip(r)
    <2>1. /\ Active' = rot[r].NextGen /\ pc[r] = "flip" /\ pc'[r] = "clean repo"
          /\ slot' = slot /\ repo' = repo
        BY <1>4, <1>o, FlipMoves
    <2>2. \A m \in Recorded : slot[m] = rot[r].dekNew
        BY <1>h, <1>p, <2>1 DEF Rewraps
    <2>3. repo[rot[r].NextGen] = rot[r].dekNew
        BY <2>1, CopyPoints DEF ContentInv, Copies
    <2>4. SlotsOpen'
        BY <2>1, <2>2, <2>3 DEF SlotsOpen
    <2>5. Rewraps(r)'
        BY <1>p, <2>1 DEF Rewraps
    <2>6. QED
        BY <2>4, <2>5 DEF SlotInv, OneMachine
<1>5. QED
    BY <1>1, <1>2, <1>3, <1>4

(* Sessions leave the key of the active generation as it is. *)
LEMMA SlotPush ==
    ASSUME TypeInv, KeepInv, SlotInv, NEW q \in Pushes, Push(q)
    PROVE  SlotInv'
<1>1. UNCHANGED <<pointer, slot, rotating>>
    BY DEF Push, PushUnwrap, PushPointer, PushOpen, PushETag, PushGet, PushSave, PushQuit, bucket
<1>2. repo'[Active] = repo[Active]
    <2>1. CASE PushOpen(q)
        <3>1. Active \in Gens /\ repo \in [Gens -> {0} \cup Keys] /\ repo[Active] # 0
            BY Numbers DEF TypeInv, TypeOK, KeepInv, ActiveIsKept
        <3>2. QED
            BY <2>1, <3>1 DEF PushOpen
    <2>2. CASE repo' = repo
        BY <2>2
    <2>3. QED
        BY <2>1, <2>2
           DEF Push, PushUnwrap, PushPointer, PushETag, PushGet, PushSave, PushQuit, bucket
<1>3. QED
    BY <1>1, <1>2 DEF SlotInv, SlotsOpen, Rewraps, Active, rotating

(* Which slots open the active generation, always. *)
LEMMA SlotAlways ==
    ASSUME ~Flaky, OneMachine, Killable \cap Switching = {}
    PROVE  Spec => []SlotInv
<1>1. ASSUME TypeInv, KeepInv, ContentInv, SlotInv, [Next]_vars PROVE SlotInv'
    <2>1. CASE UNCHANGED vars
        BY <1>1, <2>1 DEF SlotInv, SlotsOpen, Rewraps, Active, vars, bucket, rotating
    <2>2. ASSUME NEW r \in Rotators, Start(r) \/ Rotate(r) \/ Kill(r) PROVE SlotInv'
        BY <1>1, <2>2, SlotRead, SlotBuild, SlotSwitch DEF Rotate
    <2>3. ASSUME NEW q \in Pushes, Push(q) PROVE SlotInv'
        BY <1>1, <2>3, SlotPush
    <2>4. QED
        BY <1>1, <2>1, <2>2, <2>3 DEF Next
<1>2. QED
    BY <1>1, SlotInit, ContentAlways, PTL DEF Spec

(* With one machine rotating at a time, and unless a rotation is killed     *)
(* between its first re-wrapped slot and its flip, every slot with a        *)
(* recorded public key opens the active generation whenever no rotation is  *)
(* in between (rotation.go, RewrapKeys and Flip).                           *)
THEOREM MembersKeepAccess ==
    ASSUME ~Flaky, OneMachine, Killable \cap Switching = {}
    PROVE  Spec => []MembersCanRead
<1>1. ContentInv /\ SlotInv => MembersCanRead
    BY DEF ContentInv, OneKey, SlotInv, SlotsOpen, MembersCanRead, CanRead
<1>2. QED
    BY <1>1, SlotAlways, ContentAlways, PTL

-----------------------------------------------------------------------------
(* What earlier rotations left behind *)

(* A generation has no repository but one that a session made, and no      *)
(* record but a late one.                                                   *)
NoRepo(g) == repo[g] = 0 \/ g \in reborn
NoRecord(g) == state[g].by = 0 \/ state[g].tag \in late
Spotless(g) == NoRepo(g) /\ NoRecord(g)

Swept == {"open source", "open target"} \cup Built \cup Cleaning

(* What the sweep and the clean-up have already dealt with. *)
Rids(r) ==
    /\ pc[r] = "sweep" =>
         \A g \in Gens \ ({rot[r].CurGen, rot[r].NextGen} \cup rot[r].doomed) : Spotless(g)
    /\ pc[r] \in Swept => \A g \in Gens \ {rot[r].CurGen, rot[r].NextGen} : Spotless(g)
    /\ pc[r] \in Cleaning => rot[r].NextGen = Active
    /\ pc[r] \in {"clean state", "clean staged"} => NoRepo(rot[r].CurGen)
    /\ pc[r] = "clean staged" => NoRecord(rot[r].CurGen)
    /\ outcome[r] = "done" =>
         pc[r] = "idle" /\ staged = NoStaged /\ \A g \in Gens \ {Active} : Spotless(g)

OldInv == \A r \in Rotators : Rids(r)

(* A step outside of the clean-up that writes to neither the repositories   *)
(* nor the records.                                                         *)
LEMMA OldQuiet ==
    ASSUME OneMachine, OldInv, NEW r \in Rotators, pc'[r] # "sweep", pc'[r] \notin Cleaning,
           outcome'[r] # "done",
           pc'[r] \in Swept =>
             /\ pc[r] \in Swept
             /\ rot'[r].CurGen = rot[r].CurGen /\ rot'[r].NextGen = rot[r].NextGen,
           UNCHANGED <<repo, state, pushing>>
    PROVE  OldInv'
<1>1. Rids(r)'
    BY DEF OldInv, Rids, Spotless, NoRepo, NoRecord, pushing, Cleaning
<1>2. QED
    BY <1>1 DEF OldInv, OneMachine

(* A rotation that is going on is not done, and ends as its End says. *)
LEMMA Outcomes ==
    ASSUME TypeInv, OldInv, NEW r \in Rotators, pc[r] # "idle"
    PROVE  /\ \A p : Goto(r, p) \/ Continue(r, p) => outcome'[r] # "done"
           /\ \A how : End(r, how) => outcome'[r] = how
<1>1. outcome[r] # "done"
    BY DEF OldInv, Rids
<1>2. outcome \in [Rotators -> {"none", "done", "failed", "killed"}]
    BY DEF TypeInv, TypeOK
<1>3. QED
    BY <1>1, <1>2 DEF Goto, Continue, End

(* The steps up to the switch that write no record. *)
LEMMA OldRead ==
    ASSUME OneMachine, TypeInv, OldInv, NEW r \in Rotators,
           \/ Start(r) \/ ReadPointerETag(r) \/ ReadPointer(r)
           \/ LoadStaged(r) \/ StageNext(r) \/ Kill(r)
           \/ OpenSource(r) \/ LoadETag(r) \/ LoadState(r) \/ CopyBundle(r) \/ CheckSource(r)
           \/ TargetETag(r)
    PROVE  OldInv'
<1>t. /\ rot[r] \in Rotator /\ rot \in [Rotators -> Rotator] /\ pc \in [Rotators -> RotatorPoints]
      /\ outcome \in [Rotators -> {"none", "done", "failed", "killed"}]
    BY DEF TypeInv, TypeOK
<1> DEFINE early == {"idle", "pointer etag", "pointer", "staged", "stage", "sweep list"}
           copying == {"open source", "open target", "load etag", "load", "copy", "check",
                       "target etag", "save"}
<1>p. /\ early \cap (Swept \cup Cleaning \cup {"sweep"}) = {}
      /\ copying \subseteq Swept /\ copying \cap (Cleaning \cup {"sweep", "idle"}) = {}
    BY DEF Swept, Built, Cleaning, Switching
<1>o. UNCHANGED <<repo, state, pushing>>
    BY DEF Start, ReadPointerETag, ReadPointer, LoadStaged, StageNext, Kill,
           OpenSource, LoadETag, LoadState, CopyBundle, CheckSource, TargetETag, bucket
<1>e. ASSUME NEW how \in {"failed", "killed"}, End(r, how), pc[r] # "idle" PROVE OldInv'
    <2>1. pc'[r] = "idle" /\ outcome'[r] # "done"
        BY <1>e, Locals, Outcomes
    <2>2. QED
        BY <1>o, <1>p, <2>1, OldQuiet
<1>c. ASSUME NEW p \in copying, Goto(r, p), pc[r] \in copying,
             rot'[r].CurGen = rot[r].CurGen, rot'[r].NextGen = rot[r].NextGen
      PROVE  OldInv'
    <2>1. pc'[r] = p /\ outcome'[r] # "done"
        BY <1>c, <1>p, Locals, Outcomes
    <2>2. QED
        BY <1>c, <1>o, <1>p, <2>1, OldQuiet
<1>1. CASE Start(r)
    <2>1. pc'[r] = "pointer etag" /\ outcome'[r] = "none"
        BY <1>1, <1>t DEF Start
    <2>2. QED
        BY <1>o, <1>p, <2>1, OldQuiet
<1>2. CASE ReadPointerETag(r) \/ ReadPointer(r) \/ LoadStaged(r) \/ StageNext(r)
    <2>1. CASE \E p \in early : Goto(r, p) /\ pc[r] # "idle"
        <3>1. pc'[r] \in early /\ outcome'[r] # "done"
            BY <2>1, Locals, Outcomes
        <3>2. QED
            BY <1>o, <1>p, <3>1, OldQuiet
    <2>2. QED
        BY <1>2, <2>1 DEF ReadPointerETag, ReadPointer, LoadStaged, StageNext, Continue
<1>3. CASE Kill(r)
    <2>1. pc'[r] = "idle" /\ outcome'[r] = "killed"
        BY <1>3, <1>t DEF Kill, End
    <2>2. QED
        BY <1>o, <1>p, <2>1, OldQuiet
<1>4. CASE OpenSource(r) \/ CopyBundle(r)
    BY <1>4, <1>c, <1>e DEF OpenSource, CopyBundle, Continue
<1>5. CASE LoadETag(r) \/ TargetETag(r)
    <2>1. rot'[r].CurGen = rot[r].CurGen /\ rot'[r].NextGen = rot[r].NextGen
        <3>1. CASE LoadETag(r)
            BY <1>t, <3>1 DEF LoadETag, Rotator
        <3>2. CASE TargetETag(r)
            <4>1. rot' = [rot EXCEPT ![r].prevETag = state[rot[r].NextGen].tag]
                BY <3>2 DEF TargetETag
            <4>2. QED
                BY <1>t, <4>1 DEF Rotator
        <3>3. QED
            BY <1>5, <3>1, <3>2
    <2>2. PICK p \in {"check", "load", "save"} : Goto(r, p)
        BY <1>5 DEF LoadETag, TargetETag
    <2>3. QED
        BY <1>5, <1>c, <2>1, <2>2 DEF LoadETag, TargetETag
<1>6. CASE LoadState(r)
    <2>1. CASE rot' = [rot EXCEPT ![r].table = state[rot[r].CurGen].has] /\ Goto(r, "copy")
        <3>1. rot'[r].CurGen = rot[r].CurGen /\ rot'[r].NextGen = rot[r].NextGen
            BY <1>t, <2>1 DEF Rotator
        <3>2. QED
            BY <1>6, <1>c, <2>1, <3>1 DEF LoadState
    <2>2. QED
        BY <1>6, <1>e, <2>1 DEF LoadState
<1>7. CASE CheckSource(r)
    <2>1. CASE rot' = [rot EXCEPT ![r].round = @ + 1] /\ Goto(r, "load etag")
        <3>1. rot'[r].CurGen = rot[r].CurGen /\ rot'[r].NextGen = rot[r].NextGen
            BY <1>t, <2>1 DEF Rotator
        <3>2. QED
            BY <1>7, <1>c, <2>1, <3>1 DEF CheckSource
    <2>2. QED
        BY <1>7, <1>c, <1>e, <2>1 DEF CheckSource, Continue
<1>8. QED
    BY <1>1, <1>2, <1>3, <1>4, <1>5, <1>6, <1>7

(* Re-wrapping slots, and a flip that fails. *)
LEMMA OldSwitch ==
    ASSUME OneMachine, TypeInv, OldInv, NEW r \in Rotators,
           \/ VerifySeal(r) \/ (\E m \in Slots : RewrapSlot(r, m)) \/ SealSlots(r)
           \/ SetRepoKey(r) \/ SealRepoKey(r) \/ (Flip(r) /\ pointer # rot[r].pointerETag)
    PROVE  OldInv'
<1>t. rot[r] \in Rotator /\ rot \in [Rotators -> Rotator]
    BY DEF TypeInv, TypeOK
<1>p. /\ Saved = {"verify seal", "rewrap", "seal slots", "repo key", "seal repo key", "flip"}
      /\ Saved \subseteq Swept /\ Saved \cap (Cleaning \cup {"sweep", "idle"}) = {}
      /\ "idle" \notin Swept \cup Cleaning
    BY DEF Swept, Built, Cleaning, Saved, Switching
<1>q. pc[r] \in Saved /\ UNCHANGED <<repo, state, pushing>>
    BY <1>p DEF VerifySeal, RewrapSlot, SealSlots, SetRepoKey, SealRepoKey, Flip, bucket
<1>e. ASSUME End(r, "failed") PROVE OldInv'
    <2>1. pc'[r] = "idle" /\ outcome'[r] # "done"
        BY <1>e, <1>p, <1>q, Locals, Outcomes
    <2>2. QED
        BY <1>p, <1>q, <2>1, OldQuiet
<1>c. ASSUME NEW p \in Saved, Goto(r, p),
             rot'[r].CurGen = rot[r].CurGen, rot'[r].NextGen = rot[r].NextGen
      PROVE  OldInv'
    <2>1. pc'[r] = p /\ outcome'[r] # "done"
        BY <1>c, <1>p, <1>q, Locals, Outcomes
    <2>2. QED
        BY <1>c, <1>p, <1>q, <2>1, OldQuiet
<1>1. CASE VerifySeal(r)
    <2>1. CASE SealPasses(r)
        <3>1. PICK todo \in Rewrappable, p \in {"repo key", "rewrap"} :
                rot' = [rot EXCEPT ![r] = [rot[r] EXCEPT !.todo = todo]] /\ Goto(r, p)
            BY <1>1, <2>1 DEF VerifySeal
        <3>2. rot'[r].CurGen = rot[r].CurGen /\ rot'[r].NextGen = rot[r].NextGen
            BY <1>t, <3>1 DEF Rotator
        <3>3. QED
            BY <1>p, <1>c, <3>1, <3>2
    <2>2. QED
        BY <1>1, <1>e, <2>1 DEF VerifySeal
<1>2. ASSUME NEW m \in Slots, RewrapSlot(r, m) PROVE OldInv'
    <2>1. /\ rot' = [rot EXCEPT ![r] = [rot[r] EXCEPT !.todo = rot[r].todo \ {m}]]
          /\ Goto(r, "seal slots")
        BY <1>2 DEF RewrapSlot
    <2>2. rot'[r].CurGen = rot[r].CurGen /\ rot'[r].NextGen = rot[r].NextGen
        BY <1>t, <2>1 DEF Rotator
    <2>3. QED
        BY <1>p, <1>c, <2>1, <2>2
<1>3. CASE SealSlots(r)
    <2>1. PICK p \in {"repo key", "rewrap"} : Continue(r, p)
        BY <1>3 DEF SealSlots
    <2>2. QED
        BY <1>p, <1>c, <2>1 DEF Continue
<1>4. CASE SetRepoKey(r) \/ SealRepoKey(r)
    BY <1>4, <1>p, <1>c DEF SetRepoKey, SealRepoKey, Continue
<1>5. CASE Flip(r) /\ pointer # rot[r].pointerETag
    BY <1>5, <1>e DEF Flip
<1>6. QED
    BY <1>1, <1>2, <1>3, <1>4, <1>5

(* The steps that delete, write the next generation, or turn to it. *)
LEMMA OldWrite ==
    ASSUME ~Flaky, Prefixed, OneMachine, TypeInv, KeepInv, OldInv, NEW r \in Rotators,
           \/ SweepList(r) \/ (\E g \in Gens : SweepOne(r, g))
           \/ OpenTarget(r) \/ SaveTarget(r)
           \/ (Flip(r) /\ pointer = rot[r].pointerETag)
           \/ CleanRepo(r) \/ CleanState(r) \/ CleanStaged(r)
    PROVE  OldInv'
<1>t. /\ rot[r] \in Rotator /\ rot \in [Rotators -> Rotator]
      /\ repo \in [Gens -> {0} \cup Keys] /\ state \in [Gens -> State]
      /\ outcome \in [Rotators -> {"none", "done", "failed", "killed"}]
      /\ rot[r].CurGen \in Gens /\ rot[r].NextGen \in Gens
    BY Locals DEF TypeInv, TypeOK
<1>p. /\ {"open source", "open target", "load etag", "save", "verify seal", "flip"}
           \subseteq Swept \ (Cleaning \cup {"sweep", "idle"})
      /\ Cleaning = {"clean repo", "clean state", "clean staged"}
      /\ Cleaning \subseteq Swept
      /\ {"sweep", "idle"} \cap Swept = {}
    BY DEF Swept, Built, Cleaning, Switching
<1>h. Rids(r)
    BY DEF OldInv
<1>i. ASSUME Rids(r)' PROVE OldInv'
    BY <1>i DEF OldInv, OneMachine
<1>k. reborn' = reborn /\ late' = late /\ pc[r] # "idle"
    BY DEF SweepList, SweepOne, OpenTarget, SaveTarget, Flip, CleanRepo, CleanState, CleanStaged,
           pushing
<1>e. ASSUME NEW how \in {"failed", "killed"}, End(r, how), UNCHANGED <<repo, state, pushing>>
      PROVE  OldInv'
    <2>1. pc'[r] = "idle" /\ outcome'[r] # "done"
        BY <1>e, <1>k, Locals, Outcomes
    <2>2. QED
        BY <1>e, <1>p, <2>1, OldQuiet
<1>1. CASE SweepList(r)
    <2> DEFINE doomed == Listed \ {rot[r].CurGen, rot[r].NextGen}
    <2>1. rot' = [rot EXCEPT ![r] = [rot[r] EXCEPT !.doomed = doomed]]
          /\ repo' = repo /\ state' = state
        BY <1>1 DEF SweepList, bucket
    <2>2. /\ rot'[r].CurGen = rot[r].CurGen /\ rot'[r].NextGen = rot[r].NextGen
          /\ rot'[r].doomed = doomed
        BY <1>t, <2>1 DEF Rotator
    <2>3. Goto(r, IF doomed = {} THEN "open source" ELSE "sweep")
        BY <1>1, <2>2 DEF SweepList
    <2>4. pc'[r] = IF doomed = {} THEN "open source" ELSE "sweep"
        BY <2>3, Locals
    <2>5. outcome'[r] # "done"
        BY <1>k, <2>3, Outcomes
    <2>6. \A g \in Gens \ ({rot[r].CurGen, rot[r].NextGen} \cup doomed) : Spotless(g)
        BY Firsts, Prefixed DEF Listed, Occupied, Spotless, NoRepo, NoRecord
    <2> HIDE DEF doomed
    <2>7. \A g \in Gens : Spotless(g) => Spotless(g)'
        BY <1>k, <2>1 DEF Spotless, NoRepo, NoRecord
    <2>8. Rids(r)'
        BY <1>p, <2>2, <2>4, <2>5, <2>6, <2>7 DEF Rids
    <2>9. QED
        BY <1>i, <2>8
<1>2. ASSUME NEW g \in Gens, SweepOne(r, g) PROVE OldInv'
    <2>1. /\ rot' = [rot EXCEPT ![r] = [rot[r] EXCEPT !.doomed = rot[r].doomed \ {g}]]
          /\ repo' = [repo EXCEPT ![g] = 0] /\ state' = [state EXCEPT ![g] = NoState]
          /\ pc[r] = "sweep" /\ Goto(r, IF rot[r].doomed = {g} THEN "open source" ELSE "sweep")
        BY <1>2 DEF SweepOne
    <2>2. /\ rot'[r].CurGen = rot[r].CurGen /\ rot'[r].NextGen = rot[r].NextGen
          /\ rot'[r].doomed = rot[r].doomed \ {g}
        BY <1>t, <2>1 DEF Rotator
    <2>4. pc'[r] = IF rot[r].doomed = {g} THEN "open source" ELSE "sweep"
        BY <2>1, Locals
    <2>5. outcome'[r] # "done"
        BY <1>k, <2>1, Outcomes
    <2>6. \A u \in Gens : u = g \/ Spotless(u) => Spotless(u)'
        BY <1>k, <1>t, <2>1, Firsts DEF Spotless, NoRepo, NoRecord
    <2>7. \A u \in Gens \ ({rot[r].CurGen, rot[r].NextGen} \cup (rot[r].doomed \ {g})) : Spotless(u)'
        BY <1>h, <2>1, <2>6 DEF Rids
    <2>8. Rids(r)'
        BY <1>p, <2>2, <2>4, <2>5, <2>7 DEF Rids
    <2>9. QED
        BY <1>i, <2>8
(* Writing to the next generation. *)
<1>n. ASSUME NEW p \in {"load etag", "verify seal"}, Continue(r, p), pc[r] \in {"open target", "save"},
             \A g \in Gens \ {rot[r].NextGen} : repo'[g] = repo[g] /\ state'[g] = state[g]
      PROVE  OldInv'
    <2>1. pc'[r] = p /\ rot'[r] = rot[r] /\ outcome'[r] # "done"
        BY <1>n, <1>k, Locals, Outcomes
    <2>2. \A g \in Gens \ {rot[r].NextGen} : Spotless(g) => Spotless(g)'
        BY <1>k, <1>n DEF Spotless, NoRepo, NoRecord
    <2>3. \A g \in Gens \ {rot[r].CurGen, rot[r].NextGen} : Spotless(g)
        BY <1>h, <1>n, <1>p DEF Rids
    <2>4. p \notin Cleaning /\ p # "sweep"
        BY <1>p
    <2>5. Rids(r)'
        BY <1>p, <2>1, <2>2, <2>3, <2>4 DEF Rids
    <2>6. QED
        BY <1>i, <2>5
<1>3. CASE OpenTarget(r)
    <2>1. CASE repo[rot[r].NextGen] \in {0, rot[r].dekNew}
        BY <1>3, <1>n, <1>t, <2>1 DEF OpenTarget
    <2>2. CASE repo[rot[r].NextGen] \notin {0, rot[r].dekNew}
        BY <1>3, <1>e, <2>2 DEF OpenTarget
    <2>3. QED
        BY <2>1, <2>2
<1>4. CASE SaveTarget(r)
    <2>1. CASE state[rot[r].NextGen].tag = rot[r].prevETag
        <3>1. PICK o \in {[by |-> rot[r].dekNew, has |-> rot[r].table, tag |-> rot[r].run]} :
                /\ state' = [state EXCEPT ![rot[r].NextGen] = o]
                /\ Continue(r, "verify seal") /\ pc[r] = "save" /\ repo' = repo
            BY <1>4, <2>1 DEF SaveTarget
        <3>2. QED
            BY <1>n, <1>t, <3>1
    <2>2. CASE state[rot[r].NextGen].tag # rot[r].prevETag
        BY <1>4, <1>e, <2>2 DEF SaveTarget
    <2>3. QED
        BY <2>1, <2>2
<1>5. CASE Flip(r) /\ pointer = rot[r].pointerETag
    <2>1. /\ Active' = rot[r].NextGen /\ pc[r] = "flip" /\ pc'[r] = "clean repo"
          /\ rot'[r] = rot[r] /\ repo' = repo /\ state' = state
        BY <1>5, FlipMoves
    <2>2. outcome'[r] # "done"
        BY <1>5, <1>k, Outcomes DEF Flip
    <2>3. \A g \in Gens : Spotless(g) => Spotless(g)'
        BY <1>k, <2>1 DEF Spotless, NoRepo, NoRecord
    <2>4. \A g \in Gens \ {rot[r].CurGen, rot[r].NextGen} : Spotless(g)
        BY <1>h, <1>p, <2>1 DEF Rids
    <2>5. Rids(r)'
        BY <1>p, <2>1, <2>2, <2>3, <2>4 DEF Rids
    <2>6. QED
        BY <1>i, <2>5
<1>6. CASE CleanRepo(r)
    <2>1. /\ pc[r] = "clean repo" /\ pc'[r] = "clean state" /\ rot'[r] = rot[r]
          /\ repo' = [repo EXCEPT ![rot[r].CurGen] = 0] /\ state' = state
          /\ Active' = Active /\ outcome'[r] # "done"
        BY <1>6, <1>k, Locals, Outcomes DEF CleanRepo, Active
    <2>2. \A g \in Gens : Spotless(g) => Spotless(g)'
        BY <1>k, <1>t, <2>1 DEF Spotless, NoRepo, NoRecord
    <2>3. NoRepo(rot[r].CurGen)'
        BY <1>t, <2>1 DEF NoRepo
    <2>4. /\ \A g \in Gens \ {rot[r].CurGen, rot[r].NextGen} : Spotless(g)
          /\ rot[r].NextGen = Active
        BY <1>h, <1>p, <2>1 DEF Rids
    <2>5. Rids(r)'
        BY <1>p, <2>1, <2>2, <2>3, <2>4 DEF Rids
    <2>6. QED
        BY <1>i, <2>5
<1>7. CASE CleanState(r)
    <2>1. /\ pc[r] = "clean state" /\ pc'[r] = "clean staged" /\ rot'[r] = rot[r]
          /\ state' = [state EXCEPT ![rot[r].CurGen] = NoState] /\ repo' = repo
          /\ Active' = Active /\ outcome'[r] # "done"
        BY <1>7, <1>k, Locals, Outcomes DEF CleanState, Active
    <2>2. \A g \in Gens : Spotless(g) => Spotless(g)'
        BY <1>k, <1>t, <2>1, Firsts DEF Spotless, NoRepo, NoRecord
    <2>3. NoRecord(rot[r].CurGen)'
        BY <1>t, <2>1, Firsts DEF NoRecord
    <2>4. /\ \A g \in Gens \ {rot[r].CurGen, rot[r].NextGen} : Spotless(g)
          /\ rot[r].NextGen = Active /\ NoRepo(rot[r].CurGen)
        BY <1>h, <1>p, <2>1 DEF Rids
    <2>5. NoRepo(rot[r].CurGen)'
        BY <1>k, <2>1, <2>4 DEF NoRepo
    <2>6. Rids(r)'
        BY <1>p, <2>1, <2>2, <2>3, <2>4, <2>5 DEF Rids
    <2>7. QED
        BY <1>i, <2>6
<1>8. CASE CleanStaged(r)
    <2>1. /\ pc[r] = "clean staged" /\ pc'[r] = "idle"
          /\ repo' = repo /\ state' = state /\ Active' = Active
        BY <1>8, Locals DEF CleanStaged, Active
    <2>e. staged' = NoStaged
        BY <1>8 DEF CleanStaged
    <2>2. /\ \A g \in Gens \ {rot[r].CurGen, rot[r].NextGen} : Spotless(g)
          /\ rot[r].NextGen = Active /\ NoRepo(rot[r].CurGen) /\ NoRecord(rot[r].CurGen)
        BY <1>h, <1>p, <2>1 DEF Rids
    <2>3. \A g \in Gens \ {Active} : Spotless(g)
        BY <2>2 DEF Spotless
    <2>4. \A g \in Gens : Spotless(g) => Spotless(g)'
        BY <1>k, <2>1 DEF Spotless, NoRepo, NoRecord
    <2>5. Rids(r)'
        BY <1>p, <2>1, <2>e, <2>3, <2>4 DEF Rids
    <2>6. QED
        BY <1>i, <2>5
<1>9. QED
    BY <1>1, <1>2, <1>3, <1>4, <1>5, <1>6, <1>7, <1>8

(* Outside of the active generation a session leaves nothing but what is    *)
(* counted as reborn or late.                                               *)
LEMMA OldPush ==
    ASSUME TypeInv, KeepInv, OldInv, NEW q \in Pushes, Push(q)
    PROVE  OldInv'
<1>t. /\ repo \in [Gens -> {0} \cup Keys] /\ state \in [Gens -> State]
      /\ sess[q].gen \in Gens
    BY DEF TypeInv, TypeOK, Session
<1>k. pc' = pc /\ rot' = rot /\ outcome' = outcome /\ Active' = Active /\ staged' = staged
    BY DEF Push, PushUnwrap, PushPointer, PushOpen, PushETag, PushGet, PushSave, PushQuit,
           bucket, rotating, Active
<1>1. ASSUME NEW g \in Gens \ {Active}
      PROVE  (NoRepo(g) => NoRepo(g)') /\ (NoRecord(g) => NoRecord(g)')
    <2>1. CASE PushOpen(q)
        BY <1>t, <2>1 DEF PushOpen, NoRepo, NoRecord
    <2>2. CASE PushSave(q)
        <3>1. CASE state[sess[q].gen].tag = sess[q].etag
            <4> DEFINE o == [by |-> sess[q].key, has |-> sess[q].has \cup {q}, tag |-> q]
            <4>1. /\ state' = [state EXCEPT ![sess[q].gen] = o]
                  /\ late' = IF PassedOver(sess[q].gen) THEN late \cup {q} ELSE late
                  /\ repo' = repo /\ reborn' = reborn
                BY <2>2, <3>1 DEF PushSave
            <4>2. o.tag = q
                OBVIOUS
            <4> HIDE DEF o
            <4>3. g = sess[q].gen => q \in late'
                BY <4>1 DEF PassedOver
            <4>4. QED
                BY <1>t, <4>1, <4>2, <4>3 DEF NoRepo, NoRecord
        <3>2. CASE state[sess[q].gen].tag # sess[q].etag
            BY <2>2, <3>2 DEF PushSave, NoRepo, NoRecord
        <3>3. QED
            BY <3>1, <3>2
    <2>3. CASE UNCHANGED <<repo, state, late, reborn>>
        BY <2>3 DEF NoRepo, NoRecord
    <2>4. QED
        BY <2>1, <2>2, <2>3
           DEF Push, PushUnwrap, PushPointer, PushETag, PushGet, PushQuit, bucket
<1>2. ASSUME NEW r \in Rotators PROVE Rids(r)'
    <2>1. pc[r] = "sweep" \/ (pc[r] \in Swept /\ pc[r] \notin Cleaning) => rot[r].CurGen = Active
        BY Points DEF Swept, Planned, KeepInv, Spares
    <2>2. pc[r] \in Cleaning => rot[r].NextGen = Active /\ rot[r].CurGen \in Gens \ {Active}
        BY Locals DEF OldInv, Rids, KeepInv, Spares
    <2>3. pc[r] \in {"clean state", "clean staged"} => pc[r] \in Cleaning
        BY DEF Cleaning
    <2>4. \A g \in Gens \ {Active} : Spotless(g) => Spotless(g)'
        BY <1>1 DEF Spotless
    <2>5. Rids(r)
        BY DEF OldInv
    <2>6. pc[r] = "sweep" =>
              \A g \in Gens \ ({rot[r].CurGen, rot[r].NextGen} \cup rot[r].doomed) : Spotless(g)'
        BY <2>1, <2>4, <2>5 DEF Rids
    <2>7. pc[r] \in Swept => \A g \in Gens \ {rot[r].CurGen, rot[r].NextGen} : Spotless(g)'
        BY <2>1, <2>2, <2>4, <2>5 DEF Rids
    <2>8. /\ pc[r] \in {"clean state", "clean staged"} => NoRepo(rot[r].CurGen)'
          /\ pc[r] = "clean staged" => NoRecord(rot[r].CurGen)'
        <3> DEFINE c == rot[r].CurGen
        <3>1. pc[r] \in {"clean state", "clean staged"} => c \in Gens \ {Active} /\ NoRepo(c)
            BY <2>2, <2>3, <2>5 DEF Rids
        <3>2. pc[r] = "clean staged" => c \in Gens \ {Active} /\ NoRecord(c)
            BY <2>2, <2>3, <2>5 DEF Rids
        <3>3. c \in Gens \ {Active} => (NoRepo(c) => NoRepo(c)') /\ (NoRecord(c) => NoRecord(c)')
            BY <1>1, <1>k DEF NoRepo, NoRecord
        <3>4. QED
            BY <1>k, <3>1, <3>2, <3>3 DEF NoRepo, NoRecord
    <2>9. outcome[r] = "done" =>
            pc[r] = "idle" /\ staged = NoStaged /\ \A g \in Gens \ {Active} : Spotless(g)'
        BY <2>4, <2>5 DEF Rids
    <2>10. QED
        BY <1>k, <2>5, <2>6, <2>7, <2>8, <2>9 DEF Rids, NoRepo, NoRecord, Spotless
<1>3. QED
    BY <1>2 DEF OldInv

(* On a remote with a prefix and with one machine rotating at a time,       *)
(* wherever earlier rotations were killed, one that finishes leaves no      *)
(* generation and no staged key that an earlier key opens, but what a       *)
(* session still holding it wrote (rotation.go, SweepStaleGenerations and   *)
(* Cleanup).  Without a prefix this is false.                               *)
THEOREM EarlierKeysAreUseless ==
    ASSUME ~Flaky, Prefixed, OneMachine
    PROVE  Spec => []OldKeysAreUseless
<1>1. Init => OldInv
    <2>1. ASSUME Init, NEW r \in Rotators PROVE Rids(r)
        <3>1. pc[r] = "idle" /\ outcome[r] = "none"
            BY <2>1 DEF Init
        <3>2. QED
            BY <3>1 DEF Rids, Swept, Built, Cleaning, Switching
    <2>2. QED
        BY <2>1 DEF OldInv
<1>2. ASSUME TypeInv, KeepInv, OldInv, [Next]_vars PROVE OldInv'
    <2>1. CASE UNCHANGED vars
        BY <1>2, <2>1 DEF OldInv, Rids, Spotless, NoRepo, NoRecord, Active,
                          vars, bucket, rotating, pushing
    <2>2. ASSUME NEW r \in Rotators, Start(r) \/ Rotate(r) \/ Kill(r) PROVE OldInv'
        BY <1>2, <2>2, OldRead, OldSwitch, OldWrite DEF Rotate
    <2>3. ASSUME NEW q \in Pushes, Push(q) PROVE OldInv'
        BY <1>2, <2>3, OldPush
    <2>4. QED
        BY <1>2, <2>1, <2>2, <2>3 DEF Next
<1>3. ASSUME ContentInv, OldInv PROVE OldKeysAreUseless
    <2>1. ASSUME NEW r \in Rotators, outcome[r] = "done" PROVE staged.under = 0
        <3>1. staged = NoStaged
            BY <1>3, <2>1 DEF OldInv, Rids
        <3>2. QED
            BY <3>1 DEF NoStaged
    <2>2. ASSUME NEW r \in Rotators, outcome[r] = "done", NEW g \in Gens
          PROVE  /\ repo[g] \in {0, repo[Active]} \/ g \in reborn
                 /\ state[g].by \in {0, repo[Active]} \/ state[g].tag \in late
        BY <1>3, <2>2 DEF ContentInv, OneKey, OldInv, Rids, Spotless, NoRepo, NoRecord
    <2>3. QED
        BY <2>1, <2>2 DEF OldKeysAreUseless
<1>4. QED
    BY <1>1, <1>2, <1>3, ContentAlways, PTL DEF Spec

-----------------------------------------------------------------------------
(* No rotation gives up: the rounds of a copy *)

Looking == {"load"} \cup Compared

(* Every round but the first is paid for by a push that was answered ok.    *)
Looks(r) ==
    /\ rot[r].round <= Cardinality(acked) + 1
    /\ pc[r] \in Looking /\ state[rot[r].CurGen].tag # rot[r].srcETag =>
         rot[r].round <= Cardinality(acked)

LookInv == \A r \in Rotators : Looks(r)

(* The pushes that were answered are counted. *)
LEMMA AckedIsFinite ==
    ASSUME IsFiniteSet(Pushes), TypeInv
    PROVE  /\ IsFiniteSet(acked) /\ Cardinality(acked) \in Nat
           /\ Cardinality(acked) <= Cardinality(Pushes) /\ Cardinality(Pushes) \in Nat
<1>1. acked \subseteq Pushes
    BY DEF TypeInv, TypeOK
<1>2. QED
    BY <1>1, FS_Subset, FS_CardinalityType

(* A rotation's step that starts no round. *)
LEMMA LookQuiet ==
    ASSUME IsFiniteSet(Pushes), OneMachine, TypeInv, LookInv, NEW r \in Rotators,
           rot'[r].round \in {1, rot[r].round}, acked' = acked,
           \/ pc'[r] \notin Looking
           \/ state'[rot'[r].CurGen].tag = rot'[r].srcETag
           \/ /\ pc[r] \in Looking /\ state' = state
              /\ rot'[r].CurGen = rot[r].CurGen /\ rot'[r].srcETag = rot[r].srcETag
              /\ rot'[r].round = rot[r].round
    PROVE  LookInv'
<1>1. Cardinality(acked) \in Nat /\ rot[r].round \in Nat
    BY AckedIsFinite, RotationAssumption DEF TypeInv, TypeOK, Rotator
<1>2. Looks(r)
    BY DEF LookInv
<1> HIDE DEF Looking
<1>3. Looks(r)'
    BY <1>1, <1>2 DEF Looks
<1>4. QED
    BY <1>3 DEF LookInv, OneMachine

(* What a step of a rotation does to its round. *)
LEMMA LookRotate ==
    ASSUME IsFiniteSet(Pushes), OneMachine, TypeInv, LookInv, NEW r \in Rotators,
           Start(r) \/ Rotate(r) \/ Kill(r)
    PROVE  LookInv'
<1>t. rot[r] \in Rotator /\ rot \in [Rotators -> Rotator] /\ pc \in [Rotators -> RotatorPoints]
    BY DEF TypeInv, TypeOK
<1>a. acked' = acked
    BY DEF Rotate, Start, ReadPointerETag, ReadPointer, LoadStaged, StageNext, SweepList, SweepOne,
           OpenSource, OpenTarget, LoadETag, LoadState, CopyBundle, CheckSource, TargetETag,
           SaveTarget, VerifySeal, RewrapSlot, SealSlots, SetRepoKey, SealRepoKey, Flip,
           CleanRepo, CleanState, CleanStaged, Kill, pushing
<1>l. Looking = {"load", "copy", "check"}
    BY DEF Looking, Compared
<1>e. ASSUME NEW how, End(r, how) PROVE LookInv'
    <2>1. pc'[r] \notin Looking /\ rot'[r].round = 1
        BY <1>e, <1>l, Locals DEF NewRotator
    <2>2. QED
        BY <1>a, <2>1, LookQuiet
<1>g. ASSUME NEW p, Goto(r, p), p \notin Looking, rot'[r].round = rot[r].round PROVE LookInv'
    <2>1. pc'[r] = p
        BY <1>g, Locals
    <2>2. QED
        BY <1>a, <1>g, <2>1, LookQuiet
<1> DEFINE elsewhere == {"sweep list", "open target", "load etag", "target etag", "verify seal",
                         "rewrap", "repo key", "seal repo key", "flip", "clean repo",
                         "clean state", "clean staged"}
<1>c. ASSUME \/ \E p \in elsewhere : Continue(r, p)
             \/ \E how \in {"done", "failed", "killed"} : End(r, how)
      PROVE  LookInv'
    <2>1. ASSUME NEW p \in elsewhere, Continue(r, p) PROVE LookInv'
        <3>1. Goto(r, p) /\ rot'[r].round = rot[r].round
            BY <2>1, Locals DEF Continue
        <3>2. QED
            BY <1>g, <1>l, <3>1
    <2>2. QED
        BY <1>c, <1>e, <2>1
<1>1. CASE Start(r)
    <2>1. pc'[r] = "pointer etag"
        BY <1>1, <1>t DEF Start
    <2>2. PICK n \in {runs + 1}, k \in {slot[Owner[r]]} :
            rot' = [rot EXCEPT ![r] = [NewRotator EXCEPT !.run = n, !.dekOld = k]]
        BY <1>1 DEF Start
    <2>3. rot'[r].round = 1
        BY <1>t, <2>2 DEF NewRotator
    <2>4. QED
        BY <1>a, <1>l, <2>1, <2>3, LookQuiet
<1>2. CASE ReadPointerETag(r) \/ ReadPointer(r)
    <2>1. rot'[r].round = rot[r].round
        <3>1. CASE ReadPointerETag(r)
            <4>1. PICK e \in {pointer, 0} : rot' = [rot EXCEPT ![r].pointerETag = e]
                BY <3>1 DEF ReadPointerETag
            <4>2. QED
                BY <1>t, <4>1 DEF Rotator
        <3>2. CASE rot' = [rot EXCEPT ![r].CurGen = Active, ![r].NextGen = NextGeneration(Active)]
            BY <1>t, <3>2 DEF Rotator
        <3>3. CASE rot' = [rot EXCEPT ![r].CurGen = FirstGeneration,
                                      ![r].NextGen = NextGeneration(FirstGeneration),
                                      ![r].pointerETag = 0]
            BY <1>t, <3>3 DEF Rotator
        <3>4. QED
            BY <1>2, <3>1, <3>2, <3>3 DEF ReadPointer
    <2>2. PICK p \in {"pointer", "staged"} : Goto(r, p)
        BY <1>2 DEF ReadPointerETag, ReadPointer
    <2>3. QED
        BY <1>g, <1>l, <2>1, <2>2
<1>3. CASE LoadStaged(r) \/ SweepList(r) \/ \E g \in Gens : SweepOne(r, g)
    <2>1. rot'[r].round = rot[r].round
        <3>1. CASE LoadStaged(r)
            <4>1. PICK key \in {staged.key, Fresh(r)} :
                    rot' = [rot EXCEPT ![r] = [rot[r] EXCEPT !.dekNew = key]]
                BY <3>1 DEF LoadStaged
            <4>2. QED
                BY <1>t, <4>1 DEF Rotator
        <3>2. CASE SweepList(r) \/ \E g \in Gens : SweepOne(r, g)
            <4>1. PICK doomed \in {Listed \ {rot[r].CurGen, rot[r].NextGen}}
                                 \cup {rot[r].doomed \ {g} : g \in Gens} :
                    rot' = [rot EXCEPT ![r] = [rot[r] EXCEPT !.doomed = doomed]]
                BY <3>2 DEF SweepList, SweepOne
            <4>2. QED
                BY <1>t, <4>1 DEF Rotator
        <3>3. QED
            BY <1>3, <3>1, <3>2
    <2>2. PICK p \in {"sweep list", "stage", "open source", "sweep"} : Goto(r, p)
        BY <1>3 DEF LoadStaged, SweepList, SweepOne
    <2>3. QED
        BY <1>g, <1>l, <2>1, <2>2
<1>4. CASE StageNext(r) \/ OpenSource(r) \/ OpenTarget(r) \/ SaveTarget(r) \/ Kill(r)
    BY <1>4, <1>c DEF StageNext, OpenSource, OpenTarget, SaveTarget, Kill
<1>5. CASE LoadETag(r)
    <2>1. /\ rot' = [rot EXCEPT ![r] = [rot[r] EXCEPT !.srcETag = state[rot[r].CurGen].tag,
                                                      !.table = {}]]
          /\ state' = state
        BY <1>5 DEF LoadETag, bucket
    <2>2. /\ rot'[r].round = rot[r].round /\ rot'[r].CurGen = rot[r].CurGen
          /\ rot'[r].srcETag = state[rot[r].CurGen].tag
        BY <1>t, <2>1 DEF Rotator
    <2>3. QED
        BY <1>a, <2>1, <2>2, LookQuiet
<1>6. CASE LoadState(r)
    <2>1. CASE rot' = [rot EXCEPT ![r].table = state[rot[r].CurGen].has] /\ Goto(r, "copy")
        <3>1. /\ rot'[r].round = rot[r].round /\ rot'[r].CurGen = rot[r].CurGen
              /\ rot'[r].srcETag = rot[r].srcETag
            BY <1>t, <2>1 DEF Rotator
        <3>2. pc[r] \in Looking /\ state' = state
            BY <1>6, <1>l DEF LoadState, bucket
        <3>3. QED
            BY <1>a, <3>1, <3>2, LookQuiet
    <2>2. QED
        BY <1>6, <1>e, <2>1 DEF LoadState
<1>7. CASE CopyBundle(r)
    <2>1. CASE Continue(r, "check")
        <3>1. pc[r] \in Looking /\ state' = state /\ rot'[r] = rot[r]
            BY <1>7, <1>l, <2>1, Locals DEF CopyBundle, bucket
        <3>2. QED
            BY <1>a, <3>1, LookQuiet
    <2>2. QED
        BY <1>7, <1>e, <2>1 DEF CopyBundle
<1>8. CASE CheckSource(r)
    <2>1. CASE /\ state[rot[r].CurGen].tag # rot[r].srcETag
               /\ rot' = [rot EXCEPT ![r].round = @ + 1] /\ Goto(r, "load etag")
        <3>1. pc[r] \in Looking /\ pc'[r] \notin Looking
            BY <1>8, <1>l, <2>1, Locals DEF CheckSource
        <3>2. rot'[r].round = rot[r].round + 1
            BY <1>t, <2>1 DEF Rotator
        <3>3. rot[r].round <= Cardinality(acked)
            BY <2>1, <3>1 DEF LookInv, Looks
        <3>4. rot[r].round \in Nat /\ Cardinality(acked) \in Nat
            BY <1>t, RotationAssumption, AckedIsFinite DEF Rotator
        <3>5. rot'[r].round <= Cardinality(acked') + 1
            BY <1>a, <3>2, <3>3, <3>4
        <3>6. Looks(r)'
            BY <3>1, <3>5 DEF Looks
        <3>7. QED
            BY <3>6 DEF LookInv, OneMachine
    <2>2. QED
        BY <1>8, <1>c, <2>1 DEF CheckSource
<1>9. CASE TargetETag(r)
    <2>1. rot' = [rot EXCEPT ![r].prevETag = state[rot[r].NextGen].tag] /\ Goto(r, "save")
        BY <1>9 DEF TargetETag
    <2>2. rot'[r].round = rot[r].round
        BY <1>t, <2>1 DEF Rotator
    <2>3. QED
        BY <1>g, <1>l, <2>1, <2>2
<1>10. CASE VerifySeal(r) \/ \E m \in Slots : RewrapSlot(r, m)
    <2>1. CASE \E todo \in SUBSET Slots, p \in Switching :
                 rot' = [rot EXCEPT ![r] = [rot[r] EXCEPT !.todo = todo]] /\ Goto(r, p)
        <3>1. PICK todo \in SUBSET Slots, p \in Switching :
                rot' = [rot EXCEPT ![r] = [rot[r] EXCEPT !.todo = todo]] /\ Goto(r, p)
            BY <2>1
        <3>2. rot'[r].round = rot[r].round
            BY <1>t, <3>1 DEF Rotator
        <3>3. p \notin Looking
            BY <1>l DEF Switching
        <3>4. QED
            BY <1>g, <3>1, <3>2, <3>3
    <2>2. CASE End(r, "failed")
        BY <1>e, <2>2
    <2>3. QED
        <3>1. Recorded \subseteq Slots /\ rot[r].todo \subseteq Recorded
            BY <1>t, RotationAssumption DEF Rotator
        <3>2. CASE VerifySeal(r)
            BY <2>1, <2>2, <3>1, <3>2 DEF VerifySeal, Rewrappable, Switching
        <3>3. ASSUME NEW m \in Slots, RewrapSlot(r, m) PROVE LookInv'
            <4>1. /\ rot' = [rot EXCEPT ![r] = [rot[r] EXCEPT !.todo = rot[r].todo \ {m}]]
                  /\ Goto(r, "seal slots") /\ "seal slots" \in Switching
                BY <3>3 DEF RewrapSlot, Switching
            <4>2. rot[r].todo \ {m} \in SUBSET Slots
                BY <3>1
            <4>3. QED
                BY <2>1, <4>1, <4>2
        <3>4. QED
            BY <1>10, <3>2, <3>3
<1>11. CASE SealSlots(r) \/ SetRepoKey(r) \/ SealRepoKey(r) \/ Flip(r)
    BY <1>11, <1>c DEF SealSlots, SetRepoKey, SealRepoKey, Flip
<1>12. CASE CleanRepo(r) \/ CleanState(r) \/ CleanStaged(r)
    BY <1>12, <1>c DEF CleanRepo, CleanState, CleanStaged
<1>13. QED
    BY <1>1, <1>2, <1>3, <1>4, <1>5, <1>6, <1>7, <1>8, <1>9, <1>10, <1>11, <1>12 DEF Rotate

(* An answered push pays for a round. *)
LEMMA LookPush ==
    ASSUME IsFiniteSet(Pushes), TypeInv, ContentInv, LookInv, NEW q \in Pushes, Push(q)
    PROVE  LookInv'
<1>1. pc' = pc /\ rot' = rot
    BY DEF Push, PushUnwrap, PushPointer, PushOpen, PushETag, PushGet, PushSave, PushQuit, rotating
<1>2. CASE state' = state /\ acked' = acked
    BY <1>1, <1>2 DEF LookInv, Looks
<1>3. CASE acked' = acked \cup {q} /\ q \notin acked
    <2>1. Cardinality(acked') = Cardinality(acked) + 1 /\ Cardinality(acked) \in Nat
        BY <1>3, AckedIsFinite, FS_AddElement
    <2>2. ASSUME NEW r \in Rotators PROVE Looks(r)'
        <3>1. rot[r].round <= Cardinality(acked) + 1 /\ rot[r].round \in Nat
            BY RotationAssumption DEF LookInv, Looks, TypeInv, TypeOK, Rotator
        <3>2. rot[r].round <= Cardinality(acked') /\ rot[r].round <= Cardinality(acked') + 1
            BY <2>1, <3>1
        <3>3. QED
            BY <1>1, <3>2 DEF Looks
    <2>3. QED
        BY <2>2 DEF LookInv
<1>4. QED
    <2>1. PushSave(q) => q \notin acked
        BY DEF PushSave, ContentInv, Reads
    <2>2. QED
        BY <1>2, <1>3, <2>1
           DEF Push, PushUnwrap, PushPointer, PushOpen, PushETag, PushGet, PushSave, PushQuit, bucket

(* The rounds at the start, and always. *)
LEMMA LookNext ==
    ASSUME IsFiniteSet(Pushes), OneMachine
    PROVE  /\ Init => LookInv
           /\ TypeInv /\ ContentInv /\ LookInv /\ [Next]_vars => LookInv'
<1>1. ASSUME Init PROVE LookInv
    <2>1. Cardinality(acked) \in Nat
        BY <1>1, FS_EmptySet DEF Init
    <2>2. \A r \in Rotators : rot[r].round = 1 /\ pc[r] = "idle"
        BY <1>1 DEF Init, NewRotator
    <2>3. QED
        BY <2>1, <2>2 DEF LookInv, Looks, Looking, Compared
<1>2. ASSUME TypeInv, ContentInv, LookInv, [Next]_vars PROVE LookInv'
    <2>1. CASE UNCHANGED vars
        BY <1>2, <2>1 DEF LookInv, Looks, vars, bucket, rotating, pushing
    <2>2. CASE Next
        BY <1>2, <2>2, LookRotate, LookPush DEF Next
    <2>3. QED
        BY <1>2, <2>1, <2>2
<1>3. QED
    BY <1>1, <1>2

-----------------------------------------------------------------------------
(* No rotation gives up: the half-built generation and the seal *)

Following == Active + 1
Ahead == {g \in Gens : g > Active}
NothingAhead == \A g \in Ahead : repo[g] = 0

(* What an interrupted rotation has built is the generation after the       *)
(* active one, and its key is staged under the active generation's.         *)
HalfBuilt ==
    \A g \in Ahead : repo[g] # 0 =>
        g = Following /\ staged = [key |-> repo[g], under |-> repo[Active]]

Staged == {"sweep list", "sweep", "open source", "open target"} \cup Built

(* A rotation holds the active generation's key and what is staged, is the  *)
(* only one to write the next record, and seals before it flips.            *)
Resumes(r) ==
    /\ pc[r] \in Unflipped => rot[r].dekOld = repo[Active]
    /\ pc[r] \in {"stage"} \cup Cleaning => NothingAhead
    /\ pc[r] \in Staged => staged = [key |-> rot[r].dekNew, under |-> rot[r].dekOld]
    /\ pc[r] = "save" => rot[r].prevETag = state[rot[r].NextGen].tag
    /\ pc[r] = "flip" => seal = [by |-> rot[r].dekNew, repo |-> repoPub]
    /\ outcome[r] # "failed"

(* The seal is missing or made with the active key. *)
Sealed == seal \in {NoSeal, [by |-> repo[Active], repo |-> repoPub]}

ResumeInv ==
    /\ HalfBuilt
    /\ (\A r \in Rotators : pc[r] \notin Switching) => Sealed
    /\ \A r \in Rotators : Resumes(r)

(* All that the earlier invariants say. *)
AllInv == TypeInv /\ KeepInv /\ ContentInv /\ SlotInv /\ LookInv

(* The points of a rotation by what holds at them. *)
LEMMA ResumePoints ==
    /\ Staged \subseteq Planned /\ Planned \subseteq Unflipped
    /\ Switching = {"rewrap", "seal slots", "repo key", "seal repo key", "flip"}
    /\ Switching \subseteq Staged /\ Staged \subseteq Keyed
    /\ Cleaning \cap (Unflipped \cup Staged \cup Switching) = {}
    /\ Cleaning = {"clean repo", "clean state", "clean staged"}
    /\ {"sweep list", "sweep", "open source", "open target", "load etag", "load", "copy", "check",
        "target etag", "save", "verify seal"} \subseteq Staged \ Switching
    /\ {"staged", "stage"} \subseteq Planned \ (Staged \cup Switching \cup Cleaning)
    /\ {"pointer etag", "pointer"} \subseteq Unflipped \ (Staged \cup Switching \cup Cleaning)
    /\ "idle" \notin Unflipped \cup Staged \cup Switching \cup Cleaning
BY DEF Staged, Unflipped, Reading, Planned, Built, Cleaning, Switching, Keyed

(* What is ahead of the pointer: the next generation first, no session's,   *)
(* and after a flip all but the next.                                       *)
LEMMA AheadFacts ==
    ASSUME TypeInv, KeepInv
    PROVE  /\ Active \in Gens \ Ahead /\ Ahead \subseteq Gens
           /\ \A q \in Pushes : sess[q].gen \notin Ahead
           /\ \A r \in Rotators : pc[r] \in Planned =>
                rot[r].NextGen = Following /\ rot[r].NextGen \in Ahead
           /\ pointer' = Following => \A g \in Ahead' : g \in Ahead /\ g # Following
<1>1. Active \in Nat /\ Active \in Gens /\ Gens \subseteq Nat
    BY Numbers DEF Gens
<1>2. \A q \in Pushes : sess[q].gen \in Gens /\ sess[q].gen <= Active
    BY DEF TypeInv, TypeOK, Session, KeepInv, SessionsBehind
<1>3. ASSUME NEW r \in Rotators, pc[r] \in Planned
      PROVE  rot[r].NextGen = Following /\ rot[r].NextGen \in Gens
    <2>1. rot[r].CurGen = Active /\ rot[r].NextGen = rot[r].CurGen + 1
        BY <1>3 DEF KeepInv, Spares, TypeInv, PointerInv, Aimed
    <2>2. QED
        BY <2>1, Locals DEF Following
<1>4. ASSUME pointer' = Following PROVE Active' = Active + 1
    BY <1>1, <1>4 DEF Following, Active
<1>5. Active \in Gens \ Ahead /\ Ahead \subseteq Gens
    BY <1>1 DEF Ahead
<1>6. ASSUME NEW q \in Pushes PROVE sess[q].gen \notin Ahead
    <2>1. sess[q].gen \in Nat /\ sess[q].gen <= Active
        BY <1>1, <1>2
    <2>2. ~(sess[q].gen > Active)
        BY <1>1, <2>1
    <2>3. QED
        BY <2>2 DEF Ahead
<1>7. Following \in Gens => Following \in Ahead
    BY <1>1 DEF Ahead, Following
<1>8. ASSUME pointer' = Following, NEW g \in Ahead' PROVE g \in Ahead /\ g # Following
    <2>1. g \in Gens /\ g > Active + 1
        BY <1>4, <1>8 DEF Ahead
    <2>2. QED
        BY <1>1, <2>1 DEF Ahead, Following
<1>9. QED
    BY <1>3, <1>5, <1>6, <1>7, <1>8

(* A step that writes no object, outside of the switch. *)
LEMMA ResumeQuiet ==
    ASSUME OneMachine, ResumeInv, NEW r \in Rotators, pc[r] \notin Switching,
           UNCHANGED <<pointer, repo, repoPub, seal, staged>>,
           pc'[r] \notin {"stage", "save"} \cup Cleaning \cup Switching,
           pc'[r] \in Unflipped => rot'[r].dekOld = repo[Active],
           pc'[r] \in Staged => staged = [key |-> rot'[r].dekNew, under |-> rot'[r].dekOld],
           outcome'[r] # "failed"
    PROVE  ResumeInv'
<1>1. Active' = Active /\ Following' = Following /\ Ahead' = Ahead
    BY DEF Active, Following, Ahead
<1>2. HalfBuilt'
    BY <1>1 DEF ResumeInv, HalfBuilt
<1>3. Sealed'
    BY <1>1 DEF ResumeInv, Sealed, OneMachine
<1>4. pc'[r] # "flip"
    BY ResumePoints
<1>5. Resumes(r)'
    BY <1>1, <1>4 DEF Resumes
<1>6. QED
    BY <1>2, <1>3, <1>5 DEF ResumeInv, OneMachine

(* A rotation's step does not fail unless it ends as failed. *)
LEMMA NotFailed ==
    ASSUME TypeInv, ResumeInv, NEW r \in Rotators
    PROVE  /\ \A p : Goto(r, p) \/ Continue(r, p) => outcome'[r] # "failed"
           /\ \A how : End(r, how) => outcome'[r] = how
<1>1. outcome[r] # "failed"
    BY DEF ResumeInv, Resumes
<1>2. outcome \in [Rotators -> {"none", "done", "failed", "killed"}]
    BY DEF TypeInv, TypeOK
<1>3. QED
    BY <1>1, <1>2 DEF Goto, Continue, End

(* The old key is the active one, also when another machine's slot gave it. *)
LEMMA ResumeRead ==
    ASSUME ~Flaky, OneMachine, Killable \cap Switching = {}, \A r \in Rotators : Owner[r] \in Recorded,
           AllInv, ResumeInv, NEW r \in Rotators,
           \/ Start(r) \/ ReadPointerETag(r) \/ ReadPointer(r) \/ Kill(r)
    PROVE  ResumeInv'
<1>t. /\ rot[r] \in Rotator /\ rot \in [Rotators -> Rotator] /\ pc \in [Rotators -> RotatorPoints]
      /\ outcome \in [Rotators -> {"none", "done", "failed", "killed"}] /\ TypeInv
    BY DEF AllInv, TypeInv, TypeOK
<1>o. UNCHANGED <<pointer, repo, repoPub, seal, staged>>
    BY DEF Start, ReadPointerETag, ReadPointer, Kill, bucket
<1>h. Resumes(r)
    BY DEF ResumeInv
<1>1. CASE Start(r)
    <2>1. pc'[r] = "pointer etag" /\ pc[r] = "idle" /\ outcome'[r] = "none"
        BY <1>1, <1>t DEF Start
    <2>2. PICK n \in {runs + 1}, k \in {slot[Owner[r]]} :
            rot' = [rot EXCEPT ![r] = [NewRotator EXCEPT !.run = n, !.dekOld = k]]
        BY <1>1 DEF Start
    <2>3. rot'[r].dekOld = slot[Owner[r]]
        BY <1>t, <2>2 DEF NewRotator
    <2>4. SlotsOpen
        BY <2>1, ResumePoints DEF AllInv, SlotInv, OneMachine
    <2>5. rot'[r].dekOld = repo[Active]
        BY <2>3, <2>4 DEF SlotsOpen
    <2>6. QED
        BY <1>o, <2>1, <2>5, ResumePoints, ResumeQuiet
<1>2. CASE ReadPointerETag(r) \/ ReadPointer(r)
    <2>1. PICK j \in {[rot[r] EXCEPT !.pointerETag = etag] : etag \in {pointer, 0}}
                 \cup {[rot[r] EXCEPT !.CurGen = g, !.NextGen = NextGeneration(g)] :
                         g \in {Active, FirstGeneration}} :
            rot' = [rot EXCEPT ![r] = j]
        <3>1. CASE ReadPointerETag(r)
            BY <3>1 DEF ReadPointerETag
        <3>2. CASE ReadPointer(r)
            BY <3>2 DEF ReadPointer
        <3>3. QED
            BY <1>2, <3>1, <3>2
    <2>2. rot'[r].dekOld = rot[r].dekOld
        BY <1>t, <2>1 DEF Rotator
    <2>3. /\ pc'[r] \in {"pointer", "staged"} /\ pc[r] \in {"pointer etag", "pointer"}
          /\ outcome'[r] # "failed"
        BY <1>2, <1>t, Locals, NotFailed DEF ReadPointerETag, ReadPointer
    <2>4. rot[r].dekOld = repo[Active]
        BY <1>h, <2>3, ResumePoints DEF Resumes
    <2>5. QED
        BY <1>o, <2>2, <2>3, <2>4, ResumePoints, ResumeQuiet
<1>3. CASE Kill(r)
    <2>1. pc'[r] = "idle" /\ outcome'[r] = "killed" /\ pc[r] \notin Switching
        BY <1>3, <1>t, Locals, NotFailed DEF Kill
    <2>2. QED
        BY <1>o, <2>1, ResumePoints, ResumeQuiet
<1>4. QED
    BY <1>1, <1>2, <1>3

(* What is staged is used again if the next generation was built with it.   *)
LEMMA ResumeStage ==
    ASSUME ~Flaky, OneMachine, AllInv, ResumeInv, NEW r \in Rotators,
           LoadStaged(r) \/ StageNext(r) \/ SweepList(r) \/ \E g \in Gens : SweepOne(r, g)
    PROVE  ResumeInv'
<1>t. /\ rot[r] \in Rotator /\ rot \in [Rotators -> Rotator] /\ TypeInv /\ KeepInv
      /\ repo \in [Gens -> {0} \cup Keys]
      /\ staged \in [key : {0} \cup Keys, under : {0} \cup Keys]
    BY DEF AllInv, TypeInv, TypeOK
<1>h. Resumes(r) /\ HalfBuilt
    BY DEF ResumeInv
<1>a. UNCHANGED pointer /\ Active' = Active /\ Following' = Following /\ Ahead' = Ahead
    BY DEF LoadStaged, StageNext, SweepList, SweepOne, bucket, Active, Following, Ahead
<1>1. CASE LoadStaged(r)
    <2>0. pc[r] = "staged" /\ UNCHANGED <<pointer, repo, repoPub, seal, staged>>
        BY <1>1 DEF LoadStaged, bucket
    <2>1. rot[r].dekOld = repo[Active]
        BY <1>h, <2>0, ResumePoints DEF Resumes
    <2>2. CASE /\ staged.under = rot[r].dekOld
               /\ rot' = [rot EXCEPT ![r].dekNew = staged.key] /\ Goto(r, "sweep list")
        <3>1. rot'[r].dekOld = rot[r].dekOld /\ rot'[r].dekNew = staged.key
            BY <1>t, <2>2 DEF Rotator
        <3>2. staged = [key |-> staged.key, under |-> staged.under]
            BY <1>t
        <3>3. pc'[r] = "sweep list" /\ outcome'[r] # "failed"
            BY <1>t, <2>2, Locals, NotFailed
        <3>4. QED
            BY <2>0, <2>1, <2>2, <3>1, <3>2, <3>3, ResumePoints, ResumeQuiet
    <2>3. CASE /\ staged = NoStaged \/ staged.under # rot[r].dekOld
               /\ rot' = [rot EXCEPT ![r].dekNew = Fresh(r)] /\ Goto(r, "stage")
        <3>1. rot'[r].dekOld = rot[r].dekOld
            BY <1>t, <2>3 DEF Rotator
        <3>2. pc'[r] = "stage" /\ outcome'[r] # "failed"
            BY <1>t, <2>3, Locals, NotFailed
        <3>3. NothingAhead
            <4>1. ASSUME NEW g \in Ahead, repo[g] # 0 PROVE FALSE
                <5>1. staged = [key |-> repo[g], under |-> repo[Active]]
                    BY <1>h, <4>1 DEF HalfBuilt
                <5>2. QED
                    BY <2>1, <2>3, <4>1, <5>1 DEF NoStaged
            <4>2. QED
                BY <4>1 DEF NothingAhead
        <3>4. NothingAhead' /\ HalfBuilt'
            BY <1>a, <2>0, <3>3 DEF NothingAhead, HalfBuilt
        <3>5. Resumes(r)'
            BY <1>a, <2>0, <2>1, <3>1, <3>2, <3>4, ResumePoints DEF Resumes
        <3>6. Sealed'
            BY <1>a, <2>0, ResumePoints DEF ResumeInv, Sealed, OneMachine
        <3>7. QED
            BY <3>4, <3>5, <3>6 DEF ResumeInv, OneMachine
    <2>4. QED
        BY <1>1, <2>2, <2>3 DEF LoadStaged
<1>2. CASE StageNext(r)
    <2>1. /\ pc[r] = "stage" /\ pc'[r] = "sweep list" /\ rot'[r] = rot[r] /\ outcome'[r] # "failed"
          /\ staged' = [key |-> rot[r].dekNew, under |-> rot[r].dekOld]
          /\ UNCHANGED <<pointer, repo, repoPub, seal>>
        BY <1>2, <1>t, Locals, NotFailed DEF StageNext
    <2>2. NothingAhead
        BY <1>h, <2>1 DEF Resumes
    <2>3. HalfBuilt'
        BY <1>a, <2>1, <2>2 DEF NothingAhead, HalfBuilt
    <2>4. Resumes(r)'
        BY <1>a, <1>h, <2>1, ResumePoints DEF Resumes
    <2>5. Sealed'
        BY <1>a, <2>1, ResumePoints DEF ResumeInv, Sealed, OneMachine
    <2>6. QED
        BY <2>3, <2>4, <2>5 DEF ResumeInv, OneMachine
<1>3. CASE SweepList(r)
    <2>1. rot'[r].dekOld = rot[r].dekOld /\ rot'[r].dekNew = rot[r].dekNew
        <3>1. PICK doomed \in {Listed \ {rot[r].CurGen, rot[r].NextGen}} :
                rot' = [rot EXCEPT ![r] = [rot[r] EXCEPT !.doomed = doomed]]
            BY <1>3 DEF SweepList
        <3>2. QED
            BY <1>t, <3>1 DEF Rotator
    <2>2. PICK p \in {"open source", "sweep"} : Goto(r, p)
        BY <1>3 DEF SweepList
    <2>3. /\ pc'[r] = p /\ outcome'[r] # "failed" /\ pc[r] = "sweep list"
          /\ UNCHANGED <<pointer, repo, repoPub, seal, staged>>
        BY <1>3, <1>t, <2>2, Locals, NotFailed DEF SweepList, bucket
    <2>4. QED
        BY <1>h, <2>1, <2>2, <2>3, ResumePoints, ResumeQuiet DEF Resumes
<1>4. ASSUME NEW g \in Gens, SweepOne(r, g) PROVE ResumeInv'
    <2>1. /\ rot' = [rot EXCEPT ![r] = [rot[r] EXCEPT !.doomed = rot[r].doomed \ {g}]]
          /\ repo' = [repo EXCEPT ![g] = 0] /\ pc[r] = "sweep" /\ g \in rot[r].doomed
          /\ UNCHANGED <<repoPub, seal, staged>>
        BY <1>4 DEF SweepOne
    <2>2. rot'[r].dekOld = rot[r].dekOld /\ rot'[r].dekNew = rot[r].dekNew
        BY <1>t, <2>1 DEF Rotator
    <2>3. PICK p \in {"open source", "sweep"} : Goto(r, p)
        BY <1>4 DEF SweepOne
    <2>4. pc'[r] = p /\ outcome'[r] # "failed"
        BY <1>t, <2>3, Locals, NotFailed
    <2>5. g # Active /\ Active \in Gens
        <3>1. pc[r] \in Planned /\ Active \in Gens
            BY <1>t, <2>1, ResumePoints, AheadFacts
        <3>2. rot[r].CurGen = Active /\ rot[r].CurGen \notin rot[r].doomed
            BY <1>t, <2>1, <3>1 DEF KeepInv, Spares
        <3>3. QED
            BY <2>1, <3>1, <3>2
    <2>6. repo'[Active] = repo[Active] /\ \A u \in Gens : repo'[u] \in {0, repo[u]}
        BY <1>t, <2>1, <2>5
    <2>7. HalfBuilt'
        BY <1>a, <1>h, <2>1, <2>6 DEF HalfBuilt, Ahead
    <2>8. Resumes(r)'
        BY <1>a, <1>h, <2>1, <2>2, <2>3, <2>4, <2>6, ResumePoints DEF Resumes
    <2>9. Sealed'
        BY <1>a, <2>1, <2>6, ResumePoints DEF ResumeInv, Sealed, OneMachine
    <2>10. QED
        BY <2>7, <2>8, <2>9 DEF ResumeInv, OneMachine
<1>5. QED
    BY <1>1, <1>2, <1>3, <1>4

(* The copy does not fail: the source opens with the old key, the half-    *)
(* built target with the staged one, and the rounds suffice.                *)
LEMMA ResumeBuild ==
    ASSUME OneMachine, IsFiniteSet(Pushes), Cardinality(Pushes) < MaxRounds,
           AllInv, ResumeInv, NEW r \in Rotators,
           \/ OpenSource(r) \/ OpenTarget(r)
           \/ LoadETag(r) \/ LoadState(r) \/ CopyBundle(r) \/ CheckSource(r)
           \/ TargetETag(r) \/ SaveTarget(r)
    PROVE  ResumeInv'
<1>t. /\ rot[r] \in Rotator /\ rot \in [Rotators -> Rotator] /\ TypeInv /\ KeepInv
      /\ repo \in [Gens -> {0} \cup Keys] /\ state \in [Gens -> State]
    BY DEF AllInv, TypeInv, TypeOK
<1>h. Resumes(r) /\ HalfBuilt
    BY DEF ResumeInv
<1> DEFINE copying == {"open source", "open target", "load etag", "load", "copy", "check",
                       "target etag", "save"}
<1>q. pc[r] \in copying
    BY DEF OpenSource, OpenTarget, LoadETag, LoadState, CopyBundle, CheckSource, TargetETag,
           SaveTarget
<1>p. copying \subseteq Staged \cap Planned \cap Unflipped /\ copying \cap (Switching \cup Cleaning) = {}
    BY ResumePoints
<1>n. /\ rot[r].dekOld = repo[Active] /\ rot[r].CurGen = Active
      /\ staged = [key |-> rot[r].dekNew, under |-> rot[r].dekOld]
      /\ state[Active].by = repo[Active]
      /\ rot[r].NextGen = Following /\ rot[r].NextGen \in Ahead
      /\ Active \in Gens \ Ahead /\ Ahead \subseteq Gens
    BY <1>t, <1>h, <1>q, <1>p, AheadFacts
       DEF Resumes, KeepInv, Spares, AllInv, ContentInv, OneKey
<1>a. Active' = Active /\ Following' = Following /\ Ahead' = Ahead /\ pointer' = pointer
      /\ UNCHANGED <<repoPub, seal, staged>>
    BY DEF OpenSource, OpenTarget, LoadETag, LoadState, CopyBundle, CheckSource, TargetETag,
           SaveTarget, bucket, Active, Following, Ahead
<1>g. ASSUME NEW p \in (copying \ {"save"}) \cup {"verify seal"}, Goto(r, p), repo' = repo,
             rot'[r].dekOld = rot[r].dekOld, rot'[r].dekNew = rot[r].dekNew
      PROVE  ResumeInv'
    <2>1. pc'[r] = p /\ outcome'[r] # "failed"
        BY <1>g, <1>t, Locals, NotFailed
    <2>2. p \notin {"stage", "save"} \cup Cleaning \cup Switching /\ pc[r] \notin Switching
        BY <1>g, <1>p, <1>q, ResumePoints
    <2>3. QED
        BY <1>a, <1>g, <1>n, <2>1, <2>2, ResumeQuiet
<1>c. ASSUME NEW p \in (copying \ {"save"}) \cup {"verify seal"}, Continue(r, p), repo' = repo
      PROVE  ResumeInv'
    <2>1. Goto(r, p) /\ rot'[r] = rot[r]
        BY <1>c, <1>t, Locals DEF Continue
    <2>2. QED
        BY <1>c, <1>g, <2>1
<1>1. CASE OpenSource(r) \/ CopyBundle(r)
    <2>1. repo[rot[r].CurGen] = rot[r].dekOld
        BY <1>n
    <2>2. QED
        BY <1>1, <1>c, <2>1 DEF OpenSource, CopyBundle, bucket
<1>2. CASE OpenTarget(r)
    <2>1. repo[rot[r].NextGen] \in {0, rot[r].dekNew}
        BY <1>h, <1>n DEF HalfBuilt
    <2>2. /\ repo' = [repo EXCEPT ![rot[r].NextGen] = rot[r].dekNew] /\ Continue(r, "load etag")
        BY <1>2, <2>1 DEF OpenTarget
    <2>3. pc'[r] = "load etag" /\ rot'[r] = rot[r] /\ outcome'[r] # "failed"
        BY <1>t, <2>2, Locals, NotFailed
    <2>4. repo'[Active] = repo[Active] /\ repo'[rot[r].NextGen] = rot[r].dekNew
          /\ \A g \in Gens : g # rot[r].NextGen => repo'[g] = repo[g]
        BY <1>t, <1>n, <2>2
    <2>5. HalfBuilt'
        BY <1>a, <1>h, <1>n, <2>4 DEF HalfBuilt
    <2>6. Resumes(r)'
        BY <1>a, <1>h, <1>n, <1>p, <2>3, <2>4, ResumePoints DEF Resumes
    <2>7. Sealed'
        BY <1>a, <1>q, <1>p, <2>4 DEF ResumeInv, Sealed, OneMachine
    <2>8. QED
        BY <2>5, <2>6, <2>7 DEF ResumeInv, OneMachine
<1>3. CASE LoadETag(r)
    <2>1. rot' = [rot EXCEPT ![r] = [rot[r] EXCEPT !.srcETag = state[rot[r].CurGen].tag,
                                                   !.table = {}]]
        BY <1>3 DEF LoadETag
    <2>2. rot'[r].dekOld = rot[r].dekOld /\ rot'[r].dekNew = rot[r].dekNew
        BY <1>t, <2>1 DEF Rotator
    <2>3. PICK p \in {"check", "load"} : Goto(r, p)
        BY <1>3 DEF LoadETag
    <2>4. QED
        BY <1>3, <1>g, <2>2, <2>3 DEF LoadETag, bucket
<1>4. CASE LoadState(r)
    <2>1. rot' = [rot EXCEPT ![r].table = state[rot[r].CurGen].has] /\ Goto(r, "copy") /\ repo' = repo
        BY <1>4, <1>n DEF LoadState, bucket
    <2>2. rot'[r].dekOld = rot[r].dekOld /\ rot'[r].dekNew = rot[r].dekNew
        BY <1>t, <2>1 DEF Rotator
    <2>3. QED
        BY <1>g, <2>1, <2>2
<1>5. CASE CheckSource(r)
    <2>1. CASE state[rot[r].CurGen].tag = rot[r].srcETag
        BY <1>5, <1>c, <2>1 DEF CheckSource, bucket
    <2>2. CASE state[rot[r].CurGen].tag # rot[r].srcETag
        <3>1. pc[r] = "check" /\ "check" \in Looking
            BY <1>5 DEF CheckSource, Looking, Compared
        <3>2. rot[r].round <= Cardinality(acked)
            BY <2>2, <3>1 DEF AllInv, LookInv, Looks
        <3>3. rot[r].round \in Nat /\ MaxRounds \in Nat
            BY <1>t, RotationAssumption DEF Rotator
        <3>4. rot[r].round < MaxRounds
            BY <1>t, <3>2, <3>3, AckedIsFinite
        <3>5. rot' = [rot EXCEPT ![r].round = @ + 1] /\ Goto(r, "load etag") /\ repo' = repo
            BY <1>5, <2>2, <3>4 DEF CheckSource, bucket
        <3>6. rot'[r].dekOld = rot[r].dekOld /\ rot'[r].dekNew = rot[r].dekNew
            BY <1>t, <3>5 DEF Rotator
        <3>7. QED
            BY <1>g, <3>5, <3>6
    <2>3. QED
        BY <2>1, <2>2
<1>6. CASE TargetETag(r)
    <2>1. /\ rot' = [rot EXCEPT ![r] = [rot[r] EXCEPT !.prevETag = state[rot[r].NextGen].tag]]
          /\ Goto(r, "save") /\ repo' = repo /\ state' = state
        BY <1>6 DEF TargetETag, bucket
    <2>2. /\ rot'[r].dekOld = rot[r].dekOld /\ rot'[r].dekNew = rot[r].dekNew
          /\ rot'[r].NextGen = rot[r].NextGen
          /\ rot'[r].prevETag = state[rot[r].NextGen].tag
        BY <1>t, <2>1 DEF Rotator
    <2>3. pc'[r] = "save" /\ outcome'[r] # "failed"
        BY <1>t, <2>1, Locals, NotFailed
    <2>4. HalfBuilt'
        BY <1>a, <1>h, <2>1 DEF HalfBuilt
    <2>5. Resumes(r)'
        BY <1>a, <1>n, <1>p, <2>1, <2>2, <2>3, ResumePoints DEF Resumes
    <2>6. Sealed'
        BY <1>a, <1>q, <1>p, <2>1 DEF ResumeInv, Sealed, OneMachine
    <2>7. QED
        BY <2>4, <2>5, <2>6 DEF ResumeInv, OneMachine
<1>7. CASE SaveTarget(r)
    <2>1. state[rot[r].NextGen].tag = rot[r].prevETag
        BY <1>7, <1>h DEF SaveTarget, Resumes
    <2>2. QED
        BY <1>7, <1>c, <2>1 DEF SaveTarget
<1>8. QED
    BY <1>1, <1>2, <1>3, <1>4, <1>5, <1>6, <1>7

(* The seal does not stop the switch, the last one is made with the new     *)
(* key, and the pointer is the one that was read.                           *)
LEMMA ResumeSwitch ==
    ASSUME OneMachine, AllInv, ResumeInv, NEW r \in Rotators,
           \/ VerifySeal(r) \/ (\E m \in Slots : RewrapSlot(r, m)) \/ SealSlots(r)
           \/ SetRepoKey(r) \/ SealRepoKey(r) \/ Flip(r)
    PROVE  ResumeInv'
<1>t. /\ rot[r] \in Rotator /\ rot \in [Rotators -> Rotator] /\ TypeInv /\ KeepInv
      /\ pc \in [Rotators -> RotatorPoints]
    BY DEF AllInv, TypeInv, TypeOK
<1>h. Resumes(r) /\ HalfBuilt
    BY DEF ResumeInv
<1>p. Switching \cup {"verify seal"} \subseteq Staged \cap Planned \cap Unflipped
    BY ResumePoints
<1>n. /\ rot[r].dekOld = repo[Active] /\ pc[r] \in Switching \cup {"verify seal"}
      /\ staged = [key |-> rot[r].dekNew, under |-> rot[r].dekOld]
    <2>1. pc[r] \in Switching \cup {"verify seal"}
        BY DEF VerifySeal, RewrapSlot, SealSlots, SetRepoKey, SealRepoKey, Flip, Switching
    <2>2. QED
        BY <1>h, <1>p, <2>1 DEF Resumes
<1>s. ASSUME NEW p \in Switching, Goto(r, p), UNCHANGED <<pointer, repo, staged>>,
             rot'[r].dekOld = rot[r].dekOld, rot'[r].dekNew = rot[r].dekNew,
             p = "flip" => seal' = [by |-> rot[r].dekNew, repo |-> repoPub']
      PROVE  ResumeInv'
    <2>1. Active' = Active /\ Following' = Following /\ Ahead' = Ahead
        BY <1>s DEF Active, Following, Ahead
    <2>2. HalfBuilt'
        BY <1>h, <1>s, <2>1 DEF HalfBuilt
    <2>3. pc'[r] = p /\ outcome'[r] # "failed"
        BY <1>s, <1>t, Locals, NotFailed
    <2>4. p \notin {"stage", "save"} \cup Cleaning
        BY ResumePoints
    <2>5. Resumes(r)'
        BY <1>n, <1>s, <2>1, <2>3, <2>4 DEF Resumes
    <2>6. QED
        BY <2>2, <2>3, <2>5 DEF ResumeInv, OneMachine
<1>1. CASE VerifySeal(r)
    <2>1. SealPasses(r)
        <3>1. pc[r] \notin Switching
            BY <1>1, ResumePoints DEF VerifySeal
        <3>2. Sealed
            BY <3>1 DEF ResumeInv, OneMachine
        <3>3. QED
            BY <1>n, <3>2 DEF Sealed, SealPasses
    <2>2. PICK todo \in Rewrappable, p \in {"repo key", "rewrap"} :
            rot' = [rot EXCEPT ![r] = [rot[r] EXCEPT !.todo = todo]] /\ Goto(r, p)
        BY <1>1, <2>1 DEF VerifySeal
    <2>3. rot'[r].dekOld = rot[r].dekOld /\ rot'[r].dekNew = rot[r].dekNew
        BY <1>t, <2>2 DEF Rotator
    <2>4. p \in Switching /\ p # "flip"
        BY ResumePoints
    <2>5. QED
        BY <1>1, <1>s, <2>2, <2>3, <2>4 DEF VerifySeal, bucket
<1>2. ASSUME NEW m \in Slots, RewrapSlot(r, m) PROVE ResumeInv'
    <2>1. /\ rot' = [rot EXCEPT ![r] = [rot[r] EXCEPT !.todo = rot[r].todo \ {m}]]
          /\ Goto(r, "seal slots") /\ UNCHANGED <<pointer, repo, staged>>
        BY <1>2 DEF RewrapSlot
    <2>2. rot'[r].dekOld = rot[r].dekOld /\ rot'[r].dekNew = rot[r].dekNew
        BY <1>t, <2>1 DEF Rotator
    <2>3. QED
        BY <1>s, <2>1, <2>2, ResumePoints
<1>3. CASE SealSlots(r) \/ SetRepoKey(r) \/ SealRepoKey(r)
    <2>1. PICK p \in {"repo key", "rewrap", "seal repo key", "flip"} : Continue(r, p)
        BY <1>3 DEF SealSlots, SetRepoKey, SealRepoKey
    <2>2. pc'[r] = p /\ rot'[r] = rot[r] /\ Goto(r, p) /\ p \in Switching
        BY <1>t, <2>1, Locals, ResumePoints DEF Continue
    <2>3. UNCHANGED <<pointer, repo, staged>>
        BY <1>3 DEF SealSlots, SetRepoKey, SealRepoKey
    <2>4. ASSUME p = "flip" PROVE seal' = [by |-> rot[r].dekNew, repo |-> repoPub']
        <3>1. CASE SealRepoKey(r)
            BY <3>1 DEF SealRepoKey
        <3>2. CASE SealSlots(r) \/ SetRepoKey(r)
            <4>1. PICK u \in {"repo key", "rewrap", "seal repo key"} : Continue(r, u)
                BY <3>2 DEF SealSlots, SetRepoKey
            <4>2. QED
                BY <1>t, <2>2, <2>4, <4>1, Locals
        <3>3. QED
            BY <1>3, <3>1, <3>2
    <2>5. QED
        BY <1>s, <2>2, <2>3, <2>4
<1>4. CASE Flip(r)
    <2>0. pc[r] = "flip" /\ "flip" \in Planned \cap Built
        BY <1>4, ResumePoints DEF Flip, Built
    <2>1. pointer = rot[r].pointerETag
        BY <2>0 DEF AllInv, SlotInv, Rewraps
    <2>2. /\ Active' = rot[r].NextGen /\ pc'[r] = "clean repo"
          /\ UNCHANGED <<repo, repoPub, seal, staged>> /\ pointer' = rot[r].NextGen
        BY <1>4, <1>t, <2>1, FlipMoves DEF Flip
    <2>3. pointer' = Following
        BY <1>t, <2>0, <2>2, AheadFacts
    <2>4. ASSUME NEW g \in Ahead', repo'[g] # 0 PROVE FALSE
        <3>1. g \in Ahead /\ g # Following /\ repo[g] # 0
            BY <1>t, <2>2, <2>3, <2>4, AheadFacts
        <3>2. QED
            BY <1>h, <3>1 DEF HalfBuilt
    <2>5. NothingAhead' /\ HalfBuilt'
        BY <2>4 DEF NothingAhead, HalfBuilt
    <2>6. repo[rot[r].NextGen] = rot[r].dekNew
        BY <2>0 DEF AllInv, ContentInv, Copies
    <2>7. seal = [by |-> rot[r].dekNew, repo |-> repoPub]
        BY <1>h, <2>0 DEF Resumes
    <2>8. Sealed'
        BY <2>2, <2>6, <2>7 DEF Sealed
    <2>9. outcome'[r] # "failed"
        BY <1>4, <1>t, <2>1, NotFailed DEF Flip
    <2>10. Resumes(r)'
        BY <2>2, <2>5, <2>9, ResumePoints DEF Resumes
    <2>11. QED
        BY <2>5, <2>8, <2>10 DEF ResumeInv, OneMachine
<1>5. QED
    BY <1>1, <1>2, <1>3, <1>4

(* The clean-up touches neither the active generation nor any ahead.        *)
LEMMA ResumeClean ==
    ASSUME ~Flaky, OneMachine, AllInv, ResumeInv, NEW r \in Rotators,
           CleanRepo(r) \/ CleanState(r) \/ CleanStaged(r)
    PROVE  ResumeInv'
<1>t. /\ rot[r] \in Rotator /\ TypeInv /\ KeepInv /\ repo \in [Gens -> {0} \cup Keys]
    BY DEF AllInv, TypeInv, TypeOK
<1>h. Resumes(r)
    BY DEF ResumeInv
<1>q. pc[r] \in Cleaning /\ UNCHANGED <<pointer, repoPub, seal>>
    BY ResumePoints DEF CleanRepo, CleanState, CleanStaged
<1>a. Active' = Active /\ Following' = Following /\ Ahead' = Ahead
    BY <1>q DEF Active, Following, Ahead
<1>1. repo'[Active] = repo[Active] /\ \A g \in Gens : repo'[g] \in {0, repo[g]}
    <2>1. rot[r].CurGen # Active /\ Active \in Gens
        BY <1>t, <1>q, AheadFacts DEF KeepInv, Spares
    <2>2. QED
        BY <1>t, <2>1 DEF CleanRepo, CleanState, CleanStaged
<1>2. NothingAhead
    BY <1>h, <1>q DEF Resumes
<1>3. NothingAhead' /\ HalfBuilt'
    BY <1>a, <1>1, <1>2 DEF NothingAhead, HalfBuilt, Ahead
<1>4. Sealed'
    BY <1>a, <1>q, <1>1, ResumePoints DEF ResumeInv, Sealed, OneMachine
<1>5. /\ pc'[r] \in {"clean state", "clean staged", "idle"}
      /\ outcome'[r] # "failed"
    <2>1. CASE CleanRepo(r) \/ CleanState(r)
        BY <1>t, <2>1, Locals, NotFailed DEF CleanRepo, CleanState
    <2>2. CASE CleanStaged(r)
        BY <1>t, <2>2, Locals, NotFailed DEF CleanStaged
    <2>3. QED
        BY <2>1, <2>2
<1>6. Resumes(r)'
    BY <1>3, <1>5, ResumePoints DEF Resumes
<1>7. QED
    BY <1>3, <1>4, <1>6 DEF ResumeInv, OneMachine

(* Sessions work behind the pointer. *)
LEMMA ResumePush ==
    ASSUME AllInv, ResumeInv, NEW q \in Pushes, Push(q)
    PROVE  ResumeInv'
<1>t. /\ TypeInv /\ KeepInv /\ repo \in [Gens -> {0} \cup Keys] /\ state \in [Gens -> State]
    BY DEF AllInv, TypeInv, TypeOK
<1>1. UNCHANGED <<pointer, repoPub, seal, staged, pc, rot, outcome>>
    BY DEF Push, PushUnwrap, PushPointer, PushOpen, PushETag, PushGet, PushSave, PushQuit, bucket,
           rotating
<1>a. Active' = Active /\ Following' = Following /\ Ahead' = Ahead
    BY <1>1 DEF Active, Following, Ahead
<1>2. \A g \in Ahead : repo'[g] = repo[g] /\ state'[g] = state[g]
    <2>1. sess[q].gen \notin Ahead /\ Ahead \subseteq Gens
        BY <1>t, AheadFacts
    <2>2. CASE PushOpen(q)
        BY <1>t, <2>1, <2>2 DEF PushOpen
    <2>3. CASE PushSave(q)
        BY <1>t, <2>1, <2>3 DEF PushSave
    <2>4. CASE UNCHANGED <<repo, state>>
        BY <2>4
    <2>5. QED
        BY <2>2, <2>3, <2>4 DEF Push, PushUnwrap, PushPointer, PushETag, PushGet, PushQuit, bucket
<1>3. repo'[Active] = repo[Active]
    <2>1. CASE PushOpen(q)
        <3>1. Active \in Gens /\ repo[Active] # 0
            BY <1>t, AheadFacts DEF KeepInv, ActiveIsKept
        <3>2. QED
            BY <1>t, <2>1, <3>1 DEF PushOpen
    <2>2. CASE repo' = repo
        BY <2>2
    <2>3. QED
        BY <2>1, <2>2
           DEF Push, PushUnwrap, PushPointer, PushETag, PushGet, PushSave, PushQuit, bucket
<1>4. HalfBuilt' /\ (NothingAhead => NothingAhead')
    BY <1>1, <1>a, <1>2, <1>3 DEF ResumeInv, HalfBuilt, NothingAhead
<1>5. (\A r \in Rotators : pc'[r] \notin Switching) => Sealed'
    BY <1>1, <1>a, <1>3 DEF ResumeInv, Sealed
<1>6. ASSUME NEW r \in Rotators PROVE Resumes(r)'
    <2>1. Resumes(r)
        BY DEF ResumeInv
    <2>2. pc[r] = "save" => state'[rot[r].NextGen] = state[rot[r].NextGen]
        <3>1. CASE pc[r] = "save"
            <4>1. pc[r] \in Planned
                BY <3>1, ResumePoints
            <4>2. rot[r].NextGen \in Ahead
                BY <1>t, <4>1, AheadFacts
            <4>3. QED
                BY <1>2, <4>2
        <3>2. QED
            BY <3>1
    <2>3. QED
        BY <1>1, <1>a, <1>3, <1>4, <2>1, <2>2 DEF Resumes
<1>7. QED
    BY <1>4, <1>5, <1>6 DEF ResumeInv

(* The start: one generation, sealed with its key or not at all. *)
LEMMA ResumeInit == Init => ResumeInv
<1> SUFFICES ASSUME Init PROVE ResumeInv
    OBVIOUS
<1>1. Active = 1 /\ 1 \in Gens
    BY Firsts DEF Init, Active, FirstGeneration
<1>2. \A g \in Gens : g # 1 => repo[g] = 0
    BY DEF Init
<1>3. repo[1] = 1
    BY <1>1 DEF Init
<1>4. HalfBuilt
    <2>1. 1 \notin Ahead
        BY <1>1 DEF Ahead
    <2>2. QED
        BY <1>2, <2>1 DEF HalfBuilt, Ahead
<1>5. Sealed
    BY <1>1, <1>3 DEF Init, Sealed
<1>6. \A r \in Rotators : Resumes(r)
    BY ResumePoints DEF Init, Resumes
<1>7. QED
    BY <1>4, <1>5, <1>6 DEF ResumeInv

(* With one machine rotating at a time, whose own slot has a recorded key,  *)
(* with more rounds than there are pushes, and unless a rotation is killed  *)
(* between its first re-wrapped slot and its flip, no rotation ends in an   *)
(* error, however often earlier ones were interrupted (rotation.go,         *)
(* loadOrStageNextDEK, SweepStaleGenerations and Build).                    *)
THEOREM InterruptedRotationsResume ==
    ASSUME ~Flaky, OneMachine, Killable \cap Switching = {}, \A r \in Rotators : Owner[r] \in Recorded,
           IsFiniteSet(Pushes), Cardinality(Pushes) < MaxRounds
    PROVE  Spec => []RerunSucceeds
<1>1. ASSUME AllInv, ResumeInv, [Next]_vars PROVE ResumeInv'
    <2>1. CASE UNCHANGED vars
        <3>1. UNCHANGED <<pointer, repo, state, repoPub, seal, staged, pc, rot, outcome>>
            BY <2>1 DEF vars, bucket, rotating
        <3>2. Active' = Active /\ Following' = Following /\ Ahead' = Ahead
            BY <3>1 DEF Active, Following, Ahead
        <3>3. QED
            BY <1>1, <3>1, <3>2 DEF ResumeInv, HalfBuilt, Sealed, Resumes, NothingAhead
    <2>2. ASSUME NEW r \in Rotators, Start(r) \/ Rotate(r) \/ Kill(r) PROVE ResumeInv'
        BY <1>1, <2>2, ResumeRead, ResumeStage, ResumeBuild, ResumeSwitch, ResumeClean DEF Rotate
    <2>3. ASSUME NEW q \in Pushes, Push(q) PROVE ResumeInv'
        BY <1>1, <2>3, ResumePush
    <2>4. QED
        BY <1>1, <2>1, <2>2, <2>3 DEF Next
<1>2. ResumeInv => RerunSucceeds
    BY DEF ResumeInv, Resumes, RerunSucceeds
<1>3. TypeInv /\ KeepInv /\ ContentInv /\ SlotInv /\ LookInv <=> AllInv
    BY DEF AllInv
<1>4. QED
    BY <1>1, <1>2, <1>3, ResumeInit, LookNext, SlotAlways, ContentAlways, PTL DEF Spec
=============================================================================
