----------------------------- MODULE MCRunQueue -----------------------------
(***************************************************************************)
(* Plans and Runner pools for model checking RunQueue.                     *)
(***************************************************************************)
EXTENDS RunQueue, TLC

CONSTANTS build, lint, ship, w1, w2

\* ship joins build and lint.
JoinKeys == {build, lint, ship}
JoinDeps == (build :> {}) @@ (lint :> {}) @@ (ship :> {build, lint})

\* lint waits for build.
ChainKeys == {build, lint}
ChainDeps == (build :> {}) @@ (lint :> {build})

\* Two jobs that do not depend on each other.
FlatDeps == (build :> {}) @@ (lint :> {})

TwoRunners == {w1, w2}
OneRunner == {w1}

\* Runners that fit every job, and announce one of these capacities.
Announcing(capacities) == {[capacity |-> n, fits |-> Keys] : n \in capacities}
AlwaysOne == [w \in Runners |-> Announcing({1})]
AlwaysTwo == [w \in Runners |-> Announcing({2})]

\* w1 fits no job but build with its other labels; w2 is restarted with another
\* capacity.
Changing ==
  (w1 :> Announcing({1}) \cup {[capacity |-> 1, fits |-> {build}]}) @@ (w2 :> Announcing({1, 2}))

NoneRetired == {}

RunnerSymmetry == Permutations(Runners)
=============================================================================
