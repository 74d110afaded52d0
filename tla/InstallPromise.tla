--------------------------- MODULE InstallPromise ---------------------------
(***************************************************************************)
(* What the release installer promises: there is always one installation,  *)
(* and an install replaces its binary and its skill together.              *)
(***************************************************************************)
EXTENDS Naturals

CONSTANTS Procs, MaxRelease, NoOne
VARIABLE installed

Parts == {"binary", "skill"}
Some(p, v) == [by |-> p, ver |-> v, whole |-> TRUE]

\* Each part is installed or was never there.
Init == installed \in [Parts -> {Some(NoOne, 1), [Some(NoOne, 0) EXCEPT !.whole = FALSE]}]

Install(p, v) == installed' = [c \in Parts |-> Some(p, v)]

Next == \E p \in Procs, v \in 1..MaxRelease: Install(p, v)

Spec == Init /\ [][Next]_installed
=============================================================================
