--------------------------- MODULE MCDraftHandoff ---------------------------
(* The handoff of one draft on small instances; names are interchangeable. *)
EXTENDS DraftHandoffProps, TLC

HandoffSymmetry ==
  Permutations(Procs) \cup Permutations(Revs) \cup Permutations(Attempts)
=============================================================================
