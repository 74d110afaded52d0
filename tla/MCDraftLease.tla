---------------------------- MODULE MCDraftLease ----------------------------
(* The lease protocol on small instances; names are interchangeable. *)
EXTENDS DraftLease, TLC

LeaseSymmetry == Permutations(Procs) \cup Permutations(Inodes)
=============================================================================
