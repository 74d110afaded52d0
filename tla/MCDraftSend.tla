---------------------------- MODULE MCDraftSend -----------------------------
(* The life of one draft on small instances; names are interchangeable. *)
EXTENDS DraftSendProps, TLC

SendSymmetry ==
  Permutations(Procs) \cup Permutations(Revs) \cup Permutations(Msgs) \cup Permutations(Appends)
=============================================================================
