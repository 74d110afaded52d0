---------------------------- MODULE MCDraftShelf ----------------------------
(* Adoption, one more command on a draft, and prune, a listing or a dry run. *)
EXTENDS DraftShelf

MCScenes ==
    {{"adopt", "discard", "prune"}, {"update", "prune"}, {"claim", "prune"}, {"save", "prune"},
     {"adopt", "update", "list"}, {"save", "list"}, {"adopt", "dryrun"}, {"discard", "dryrun"}}
=============================================================================
