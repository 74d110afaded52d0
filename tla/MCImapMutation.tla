--------------------------- MODULE MCImapMutation ---------------------------
EXTENDS ImapMutation

Ask(op, from, to, named, pinned) ==
  [op |-> op, from |-> from, to |-> to, add |-> {}, remove |-> {},
   named |-> named, pinned |-> pinned]

MCRequests ==
  {Ask("copy", "inbox", "trash", TRUE, FALSE),
   Ask("move", "inbox", "trash", TRUE, TRUE),
   Ask("move", "inbox", "trash", FALSE, TRUE),
   Ask("move", "trash", "inbox", TRUE, FALSE),
   [Ask("mark", "inbox", "trash", TRUE, TRUE) EXCEPT !.add = {"Junk"}, !.remove = {"NotJunk"}]}

MCOffers == {{}, {"UIDPLUS"}, {"MOVE", "UIDPLUS"}}
Symmetric == Permutations(Procs)
=============================================================================
