----------------------------- MODULE LeaseMutex -----------------------------
(***************************************************************************)
(* What an exclusive draft lease promises to every operation that mutates  *)
(* one draft: between an acquisition and the release that ends it no other *)
(* process owns the draft, and ownership is never handed over silently.    *)
(* The lock-file protocol that has to keep this promise is in DraftLease.  *)
(***************************************************************************)
CONSTANTS Procs,     \* processes that may operate on the draft
          NoProc     \* nobody owns the draft

VARIABLE owner

MutexInit == owner = NoProc

Obtain(p) == owner = NoProc /\ owner' = p

GiveUp(p) == owner = p /\ owner' = NoProc

MutexNext == \E p \in Procs : Obtain(p) \/ GiveUp(p)

MutexSpec == MutexInit /\ [][MutexNext]_owner
=============================================================================
