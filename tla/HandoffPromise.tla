--------------------------- MODULE HandoffPromise ---------------------------
(***************************************************************************)
(* What a visible handoff promises about one draft, seen from Mail: a      *)
(* compose window is asked for only when what became of every earlier      *)
(* request is settled, by Mail's own answer or by a person who looked.     *)
(* Nothing is said of claims, snapshots, processes or crashes;             *)
(* DraftHandoff implements this.                                           *)
(***************************************************************************)
CONSTANT Attempts

VARIABLES
  open,     \* requests whose outcome nobody confirmed yet
  settled   \* requests whose outcome was confirmed

promise == <<open, settled>>

PromiseInit == open = {} /\ settled = {}

Ask(a) ==
  /\ open = {} /\ a \notin settled
  /\ open' = {a}
  /\ UNCHANGED settled

Settle(a) ==
  /\ a \in open
  /\ open' = open \ {a}
  /\ settled' = settled \cup {a}

PromiseNext == \E a \in Attempts : Ask(a) \/ Settle(a)

PromiseSpec == PromiseInit /\ [][PromiseNext]_promise
=============================================================================
