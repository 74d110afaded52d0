---------------------------- MODULE DraftPromise ----------------------------
(***************************************************************************)
(* What MailCLI promises about one draft, seen from outside: where the     *)
(* draft stands, how far the one submission of it got, and how far the one *)
(* copy that MailCLI puts into Sent got.  Nothing is said of processes,    *)
(* files, locks, retries or crashes; DraftSend implements this.            *)
(***************************************************************************)
VARIABLES
  stage,     \* "open" to edits, "frozen" by an attempt, or "gone"
  outbox,    \* the submission: "none", "offered" to the server, "accepted"
  sentCopy   \* MailCLI's own copy in Sent: "none", "offered", "kept"

promise == <<stage, outbox, sentCopy>>

PromiseInit == stage = "open" /\ outbox = "none" /\ sentCopy = "none"

(* An attempt freezes the draft before a server hears of it.               *)
Freeze ==
  /\ stage = "open"
  /\ stage' = "frozen"
  /\ UNCHANGED <<outbox, sentCopy>>

(* Only a definite rejection opens it again.                               *)
Thaw ==
  /\ stage = "frozen" /\ outbox = "none"
  /\ stage' = "open"
  /\ UNCHANGED <<outbox, sentCopy>>

Vanish ==
  /\ stage # "gone"
  /\ stage' = "gone"
  /\ UNCHANGED <<outbox, sentCopy>>

(* One message at a time, and none once one was accepted.                  *)
Offer ==
  /\ stage = "frozen" /\ outbox = "none"
  /\ outbox' = "offered"
  /\ UNCHANGED <<stage, sentCopy>>

Decide ==
  /\ outbox = "offered"
  /\ outbox' \in {"none", "accepted"}
  /\ UNCHANGED <<stage, sentCopy>>

(* A copy is offered only of a message that was accepted, and only once    *)
(* unless the mailbox definitely refused it.                               *)
OfferCopy ==
  /\ stage = "frozen" /\ outbox = "accepted" /\ sentCopy = "none"
  /\ sentCopy' = "offered"
  /\ UNCHANGED <<stage, outbox>>

DecideCopy ==
  /\ sentCopy = "offered"
  /\ sentCopy' \in {"none", "kept"}
  /\ UNCHANGED <<stage, outbox>>

PromiseNext == Freeze \/ Thaw \/ Vanish \/ Offer \/ Decide \/ OfferCopy \/ DecideCopy

PromiseSpec == PromiseInit /\ [][PromiseNext]_promise
=============================================================================
