--------------------------- MODULE DraftSendProps ---------------------------
(***************************************************************************)
(* What has to be true of the life of a draft (DraftSend), and the         *)
(* inductive invariant that the safety part of it follows from.            *)
(***************************************************************************)
EXTENDS DraftSend

(* The provider has the message, or has accepted it.                       *)
Live(m) == mail[m].st \in {"data", "accepted"}

(* At most one of the messages composed for a draft is ever in the hands   *)
(* of the SMTP server or accepted by it, across retries, stops at any      *)
(* write, concurrent sends and reconciliations (SendDraft).                *)
AtMostOneSubmission == \A m, n \in Msgs : Live(m) /\ Live(n) => m = n

(* As long as the draft exists, a message that may be delivered is on      *)
(* record in its claim, and its exact bytes are retained until the claim   *)
(* is terminal (beginSendAttempt, removeSendAttempt).                      *)
SubmissionOnRecord ==
  \A m \in Msgs : Live(m) /\ doc # NoRev =>
    /\ Claimed /\ claim.msg = m
    /\ claim.outcome # "sent" => spool = m

(* What was submitted is the content the caller reviewed, also when an     *)
(* edit won the lease while the send waited (requireDraftRevision).        *)
SubmittedAsReviewed == \A m \in Msgs : Live(m) => mail[m].rev = mail[m].approved

(* An attempt freezes its draft: nobody edits a draft whose content may    *)
(* be on the wire, so a copy found later can be verified against it        *)
(* (rejectClaimedDraft, verifyFetchedSentIdentity).                        *)
ClaimFreezesDraft == Claimed /\ doc # NoRev => claim.rev = doc

(* MailCLI puts at most one copy into Sent itself: an APPEND whose outcome *)
(* is open or good is never followed by another one                        *)
(* (persistMirrorAttemptBeforeDispatch, reconcileMirrorPending).           *)
SingleMirrorCopy ==
  \A a, b \in Appends :
    /\ apnd[a].st \in {"data", "applied"} /\ apnd[b].st \in {"data", "applied"}
    /\ apnd[a].msg = apnd[b].msg
    => a = b

(* A receipt testifies to one accepted message of the recorded revision    *)
(* with a copy in Sent; while the draft exists a terminal claim goes with  *)
(* it (finishObservedSend).                                                *)
ReceiptTruthful ==
  receipt.st = "kept" =>
    /\ receipt.msg \in Msgs
    /\ mail[receipt.msg].st = "accepted"
    /\ mail[receipt.msg].rev = receipt.rev
    /\ Copies(receipt.msg) # {}
    /\ doc # NoRev => claim.outcome = "sent" /\ claim.msg = receipt.msg

(* A torn claim blocks its draft but hides nothing: no message of the      *)
(* draft has been submitted (writePrivateDraftFile before SubmitReader).   *)
TornClaimHarmless == claim.outcome = "torn" /\ doc # NoRev => \A m \in Msgs : ~Live(m)

(* A draft disappears by an explicit discard, by pruning a draft nobody    *)
(* tried to send, or after a durable receipt for exactly its content.      *)
NoSilentLoss ==
  [][doc # NoRev /\ doc' = NoRev =>
       \/ req[lease].op = "discard"
       \/ req[lease].op = "prune" /\ claim.outcome = "none"
       \/ /\ receipt.st = "kept" /\ receipt.rev = doc
          /\ mail[receipt.msg].st = "accepted"]_vars

(* Evidence only grows: an attempt's outcome never goes back, its message  *)
(* is never exchanged, and it is withdrawn only when the server has no     *)
(* message or the draft itself is gone (replaceSendAttempt).               *)
Rank(o) == CASE o = "unknown" -> 1 [] o = "pending" -> 2 [] o = "sent" -> 3 [] OTHER -> 0
EvidenceMonotone ==
  [][Claimed =>
       IF Rank(claim'.outcome) = 0
       THEN doc = NoRev \/ ~Live(claim.msg)
       ELSE claim'.msg = claim.msg /\ Rank(claim'.outcome) >= Rank(claim.outcome)]_vars

(* A receipt is immutable, and dropped only after its retention and        *)
(* without a draft (persistSendReceipt, pruneExpiredSendReceiptOnce).      *)
ReceiptImmutable ==
  [][receipt.st = "kept" /\ receipt' # receipt =>
       receipt' = NoReceipt /\ expired /\ doc = NoRev]_vars

(* The manual says of drafts reconcile on a consumed reference that it     *)
(* returns the receipt.  With an active receipt and no claim left to clean *)
(* up it never fails (ReconcileDraft).  It does, when another operation    *)
(* creates the lock file again that it unlinked too early.                 *)
ConsumedAnswered ==
  \A p \in Procs :
    /\ pc[p] = "return" /\ req[p].op = "reconcile"
    /\ doc = NoRev /\ ReceiptActive /\ claim = NoClaim
    => code[p] # "send_cleanup_failed"

-----------------------------------------------------------------------------
(* The inductive invariant, first the files and the servers.               *)

Witnessed(m) == mail[m].st = "accepted" /\ Copies(m) # {}

ClaimNamesMessage ==
  Claimed =>
    /\ claim.msg \in Msgs /\ mail[claim.msg].st # "new" /\ mail[claim.msg].rev = claim.rev
    /\ claim.outcome = "pending" => mail[claim.msg].st = "accepted"
    /\ claim.outcome = "sent" => Witnessed(claim.msg)

ReviewedOnly == \A m \in Msgs : mail[m].rev = mail[m].approved

(* An APPEND that took or may take effect.                                 *)
Open(a, m) == apnd[a].msg = m /\ apnd[a].st \in {"data", "applied"}
Unsent(m) == \A a \in Appends : ~Open(a, m)

CopiesAccepted ==
  /\ \A a \in Appends : apnd[a].st # "new" =>
       apnd[a].msg \in Msgs /\ mail[apnd[a].msg].st = "accepted"
  /\ \A m \in filed : mail[m].st = "accepted"

(* A claim that allows another APPEND has none open.                       *)
ClaimArmed ==
  doc # NoRev /\ claim.outcome \in {"unknown", "pending"} /\ ~claim.unk => Unsent(claim.msg)

StoreInv ==
  /\ ClaimNamesMessage /\ ClaimFreezesDraft
  /\ ReviewedOnly
  /\ SubmissionOnRecord /\ AtMostOneSubmission /\ TornClaimHarmless
  /\ CopiesAccepted /\ ClaimArmed /\ SingleMirrorCopy
  /\ ReceiptTruthful

(* Then what a process may rely on at each of its steps.  Outside of       *)
(* Unleased it has the lease; there it only waits, or cleans up after a    *)
(* draft that is gone.                                                     *)
Unleased == {"idle", "wait", "return", "missing", "claims", "claimsEnd", "unlock"}
LeaseHeld(p) ==
  /\ pc[p] \notin Unleased => lease = p
  /\ pc[p] \in {"claims", "claimsEnd"} /\ req[p].op = "expire" => lease = p

Requested(p) ==
  /\ pc[p] \in Ops => req[p].op = pc[p]
  /\ pc[p] = "missing" => req[p].op = "reconcile"

CleanupWithoutDraft(p) ==
  pc[p] \in {"missing", "claims", "claimsEnd", "unlock", "dropReceipt", "sweepSpool"}
    => doc = NoRev

(* Before the claim exists the reviewed content is the draft's content.    *)
Preparing(p) ==
  /\ pc[p] \in {"recover", "compose", "claim"} =>
       /\ doc # NoRev /\ claim.outcome = "none"
       /\ att[p].rev = doc /\ req[p].rev = doc
       /\ att[p].unk = FALSE
  /\ pc[p] = "claim" =>
       /\ att[p].msg \in Msgs /\ spool = att[p].msg
       /\ mail[att[p].msg].st = "composed"
       /\ mail[att[p].msg].rev = att[p].rev

(* Once it exists, the attempt in memory is the attempt on disk ...        *)
AttemptSteps == {"submit", "reply", "reject", "unclaim", "arm", "mirror", "ack", "confirm",
                 "record", "sent", "receipt", "searchUnknown", "searchPending", "adopt"}
Attempting(p) ==
  pc[p] \in AttemptSteps =>
    /\ doc # NoRev /\ Claimed
    /\ claim.msg = att[p].msg /\ claim.rev = att[p].rev

(* ... and the step tells how far the servers got.                         *)
Submitting(p) ==
  /\ pc[p] = "submit" => mail[att[p].msg].st = "composed" /\ spool = att[p].msg
  /\ pc[p] \in {"submit", "reply"} => claim = att[p] /\ claim.outcome = "unknown" /\ ~claim.unk
  /\ pc[p] \in {"reject", "unclaim"} =>
       mail[att[p].msg].st \in {"composed", "refused"} /\ claim.outcome = "unknown"

Mirroring(p) ==
  /\ pc[p] \in {"arm", "mirror", "ack", "confirm", "record"} =>
       /\ mail[att[p].msg].st = "accepted"
       /\ att[p].outcome = "pending" /\ claim.outcome \in {"unknown", "pending"}
  /\ pc[p] = "searchPending" => claim = att[p] /\ claim.outcome = "pending"
  /\ pc[p] \in {"arm", "mirror"} => Unsent(att[p].msg)
  /\ pc[p] = "record" /\ ~att[p].unk => Unsent(att[p].msg)
  /\ pc[p] \in {"mirror", "ack", "confirm"} => att[p].unk /\ claim.unk
  /\ pc[p] = "ack" =>
       /\ cmd[p] \in Appends
       /\ apnd[cmd[p]].msg = att[p].msg /\ apnd[cmd[p]].st # "new"
       /\ \A a \in Appends \ {cmd[p]} : ~Open(a, att[p].msg)

(* The draft is removed for one of the reasons NoSilentLoss allows.        *)
Finishing(p) ==
  /\ pc[p] \in {"sent", "receipt"} => Witnessed(att[p].msg)
  /\ pc[p] = "receipt" => claim.outcome = "sent"
  /\ pc[p] = "remove" => doc # NoRev
  /\ pc[p] = "remove" =>
       \/ req[p].op = "prune" /\ claim.outcome = "none"
       \/ receipt.st = "kept" /\ receipt.rev = doc

ProcInv(p) ==
  /\ LeaseHeld(p) /\ Requested(p) /\ CleanupWithoutDraft(p)
  /\ Preparing(p) /\ Attempting(p) /\ Submitting(p) /\ Mirroring(p) /\ Finishing(p)

SendInv == TypeOK /\ StoreInv /\ \A p \in Procs : ProcInv(p)

-----------------------------------------------------------------------------
(* The promise, read off the files and the servers. *)

Stage == IF doc = NoRev THEN "gone" ELSE IF claim.outcome = "none" THEN "open" ELSE "frozen"

Outbox ==
  IF \E m \in Msgs : mail[m].st = "accepted" THEN "accepted"
  ELSE IF \E m \in Msgs : mail[m].st = "data" THEN "offered"
  ELSE "none"

SentCopy ==
  IF \E a \in Appends : apnd[a].st = "applied" THEN "kept"
  ELSE IF \E a \in Appends : apnd[a].st = "data" THEN "offered"
  ELSE "none"

Promise == INSTANCE DraftPromise WITH stage <- Stage, outbox <- Outbox, sentCopy <- SentCopy

(* The files, the lease and the server exchanges of SendDraft,             *)
(* ReconcileDraft, UpdateDraft, DiscardDraft and PruneDrafts, with every   *)
(* stop between them, implement the promise.                               *)
ImplementsPromise == Promise!PromiseSpec
=============================================================================
