----------------------------- MODULE DraftSend ------------------------------
(***************************************************************************)
(* One draft from its creation to its disappearance: sending it over SMTP, *)
(* mirroring it to the Sent mailbox, reconciling an unfinished attempt,    *)
(* editing, discarding and pruning it (internal/mail/draft_send.go,        *)
(* draft_claims.go, draft_state.go, draft_recovery_spool.go,               *)
(* draft_store.go, draft_prune.go).                                        *)
(*                                                                         *)
(* Every write to the draft directory and every exchange with a server is  *)
(* a step of its own, so that a process can stop between any two of them.  *)
(* Exclusion between processes is the lease that DraftLease implements;    *)
(* what is kept here of the lock file is who holds the linked one.         *)
(*                                                                         *)
(* A revision stands for a draft's content (it is a digest of it), and a   *)
(* message for one composed spool with its unique Message-ID.              *)
(***************************************************************************)
EXTENDS Naturals

CONSTANTS Procs, NoProc,      \* concurrent mailcli operations on the draft
          Revs, NoRev,        \* draft contents; NoRev: no such file
          Msgs, NoMsg,        \* messages that can be composed
          Appends, NoAppend   \* IMAP APPEND commands that can be sent

ASSUME SendAssumption ==
  /\ NoProc \notin Procs
  /\ NoRev \notin Revs
  /\ NoMsg \notin Msgs
  /\ NoAppend \notin Appends

VARIABLES
  doc,       \* revision in <REF>.json
  claim,     \* <REF>.send-claim
  spool,     \* the message whose bytes are in <REF>.send-spool
  receipt,   \* <REF>.send-receipt
  lockFile,  \* <REF>.lock exists
  lease,     \* the process whose lease is on the lock file of that name
  mail,      \* per message, what the SMTP server knows of it
  apnd,      \* per APPEND, the message and what the IMAP server did with it
  filed,     \* messages the provider filed in Sent by itself
  expired,   \* the retention of the terminal evidence is over
  pc,        \* per process, its next step
  req,       \* per process, the operation and the revision it was given
  att,       \* per process, the send attempt in its memory
  cmd,       \* per process, the APPEND it waits for
  code       \* per process, the result of its operation

disk == <<doc, claim, spool, receipt>>
lock == <<lockFile, lease>>
servers == <<mail, apnd, filed>>
local == <<req, att, cmd>>
vars == <<disk, lock, servers, expired, pc, local, code>>

Ops == {"send", "reconcile", "update", "discard", "prune", "expire", "sweep"}

Steps == Ops \cup
  {"idle", "wait", "return",
   "recover", "compose", "claim", "submit", "reply", "reject", "unclaim",
   "arm", "mirror", "ack", "confirm", "record", "sent", "receipt",
   "missing", "searchUnknown", "searchPending", "adopt",
   "remove", "claims", "claimsEnd", "sweepSpool", "dropReceipt", "unlock"}

(* Results and error codes; "" while an operation runs. *)
Codes == {"", "sent", "replayed", "reconciled", "updated", "kept", "refused",
  "not_found", "draft_revision_conflict", "draft_state_error", "send_receipt_unusable",
  "send_mirror_pending", "send_mirror_outcome_unknown", "send_outcome_unknown",
  "send_outcome_unverifiable", "send_identity_mismatch", "send_reconcile_unavailable",
  "send_retry_blocked", "send_recovery_spool_persist_failed", "send_recovery_spool_changed",
  "send_claim_failed", "send_cleanup_failed", "smtp_submission_unknown", "smtp_rejected",
  "prune_state_changed", "receipt_kept"}

(* An attempt: "none" and "torn" are states of the claim file only; a torn *)
(* file was created under its final name but not completely written.       *)
Attempt == [msg : Msgs \cup {NoMsg}, rev : Revs \cup {NoRev},
            outcome : {"none", "torn", "unknown", "pending", "sent"},
            unk : BOOLEAN]
NoClaim == [msg |-> NoMsg, rev |-> NoRev, outcome |-> "none", unk |-> FALSE]
TornClaim == [NoClaim EXCEPT !.outcome = "torn"]

Receipt == [msg : Msgs \cup {NoMsg}, rev : Revs \cup {NoRev}, st : {"none", "torn", "kept"}]
NoReceipt == [msg |-> NoMsg, rev |-> NoRev, st |-> "none"]
TornReceipt == [NoReceipt EXCEPT !.st = "torn"]

NoRequest == [op |-> "send", rev |-> NoRev]

TypeOK ==
  /\ doc \in Revs \cup {NoRev}
  /\ claim \in Attempt
  /\ spool \in Msgs \cup {NoMsg}
  /\ receipt \in Receipt
  /\ lockFile \in BOOLEAN
  /\ lease \in Procs \cup {NoProc}
  /\ mail \in [Msgs -> [rev : Revs \cup {NoRev}, approved : Revs \cup {NoRev},
                        st : {"new", "composed", "data", "accepted", "refused"}]]
  /\ apnd \in [Appends -> [msg : Msgs \cup {NoMsg},
                           st : {"new", "data", "applied", "refused"}]]
  /\ filed \subseteq Msgs
  /\ expired \in BOOLEAN
  /\ pc \in [Procs -> Steps]
  /\ req \in [Procs -> [op : Ops, rev : Revs \cup {NoRev}]]
  /\ att \in [Procs -> Attempt]
  /\ cmd \in [Procs -> Appends \cup {NoAppend}]
  /\ code \in [Procs -> Codes]

Init ==
  /\ doc \in Revs
  /\ claim = NoClaim
  /\ spool = NoMsg
  /\ receipt = NoReceipt
  /\ lockFile = FALSE
  /\ lease = NoProc
  /\ mail = [m \in Msgs |-> [rev |-> NoRev, approved |-> NoRev, st |-> "new"]]
  /\ apnd = [a \in Appends |-> [msg |-> NoMsg, st |-> "new"]]
  /\ filed = {}
  /\ expired = FALSE
  /\ pc = [p \in Procs |-> "idle"]
  /\ req = [p \in Procs |-> NoRequest]
  /\ att = [p \in Procs |-> NoClaim]
  /\ cmd = [p \in Procs |-> NoAppend]
  /\ code = [p \in Procs |-> ""]

-----------------------------------------------------------------------------
(* Reading state *)

(* What a SEARCH of the Sent mailbox by Message-ID finds. *)
Copies(m) ==
  {a \in Appends : apnd[a].msg = m /\ apnd[a].st = "applied"} \cup
  (IF m \in filed THEN {NoAppend} ELSE {})
OneCopy(m) == \E c \in Appends \cup {NoAppend} : Copies(m) = {c}
ManyCopies(m) == Copies(m) # {} /\ ~OneCopy(m)

(* readActiveSendReceipt returns a receipt, an error, or neither. *)
ReceiptActive == receipt.st = "kept" /\ ~expired

Claimed == claim.outcome \in {"unknown", "pending", "sent"}

Goto(p, s) == pc' = [pc EXCEPT ![p] = s]

Then(p, s, c) == Goto(p, s) /\ code' = [code EXCEPT ![p] = c] /\ UNCHANGED local

Return(p, c) == Then(p, "return", c)

Recall(p, a) == att' = [att EXCEPT ![p] = a] /\ UNCHANGED <<req, cmd, code>>
-----------------------------------------------------------------------------
(* Taking and losing the lease *)

(* The caller may have reviewed any earlier or later content. *)
Request(p) ==
  /\ pc[p] = "idle"
  /\ \E op \in Ops, r \in Revs : req' = [req EXCEPT ![p] = [op |-> op, rev |-> r]]
  /\ Goto(p, "wait")
  /\ UNCHANGED <<disk, lock, servers, expired, att, cmd, code>>

Acquire(p) ==
  /\ pc[p] = "wait"
  /\ lease = NoProc
  /\ lease' = p
  /\ lockFile' = TRUE
  /\ Goto(p, req[p].op)
  /\ UNCHANGED <<disk, servers, expired, local, code>>

(* The operation ends: the descriptor is closed, the lock file stays. *)
Finish(p) ==
  /\ lease' = IF lease = p THEN NoProc ELSE lease
  /\ Goto(p, "idle")
  /\ req' = [req EXCEPT ![p] = NoRequest]
  /\ att' = [att EXCEPT ![p] = NoClaim]
  /\ cmd' = [cmd EXCEPT ![p] = NoAppend]
  /\ code' = [code EXCEPT ![p] = ""]
  /\ UNCHANGED <<lockFile, servers, expired>>

Release(p) == pc[p] = "return" /\ Finish(p) /\ UNCHANGED disk

(* The process is killed, its deadline passes, or a file or network call   *)
(* fails and the operation only returns the error.                         *)
Stop(p) == pc[p] \notin {"idle", "return"} /\ Finish(p) /\ UNCHANGED disk

(* removeLock, the last thing an operation does: its own file is unlinked, *)
(* a missing file is fine, a file somebody else created is an error.       *)
Unlock(p) ==
  /\ pc[p] = "unlock"
  /\ \/ /\ lease = p
        /\ lease' = NoProc
        /\ lockFile' = FALSE
        /\ Return(p, code[p])
     \/ /\ lease # p
        /\ Return(p, IF lockFile THEN "send_cleanup_failed" ELSE code[p])
        /\ UNCHANGED lock
  /\ UNCHANGED <<disk, servers, expired>>

-----------------------------------------------------------------------------
(* SendDraft up to the claim *)

OnlyControl == UNCHANGED <<disk, lock, servers, expired>>

(* The draft was consumed: a receipt of the same revision is the answer.   *)
SendMissing(p) ==
  /\ pc[p] = "send"
  /\ doc = NoRev
  /\ \/ receipt.st = "none" /\ Then(p, "unlock", "not_found")
     \/ ReceiptActive /\ receipt.rev = req[p].rev /\ Then(p, "claims", "replayed")
     \/ ReceiptActive /\ receipt.rev # req[p].rev /\ Return(p, "draft_revision_conflict")
     \/ receipt.st # "none" /\ ~ReceiptActive /\ Return(p, "send_receipt_unusable")
  /\ OnlyControl

SendRefused(p) ==
  /\ pc[p] = "send"
  /\ doc # NoRev
  /\ \/ claim.outcome = "torn" /\ Return(p, "draft_state_error")
     \/ claim.outcome # "torn" /\ req[p].rev # doc /\ Return(p, "draft_revision_conflict")
  /\ OnlyControl

(* A retained claim is never sent again: replaySendAttempt.                *)
SendReplay(p) ==
  /\ pc[p] = "send"
  /\ doc # NoRev /\ req[p].rev = doc
  /\ Claimed
  /\ IF claim.rev # req[p].rev THEN Return(p, "draft_revision_conflict")
     ELSE IF claim.outcome = "sent" THEN Goto(p, "receipt") /\ Recall(p, claim)
     ELSE Return(p, IF claim.outcome = "pending" THEN "send_mirror_pending"
                                                 ELSE "send_outcome_unknown")
  /\ OnlyControl

(* Preflight (identity, hosts, credentials) may fail: Stop.                *)
SendPrepare(p) ==
  /\ pc[p] = "send"
  /\ doc # NoRev /\ req[p].rev = doc
  /\ claim.outcome = "none"
  /\ IF receipt.st = "none"
     THEN Goto(p, "recover") /\ Recall(p, [NoClaim EXCEPT !.rev = doc])
     ELSE IF ReceiptActive /\ receipt.rev = req[p].rev THEN Then(p, "remove", "replayed")
     ELSE Return(p, "send_receipt_unusable")
  /\ OnlyControl

(* recoverUnclaimedAcceptedMessageSpool: left by a stop before the claim.  *)
RecoverSpool(p) ==
  /\ pc[p] = "recover"
  /\ IF spool # NoMsg /\ claim.outcome # "none"
     THEN Return(p, "send_retry_blocked") /\ UNCHANGED spool
     ELSE spool' = NoMsg /\ Goto(p, "compose") /\ UNCHANGED <<local, code>>
  /\ UNCHANGED <<doc, claim, receipt, lock, servers, expired>>

(* persistAcceptedMessageSpool links the bytes under a free name.          *)
PersistSpool(p) ==
  /\ pc[p] = "compose"
  /\ spool = NoMsg
  /\ \E m \in Msgs :
       /\ mail[m].st = "new"
       /\ mail' = [mail EXCEPT ![m] = [rev |-> att[p].rev, approved |-> req[p].rev,
                                       st |-> "composed"]]
       /\ spool' = m
       /\ att' = [att EXCEPT ![p].msg = m]
  /\ Goto(p, "claim")
  /\ UNCHANGED <<doc, claim, receipt, lock, apnd, filed, expired, req, cmd, code>>

(* The spool write fails; what was written is removed.                     *)
PersistFails(p) ==
  /\ pc[p] = "compose"
  /\ Return(p, "send_recovery_spool_persist_failed")
  /\ OnlyControl

(* beginSendAttempt creates the claim exclusively, before any SMTP byte.   *)
BeginAttempt(p) ==
  /\ pc[p] = "claim"
  /\ claim.outcome = "none"
  /\ claim' = [att[p] EXCEPT !.outcome = "unknown"]
  /\ Goto(p, "submit")
  /\ Recall(p, claim')
  /\ UNCHANGED <<doc, spool, receipt, lock, servers, expired>>

(* The write failed and was undone; the unclaimed spool is removed again.  *)
BeginFails(p) ==
  /\ pc[p] = "claim"
  /\ claim.outcome = "none"
  /\ spool' = NoMsg
  /\ Return(p, "send_claim_failed")
  /\ UNCHANGED <<doc, claim, receipt, lock, servers, expired>>

(* Killed between the exclusive create and the end of the write.           *)
TearClaim(p) ==
  /\ pc[p] = "claim"
  /\ claim.outcome = "none"
  /\ claim' = TornClaim
  /\ Finish(p)
  /\ UNCHANGED <<doc, spool, receipt>>

-----------------------------------------------------------------------------
(* SMTP submission *)

(* Any error before the terminating dot: the server has no message.        *)
SubmitFails(p) ==
  /\ pc[p] = "submit"
  /\ Goto(p, "reject")
  /\ UNCHANGED <<local, code>>
  /\ OnlyControl

SubmitData(p) ==
  /\ pc[p] = "submit"
  /\ mail' = [mail EXCEPT ![att[p].msg].st = "data"]
  /\ Goto(p, "reply")
  /\ UNCHANGED <<disk, lock, apnd, filed, expired, local, code>>

(* The server decides in its own time, also after the client went away.    *)
SmtpDecide(m) ==
  /\ mail[m].st = "data"
  /\ \E verdict \in {"accepted", "refused"} : mail' = [mail EXCEPT ![m].st = verdict]
  /\ UNCHANGED <<disk, lock, apnd, filed, expired, pc, local, code>>

ReplyAccepted(p) ==
  /\ pc[p] = "reply"
  /\ mail[att[p].msg].st = "accepted"
  /\ Goto(p, "arm")
  /\ Recall(p, [att[p] EXCEPT !.outcome = "pending"])
  /\ OnlyControl

ReplyRefused(p) ==
  /\ pc[p] = "reply"
  /\ mail[att[p].msg].st = "refused"
  /\ Goto(p, "reject")
  /\ UNCHANGED <<local, code>>
  /\ OnlyControl

(* Deviation: a lost final reply counts as a rejection.                    *)
ReplyLostAsRejection(p) ==
  /\ pc[p] = "reply"
  /\ Goto(p, "reject")
  /\ UNCHANGED <<local, code>>
  /\ OnlyControl

(* A failed terminator write, a deadline or an unreadable final reply.     *)
ReplyLost(p) ==
  /\ pc[p] = "reply"
  /\ claim' = att[p]
  /\ Return(p, "smtp_submission_unknown")
  /\ UNCHANGED <<doc, spool, receipt, lock, servers, expired>>

(* removeSendAttempt after a definite rejection: spool, then claim.        *)
RejectSpool(p) ==
  /\ pc[p] = "reject"
  /\ spool' = NoMsg
  /\ Goto(p, "unclaim")
  /\ UNCHANGED <<doc, claim, receipt, lock, servers, expired, local, code>>

RejectClaim(p) ==
  /\ pc[p] = "unclaim"
  /\ claim' = NoClaim
  /\ Return(p, "smtp_rejected")
  /\ UNCHANGED <<doc, spool, receipt, lock, servers, expired>>
-----------------------------------------------------------------------------
(* The Sent mirror *)

(* Deviation: the mirror attempt is armed without the unknown outcome.     *)
ArmUnmarked(p) ==
  /\ pc[p] = "arm"
  /\ claim' = att[p]
  /\ Goto(p, "mirror")
  /\ Recall(p, claim')
  /\ UNCHANGED <<doc, spool, receipt, lock, servers, expired>>

(* persistMirrorAttemptBeforeDispatch: durable before any APPEND, with the *)
(* outcome already marked unknown.                                         *)
Arm(p) ==
  /\ pc[p] = "arm"
  /\ claim' = [att[p] EXCEPT !.unk = TRUE]
  /\ Goto(p, "mirror")
  /\ Recall(p, claim')
  /\ UNCHANGED <<doc, spool, receipt, lock, servers, expired>>

(* A send believes its mirror; a reconciliation searches Sent again.       *)
Mirrored(p) == Goto(p, IF req[p].op = "send" THEN "sent" ELSE "adopt")

(* The SEARCH before the APPEND: one copy is there already; several prove  *)
(* nothing and leave the outcome unknown.                                  *)
MirrorFound(p) ==
  /\ pc[p] = "mirror"
  /\ Copies(att[p].msg) # {}
  /\ IF OneCopy(att[p].msg) THEN Mirrored(p) ELSE Goto(p, "record")
  /\ UNCHANGED <<local, code>>
  /\ OnlyControl

(* Any failure before the CRLF that ends the APPEND is a known failure.    *)
MirrorFails(p) ==
  /\ pc[p] = "mirror"
  /\ Goto(p, "record")
  /\ Recall(p, [att[p] EXCEPT !.unk = FALSE])
  /\ OnlyControl

MirrorData(p) ==
  /\ pc[p] = "mirror"
  /\ Copies(att[p].msg) = {}
  /\ \E a \in Appends :
       /\ apnd[a].st = "new"
       /\ apnd' = [apnd EXCEPT ![a] = [msg |-> att[p].msg, st |-> "data"]]
       /\ cmd' = [cmd EXCEPT ![p] = a]
  /\ Goto(p, "ack")
  /\ UNCHANGED <<disk, lock, mail, filed, expired, req, att, code>>

AppendDecide(a) ==
  /\ apnd[a].st = "data"
  /\ \E verdict \in {"applied", "refused"} : apnd' = [apnd EXCEPT ![a].st = verdict]
  /\ UNCHANGED <<disk, lock, mail, filed, expired, pc, local, code>>

(* Some providers put every message they accept into Sent themselves.      *)
ProviderFile(m) ==
  /\ mail[m].st = "accepted"
  /\ m \notin filed
  /\ filed' = filed \cup {m}
  /\ UNCHANGED <<disk, lock, mail, apnd, expired, pc, local, code>>

AckOk(p) ==
  /\ pc[p] = "ack"
  /\ apnd[cmd[p]].st = "applied"
  /\ Goto(p, "confirm")
  /\ UNCHANGED <<local, code>>
  /\ OnlyControl

AckNo(p) ==
  /\ pc[p] = "ack"
  /\ apnd[cmd[p]].st = "refused"
  /\ Goto(p, "record")
  /\ Recall(p, [att[p] EXCEPT !.unk = FALSE])
  /\ OnlyControl

(* No readable reply after the CRLF: imap_append_outcome_unknown.          *)
AckLost(p) ==
  /\ pc[p] = "ack"
  /\ Goto(p, "record")
  /\ UNCHANGED <<local, code>>
  /\ OnlyControl

(* The SEARCH after the APPEND must prove exactly one copy.                *)
Confirm(p) ==
  /\ pc[p] = "confirm"
  /\ \/ OneCopy(att[p].msg) /\ Mirrored(p)
     \/ Goto(p, "record")
  /\ UNCHANGED <<local, code>>
  /\ OnlyControl

(* The failed mirror is recorded with its certainty; the send is over.     *)
Record(p) ==
  /\ pc[p] = "record"
  /\ claim' = att[p]
  /\ Return(p, "send_mirror_pending")
  /\ UNCHANGED <<doc, spool, receipt, lock, servers, expired>>

-----------------------------------------------------------------------------
(* Terminal evidence and cleanup *)

MarkSent(p) ==
  /\ pc[p] = "sent"
  /\ claim' = [att[p] EXCEPT !.outcome = "sent", !.unk = FALSE]
  /\ Goto(p, "receipt")
  /\ Recall(p, claim')
  /\ UNCHANGED <<doc, spool, receipt, lock, servers, expired>>

Derived(a) == [msg |-> a.msg, rev |-> a.rev, st |-> "kept"]

(* Deviation: the draft is removed without a durable receipt.              *)
EnsureReceiptSkipped(p) ==
  /\ pc[p] = "receipt"
  /\ Then(p, "remove", "sent")
  /\ OnlyControl

(* ensureSendReceipt: an existing receipt must match and still be valid.   *)
EnsureReceipt(p) ==
  /\ pc[p] = "receipt"
  /\ IF ~expired /\ receipt \in {NoReceipt, Derived(att[p])}
     THEN /\ receipt' = Derived(att[p])
          /\ Then(p, "remove", "sent")
     ELSE Return(p, "send_receipt_unusable") /\ UNCHANGED receipt
  /\ UNCHANGED <<doc, claim, spool, lock, servers, expired>>

TearReceipt(p) ==
  /\ pc[p] = "receipt"
  /\ ~expired /\ receipt = NoReceipt
  /\ receipt' = TornReceipt
  /\ Finish(p)
  /\ UNCHANGED <<doc, claim, spool>>

(* discardDraftFiles: the JSON file first, then claims, then the lock.     *)
RemoveDoc(p) ==
  /\ pc[p] \in {"discard", "remove"}
  /\ IF doc = NoRev
     THEN Then(p, "unlock", "not_found") /\ UNCHANGED doc
     ELSE doc' = NoRev /\ Goto(p, "claims") /\ UNCHANGED <<local, code>>
  /\ UNCHANGED <<claim, spool, receipt, lock, servers, expired>>

AfterClaims(p) == IF req[p].op = "expire" THEN "dropReceipt" ELSE "unlock"

(* removeDraftClaims: a readable claim's spool, then the claim file; an    *)
(* unreadable claim or foreign spool stays and is reported.                *)
RemoveClaims(p) ==
  /\ pc[p] = "claims"
  /\ IF claim.outcome = "none"
       THEN Goto(p, AfterClaims(p)) /\ UNCHANGED <<spool, local, code>>
     ELSE IF claim.outcome = "torn" \/ spool \notin {NoMsg, claim.msg}
       THEN /\ Then(p, IF req[p].op = "expire" THEN "return" ELSE "unlock",
                    "send_cleanup_failed")
            /\ UNCHANGED spool
     ELSE spool' = NoMsg /\ Goto(p, "claimsEnd") /\ UNCHANGED <<local, code>>
  /\ UNCHANGED <<doc, claim, receipt, lock, servers, expired>>

RemoveClaim(p) ==
  /\ pc[p] = "claimsEnd"
  /\ claim' = NoClaim
  /\ Goto(p, AfterClaims(p))
  /\ UNCHANGED <<doc, spool, receipt, lock, servers, expired, local, code>>

-----------------------------------------------------------------------------
(* ReconcileDraft *)

(* readDraftForMutation unlinks the lock of a missing draft at once; the   *)
(* reconciliation goes on without it.                                      *)
ReconcileMissing(p) ==
  /\ pc[p] = "reconcile"
  /\ doc = NoRev
  /\ lease' = NoProc
  /\ lockFile' = FALSE
  /\ Goto(p, "missing")
  /\ UNCHANGED <<disk, servers, expired, local, code>>

ReconcileConsumed(p) ==
  /\ pc[p] = "missing"
  /\ IF ReceiptActive THEN Then(p, "claims", "reconciled")
     ELSE Return(p, IF receipt.st = "none" THEN "not_found" ELSE "send_receipt_unusable")
  /\ OnlyControl

ReconcileUnclaimed(p) ==
  /\ pc[p] = "reconcile"
  /\ doc # NoRev
  /\ \/ claim.outcome = "torn" /\ Return(p, "draft_state_error")
     \/ /\ claim.outcome = "none"
        /\ IF ReceiptActive THEN Then(p, "remove", "reconciled")
           ELSE Return(p, IF receipt.st = "none" THEN "send_reconcile_unavailable"
                                                 ELSE "send_receipt_unusable")
  /\ OnlyControl

ReconcileClaimed(p) ==
  /\ pc[p] = "reconcile"
  /\ doc # NoRev
  /\ Claimed
  /\ Goto(p, CASE claim.outcome = "sent" -> "receipt"
               [] claim.outcome = "pending" -> "searchPending"
               [] claim.outcome = "unknown" -> "searchUnknown")
  /\ Recall(p, claim)
  /\ OnlyControl

(* A found copy counts only with the content of the retained draft.        *)
Verified(m) == OneCopy(m) /\ mail[m].rev = doc
Unverified(m) ==
  IF ManyCopies(m) THEN "send_outcome_unverifiable" ELSE "send_identity_mismatch"

(* Deviation: an unfinished submission is taken for sent without a copy.   *)
SearchUnknownTrusted(p) ==
  /\ pc[p] = "searchUnknown"
  /\ Goto(p, "sent") /\ UNCHANGED <<local, code>>
  /\ OnlyControl

(* reconcileUnknownViaImap: absence proves nothing, the claim stays.       *)
SearchUnknown(p) ==
  /\ pc[p] = "searchUnknown"
  /\ IF Verified(att[p].msg)
     THEN Goto(p, "sent") /\ UNCHANGED <<local, code>>
     ELSE Return(p, IF Copies(att[p].msg) = {} THEN "send_outcome_unverifiable"
                                               ELSE Unverified(att[p].msg))
  /\ OnlyControl

(* reconcileMirrorPending: only a known failed APPEND is repeated, from    *)
(* the retained bytes, after a fresh search.                               *)
SearchPending(p) ==
  /\ pc[p] = "searchPending"
  /\ IF Verified(att[p].msg) THEN Goto(p, "sent") /\ UNCHANGED <<local, code>>
     ELSE IF Copies(att[p].msg) # {} THEN Return(p, Unverified(att[p].msg))
     ELSE IF att[p].unk THEN Return(p, "send_mirror_outcome_unknown")
     ELSE IF spool # att[p].msg THEN Return(p, "send_recovery_spool_changed")
     ELSE Goto(p, "arm") /\ UNCHANGED <<local, code>>
  /\ OnlyControl

(* The copy its own mirror made is verified before it is adopted.          *)
Adopt(p) ==
  /\ pc[p] = "adopt"
  /\ IF Verified(att[p].msg)
     THEN Goto(p, "sent") /\ UNCHANGED <<local, code>>
     ELSE Return(p, IF Copies(att[p].msg) = {} THEN "send_mirror_outcome_unknown"
                                               ELSE Unverified(att[p].msg))
  /\ OnlyControl

-----------------------------------------------------------------------------
(* Editing and pruning *)

(* readDraftForMutation of UpdateDraft and pruneDraftOnce.                 *)
MutateMissing(p) ==
  /\ pc[p] \in {"update", "prune"}
  /\ doc = NoRev
  /\ Then(p, "unlock", "not_found")
  /\ OnlyControl

UpdateRefused(p) ==
  /\ pc[p] = "update"
  /\ doc # NoRev
  /\ req[p].rev # doc \/ claim.outcome # "none"
  /\ Return(p, "refused")
  /\ OnlyControl

UpdateWrite(p) ==
  /\ pc[p] = "update"
  /\ doc # NoRev /\ req[p].rev = doc
  /\ claim.outcome = "none"
  /\ doc' \in Revs
  /\ Return(p, "updated")
  /\ UNCHANGED <<claim, spool, receipt, lock, servers, expired>>

(* pruneDraftOnce re-verifies age and claims under the lease.              *)
Prune(p) ==
  /\ pc[p] = "prune"
  /\ doc # NoRev
  /\ \/ claim.outcome = "none" /\ Goto(p, "remove") /\ UNCHANGED <<local, code>>
     \/ Return(p, "prune_state_changed")
  /\ OnlyControl

(* pruneExpiredSendReceiptOnce *)
Expire(p) ==
  /\ pc[p] = "expire"
  /\ IF /\ receipt.st = "kept" /\ expired
        /\ claim.outcome \in {"none", "sent"}
        /\ doc = NoRev
     THEN Goto(p, "claims") /\ UNCHANGED <<local, code>>
     ELSE Return(p, "receipt_kept")
  /\ OnlyControl

DropReceipt(p) ==
  /\ pc[p] = "dropReceipt"
  /\ receipt' = NoReceipt
  /\ Goto(p, "unlock")
  /\ UNCHANGED <<doc, claim, spool, lock, servers, expired, local, code>>

(* cleanOrphanDraftArtifactsUnderLease: claim and spool without a draft.   *)
Sweep(p) ==
  /\ pc[p] = "sweep"
  /\ IF doc # NoRev THEN Return(p, "kept") /\ UNCHANGED claim
     ELSE claim' = NoClaim /\ Goto(p, "sweepSpool") /\ UNCHANGED <<local, code>>
  /\ UNCHANGED <<doc, spool, receipt, lock, servers, expired>>

SweepSpool(p) ==
  /\ pc[p] = "sweepSpool"
  /\ spool' = NoMsg
  /\ Goto(p, "unlock")
  /\ UNCHANGED <<doc, claim, receipt, lock, servers, expired, local, code>>

(* Thirty days pass; no operation is in flight for that long.              *)
RetentionEnds ==
  /\ \A p \in Procs : pc[p] = "idle"
  /\ claim.outcome = "sent" \/ receipt.st = "kept"
  /\ ~expired
  /\ expired' = TRUE
  /\ UNCHANGED <<disk, lock, servers, pc, local, code>>

-----------------------------------------------------------------------------
SendStep(p) ==
  \/ SendMissing(p) \/ SendRefused(p) \/ SendReplay(p) \/ SendPrepare(p)
  \/ RecoverSpool(p) \/ PersistSpool(p) \/ PersistFails(p) \/ BeginAttempt(p)
  \/ BeginFails(p)
  \/ SubmitFails(p) \/ SubmitData(p) \/ ReplyAccepted(p) \/ ReplyRefused(p)
  \/ ReplyLost(p) \/ RejectSpool(p) \/ RejectClaim(p)

MirrorStep(p) ==
  \/ Arm(p) \/ MirrorFound(p) \/ MirrorFails(p)
  \/ MirrorData(p) \/ AckOk(p) \/ AckNo(p) \/ AckLost(p) \/ Confirm(p) \/ Record(p)

FinishStep(p) ==
  \/ MarkSent(p) \/ EnsureReceipt(p) \/ RemoveDoc(p) \/ RemoveClaims(p)
  \/ RemoveClaim(p) \/ Unlock(p)

ReconcileStep(p) ==
  \/ ReconcileMissing(p) \/ ReconcileConsumed(p) \/ ReconcileUnclaimed(p)
  \/ ReconcileClaimed(p) \/ SearchUnknown(p) \/ SearchPending(p) \/ Adopt(p)

OtherStep(p) ==
  \/ MutateMissing(p) \/ UpdateRefused(p) \/ UpdateWrite(p) \/ Prune(p)
  \/ Expire(p) \/ DropReceipt(p) \/ Sweep(p) \/ SweepSpool(p)

Run(p) ==
  SendStep(p) \/ MirrorStep(p) \/ FinishStep(p) \/ ReconcileStep(p) \/ OtherStep(p)

Interrupted(p) == Stop(p) \/ TearClaim(p) \/ TearReceipt(p)

Server ==
  \/ \E m \in Msgs : SmtpDecide(m) \/ ProviderFile(m)
  \/ \E a \in Appends : AppendDecide(a)

Next ==
  \/ \E p \in Procs :
       Request(p) \/ Acquire(p) \/ Run(p) \/ Release(p) \/ Interrupted(p)
  \/ Server
  \/ RetentionEnds

Spec == Init /\ [][Next]_vars
=============================================================================
