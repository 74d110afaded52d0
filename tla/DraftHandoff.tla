---------------------------- MODULE DraftHandoff ----------------------------
(***************************************************************************)
(* Handing one draft over to a visible Mail.app compose window: the claim, *)
(* the staged attachment snapshots, the dispatch record, the delegate's    *)
(* answer, the reconciliation by a person and every path that cleans up    *)
(* (internal/mail/draft_handoff.go, draft_prune_snapshots.go,              *)
(* internal/cli/draft_workflow.go, internal/compose/handoff_darwin.go).    *)
(*                                                                         *)
(* Every write below the draft directory is a step of its own: a process   *)
(* can be killed, or a write can fail, between any two.  Operations on the *)
(* draft exclude each other by the lease that DraftLease implements.       *)
(*                                                                         *)
(* A revision stands for the draft's content, its attachments included; a  *)
(* snapshot list is the revision it was staged from.                       *)
(***************************************************************************)
EXTENDS Naturals

CONSTANTS Procs, NoProc,        \* concurrent mailcli operations on the draft
          Revs, NoRev,          \* draft contents; NoRev: no draft, or an empty list
          Attempts, NoAttempt,  \* handoff attempt identifiers
          Files                 \* attachments of every content

ASSUME HandoffAssumption ==
  /\ NoProc \notin Procs
  /\ NoRev \notin Revs
  /\ NoAttempt \notin Attempts
  /\ Files \in Nat

VARIABLES
  doc,        \* revision in <REF>.json
  sendClaim,  \* <REF>.send-claim exists
  claim,      \* <REF>.handoff-claim
  parent,     \* <REF>.handoff-snapshots exists
  dirs,       \* the attempt directories below it
  file,       \* per attempt and attachment, what is in its index directory
  window,     \* per attempt, what the sharing service did with it
  verdict,    \* per attempt, on whose word an outcome was confirmed
  lease,      \* the process that holds the draft lease
  pc,         \* per process, its next step
  req,        \* per process, its operation and arguments
  att,        \* per process, the attempt in its memory
  draft,      \* per process, the revision it read
  after,      \* per process, where it goes when a cleanup ends
  code        \* per process, the result of its operation

tree == <<parent, dirs, file>>
outside == <<window, verdict>>
local == <<req, att, draft, after>>
vars == <<doc, sendClaim, claim, tree, outside, lease, pc, local, code>>

Index == 1 .. Files

Ops == {"handoff", "reconcile", "update", "discard", "prune", "sweep", "send"}

Staging == {"parent", "dir", "stage", "retain"}
Cleaning == {"scan", "delete", "tidy", "rewrite", "unclaim"}
Steps == Ops \cup Staging \cup Cleaning \cup
  {"idle", "wait", "return", "create", "recover", "dispatch", "invoke",
   "answer", "cancel", "finish", "sending", "remove", "claims", "orphans"}

(* Results and error codes; "" while an operation runs. *)
Codes == {"", "handed_off", "not_handed_off", "unknown", "reconciled", "canceled",
  "removed", "kept", "updated", "sent", "not_found", "draft_state_error", "send_retry_blocked",
  "handoff_retry_blocked", "handoff_not_found", "handoff_attempt_mismatch",
  "handoff_not_dispatched", "validation_error", "prune_state_changed",
  "snapshots_changed", "failed"}

Terminal == {"opened", "failed", "canceled"}   \* handoffCleanupPending
Started == {"dispatched", "unknown", "opened", "failed"}

(* "none" and "torn" are states of the claim file only.                    *)
Attempt == [id : Attempts \cup {NoAttempt}, snaps : Revs \cup {NoRev},
            outcome : {"none", "torn", "prepared"} \cup Started \cup Terminal]
NoClaim == [id |-> NoAttempt, snaps |-> NoRev, outcome |-> "none"]
TornClaim == [NoClaim EXCEPT !.outcome = "torn"]

(* An index directory: missing, empty, with a partial mode-0600 file, or   *)
(* with the verified mode-0400 copy.                                       *)
FileStates == {"none", "empty", "part", "full"}

Request0 == [op |-> "handoff", id |-> NoAttempt, res |-> "failed"]
Requests == {[Request0 EXCEPT !.op = op] : op \in Ops \ {"reconcile"}}
            \cup [op : {"reconcile"}, id : Attempts, res : {"opened", "failed"}]

StoreTypeOK ==
  /\ doc \in Revs \cup {NoRev}
  /\ sendClaim \in BOOLEAN
  /\ claim \in Attempt
  /\ parent \in BOOLEAN
  /\ dirs \subseteq Attempts
  /\ file \in [Attempts -> [Index -> FileStates]]
  /\ window \in [Attempts -> {"none", "called", "opened", "failed"}]
  /\ verdict \in [Attempts -> {"none", "mail", "person"}]
  /\ lease \in Procs \cup {NoProc}

ControlTypeOK ==
  /\ pc \in [Procs -> Steps]
  /\ code \in [Procs -> Codes]

MemoryTypeOK ==
  /\ req \in [Procs -> Requests]
  /\ att \in [Procs -> Attempt]
  /\ draft \in [Procs -> Revs \cup {NoRev}]
  /\ after \in [Procs -> {"return", "create", "remove", "orphans"}]

TypeOK == StoreTypeOK /\ ControlTypeOK /\ MemoryTypeOK

Init ==
  /\ doc \in Revs
  /\ sendClaim = FALSE
  /\ claim = NoClaim
  /\ parent = FALSE
  /\ dirs = {}
  /\ file = [a \in Attempts |-> [i \in Index |-> "none"]]
  /\ window = [a \in Attempts |-> "none"]
  /\ verdict = [a \in Attempts |-> "none"]
  /\ lease = NoProc
  /\ pc = [p \in Procs |-> "idle"]
  /\ req = [p \in Procs |-> Request0]
  /\ att = [p \in Procs |-> NoClaim]
  /\ draft = [p \in Procs |-> NoRev]
  /\ after = [p \in Procs |-> "return"]
  /\ code = [p \in Procs |-> ""]

-----------------------------------------------------------------------------
Goto(p, s) == pc' = [pc EXCEPT ![p] = s]

Recall(p, a) == att' = [att EXCEPT ![p] = a] /\ UNCHANGED <<req, draft, after, code>>

Keep == UNCHANGED <<local, code>>

Return(p, c) ==
  Goto(p, "return") /\ code' = [code EXCEPT ![p] = c] /\ UNCHANGED local

Quiet == UNCHANGED <<doc, sendClaim, claim, tree, outside, lease>>
ClaimOnly == UNCHANGED <<doc, sendClaim, tree, outside, lease>>
TreeOnly == UNCHANGED <<doc, sendClaim, claim, outside, lease>>

(* replaceHandoffAttempt that reports an error: before the rename, or      *)
(* after it, when only the directory sync failed.                          *)
MayReplace(a) == claim' \in {claim, a}

-----------------------------------------------------------------------------
(* Taking and losing the lease *)

Request(p) ==
  /\ pc[p] = "idle"
  /\ \E q \in Requests : req' = [req EXCEPT ![p] = q]
  /\ Goto(p, "wait")
  /\ UNCHANGED <<att, draft, after, code>> /\ Quiet

Acquire(p) ==
  /\ pc[p] = "wait"
  /\ lease = NoProc
  /\ lease' = p
  /\ Goto(p, req[p].op)
  /\ Keep /\ UNCHANGED <<doc, sendClaim, claim, tree, outside>>

Leave(p) ==
  /\ lease' = IF lease = p THEN NoProc ELSE lease
  /\ Goto(p, "idle")
  /\ req' = [req EXCEPT ![p] = Request0]
  /\ att' = [att EXCEPT ![p] = NoClaim]
  /\ draft' = [draft EXCEPT ![p] = NoRev]
  /\ after' = [after EXCEPT ![p] = "return"]
  /\ code' = [code EXCEPT ![p] = ""]
  /\ UNCHANGED <<doc, sendClaim, tree, outside>>

Release(p) == pc[p] = "return" /\ Leave(p) /\ UNCHANGED claim

(* The process is killed, or gives up waiting for the lease.               *)
Stop(p) == pc[p] \notin {"idle", "return"} /\ Leave(p) /\ UNCHANGED claim

(* Killed between the exclusive create and the end of the write.           *)
TearClaim(p) ==
  /\ pc[p] = "create"
  /\ claim.outcome = "none"
  /\ claim' = TornClaim
  /\ Leave(p)

-----------------------------------------------------------------------------
(* Cleaning up: snapshots first, then the claim without them, then nothing *)

(* Only a prepared claim without a snapshot list may have an unfinished    *)
(* tree below it.                                                          *)
Partial(p) == att[p].outcome = "prepared"

Used(a) == {i \in Index : file[a][i] # "none"}

(* One step of taking away an index directory: its file, then itself.      *)
Shrunk(f) == IF f = "empty" THEN "none" ELSE "empty"

(* What removeHandoffSnapshotAttempt accepts before it removes anything.   *)
Removable(p) ==
  LET a == att[p].id IN
  /\ Used(a) # {} => Partial(p) \/ att[p].snaps # NoRev
  /\ IF Partial(p)
     THEN \A i \in Used(a), j \in Index :
            j < i => file[a][j] \in {"part", "full"}
     ELSE \A i \in Index : file[a][i] # "part"

(* handoffCleanupClaimCheck and orphanDraftCleanupCheck.                   *)
Checked(p) ==
  /\ att[p] # NoClaim => claim = att[p]
  /\ req[p].op = "sweep" => doc = NoRev

Scan(p) ==
  /\ pc[p] = "scan" /\ Checked(p)
  /\ IF ~parent THEN Goto(p, "rewrite") /\ Keep
     ELSE IF att[p].id \notin dirs THEN Goto(p, "tidy") /\ Keep
     ELSE IF Removable(p) THEN Goto(p, "delete") /\ Keep
     ELSE Return(p, "snapshots_changed")
  /\ Quiet

(* The suffix first: the last attachment that still has its directory.     *)
DeleteFile(p) ==
  LET a == att[p].id IN
  /\ pc[p] = "delete" /\ Checked(p)
  /\ \E i \in Used(a) :
       /\ \A j \in Used(a) : j <= i
       /\ file' = [file EXCEPT ![a][i] = Shrunk(@)]
  /\ UNCHANGED <<pc, parent, dirs>>
  /\ Keep /\ TreeOnly

DeleteDir(p) ==
  /\ pc[p] = "delete" /\ Checked(p)
  /\ Used(att[p].id) = {}
  /\ dirs' = dirs \ {att[p].id}
  /\ Goto(p, "tidy")
  /\ UNCHANGED <<parent, file>>
  /\ Keep /\ TreeOnly

(* removeEmptyOrphanSnapshotParent, where there is a parent to remove.     *)
Tidy(p) ==
  /\ pc[p] = "tidy" /\ Checked(p)
  /\ IF parent /\ dirs # {} THEN Return(p, "snapshots_changed") /\ UNCHANGED parent
     ELSE /\ parent' = FALSE
          /\ Goto(p, IF att[p] = NoClaim THEN after[p] ELSE "rewrite")
          /\ Keep
  /\ UNCHANGED <<dirs, file>>
  /\ TreeOnly

(* The terminal claim is published again without its snapshots.            *)
Rewrite(p) ==
  /\ pc[p] = "rewrite" /\ Checked(p)
  /\ claim' = IF Partial(p) THEN claim ELSE [att[p] EXCEPT !.snaps = NoRev]
  /\ Recall(p, claim')
  /\ Goto(p, "unclaim")
  /\ ClaimOnly

(* The result of the operation a cleanup was the last part of.             *)
Result(p) ==
  IF after[p] # "return" THEN ""
  ELSE IF req[p].op = "reconcile" THEN "reconciled"
  ELSE IF att[p].outcome = "opened" THEN "handed_off" ELSE "not_handed_off"

(* removeHandoffAttempt, removePreparedHandoffAttempt                      *)
Unclaim(p) ==
  /\ pc[p] = "unclaim" /\ Checked(p)
  /\ claim' = NoClaim
  /\ Goto(p, after[p])
  /\ att' = [att EXCEPT ![p] = NoClaim]
  /\ code' = [code EXCEPT ![p] = Result(p)]
  /\ UNCHANGED <<req, draft, after>> /\ ClaimOnly

CleanupChanged(p) ==
  /\ pc[p] \in Cleaning /\ ~Checked(p)
  /\ Return(p, "snapshots_changed") /\ Quiet

(* A deadline or a failing file operation.  A write that fails after its   *)
(* rename is that write, followed by this failure.                         *)
CleanupFails(p) ==
  /\ pc[p] \in Cleaning \cup {"recover", "finish", "cancel", "remove", "claims", "orphans"}
  /\ Return(p, "failed") /\ Quiet

-----------------------------------------------------------------------------
(* Reading the draft with its claims *)

Readable ==
  /\ doc # NoRev
  /\ claim.outcome # "torn"
  /\ ~(sendClaim /\ claim.outcome # "none")

ReadFails(p) ==
  /\ pc[p] \in {"handoff", "update", "prune", "send"}
  /\ ~Readable
  /\ Return(p, IF doc = NoRev THEN "not_found" ELSE "draft_state_error")
  /\ Quiet

-----------------------------------------------------------------------------
(* BeginDraftHandoffContext *)

(* Deviation: an attempt left dispatched is recovered like a prepared one. *)
BeginRetry(p) ==
  /\ pc[p] = "handoff" /\ Readable
  /\ claim.outcome \in {"prepared", "canceled", "dispatched"}
  /\ Goto(p, "scan")
  /\ att' = [att EXCEPT ![p] = claim]
  /\ draft' = [draft EXCEPT ![p] = doc]
  /\ after' = [after EXCEPT ![p] = "create"]
  /\ UNCHANGED <<req, code>> /\ Quiet

(* What an earlier attempt left before its dispatch is cleaned up first.   *)
BeginRecovers(p) ==
  /\ pc[p] = "handoff" /\ Readable
  /\ claim.outcome \in {"prepared", "canceled"}
  /\ Goto(p, IF claim.outcome = "prepared" THEN "recover" ELSE "scan")
  /\ att' = [att EXCEPT ![p] = claim]
  /\ draft' = [draft EXCEPT ![p] = doc]
  /\ after' = [after EXCEPT ![p] = "create"]
  /\ UNCHANGED <<req, code>> /\ Quiet

BeginFresh(p) ==
  /\ pc[p] = "handoff" /\ Readable
  /\ claim.outcome = "none" /\ ~sendClaim
  /\ Goto(p, "create")
  /\ draft' = [draft EXCEPT ![p] = doc]
  /\ UNCHANGED <<req, att, after, code>> /\ Quiet

(* rejectClaimedDraft *)
BeginRefused(p) ==
  /\ pc[p] = "handoff" /\ Readable
  /\ sendClaim \/ claim.outcome \in Started
  /\ Return(p, IF sendClaim THEN "send_retry_blocked" ELSE "handoff_retry_blocked")
  /\ Quiet

(* The claim is durable before anything is staged; its name is random.     *)
Create(p) ==
  /\ pc[p] = "create"
  /\ claim.outcome = "none"
  /\ \E a \in Attempts :
       /\ window[a] = "none" /\ a \notin dirs
       /\ claim' = [NoClaim EXCEPT !.id = a, !.outcome = "prepared"]
  /\ att' = [att EXCEPT ![p] = claim']
  /\ after' = [after EXCEPT ![p] = "return"]
  /\ Goto(p, "parent")
  /\ UNCHANGED <<req, draft, code>> /\ ClaimOnly

(* A draft that cannot be handed over, a missing attachment, a full disk.  *)
CreateFails(p) ==
  /\ pc[p] = "create"
  /\ Return(p, "validation_error") /\ Quiet

MakeParent(p) ==
  /\ pc[p] = "parent"
  /\ parent' = TRUE
  /\ Goto(p, "dir")
  /\ UNCHANGED <<dirs, file>> /\ Keep /\ TreeOnly

MakeDir(p) ==
  /\ pc[p] = "dir"
  /\ dirs' = dirs \cup {att[p].id}
  /\ Goto(p, "stage")
  /\ UNCHANGED <<parent, file>> /\ Keep /\ TreeOnly

Unstaged(a) == {i \in Index : file[a][i] # "full"}

Grown(f) == CASE f = "none" -> "empty" [] f = "empty" -> "part" [] OTHER -> "full"

(* stageDraftAttachmentAt: directory, copy, verification; in index order.  *)
Stage(p) ==
  LET a == att[p].id IN
  /\ pc[p] = "stage"
  /\ \E i \in Unstaged(a) :
       /\ \A j \in Unstaged(a) : i <= j
       /\ file' = [file EXCEPT ![a][i] = Grown(@)]
  /\ UNCHANGED <<pc, parent, dirs>> /\ Keep /\ TreeOnly

Staged(p) ==
  /\ pc[p] = "stage"
  /\ Unstaged(att[p].id) = {}
  /\ Goto(p, "retain")
  /\ Keep /\ Quiet

WithSnapshots(p) == [att[p] EXCEPT !.snaps = IF Files = 0 THEN NoRev ELSE draft[p]]

Retain(p) ==
  /\ pc[p] = "retain"
  /\ claim' = WithSnapshots(p)
  /\ Recall(p, claim')
  /\ Goto(p, "dispatch")
  /\ ClaimOnly

StageFails(p) ==
  /\ pc[p] \in Staging
  /\ IF pc[p] = "retain" THEN MayReplace(WithSnapshots(p)) ELSE UNCHANGED claim
  /\ Goto(p, "recover")
  /\ Keep /\ ClaimOnly

(* A canceled context also refuses the recovery of what was staged.        *)
StageCanceled(p) ==
  /\ pc[p] = "stage" /\ Unstaged(att[p].id) # {}
  /\ Return(p, "canceled") /\ Quiet

(* recoverPreparedHandoffStaging *)
Recover(p) ==
  /\ pc[p] = "recover"
  /\ IF \/ claim.id # att[p].id \/ claim.outcome # "prepared"
        \/ claim.snaps \notin {NoRev, draft[p]}
     THEN Return(p, "snapshots_changed") /\ UNCHANGED claim
     ELSE /\ claim' = IF claim.snaps = NoRev THEN claim
                      ELSE [claim EXCEPT !.outcome = "canceled"]
          /\ Recall(p, claim')
          /\ Goto(p, "scan")
  /\ ClaimOnly

-----------------------------------------------------------------------------
(* Dispatch: runDraftHandoffWithDispatch and HandoffWithDispatch *)

(* Deviation: the sharing service is called before the dispatch record.    *)
InvokeUnrecorded(p) ==
  /\ pc[p] = "dispatch"
  /\ window' = [window EXCEPT ![att[p].id] = "called"]
  /\ Goto(p, "answer")
  /\ Keep /\ UNCHANGED <<doc, sendClaim, claim, tree, verdict, lease>>

MarkDispatched(p) ==
  /\ pc[p] = "dispatch"
  /\ claim' = [att[p] EXCEPT !.outcome = "dispatched"]
  /\ Recall(p, claim')
  /\ Goto(p, "invoke")
  /\ ClaimOnly

(* Canceled before the record, or the record failed.                       *)
NotDispatched(p) ==
  /\ pc[p] = "dispatch"
  /\ MayReplace([att[p] EXCEPT !.outcome = "dispatched"])
  /\ Goto(p, "cancel")
  /\ Keep /\ ClaimOnly

(* CancelBeforeDispatch *)
Cancel(p) ==
  /\ pc[p] = "cancel"
  /\ claim' = [att[p] EXCEPT !.outcome = "canceled"]
  /\ Recall(p, claim')
  /\ Goto(p, "scan")
  /\ ClaimOnly

Decide(p, outcome) ==
  /\ Recall(p, [att[p] EXCEPT !.outcome = outcome])
  /\ Goto(p, "finish")
  /\ Quiet

(* The context was canceled after the record, or the native code refused   *)
(* before it called the service: no window was opened.                     *)
NotInvoked(p) == pc[p] = "invoke" /\ Decide(p, "failed")

Invoke(p) ==
  /\ pc[p] = "invoke"
  /\ window' = [window EXCEPT ![att[p].id] = "called"]
  /\ Goto(p, "answer")
  /\ Keep /\ UNCHANGED <<doc, sendClaim, claim, tree, verdict, lease>>

(* Mail opens the window, or fails to, in its own time.                    *)
Mail(a) ==
  /\ window[a] = "called"
  /\ \E w \in {"opened", "failed"} : window' = [window EXCEPT ![a] = w]
  /\ UNCHANGED <<doc, sendClaim, claim, tree, verdict, lease, pc, local, code>>

Answered(p) ==
  /\ pc[p] = "answer"
  /\ window[att[p].id] \in {"opened", "failed"}
  /\ Decide(p, window[att[p].id])

(* Deviation: no answer in time counts as a failure.                       *)
UnansweredFailed(p) == pc[p] = "answer" /\ Decide(p, "failed")

(* Ten seconds pass, a cancellation, an unreadable answer; a late success  *)
(* is suppressed.                                                          *)
Unanswered(p) == pc[p] = "answer" /\ Decide(p, "unknown")

(* A recorded outcome confirms what the service was asked to do.           *)
Confirm(a, word) ==
  verdict' = IF window[a] = "none" THEN verdict ELSE [verdict EXCEPT ![a] = word]

(* Deviation: an unknown outcome is cleaned up like a confirmed one.       *)
FinishCleansUnknown(p) ==
  /\ pc[p] = "finish"
  /\ claim' = att[p]
  /\ Goto(p, "scan") /\ Keep
  /\ IF att[p].outcome = "unknown" THEN UNCHANGED verdict ELSE Confirm(att[p].id, "mail")
  /\ UNCHANGED <<doc, sendClaim, tree, window, lease>>

(* Finish: the outcome is recorded before anything is removed.             *)
Finish(p) ==
  /\ pc[p] = "finish"
  /\ claim' = att[p]
  /\ IF att[p].outcome = "unknown"
     THEN Return(p, "unknown") /\ UNCHANGED verdict
     ELSE Goto(p, "scan") /\ Keep /\ Confirm(att[p].id, "mail")
  /\ UNCHANGED <<doc, sendClaim, tree, window, lease>>

-----------------------------------------------------------------------------
(* ReconcileDraftHandoffContext *)

ReconcileRefused(p) ==
  /\ pc[p] = "reconcile"
  /\ \/ claim.outcome = "torn" /\ Return(p, "draft_state_error")
     \/ claim.outcome = "none" /\ Return(p, "handoff_not_found")
     \/ /\ claim.id \in Attempts /\ claim.id # req[p].id
        /\ Return(p, "handoff_attempt_mismatch")
     \/ /\ claim.id = req[p].id /\ claim.outcome \in Terminal
        /\ (claim.outcome = "opened") # (req[p].res = "opened")
        /\ Return(p, "validation_error")
     \/ /\ claim.id = req[p].id /\ claim.outcome = "prepared"
        /\ Return(p, "handoff_not_dispatched")
  /\ Quiet

(* Interrupted cleanup goes on with the recorded outcome.                  *)
ReconcileResumes(p) ==
  /\ pc[p] = "reconcile"
  /\ claim.id = req[p].id /\ claim.outcome \in Terminal
  /\ (claim.outcome = "opened") = (req[p].res = "opened")
  /\ Recall(p, claim)
  /\ Goto(p, "scan") /\ Quiet

ReconcileRecords(p) ==
  /\ pc[p] = "reconcile"
  /\ claim.id = req[p].id /\ claim.outcome \in {"dispatched", "unknown"}
  /\ claim' = [claim EXCEPT !.outcome = req[p].res]
  /\ Confirm(claim.id, "person")
  /\ Recall(p, claim')
  /\ Goto(p, "scan")
  /\ UNCHANGED <<doc, sendClaim, tree, window, lease>>

-----------------------------------------------------------------------------
(* The other operations on the draft *)

Update(p) ==
  /\ pc[p] = "update" /\ Readable
  /\ ~sendClaim /\ claim.outcome = "none"
  /\ doc' \in Revs
  /\ Return(p, "updated")
  /\ UNCHANGED <<sendClaim, claim, tree, outside, lease>>

UpdateRefused(p) ==
  /\ pc[p] = "update" /\ Readable
  /\ sendClaim \/ claim.outcome # "none"
  /\ Return(p, IF sendClaim THEN "send_retry_blocked" ELSE "handoff_retry_blocked")
  /\ Quiet

(* DraftSend has the steps of a send; here, that it takes a claim and that *)
(* the claim stays, goes, or goes with the draft.                          *)
Send(p) ==
  /\ pc[p] = "send" /\ Readable
  /\ claim.outcome = "none"
  /\ sendClaim' = TRUE
  /\ Goto(p, "sending")
  /\ Keep /\ UNCHANGED <<doc, claim, tree, outside, lease>>

SendRefused(p) ==
  /\ pc[p] = "send" /\ Readable
  /\ claim.outcome # "none"
  /\ Return(p, "handoff_retry_blocked") /\ Quiet

SendEnds(p) ==
  /\ pc[p] = "sending"
  /\ \/ sendClaim' = FALSE /\ Return(p, "failed")
     \/ UNCHANGED sendClaim /\ Return(p, "failed")
     \/ UNCHANGED sendClaim /\ Goto(p, "discard") /\ Keep
  /\ UNCHANGED <<doc, claim, tree, outside, lease>>

Prune(p) ==
  /\ pc[p] = "prune" /\ Readable
  /\ IF sendClaim \/ claim.outcome # "none" THEN Return(p, "prune_state_changed")
     ELSE Goto(p, "discard") /\ Keep
  /\ Quiet

(* discardDraftFiles: a handoff claim, readable or not, blocks it.         *)
Discard(p) ==
  /\ pc[p] = "discard"
  /\ claim.outcome = "none"
  /\ Goto(p, "tidy")
  /\ after' = [after EXCEPT ![p] = "remove"]
  /\ UNCHANGED <<req, att, draft, code>> /\ Quiet

DiscardRefused(p) ==
  /\ pc[p] = "discard"
  /\ claim.outcome # "none"
  /\ Return(p, IF claim.outcome = "torn" THEN "draft_state_error" ELSE "handoff_retry_blocked")
  /\ Quiet

RemoveDoc(p) ==
  /\ pc[p] = "remove"
  /\ IF doc = NoRev THEN Return(p, "not_found") ELSE Goto(p, "claims") /\ Keep
  /\ doc' = NoRev
  /\ UNCHANGED <<sendClaim, claim, tree, outside, lease>>

(* removeDraftClaims; a handoff claim was excluded before.                 *)
RemoveClaims(p) ==
  /\ pc[p] = "claims"
  /\ sendClaim' = FALSE /\ claim' = NoClaim
  /\ Return(p, "removed")
  /\ UNCHANGED <<doc, tree, outside, lease>>

-----------------------------------------------------------------------------
(* removeOrphanHandoffSnapshotTree, for a draft whose file is gone *)

SweepKeeps(p) ==
  /\ pc[p] = "sweep"
  /\ \/ doc # NoRev /\ Return(p, "kept")
     \/ doc = NoRev /\ claim.outcome = "torn" /\ Return(p, "draft_state_error")
     \/ /\ doc = NoRev /\ claim.outcome \in {"dispatched", "unknown"}
        /\ Return(p, "prune_state_changed")
  /\ Quiet

SweepResumes(p) ==
  /\ pc[p] = "sweep"
  /\ doc = NoRev /\ claim.outcome \in Terminal \cup {"none"}
  /\ Goto(p, IF claim = NoClaim THEN "tidy" ELSE "scan")
  /\ att' = [att EXCEPT ![p] = claim]
  /\ after' = [after EXCEPT ![p] = "orphans"]
  /\ UNCHANGED <<req, draft, code>> /\ Quiet

(* What a prepared claim says of the tree is there, and nothing else is.   *)
Matching ==
  /\ parent => dirs \subseteq {claim.id}
  /\ claim.snaps # NoRev => parent /\ dirs # {}

SweepCancels(p) ==
  /\ pc[p] = "sweep"
  /\ doc = NoRev /\ claim.outcome = "prepared"
  /\ IF ~Matching THEN Return(p, "snapshots_changed") /\ UNCHANGED claim
     ELSE /\ claim' = [claim EXCEPT !.outcome = "canceled"]
          /\ att' = [att EXCEPT ![p] = claim']
          /\ after' = [after EXCEPT ![p] = "orphans"]
          /\ Goto(p, "scan")
          /\ UNCHANGED <<req, draft, code>>
  /\ ClaimOnly

(* removeOrphanDraftClaims; the lock file goes with them.                  *)
SweepClaims(p) ==
  /\ pc[p] = "orphans"
  /\ IF doc # NoRev THEN Return(p, "prune_state_changed") /\ UNCHANGED sendClaim
     ELSE Return(p, "removed") /\ sendClaim' = FALSE
  /\ UNCHANGED <<doc, claim, tree, outside, lease>>

(* The draft file is deleted or restored by hand, beside the program.      *)
Touch ==
  /\ doc' \in (Revs \cup {NoRev}) \ {doc}
  /\ UNCHANGED <<sendClaim, claim, tree, outside, lease, pc, local, code>>

-----------------------------------------------------------------------------
CleanStep(p) ==
  \/ Scan(p) \/ DeleteFile(p) \/ DeleteDir(p) \/ Tidy(p) \/ Rewrite(p) \/ Unclaim(p)
  \/ CleanupChanged(p) \/ CleanupFails(p)

BeginStep(p) ==
  \/ ReadFails(p) \/ BeginRecovers(p) \/ BeginFresh(p) \/ BeginRefused(p)
  \/ Create(p) \/ CreateFails(p) \/ MakeParent(p) \/ MakeDir(p) \/ Stage(p)
  \/ Staged(p) \/ Retain(p) \/ StageFails(p) \/ StageCanceled(p) \/ Recover(p)

DispatchStep(p) ==
  \/ MarkDispatched(p) \/ NotDispatched(p) \/ Cancel(p) \/ NotInvoked(p) \/ Invoke(p)
  \/ Answered(p) \/ Unanswered(p) \/ Finish(p)

OtherStep(p) ==
  \/ ReconcileRefused(p) \/ ReconcileResumes(p) \/ ReconcileRecords(p)
  \/ Update(p) \/ UpdateRefused(p) \/ Send(p) \/ SendRefused(p) \/ SendEnds(p)
  \/ Prune(p) \/ Discard(p) \/ DiscardRefused(p) \/ RemoveDoc(p) \/ RemoveClaims(p)
  \/ SweepKeeps(p) \/ SweepResumes(p) \/ SweepCancels(p) \/ SweepClaims(p)

Run(p) == CleanStep(p) \/ BeginStep(p) \/ DispatchStep(p) \/ OtherStep(p)

Next ==
  \/ \E p \in Procs :
       Request(p) \/ Acquire(p) \/ Run(p) \/ Release(p) \/ Stop(p) \/ TearClaim(p)
  \/ \E a \in Attempts : Mail(a)
  \/ Touch

Spec == Init /\ [][Next]_vars

(* A running operation goes on: its waits have deadlines, so that one of   *)
(* their outcomes is always enabled.  Mail and the callers owe nothing.    *)
FairSpec == Spec /\ \A p \in Procs : WF_vars(Run(p) \/ Release(p))
=============================================================================
