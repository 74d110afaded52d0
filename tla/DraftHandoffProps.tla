------------------------- MODULE DraftHandoffProps --------------------------
(***************************************************************************)
(* What has to be true of the visible handoff of a draft (DraftHandoff).   *)
(***************************************************************************)
EXTENDS DraftHandoff

(* Mail was asked for a window and nobody confirmed what became of it.     *)
Unresolved(a) == window[a] # "none" /\ verdict[a] = "none"

(* A window request that nobody confirmed stays on record in the claim,    *)
(* whatever is killed, fails, is retried, discarded or swept meanwhile: it *)
(* is what blocks a second window (MarkDispatched, discardDraftFiles,      *)
(* removeOrphanHandoffSnapshotTree).                                       *)
EvidenceKept ==
  \A a \in Attempts : Unresolved(a) =>
    claim.id = a /\ claim.outcome \in {"dispatched", "unknown"}

(* Mail reads the attachments in its own time: until the outcome of a      *)
(* request is confirmed, every staged copy is complete and in place        *)
(* (cleanupTerminalHandoffAttempt).                                        *)
SnapshotsKept ==
  \A a \in Attempts : Unresolved(a) =>
    /\ parent /\ a \in dirs
    /\ \A i \in Index : file[a][i] = "full"
    /\ Files > 0 => claim.snaps # NoRev

(* The claim does not lie: before a dispatch and after a cancellation no   *)
(* window was asked for, and an outcome no person gave is the one Mail     *)
(* reported (CancelBeforeDispatch, Finish, HandoffWithDispatch).           *)
OutcomeTrue ==
  LET a == claim.id IN
  /\ claim.outcome \in {"prepared", "canceled"} => window[a] = "none"
  /\ claim.outcome = "failed" /\ verdict[a] # "person" => window[a] \in {"none", "failed"}
  /\ claim.outcome = "opened" /\ verdict[a] = "mail" => window[a] = "opened"

(* What an interrupted staging, or the interrupted recovery of one, leaves *)
(* is a prefix of the attachments of which only the last may be            *)
(* incomplete: the next handoff is able to clean it up                     *)
(* (stageDraftAttachmentAt, removeHandoffSnapshotAttempt).                 *)
StagingRecoverable ==
  claim.outcome = "prepared" =>
    \A i \in Index, j \in Index :
      j < i /\ file[claim.id][i] # "none" => file[claim.id][j] \in {"part", "full"}

(* Copies of attachments never outlive the claim that accounts for them    *)
(* (Begin, cleanupTerminalHandoffAttempt, removeEmptyOrphanSnapshotParent).*)
SnapshotsAccounted ==
  /\ dirs \subseteq {claim.id}
  /\ \A a \in Attempts \ dirs : Used(a) = {}

(* A draft is never on its way through SMTP and through a compose window   *)
(* at the same time (rejectClaimedDraft, attachDraftAttempts).             *)
OneWayOut == ~(sendClaim /\ claim.outcome # "none")

(* Apart from a hand on the file itself, a draft with a handoff on record  *)
(* keeps its content, so that window, snapshots and draft agree            *)
(* (UpdateDraft, PruneDrafts, discardDraftFiles).                          *)
HandoffFreezesDraft ==
  [][doc' # doc /\ claim.outcome # "none" => pc' = pc]_vars

(* The recorded outcome of an attempt only moves forward: what is terminal *)
(* stays, and a claim whose dispatch was recorded is not prepared again    *)
(* (MarkDispatched, Finish, ReconcileDraftHandoff).                        *)
Progress(o) ==
  CASE o = "prepared" -> {"dispatched", "canceled"}
    [] o = "dispatched" -> {"unknown", "opened", "failed", "canceled"}
    [] o = "unknown" -> {"opened", "failed"}
    [] OTHER -> {}
OutcomeForward ==
  [][claim.id \in Attempts /\ claim'.id = claim.id /\ claim'.outcome # claim.outcome =>
       claim'.outcome \in Progress(claim.outcome)]_vars

(* A claim that recorded a dispatch is given up only when its outcome was  *)
(* confirmed, or when Mail never heard of the attempt, and never with      *)
(* snapshots still below it (removeHandoffAttempt).                        *)
ClaimOutlives ==
  [][claim.id \in Attempts /\ claim'.id # claim.id =>
       /\ dirs = {} /\ ~parent
       /\ window[claim.id] = "none" \/ verdict[claim.id] # "none"]_vars

(* One window at a time: the whole of HandoffPromise, with the unresolved  *)
(* and the resolved requests as its two sets (BeginDraftHandoff).          *)
Promise == INSTANCE HandoffPromise WITH
  open <- {a \in Attempts : Unresolved(a)},
  settled <- {a \in Attempts : window[a] # "none" /\ verdict[a] # "none"}
ImplementsHandoffPromise == Promise!PromiseSpec

(* No operation keeps the lease for ever, also when Mail never answers     *)
(* (draftHandoffDispatchTimeout, the deadline in mailcli_compose_email).   *)
HandoffEnds == \A p \in Procs : lease = p ~> lease # p

-----------------------------------------------------------------------------
(* The inductive invariant *)

(* Whoever runs holds the lease.                                           *)
Exclusive == \A p \in Procs : pc[p] \notin {"idle", "wait"} => lease = p

ClaimShape ==
  /\ claim.outcome \in {"none", "torn"} => claim \in {NoClaim, TornClaim}
  /\ claim.outcome \notin {"none", "torn"} => claim.id \in Attempts

Complete(a) == parent /\ a \in dirs /\ \A i \in Index : file[a][i] = "full"

Retained(c) == Complete(c.id) /\ (Files > 0 => c.snaps # NoRev)

(* A recorded dispatch has all its snapshots below it.                     *)
DispatchRetained == claim.outcome \in {"dispatched", "unknown"} => Retained(claim)

TreeShape ==
  /\ dirs # {} => parent
  /\ SnapshotsAccounted

VerdictShape == \A a \in Attempts : window[a] = "none" => verdict[a] = "none"

(* What a process has in memory and on disk between two steps: on the way  *)
(* to the dispatch, ...                                                    *)
BeginAt(p) ==
  /\ pc[p] \in Ops \cup {"idle", "wait", "sending"} => att[p] = NoClaim
  /\ pc[p] \in {"create", "sending", "remove", "claims", "orphans"} => claim = NoClaim
  /\ pc[p] = "create" => ~sendClaim
  /\ pc[p] = "recover" => att[p].id \in Attempts
  /\ pc[p] \in Staging =>
       claim = att[p] /\ att[p].outcome = "prepared" /\ att[p].snaps = NoRev
  /\ pc[p] \in {"dir", "stage", "retain"} => parent
  /\ pc[p] \in {"stage", "retain"} => att[p].id \in dirs
  /\ pc[p] = "retain" => Complete(att[p].id)
  /\ pc[p] \in Staging \cup {"create"} \/ after[p] = "create" => draft[p] \in Revs

(* ... between the dispatch and its outcome, ...                           *)
DispatchAt(p) ==
  /\ pc[p] = "dispatch" =>
       claim = att[p] /\ att[p].outcome = "prepared" /\ Retained(att[p])
  /\ pc[p] = "cancel" =>
       /\ att[p].outcome = "prepared" /\ att[p].id \in Attempts
       /\ claim \in {att[p], [att[p] EXCEPT !.outcome = "dispatched"]}
       /\ window[att[p].id] = "none"
  /\ pc[p] \in {"invoke", "answer"} => claim = att[p] /\ att[p].outcome = "dispatched"
  /\ pc[p] = "invoke" => window[att[p].id] = "none"
  /\ pc[p] = "answer" => window[att[p].id] # "none"
  /\ pc[p] = "finish" =>
       /\ claim = [att[p] EXCEPT !.outcome = "dispatched"]
       /\ att[p].outcome \in {"unknown", "opened", "failed"}
       /\ att[p].outcome = "opened" => window[att[p].id] = "opened"
       /\ att[p].outcome = "failed" => window[att[p].id] \in {"none", "failed"}

(* ... and while it cleans up.                                             *)
CleanAt(p) ==
  /\ pc[p] \in Cleaning /\ (pc[p] = "tidy" => att[p] # NoClaim) =>
       att[p].outcome \in Terminal \cup {"prepared"} /\ att[p].id \in Attempts
  /\ pc[p] = "tidy" /\ att[p] = NoClaim => claim = NoClaim /\ after[p] \in {"remove", "orphans"}
  /\ pc[p] = "delete" => parent /\ att[p].id \in dirs
  /\ pc[p] \in {"rewrite", "unclaim"} => ~parent /\ dirs = {}

(* Files, claim and Mail agree.                                            *)
StoreInv ==
  /\ ClaimShape /\ TreeShape /\ VerdictShape
  /\ DispatchRetained
  /\ EvidenceKept /\ OutcomeTrue /\ StagingRecoverable /\ OneWayOut

AtStep(p) == BeginAt(p) /\ DispatchAt(p) /\ CleanAt(p)

MemoryInv == \A p \in Procs : AtStep(p)

HandoffInv == TypeOK /\ Exclusive /\ StoreInv /\ MemoryInv

-----------------------------------------------------------------------------
(* The manual: "Interrupted cleanup resumes with the same outcome through  *)
(* handoff-reconcile": what lies below a terminal claim is something the   *)
(* cleanup accepts (removeHandoffSnapshotAttempt).                         *)
CleanupResumable ==
  claim.outcome \in Terminal /\ claim.id \in dirs =>
    /\ claim.snaps = NoRev => Used(claim.id) = {}
    /\ \A i \in Index : file[claim.id][i] # "part"
=============================================================================
