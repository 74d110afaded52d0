-------------------------- MODULE DraftSendProofs ---------------------------
(***************************************************************************)
(* Proofs about the life of a draft for every number of processes,         *)
(* revisions, messages and APPEND commands.  SendInv is inductive: every   *)
(* action preserves what holds of the files and the servers (StoreInv) and *)
(* what each process relies on at its step (ProcInv).  The action's own    *)
(* process is treated action by action; for the others it is enough that   *)
(* the lease keeps them at steps that rely on nothing the action changes.  *)
(***************************************************************************)
EXTENDS DraftSendProps, TLAPS

(***************************************************************************)
(* Type correctness.                                                       *)
(***************************************************************************)

USE SendAssumption
USE DEF Goto, Then, Return, Recall, OnlyControl, disk, lock, servers, local

(* The parts of TypeOK that an action touches together. *)
FilesTyped ==
  /\ doc \in Revs \cup {NoRev}
  /\ claim \in Attempt
  /\ spool \in Msgs \cup {NoMsg}
  /\ receipt \in Receipt
  /\ lockFile \in BOOLEAN
  /\ lease \in Procs \cup {NoProc}

Letter == [rev : Revs \cup {NoRev}, approved : Revs \cup {NoRev},
           st : {"new", "composed", "data", "accepted", "refused"}]

ServersTyped ==
  /\ mail \in [Msgs -> Letter]
  /\ apnd \in [Appends -> [msg : Msgs \cup {NoMsg},
                           st : {"new", "data", "applied", "refused"}]]
  /\ filed \subseteq Msgs
  /\ expired \in BOOLEAN

MemoryTyped ==
  /\ req \in [Procs -> [op : Ops, rev : Revs \cup {NoRev}]]
  /\ cmd \in [Procs -> Appends \cup {NoAppend}]
  /\ code \in [Procs -> Codes]

(* TypeOK is the conjunction of its parts. *)
LEMMA TypeParts ==
  TypeOK <=> /\ FilesTyped /\ ServersTyped /\ MemoryTyped
             /\ pc \in [Procs -> Steps] /\ att \in [Procs -> Attempt]
BY DEF TypeOK, FilesTyped, ServersTyped, Letter, MemoryTyped

(* The same in the next state. *)
LEMMA TypePartsNext ==
  TypeOK' <=> /\ FilesTyped' /\ ServersTyped' /\ MemoryTyped'
              /\ pc' \in [Procs -> Steps] /\ att' \in [Procs -> Attempt]
BY DEF TypeOK, FilesTyped, ServersTyped, Letter, MemoryTyped

(* Every step and result that an action names exists. *)
LEMMA StepsExist ==
  /\ Ops \subseteq Steps
  /\ {"idle", "wait", "return", "recover", "compose", "claim", "submit", "reply", "reject",
      "unclaim", "arm", "mirror", "ack", "confirm", "record", "sent", "receipt", "missing",
      "searchUnknown", "searchPending", "adopt", "remove", "claims", "claimsEnd",
      "sweepSpool", "dropReceipt", "unlock"} \subseteq Steps
BY DEF Steps

(* Every result that an action names is a code. *)
LEMMA CodesExist ==
  {"", "sent", "replayed", "reconciled", "updated", "kept", "refused",
   "not_found", "draft_revision_conflict", "draft_state_error", "send_receipt_unusable",
   "send_mirror_pending", "send_mirror_outcome_unknown", "send_outcome_unknown",
   "send_outcome_unverifiable", "send_identity_mismatch", "send_reconcile_unavailable",
   "send_retry_blocked", "send_recovery_spool_persist_failed", "send_recovery_spool_changed",
   "send_claim_failed", "send_cleanup_failed", "smtp_submission_unknown", "smtp_rejected",
   "prune_state_changed", "receipt_kept"} \subseteq Codes
BY DEF Codes

(* The null values are typed. *)
LEMMA NullsTyped ==
  /\ NoClaim \in Attempt /\ TornClaim \in Attempt
  /\ NoReceipt \in Receipt /\ TornReceipt \in Receipt
  /\ NoRequest \in [op : Ops, rev : Revs \cup {NoRev}]
BY DEF NoClaim, TornClaim, Attempt, Receipt, NoReceipt, TornReceipt, NoRequest, Ops

(* The updates of an attempt that the actions make keep its type. *)
LEMMA AttemptUpdates ==
  ASSUME NEW a \in Attempt
  PROVE  /\ [a EXCEPT !.outcome = "unknown"] \in Attempt
         /\ [a EXCEPT !.outcome = "pending"] \in Attempt
         /\ [a EXCEPT !.outcome = "sent", !.unk = FALSE] \in Attempt
         /\ [a EXCEPT !.unk = TRUE] \in Attempt
         /\ [a EXCEPT !.unk = FALSE] \in Attempt
         /\ \A m \in Msgs : [a EXCEPT !.msg = m] \in Attempt
         /\ \A r \in Revs \cup {NoRev} : [a EXCEPT !.rev = r] \in Attempt
         /\ Derived(a) \in Receipt
BY DEF Attempt, Receipt, Derived

(* A submitted message is still a message. *)
LEMMA LetterUpdates ==
  ASSUME NEW r \in Letter
  PROVE  [r EXCEPT !.st = "data"] \in Letter
BY DEF Letter

(* The attempt in the memory of a process, and its updates. *)
LEMMA MemoryUpdates ==
  ASSUME TypeOK, NEW p \in Procs
  PROVE  /\ att[p] \in Attempt
         /\ [att[p] EXCEPT !.outcome = "unknown"] \in Attempt
         /\ [att[p] EXCEPT !.outcome = "pending"] \in Attempt
         /\ [att[p] EXCEPT !.outcome = "sent", !.unk = FALSE] \in Attempt
         /\ [att[p] EXCEPT !.unk = TRUE] \in Attempt
         /\ [att[p] EXCEPT !.unk = FALSE] \in Attempt
         /\ Derived(att[p]) \in Receipt
<1>1. att[p] \in Attempt BY DEF TypeOK
<1> QED BY <1>1, AttemptUpdates
-----------------------------------------------------------------------------
(* One lemma per phase of the program; within it one step per part. *)

(* Sending up to the SMTP reply. *)
LEMMA SendStepTyped ==
  ASSUME TypeOK, NEW p \in Procs, SendStep(p)
  PROVE  TypeOK'
<1> USE DEF SendStep, SendMissing, SendRefused, SendReplay, SendPrepare, RecoverSpool,
            PersistSpool, PersistFails, BeginAttempt, BeginFails, SubmitFails, SubmitData,
            ReplyAccepted, ReplyRefused, ReplyLost, RejectSpool, RejectClaim
<1>1. pc' \in [Procs -> Steps] BY StepsExist DEF TypeOK
<1>2. MemoryTyped'
 <2>1. req' = req /\ cmd' = cmd OBVIOUS
 <2>2. code' \in [Procs -> Codes] BY ZenonT(60), CodesExist DEF TypeOK
 <2> QED BY <2>1, <2>2 DEF TypeOK, MemoryTyped
<1>3. att' \in [Procs -> Attempt]
 <2>1. CASE SendPrepare(p)
  <3>1. [NoClaim EXCEPT !.rev = doc] \in Attempt BY AttemptUpdates, NullsTyped DEF TypeOK
  <3> QED BY <2>1, <3>1 DEF TypeOK
 <2>2. CASE PersistSpool(p)
  <3> PICK m \in Msgs : att' = [att EXCEPT ![p] = [att[p] EXCEPT !.msg = m]] BY <2>2
  <3> QED BY AttemptUpdates DEF TypeOK
 <2>3. CASE BeginAttempt(p) \/ ReplyAccepted(p)
  <3>1. PICK a \in Attempt : att' = [att EXCEPT ![p] = a] BY <2>3, MemoryUpdates
  <3> QED BY <3>1 DEF TypeOK
 <2>4. CASE SendReplay(p) \/ att' = att BY <2>4 DEF TypeOK
 <2> QED BY <2>1, <2>2, <2>3, <2>4
<1>4. FilesTyped'
 <2>1. CASE BeginAttempt(p) \/ ReplyLost(p) \/ RejectClaim(p)
  <3>1. claim' \in Attempt BY <2>1, MemoryUpdates, NullsTyped
  <3> QED BY <2>1, <3>1 DEF TypeOK, FilesTyped
 <2>2. CASE RecoverSpool(p) \/ PersistSpool(p) \/ BeginFails(p) \/ RejectSpool(p)
   BY <2>2 DEF TypeOK, FilesTyped
 <2>3. CASE UNCHANGED <<disk, lock>> BY <2>3 DEF TypeOK, FilesTyped
 <2> QED BY <2>1, <2>2, <2>3
<1>5. ServersTyped'
 <2>1. CASE PersistSpool(p)
  <3>1. att[p].rev \in Revs \cup {NoRev} /\ req[p].rev \in Revs \cup {NoRev}
    BY DEF TypeOK, Attempt
  <3>2. PICK m \in Msgs : mail' = [mail EXCEPT ![m] = [rev |-> att[p].rev,
                                     approved |-> req[p].rev, st |-> "composed"]] BY <2>1
  <3> QED BY <2>1, <3>1, <3>2 DEF TypeOK, ServersTyped, Letter
 <2>2. CASE SubmitData(p)
  <3>1. mail' = [mail EXCEPT ![att[p].msg] = [mail[att[p].msg] EXCEPT !.st = "data"]] BY <2>2
  <3>2. CASE att[p].msg \in Msgs
   <4>1. [mail[att[p].msg] EXCEPT !.st = "data"] \in Letter
     BY <3>2, LetterUpdates, TypeParts DEF ServersTyped
   <4>2. ServersTyped BY TypeParts
   <4>3. mail' \in [Msgs -> Letter] BY <3>1, <4>1, <4>2 DEF ServersTyped
   <4> QED BY <2>2, <4>2, <4>3 DEF ServersTyped
  <3>3. CASE att[p].msg \notin Msgs
    BY ZenonT(60), <2>2, <3>1, <3>3 DEF TypeOK, ServersTyped, Letter
  <3> QED BY <3>2, <3>3
 <2>3. CASE UNCHANGED <<servers, expired>> BY <2>3 DEF TypeOK, ServersTyped, Letter
 <2> QED BY <2>1, <2>2, <2>3
<1> QED BY <1>1, <1>2, <1>3, <1>4, <1>5, TypePartsNext

(* The Sent mirror. *)
LEMMA MirrorStepTyped ==
  ASSUME TypeOK, NEW p \in Procs, MirrorStep(p)
  PROVE  TypeOK'
<1> USE DEF MirrorStep, Arm, MirrorFound, MirrorFails, MirrorData, AckOk, AckNo, AckLost,
            Confirm, Record
<1>1. pc' \in [Procs -> Steps] BY StepsExist DEF TypeOK, Mirrored
<1>2. MemoryTyped'
 <2>1. req' \in [Procs -> [op : Ops, rev : Revs \cup {NoRev}]] BY DEF TypeOK
 <2>2. cmd' \in [Procs -> Appends \cup {NoAppend}] BY DEF TypeOK
 <2>3. code' \in [Procs -> Codes] BY CodesExist DEF TypeOK
 <2> QED BY <2>1, <2>2, <2>3 DEF MemoryTyped
<1>3. att' \in [Procs -> Attempt]
 <2>1. CASE Arm(p) \/ MirrorFails(p) \/ AckNo(p)
  <3>1. PICK a \in Attempt : att' = [att EXCEPT ![p] = a] BY <2>1, MemoryUpdates
  <3> QED BY <3>1 DEF TypeOK
 <2>2. CASE att' = att BY <2>2 DEF TypeOK
 <2> QED BY <2>1, <2>2
<1>4. FilesTyped'
 <2>1. CASE Arm(p) \/ Record(p)
  <3>1. claim' \in Attempt BY <2>1, MemoryUpdates
  <3> QED BY <2>1, <3>1 DEF TypeOK, FilesTyped
 <2>2. CASE UNCHANGED <<disk, lock>> BY <2>2 DEF TypeOK, FilesTyped
 <2> QED BY <2>1, <2>2
<1>5. ServersTyped'
 <2>1. CASE MirrorData(p)
  <3>1. att[p].msg \in Msgs \cup {NoMsg} BY DEF TypeOK, Attempt
  <3> QED BY <2>1, <3>1 DEF TypeOK, ServersTyped, Letter
 <2>2. CASE UNCHANGED <<servers, expired>> BY <2>2 DEF TypeOK, ServersTyped, Letter
 <2> QED BY <2>1, <2>2
<1> QED BY <1>1, <1>2, <1>3, <1>4, <1>5, TypePartsNext

(* Terminal evidence and cleanup. *)
LEMMA FinishStepTyped ==
  ASSUME TypeOK, NEW p \in Procs, FinishStep(p)
  PROVE  TypeOK'
<1> USE DEF FinishStep, MarkSent, EnsureReceipt, RemoveDoc, RemoveClaims, RemoveClaim, Unlock
<1>1. pc' \in [Procs -> Steps] BY StepsExist DEF TypeOK, AfterClaims
<1>2. MemoryTyped'
 <2>1. req' \in [Procs -> [op : Ops, rev : Revs \cup {NoRev}]] BY DEF TypeOK
 <2>2. cmd' \in [Procs -> Appends \cup {NoAppend}] BY DEF TypeOK
 <2>3. code' \in [Procs -> Codes] BY CodesExist DEF TypeOK
 <2> QED BY <2>1, <2>2, <2>3 DEF MemoryTyped
<1>3. att' \in [Procs -> Attempt]
 <2>1. CASE MarkSent(p)
  <3>1. PICK a \in Attempt : att' = [att EXCEPT ![p] = a] BY <2>1, MemoryUpdates
  <3> QED BY <3>1 DEF TypeOK
 <2>2. CASE att' = att BY <2>2 DEF TypeOK
 <2> QED BY <2>1, <2>2
<1>4. FilesTyped'
 <2>1. CASE MarkSent(p) \/ RemoveClaim(p)
  <3>1. claim' \in Attempt BY <2>1, MemoryUpdates, NullsTyped
  <3> QED BY <2>1, <3>1 DEF TypeOK, FilesTyped
 <2>2. CASE EnsureReceipt(p)
  <3>1. receipt' \in Receipt
   <4>1. receipt' = Derived(att[p]) \/ receipt' = receipt BY <2>2
   <4>2. Derived(att[p]) \in Receipt /\ receipt \in Receipt BY MemoryUpdates DEF TypeOK
   <4> QED BY <4>1, <4>2
  <3> QED BY <2>2, <3>1 DEF TypeOK, FilesTyped
 <2>3. CASE RemoveDoc(p) \/ RemoveClaims(p) \/ Unlock(p) BY <2>3 DEF TypeOK, FilesTyped
 <2> QED BY <2>1, <2>2, <2>3
<1>5. ServersTyped' BY DEF TypeOK, ServersTyped, Letter
<1> QED BY <1>1, <1>2, <1>3, <1>4, <1>5, TypePartsNext

(* Reconciliation. *)
LEMMA ReconcileStepTyped ==
  ASSUME TypeOK, NEW p \in Procs, ReconcileStep(p)
  PROVE  TypeOK'
<1> USE DEF ReconcileStep, ReconcileMissing, ReconcileConsumed, ReconcileUnclaimed,
            ReconcileClaimed, SearchUnknown, SearchPending, Adopt
<1>1. pc' \in [Procs -> Steps]
 <2>1. CASE ReconcileClaimed(p)
  <3>1. \E s \in {"receipt", "searchPending", "searchUnknown"} : Goto(p, s)
    BY <2>1 DEF Claimed
  <3> QED BY <3>1, StepsExist DEF TypeOK
 <2>2. CASE ~ReconcileClaimed(p) BY ZenonT(60), <2>2, StepsExist DEF TypeOK
 <2> QED BY <2>1, <2>2
<1>2. MemoryTyped'
 <2>1. req' = req /\ cmd' = cmd OBVIOUS
 <2>2. code' \in [Procs -> Codes] BY ZenonT(60), CodesExist DEF TypeOK, Unverified
 <2> QED BY <2>1, <2>2 DEF TypeOK, MemoryTyped
<1>3. att' \in [Procs -> Attempt] BY DEF TypeOK
<1>4. FilesTyped' BY DEF TypeOK, FilesTyped
<1>5. ServersTyped' BY DEF TypeOK, ServersTyped, Letter
<1> QED BY <1>1, <1>2, <1>3, <1>4, <1>5, TypePartsNext

(* Editing and pruning. *)
LEMMA OtherStepTyped ==
  ASSUME TypeOK, NEW p \in Procs, OtherStep(p)
  PROVE  TypeOK'
<1> USE DEF OtherStep, MutateMissing, UpdateRefused, UpdateWrite, Prune, Expire, DropReceipt,
            Sweep, SweepSpool
<1>1. pc' \in [Procs -> Steps] BY StepsExist DEF TypeOK
<1>2. MemoryTyped'
 <2>1. req' \in [Procs -> [op : Ops, rev : Revs \cup {NoRev}]] BY DEF TypeOK
 <2>2. cmd' \in [Procs -> Appends \cup {NoAppend}] BY DEF TypeOK
 <2>3. code' \in [Procs -> Codes] BY ZenonT(60), CodesExist DEF TypeOK
 <2> QED BY <2>1, <2>2, <2>3 DEF MemoryTyped
<1>3. att' \in [Procs -> Attempt] BY DEF TypeOK
<1>4. FilesTyped' BY NullsTyped DEF TypeOK, FilesTyped
<1>5. ServersTyped' BY DEF TypeOK, ServersTyped, Letter
<1> QED BY <1>1, <1>2, <1>3, <1>4, <1>5, TypePartsNext

(* The end of an operation resets its memory. *)
LEMMA FinishTyped ==
  ASSUME TypeOK, NEW p \in Procs, Finish(p),
         claim' \in Attempt, receipt' \in Receipt, UNCHANGED <<doc, spool>>
  PROVE  TypeOK'
<1> USE DEF Finish
<1>1. pc' \in [Procs -> Steps] /\ att' \in [Procs -> Attempt]
  BY StepsExist, NullsTyped DEF TypeOK
<1>2. MemoryTyped' BY CodesExist, NullsTyped DEF TypeOK, MemoryTyped
<1>3. FilesTyped' /\ ServersTyped' BY DEF TypeOK, FilesTyped, ServersTyped, Letter
<1> QED BY <1>1, <1>2, <1>3, TypePartsNext

(* Calls, returns and interruptions. *)
LEMMA CallTyped ==
  ASSUME TypeOK, NEW p \in Procs, Request(p) \/ Acquire(p) \/ Release(p) \/ Interrupted(p)
  PROVE  TypeOK'
<1>1. CASE Request(p)
 <2>1. PICK op \in Ops, r \in Revs : req' = [req EXCEPT ![p] = [op |-> op, rev |-> r]]
   BY <1>1 DEF Request
 <2>2. pc' \in [Procs -> Steps] /\ MemoryTyped'
   BY <1>1, <2>1, StepsExist DEF Request, TypeOK, MemoryTyped
 <2> QED BY <1>1, <2>2, TypePartsNext DEF Request, TypeOK, FilesTyped, ServersTyped, Letter
<1>2. CASE Acquire(p)
 <2>1. req[p].op \in Steps BY StepsExist DEF TypeOK
 <2> QED BY <1>2, <2>1 DEF Acquire, TypeOK
<1>3. CASE Release(p) \/ Interrupted(p)
  BY <1>3, FinishTyped, NullsTyped DEF Release, Interrupted, Stop, TearClaim, TearReceipt, TypeOK
<1> QED BY <1>1, <1>2, <1>3

(* The servers and the clock. *)
LEMMA ServerTyped ==
  ASSUME TypeOK, Server \/ RetentionEnds
  PROVE  TypeOK'
<1>1. ASSUME NEW m \in Msgs, SmtpDecide(m) PROVE TypeOK'
 <2>1. ServersTyped' BY <1>1 DEF SmtpDecide, TypeOK, ServersTyped, Letter
 <2> QED BY <1>1, <2>1, TypePartsNext DEF SmtpDecide, TypeOK, FilesTyped, MemoryTyped
<1>3. ASSUME NEW m \in Msgs, ProviderFile(m) PROVE TypeOK' BY <1>3 DEF ProviderFile, TypeOK
<1>4. ASSUME NEW a \in Appends, AppendDecide(a) PROVE TypeOK'
 <2>1. ServersTyped' BY <1>4 DEF AppendDecide, TypeOK, ServersTyped, Letter
 <2> QED BY <1>4, <2>1, TypePartsNext DEF AppendDecide, TypeOK, FilesTyped, MemoryTyped
<1>2. CASE RetentionEnds BY <1>2 DEF TypeOK, RetentionEnds
<1> QED BY <1>1, <1>2, <1>3, <1>4 DEF Server

(* TypeOK is inductive. *)
LEMMA NextTyped == TypeOK /\ [Next]_vars => TypeOK'
<1> SUFFICES ASSUME TypeOK, [Next]_vars PROVE TypeOK' OBVIOUS
<1>1. CASE UNCHANGED vars BY <1>1 DEF vars, TypeOK
<1>2. ASSUME NEW p \in Procs, Run(p) PROVE TypeOK'
  BY <1>2, SendStepTyped, MirrorStepTyped, FinishStepTyped, ReconcileStepTyped, OtherStepTyped
     DEF Run
<1> QED BY <1>1, <1>2, CallTyped, ServerTyped DEF Next

(* The initial state is typed. *)
LEMMA InitTyped == Init => TypeOK
<1> SUFFICES ASSUME Init PROVE TypeOK OBVIOUS
<1>1. FilesTyped BY NullsTyped DEF Init, FilesTyped
<1>2. ServersTyped BY DEF Init, ServersTyped, Letter
<1>3. MemoryTyped BY NullsTyped, CodesExist DEF Init, MemoryTyped
<1>4. pc \in [Procs -> Steps] /\ att \in [Procs -> Attempt] BY NullsTyped, StepsExist DEF Init
<1> QED BY <1>1, <1>2, <1>3, <1>4, TypeParts

(* Every variable of the send model keeps its type. *)
THEOREM Typed == Spec => []TypeOK
BY InitTyped, NextTyped, PTL DEF Spec

(***************************************************************************)
(* The inductive invariant.                                                *)
(***************************************************************************)

USE DEF Claimed

(* An action of p leaves the memory of the other processes alone. *)
Frame(p) ==
  \A q \in Procs \ {p} :
    pc'[q] = pc[q] /\ req'[q] = req[q] /\ att'[q] = att[q] /\ cmd'[q] = cmd[q]

(* While p has the lease the others wait or clean up after a missing draft. *)
LEMMA HolderSteps ==
  ASSUME SendInv, NEW p \in Procs, lease = p, Frame(p), doc = NoRev => doc' = NoRev
  PROVE  \A q \in Procs \ {p} : ProcInv(q)'
<1> SUFFICES ASSUME NEW q \in Procs \ {p} PROVE ProcInv(q)' OBVIOUS
<1>1. pc'[q] = pc[q] /\ req'[q] = req[q] BY DEF Frame
<1>2. LeaseHeld(q) /\ Requested(q) /\ CleanupWithoutDraft(q) BY DEF SendInv, ProcInv
<1>3. pc[q] \in Unleased /\ ~(pc[q] \in {"claims", "claimsEnd"} /\ req[q].op = "expire")
  BY <1>2 DEF LeaseHeld
<1>4. LeaseHeld(q)' /\ Requested(q)' BY <1>1, <1>2, <1>3 DEF LeaseHeld, Requested, Unleased
<1>5. CleanupWithoutDraft(q)' BY <1>1, <1>2 DEF CleanupWithoutDraft
<1>6. Preparing(q)' /\ Attempting(q)' /\ Submitting(q)' /\ Mirroring(q)' /\ Finishing(q)'
  BY <1>1, <1>3 DEF Unleased, AttemptSteps, Preparing, Attempting, Submitting, Mirroring,
     Finishing
<1> QED BY <1>4, <1>5, <1>6 DEF ProcInv

(* Cleaning up after a missing draft disturbs nobody, with or without lease. *)
LEMMA CleanerSteps ==
  ASSUME SendInv, NEW p \in Procs, Frame(p), doc = NoRev, doc' = NoRev,
         \A q \in Procs \ {p} : lease = q => lease' = q
  PROVE  \A q \in Procs \ {p} : ProcInv(q)'
<1> SUFFICES ASSUME NEW q \in Procs \ {p} PROVE ProcInv(q)' OBVIOUS
<1>1. pc'[q] = pc[q] /\ req'[q] = req[q] BY DEF Frame
<1>2. ProcInv(q) BY DEF SendInv
<1>3. pc[q] \notin {"recover", "compose", "claim", "remove"} \cup AttemptSteps
  BY <1>2 DEF ProcInv, Preparing, Attempting, Finishing
<1>4. LeaseHeld(q)' /\ Requested(q)' BY <1>1, <1>2 DEF ProcInv, LeaseHeld, Requested
<1>5. CleanupWithoutDraft(q)' BY DEF CleanupWithoutDraft
<1>6. Preparing(q)' /\ Attempting(q)' /\ Submitting(q)' /\ Mirroring(q)' /\ Finishing(q)'
  BY <1>1, <1>3 DEF AttemptSteps, Preparing, Attempting, Submitting, Mirroring, Finishing
<1> QED BY <1>4, <1>5, <1>6 DEF ProcInv

(* A step that changes no file and no server disturbs nobody. *)
LEMMA QuietSteps ==
  ASSUME SendInv, NEW p \in Procs, Frame(p), UNCHANGED <<disk, servers>>,
         \A q \in Procs \ {p} : lease = q => lease' = q
  PROVE  \A q \in Procs \ {p} : ProcInv(q)'
<1> SUFFICES ASSUME NEW q \in Procs \ {p} PROVE ProcInv(q)' OBVIOUS
<1>1. pc'[q] = pc[q] /\ req'[q] = req[q] /\ att'[q] = att[q] /\ cmd'[q] = cmd[q] BY DEF Frame
<1>2. ProcInv(q) BY DEF SendInv
<1>3. LeaseHeld(q)' /\ Requested(q)' /\ CleanupWithoutDraft(q)'
  BY <1>1, <1>2 DEF ProcInv, LeaseHeld, Requested, CleanupWithoutDraft
<1>4. Preparing(q)' /\ Attempting(q)' /\ Submitting(q)'
  BY <1>1, <1>2 DEF ProcInv, Preparing, Attempting, Submitting
<1>5. Mirroring(q)' /\ Finishing(q)'
  BY <1>1, <1>2 DEF ProcInv, Mirroring, Finishing, Unsent, Open, Witnessed, Copies
<1> QED BY <1>3, <1>4, <1>5 DEF ProcInv

(* A step that leaves files and servers alone keeps what holds of them. *)
LEMMA StoreUnchanged == StoreInv /\ UNCHANGED <<disk, servers>> => StoreInv'
BY DEF StoreInv, ClaimNamesMessage, ClaimFreezesDraft, ReviewedOnly, SubmissionOnRecord,
   AtMostOneSubmission, TornClaimHarmless, CopiesAccepted, ClaimArmed, SingleMirrorCopy,
   ReceiptTruthful, Witnessed, Copies, Unsent, Open, Live
-----------------------------------------------------------------------------
(* What is left to show of the acting process where it arrives. *)

(* Idle, waiting for the lease and returning rely on nothing. *)
LEMMA ArriveResting ==
  ASSUME NEW p \in Procs, pc'[p] \in {"idle", "wait", "return"}
  PROVE  ProcInv(p)'
BY DEF ProcInv, LeaseHeld, Requested, Unleased, CleanupWithoutDraft, Preparing, Attempting,
   AttemptSteps, Submitting, Mirroring, Finishing, Ops

(* An operation starts with the lease. *)
LEMMA ArriveStart ==
  ASSUME NEW p \in Procs, pc'[p] \in Ops, req'[p].op = pc'[p], lease' = p
  PROVE  ProcInv(p)'
BY DEF ProcInv, LeaseHeld, Requested, Unleased, CleanupWithoutDraft, Preparing, Attempting,
   AttemptSteps, Submitting, Mirroring, Finishing, Ops

(* Cleanup relies on the missing draft, and expiry on the lease too. *)
LEMMA ArriveCleanup ==
  ASSUME NEW p \in Procs, doc' = NoRev,
         pc'[p] \in {"missing", "claims", "claimsEnd", "unlock", "dropReceipt", "sweepSpool"},
         pc'[p] = "missing" => req'[p].op = "reconcile",
         \/ lease' = p
         \/ pc'[p] \in {"missing", "unlock"}
         \/ pc'[p] \in {"claims", "claimsEnd"} /\ req'[p].op # "expire"
  PROVE  ProcInv(p)'
BY DEF ProcInv, LeaseHeld, Requested, Unleased, CleanupWithoutDraft, Preparing, Attempting,
   AttemptSteps, Submitting, Mirroring, Finishing, Ops

(* Up to the claim. *)
LEMMA ArrivePreparing ==
  ASSUME NEW p \in Procs, lease' = p, pc'[p] \in {"recover", "compose", "claim"},
         Preparing(p)'
  PROVE  ProcInv(p)'
BY DEF ProcInv, LeaseHeld, Requested, Unleased, CleanupWithoutDraft, Attempting,
   AttemptSteps, Submitting, Mirroring, Finishing, Ops

(* From the claim to the receipt. *)
LEMMA ArriveAttempt ==
  ASSUME NEW p \in Procs, lease' = p, pc'[p] \in AttemptSteps,
         Attempting(p)', Submitting(p)', Mirroring(p)', Finishing(p)'
  PROVE  ProcInv(p)'
BY DEF ProcInv, LeaseHeld, Requested, Unleased, CleanupWithoutDraft, Preparing,
   AttemptSteps, Ops

(* At the removal of the draft. *)
LEMMA ArriveRemove ==
  ASSUME NEW p \in Procs, lease' = p, pc'[p] = "remove", Finishing(p)'
  PROVE  ProcInv(p)'
BY DEF ProcInv, LeaseHeld, Requested, Unleased, CleanupWithoutDraft, Preparing, Attempting,
   AttemptSteps, Submitting, Mirroring, Ops

(* A process outside of Unleased has the lease. *)
LEMMA HasLease ==
  ASSUME SendInv, NEW p \in Procs, pc[p] \notin Unleased
  PROVE  lease = p
BY DEF SendInv, ProcInv, LeaseHeld

(* A copy in Sent is one of an accepted message. *)
LEMMA CopyWitnessed ==
  ASSUME SendInv, NEW m \in Msgs, Copies(m) # {}
  PROVE  Witnessed(m)
BY DEF SendInv, StoreInv, CopiesAccepted, Witnessed, Copies

(* So is a verified one. *)
LEMMA VerifiedWitnessed ==
  ASSUME SendInv, NEW m \in Msgs, Verified(m)
  PROVE  Witnessed(m)
BY CopyWitnessed DEF Verified, OneCopy

(* The message of an attempt that is on disk. *)
LEMMA AttemptNamed ==
  ASSUME SendInv, NEW p \in Procs, pc[p] \in AttemptSteps
  PROVE  /\ doc # NoRev /\ Claimed
         /\ claim.msg = att[p].msg /\ claim.rev = att[p].rev /\ att[p].msg \in Msgs
BY DEF SendInv, StoreInv, ProcInv, Attempting, ClaimNamesMessage

(* How an action preserves the invariant, given what it does to its own process. *)

(* An action that touches neither files nor servers. *)
LEMMA QuietPreserves ==
  ASSUME SendInv, TypeOK', NEW p \in Procs, Frame(p), UNCHANGED <<disk, servers>>,
         \A q \in Procs \ {p} : lease = q => lease' = q, ProcInv(p)'
  PROVE  SendInv'
BY QuietSteps, StoreUnchanged DEF SendInv

(* An action of the process that has the lease. *)
LEMMA HolderPreserves ==
  ASSUME SendInv, TypeOK', NEW p \in Procs, lease = p, Frame(p),
         doc = NoRev => doc' = NoRev, StoreInv', ProcInv(p)'
  PROVE  SendInv'
BY HolderSteps DEF SendInv

(* An action on what a missing draft left behind. *)
LEMMA CleanerPreserves ==
  ASSUME SendInv, TypeOK', NEW p \in Procs, Frame(p), doc = NoRev, doc' = NoRev,
         \A q \in Procs \ {p} : lease = q => lease' = q, UNCHANGED servers,
         claim' \in {claim, NoClaim}, receipt' \in {receipt, NoReceipt}, ProcInv(p)'
  PROVE  SendInv'
<1>1. StoreInv'
  BY DEF SendInv, StoreInv, ClaimNamesMessage, ClaimFreezesDraft, ReviewedOnly,
     SubmissionOnRecord, AtMostOneSubmission, TornClaimHarmless, CopiesAccepted, ClaimArmed,
     SingleMirrorCopy, ReceiptTruthful, Witnessed, Copies, Unsent, Open, Live, NoClaim, NoReceipt
<1> QED BY <1>1, CleanerSteps DEF SendInv
-----------------------------------------------------------------------------
(* The actions, one by one: first those that end in a step that relies on   *)
(* nothing, and those that clean up after a missing draft.                  *)

(* A call, a return, a stop, and the refusals. *)
LEMMA RestingPreserves ==
  ASSUME SendInv, TypeOK', NEW p \in Procs,
         \/ Request(p) \/ Release(p) \/ Stop(p)
         \/ SendRefused(p) \/ PersistFails(p) \/ UpdateRefused(p)
  PROVE  SendInv'
<1> USE DEF Request, Release, Stop, SendRefused, PersistFails, UpdateRefused, Finish
<1>1. Frame(p) BY DEF Frame, SendInv, TypeOK
<1>2. UNCHANGED <<disk, servers>> /\ \A q \in Procs \ {p} : lease = q => lease' = q OBVIOUS
<1>3. pc'[p] \in {"idle", "wait", "return"} BY DEF SendInv, TypeOK
<1> QED BY <1>1, <1>2, <1>3, ArriveResting, QuietPreserves

(* Every action that finds the draft missing. *)
LEMMA CleanupPreserves ==
  ASSUME SendInv, TypeOK', NEW p \in Procs,
         \/ SendMissing(p) \/ MutateMissing(p) \/ ReconcileMissing(p) \/ ReconcileConsumed(p)
         \/ RemoveClaims(p) \/ RemoveClaim(p) \/ DropReceipt(p) \/ SweepSpool(p) \/ Unlock(p)
  PROVE  SendInv'
<1> USE DEF SendMissing, MutateMissing, ReconcileMissing, ReconcileConsumed, RemoveClaims,
            RemoveClaim, DropReceipt, SweepSpool, Unlock, AfterClaims
<1>1. Frame(p) BY DEF Frame, SendInv, TypeOK
<1>2. doc = NoRev /\ doc' = NoRev BY DEF SendInv, ProcInv, CleanupWithoutDraft
<1>3. /\ UNCHANGED servers /\ claim' \in {claim, NoClaim} /\ receipt' \in {receipt, NoReceipt}
      /\ \A q \in Procs \ {p} : lease = q => lease' = q BY HasLease DEF Unleased
<1>4. ProcInv(p)'
 <2> USE DEF SendInv, TypeOK, ProcInv, LeaseHeld, Requested, Unleased, Ops
 <2>1. CASE pc'[p] = "return" BY <2>1, ArriveResting
 <2>2. CASE pc'[p] # "return" /\ (SendMissing(p) \/ MutateMissing(p) \/ ReconcileMissing(p))
   BY <1>2, <2>2, ArriveCleanup
 <2>3. CASE pc'[p] # "return" /\ ~(SendMissing(p) \/ MutateMissing(p) \/ ReconcileMissing(p))
   BY <1>2, <2>3, ArriveCleanup
 <2> QED BY <2>1, <2>2, <2>3
<1> QED BY <1>1, <1>2, <1>3, <1>4, CleanerPreserves

USE DEF SendInv, TypeOK, Attempt, AttemptSteps

(* A replay reads the attempt from its claim. *)
LEMMA SendReplayPreserves ==
  ASSUME SendInv, TypeOK', NEW p \in Procs, SendReplay(p)
  PROVE  SendInv'
<1> USE DEF SendReplay
<1>1. Frame(p) BY DEF Frame
<1>2. ProcInv(p)'
 <2>1. CASE pc'[p] = "return" BY <2>1, ArriveResting
 <2>2. CASE pc'[p] \in AttemptSteps
  <3>1. lease' = p /\ pc'[p] \in AttemptSteps BY <2>2, HasLease DEF Unleased
  <3>2. Attempting(p)'
    BY <2>2, <3>1 DEF StoreInv, ProcInv, Attempting, ClaimNamesMessage,
       ClaimFreezesDraft
  <3>3. Submitting(p)' BY <2>2, <3>1 DEF StoreInv, ProcInv, Submitting, ClaimNamesMessage
  <3>4. Mirroring(p)'
    BY <2>2, <3>1 DEF StoreInv, ProcInv, Mirroring, ClaimNamesMessage, ClaimArmed,
       CopiesAccepted, Unsent, Open
  <3>5. Finishing(p)'
    BY <2>2, <3>1 DEF StoreInv, ProcInv, Finishing, ClaimNamesMessage,
       ClaimFreezesDraft, ReceiptTruthful, Witnessed, Copies
  <3> QED BY <3>1, <3>2, <3>3, <3>4, <3>5, ArriveAttempt
 <2> QED BY <2>1, <2>2
<1> QED BY <1>1, <1>2, QuietPreserves

(* The reviewed revision is the draft's own, and no claim exists. *)
LEMMA SendPreparePreserves ==
  ASSUME SendInv, TypeOK', NEW p \in Procs, SendPrepare(p)
  PROVE  SendInv'
<1> USE DEF SendPrepare, NoClaim, ReceiptActive
<1>1. Frame(p) BY DEF Frame
<1>2. ProcInv(p)'
 <2>1. CASE pc'[p] \in {"recover", "compose", "claim"}
  <3>1. lease' = p /\ pc'[p] \in {"recover", "compose", "claim"}
    BY <2>1, HasLease DEF Unleased
  <3>2. Preparing(p)' BY <2>1, <3>1, SMTT(20) DEF StoreInv, ProcInv, Preparing
  <3> QED BY <3>1, <3>2, ArrivePreparing
 <2>2. CASE pc'[p] = "return" BY <2>2, ArriveResting
 <2>3. CASE pc'[p] = "remove"
  <3>1. lease' = p /\ pc'[p] = "remove" BY <2>3, HasLease DEF Unleased
  <3>2. Finishing(p)'
    BY <2>3, <3>1 DEF StoreInv, ProcInv, Finishing, ClaimNamesMessage,
       ClaimFreezesDraft, ReceiptTruthful, Witnessed, Copies
  <3> QED BY <3>1, <3>2, ArriveRemove
 <2> QED BY <2>1, <2>2, <2>3
<1> QED BY <1>1, <1>2, QuietPreserves

(* A spool without a claim belongs to no message that was submitted. *)
LEMMA RecoverSpoolPreserves ==
  ASSUME SendInv, TypeOK', NEW p \in Procs, RecoverSpool(p)
  PROVE  SendInv'
<1> USE DEF RecoverSpool
<1>1. Frame(p) BY DEF Frame
<1>2. StoreInv'
 <2>1. SubmissionOnRecord'
   BY DEF StoreInv, ProcInv, Preparing, SubmissionOnRecord, ClaimNamesMessage,
      AtMostOneSubmission, Live
 <2>2. /\ ClaimNamesMessage' /\ ClaimFreezesDraft' /\ ReviewedOnly'
      /\ AtMostOneSubmission' /\ TornClaimHarmless' /\ CopiesAccepted'
      /\ ClaimArmed' /\ SingleMirrorCopy' /\ ReceiptTruthful'
   BY DEF StoreInv, ClaimNamesMessage, ClaimFreezesDraft, ReviewedOnly,
      AtMostOneSubmission, TornClaimHarmless, CopiesAccepted, ClaimArmed,
      SingleMirrorCopy, ReceiptTruthful, Witnessed, Copies, Live, Unsent, Open
 <2> QED BY <2>1, <2>2 DEF StoreInv
<1>3. lease = p /\ (doc = NoRev => doc' = NoRev) BY HasLease DEF Unleased
<1>4. ProcInv(p)'
 <2>1. CASE pc'[p] \in {"recover", "compose", "claim"}
  <3>1. lease' = p /\ pc'[p] \in {"recover", "compose", "claim"}
    BY <2>1, HasLease DEF Unleased
  <3>2. Preparing(p)' BY <2>1, <3>1 DEF StoreInv, ProcInv, Preparing
  <3> QED BY <3>1, <3>2, ArrivePreparing
 <2>2. CASE pc'[p] = "return" BY <2>2, ArriveResting
 <2> QED BY <2>1, <2>2
<1> QED BY <1>1, <1>2, <1>3, <1>4, HolderPreserves

(* The new message is composed from the reviewed content. *)
LEMMA PersistSpoolPreserves ==
  ASSUME SendInv, TypeOK', NEW p \in Procs, PersistSpool(p)
  PROVE  SendInv'
<1> USE DEF PersistSpool
<1>1. Frame(p) BY DEF Frame
<1>2. StoreInv'
 <2>1. ClaimNamesMessage'
   BY DEF StoreInv, ProcInv, Preparing, ClaimNamesMessage, Witnessed, Copies
 <2>2. ReviewedOnly' BY DEF StoreInv, ProcInv, Preparing, ReviewedOnly
 <2>3. SubmissionOnRecord'
   BY DEF StoreInv, ProcInv, Preparing, SubmissionOnRecord, ClaimNamesMessage,
      AtMostOneSubmission, Live
 <2>4. AtMostOneSubmission'
   BY DEF StoreInv, ProcInv, Preparing, AtMostOneSubmission, SubmissionOnRecord, Live
 <2>5. TornClaimHarmless'
   BY DEF StoreInv, ProcInv, Preparing, TornClaimHarmless, SubmissionOnRecord, Live
 <2>6. CopiesAccepted' BY DEF StoreInv, ProcInv, Preparing, CopiesAccepted, ClaimNamesMessage
 <2>7. ReceiptTruthful'
   BY DEF StoreInv, ProcInv, Preparing, ReceiptTruthful, ClaimNamesMessage, Witnessed,
      Copies
 <2>8. ClaimFreezesDraft' /\ ClaimArmed' /\ SingleMirrorCopy'
   BY DEF StoreInv, ClaimFreezesDraft, ClaimArmed, SingleMirrorCopy, Unsent, Open
 <2> QED BY <2>1, <2>2, <2>3, <2>4, <2>5, <2>6, <2>7, <2>8 DEF StoreInv
<1>3. lease = p /\ (doc = NoRev => doc' = NoRev) BY HasLease DEF Unleased
<1>4. ProcInv(p)'
 <2>1. lease' = p /\ pc'[p] \in {"recover", "compose", "claim"} BY HasLease DEF Unleased
 <2>2. Preparing(p)' BY <2>1 DEF StoreInv, ProcInv, Preparing
 <2> QED BY <2>1, <2>2, ArrivePreparing
<1> QED BY <1>1, <1>2, <1>3, <1>4, HolderPreserves

(* No message is out yet, so the first claim contradicts nothing. *)
LEMMA BeginAttemptPreserves ==
  ASSUME SendInv, TypeOK', NEW p \in Procs, BeginAttempt(p)
  PROVE  SendInv'
<1> USE DEF BeginAttempt
<1>1. Frame(p) BY DEF Frame
<1>2. StoreInv'
 <2>1. ClaimNamesMessage'
   BY DEF StoreInv, ProcInv, Preparing, ClaimNamesMessage, Witnessed, Copies
 <2>2. ClaimFreezesDraft'
   BY DEF StoreInv, ProcInv, Preparing, ClaimFreezesDraft, ClaimNamesMessage
 <2>3. SubmissionOnRecord'
   BY DEF StoreInv, ProcInv, Preparing, SubmissionOnRecord, ClaimNamesMessage,
      AtMostOneSubmission, Live
 <2>4. TornClaimHarmless'
   BY DEF StoreInv, ProcInv, Preparing, TornClaimHarmless, SubmissionOnRecord, Live
 <2>5. ClaimArmed'
  <3>1. /\ att[p].msg \in Msgs /\ mail[att[p].msg].st = "composed"
        /\ claim'.msg = att[p].msg BY DEF ProcInv, Preparing
  <3>2. Unsent(att[p].msg) BY <3>1 DEF StoreInv, CopiesAccepted, Unsent, Open
  <3> QED BY <3>1, <3>2 DEF ClaimArmed, Unsent, Open
 <2>6. ReceiptTruthful'
   BY DEF StoreInv, ProcInv, Preparing, ReceiptTruthful, ClaimNamesMessage, Witnessed,
      Copies
 <2>7. /\ ReviewedOnly' /\ AtMostOneSubmission' /\ CopiesAccepted'
      /\ SingleMirrorCopy'
   BY DEF StoreInv, ReviewedOnly, AtMostOneSubmission, CopiesAccepted, SingleMirrorCopy,
      Live, Open
 <2> QED BY <2>1, <2>2, <2>3, <2>4, <2>5, <2>6, <2>7 DEF StoreInv
<1>3. lease = p /\ (doc = NoRev => doc' = NoRev) BY HasLease DEF Unleased
<1>4. ProcInv(p)'
 <2>1. lease' = p /\ pc'[p] \in AttemptSteps BY HasLease DEF Unleased
 <2>2. Attempting(p)'
   BY <2>1 DEF StoreInv, ProcInv, Preparing, Attempting, ClaimNamesMessage,
      ClaimFreezesDraft
 <2>3. Submitting(p)' BY <2>1 DEF StoreInv, ProcInv, Preparing, Submitting, ClaimNamesMessage
 <2>4. Mirroring(p)'
   BY <2>1 DEF StoreInv, ProcInv, Preparing, Mirroring, ClaimNamesMessage, ClaimArmed,
      CopiesAccepted, Unsent, Open
 <2>5. Finishing(p)'
   BY <2>1 DEF StoreInv, ProcInv, Preparing, Finishing, ClaimNamesMessage,
      ClaimFreezesDraft, ReceiptTruthful, Witnessed, Copies
 <2> QED BY <2>1, <2>2, <2>3, <2>4, <2>5, ArriveAttempt
<1> QED BY <1>1, <1>2, <1>3, <1>4, HolderPreserves

(* Without a claim no message is out, so none needs the spool. *)
LEMMA BeginFailsPreserves ==
  ASSUME SendInv, TypeOK', NEW p \in Procs, BeginFails(p)
  PROVE  SendInv'
<1> USE DEF BeginFails
<1>1. Frame(p) BY DEF Frame
<1>2. StoreInv'
 <2>1. SubmissionOnRecord'
   BY DEF StoreInv, ProcInv, Preparing, SubmissionOnRecord, ClaimNamesMessage,
      AtMostOneSubmission, Live
 <2>2. /\ ClaimNamesMessage' /\ ClaimFreezesDraft' /\ ReviewedOnly'
      /\ AtMostOneSubmission' /\ TornClaimHarmless' /\ CopiesAccepted'
      /\ ClaimArmed' /\ SingleMirrorCopy' /\ ReceiptTruthful'
   BY DEF StoreInv, ClaimNamesMessage, ClaimFreezesDraft, ReviewedOnly,
      AtMostOneSubmission, TornClaimHarmless, CopiesAccepted, ClaimArmed,
      SingleMirrorCopy, ReceiptTruthful, Witnessed, Copies, Live, Unsent, Open
 <2> QED BY <2>1, <2>2 DEF StoreInv
<1>3. lease = p /\ (doc = NoRev => doc' = NoRev) BY HasLease DEF Unleased
<1>4. ProcInv(p)' BY ArriveResting
<1> QED BY <1>1, <1>2, <1>3, <1>4, HolderPreserves

(* The message is still only composed. *)
LEMMA SubmitFailsPreserves ==
  ASSUME SendInv, TypeOK', NEW p \in Procs, SubmitFails(p)
  PROVE  SendInv'
<1> USE DEF SubmitFails
<1>1. Frame(p) BY DEF Frame
<1>2. ProcInv(p)'
 <2>1. lease' = p /\ pc'[p] \in AttemptSteps BY HasLease DEF Unleased
 <2>2. Attempting(p)'
   BY <2>1 DEF StoreInv, ProcInv, Attempting, Submitting, ClaimNamesMessage,
      ClaimFreezesDraft
 <2>3. Submitting(p)' BY <2>1 DEF StoreInv, ProcInv, Attempting, Submitting, ClaimNamesMessage
 <2>4. Mirroring(p)'
   BY <2>1 DEF StoreInv, ProcInv, Attempting, Submitting, Mirroring, ClaimNamesMessage,
      ClaimArmed, CopiesAccepted, Unsent, Open
 <2>5. Finishing(p)'
   BY <2>1 DEF StoreInv, ProcInv, Attempting, Submitting, Finishing, ClaimNamesMessage,
      ClaimFreezesDraft, ReceiptTruthful, Witnessed, Copies
 <2> QED BY <2>1, <2>2, <2>3, <2>4, <2>5, ArriveAttempt
<1> QED BY <1>1, <1>2, QuietPreserves

(* The claim is durable and no other message is out. *)
LEMMA SubmitDataPreserves ==
  ASSUME SendInv, TypeOK', NEW p \in Procs, SubmitData(p)
  PROVE  SendInv'
<1> USE DEF SubmitData
<1>1. Frame(p) BY DEF Frame
<1>2. StoreInv'
 <2>1. ClaimNamesMessage'
   BY DEF StoreInv, ProcInv, Attempting, Submitting, ClaimNamesMessage, Witnessed, Copies
 <2>2. ReviewedOnly' BY DEF StoreInv, ProcInv, Attempting, Submitting, ReviewedOnly
 <2>3. SubmissionOnRecord'
   BY DEF StoreInv, ProcInv, Attempting, Submitting, SubmissionOnRecord,
      ClaimNamesMessage, AtMostOneSubmission, Live
 <2>4. AtMostOneSubmission'
   BY DEF StoreInv, ProcInv, Attempting, Submitting, AtMostOneSubmission,
      SubmissionOnRecord, Live
 <2>5. TornClaimHarmless'
   BY DEF StoreInv, ProcInv, Attempting, Submitting, TornClaimHarmless,
      SubmissionOnRecord, Live
 <2>6. CopiesAccepted'
   BY DEF StoreInv, ProcInv, Attempting, Submitting, CopiesAccepted, ClaimNamesMessage
 <2>7. ReceiptTruthful'
   BY DEF StoreInv, ProcInv, Attempting, Submitting, ReceiptTruthful, ClaimNamesMessage,
      Witnessed, Copies
 <2>8. ClaimFreezesDraft' /\ ClaimArmed' /\ SingleMirrorCopy'
   BY DEF StoreInv, ClaimFreezesDraft, ClaimArmed, SingleMirrorCopy, Unsent, Open
 <2> QED BY <2>1, <2>2, <2>3, <2>4, <2>5, <2>6, <2>7, <2>8 DEF StoreInv
<1>3. lease = p /\ (doc = NoRev => doc' = NoRev) BY HasLease DEF Unleased
<1>4. ProcInv(p)'
 <2>1. lease' = p /\ pc'[p] \in AttemptSteps BY <1>3, SMTT(20) DEF Unleased
 <2>2. Attempting(p)'
   BY <2>1 DEF StoreInv, ProcInv, Attempting, Submitting, ClaimNamesMessage,
      ClaimFreezesDraft
 <2>3. Submitting(p)' BY <2>1 DEF StoreInv, ProcInv, Attempting, Submitting, ClaimNamesMessage
 <2>4. Mirroring(p)'
   BY <2>1 DEF StoreInv, ProcInv, Attempting, Submitting, Mirroring, ClaimNamesMessage,
      ClaimArmed, CopiesAccepted, Unsent, Open
 <2>5. Finishing(p)'
   BY <2>1 DEF StoreInv, ProcInv, Attempting, Submitting, Finishing, ClaimNamesMessage,
      ClaimFreezesDraft, ReceiptTruthful, Witnessed, Copies
 <2> QED BY <2>1, <2>2, <2>3, <2>4, <2>5, ArriveAttempt
<1> QED BY <1>1, <1>2, <1>3, <1>4, HolderPreserves

(* The server has accepted the message of the attempt. *)
LEMMA ReplyAcceptedPreserves ==
  ASSUME SendInv, TypeOK', NEW p \in Procs, ReplyAccepted(p)
  PROVE  SendInv'
<1> USE DEF ReplyAccepted
<1>1. Frame(p) BY DEF Frame
<1>2. ProcInv(p)'
 <2>1. lease' = p /\ pc'[p] \in AttemptSteps BY HasLease DEF Unleased
 <2>2. Attempting(p)'
   BY <2>1 DEF StoreInv, ProcInv, Attempting, Submitting, ClaimNamesMessage,
      ClaimFreezesDraft
 <2>3. Submitting(p)' BY <2>1 DEF StoreInv, ProcInv, Attempting, Submitting, ClaimNamesMessage
 <2>4. Mirroring(p)'
   BY <2>1 DEF StoreInv, ProcInv, Attempting, Submitting, Mirroring, ClaimNamesMessage,
      ClaimArmed, CopiesAccepted, Unsent, Open
 <2>5. Finishing(p)'
   BY <2>1 DEF StoreInv, ProcInv, Attempting, Submitting, Finishing, ClaimNamesMessage,
      ClaimFreezesDraft, ReceiptTruthful, Witnessed, Copies
 <2> QED BY <2>1, <2>2, <2>3, <2>4, <2>5, ArriveAttempt
<1> QED BY <1>1, <1>2, QuietPreserves

(* The server has refused it. *)
LEMMA ReplyRefusedPreserves ==
  ASSUME SendInv, TypeOK', NEW p \in Procs, ReplyRefused(p)
  PROVE  SendInv'
<1> USE DEF ReplyRefused
<1>1. Frame(p) BY DEF Frame
<1>2. ProcInv(p)'
 <2>1. lease' = p /\ pc'[p] \in AttemptSteps BY HasLease DEF Unleased
 <2>2. Attempting(p)'
   BY <2>1 DEF StoreInv, ProcInv, Attempting, Submitting, ClaimNamesMessage,
      ClaimFreezesDraft
 <2>3. Submitting(p)' BY <2>1 DEF StoreInv, ProcInv, Attempting, Submitting, ClaimNamesMessage
 <2>4. Mirroring(p)'
   BY <2>1 DEF StoreInv, ProcInv, Attempting, Submitting, Mirroring, ClaimNamesMessage,
      ClaimArmed, CopiesAccepted, Unsent, Open
 <2>5. Finishing(p)'
   BY <2>1 DEF StoreInv, ProcInv, Attempting, Submitting, Finishing, ClaimNamesMessage,
      ClaimFreezesDraft, ReceiptTruthful, Witnessed, Copies
 <2> QED BY <2>1, <2>2, <2>3, <2>4, <2>5, ArriveAttempt
<1> QED BY <1>1, <1>2, QuietPreserves

(* The claim is written again as it was. *)
LEMMA ReplyLostPreserves ==
  ASSUME SendInv, TypeOK', NEW p \in Procs, ReplyLost(p)
  PROVE  SendInv'
<1> USE DEF ReplyLost
<1>1. Frame(p) BY DEF Frame
<1>2. StoreInv'
 <2>1. ClaimNamesMessage'
   BY DEF StoreInv, ProcInv, Attempting, Submitting, ClaimNamesMessage, Witnessed, Copies
 <2>2. ClaimFreezesDraft'
   BY DEF StoreInv, ProcInv, Attempting, Submitting, ClaimFreezesDraft, ClaimNamesMessage
 <2>3. SubmissionOnRecord'
   BY DEF StoreInv, ProcInv, Attempting, Submitting, SubmissionOnRecord,
      ClaimNamesMessage, AtMostOneSubmission, Live
 <2>4. TornClaimHarmless'
   BY DEF StoreInv, ProcInv, Attempting, Submitting, TornClaimHarmless,
      SubmissionOnRecord, Live
 <2>5. ClaimArmed'
   BY DEF StoreInv, ProcInv, Attempting, Submitting, ClaimArmed, CopiesAccepted, Unsent,
      Open
 <2>6. ReceiptTruthful'
   BY DEF StoreInv, ProcInv, Attempting, Submitting, ReceiptTruthful, ClaimNamesMessage,
      Witnessed, Copies
 <2>7. /\ ReviewedOnly' /\ AtMostOneSubmission' /\ CopiesAccepted'
      /\ SingleMirrorCopy'
   BY DEF StoreInv, ReviewedOnly, AtMostOneSubmission, CopiesAccepted, SingleMirrorCopy,
      Live, Open
 <2> QED BY <2>1, <2>2, <2>3, <2>4, <2>5, <2>6, <2>7 DEF StoreInv
<1>3. lease = p /\ (doc = NoRev => doc' = NoRev) BY HasLease DEF Unleased
<1>4. ProcInv(p)' BY ArriveResting
<1> QED BY <1>1, <1>2, <1>3, <1>4, HolderPreserves

(* A refused message needs no bytes. *)
LEMMA RejectSpoolPreserves ==
  ASSUME SendInv, TypeOK', NEW p \in Procs, RejectSpool(p)
  PROVE  SendInv'
<1> USE DEF RejectSpool
<1>1. Frame(p) BY DEF Frame
<1>2. StoreInv'
 <2>1. SubmissionOnRecord'
   BY DEF StoreInv, ProcInv, Attempting, Submitting, SubmissionOnRecord,
      ClaimNamesMessage, AtMostOneSubmission, Live
 <2>2. /\ ClaimNamesMessage' /\ ClaimFreezesDraft' /\ ReviewedOnly'
      /\ AtMostOneSubmission' /\ TornClaimHarmless' /\ CopiesAccepted'
      /\ ClaimArmed' /\ SingleMirrorCopy' /\ ReceiptTruthful'
   BY DEF StoreInv, ClaimNamesMessage, ClaimFreezesDraft, ReviewedOnly,
      AtMostOneSubmission, TornClaimHarmless, CopiesAccepted, ClaimArmed,
      SingleMirrorCopy, ReceiptTruthful, Witnessed, Copies, Live, Unsent, Open
 <2> QED BY <2>1, <2>2 DEF StoreInv
<1>3. lease = p /\ (doc = NoRev => doc' = NoRev) BY HasLease DEF Unleased
<1>4. ProcInv(p)'
 <2>1. lease' = p /\ pc'[p] \in AttemptSteps BY HasLease DEF Unleased
 <2>2. Attempting(p)'
   BY <2>1 DEF StoreInv, ProcInv, Attempting, Submitting, ClaimNamesMessage,
      ClaimFreezesDraft
 <2>3. Submitting(p)' BY <2>1 DEF StoreInv, ProcInv, Attempting, Submitting, ClaimNamesMessage
 <2>4. Mirroring(p)'
   BY <2>1 DEF StoreInv, ProcInv, Attempting, Submitting, Mirroring, ClaimNamesMessage,
      ClaimArmed, CopiesAccepted, Unsent, Open
 <2>5. Finishing(p)'
   BY <2>1 DEF StoreInv, ProcInv, Attempting, Submitting, Finishing, ClaimNamesMessage,
      ClaimFreezesDraft, ReceiptTruthful, Witnessed, Copies
 <2> QED BY <2>1, <2>2, <2>3, <2>4, <2>5, ArriveAttempt
<1> QED BY <1>1, <1>2, <1>3, <1>4, HolderPreserves

(* A refused message needs no claim. *)
LEMMA RejectClaimPreserves ==
  ASSUME SendInv, TypeOK', NEW p \in Procs, RejectClaim(p)
  PROVE  SendInv'
<1> USE DEF RejectClaim, NoClaim
<1>1. Frame(p) BY DEF Frame
<1>2. StoreInv'
 <2>1. ClaimNamesMessage'
   BY DEF StoreInv, ProcInv, Attempting, Submitting, ClaimNamesMessage, Witnessed, Copies
 <2>2. ClaimFreezesDraft'
   BY DEF StoreInv, ProcInv, Attempting, Submitting, ClaimFreezesDraft, ClaimNamesMessage
 <2>3. SubmissionOnRecord'
   BY DEF StoreInv, ProcInv, Attempting, Submitting, SubmissionOnRecord,
      ClaimNamesMessage, AtMostOneSubmission, Live
 <2>4. TornClaimHarmless'
   BY DEF StoreInv, ProcInv, Attempting, Submitting, TornClaimHarmless,
      SubmissionOnRecord, Live
 <2>5. ClaimArmed'
   BY DEF StoreInv, ProcInv, Attempting, Submitting, ClaimArmed, CopiesAccepted, Unsent,
      Open
 <2>6. ReceiptTruthful'
   BY DEF StoreInv, ProcInv, Attempting, Submitting, ReceiptTruthful, ClaimNamesMessage,
      Witnessed, Copies
 <2>7. /\ ReviewedOnly' /\ AtMostOneSubmission' /\ CopiesAccepted'
      /\ SingleMirrorCopy'
   BY DEF StoreInv, ReviewedOnly, AtMostOneSubmission, CopiesAccepted, SingleMirrorCopy,
      Live, Open
 <2> QED BY <2>1, <2>2, <2>3, <2>4, <2>5, <2>6, <2>7 DEF StoreInv
<1>3. lease = p /\ (doc = NoRev => doc' = NoRev) BY HasLease DEF Unleased
<1>4. ProcInv(p)' BY ArriveResting
<1> QED BY <1>1, <1>2, <1>3, <1>4, HolderPreserves

(* The claim is marked unknown before the APPEND. *)
LEMMA ArmPreserves ==
  ASSUME SendInv, TypeOK', NEW p \in Procs, Arm(p)
  PROVE  SendInv'
<1> USE DEF Arm
<1>1. Frame(p) BY DEF Frame
<1>2. StoreInv'
 <2>1. ClaimNamesMessage'
   BY DEF StoreInv, ProcInv, Attempting, Mirroring, ClaimNamesMessage, Witnessed, Copies
 <2>2. ClaimFreezesDraft'
   BY DEF StoreInv, ProcInv, Attempting, Mirroring, ClaimFreezesDraft, ClaimNamesMessage
 <2>3. SubmissionOnRecord'
   BY DEF StoreInv, ProcInv, Attempting, Mirroring, SubmissionOnRecord,
      ClaimNamesMessage, AtMostOneSubmission, Live
 <2>4. TornClaimHarmless'
   BY DEF StoreInv, ProcInv, Attempting, Mirroring, TornClaimHarmless,
      SubmissionOnRecord, Live
 <2>5. ClaimArmed'
   BY DEF StoreInv, ProcInv, Attempting, Mirroring, ClaimArmed, CopiesAccepted, Unsent,
      Open
 <2>6. ReceiptTruthful'
   BY DEF StoreInv, ProcInv, Attempting, Mirroring, ReceiptTruthful, ClaimNamesMessage,
      Witnessed, Copies
 <2>7. /\ ReviewedOnly' /\ AtMostOneSubmission' /\ CopiesAccepted'
      /\ SingleMirrorCopy'
   BY DEF StoreInv, ReviewedOnly, AtMostOneSubmission, CopiesAccepted, SingleMirrorCopy,
      Live, Open
 <2> QED BY <2>1, <2>2, <2>3, <2>4, <2>5, <2>6, <2>7 DEF StoreInv
<1>3. lease = p /\ (doc = NoRev => doc' = NoRev) BY HasLease DEF Unleased
<1>4. ProcInv(p)'
 <2>1. lease' = p /\ pc'[p] \in AttemptSteps BY HasLease DEF Unleased
 <2>2. Attempting(p)'
   BY <2>1 DEF StoreInv, ProcInv, Attempting, Mirroring, ClaimNamesMessage,
      ClaimFreezesDraft
 <2>3. Submitting(p)'
   BY <2>1 DEF StoreInv, ProcInv, Attempting, Mirroring, Submitting, ClaimNamesMessage
 <2>4. Mirroring(p)'
   BY <2>1 DEF StoreInv, ProcInv, Attempting, Mirroring, ClaimNamesMessage, ClaimArmed,
      CopiesAccepted, Unsent, Open
 <2>5. Finishing(p)'
   BY <2>1 DEF StoreInv, ProcInv, Attempting, Mirroring, Finishing, ClaimNamesMessage,
      ClaimFreezesDraft, ReceiptTruthful, Witnessed, Copies
 <2> QED BY <2>1, <2>2, <2>3, <2>4, <2>5, ArriveAttempt
<1> QED BY <1>1, <1>2, <1>3, <1>4, HolderPreserves

(* A copy found in Sent is of an accepted message. *)
LEMMA MirrorFoundPreserves ==
  ASSUME SendInv, TypeOK', NEW p \in Procs, MirrorFound(p)
  PROVE  SendInv'
<1> USE DEF MirrorFound, Mirrored
<1>1. Frame(p) BY DEF Frame
<1>2. ProcInv(p)'
 <2>1. lease' = p /\ pc'[p] \in AttemptSteps BY HasLease DEF Unleased
 <2>2. Attempting(p)'
   BY <2>1 DEF StoreInv, ProcInv, Attempting, Mirroring, ClaimNamesMessage,
      ClaimFreezesDraft
 <2>3. Submitting(p)'
   BY <2>1 DEF StoreInv, ProcInv, Attempting, Mirroring, Submitting, ClaimNamesMessage
 <2>4. Mirroring(p)'
   BY <2>1 DEF StoreInv, ProcInv, Attempting, Mirroring, ClaimNamesMessage, ClaimArmed,
      CopiesAccepted, Unsent, Open
 <2>5. Finishing(p)'
   BY SMTT(30), <2>1, AttemptNamed, CopyWitnessed DEF StoreInv, ProcInv, Attempting, Mirroring,
      Finishing, ClaimNamesMessage, ClaimFreezesDraft, ReceiptTruthful, Witnessed, Copies
 <2> QED BY <2>1, <2>2, <2>3, <2>4, <2>5, ArriveAttempt
<1> QED BY <1>1, <1>2, QuietPreserves

(* No APPEND was opened, so none is open. *)
LEMMA MirrorFailsPreserves ==
  ASSUME SendInv, TypeOK', NEW p \in Procs, MirrorFails(p)
  PROVE  SendInv'
<1> USE DEF MirrorFails
<1>1. Frame(p) BY DEF Frame
<1>2. ProcInv(p)'
 <2>1. lease' = p /\ pc'[p] \in AttemptSteps BY HasLease DEF Unleased
 <2>2. Attempting(p)'
   BY <2>1 DEF StoreInv, ProcInv, Attempting, Mirroring, ClaimNamesMessage,
      ClaimFreezesDraft
 <2>3. Submitting(p)'
   BY <2>1 DEF StoreInv, ProcInv, Attempting, Mirroring, Submitting, ClaimNamesMessage
 <2>4. Mirroring(p)'
   BY <2>1 DEF StoreInv, ProcInv, Attempting, Mirroring, ClaimNamesMessage, ClaimArmed,
      CopiesAccepted, Unsent, Open
 <2>5. Finishing(p)'
   BY <2>1 DEF StoreInv, ProcInv, Attempting, Mirroring, Finishing, ClaimNamesMessage,
      ClaimFreezesDraft, ReceiptTruthful, Witnessed, Copies
 <2> QED BY <2>1, <2>2, <2>3, <2>4, <2>5, ArriveAttempt
<1> QED BY <1>1, <1>2, QuietPreserves

(* The only open APPEND of the message. *)
LEMMA MirrorDataPreserves ==
  ASSUME SendInv, TypeOK', NEW p \in Procs, MirrorData(p)
  PROVE  SendInv'
<1> USE DEF MirrorData
<1>1. Frame(p) BY DEF Frame
<1>2. StoreInv'
 <2>1. ClaimNamesMessage'
   BY DEF StoreInv, ProcInv, Attempting, Mirroring, ClaimNamesMessage, Witnessed, Copies
 <2>2. CopiesAccepted'
   BY DEF StoreInv, ProcInv, Attempting, Mirroring, CopiesAccepted, ClaimNamesMessage
 <2>3. ClaimArmed'
   BY DEF StoreInv, ProcInv, Attempting, Mirroring, ClaimArmed, CopiesAccepted, Unsent,
      Open
 <2>4. SingleMirrorCopy'
   BY DEF StoreInv, ProcInv, Attempting, Mirroring, SingleMirrorCopy, Unsent, Open
 <2>5. ReceiptTruthful'
   BY DEF StoreInv, ProcInv, Attempting, Mirroring, ReceiptTruthful, ClaimNamesMessage,
      Witnessed, Copies
 <2>6. /\ ClaimFreezesDraft' /\ ReviewedOnly' /\ SubmissionOnRecord'
      /\ AtMostOneSubmission' /\ TornClaimHarmless'
   BY DEF StoreInv, ClaimFreezesDraft, ReviewedOnly, SubmissionOnRecord,
      AtMostOneSubmission, TornClaimHarmless, Live
 <2> QED BY <2>1, <2>2, <2>3, <2>4, <2>5, <2>6 DEF StoreInv
<1>3. lease = p /\ (doc = NoRev => doc' = NoRev) BY HasLease DEF Unleased
<1>4. ProcInv(p)'
 <2>1. lease' = p /\ pc'[p] \in AttemptSteps BY HasLease DEF Unleased
 <2>2. Attempting(p)'
   BY <2>1 DEF StoreInv, ProcInv, Attempting, Mirroring, ClaimNamesMessage,
      ClaimFreezesDraft
 <2>3. Submitting(p)'
   BY <2>1 DEF StoreInv, ProcInv, Attempting, Mirroring, Submitting, ClaimNamesMessage
 <2>4. Mirroring(p)'
   BY <2>1 DEF StoreInv, ProcInv, Attempting, Mirroring, ClaimNamesMessage, ClaimArmed,
      CopiesAccepted, Unsent, Open
 <2>5. Finishing(p)'
   BY <2>1 DEF StoreInv, ProcInv, Attempting, Mirroring, Finishing, ClaimNamesMessage,
      ClaimFreezesDraft, ReceiptTruthful, Witnessed, Copies
 <2> QED BY <2>1, <2>2, <2>3, <2>4, <2>5, ArriveAttempt
<1> QED BY <1>1, <1>2, <1>3, <1>4, HolderPreserves

(* The outcome is known, the claim still says unknown. *)
LEMMA AckOkPreserves ==
  ASSUME SendInv, TypeOK', NEW p \in Procs, AckOk(p)
  PROVE  SendInv'
<1> USE DEF AckOk
<1>1. Frame(p) BY DEF Frame
<1>2. ProcInv(p)'
 <2>1. lease' = p /\ pc'[p] \in AttemptSteps BY HasLease DEF Unleased
 <2>2. Attempting(p)'
   BY <2>1 DEF StoreInv, ProcInv, Attempting, Mirroring, ClaimNamesMessage,
      ClaimFreezesDraft
 <2>3. Submitting(p)'
   BY <2>1 DEF StoreInv, ProcInv, Attempting, Mirroring, Submitting, ClaimNamesMessage
 <2>4. Mirroring(p)'
   BY <2>1 DEF StoreInv, ProcInv, Attempting, Mirroring, ClaimNamesMessage, ClaimArmed,
      CopiesAccepted, Unsent, Open
 <2>5. Finishing(p)'
   BY <2>1 DEF StoreInv, ProcInv, Attempting, Mirroring, Finishing, ClaimNamesMessage,
      ClaimFreezesDraft, ReceiptTruthful, Witnessed, Copies
 <2> QED BY <2>1, <2>2, <2>3, <2>4, <2>5, ArriveAttempt
<1> QED BY <1>1, <1>2, QuietPreserves

(* The one APPEND was refused, so none is open. *)
LEMMA AckNoPreserves ==
  ASSUME SendInv, TypeOK', NEW p \in Procs, AckNo(p)
  PROVE  SendInv'
<1> USE DEF AckNo
<1>1. Frame(p) BY DEF Frame
<1>2. ProcInv(p)'
 <2>1. lease' = p /\ pc'[p] \in AttemptSteps BY HasLease DEF Unleased
 <2>2. Attempting(p)'
   BY <2>1 DEF StoreInv, ProcInv, Attempting, Mirroring, ClaimNamesMessage,
      ClaimFreezesDraft
 <2>3. Submitting(p)'
   BY <2>1 DEF StoreInv, ProcInv, Attempting, Mirroring, Submitting, ClaimNamesMessage
 <2>4. Mirroring(p)'
   BY <2>1 DEF StoreInv, ProcInv, Attempting, Mirroring, ClaimNamesMessage, ClaimArmed,
      CopiesAccepted, Unsent, Open
 <2>5. Finishing(p)'
   BY <2>1 DEF StoreInv, ProcInv, Attempting, Mirroring, Finishing, ClaimNamesMessage,
      ClaimFreezesDraft, ReceiptTruthful, Witnessed, Copies
 <2> QED BY <2>1, <2>2, <2>3, <2>4, <2>5, ArriveAttempt
<1> QED BY <1>1, <1>2, QuietPreserves

(* The attempt keeps its unknown outcome. *)
LEMMA AckLostPreserves ==
  ASSUME SendInv, TypeOK', NEW p \in Procs, AckLost(p)
  PROVE  SendInv'
<1> USE DEF AckLost
<1>1. Frame(p) BY DEF Frame
<1>2. ProcInv(p)'
 <2>1. lease' = p /\ pc'[p] \in AttemptSteps BY HasLease DEF Unleased
 <2>2. Attempting(p)'
   BY <2>1 DEF StoreInv, ProcInv, Attempting, Mirroring, ClaimNamesMessage,
      ClaimFreezesDraft
 <2>3. Submitting(p)'
   BY <2>1 DEF StoreInv, ProcInv, Attempting, Mirroring, Submitting, ClaimNamesMessage
 <2>4. Mirroring(p)'
   BY <2>1 DEF StoreInv, ProcInv, Attempting, Mirroring, ClaimNamesMessage, ClaimArmed,
      CopiesAccepted, Unsent, Open
 <2>5. Finishing(p)'
   BY <2>1 DEF StoreInv, ProcInv, Attempting, Mirroring, Finishing, ClaimNamesMessage,
      ClaimFreezesDraft, ReceiptTruthful, Witnessed, Copies
 <2> QED BY <2>1, <2>2, <2>3, <2>4, <2>5, ArriveAttempt
<1> QED BY <1>1, <1>2, QuietPreserves

(* A send goes on only with a copy found. *)
LEMMA ConfirmPreserves ==
  ASSUME SendInv, TypeOK', NEW p \in Procs, Confirm(p)
  PROVE  SendInv'
<1> USE DEF Confirm, Mirrored, OneCopy
<1>1. Frame(p) BY DEF Frame
<1>2. ProcInv(p)'
 <2>1. lease' = p /\ pc'[p] \in AttemptSteps BY HasLease DEF Unleased
 <2>2. Attempting(p)'
   BY <2>1 DEF StoreInv, ProcInv, Attempting, Mirroring, ClaimNamesMessage,
      ClaimFreezesDraft
 <2>3. Submitting(p)'
   BY <2>1 DEF StoreInv, ProcInv, Attempting, Mirroring, Submitting, ClaimNamesMessage
 <2>4. Mirroring(p)'
   BY <2>1 DEF StoreInv, ProcInv, Attempting, Mirroring, ClaimNamesMessage, ClaimArmed,
      CopiesAccepted, Unsent, Open
 <2>5. Finishing(p)'
   BY SMTT(30), <2>1, AttemptNamed, CopyWitnessed DEF StoreInv, ProcInv, Attempting, Mirroring,
      Finishing, ClaimNamesMessage, ClaimFreezesDraft, ReceiptTruthful, Witnessed, Copies
 <2> QED BY <2>1, <2>2, <2>3, <2>4, <2>5, ArriveAttempt
<1> QED BY <1>1, <1>2, QuietPreserves

(* The claim allows another APPEND only if none is open. *)
LEMMA RecordPreserves ==
  ASSUME SendInv, TypeOK', NEW p \in Procs, Record(p)
  PROVE  SendInv'
<1> USE DEF Record
<1>1. Frame(p) BY DEF Frame
<1>2. StoreInv'
 <2>1. ClaimNamesMessage'
   BY DEF StoreInv, ProcInv, Attempting, Mirroring, ClaimNamesMessage, Witnessed, Copies
 <2>2. ClaimFreezesDraft'
   BY DEF StoreInv, ProcInv, Attempting, Mirroring, ClaimFreezesDraft, ClaimNamesMessage
 <2>3. SubmissionOnRecord'
   BY DEF StoreInv, ProcInv, Attempting, Mirroring, SubmissionOnRecord,
      ClaimNamesMessage, AtMostOneSubmission, Live
 <2>4. TornClaimHarmless'
   BY DEF StoreInv, ProcInv, Attempting, Mirroring, TornClaimHarmless,
      SubmissionOnRecord, Live
 <2>5. ClaimArmed'
   BY DEF StoreInv, ProcInv, Attempting, Mirroring, ClaimArmed, CopiesAccepted, Unsent,
      Open
 <2>6. ReceiptTruthful'
   BY DEF StoreInv, ProcInv, Attempting, Mirroring, ReceiptTruthful, ClaimNamesMessage,
      Witnessed, Copies
 <2>7. /\ ReviewedOnly' /\ AtMostOneSubmission' /\ CopiesAccepted'
      /\ SingleMirrorCopy'
   BY DEF StoreInv, ReviewedOnly, AtMostOneSubmission, CopiesAccepted, SingleMirrorCopy,
      Live, Open
 <2> QED BY <2>1, <2>2, <2>3, <2>4, <2>5, <2>6, <2>7 DEF StoreInv
<1>3. lease = p /\ (doc = NoRev => doc' = NoRev) BY HasLease DEF Unleased
<1>4. ProcInv(p)' BY ArriveResting
<1> QED BY <1>1, <1>2, <1>3, <1>4, HolderPreserves

(* A terminal claim names a message with a copy in Sent. *)
LEMMA MarkSentPreserves ==
  ASSUME SendInv, TypeOK', NEW p \in Procs, MarkSent(p)
  PROVE  SendInv'
<1> USE DEF MarkSent
<1>1. Frame(p) BY DEF Frame
<1>2. StoreInv'
 <2>1. ClaimNamesMessage'
   BY DEF StoreInv, ProcInv, Attempting, Finishing, ClaimNamesMessage, Witnessed, Copies
 <2>2. ClaimFreezesDraft'
   BY DEF StoreInv, ProcInv, Attempting, Finishing, ClaimFreezesDraft, ClaimNamesMessage
 <2>3. SubmissionOnRecord'
   BY DEF StoreInv, ProcInv, Attempting, Finishing, SubmissionOnRecord,
      ClaimNamesMessage, AtMostOneSubmission, Live
 <2>4. TornClaimHarmless'
   BY DEF StoreInv, ProcInv, Attempting, Finishing, TornClaimHarmless,
      SubmissionOnRecord, Live
 <2>5. ClaimArmed'
   BY DEF StoreInv, ProcInv, Attempting, Finishing, ClaimArmed, CopiesAccepted, Unsent,
      Open
 <2>6. ReceiptTruthful'
   BY DEF StoreInv, ProcInv, Attempting, Finishing, ReceiptTruthful, ClaimNamesMessage,
      Witnessed, Copies
 <2>7. /\ ReviewedOnly' /\ AtMostOneSubmission' /\ CopiesAccepted'
      /\ SingleMirrorCopy'
   BY DEF StoreInv, ReviewedOnly, AtMostOneSubmission, CopiesAccepted, SingleMirrorCopy,
      Live, Open
 <2> QED BY <2>1, <2>2, <2>3, <2>4, <2>5, <2>6, <2>7 DEF StoreInv
<1>3. lease = p /\ (doc = NoRev => doc' = NoRev) BY HasLease DEF Unleased
<1>4. ProcInv(p)'
 <2>1. lease' = p /\ pc'[p] \in AttemptSteps BY HasLease DEF Unleased
 <2>2. Attempting(p)'
   BY <2>1 DEF StoreInv, ProcInv, Attempting, Finishing, ClaimNamesMessage,
      ClaimFreezesDraft
 <2>3. Submitting(p)'
   BY <2>1 DEF StoreInv, ProcInv, Attempting, Finishing, Submitting, ClaimNamesMessage
 <2>4. Mirroring(p)'
   BY <2>1 DEF StoreInv, ProcInv, Attempting, Finishing, Mirroring, ClaimNamesMessage,
      ClaimArmed, CopiesAccepted, Unsent, Open
 <2>5. Finishing(p)'
   BY <2>1 DEF StoreInv, ProcInv, Attempting, Finishing, ClaimNamesMessage,
      ClaimFreezesDraft, ReceiptTruthful, Witnessed, Copies
 <2> QED BY <2>1, <2>2, <2>3, <2>4, <2>5, ArriveAttempt
<1> QED BY <1>1, <1>2, <1>3, <1>4, HolderPreserves

(* The receipt says what the terminal claim says. *)
LEMMA EnsureReceiptPreserves ==
  ASSUME SendInv, TypeOK', NEW p \in Procs, EnsureReceipt(p)
  PROVE  SendInv'
<1> USE DEF EnsureReceipt, Derived
<1>1. Frame(p) BY DEF Frame
<1>2. StoreInv'
 <2>1. ReceiptTruthful'
   BY DEF StoreInv, ProcInv, Attempting, Finishing, ReceiptTruthful, ClaimNamesMessage,
      Witnessed, Copies
 <2>2. /\ ClaimNamesMessage' /\ ClaimFreezesDraft' /\ ReviewedOnly'
      /\ SubmissionOnRecord' /\ AtMostOneSubmission' /\ TornClaimHarmless'
      /\ CopiesAccepted' /\ ClaimArmed' /\ SingleMirrorCopy'
   BY DEF StoreInv, ClaimNamesMessage, ClaimFreezesDraft, ReviewedOnly,
      SubmissionOnRecord, AtMostOneSubmission, TornClaimHarmless, CopiesAccepted,
      ClaimArmed, SingleMirrorCopy, Witnessed, Copies, Live, Unsent, Open
 <2> QED BY <2>1, <2>2 DEF StoreInv
<1>3. lease = p /\ (doc = NoRev => doc' = NoRev) BY HasLease DEF Unleased
<1>4. ProcInv(p)'
 <2>1. CASE pc'[p] = "remove"
  <3>1. lease' = p /\ pc'[p] = "remove" BY <2>1, HasLease DEF Unleased
  <3>2. Finishing(p)'
    BY <2>1, <3>1 DEF StoreInv, ProcInv, Attempting, Finishing, ClaimNamesMessage,
       ClaimFreezesDraft, ReceiptTruthful, Witnessed, Copies
  <3> QED BY <3>1, <3>2, ArriveRemove
 <2>2. CASE pc'[p] = "return" BY <2>2, ArriveResting
 <2> QED BY <2>1, <2>2
<1> QED BY <1>1, <1>2, <1>3, <1>4, HolderPreserves

(* Without a draft nothing that protects it is needed. *)
LEMMA RemoveDocPreserves ==
  ASSUME SendInv, TypeOK', NEW p \in Procs, RemoveDoc(p)
  PROVE  SendInv'
<1> USE DEF RemoveDoc
<1>1. Frame(p) BY DEF Frame
<1>2. StoreInv'
 <2>1. ClaimFreezesDraft'
   BY DEF StoreInv, ProcInv, Finishing, ClaimFreezesDraft, ClaimNamesMessage
 <2>2. SubmissionOnRecord'
   BY DEF StoreInv, ProcInv, Finishing, SubmissionOnRecord, ClaimNamesMessage,
      AtMostOneSubmission, Live
 <2>3. TornClaimHarmless'
   BY DEF StoreInv, ProcInv, Finishing, TornClaimHarmless, SubmissionOnRecord, Live
 <2>4. ClaimArmed'
   BY DEF StoreInv, ProcInv, Finishing, ClaimArmed, CopiesAccepted, Unsent, Open
 <2>5. ReceiptTruthful'
   BY DEF StoreInv, ProcInv, Finishing, ReceiptTruthful, ClaimNamesMessage, Witnessed,
      Copies
 <2>6. /\ ClaimNamesMessage' /\ ReviewedOnly' /\ AtMostOneSubmission'
      /\ CopiesAccepted' /\ SingleMirrorCopy'
   BY DEF StoreInv, ClaimNamesMessage, ReviewedOnly, AtMostOneSubmission, CopiesAccepted,
      SingleMirrorCopy, Witnessed, Copies, Live, Open
 <2> QED BY <2>1, <2>2, <2>3, <2>4, <2>5, <2>6 DEF StoreInv
<1>3. lease = p /\ (doc = NoRev => doc' = NoRev) BY HasLease DEF Unleased
<1>4. ProcInv(p)'
 <2>1. lease' = p BY <1>3
 <2>2. doc' = NoRev /\ pc'[p] \in {"claims", "unlock"} OBVIOUS
 <2> QED BY <2>1, <2>2, ArriveCleanup
<1> QED BY <1>1, <1>2, <1>3, <1>4, HolderPreserves

(* A receipt without a claim cannot exist beside a draft. *)
LEMMA ReconcileUnclaimedPreserves ==
  ASSUME SendInv, TypeOK', NEW p \in Procs, ReconcileUnclaimed(p)
  PROVE  SendInv'
<1> USE DEF ReconcileUnclaimed, ReceiptActive
<1>1. Frame(p) BY DEF Frame
<1>2. ProcInv(p)'
 <2>1. CASE pc'[p] = "remove"
  <3>1. lease' = p /\ pc'[p] = "remove" BY <2>1, HasLease DEF Unleased
  <3>2. Finishing(p)'
    BY <2>1, <3>1 DEF StoreInv, ProcInv, Finishing, ClaimNamesMessage,
       ClaimFreezesDraft, ReceiptTruthful, Witnessed, Copies
  <3> QED BY <3>1, <3>2, ArriveRemove
 <2>2. CASE pc'[p] = "return" BY <2>2, ArriveResting
 <2> QED BY <2>1, <2>2
<1> QED BY <1>1, <1>2, QuietPreserves

(* A reconciliation reads the attempt from its claim. *)
LEMMA ReconcileClaimedPreserves ==
  ASSUME SendInv, TypeOK', NEW p \in Procs, ReconcileClaimed(p)
  PROVE  SendInv'
<1> USE DEF ReconcileClaimed
<1>1. Frame(p) BY DEF Frame
<1>2. ProcInv(p)'
 <2>1. lease' = p /\ pc'[p] \in AttemptSteps BY HasLease DEF Unleased
 <2>2. Attempting(p)'
   BY <2>1 DEF StoreInv, ProcInv, Attempting, ClaimNamesMessage, ClaimFreezesDraft
 <2>3. Submitting(p)' BY <2>1 DEF StoreInv, ProcInv, Submitting, ClaimNamesMessage
 <2>4. Mirroring(p)'
   BY <2>1 DEF StoreInv, ProcInv, Mirroring, ClaimNamesMessage, ClaimArmed,
      CopiesAccepted, Unsent, Open
 <2>5. Finishing(p)'
   BY <2>1 DEF StoreInv, ProcInv, Finishing, ClaimNamesMessage, ClaimFreezesDraft,
      ReceiptTruthful, Witnessed, Copies
 <2> QED BY <2>1, <2>2, <2>3, <2>4, <2>5, ArriveAttempt
<1> QED BY <1>1, <1>2, QuietPreserves

(* A verified copy proves that the message was accepted. *)
LEMMA SearchUnknownPreserves ==
  ASSUME SendInv, TypeOK', NEW p \in Procs, SearchUnknown(p)
  PROVE  SendInv'
<1> USE DEF SearchUnknown
<1>1. Frame(p) BY DEF Frame
<1>2. ProcInv(p)'
 <2>1. CASE pc'[p] \in AttemptSteps
  <3>1. lease' = p /\ pc'[p] \in AttemptSteps BY <2>1, HasLease DEF Unleased
  <3>2. Attempting(p)'
    BY <2>1, <3>1 DEF StoreInv, ProcInv, Attempting, ClaimNamesMessage,
       ClaimFreezesDraft
  <3>3. Submitting(p)'
    BY <2>1, <3>1 DEF StoreInv, ProcInv, Attempting, Submitting, ClaimNamesMessage
  <3>4. Mirroring(p)'
    BY SMTT(30), <2>1, <3>1 DEF StoreInv, ProcInv, Attempting, Mirroring, ClaimNamesMessage,
       ClaimArmed, CopiesAccepted, Unsent, Open
  <3>5. Finishing(p)'
    BY SMTT(30), <2>1, <3>1, AttemptNamed, VerifiedWitnessed DEF StoreInv, ProcInv, Attempting,
       Finishing, ClaimNamesMessage, ClaimFreezesDraft, ReceiptTruthful, Witnessed,
       Copies
  <3> QED BY <3>1, <3>2, <3>3, <3>4, <3>5, ArriveAttempt
 <2>2. CASE pc'[p] = "return" BY <2>2, ArriveResting
 <2> QED BY <2>1, <2>2
<1> QED BY <1>1, <1>2, QuietPreserves

(* Another APPEND is armed only when none is open. *)
LEMMA SearchPendingPreserves ==
  ASSUME SendInv, TypeOK', NEW p \in Procs, SearchPending(p)
  PROVE  SendInv'
<1> USE DEF SearchPending
<1>1. Frame(p) BY DEF Frame
<1>2. ProcInv(p)'
 <2>1. CASE pc'[p] \in AttemptSteps
  <3>1. lease' = p /\ pc'[p] \in AttemptSteps BY <2>1, HasLease DEF Unleased
  <3>2. Attempting(p)'
    BY <2>1, <3>1 DEF StoreInv, ProcInv, Attempting, Mirroring, ClaimNamesMessage,
       ClaimFreezesDraft
  <3>3. Submitting(p)'
    BY <2>1, <3>1 DEF StoreInv, ProcInv, Attempting, Mirroring, Submitting,
       ClaimNamesMessage
  <3>4. Mirroring(p)'
    BY <2>1, <3>1 DEF StoreInv, ProcInv, Attempting, Mirroring, ClaimNamesMessage,
       ClaimArmed, CopiesAccepted, Unsent, Open
  <3>5. Finishing(p)'
    BY SMTT(30), <2>1, <3>1, AttemptNamed, VerifiedWitnessed DEF StoreInv, ProcInv, Attempting,
       Mirroring, Finishing, ClaimNamesMessage, ClaimFreezesDraft, ReceiptTruthful,
       Witnessed, Copies
  <3> QED BY <3>1, <3>2, <3>3, <3>4, <3>5, ArriveAttempt
 <2>2. CASE pc'[p] = "return" BY <2>2, ArriveResting
 <2> QED BY <2>1, <2>2
<1> QED BY <1>1, <1>2, QuietPreserves

(* A verified copy proves that the message was accepted. *)
LEMMA AdoptPreserves ==
  ASSUME SendInv, TypeOK', NEW p \in Procs, Adopt(p)
  PROVE  SendInv'
<1> USE DEF Adopt
<1>1. Frame(p) BY DEF Frame
<1>2. ProcInv(p)'
 <2>1. CASE pc'[p] \in AttemptSteps
  <3>1. lease' = p /\ pc'[p] \in AttemptSteps BY <2>1, HasLease DEF Unleased
  <3>2. Attempting(p)'
    BY <2>1, <3>1 DEF StoreInv, ProcInv, Attempting, ClaimNamesMessage,
       ClaimFreezesDraft
  <3>3. Submitting(p)'
    BY <2>1, <3>1 DEF StoreInv, ProcInv, Attempting, Submitting, ClaimNamesMessage
  <3>4. Mirroring(p)'
    BY <2>1, <3>1 DEF StoreInv, ProcInv, Attempting, Mirroring, ClaimNamesMessage,
       ClaimArmed, CopiesAccepted, Unsent, Open
  <3>5. Finishing(p)'
    BY SMTT(30), <2>1, <3>1, AttemptNamed, VerifiedWitnessed DEF StoreInv, ProcInv, Attempting,
       Finishing, ClaimNamesMessage, ClaimFreezesDraft, ReceiptTruthful, Witnessed,
       Copies
  <3> QED BY <3>1, <3>2, <3>3, <3>4, <3>5, ArriveAttempt
 <2>2. CASE pc'[p] = "return" BY <2>2, ArriveResting
 <2> QED BY <2>1, <2>2
<1> QED BY <1>1, <1>2, QuietPreserves

(* Content changes only without a claim. *)
LEMMA UpdateWritePreserves ==
  ASSUME SendInv, TypeOK', NEW p \in Procs, UpdateWrite(p)
  PROVE  SendInv'
<1> USE DEF UpdateWrite
<1>1. Frame(p) BY DEF Frame
<1>2. StoreInv'
 <2>1. ClaimFreezesDraft' BY DEF StoreInv, ProcInv, ClaimFreezesDraft, ClaimNamesMessage
 <2>2. SubmissionOnRecord'
   BY DEF StoreInv, ProcInv, SubmissionOnRecord, ClaimNamesMessage, AtMostOneSubmission,
      Live
 <2>3. TornClaimHarmless'
   BY DEF StoreInv, ProcInv, TornClaimHarmless, SubmissionOnRecord, Live
 <2>4. ClaimArmed' BY DEF StoreInv, ProcInv, ClaimArmed, CopiesAccepted, Unsent, Open
 <2>5. ReceiptTruthful'
   BY DEF StoreInv, ProcInv, ReceiptTruthful, ClaimNamesMessage, Witnessed, Copies
 <2>6. /\ ClaimNamesMessage' /\ ReviewedOnly' /\ AtMostOneSubmission'
      /\ CopiesAccepted' /\ SingleMirrorCopy'
   BY DEF StoreInv, ClaimNamesMessage, ReviewedOnly, AtMostOneSubmission, CopiesAccepted,
      SingleMirrorCopy, Witnessed, Copies, Live, Open
 <2> QED BY <2>1, <2>2, <2>3, <2>4, <2>5, <2>6 DEF StoreInv
<1>3. lease = p /\ (doc = NoRev => doc' = NoRev) BY HasLease DEF Unleased
<1>4. ProcInv(p)' BY ArriveResting
<1> QED BY <1>1, <1>2, <1>3, <1>4, HolderPreserves

(* Only a draft without a claim is pruned. *)
LEMMA PrunePreserves ==
  ASSUME SendInv, TypeOK', NEW p \in Procs, Prune(p)
  PROVE  SendInv'
<1> USE DEF Prune
<1>1. Frame(p) BY DEF Frame
<1>2. ProcInv(p)'
 <2>1. CASE pc'[p] = "remove"
  <3>1. lease' = p /\ pc'[p] = "remove" BY <2>1, HasLease DEF Unleased
  <3>2. Finishing(p)'
    BY <2>1, <3>1 DEF StoreInv, ProcInv, Requested, Ops, Finishing, ClaimNamesMessage,
       ClaimFreezesDraft, ReceiptTruthful, Witnessed, Copies
  <3> QED BY <3>1, <3>2, ArriveRemove
 <2>2. CASE pc'[p] = "return" BY <2>2, ArriveResting
 <2> QED BY <2>1, <2>2
<1> QED BY <1>1, <1>2, QuietPreserves

(* A receipt expires only without a draft. *)
LEMMA ExpirePreserves ==
  ASSUME SendInv, TypeOK', NEW p \in Procs, Expire(p)
  PROVE  SendInv'
<1> USE DEF Expire
<1>1. Frame(p) BY DEF Frame
<1>2. ProcInv(p)'
 <2>1. CASE pc'[p] \in {"claims", "claimsEnd", "unlock", "dropReceipt", "sweepSpool", "missing"}
  <3>1. lease' = p BY HasLease DEF Unleased
  <3>2. doc' = NoRev /\ pc'[p] = "claims" BY <2>1
  <3> QED BY <3>1, <3>2, ArriveCleanup
 <2>2. CASE pc'[p] = "return" BY <2>2, ArriveResting
 <2> QED BY <2>1, <2>2
<1> QED BY <1>1, <1>2, QuietPreserves

(* Claims are swept only without a draft. *)
LEMMA SweepPreserves ==
  ASSUME SendInv, TypeOK', NEW p \in Procs, Sweep(p)
  PROVE  SendInv'
<1> USE DEF Sweep, NoClaim
<1>1. Frame(p) BY DEF Frame
<1>2. StoreInv'
 <2>1. ClaimNamesMessage'
   BY DEF StoreInv, ProcInv, CleanupWithoutDraft, ClaimNamesMessage, Witnessed, Copies
 <2>2. ClaimFreezesDraft'
   BY DEF StoreInv, ProcInv, CleanupWithoutDraft, ClaimFreezesDraft, ClaimNamesMessage
 <2>3. SubmissionOnRecord'
   BY DEF StoreInv, ProcInv, CleanupWithoutDraft, SubmissionOnRecord, ClaimNamesMessage,
      AtMostOneSubmission, Live
 <2>4. TornClaimHarmless'
   BY DEF StoreInv, ProcInv, CleanupWithoutDraft, TornClaimHarmless, SubmissionOnRecord,
      Live
 <2>5. ClaimArmed'
   BY DEF StoreInv, ProcInv, CleanupWithoutDraft, ClaimArmed, CopiesAccepted, Unsent,
      Open
 <2>6. ReceiptTruthful'
   BY DEF StoreInv, ProcInv, CleanupWithoutDraft, ReceiptTruthful, ClaimNamesMessage,
      Witnessed, Copies
 <2>7. /\ ReviewedOnly' /\ AtMostOneSubmission' /\ CopiesAccepted'
      /\ SingleMirrorCopy'
   BY DEF StoreInv, ReviewedOnly, AtMostOneSubmission, CopiesAccepted, SingleMirrorCopy,
      Live, Open
 <2> QED BY <2>1, <2>2, <2>3, <2>4, <2>5, <2>6, <2>7 DEF StoreInv
<1>3. lease = p /\ (doc = NoRev => doc' = NoRev) BY HasLease DEF Unleased
<1>4. ProcInv(p)'
 <2>1. CASE pc'[p] \in {"claims", "claimsEnd", "unlock", "dropReceipt", "sweepSpool", "missing"}
  <3>1. lease' = p BY <1>3
  <3>2. doc' = NoRev /\ pc'[p] = "sweepSpool" BY <2>1
  <3> QED BY <3>1, <3>2, ArriveCleanup
 <2>2. CASE pc'[p] = "return" BY <2>2, ArriveResting
 <2> QED BY <2>1, <2>2
<1> QED BY <1>1, <1>2, <1>3, <1>4, HolderPreserves

(* An operation that ends leaves the others alone. *)
LEMMA FinishFrame ==
  ASSUME TypeOK, NEW p \in Procs, Finish(p)
  PROVE  Frame(p)
<1> SUFFICES ASSUME NEW q \in Procs \ {p}
             PROVE  pc'[q] = pc[q] /\ req'[q] = req[q] /\ att'[q] = att[q] /\ cmd'[q] = cmd[q]
  BY DEF Frame
<1> QED BY DEF Finish, TypeOK

(* A torn claim is a first claim, so no message is out. *)
LEMMA TearClaimPreserves ==
  ASSUME SendInv, TypeOK', NEW p \in Procs, TearClaim(p)
  PROVE  SendInv'
<1>1. Frame(p) BY FinishFrame DEF TearClaim, SendInv
<1> USE DEF TearClaim, TornClaim, NoClaim, Finish
<1>2. StoreInv'
 <2>1. ClaimNamesMessage'
   BY DEF StoreInv, ProcInv, Preparing, ClaimNamesMessage, Witnessed, Copies
 <2>2. ClaimFreezesDraft'
   BY DEF StoreInv, ProcInv, Preparing, ClaimFreezesDraft, ClaimNamesMessage
 <2>3. SubmissionOnRecord'
   BY DEF StoreInv, ProcInv, Preparing, SubmissionOnRecord, ClaimNamesMessage,
      AtMostOneSubmission, Live
 <2>4. TornClaimHarmless'
   BY DEF StoreInv, ProcInv, Preparing, TornClaimHarmless, SubmissionOnRecord, Live
 <2>5. ClaimArmed'
   BY DEF StoreInv, ProcInv, Preparing, ClaimArmed, CopiesAccepted, Unsent, Open
 <2>6. ReceiptTruthful'
   BY DEF StoreInv, ProcInv, Preparing, ReceiptTruthful, ClaimNamesMessage, Witnessed,
      Copies
 <2>7. /\ ReviewedOnly' /\ AtMostOneSubmission' /\ CopiesAccepted'
      /\ SingleMirrorCopy'
   BY DEF StoreInv, ReviewedOnly, AtMostOneSubmission, CopiesAccepted, SingleMirrorCopy,
      Live, Open
 <2> QED BY <2>1, <2>2, <2>3, <2>4, <2>5, <2>6, <2>7 DEF StoreInv
<1>3. lease = p /\ (doc = NoRev => doc' = NoRev) BY HasLease DEF Unleased
<1>4. ProcInv(p)' BY ArriveResting
<1> QED BY <1>1, <1>2, <1>3, <1>4, HolderPreserves

(* A torn receipt testifies to nothing. *)
LEMMA TearReceiptPreserves ==
  ASSUME SendInv, TypeOK', NEW p \in Procs, TearReceipt(p)
  PROVE  SendInv'
<1>1. Frame(p) BY FinishFrame DEF TearReceipt, SendInv
<1> USE DEF TearReceipt, TornReceipt, NoReceipt, Finish
<1>2. StoreInv'
 <2>1. ReceiptTruthful'
   BY DEF StoreInv, ProcInv, Attempting, Finishing, ReceiptTruthful, ClaimNamesMessage,
      Witnessed, Copies
 <2> HIDE DEF TypeOK, Attempt
 <2>2. /\ ClaimNamesMessage' /\ ClaimFreezesDraft' /\ ReviewedOnly'
      /\ SubmissionOnRecord' /\ AtMostOneSubmission' /\ TornClaimHarmless'
      /\ CopiesAccepted' /\ ClaimArmed' /\ SingleMirrorCopy'
   BY DEF StoreInv, ClaimNamesMessage, ClaimFreezesDraft, ReviewedOnly,
      SubmissionOnRecord, AtMostOneSubmission, TornClaimHarmless, CopiesAccepted,
      ClaimArmed, SingleMirrorCopy, Witnessed, Copies, Live, Unsent, Open
 <2> QED BY <2>1, <2>2 DEF StoreInv
<1>3. lease = p /\ (doc = NoRev => doc' = NoRev) BY HasLease DEF Unleased
<1>4. ProcInv(p)' BY ArriveResting
<1> QED BY <1>1, <1>2, <1>3, <1>4, HolderPreserves

(* The process has the lease at its first step. *)
LEMMA AcquirePreserves ==
  ASSUME SendInv, TypeOK', NEW p \in Procs, Acquire(p)
  PROVE  SendInv'
<1> USE DEF Acquire
<1>1. Frame(p) BY DEF Frame
<1>2. ProcInv(p)' BY ArriveStart
<1> QED BY <1>1, <1>2, QuietPreserves

HIDE DEF SendInv, TypeOK, Attempt, AttemptSteps

-----------------------------------------------------------------------------
(* The steps of nobody's process. *)

(* The verdict on a message changes only a submitted one. *)
LEMMA SmtpDecidePreserves ==
  ASSUME SendInv, TypeOK', NEW m \in Msgs, SmtpDecide(m)
  PROVE  SendInv'
<1> USE DEF SmtpDecide
<1>1. \A n \in Msgs : Live(n)' => Live(n) BY DEF Live, SendInv, TypeOK
<1>2. \A n \in Msgs : /\ mail'[n].rev = mail[n].rev /\ mail'[n].approved = mail[n].approved
                      /\ mail[n].st # "data" => mail'[n].st = mail[n].st
                      /\ mail[n].st = "data" => mail'[n].st \in {"data", "accepted", "refused"}
  BY DEF SendInv, TypeOK
<1>3. StoreInv'
 <2> USE <1>1, <1>2 DEF SendInv, StoreInv, TypeOK
 <2>1. ClaimNamesMessage' /\ ReviewedOnly' /\ ClaimFreezesDraft'
   BY DEF Attempt, ClaimNamesMessage, ReviewedOnly, ClaimFreezesDraft, Witnessed, Copies
 <2>2. SubmissionOnRecord' /\ AtMostOneSubmission' /\ TornClaimHarmless'
   BY DEF SubmissionOnRecord, AtMostOneSubmission, TornClaimHarmless
 <2>3. CopiesAccepted' /\ ClaimArmed' /\ SingleMirrorCopy'
   BY DEF CopiesAccepted, ClaimArmed, SingleMirrorCopy, Unsent, Open
 <2>4. ReceiptTruthful' BY DEF ReceiptTruthful, Copies
 <2> QED BY <2>1, <2>2, <2>3, <2>4
<1>4. ASSUME NEW q \in Procs PROVE ProcInv(q)'
 <2>1. ProcInv(q) BY DEF SendInv
 <2>2. att[q].msg \in Msgs \/ pc[q] \notin AttemptSteps \cup {"claim"}
   BY <2>1, AttemptNamed DEF ProcInv, Preparing
 <2>3. LeaseHeld(q)' /\ Requested(q)' /\ CleanupWithoutDraft(q)' /\ Attempting(q)'
   BY <2>1 DEF ProcInv, LeaseHeld, Requested, CleanupWithoutDraft, Attempting
 <2>4. Preparing(q)' /\ Submitting(q)'
   BY <1>2, <2>1, <2>2 DEF ProcInv, Preparing, Submitting, AttemptSteps
 <2>5. Mirroring(q)' /\ Finishing(q)'
   BY <1>2, <2>1, <2>2 DEF ProcInv, Mirroring, Finishing, AttemptSteps, Unsent, Open,
      Witnessed, Copies
 <2> QED BY <2>3, <2>4, <2>5 DEF ProcInv
<1> QED BY <1>3, <1>4 DEF SendInv

(* A copy more in Sent only adds to what witnesses an accepted message. *)
LEMMA MoreCopiesPreserve ==
  ASSUME SendInv, TypeOK', UNCHANGED <<disk, lease, mail, pc, local>>,
         CopiesAccepted',
         \A m \in Msgs : Copies(m) \subseteq Copies(m)',
         \A a \in Appends, m \in Msgs : Open(a, m)' => Open(a, m),
         \A a \in Appends : apnd'[a].msg = apnd[a].msg /\ (apnd[a].st # "new" => apnd'[a].st # "new")
  PROVE  SendInv'
<1>1. \A m \in Msgs : Unsent(m) => Unsent(m)' BY DEF Unsent
<1>2. StoreInv'
 <2> USE DEF SendInv, StoreInv, TypeOK
 <2>1. ClaimNamesMessage' /\ ReceiptTruthful'
   BY DEF Attempt, ClaimNamesMessage, ReceiptTruthful, Witnessed
 <2>2. ClaimArmed' /\ SingleMirrorCopy'
  <3>1. ClaimArmed' BY <1>1 DEF ClaimArmed, ClaimNamesMessage
  <3>2. SingleMirrorCopy' BY DEF SingleMirrorCopy, Open, CopiesAccepted
  <3> QED BY <3>1, <3>2
 <2>3. /\ ClaimFreezesDraft' /\ ReviewedOnly' /\ SubmissionOnRecord' /\ AtMostOneSubmission'
       /\ TornClaimHarmless'
   BY DEF ClaimFreezesDraft, ReviewedOnly, SubmissionOnRecord, AtMostOneSubmission,
      TornClaimHarmless, Live
 <2> QED BY <2>1, <2>2, <2>3
<1>3. ASSUME NEW q \in Procs PROVE ProcInv(q)'
 <2>1. ProcInv(q) BY DEF SendInv
 <2>2. att[q].msg \in Msgs \/ pc[q] \notin AttemptSteps BY AttemptNamed
 <2>3. LeaseHeld(q)' /\ Requested(q)' /\ CleanupWithoutDraft(q)' /\ Attempting(q)'
   BY <2>1 DEF ProcInv, LeaseHeld, Requested, CleanupWithoutDraft, Attempting
 <2>4. Preparing(q)' /\ Submitting(q)' BY <2>1 DEF ProcInv, Preparing, Submitting
 <2>5. Mirroring(q)' BY <1>1, <2>1, <2>2 DEF ProcInv, Mirroring, AttemptSteps
 <2>6. Finishing(q)' BY <2>1, <2>2 DEF ProcInv, Finishing, Witnessed, AttemptSteps
 <2> QED BY <2>3, <2>4, <2>5, <2>6 DEF ProcInv
<1> QED BY <1>2, <1>3 DEF SendInv

(* The provider files accepted messages only. *)
LEMMA ProviderFilePreserves ==
  ASSUME SendInv, TypeOK', NEW m \in Msgs, ProviderFile(m)
  PROVE  SendInv'
<1> USE DEF ProviderFile
<1>1. CopiesAccepted' BY DEF SendInv, StoreInv, CopiesAccepted
<1>2. \A n \in Msgs : Copies(n) \subseteq Copies(n)' BY DEF Copies
<1> QED BY <1>1, <1>2, MoreCopiesPreserve DEF Open

(* The verdict on an APPEND opens no other one. *)
LEMMA AppendDecidePreserves ==
  ASSUME SendInv, TypeOK', NEW a \in Appends, AppendDecide(a)
  PROVE  SendInv'
<1> USE DEF AppendDecide
<1>1. \A b \in Appends : /\ apnd'[b].msg = apnd[b].msg
                         /\ b # a => apnd'[b].st = apnd[b].st
                         /\ apnd'[a].st \in {"applied", "refused"} BY DEF SendInv, TypeOK
<1>2. CopiesAccepted' BY <1>1 DEF SendInv, StoreInv, CopiesAccepted
<1>3. \A m \in Msgs : Copies(m) \subseteq Copies(m)' BY <1>1 DEF Copies
<1>4. \A b \in Appends, m \in Msgs : Open(b, m)' => Open(b, m) BY <1>1 DEF Open
<1> QED BY <1>1, <1>2, <1>3, <1>4, MoreCopiesPreserve

(* The end of the retention changes no file, a stutter nothing. *)
LEMMA PassivePreserves ==
  ASSUME SendInv, TypeOK', RetentionEnds \/ UNCHANGED vars
  PROVE  SendInv'
<1>1. UNCHANGED <<disk, servers, lease, pc, local>> BY DEF RetentionEnds, vars
<1>2. CopiesAccepted' BY <1>1 DEF SendInv, StoreInv, CopiesAccepted
<1>3. \A m \in Msgs : Copies(m) \subseteq Copies(m)' BY <1>1 DEF Copies
<1> QED BY <1>1, <1>2, <1>3, MoreCopiesPreserve DEF Open
-----------------------------------------------------------------------------
(* A fresh draft without claim, spool and receipt. *)
LEMMA InitInv == Init => SendInv
<1> SUFFICES ASSUME Init PROVE SendInv OBVIOUS
<1> USE DEF Init
<1>1. TypeOK BY InitTyped
<1>2. StoreInv
  BY DEF StoreInv, ClaimNamesMessage, ClaimFreezesDraft, ReviewedOnly, SubmissionOnRecord,
     AtMostOneSubmission, TornClaimHarmless, CopiesAccepted, ClaimArmed, SingleMirrorCopy,
     ReceiptTruthful, NoClaim, NoReceipt, Live
<1>3. \A p \in Procs : ProcInv(p)
  BY DEF ProcInv, LeaseHeld, Requested, Unleased, CleanupWithoutDraft, Preparing, Attempting,
     AttemptSteps, Submitting, Mirroring, Finishing, Ops
<1> QED BY <1>1, <1>2, <1>3 DEF SendInv

(* The steps of an operation. *)
LEMMA RunPreserves ==
  ASSUME SendInv, TypeOK', NEW p \in Procs, Run(p)
  PROVE  SendInv'
<1>1. CASE SendStep(p)
  BY <1>1, CleanupPreserves, RestingPreserves, SendReplayPreserves, SendPreparePreserves,
     RecoverSpoolPreserves, PersistSpoolPreserves, BeginAttemptPreserves, BeginFailsPreserves,
     SubmitFailsPreserves, SubmitDataPreserves, ReplyAcceptedPreserves, ReplyRefusedPreserves,
     ReplyLostPreserves, RejectSpoolPreserves, RejectClaimPreserves DEF SendStep
<1>2. CASE MirrorStep(p)
  BY <1>2, ArmPreserves, MirrorFoundPreserves, MirrorFailsPreserves, MirrorDataPreserves,
     AckOkPreserves, AckNoPreserves, AckLostPreserves, ConfirmPreserves, RecordPreserves
     DEF MirrorStep
<1>3. CASE FinishStep(p)
  BY <1>3, MarkSentPreserves, EnsureReceiptPreserves, RemoveDocPreserves, CleanupPreserves
     DEF FinishStep
<1>4. CASE ReconcileStep(p)
  BY <1>4, CleanupPreserves, ReconcileUnclaimedPreserves, ReconcileClaimedPreserves,
     SearchUnknownPreserves, SearchPendingPreserves, AdoptPreserves DEF ReconcileStep
<1>5. CASE OtherStep(p)
  BY <1>5, CleanupPreserves, RestingPreserves, UpdateWritePreserves, PrunePreserves,
     ExpirePreserves, SweepPreserves DEF OtherStep
<1> QED BY <1>1, <1>2, <1>3, <1>4, <1>5 DEF Run

(* SendInv is inductive. *)
LEMMA NextPreserves == SendInv /\ [Next]_vars => SendInv'
<1> SUFFICES ASSUME SendInv, [Next]_vars PROVE SendInv' OBVIOUS
<1>1. TypeOK' BY NextTyped DEF SendInv
<1>2. ASSUME NEW p \in Procs,
             Request(p) \/ Acquire(p) \/ Run(p) \/ Release(p) \/ Interrupted(p)
      PROVE  SendInv'
  BY <1>1, <1>2, RestingPreserves, AcquirePreserves, RunPreserves, TearClaimPreserves,
     TearReceiptPreserves DEF Interrupted
<1>3. CASE Server
  BY <1>1, <1>3, SmtpDecidePreserves, ProviderFilePreserves, AppendDecidePreserves DEF Server
<1>4. CASE RetentionEnds \/ UNCHANGED vars BY <1>1, <1>4, PassivePreserves
<1> QED BY <1>2, <1>3, <1>4 DEF Next
-----------------------------------------------------------------------------
(* The invariant holds of every run of SendDraft, ReconcileDraft,          *)
(* UpdateDraft, DiscardDraft and PruneDrafts, whatever stops them.         *)
THEOREM SendInvariant == Spec => []SendInv
<1>1. Init => SendInv BY InitInv
<1>2. SendInv /\ [Next]_vars => SendInv' BY NextPreserves
<1> QED BY <1>1, <1>2, PTL DEF Spec

(* SendDraft never has two messages of a draft in the hands of the SMTP    *)
(* server, however often it is repeated, stopped or raced.                 *)
THEOREM SubmittedOnce == Spec => []AtMostOneSubmission
<1>1. SendInv => AtMostOneSubmission BY DEF SendInv, StoreInv
<1> QED BY <1>1, SendInvariant, PTL

(* What may be delivered is on record in the claim of its draft, with its  *)
(* bytes (beginSendAttempt, removeSendAttempt).                            *)
THEOREM SubmissionRecorded == Spec => []SubmissionOnRecord
<1>1. SendInv => SubmissionOnRecord BY DEF SendInv, StoreInv
<1> QED BY <1>1, SendInvariant, PTL

(* Only content the caller reviewed is submitted (requireDraftRevision).   *)
THEOREM OnlyReviewedSubmitted == Spec => []SubmittedAsReviewed
<1>1. SendInv => SubmittedAsReviewed
  BY DEF SendInv, StoreInv, ReviewedOnly, SubmittedAsReviewed
<1> QED BY <1>1, SendInvariant, PTL

(* A claimed draft keeps its content (rejectClaimedDraft).                 *)
THEOREM ClaimedFrozen == Spec => []ClaimFreezesDraft
<1>1. SendInv => ClaimFreezesDraft BY DEF SendInv, StoreInv
<1> QED BY <1>1, SendInvariant, PTL

(* At most one copy is put into Sent by mirror and reconciliation          *)
(* (persistMirrorAttemptBeforeDispatch, reconcileMirrorPending).           *)
THEOREM MirroredOnce == Spec => []SingleMirrorCopy
<1>1. SendInv => SingleMirrorCopy BY DEF SendInv, StoreInv
<1> QED BY <1>1, SendInvariant, PTL

(* Receipts tell the truth (ensureSendReceipt, finishObservedSend).        *)
THEOREM ReceiptsTrue == Spec => []ReceiptTruthful
<1>1. SendInv => ReceiptTruthful BY DEF SendInv, StoreInv
<1> QED BY <1>1, SendInvariant, PTL

(* A claim torn by a stop hides no submission (writePrivateDraftFile).     *)
THEOREM TornHarmless == Spec => []TornClaimHarmless
<1>1. SendInv => TornClaimHarmless BY DEF SendInv, StoreInv
<1> QED BY <1>1, SendInvariant, PTL

(***************************************************************************)
(* What no step of the life of a draft may do: lose the draft silently,    *)
(* take evidence back, exchange or drop a receipt. The first two follow    *)
(* from SendInv; a receipt needs ExpiryInv besides, that an operation      *)
(* drops one only after it found it expired.                               *)
(***************************************************************************)

USE DEF Finish

(* The files other than the draft document change in these actions only. *)
LEMMA DocWriters ==
  ASSUME TypeOK, [Next]_vars, doc # NoRev, doc' = NoRev
  PROVE  \E p \in Procs : RemoveDoc(p)
<1>1. ASSUME NEW p \in Procs, Run(p) PROVE RemoveDoc(p)
 <2>1. ~SendStep(p)
   BY DEF SendStep, SendMissing, SendRefused, SendReplay, SendPrepare, RecoverSpool,
      PersistSpool, PersistFails, BeginAttempt, BeginFails, SubmitFails, SubmitData,
      ReplyAccepted, ReplyRefused, ReplyLost, RejectSpool, RejectClaim
 <2>2. ~MirrorStep(p)
   BY DEF MirrorStep, Arm, MirrorFound, MirrorFails, MirrorData, AckOk, AckNo, AckLost,
      Confirm, Record
 <2>3. FinishStep(p) => RemoveDoc(p)
   BY DEF FinishStep, MarkSent, EnsureReceipt, RemoveClaims, RemoveClaim, Unlock
 <2>4. ~ReconcileStep(p)
   BY DEF ReconcileStep, ReconcileMissing, ReconcileConsumed, ReconcileUnclaimed,
      ReconcileClaimed, SearchUnknown, SearchPending, Adopt
 <2>5. ~OtherStep(p)
   BY DEF OtherStep, MutateMissing, UpdateRefused, UpdateWrite, Prune, Expire, DropReceipt,
      Sweep, SweepSpool
 <2> QED BY <1>1, <2>1, <2>2, <2>3, <2>4, <2>5 DEF Run
<1>2. ASSUME NEW p \in Procs, Request(p) \/ Acquire(p) \/ Release(p) \/ Interrupted(p)
      PROVE  FALSE
  BY <1>2 DEF Request, Acquire, Release, Interrupted, Stop, TearClaim, TearReceipt
<1>3. ~Server /\ ~RetentionEnds /\ ~UNCHANGED vars
  BY DEF Server, SmtpDecide, ProviderFile, AppendDecide, RetentionEnds, vars
<1> QED BY <1>1, <1>2, <1>3 DEF Next

(* A claim changes in these actions only. *)
ClaimWriter(p) ==
  \/ BeginAttempt(p) \/ ReplyLost(p) \/ RejectClaim(p) \/ Arm(p) \/ Record(p) \/ MarkSent(p)
  \/ RemoveClaim(p) \/ Sweep(p) \/ TearClaim(p)

(* No other action writes the claim. *)
LEMMA ClaimWriters ==
  ASSUME [Next]_vars, claim' # claim
  PROVE  \E p \in Procs : ClaimWriter(p)
<1> USE DEF ClaimWriter
<1>1. ASSUME NEW p \in Procs, Run(p) PROVE ClaimWriter(p)
 <2>1. SendStep(p) => ClaimWriter(p)
   BY DEF SendStep, SendMissing, SendRefused, SendReplay, SendPrepare, RecoverSpool,
      PersistSpool, PersistFails, BeginFails, SubmitFails, SubmitData, ReplyAccepted,
      ReplyRefused, RejectSpool
 <2>2. MirrorStep(p) => ClaimWriter(p)
   BY DEF MirrorStep, MirrorFound, MirrorFails, MirrorData, AckOk, AckNo, AckLost, Confirm
 <2>3. FinishStep(p) => ClaimWriter(p)
   BY DEF FinishStep, EnsureReceipt, RemoveDoc, RemoveClaims, Unlock
 <2>4. ~ReconcileStep(p)
   BY DEF ReconcileStep, ReconcileMissing, ReconcileConsumed, ReconcileUnclaimed,
      ReconcileClaimed, SearchUnknown, SearchPending, Adopt
 <2>5. OtherStep(p) => ClaimWriter(p)
   BY DEF OtherStep, MutateMissing, UpdateRefused, UpdateWrite, Prune, Expire, DropReceipt,
      SweepSpool
 <2> QED BY <1>1, <2>1, <2>2, <2>3, <2>4, <2>5 DEF Run
<1>2. ASSUME NEW p \in Procs, Request(p) \/ Acquire(p) \/ Release(p) \/ Interrupted(p)
      PROVE  ClaimWriter(p)
  BY <1>2 DEF Request, Acquire, Release, Interrupted, Stop, TearReceipt
<1>3. ~Server /\ ~RetentionEnds /\ ~UNCHANGED vars
  BY DEF Server, SmtpDecide, ProviderFile, AppendDecide, RetentionEnds, vars
<1> QED BY <1>1, <1>2, <1>3 DEF Next

(* A receipt changes in these actions only. *)
LEMMA ReceiptWriters ==
  ASSUME [Next]_vars, receipt' # receipt
  PROVE  \E p \in Procs : EnsureReceipt(p) \/ TearReceipt(p) \/ DropReceipt(p)
<1>1. ASSUME NEW p \in Procs, Run(p) PROVE EnsureReceipt(p) \/ DropReceipt(p)
 <2>1. ~SendStep(p)
   BY DEF SendStep, SendMissing, SendRefused, SendReplay, SendPrepare, RecoverSpool,
      PersistSpool, PersistFails, BeginAttempt, BeginFails, SubmitFails, SubmitData,
      ReplyAccepted, ReplyRefused, ReplyLost, RejectSpool, RejectClaim
 <2>2. ~MirrorStep(p)
   BY DEF MirrorStep, Arm, MirrorFound, MirrorFails, MirrorData, AckOk, AckNo, AckLost,
      Confirm, Record
 <2>3. FinishStep(p) => EnsureReceipt(p)
   BY DEF FinishStep, MarkSent, RemoveDoc, RemoveClaims, RemoveClaim, Unlock
 <2>4. ~ReconcileStep(p)
   BY DEF ReconcileStep, ReconcileMissing, ReconcileConsumed, ReconcileUnclaimed,
      ReconcileClaimed, SearchUnknown, SearchPending, Adopt
 <2>5. OtherStep(p) => DropReceipt(p)
   BY DEF OtherStep, MutateMissing, UpdateRefused, UpdateWrite, Prune, Expire, Sweep,
      SweepSpool
 <2> QED BY <1>1, <2>1, <2>2, <2>3, <2>4, <2>5 DEF Run
<1>2. ASSUME NEW p \in Procs, Request(p) \/ Acquire(p) \/ Release(p) \/ Interrupted(p)
      PROVE  TearReceipt(p)
  BY <1>2 DEF Request, Acquire, Release, Interrupted, Stop, TearClaim
<1>3. ~Server /\ ~RetentionEnds /\ ~UNCHANGED vars
  BY DEF Server, SmtpDecide, ProviderFile, AppendDecide, RetentionEnds, vars
<1> QED BY <1>1, <1>2, <1>3 DEF Next
-----------------------------------------------------------------------------
(* The removal of the draft document has one of the allowed reasons. *)
LEMMA StepLosesNothing ==
  ASSUME SendInv, [Next]_vars, doc # NoRev, doc' = NoRev
  PROVE  \/ req[lease].op = "discard"
         \/ req[lease].op = "prune" /\ claim.outcome = "none"
         \/ receipt.st = "kept" /\ receipt.rev = doc /\ mail[receipt.msg].st = "accepted"
<1>1. PICK p \in Procs : RemoveDoc(p) BY DocWriters DEF SendInv
<1>2. pc[p] \in {"discard", "remove"} BY <1>1 DEF RemoveDoc
<1>3. lease = p BY <1>2, HasLease DEF Unleased
<1>4. CASE pc[p] = "discard" BY <1>3, <1>4 DEF SendInv, ProcInv, Requested, Ops
<1>5. CASE pc[p] = "remove"
  BY <1>3, <1>5 DEF SendInv, StoreInv, ProcInv, Finishing, ReceiptTruthful
<1> QED BY <1>2, <1>4, <1>5

(* A draft disappears by discard, by pruning an unclaimed draft, or after  *)
(* a durable receipt of its content (discardDraftFiles).                   *)
THEOREM NothingLostSilently == Spec => NoSilentLoss
<1>1. SendInv /\ [Next]_vars =>
        [doc # NoRev /\ doc' = NoRev =>
           \/ req[lease].op = "discard"
           \/ req[lease].op = "prune" /\ claim.outcome = "none"
           \/ receipt.st = "kept" /\ receipt.rev = doc /\ mail[receipt.msg].st = "accepted"]_vars
  BY StepLosesNothing
<1> QED BY <1>1, SendInvariant, PTL DEF Spec, NoSilentLoss

-----------------------------------------------------------------------------
(* Each writer of the claim keeps its message and its rank. *)
LEMMA StepKeepsEvidence ==
  ASSUME SendInv, [Next]_vars, Claimed
  PROVE  IF Rank(claim'.outcome) = 0
         THEN doc = NoRev \/ ~Live(claim.msg)
         ELSE claim'.msg = claim.msg /\ Rank(claim'.outcome) >= Rank(claim.outcome)
<1> USE DEF Rank
<1>1. CASE claim' = claim BY <1>1
<1>2. CASE claim' # claim
 <2>1. PICK p \in Procs : ClaimWriter(p) BY <1>2, ClaimWriters
 <2> USE DEF SendInv, TypeOK, Attempt, AttemptSteps
 <2>2. ~BeginAttempt(p) /\ ~TearClaim(p) BY DEF BeginAttempt, TearClaim
 <2>3. CASE ReplyLost(p) BY <2>3 DEF ReplyLost, ProcInv, Submitting
 <2>4. CASE RejectClaim(p)
   BY <2>4 DEF RejectClaim, NoClaim, ProcInv, Attempting, Submitting, Live
 <2>5. CASE Arm(p) \/ Record(p) BY <2>5 DEF Arm, Record, ProcInv, Attempting, Mirroring
 <2>6. CASE MarkSent(p) BY <2>6 DEF MarkSent, ProcInv, Attempting
 <2>7. CASE RemoveClaim(p) \/ Sweep(p)
   BY <2>7 DEF RemoveClaim, Sweep, ProcInv, CleanupWithoutDraft, NoClaim
 <2> QED BY <2>1, <2>2, <2>3, <2>4, <2>5, <2>6, <2>7 DEF ClaimWriter
<1> QED BY <1>1, <1>2

(* Evidence of an attempt only grows while the draft exists                *)
(* (replaceSendAttempt, removeSendAttempt).                                *)
THEOREM EvidenceGrows == Spec => EvidenceMonotone
<1>1. SendInv /\ [Next]_vars =>
        [Claimed =>
           IF Rank(claim'.outcome) = 0
           THEN doc = NoRev \/ ~Live(claim.msg)
           ELSE claim'.msg = claim.msg /\ Rank(claim'.outcome) >= Rank(claim.outcome)]_vars
  BY StepKeepsEvidence
<1> QED BY <1>1, SendInvariant, PTL DEF Spec, EvidenceMonotone

-----------------------------------------------------------------------------
(* An operation other than prune's receipt expiry never drops a receipt,   *)
(* and that one only goes on once it found the retention over.             *)
ExpiryInv ==
  \A p \in Procs :
    /\ pc[p] = "dropReceipt" => req[p].op = "expire"
    /\ req[p].op = "expire" =>
         pc[p] \in {"idle", "wait", "expire", "claims", "claimsEnd", "dropReceipt", "unlock",
                    "return"}
    /\ req[p].op = "expire" /\ pc[p] \in {"claims", "claimsEnd", "dropReceipt"} => expired

(* ExpiryInv is inductive, relative to SendInv. *)
LEMMA ExpirySteps ==
  ASSUME SendInv, ExpiryInv, [Next]_vars
  PROVE  ExpiryInv'
<1>1. ASSUME NEW p \in Procs, \A q \in Procs \ {p} : pc'[q] = pc[q] /\ req'[q] = req[q],
             expired' = expired,
             \/ pc'[p] \in {"idle", "wait", "return", "unlock"}
             \/ pc'[p] \in Ops /\ pc'[p] = req'[p].op
             \/ req'[p].op # "expire" /\ pc'[p] # "dropReceipt"
             \/ req'[p].op = "expire" /\ pc'[p] \in {"claims", "claimsEnd", "dropReceipt"} /\ expired
      PROVE  ExpiryInv' BY <1>1 DEF ExpiryInv, Ops
<1> USE DEF SendInv, TypeOK
<1>2. ASSUME NEW p \in Procs, Run(p) PROVE ExpiryInv'
 <2>1. req' = req /\ expired' = expired /\ \A q \in Procs \ {p} : pc'[q] = pc[q]
  <3>1. CASE SendStep(p)
    BY <3>1 DEF SendStep, SendMissing, SendRefused, SendReplay, SendPrepare, RecoverSpool,
       PersistSpool, PersistFails, BeginAttempt, BeginFails, SubmitFails, SubmitData,
       ReplyAccepted, ReplyRefused, ReplyLost, RejectSpool, RejectClaim
  <3>2. CASE MirrorStep(p)
    BY <3>2 DEF MirrorStep, Arm, MirrorFound, MirrorFails, MirrorData, AckOk, AckNo,
       AckLost, Confirm, Record, Mirrored
  <3>3. CASE FinishStep(p)
    BY <3>3 DEF FinishStep, MarkSent, EnsureReceipt, RemoveDoc, RemoveClaims, RemoveClaim,
       Unlock
  <3>4. CASE ReconcileStep(p)
    BY <3>4 DEF ReconcileStep, ReconcileMissing, ReconcileConsumed, ReconcileUnclaimed,
       ReconcileClaimed, SearchUnknown, SearchPending, Adopt
  <3>5. CASE OtherStep(p)
    BY <3>5 DEF OtherStep, MutateMissing, UpdateRefused, UpdateWrite, Prune, Expire,
       DropReceipt, Sweep, SweepSpool
  <3> QED BY <1>2, <3>1, <3>2, <3>3, <3>4, <3>5 DEF Run
 <2>2. CASE req[p].op # "expire"
  <3>1. pc[p] # "dropReceipt" /\ pc[p] # "expire"
    BY <2>2 DEF ExpiryInv, ProcInv, Requested, Ops
  <3>2. pc'[p] # "dropReceipt"
    BY <1>2, <2>2, <3>1 DEF Run, SendStep, SendMissing, SendRefused, SendReplay, SendPrepare,
       RecoverSpool, PersistSpool, PersistFails, BeginAttempt, BeginFails, SubmitFails,
       SubmitData, ReplyAccepted, ReplyRefused, ReplyLost, RejectSpool, RejectClaim,
       MirrorStep, Arm, MirrorFound, MirrorFails, MirrorData, AckOk, AckNo, AckLost, Confirm,
       Record, Mirrored, FinishStep, MarkSent, EnsureReceipt, RemoveDoc, RemoveClaims,
       RemoveClaim, AfterClaims, Unlock, ReconcileStep, ReconcileMissing, ReconcileConsumed,
       ReconcileUnclaimed, ReconcileClaimed, SearchUnknown, SearchPending, Adopt, OtherStep,
       MutateMissing, UpdateRefused, UpdateWrite, Prune, Expire, DropReceipt, Sweep, SweepSpool
  <3> QED BY <1>1, <2>1, <2>2, <3>2
 <2>3. CASE req[p].op = "expire"
  <3>1. pc[p] \in {"idle", "wait", "expire", "claims", "claimsEnd", "dropReceipt", "unlock",
                   "return"} BY <2>3 DEF ExpiryInv
  <3>2. Expire(p) \/ RemoveClaims(p) \/ RemoveClaim(p) \/ DropReceipt(p) \/ Unlock(p)
   <4>1. ~SendStep(p) /\ ~MirrorStep(p)
     BY <3>1 DEF SendStep, SendMissing, SendRefused, SendReplay, SendPrepare, RecoverSpool,
        PersistSpool, PersistFails, BeginAttempt, BeginFails, SubmitFails, SubmitData,
        ReplyAccepted, ReplyRefused, ReplyLost, RejectSpool, RejectClaim, MirrorStep, Arm,
        MirrorFound, MirrorFails, MirrorData, AckOk, AckNo, AckLost, Confirm, Record
   <4>2. ~MarkSent(p) /\ ~EnsureReceipt(p) /\ ~RemoveDoc(p) /\ ~Sweep(p) /\ ~SweepSpool(p)
     BY <3>1 DEF MarkSent, EnsureReceipt, RemoveDoc, Sweep, SweepSpool
   <4>3. ~MutateMissing(p) /\ ~UpdateRefused(p) /\ ~UpdateWrite(p) /\ ~Prune(p)
     BY <3>1 DEF MutateMissing, UpdateRefused, UpdateWrite, Prune
   <4>4. ~ReconcileStep(p)
     BY <3>1 DEF ReconcileStep, ReconcileMissing, ReconcileConsumed, ReconcileUnclaimed,
        ReconcileClaimed, SearchUnknown, SearchPending, Adopt
   <4> QED BY <1>2, <4>1, <4>2, <4>3, <4>4 DEF Run, FinishStep, OtherStep
  <3>3. \/ pc'[p] \in {"unlock", "return"}
        \/ pc'[p] \in {"claims", "claimsEnd", "dropReceipt"} /\ expired
    BY <2>3, <3>2 DEF Expire, RemoveClaims, RemoveClaim, AfterClaims, DropReceipt, Unlock,
       ExpiryInv
  <3> QED BY <1>1, <2>1, <2>3, <3>3
 <2> QED BY <2>2, <2>3
<1>3. ASSUME NEW p \in Procs, Request(p) \/ Acquire(p) \/ Release(p) \/ Interrupted(p)
      PROVE  ExpiryInv'
 <2>1. /\ expired' = expired
       /\ \A q \in Procs \ {p} : pc'[q] = pc[q] /\ req'[q] = req[q]
       /\ \/ pc'[p] \in {"idle", "wait"}
          \/ pc'[p] \in Ops /\ pc'[p] = req'[p].op
   BY <1>3 DEF Request, Acquire, Release, Interrupted, Stop, TearClaim, TearReceipt
 <2> QED BY <1>1, <2>1
<1>4. CASE Server \/ UNCHANGED vars
  BY <1>4 DEF ExpiryInv, Server, SmtpDecide, ProviderFile, AppendDecide, vars
<1>5. CASE RetentionEnds BY <1>5 DEF ExpiryInv, RetentionEnds
<1> QED BY <1>2, <1>3, <1>4, <1>5 DEF Next

(* Dropping a receipt is expiry, and follows its test under the lease (pruneExpiredSendReceiptOnce). *)
THEOREM ExpiryInvariant == Spec => []ExpiryInv
<1>1. Init => ExpiryInv BY DEF Init, ExpiryInv, NoRequest
<1>2. SendInv /\ ExpiryInv /\ [Next]_vars => ExpiryInv' BY ExpirySteps
<1> QED BY <1>1, <1>2, SendInvariant, PTL DEF Spec

(* Only DropReceipt changes a kept receipt. *)
LEMMA StepKeepsReceipt ==
  ASSUME SendInv, ExpiryInv, [Next]_vars, receipt.st = "kept", receipt' # receipt
  PROVE  receipt' = NoReceipt /\ expired /\ doc = NoRev
<1>1. PICK p \in Procs : EnsureReceipt(p) \/ TearReceipt(p) \/ DropReceipt(p)
  BY ReceiptWriters
<1>2. receipt # NoReceipt BY DEF NoReceipt
<1>3. ~EnsureReceipt(p) BY <1>2 DEF EnsureReceipt
<1>4. ~TearReceipt(p) BY <1>2 DEF TearReceipt
<1>5. DropReceipt(p) BY <1>1, <1>3, <1>4
<1> QED BY <1>5 DEF DropReceipt, ExpiryInv, SendInv, ProcInv, CleanupWithoutDraft

(* A receipt is immutable until its retention ends, and dropped only when  *)
(* no draft is left (persistSendReceipt, pruneExpiredSendReceiptOnce).     *)
THEOREM ReceiptsKept == Spec => ReceiptImmutable
<1>1. SendInv /\ ExpiryInv /\ [Next]_vars =>
        [receipt.st = "kept" /\ receipt' # receipt =>
           receipt' = NoReceipt /\ expired /\ doc = NoRev]_vars BY StepKeepsReceipt
<1> QED BY <1>1, SendInvariant, ExpiryInvariant, PTL DEF Spec, ReceiptImmutable

(***************************************************************************)
(* The files and the servers implement the promise (DraftPromise): a step  *)
(* that touches the document, the claim, a message at the SMTP server or   *)
(* an APPEND is one step of the promise or none.  SendInv supplies what    *)
(* the promise's guards ask for, that nothing was submitted when an        *)
(* attempt is taken back, that the message is alone at the server, and     *)
(* that no copy of it is under way when another one is offered.            *)
(***************************************************************************)

(* The actions of a process that touch what the promise speaks of. *)
Effect(p) ==
  \/ ClaimWriter(p) \/ RemoveDoc(p) \/ UpdateWrite(p)
  \/ PersistSpool(p) \/ SubmitData(p) \/ MirrorData(p)

(* Every other step leaves the document, the claim and the exchanges alone. *)
LEMMA EffectSteps ==
  ASSUME [Next]_vars
  PROVE  \/ UNCHANGED <<doc, claim, mail, apnd>>
         \/ \E p \in Procs : Effect(p)
         \/ \E m \in Msgs : SmtpDecide(m)
         \/ \E a \in Appends : AppendDecide(a)
<1> USE DEF Effect, ClaimWriter
<1>1. ASSUME NEW p \in Procs, Run(p) PROVE Effect(p) \/ UNCHANGED <<doc, claim, mail, apnd>>
 <2>1. CASE SendStep(p)
   BY <2>1 DEF SendStep, SendMissing, SendRefused, SendReplay, SendPrepare, RecoverSpool,
      PersistFails, BeginFails, SubmitFails, ReplyAccepted, ReplyRefused, RejectSpool
 <2>2. CASE MirrorStep(p)
   BY <2>2 DEF MirrorStep, MirrorFound, MirrorFails, AckOk, AckNo, AckLost, Confirm
 <2>3. CASE FinishStep(p) BY <2>3 DEF FinishStep, EnsureReceipt, RemoveClaims, Unlock
 <2>4. CASE ReconcileStep(p)
   BY <2>4 DEF ReconcileStep, ReconcileMissing, ReconcileConsumed, ReconcileUnclaimed,
      ReconcileClaimed, SearchUnknown, SearchPending, Adopt
 <2>5. CASE OtherStep(p)
   BY <2>5 DEF OtherStep, MutateMissing, UpdateRefused, Prune, Expire, DropReceipt, SweepSpool
 <2> QED BY <1>1, <2>1, <2>2, <2>3, <2>4, <2>5 DEF Run
<1>2. ASSUME NEW p \in Procs, Request(p) \/ Acquire(p) \/ Release(p) \/ Interrupted(p)
      PROVE  Effect(p) \/ UNCHANGED <<doc, claim, mail, apnd>>
  BY <1>2 DEF Request, Acquire, Release, Interrupted, Stop, TearReceipt
<1>3. CASE Server BY <1>3 DEF Server, ProviderFile
<1>4. CASE RetentionEnds \/ UNCHANGED vars BY <1>4 DEF RetentionEnds, vars
<1> QED BY <1>1, <1>2, <1>3, <1>4 DEF Next

(* What the promise sees of the files. *)

(* What the promise sees of the SMTP server. *)
LEMMA OutboxIs ==
  /\ ((\A m \in Msgs : ~Live(m)) => Outbox = "none")
  /\ (\A m \in Msgs : mail[m].st = "accepted" => Outbox = "accepted")
  /\ (\A m \in Msgs : mail[m].st = "data" /\ (\A n \in Msgs : Live(n) => n = m)
                     => Outbox = "offered")
BY DEF Outbox, Live

(* What the promise sees of MailCLI's own copies. *)
LEMMA SentCopyIs ==
  /\ ((\A a \in Appends : apnd[a].st \notin {"data", "applied"}) => SentCopy = "none")
  /\ (\A a \in Appends : apnd[a].st = "applied" => SentCopy = "kept")
  /\ (\A a \in Appends :
        apnd[a].st = "data" /\ (\A b \in Appends : apnd[b].st \in {"data", "applied"} => b = a)
        => SentCopy = "offered")
BY DEF SentCopy

(* What is not touched looks the same. *)
LEMMA PromiseStutters ==
  /\ (doc' = doc /\ claim' = claim) => Stage' = Stage
  /\ mail' = mail => Outbox' = Outbox
  /\ apnd' = apnd => SentCopy' = SentCopy
BY DEF Stage, Outbox, SentCopy

(* While an attempt's message has not been submitted, none of the draft    *)
(* has been: whatever is at the server is on record in the claim.          *)
LEMMA NothingSubmitted ==
  ASSUME SendInv, doc # NoRev, Claimed => mail[claim.msg].st \in {"new", "composed", "refused"}
  PROVE  \A m \in Msgs : ~Live(m)
<1> SUFFICES ASSUME NEW m \in Msgs, Live(m) PROVE FALSE OBVIOUS
<1>1. Claimed /\ claim.msg = m BY DEF SendInv, StoreInv, SubmissionOnRecord
<1> QED BY <1>1 DEF Live

(* Every APPEND that is under way or took effect is of the one accepted    *)
(* message, and it is the only one.                                        *)
LEMMA OneOpenAppend ==
  ASSUME SendInv, NEW a \in Appends, NEW b \in Appends,
         apnd[a].st \in {"data", "applied"}, apnd[b].st \in {"data", "applied"}
  PROVE  a = b
<1>1. /\ apnd[a].msg \in Msgs /\ mail[apnd[a].msg].st = "accepted"
      /\ apnd[b].msg \in Msgs /\ mail[apnd[b].msg].st = "accepted"
  BY DEF SendInv, StoreInv, CopiesAccepted
<1>2. apnd[a].msg = apnd[b].msg BY <1>1 DEF SendInv, StoreInv, AtMostOneSubmission, Live
<1> QED BY <1>2 DEF SendInv, StoreInv, SingleMirrorCopy

(* With an accepted message that has no copy under way, there is no copy. *)
LEMMA NoOpenAppend ==
  ASSUME SendInv, NEW m \in Msgs, mail[m].st = "accepted", Unsent(m), NEW a \in Appends
  PROVE  apnd[a].st \notin {"data", "applied"}
<1> SUFFICES ASSUME apnd[a].st \in {"data", "applied"} PROVE FALSE OBVIOUS
<1>1. apnd[a].msg \in Msgs /\ mail[apnd[a].msg].st = "accepted"
  BY DEF SendInv, StoreInv, CopiesAccepted
<1>2. apnd[a].msg = m BY <1>1 DEF SendInv, StoreInv, AtMostOneSubmission, Live
<1> QED BY <1>2 DEF Unsent, Open
-----------------------------------------------------------------------------
(* Writing the claim freezes the draft, thaws it, or changes nothing that  *)
(* the promise speaks of.                                                  *)
LEMMA ClaimRefines ==
  ASSUME SendInv, NEW p \in Procs, ClaimWriter(p)
  PROVE  Promise!Freeze \/ Promise!Thaw \/ UNCHANGED <<Stage, Outbox, SentCopy>>
<1> USE DEF SendInv, ProcInv
<1>1. doc' = doc /\ mail' = mail /\ apnd' = apnd
  BY DEF ClaimWriter, BeginAttempt, ReplyLost, RejectClaim, Arm, Record, MarkSent, RemoveClaim,
     Sweep, TearClaim
<1>2. Outbox' = Outbox /\ SentCopy' = SentCopy BY <1>1, PromiseStutters
<1>3. CASE BeginAttempt(p) \/ TearClaim(p)
 <2>1. doc # NoRev /\ claim.outcome = "none" BY <1>3 DEF BeginAttempt, TearClaim, Preparing
 <2>2. claim'.outcome # "none"
   BY ZenonT(60), <1>3 DEF BeginAttempt, TearClaim, TornClaim, NoClaim, TypeOK, Attempt
 <2>3. Stage = "open" /\ Stage' = "frozen" BY <1>1, <2>1, <2>2 DEF Stage
 <2> QED BY <1>2, <2>3 DEF Promise!Freeze
<1>4. CASE RejectClaim(p)
 <2>1. doc # NoRev /\ Claimed /\ mail[claim.msg].st \in {"composed", "refused"}
   BY <1>4 DEF RejectClaim, Attempting, AttemptSteps, Submitting
 <2>2. Outbox = "none" BY <2>1, NothingSubmitted, OutboxIs
 <2>3. Stage = "frozen" /\ Stage' = "open"
   BY <1>1, <1>4, <2>1 DEF Stage, Claimed, RejectClaim, NoClaim
 <2> QED BY <1>2, <2>2, <2>3 DEF Promise!Thaw
<1>5. CASE ReplyLost(p) \/ Arm(p) \/ Record(p) \/ MarkSent(p)
 <2>1. doc # NoRev /\ Claimed
   BY <1>5 DEF ReplyLost, Arm, Record, MarkSent, Attempting, AttemptSteps
 <2>2. claim'.outcome # "none"
  <3>1. att[p] \in Attempt BY DEF TypeOK
  <3>2. CASE ReplyLost(p) BY <3>2 DEF ReplyLost, Submitting
  <3>3. CASE Arm(p) \/ Record(p) BY <3>1, <3>3 DEF Arm, Record, Mirroring, Attempt
  <3>4. CASE MarkSent(p) BY <3>1, <3>4 DEF MarkSent, Attempt
  <3> QED BY <1>5, <3>2, <3>3, <3>4
 <2>3. Stage = "frozen" /\ Stage' = "frozen" BY <1>1, <2>1, <2>2 DEF Stage, Claimed
 <2> QED BY <1>2, <2>3
<1>6. CASE RemoveClaim(p) \/ Sweep(p)
 <2>1. doc = NoRev \/ claim' = claim BY <1>6 DEF RemoveClaim, Sweep, CleanupWithoutDraft
 <2>2. Stage' = Stage BY <1>1, <2>1 DEF Stage
 <2> QED BY <1>2, <2>2
<1> QED BY <1>3, <1>4, <1>5, <1>6 DEF ClaimWriter

(* Removing the document makes the draft vanish, an edit keeps it open. *)
LEMMA DocRefines ==
  ASSUME SendInv, NEW p \in Procs, RemoveDoc(p) \/ UpdateWrite(p)
  PROVE  Promise!Vanish \/ UNCHANGED <<Stage, Outbox, SentCopy>>
<1>1. claim' = claim /\ mail' = mail /\ apnd' = apnd BY DEF RemoveDoc, UpdateWrite
<1>2. Outbox' = Outbox /\ SentCopy' = SentCopy BY <1>1, PromiseStutters
<1>3. CASE RemoveDoc(p)
 <2>1. CASE doc = NoRev
  <3>1. Stage' = Stage BY <1>1, <1>3, <2>1, PromiseStutters DEF RemoveDoc
  <3> QED BY <1>2, <3>1
 <2>2. CASE doc # NoRev
  <3>1. Stage # "gone" /\ Stage' = "gone" BY <1>3, <2>2 DEF RemoveDoc, Stage
  <3> QED BY <1>2, <3>1 DEF Promise!Vanish
 <2> QED BY <2>1, <2>2
<1>4. CASE UpdateWrite(p)
 <2>1. Stage = "open" /\ Stage' = "open" BY <1>1, <1>4 DEF UpdateWrite, Stage
 <2> QED BY <1>2, <2>1
<1> QED BY <1>3, <1>4

(* Composing is not seen; the DATA of a message is the offer, and the      *)
(* draft is frozen and nothing else at the server by then.                 *)
LEMMA MailRefines ==
  ASSUME SendInv, NEW p \in Procs, PersistSpool(p) \/ SubmitData(p)
  PROVE  Promise!Offer \/ UNCHANGED <<Stage, Outbox, SentCopy>>
<1> USE DEF SendInv, ProcInv
<1>1. doc' = doc /\ claim' = claim /\ apnd' = apnd BY DEF PersistSpool, SubmitData
<1>2. Stage' = Stage /\ SentCopy' = SentCopy BY <1>1, PromiseStutters
<1>3. CASE PersistSpool(p)
 <2>1. \A m \in Msgs : /\ (mail'[m].st = "accepted" <=> mail[m].st = "accepted")
                       /\ (mail'[m].st = "data" <=> mail[m].st = "data")
   BY <1>3 DEF PersistSpool, TypeOK
 <2>2. Outbox' = Outbox BY <2>1 DEF Outbox
 <2> QED BY <1>2, <2>2
<1>4. CASE SubmitData(p)
 <2>1. /\ doc # NoRev /\ Claimed /\ claim.msg = att[p].msg
       /\ mail[att[p].msg].st = "composed"
   BY <1>4 DEF SubmitData, Attempting, AttemptSteps, Submitting
 <2>2. att[p].msg \in Msgs BY <2>1 DEF StoreInv, ClaimNamesMessage
 <2>3. \A m \in Msgs : ~Live(m) BY <2>1, NothingSubmitted
 <2>4. Outbox = "none" BY <2>3, OutboxIs
 <2>5. /\ mail'[att[p].msg].st = "data"
       /\ \A m \in Msgs : mail'[m].st # "accepted"
   BY <1>4, <2>2, <2>3 DEF SubmitData, TypeOK, Live
 <2>6. Outbox' = "offered" BY <2>2, <2>5 DEF Outbox
 <2>7. Stage = "frozen" BY <2>1 DEF Stage, Claimed
 <2> QED BY <1>2, <2>4, <2>6, <2>7 DEF Promise!Offer
<1> QED BY <1>3, <1>4

(* The server's decision is about the only message it has. *)
LEMMA DecisionRefines ==
  ASSUME SendInv, NEW m \in Msgs, SmtpDecide(m)
  PROVE  Promise!Decide
<1>1. Stage' = Stage /\ SentCopy' = SentCopy BY PromiseStutters DEF SmtpDecide
<1>2. Live(m) /\ \A n \in Msgs : Live(n) => n = m
  BY DEF SmtpDecide, SendInv, StoreInv, AtMostOneSubmission, Live
<1>3. Outbox = "offered" BY <1>2, OutboxIs DEF SmtpDecide
<1>4. PICK verdict \in {"accepted", "refused"} : mail' = [mail EXCEPT ![m].st = verdict]
  BY DEF SmtpDecide
<1>5. mail'[m].st = verdict /\ \A n \in Msgs \ {m} : mail'[n] = mail[n]
  BY <1>4 DEF SendInv, TypeOK
<1>6. Outbox' \in {"none", "accepted"} BY <1>2, <1>5 DEF Outbox, Live
<1> QED BY <1>1, <1>3, <1>6 DEF Promise!Decide

(* An APPEND is sent for an accepted message without a copy under way. *)
LEMMA CopyRefines ==
  ASSUME SendInv, NEW p \in Procs, MirrorData(p)
  PROVE  Promise!OfferCopy
<1> USE DEF SendInv, ProcInv
<1>1. Stage' = Stage /\ Outbox' = Outbox BY PromiseStutters DEF MirrorData
<1>2. /\ doc # NoRev /\ Claimed /\ claim.msg = att[p].msg
      /\ mail[att[p].msg].st = "accepted" /\ Unsent(att[p].msg)
  BY DEF MirrorData, Attempting, AttemptSteps, Mirroring
<1>3. att[p].msg \in Msgs BY <1>2 DEF StoreInv, ClaimNamesMessage
<1>4. Stage = "frozen" /\ Outbox = "accepted" BY <1>2, <1>3, OutboxIs DEF Stage, Claimed
<1>5. \A a \in Appends : apnd[a].st \notin {"data", "applied"} BY <1>2, <1>3, NoOpenAppend
<1>6. SentCopy = "none" BY <1>5, SentCopyIs
<1>7. PICK a \in Appends : apnd' = [apnd EXCEPT ![a] = [msg |-> att[p].msg, st |-> "data"]]
  BY DEF MirrorData
<1>8. apnd'[a].st = "data" /\ \A b \in Appends : apnd'[b].st # "applied"
  BY <1>5, <1>7 DEF TypeOK
<1>9. SentCopy' = "offered" BY <1>8 DEF SentCopy
<1> QED BY <1>1, <1>4, <1>6, <1>9 DEF Promise!OfferCopy

(* The mailbox decides about the only APPEND it has. *)
LEMMA CopyDecisionRefines ==
  ASSUME SendInv, NEW a \in Appends, AppendDecide(a)
  PROVE  Promise!DecideCopy
<1>1. Stage' = Stage /\ Outbox' = Outbox BY PromiseStutters DEF AppendDecide
<1>2. apnd[a].st = "data" BY DEF AppendDecide
<1>3. \A b \in Appends : apnd[b].st \in {"data", "applied"} => b = a BY <1>2, OneOpenAppend
<1>4. SentCopy = "offered" BY <1>2, <1>3, SentCopyIs
<1>5. PICK verdict \in {"applied", "refused"} : apnd' = [apnd EXCEPT ![a].st = verdict]
  BY DEF AppendDecide
<1>6. apnd'[a].st = verdict /\ \A b \in Appends \ {a} : apnd'[b] = apnd[b]
  BY <1>5 DEF SendInv, TypeOK
<1>7. SentCopy' \in {"none", "kept"} BY <1>3, <1>6 DEF SentCopy
<1> QED BY <1>1, <1>4, <1>7 DEF Promise!DecideCopy
-----------------------------------------------------------------------------
(* Every step of the life of a draft is a step of the promise or none. *)
LEMMA StepRefines ==
  ASSUME SendInv, [Next]_vars
  PROVE  [Promise!PromiseNext]_Promise!promise
<1> USE DEF Promise!PromiseNext, Promise!promise
<1>1. CASE UNCHANGED <<doc, claim, mail, apnd>> BY <1>1, PromiseStutters
<1>2. ASSUME NEW p \in Procs, Effect(p)
      PROVE  [Promise!PromiseNext]_Promise!promise
 <2>1. CASE ClaimWriter(p) BY <2>1, ClaimRefines
 <2>2. CASE RemoveDoc(p) \/ UpdateWrite(p) BY <2>2, DocRefines
 <2>3. CASE PersistSpool(p) \/ SubmitData(p) BY <2>3, MailRefines
 <2>4. CASE MirrorData(p) BY <2>4, CopyRefines
 <2> QED BY <1>2, <2>1, <2>2, <2>3, <2>4 DEF Effect
<1>3. CASE \E m \in Msgs : SmtpDecide(m) BY <1>3, DecisionRefines
<1>4. CASE \E a \in Appends : AppendDecide(a) BY <1>4, CopyDecisionRefines
<1> QED BY <1>1, <1>2, <1>3, <1>4, EffectSteps

(* The files, the lease and the exchanges of SendDraft, ReconcileDraft,    *)
(* UpdateDraft, DiscardDraft and PruneDrafts, with a stop between any two  *)
(* of their steps, implement the promise about one draft: it is frozen     *)
(* before a server hears of it, thawed only while nothing is submitted,    *)
(* submitted once, and MailCLI puts at most one copy of it into Sent.      *)
THEOREM SendImplementsPromise == Spec => ImplementsPromise
<1>1. Init => Promise!PromiseInit
 <2> SUFFICES ASSUME Init PROVE Promise!PromiseInit OBVIOUS
 <2>1. Stage = "open" BY DEF Init, Stage, NoClaim
 <2>2. Outbox = "none" BY DEF Init, Outbox
 <2>3. SentCopy = "none" BY DEF Init, SentCopy
 <2> QED BY <2>1, <2>2, <2>3 DEF Promise!PromiseInit
<1>2. SendInv /\ [Next]_vars => [Promise!PromiseNext]_Promise!promise BY StepRefines
<1> QED BY <1>1, <1>2, SendInvariant, PTL
        DEF Spec, ImplementsPromise, Promise!PromiseSpec
=============================================================================
