------------------------ MODULE DraftHandoffProofs -------------------------
(***************************************************************************)
(* Proofs about the visible handoff of a draft (DraftHandoff): HandoffInv  *)
(* is inductive, and with it the safety properties of DraftHandoffProps    *)
(* hold and DraftHandoff implements HandoffPromise, for every number of    *)
(* processes, draft contents, attempts and attachments.                    *)
(*                                                                         *)
(* The argument has four parts: what a change of the files has to respect  *)
(* (Store...), what is left to show of a process where it arrives          *)
(* (Arrive...), one lemma per action that puts the two together (...Kept), *)
(* and that everybody else rests meanwhile (Moved).                        *)
(***************************************************************************)
EXTENDS DraftHandoffProps, TLAPS

USE HandoffAssumption
USE DEF Goto, Return, Recall, Keep, Quiet, ClaimOnly, TreeOnly, tree, outside, local

(* A request names an operation, and an outcome for a reconciliation. *)
LEMMA RequestValues ==
  /\ Request0 \in Requests
  /\ \A q \in Requests : q.op \in Ops /\ q.res \in {"opened", "failed"}
<1>1. [Request0 EXCEPT !.op = "handoff"] = Request0 BY DEF Request0
<1>2. Request0 \in Requests BY <1>1 DEF Requests, Ops
<1>3. ASSUME NEW q \in Requests
      PROVE  q.op \in Ops /\ q.res \in {"opened", "failed"} BY DEF Requests, Ops, Request0
<1> QED BY <1>2, <1>3

(* The outcomes of a written claim. *)
Outcomes == {"prepared"} \cup Started \cup Terminal

(* Writing one field of a claim leaves the others (HandoffAttempt). *)
LEMMA ClaimFields ==
  /\ \A c \in Attempt : c.id \in Attempts \cup {NoAttempt} /\ c.snaps \in Revs \cup {NoRev}
  /\ \A c \in Attempt, o \in Outcomes :
       LET d == [c EXCEPT !.outcome = o]
       IN  d \in Attempt /\ d.id = c.id /\ d.snaps = c.snaps /\ d.outcome = o
  /\ \A c \in Attempt, s \in Revs \cup {NoRev} :
       LET d == [c EXCEPT !.snaps = s]
       IN  d \in Attempt /\ d.id = c.id /\ d.snaps = s /\ d.outcome = c.outcome
BY DEF Attempt, Outcomes, Started, Terminal

(* The claims of no attempt, and of a new one (Begin). *)
LEMMA ClaimValues ==
  /\ NoClaim \in Attempt /\ NoClaim.id = NoAttempt /\ NoClaim.outcome = "none"
  /\ TornClaim \in Attempt /\ TornClaim.id = NoAttempt /\ TornClaim.outcome = "torn"
  /\ \A a \in Attempts :
       LET c == [NoClaim EXCEPT !.id = a, !.outcome = "prepared"]
       IN  c \in Attempt /\ c.id = a /\ c.snaps = NoRev /\ c.outcome = "prepared"
BY DEF Attempt, NoClaim, TornClaim

-----------------------------------------------------------------------------
(* What a change of the files has to respect *)

USE DEF ClaimShape, TreeShape, VerdictShape, DispatchRetained, EvidenceKept, OutcomeTrue,
        StagingRecoverable, OneWayOut, SnapshotsAccounted

(* A step that writes no file and asks Mail for nothing. *)
LEMMA StoreUnchanged ==
  StoreInv /\ UNCHANGED <<sendClaim, claim, parent, dirs, file, window, verdict>> => StoreInv'
BY DEF StoreInv, Retained, Complete, Unresolved, Used

(* A claim is written again with the same outcome, before its dispatch or  *)
(* after its end (Retain, Rewrite).                                        *)
LEMMA StoreRewritten ==
  ASSUME TypeOK, StoreInv, UNCHANGED <<sendClaim, parent, dirs, file, window, verdict>>,
         claim'.id = claim.id, claim'.outcome = claim.outcome,
         claim.outcome \in Terminal \cup {"prepared"}
  PROVE  StoreInv'
BY DEF StoreInv, Unresolved, Used, Terminal

(* A claim of which Mail never heard is canceled.                          *)
LEMMA StoreCanceled ==
  ASSUME TypeOK, StoreInv, UNCHANGED <<sendClaim, parent, dirs, file, window, verdict>>,
         claim.outcome \in Outcomes, claim'.id = claim.id, claim'.outcome = "canceled",
         window[claim.id] = "none"
  PROVE  StoreInv'
BY DEF StoreInv, Unresolved, Used, Outcomes, Started, Terminal

(* A claim goes, or one is torn, where no attempt is open. *)
LEMMA StoreEmptied ==
  ASSUME TypeOK, StoreInv, UNCHANGED <<parent, dirs, file, window, verdict>>, dirs = {},
         claim.outcome \notin {"dispatched", "unknown"},
         claim' = NoClaim \/ (claim' = TornClaim /\ ~sendClaim')
  PROVE  StoreInv'
BY ZenonT(60), ClaimValues DEF StoreInv, Unresolved, Used

(* A new attempt is claimed. *)
LEMMA StoreClaimed ==
  ASSUME TypeOK, StoreInv, UNCHANGED <<sendClaim, parent, dirs, file, window, verdict>>,
         claim = NoClaim, ~sendClaim,
         NEW a \in Attempts, window[a] = "none", a \notin dirs,
         claim' = [NoClaim EXCEPT !.id = a, !.outcome = "prepared"]
  PROVE  StoreInv'
<1>1. claim'.id = a /\ claim'.outcome = "prepared" BY ClaimValues
<1>2. dirs = {}
 <2>1. dirs \subseteq {NoAttempt} /\ dirs \subseteq Attempts
   BY ClaimValues DEF StoreInv, TypeOK, StoreTypeOK
 <2> QED BY <2>1
<1>3. Used(a) = {} BY <1>2 DEF StoreInv
<1>4. \A b \in Attempts : ~Unresolved(b) BY ClaimValues DEF StoreInv
<1>5. EvidenceKept' /\ DispatchRetained' BY <1>1, <1>4 DEF Unresolved
<1>6. StagingRecoverable' /\ OutcomeTrue' BY <1>1, <1>3 DEF Used
<1>7. ClaimShape' /\ TreeShape' /\ VerdictShape' /\ OneWayOut'
  BY <1>1, <1>2 DEF StoreInv, Used
<1> QED BY <1>5, <1>6, <1>7 DEF StoreInv

(* The dispatch of an attempt with all its snapshots is recorded. *)
LEMMA StoreDispatched ==
  ASSUME TypeOK, StoreInv, UNCHANGED <<sendClaim, parent, dirs, file, window, verdict>>,
         claim.outcome = "prepared", Retained(claim),
         claim'.id = claim.id, claim'.snaps = claim.snaps, claim'.outcome = "dispatched"
  PROVE  StoreInv'
BY DEF StoreInv, Retained, Complete, Unresolved, Used

(* The outcome of a dispatched attempt is recorded, with whose word it is. *)
LEMMA StoreDecided ==
  ASSUME TypeOK, StoreInv, UNCHANGED <<sendClaim, parent, dirs, file, window>>,
         claim.outcome \in {"dispatched", "unknown"},
         claim'.id = claim.id, claim'.snaps = claim.snaps,
         claim'.outcome \in {"unknown", "opened", "failed"},
         NEW word \in {"mail", "person"},
         claim'.outcome = "unknown" => verdict' = verdict,
         claim'.outcome # "unknown" => Confirm(claim.id, word),
         word = "mail" =>
           /\ claim'.outcome = "opened" => window[claim.id] = "opened"
           /\ claim'.outcome = "failed" => window[claim.id] \in {"none", "failed"}
  PROVE  StoreInv'
<1>1. claim.id \in Attempts BY DEF StoreInv
<1>2. \/ verdict' = verdict
      \/ verdict' = [verdict EXCEPT ![claim.id] = word] /\ window[claim.id] # "none"
 <2>1. CASE claim'.outcome = "unknown" BY <2>1
 <2>2. CASE claim'.outcome # "unknown" BY <2>2 DEF Confirm
 <2> QED BY <2>1, <2>2
<1>3. \A a \in Attempts \ {claim.id} : verdict'[a] = verdict[a]
  BY <1>2 DEF TypeOK, StoreTypeOK
<1>4. claim'.outcome # "unknown" /\ window[claim.id] # "none" => verdict'[claim.id] = word
  BY <1>1 DEF TypeOK, StoreTypeOK, Confirm
<1>5. ClaimShape' /\ TreeShape' /\ OneWayOut' /\ StagingRecoverable' /\ DispatchRetained'
  BY <1>1 DEF StoreInv, Retained, Complete, Used
<1>6. VerdictShape' BY <1>1, <1>2, <1>3 DEF StoreInv
<1>7. EvidenceKept' BY <1>1, <1>3, <1>4 DEF StoreInv, Unresolved
<1>8. OutcomeTrue' BY <1>1, <1>4, <1>6 DEF StoreInv
<1> QED BY <1>5, <1>6, <1>7, <1>8 DEF StoreInv

(* The tree changes below a claim whose attempt is not open. *)
LEMMA StoreTree ==
  ASSUME TypeOK, StoreInv, UNCHANGED <<sendClaim, claim, window, verdict>>,
         claim.outcome \notin {"dispatched", "unknown"}, TreeShape', StagingRecoverable'
  PROVE  StoreInv'
BY DEF StoreInv, Unresolved

(* A send claim comes without a handoff claim, or goes. *)
LEMMA StoreSending ==
  ASSUME StoreInv, UNCHANGED <<claim, parent, dirs, file, window, verdict>>,
         claim.outcome = "none" \/ (sendClaim' => sendClaim)
  PROVE  StoreInv'
BY DEF StoreInv, Retained, Complete, Unresolved, Used

(* A prepared, canceled or finished attempt is not open. *)
LEMMA NothingOpen ==
  ASSUME StoreInv, claim.outcome \notin {"dispatched", "unknown"}
  PROVE  \A a \in Attempts : ~Unresolved(a)
BY DEF StoreInv

HIDE DEF ClaimShape, TreeShape, VerdictShape, DispatchRetained, EvidenceKept, OutcomeTrue,
         StagingRecoverable, OneWayOut, SnapshotsAccounted
-----------------------------------------------------------------------------
(* What is left to show of the acting process where it arrives *)

USE DEF AtStep, BeginAt, DispatchAt, CleanAt, Ops, Staging, Cleaning

(* Returning, and being done. *)
LEMMA ArriveReturn ==
  ASSUME NEW p \in Procs, pc'[p] = "return", after'[p] = "create" => draft'[p] \in Revs
  PROVE  AtStep(p)'
OBVIOUS

(* The start of an operation. *)
LEMMA ArriveStart ==
  ASSUME NEW p \in Procs, pc'[p] \in Ops \cup {"idle", "sending"}, att'[p] = NoClaim,
         pc'[p] = "sending" => claim' = NoClaim,
         after'[p] = "create" => draft'[p] \in Revs
  PROVE  AtStep(p)'
OBVIOUS

(* A step of a cleanup. *)
LEMMA ArriveCleaning ==
  ASSUME NEW p \in Procs, pc'[p] \in Cleaning, att'[p] # NoClaim,
         att'[p].outcome \in Terminal \cup {"prepared"}, att'[p].id \in Attempts,
         pc'[p] = "delete" => parent' /\ att'[p].id \in dirs',
         pc'[p] \in {"rewrite", "unclaim"} => ~parent' /\ dirs' = {},
         after'[p] = "create" => draft'[p] \in Revs
  PROVE  AtStep(p)'
OBVIOUS

(* Where there is no claim, before and after a removal. *)
LEMMA ArriveUnclaimed ==
  ASSUME NEW p \in Procs, pc'[p] \in {"tidy", "remove", "claims", "orphans", "create"},
         claim' = NoClaim,
         pc'[p] = "tidy" => att'[p] = NoClaim /\ after'[p] \in {"remove", "orphans"},
         pc'[p] = "create" => ~sendClaim' /\ draft'[p] \in Revs,
         after'[p] = "create" => draft'[p] \in Revs
  PROVE  AtStep(p)'
OBVIOUS

(* Staging, and its recovery. *)
LEMMA ArriveStaging ==
  ASSUME NEW p \in Procs, pc'[p] \in Staging, draft'[p] \in Revs,
         claim' = att'[p], att'[p].outcome = "prepared", att'[p].snaps = NoRev,
         pc'[p] # "parent" => parent',
         pc'[p] \in {"stage", "retain"} => att'[p].id \in dirs',
         pc'[p] = "retain" => Complete(att[p].id)'
  PROVE  AtStep(p)'
OBVIOUS

(* A staging to recover from. *)
LEMMA ArriveRecover ==
  ASSUME NEW p \in Procs, pc'[p] = "recover", att'[p].id \in Attempts,
         after'[p] = "create" => draft'[p] \in Revs
  PROVE  AtStep(p)'
OBVIOUS

(* From the last snapshot to the outcome. *)
LEMMA ArriveDispatch ==
  ASSUME NEW p \in Procs, pc'[p] \in {"dispatch", "cancel", "invoke", "answer", "finish"},
         DispatchAt(p)', after'[p] = "create" => draft'[p] \in Revs
  PROVE  AtStep(p)'
OBVIOUS

HIDE DEF AtStep, BeginAt, DispatchAt, CleanAt, Ops, Staging, Cleaning

(* Whoever runs holds the lease, so that the others rest. *)
LEMMA OthersRest ==
  ASSUME HandoffInv, NEW p \in Procs, NEW q \in Procs, q # p, pc[p] \notin {"idle", "wait"}
  PROVE  pc[q] \in {"idle", "wait"}
BY DEF HandoffInv, Exclusive

(* A running process moves alone and keeps the lease until it is done. *)
Alone(p) ==
  /\ pc[p] \notin {"idle", "wait"}
  /\ pc'[p] = "idle" \/ lease' = lease
  /\ \A q \in Procs \ {p} :
       pc'[q] = pc[q] /\ att'[q] = att[q] /\ draft'[q] = draft[q] /\ after'[q] = after[q]

(* Then the files and the process that moved are all there is to show. *)
LEMMA Moved ==
  ASSUME HandoffInv, NEW p \in Procs, Alone(p), TypeOK', StoreInv', AtStep(p)'
  PROVE  HandoffInv'
<1>1. Exclusive' BY OthersRest DEF HandoffInv, Exclusive, Alone
<1>2. ASSUME NEW q \in Procs, q # p PROVE AtStep(q)'
 <2>1. pc'[q] = pc[q] /\ att'[q] = att[q] /\ draft'[q] = draft[q] /\ after'[q] = after[q]
   BY <1>2 DEF Alone
 <2>2. pc[q] \in {"idle", "wait"} /\ BeginAt(q)
   BY <1>2, OthersRest DEF HandoffInv, MemoryInv, AtStep, Alone
 <2>3. BeginAt(q)' BY <2>1, <2>2 DEF BeginAt, Ops, Staging
 <2>4. DispatchAt(q)' /\ CleanAt(q)' BY <2>1, <2>2 DEF DispatchAt, CleanAt, Cleaning
 <2> QED BY <2>3, <2>4 DEF AtStep
<1>3. MemoryInv' BY <1>2 DEF MemoryInv
<1> QED BY <1>1, <1>3 DEF HandoffInv

(* What each action has to keep. *)
Kept(p) == StoreInv' /\ AtStep(p)'

(* The invariant, for one process. *)
LEMMA Known ==
  ASSUME HandoffInv, NEW p \in Procs
  PROVE  TypeOK /\ StoreInv /\ BeginAt(p) /\ DispatchAt(p) /\ CleanAt(p)
BY DEF HandoffInv, MemoryInv, AtStep

(* A step of p writes p's entries. *)
LEMMA Entries ==
  ASSUME TypeOK, NEW p \in Procs
  PROVE  /\ \A s : Goto(p, s) => pc'[p] = s
         /\ \A a : Recall(p, a) => att'[p] = a /\ UNCHANGED <<draft, after>>
         /\ Keep => UNCHANGED <<att, draft, after>>
         /\ att[p] \in Attempt
         /\ claim \in Attempt
BY DEF TypeOK, ControlTypeOK, MemoryTypeOK, StoreTypeOK

(* A refusal, or an error that leaves the files as they are. *)
LEMMA QuietReturn ==
  ASSUME HandoffInv, NEW p \in Procs, NEW c, Return(p, c), Quiet
  PROVE  Kept(p)
<1>1. StoreInv' BY Known, StoreUnchanged
<1>2. pc'[p] = "return" /\ UNCHANGED <<draft, after>> BY Known, Entries
<1>3. AtStep(p)' BY <1>2, Known, ArriveReturn DEF BeginAt
<1> QED BY <1>1, <1>3 DEF Kept

-----------------------------------------------------------------------------
(* Cleaning up *)

(* A cleanup works below the claim it read, whose attempt is not open.     *)
LEMMA CleaningKnows ==
  ASSUME HandoffInv, NEW p \in Procs, pc[p] \in Cleaning, Checked(p),
         pc[p] = "tidy" => att[p] # NoClaim
  PROVE  /\ claim = att[p] /\ att[p] # NoClaim /\ att[p] \in Attempt
         /\ att[p].outcome \in Terminal \cup {"prepared"} /\ att[p].id \in Attempts
         /\ after[p] = "create" => draft[p] \in Revs
<1>1. att[p].outcome \in Terminal \cup {"prepared"} /\ att[p].id \in Attempts
  BY Known DEF CleanAt
<1>2. att[p] # NoClaim BY <1>1, ClaimValues
<1> QED BY <1>1, <1>2, Known, Entries DEF Checked, BeginAt

(* Scan (removeHandoffSnapshotAttempt, before it removes anything) *)
LEMMA ScanKept == ASSUME HandoffInv, NEW p \in Procs, Scan(p) PROVE Kept(p)
<1>1. CASE ~parent \/ att[p].id \notin dirs \/ Removable(p)
 <2>1. att[p].outcome \in Terminal \cup {"prepared"} /\ att[p].id \in Attempts /\ att[p] # NoClaim
   BY CleaningKnows DEF Scan, Cleaning
 <2>2. UNCHANGED <<att, draft, after>> BY <1>1 DEF Scan
 <2>3. \/ pc'[p] = "rewrite" /\ ~parent
       \/ pc'[p] = "tidy"
       \/ pc'[p] = "delete" /\ parent /\ att[p].id \in dirs
   BY <1>1, Known DEF Scan, TypeOK, ControlTypeOK
 <2>4. UNCHANGED <<parent, dirs>> /\ (~parent => dirs = {})
   BY Known DEF Scan, StoreInv, TreeShape
 <2>5. AtStep(p)' BY <2>1, <2>2, <2>3, <2>4, Known, ArriveCleaning DEF BeginAt, Cleaning
 <2>6. StoreInv' BY Known, StoreUnchanged DEF Scan
 <2> QED BY <2>5, <2>6 DEF Kept
<1>2. CASE ~(~parent \/ att[p].id \notin dirs \/ Removable(p)) BY <1>2, QuietReturn DEF Scan
<1> QED BY <1>1, <1>2

(* DeleteFile (removeOrphanSnapshotFile) *)
LEMMA DeleteFileKept == ASSUME HandoffInv, NEW p \in Procs, DeleteFile(p) PROVE Kept(p)
<1> DEFINE a == att[p].id
<1>1. claim = att[p] /\ att[p].outcome \in Terminal \cup {"prepared"} /\ a \in Attempts
  BY CleaningKnows DEF DeleteFile, Cleaning
<1>2. PICK i \in Used(a) :
        (\A j \in Used(a) : j <= i) /\ file' = [file EXCEPT ![a][i] = Shrunk(@)]
  BY DEF DeleteFile
<1>3. i \in Index /\ file[a][i] # "none" /\ \A j \in Index : file[a][j] # "none" => j <= i
  BY <1>2 DEF Used
<1>4. /\ \A b \in Attempts \ {a} : file'[b] = file[b]
      /\ \A j \in Index \ {i} : file'[a][j] = file[a][j]
  BY <1>1, <1>2, <1>3, Known DEF TypeOK, StoreTypeOK
<1>5. TreeShape'
  BY <1>1, <1>4, Known DEF StoreInv, TreeShape, SnapshotsAccounted, Used, CleanAt, DeleteFile
<1>6. StagingRecoverable'
 <2> SUFFICES ASSUME claim.outcome = "prepared",
                     NEW j \in Index, NEW k \in Index, j < k, file'[a][k] # "none"
              PROVE  file'[a][j] \in {"part", "full"}
   BY <1>1 DEF StagingRecoverable, DeleteFile
 <2>1. k # i => file[a][k] # "none" BY <1>4
 <2>2. k <= i BY <1>3, <2>1 DEF Index
 <2>3. j # i BY <1>3, <2>2 DEF Index
 <2>4. file[a][j] \in {"part", "full"}
   BY <1>1, <1>3, <2>1, Known DEF StoreInv, StagingRecoverable
 <2> QED BY <1>4, <2>3, <2>4
<1>7. StoreInv' BY <1>1, <1>5, <1>6, Known, StoreTree DEF DeleteFile, Terminal
<1>8. AtStep(p)'
  BY <1>1, CleaningKnows, Known, ArriveCleaning DEF DeleteFile, Cleaning, CleanAt, BeginAt
<1> QED BY <1>7, <1>8 DEF Kept

(* DeleteDir (removeHandoffSnapshotAttempt, the attempt's directory) *)
LEMMA DeleteDirKept == ASSUME HandoffInv, NEW p \in Procs, DeleteDir(p) PROVE Kept(p)
<1>1. claim = att[p] /\ att[p].outcome \in Terminal \cup {"prepared"}
  BY CleaningKnows DEF DeleteDir, Cleaning
<1>2. dirs' = {} /\ UNCHANGED <<parent, file, claim>> /\ Used(att[p].id) = {}
  BY <1>1, Known DEF DeleteDir, StoreInv, TreeShape, SnapshotsAccounted
<1>3. TreeShape'
  BY <1>1, <1>2, Known DEF StoreInv, TreeShape, SnapshotsAccounted, Used, StoreTypeOK, TypeOK
<1>4. StagingRecoverable' BY <1>2, Known DEF StoreInv, StagingRecoverable
<1>5. StoreInv' BY <1>1, <1>3, <1>4, Known, StoreTree DEF DeleteDir, Terminal
<1>6. pc'[p] = "tidy" /\ UNCHANGED <<att, draft, after>> BY Known, Entries DEF DeleteDir
<1>7. AtStep(p)' BY <1>6, CleaningKnows, ArriveCleaning DEF DeleteDir, Cleaning
<1> QED BY <1>5, <1>7 DEF Kept

(* Tidy (removeEmptyOrphanSnapshotParent), with and without an attempt *)
LEMMA TidyKept == ASSUME HandoffInv, NEW p \in Procs, Tidy(p) PROVE Kept(p)
<1>1. CASE parent /\ dirs # {} BY <1>1, QuietReturn DEF Tidy
<1>2. CASE ~(parent /\ dirs # {})
 <2>1. dirs = {} /\ parent' = FALSE /\ UNCHANGED <<dirs, file, att, draft, after, claim>>
   BY <1>2, Known DEF Tidy, StoreInv, TreeShape
 <2>2. claim.outcome \notin {"dispatched", "unknown"}
  <3>1. CASE att[p] = NoClaim BY <3>1, Known, ClaimValues DEF CleanAt, Tidy
  <3>2. CASE att[p] # NoClaim BY <3>2, CleaningKnows DEF Tidy, Cleaning, Terminal
  <3> QED BY <3>1, <3>2
 <2>3. StoreInv'
   BY <2>1, <2>2, Known, StoreTree
      DEF Tidy, StoreInv, TreeShape, SnapshotsAccounted, StagingRecoverable, Used
 <2>4. CASE att[p] = NoClaim
  <3>1. pc'[p] = after[p] /\ after[p] \in {"remove", "orphans"} /\ claim = NoClaim
    BY <1>2, <2>4, Known, Entries DEF Tidy, CleanAt
  <3>2. AtStep(p)' BY <2>1, <3>1, ArriveUnclaimed
  <3> QED BY <2>3, <3>2 DEF Kept
 <2>5. CASE att[p] # NoClaim
  <3>1. pc'[p] = "rewrite" BY <1>2, <2>5, Known, Entries DEF Tidy
  <3>2. AtStep(p)' BY <2>1, <2>5, <3>1, CleaningKnows, ArriveCleaning DEF Tidy, Cleaning
  <3> QED BY <2>3, <3>2 DEF Kept
 <2> QED BY <2>4, <2>5
<1> QED BY <1>1, <1>2

(* Rewrite (cleanupTerminalHandoffAttempt, the claim without snapshots) *)
LEMMA RewriteKept == ASSUME HandoffInv, NEW p \in Procs, Rewrite(p) PROVE Kept(p)
<1>1. claim = att[p] /\ att[p].outcome \in Terminal \cup {"prepared"} /\ att[p].id \in Attempts
  BY CleaningKnows DEF Rewrite, Cleaning
<1>2. claim' \in {claim, [att[p] EXCEPT !.snaps = NoRev]} BY DEF Rewrite
<1>3. claim'.id = claim.id /\ claim'.outcome = claim.outcome
 <2> DEFINE d == [att[p] EXCEPT !.snaps = NoRev]
 <2>1. d.id = att[p].id /\ d.outcome = att[p].outcome BY Known, Entries, ClaimFields
 <2> QED BY <1>1, <1>2, <2>1
<1>4. StoreInv' BY <1>1, <1>3, Known, StoreRewritten DEF Rewrite
<1>5. pc'[p] = "unclaim" /\ att'[p] = claim' /\ UNCHANGED <<parent, dirs, draft, after>>
  BY Known, Entries DEF Rewrite
<1>6. ~parent /\ dirs = {} /\ (after[p] = "create" => draft[p] \in Revs)
  BY Known DEF Rewrite, CleanAt, BeginAt
<1>7. claim' # NoClaim BY ZenonT(60), <1>1, <1>3, ClaimValues
<1>8. AtStep(p)' BY <1>1, <1>3, <1>5, <1>6, <1>7, ArriveCleaning DEF Cleaning
<1> QED BY <1>4, <1>8 DEF Kept

(* Unclaim (removeHandoffAttempt) *)
LEMMA UnclaimKept == ASSUME HandoffInv, NEW p \in Procs, Unclaim(p) PROVE Kept(p)
<1>1. claim = att[p] /\ att[p].outcome \in Terminal \cup {"prepared"} /\ dirs = {}
  BY CleaningKnows, Known DEF Unclaim, Cleaning, CleanAt
<1>2. StoreInv' BY <1>1, Known, StoreEmptied DEF Unclaim, Terminal
<1>3. claim' = NoClaim /\ pc'[p] = after[p] /\ UNCHANGED <<sendClaim, draft, after>>
  BY Known, Entries DEF Unclaim
<1>4. after[p] \in {"return", "create", "remove", "orphans"} BY Known DEF TypeOK, MemoryTypeOK
<1>5. ~sendClaim /\ (after[p] = "create" => draft[p] \in Revs)
  BY <1>1, Known DEF StoreInv, OneWayOut, BeginAt, Terminal
<1>6. AtStep(p)' BY <1>3, <1>4, <1>5, ArriveReturn, ArriveUnclaimed
<1> QED BY <1>2, <1>6 DEF Kept

-----------------------------------------------------------------------------
(* From the request of a handoff to its last snapshot *)

(* BeginRecovers (an earlier attempt that was never dispatched) *)
LEMMA BeginRecoversKept == ASSUME HandoffInv, NEW p \in Procs, BeginRecovers(p) PROVE Kept(p)
<1>1. StoreInv' BY Known, StoreUnchanged DEF BeginRecovers
<1>2. claim.outcome \in {"prepared", "canceled"} /\ claim.id \in Attempts /\ claim # NoClaim
  BY Known, ClaimValues DEF BeginRecovers, StoreInv, ClaimShape
<1>3. /\ att'[p] = claim /\ draft'[p] = doc /\ doc \in Revs
      /\ pc'[p] = IF claim.outcome = "prepared" THEN "recover" ELSE "scan"
  BY Known DEF BeginRecovers, Readable, TypeOK, StoreTypeOK, MemoryTypeOK, ControlTypeOK
<1>4. CASE claim.outcome = "prepared" BY <1>1, <1>2, <1>3, <1>4, ArriveRecover DEF Kept
<1>5. CASE claim.outcome = "canceled"
 <2>1. AtStep(p)' BY <1>2, <1>3, <1>5, ArriveCleaning DEF Cleaning, Terminal
 <2> QED BY <1>1, <2>1 DEF Kept
<1> QED BY <1>2, <1>4, <1>5

(* BeginFresh *)
LEMMA BeginFreshKept == ASSUME HandoffInv, NEW p \in Procs, BeginFresh(p) PROVE Kept(p)
<1>1. StoreInv' BY Known, StoreUnchanged DEF BeginFresh
<1>2. claim = NoClaim BY Known, ClaimValues DEF BeginFresh, StoreInv, ClaimShape
<1>3. pc'[p] = "create" /\ draft'[p] = doc /\ doc \in Revs
  BY Known DEF BeginFresh, Readable, TypeOK, StoreTypeOK, MemoryTypeOK, ControlTypeOK
<1>4. AtStep(p)' BY <1>2, <1>3, ArriveUnclaimed DEF BeginFresh
<1> QED BY <1>1, <1>4 DEF Kept

(* Create (the claim before anything is staged) *)
LEMMA CreateKept == ASSUME HandoffInv, NEW p \in Procs, Create(p) PROVE Kept(p)
<1>1. claim = NoClaim /\ ~sendClaim /\ draft[p] \in Revs BY Known DEF Create, BeginAt
<1>2. PICK a \in Attempts :
        /\ window[a] = "none" /\ a \notin dirs
        /\ claim' = [NoClaim EXCEPT !.id = a, !.outcome = "prepared"] BY DEF Create
<1>3. StoreInv' BY <1>1, <1>2, Known, StoreClaimed DEF Create
<1>4. pc'[p] = "parent" /\ att'[p] = claim' /\ draft' = draft
  BY Known DEF Create, TypeOK, MemoryTypeOK, ControlTypeOK
<1>5. claim'.outcome = "prepared" /\ claim'.snaps = NoRev BY <1>2, ClaimValues
<1>6. AtStep(p)' BY <1>1, <1>4, <1>5, ArriveStaging DEF Staging
<1> QED BY <1>3, <1>6 DEF Kept

(* What a process that stages relies on (BeginDraftHandoffContext). *)
LEMMA StagingKnows ==
  ASSUME HandoffInv, NEW p \in Procs, pc[p] \in Staging
  PROVE  /\ claim = att[p] /\ claim.outcome = "prepared" /\ claim.snaps = NoRev
         /\ claim.id \in Attempts /\ draft[p] \in Revs
<1>1. claim = att[p] /\ claim.outcome = "prepared" /\ claim.snaps = NoRev /\ draft[p] \in Revs
  BY Known DEF BeginAt
<1> QED BY <1>1, Known DEF StoreInv, ClaimShape

(* MakeParent (ensurePrivateDirectoryAt) *)
LEMMA MakeParentKept == ASSUME HandoffInv, NEW p \in Procs, MakeParent(p) PROVE Kept(p)
<1>1. claim = att[p] /\ claim.outcome = "prepared" /\ claim.snaps = NoRev /\ draft[p] \in Revs
  BY StagingKnows DEF MakeParent, Staging
<1>2. TreeShape' /\ StagingRecoverable'
  BY Known DEF MakeParent, StoreInv, TreeShape, SnapshotsAccounted, StagingRecoverable, Used
<1>3. StoreInv' BY <1>1, <1>2, Known, StoreTree DEF MakeParent
<1>4. pc'[p] = "dir" /\ parent' = TRUE /\ UNCHANGED <<claim, att, draft>>
  BY Known, Entries DEF MakeParent
<1>5. AtStep(p)' BY <1>1, <1>4, ArriveStaging DEF Staging
<1> QED BY <1>3, <1>5 DEF Kept

(* MakeDir (the attempt's directory) *)
LEMMA MakeDirKept == ASSUME HandoffInv, NEW p \in Procs, MakeDir(p) PROVE Kept(p)
<1>1. claim = att[p] /\ claim.outcome = "prepared" /\ claim.snaps = NoRev /\ draft[p] \in Revs
  BY StagingKnows DEF MakeDir, Staging
<1>2. parent BY Known DEF MakeDir, BeginAt
<1>3. TreeShape' /\ StagingRecoverable'
  BY <1>1, <1>2, Known
     DEF MakeDir, StoreInv, TreeShape, SnapshotsAccounted, StagingRecoverable, Used
<1>4. StoreInv' BY <1>1, <1>3, Known, StoreTree DEF MakeDir
<1>5. pc'[p] = "stage" /\ dirs' = dirs \cup {att[p].id} /\ UNCHANGED <<parent, claim, att, draft>>
  BY Known, Entries DEF MakeDir
<1>6. AtStep(p)' BY <1>1, <1>2, <1>5, ArriveStaging DEF Staging
<1> QED BY <1>4, <1>6 DEF Kept

(* Stage (stageDraftAttachmentAt) *)
LEMMA StageKept == ASSUME HandoffInv, NEW p \in Procs, Stage(p) PROVE Kept(p)
<1> DEFINE a == att[p].id
<1>1. /\ claim = att[p] /\ claim.outcome = "prepared" /\ claim.snaps = NoRev
      /\ a \in Attempts /\ draft[p] \in Revs BY StagingKnows DEF Stage, Staging
<1>2. parent /\ a \in dirs BY Known DEF Stage, BeginAt
<1>3. PICK i \in Unstaged(a) :
        (\A j \in Unstaged(a) : i <= j) /\ file' = [file EXCEPT ![a][i] = Grown(@)]
  BY DEF Stage
<1>4. i \in Index /\ \A j \in Index : file[a][j] # "full" => i <= j BY <1>3 DEF Unstaged
<1>5. /\ \A b \in Attempts \ {a} : file'[b] = file[b]
      /\ \A j \in Index \ {i} : file'[a][j] = file[a][j]
      /\ file'[a][i] = Grown(file[a][i]) BY <1>1, <1>3, <1>4, Known DEF TypeOK, StoreTypeOK
<1>6. TreeShape'
  BY <1>1, <1>2, <1>5, Known DEF Stage, StoreInv, TreeShape, SnapshotsAccounted, Used
<1>7. StagingRecoverable'
 <2> SUFFICES ASSUME NEW j \in Index, NEW k \in Index, j < k, file'[a][k] # "none"
              PROVE  file'[a][j] \in {"part", "full"} BY <1>1 DEF StagingRecoverable, Stage
 <2>1. CASE k = i
  <3>1. file[a][j] = "full" /\ j # i BY <1>4, <2>1 DEF Index
  <3> QED BY <1>5, <3>1
 <2>2. CASE k # i
  <3>1. file[a][j] \in {"part", "full"}
    BY <1>1, <1>5, <2>2, Known DEF StoreInv, StagingRecoverable
  <3> QED BY <1>5, <3>1 DEF Grown
 <2> QED BY <2>1, <2>2
<1>8. StoreInv' BY <1>1, <1>6, <1>7, Known, StoreTree DEF Stage
<1>9. AtStep(p)' BY <1>1, <1>2, ArriveStaging DEF Stage, Staging
<1> QED BY <1>8, <1>9 DEF Kept

(* Staged (the last attachment is verified) *)
LEMMA StagedKept == ASSUME HandoffInv, NEW p \in Procs, Staged(p) PROVE Kept(p)
<1>1. claim = att[p] /\ claim.outcome = "prepared" /\ claim.snaps = NoRev /\ draft[p] \in Revs
  BY StagingKnows DEF Staged, Staging
<1>2. parent /\ att[p].id \in dirs BY Known DEF Staged, BeginAt
<1>3. pc'[p] = "retain" /\ UNCHANGED <<claim, att, draft, parent, dirs, file>>
  BY Known, Entries DEF Staged
<1>4. Complete(att[p].id)' BY <1>2, <1>3 DEF Staged, Complete, Unstaged
<1>5. AtStep(p)' BY <1>1, <1>2, <1>3, <1>4, ArriveStaging DEF Staging
<1>6. StoreInv' BY Known, StoreUnchanged DEF Staged
<1> QED BY <1>5, <1>6 DEF Kept

(* The snapshot list is the only thing Retain changes in the claim. *)
LEMMA RetainedClaim ==
  ASSUME HandoffInv, NEW p \in Procs, pc[p] \in Staging
  PROVE  LET c == WithSnapshots(p)
         IN  /\ c \in Attempt /\ c.id = claim.id /\ c.outcome = "prepared"
             /\ Files > 0 => c.snaps # NoRev
<1>1. claim = att[p] /\ claim.outcome = "prepared" /\ draft[p] \in Revs /\ att[p] \in Attempt
  BY StagingKnows, Known, Entries
<1>2. CASE Files = 0 BY <1>1, <1>2, ClaimFields DEF WithSnapshots
<1>3. CASE Files # 0 BY <1>1, <1>3, ClaimFields DEF WithSnapshots
<1> QED BY <1>2, <1>3

(* Retain (the claim with its snapshots) *)
LEMMA RetainKept == ASSUME HandoffInv, NEW p \in Procs, Retain(p) PROVE Kept(p)
<1>1. claim = att[p] /\ claim.outcome = "prepared" /\ draft[p] \in Revs
  BY StagingKnows DEF Retain, Staging
<1>2. claim'.id = claim.id /\ claim'.outcome = "prepared" /\ (Files > 0 => claim'.snaps # NoRev)
  BY RetainedClaim DEF Retain, Staging
<1>3. StoreInv' BY <1>1, <1>2, Known, StoreRewritten DEF Retain
<1>4. /\ pc'[p] = "dispatch" /\ att'[p] = claim' /\ UNCHANGED <<parent, dirs, file, draft>>
      /\ Complete(claim.id) BY <1>1, Known, Entries DEF Retain, BeginAt
<1>5. Retained(att[p])' BY <1>2, <1>4 DEF Retained, Complete
<1>6. AtStep(p)' BY <1>1, <1>2, <1>4, <1>5, ArriveDispatch DEF DispatchAt
<1> QED BY <1>3, <1>6 DEF Kept

(* StageFails (whatever goes wrong before the dispatch) *)
LEMMA StageFailsKept == ASSUME HandoffInv, NEW p \in Procs, StageFails(p) PROVE Kept(p)
<1>1. claim = att[p] /\ claim.outcome = "prepared" /\ draft[p] \in Revs /\ claim.id \in Attempts
  BY StagingKnows DEF StageFails
<1>2. claim' = claim \/ claim' = WithSnapshots(p) BY DEF StageFails, MayReplace
<1>3. claim'.id = claim.id /\ claim'.outcome = "prepared"
  BY <1>1, <1>2, RetainedClaim DEF StageFails
<1>4. StoreInv' BY <1>1, <1>3, Known, StoreRewritten DEF StageFails
<1>5. pc'[p] = "recover" /\ UNCHANGED <<att, draft>> BY Known, Entries DEF StageFails
<1>6. AtStep(p)' BY <1>1, <1>5, ArriveRecover
<1> QED BY <1>4, <1>6 DEF Kept

(* Recover (recoverPreparedHandoffStaging) *)
LEMMA RecoverKept == ASSUME HandoffInv, NEW p \in Procs, Recover(p) PROVE Kept(p)
<1>1. CASE \/ claim.id # att[p].id \/ claim.outcome # "prepared"
           \/ claim.snaps \notin {NoRev, draft[p]}
 <2>1. Return(p, "snapshots_changed") /\ Quiet BY <1>1 DEF Recover
 <2> QED BY <2>1, QuietReturn
<1>2. CASE claim.id = att[p].id /\ claim.outcome = "prepared" /\ claim.snaps \in {NoRev, draft[p]}
 <2>1. claim' = claim \/ claim' = [claim EXCEPT !.outcome = "canceled"] BY <1>2 DEF Recover
 <2>2. claim'.id = claim.id /\ claim'.outcome \in {"prepared", "canceled"}
  <3> DEFINE d == [claim EXCEPT !.outcome = "canceled"]
  <3>1. d.id = claim.id /\ d.outcome = "canceled"
    BY Known, Entries, ClaimFields DEF Outcomes, Terminal
  <3> QED BY <1>2, <2>1, <3>1
 <2>3. claim.id \in Attempts /\ window[claim.id] = "none"
   BY <1>2, Known DEF StoreInv, ClaimShape, OutcomeTrue
 <2>4. StoreInv'
  <3>1. CASE claim'.outcome = "prepared"
    BY <1>2, <2>2, <3>1, Known, StoreRewritten DEF Recover
  <3>2. CASE claim'.outcome = "canceled"
    BY <1>2, <2>2, <2>3, <3>2, Known, StoreCanceled DEF Recover, Outcomes
  <3> QED BY <2>2, <3>1, <3>2
 <2>5. pc'[p] = "scan" /\ att'[p] = claim' /\ UNCHANGED <<draft, after>>
   BY <1>2, Known, Entries DEF Recover
 <2>6. claim' # NoClaim BY <2>2, ClaimValues
 <2>7. AtStep(p)'
   BY <2>2, <2>3, <2>5, <2>6, Known, ArriveCleaning DEF BeginAt, Cleaning, Terminal
 <2> QED BY <2>4, <2>7 DEF Kept
<1> QED BY <1>1, <1>2

-----------------------------------------------------------------------------
(* From the dispatch record to the outcome *)

(* Before the dispatch record (MarkDispatched, CancelBeforeDispatch). *)
LEMMA DispatchKnows ==
  ASSUME HandoffInv, NEW p \in Procs, pc[p] = "dispatch"
  PROVE  /\ claim = att[p] /\ claim.outcome = "prepared" /\ Retained(claim)
         /\ claim.id \in Attempts /\ window[claim.id] = "none"
<1>1. claim = att[p] /\ claim.outcome = "prepared" /\ Retained(claim) BY Known DEF DispatchAt
<1> QED BY <1>1, Known DEF StoreInv, ClaimShape, OutcomeTrue

(* The dispatch record differs from the claim in its outcome only.         *)
LEMMA DispatchRecord ==
  ASSUME HandoffInv, NEW p \in Procs, NEW o \in Outcomes
  PROVE  LET d == [att[p] EXCEPT !.outcome = o]
         IN  d \in Attempt /\ d.id = att[p].id /\ d.snaps = att[p].snaps /\ d.outcome = o
BY Known, Entries, ClaimFields

(* MarkDispatched *)
LEMMA MarkDispatchedKept == ASSUME HandoffInv, NEW p \in Procs, MarkDispatched(p) PROVE Kept(p)
<1>1. /\ claim = att[p] /\ claim.outcome = "prepared" /\ Retained(claim)
      /\ claim.id \in Attempts /\ window[claim.id] = "none"
  BY DispatchKnows DEF MarkDispatched
<1>2. "dispatched" \in Outcomes BY DEF Outcomes, Started
<1>3. claim'.id = claim.id /\ claim'.snaps = claim.snaps /\ claim'.outcome = "dispatched"
  BY <1>1, <1>2, DispatchRecord DEF MarkDispatched
<1>4. StoreInv' BY <1>1, <1>3, Known, StoreDispatched DEF MarkDispatched
<1>5. pc'[p] = "invoke" /\ att'[p] = claim' /\ UNCHANGED <<window, draft, after>>
  BY Known, Entries DEF MarkDispatched
<1>6. AtStep(p)' BY <1>1, <1>3, <1>5, Known, ArriveDispatch DEF DispatchAt, BeginAt
<1> QED BY <1>4, <1>6 DEF Kept

(* NotDispatched (a record that fails, before or after its rename) *)
LEMMA NotDispatchedKept == ASSUME HandoffInv, NEW p \in Procs, NotDispatched(p) PROVE Kept(p)
<1> DEFINE d == [att[p] EXCEPT !.outcome = "dispatched"]
<1>1. /\ claim = att[p] /\ claim.outcome = "prepared" /\ Retained(claim)
      /\ claim.id \in Attempts /\ window[claim.id] = "none" BY DispatchKnows DEF NotDispatched
<1>2. "dispatched" \in Outcomes BY DEF Outcomes, Started
<1>3. d.id = claim.id /\ d.snaps = claim.snaps /\ d.outcome = "dispatched"
  BY <1>1, <1>2, DispatchRecord
<1>4. claim' = claim \/ claim' = d BY DEF NotDispatched, MayReplace
<1>5. StoreInv'
 <2>1. CASE claim' = claim BY <2>1, Known, StoreUnchanged DEF NotDispatched
 <2>2. CASE claim' = d BY <1>1, <1>3, <2>2, Known, StoreDispatched DEF NotDispatched
 <2> QED BY <1>4, <2>1, <2>2
<1>6. pc'[p] = "cancel" /\ UNCHANGED <<att, window, draft, after>>
  BY Known, Entries DEF NotDispatched
<1>7. claim' \in {att'[p], [att'[p] EXCEPT !.outcome = "dispatched"]} BY <1>1, <1>4, <1>6
<1>8. AtStep(p)' BY <1>1, <1>6, <1>7, Known, ArriveDispatch DEF DispatchAt, BeginAt
<1> QED BY <1>5, <1>8 DEF Kept

(* Cancel (CancelBeforeDispatch) *)
LEMMA CancelKept == ASSUME HandoffInv, NEW p \in Procs, Cancel(p) PROVE Kept(p)
<1> DEFINE d == [att[p] EXCEPT !.outcome = "dispatched"]
<1>1. /\ att[p].outcome = "prepared" /\ att[p].id \in Attempts
      /\ claim \in {att[p], d} /\ window[att[p].id] = "none" BY Known DEF Cancel, DispatchAt
<1>2. "dispatched" \in Outcomes /\ "canceled" \in Outcomes /\ "prepared" \in Outcomes
  BY DEF Outcomes, Started, Terminal
<1>3. claim.id = att[p].id /\ claim.outcome \in Outcomes
 <2>1. d.id = att[p].id /\ d.outcome = "dispatched" BY <1>2, DispatchRecord
 <2> QED BY <1>1, <1>2, <2>1
<1>4. claim'.id = att[p].id /\ claim'.outcome = "canceled" BY <1>2, DispatchRecord DEF Cancel
<1>5. StoreInv' BY <1>1, <1>3, <1>4, Known, StoreCanceled DEF Cancel
<1>6. pc'[p] = "scan" /\ att'[p] = claim' /\ UNCHANGED <<draft, after>> /\ claim' # NoClaim
  BY <1>4, Known, Entries, ClaimValues DEF Cancel
<1>7. AtStep(p)' BY <1>1, <1>4, <1>6, Known, ArriveCleaning DEF BeginAt, Cleaning, Terminal
<1> QED BY <1>5, <1>7 DEF Kept

(* What came of the call is decided in memory before it is recorded. *)
LEMMA DecideKept ==
  ASSUME HandoffInv, NEW p \in Procs, pc[p] \in {"invoke", "answer"},
         NEW o \in {"unknown", "opened", "failed"}, Decide(p, o),
         o = "opened" => window[att[p].id] = "opened",
         o = "failed" => window[att[p].id] \in {"none", "failed"}
  PROVE  Kept(p)
<1>1. claim = att[p] /\ att[p].outcome = "dispatched" /\ att[p] \in Attempt
  BY Known, Entries DEF DispatchAt
<1>2. pc'[p] = "finish" /\ att'[p] = [att[p] EXCEPT !.outcome = o]
      /\ UNCHANGED <<claim, window, draft, after>> BY Known, Entries DEF Decide
<1>3. o \in Outcomes BY DEF Outcomes, Started
<1>4. att'[p].id = att[p].id /\ att'[p].outcome = o BY <1>2, <1>3, DispatchRecord
<1>5. claim' = [att'[p] EXCEPT !.outcome = "dispatched"] BY <1>1, <1>2 DEF Attempt
<1>6. AtStep(p)' BY <1>2, <1>4, <1>5, Known, ArriveDispatch DEF DispatchAt, BeginAt
<1>7. StoreInv' BY Known, StoreUnchanged DEF Decide
<1> QED BY <1>6, <1>7 DEF Kept

(* NotInvoked, Answered, Unanswered (HandoffWithDispatch) *)
LEMMA DecidingKept ==
  ASSUME HandoffInv, NEW p \in Procs, NotInvoked(p) \/ Answered(p) \/ Unanswered(p)
  PROVE  Kept(p)
<1>1. CASE NotInvoked(p) BY <1>1, Known, DecideKept DEF NotInvoked, DispatchAt
<1>2. CASE Answered(p) BY <1>2, DecideKept DEF Answered
<1>3. CASE Unanswered(p) BY <1>3, DecideKept DEF Unanswered
<1> QED BY <1>1, <1>2, <1>3

(* Invoke (performWithItems) *)
LEMMA InvokeKept == ASSUME HandoffInv, NEW p \in Procs, Invoke(p) PROVE Kept(p)
<1> DEFINE a == att[p].id
<1>1. claim = att[p] /\ claim.outcome = "dispatched" /\ a \in Attempts
  BY Known DEF Invoke, DispatchAt, StoreInv, ClaimShape
<1>2. /\ window'[a] = "called" /\ \A b \in Attempts \ {a} : window'[b] = window[b]
      /\ UNCHANGED <<sendClaim, claim, parent, dirs, file, verdict>>
  BY <1>1, Known DEF Invoke, TypeOK, StoreTypeOK
<1>3. EvidenceKept' BY <1>1, <1>2, Known DEF StoreInv, EvidenceKept, Unresolved
<1>4. VerdictShape' /\ OutcomeTrue'
  BY <1>1, <1>2, Known DEF StoreInv, VerdictShape, OutcomeTrue
<1>5. ClaimShape' /\ TreeShape' /\ DispatchRetained' /\ StagingRecoverable' /\ OneWayOut'
  BY <1>2, Known DEF StoreInv, ClaimShape, TreeShape, SnapshotsAccounted, DispatchRetained,
     StagingRecoverable, OneWayOut, Retained, Complete, Used
<1>6. pc'[p] = "answer" /\ UNCHANGED <<att, draft, after>> BY Known, Entries DEF Invoke
<1>7. AtStep(p)' BY <1>1, <1>2, <1>6, Known, ArriveDispatch DEF DispatchAt, BeginAt
<1> QED BY <1>3, <1>4, <1>5, <1>7 DEF Kept, StoreInv

(* Finish (the outcome is recorded before anything is removed) *)
LEMMA FinishKept == ASSUME HandoffInv, NEW p \in Procs, Finish(p) PROVE Kept(p)
<1> DEFINE d == [att[p] EXCEPT !.outcome = "dispatched"]
<1>1. /\ claim = d /\ att[p].outcome \in {"unknown", "opened", "failed"}
      /\ att[p].outcome = "opened" => window[att[p].id] = "opened"
      /\ att[p].outcome = "failed" => window[att[p].id] \in {"none", "failed"}
  BY Known DEF Finish, DispatchAt
<1>2. "dispatched" \in Outcomes BY DEF Outcomes, Started
<1>3. att[p].id = claim.id /\ att[p].snaps = claim.snaps /\ claim.outcome = "dispatched"
  BY <1>1, <1>2, DispatchRecord
<1>4. claim' = att[p] /\ claim.id \in Attempts BY <1>3, Known DEF Finish, StoreInv, ClaimShape
<1>5. /\ att[p].outcome = "unknown" => verdict' = verdict
      /\ att[p].outcome # "unknown" => Confirm(claim.id, "mail") BY <1>3 DEF Finish
<1>6. StoreInv' BY <1>1, <1>3, <1>4, <1>5, Known, StoreDecided DEF Finish
<1>7. UNCHANGED <<att, draft, after>> BY DEF Finish
<1>8. CASE att[p].outcome = "unknown"
 <2>1. pc'[p] = "return" BY <1>8, Known, Entries DEF Finish
 <2> QED BY <1>6, <1>7, <2>1, Known, ArriveReturn DEF Kept, BeginAt
<1>9. CASE att[p].outcome # "unknown"
 <2>1. pc'[p] = "scan" BY <1>9, Known, Entries DEF Finish
 <2>2. att[p] # NoClaim BY <1>1, ClaimValues
 <2>3. AtStep(p)'
   BY <1>1, <1>3, <1>4, <1>7, <1>9, <2>1, <2>2, Known, ArriveCleaning
      DEF BeginAt, Cleaning, Terminal
 <2> QED BY <1>6, <2>3 DEF Kept
<1> QED BY <1>8, <1>9

-----------------------------------------------------------------------------
(* Reconciling, and the other operations *)

(* ReconcileResumes (the recorded outcome stays) *)
LEMMA ReconcileResumesKept ==
  ASSUME HandoffInv, NEW p \in Procs, ReconcileResumes(p)
  PROVE  Kept(p)
<1>1. claim.outcome \in Terminal /\ claim.id \in Attempts /\ claim # NoClaim
  BY Known, ClaimValues DEF ReconcileResumes, StoreInv, ClaimShape, Terminal
<1>2. pc'[p] = "scan" /\ att'[p] = claim /\ UNCHANGED <<draft, after>>
  BY Known, Entries DEF ReconcileResumes
<1>3. AtStep(p)' BY <1>1, <1>2, Known, ArriveCleaning DEF BeginAt, Cleaning
<1>4. StoreInv' BY Known, StoreUnchanged DEF ReconcileResumes
<1> QED BY <1>3, <1>4 DEF Kept

(* ReconcileRecords (the word of a person) *)
LEMMA ReconcileRecordsKept ==
  ASSUME HandoffInv, NEW p \in Procs, ReconcileRecords(p)
  PROVE  Kept(p)
<1> DEFINE o == req[p].res
           d == [claim EXCEPT !.outcome = o]
<1>1. o \in {"opened", "failed"} /\ o \in Outcomes
  BY Known, RequestValues DEF TypeOK, MemoryTypeOK, Outcomes, Started
<1>2. d.id = claim.id /\ d.snaps = claim.snaps /\ d.outcome = o
  BY <1>1, Known, Entries, ClaimFields
<1>3. claim' = d /\ claim.outcome \in {"dispatched", "unknown"} /\ claim.id \in Attempts
  BY Known DEF ReconcileRecords, StoreInv, ClaimShape
<1>4. StoreInv' BY <1>1, <1>2, <1>3, Known, StoreDecided DEF ReconcileRecords
<1>5. pc'[p] = "scan" /\ att'[p] = claim' /\ UNCHANGED <<draft, after>>
  BY Known, Entries DEF ReconcileRecords
<1>6. d # NoClaim BY <1>1, <1>2, ClaimValues
<1>7. AtStep(p)'
  BY <1>1, <1>2, <1>3, <1>5, <1>6, Known, ArriveCleaning DEF BeginAt, Cleaning, Terminal
<1> QED BY <1>4, <1>7 DEF Kept

(* Update (UpdateDraft) *)
LEMMA UpdateKept == ASSUME HandoffInv, NEW p \in Procs, Update(p) PROVE Kept(p)
<1>1. StoreInv' BY Known, StoreUnchanged DEF Update
<1>2. pc'[p] = "return" /\ UNCHANGED <<draft, after>> BY Known, Entries DEF Update
<1>3. AtStep(p)' BY <1>2, Known, ArriveReturn DEF BeginAt
<1> QED BY <1>1, <1>3 DEF Kept

(* Send (SendDraft, its claim) *)
LEMMA SendKept == ASSUME HandoffInv, NEW p \in Procs, Send(p) PROVE Kept(p)
<1>1. claim = NoClaim /\ att[p] = NoClaim
  BY Known, ClaimValues DEF Send, StoreInv, ClaimShape, BeginAt, Ops
<1>2. StoreInv' BY Known, StoreSending DEF Send
<1>3. pc'[p] = "sending" /\ UNCHANGED <<claim, att, draft, after>> BY Known, Entries DEF Send
<1>4. AtStep(p)' BY <1>1, <1>3, Known, ArriveStart DEF BeginAt
<1> QED BY <1>2, <1>4 DEF Kept

(* SendEnds (SendDraft, the rest) *)
LEMMA SendEndsKept == ASSUME HandoffInv, NEW p \in Procs, SendEnds(p) PROVE Kept(p)
<1>1. StoreInv' BY Known, StoreSending DEF SendEnds
<1>2. att[p] = NoClaim /\ (after[p] = "create" => draft[p] \in Revs)
  BY Known DEF SendEnds, BeginAt
<1>3. pc'[p] \in {"return", "discard"} /\ UNCHANGED <<att, draft, after>>
  BY Known, Entries DEF SendEnds
<1>4. AtStep(p)' BY <1>2, <1>3, ArriveReturn, ArriveStart DEF Ops
<1> QED BY <1>1, <1>4 DEF Kept

(* Prune (pruneDraftOnce) *)
LEMMA PruneKept == ASSUME HandoffInv, NEW p \in Procs, Prune(p) PROVE Kept(p)
<1>1. CASE sendClaim \/ claim.outcome # "none" BY <1>1, QuietReturn DEF Prune
<1>2. CASE ~(sendClaim \/ claim.outcome # "none")
 <2>1. StoreInv' BY Known, StoreUnchanged DEF Prune
 <2>2. att[p] = NoClaim /\ (after[p] = "create" => draft[p] \in Revs)
   BY Known DEF Prune, BeginAt, Ops
 <2>3. pc'[p] = "discard" /\ UNCHANGED <<att, draft, after>> BY <1>2, Known, Entries DEF Prune
 <2>4. AtStep(p)' BY <2>2, <2>3, ArriveStart DEF Ops
 <2> QED BY <2>1, <2>4 DEF Kept
<1> QED BY <1>1, <1>2

(* Discard (discardDraftFiles) *)
LEMMA DiscardKept == ASSUME HandoffInv, NEW p \in Procs, Discard(p) PROVE Kept(p)
<1>1. claim = NoClaim /\ att[p] = NoClaim
  BY Known, ClaimValues DEF Discard, StoreInv, ClaimShape, BeginAt, Ops
<1>2. StoreInv' BY Known, StoreUnchanged DEF Discard
<1>3. pc'[p] = "tidy" /\ after'[p] = "remove" /\ UNCHANGED <<claim, att>>
  BY Known, Entries DEF Discard, TypeOK, MemoryTypeOK
<1>4. AtStep(p)' BY <1>1, <1>3, ArriveUnclaimed
<1> QED BY <1>2, <1>4 DEF Kept

(* RemoveDoc (discardDraftFiles, the draft) *)
LEMMA RemoveDocKept == ASSUME HandoffInv, NEW p \in Procs, RemoveDoc(p) PROVE Kept(p)
<1>1. claim = NoClaim /\ (after[p] = "create" => draft[p] \in Revs)
  BY Known DEF RemoveDoc, BeginAt
<1>2. StoreInv' BY Known, StoreUnchanged DEF RemoveDoc
<1>3. pc'[p] \in {"return", "claims"} /\ UNCHANGED <<claim, draft, after>>
  BY Known, Entries DEF RemoveDoc
<1>4. AtStep(p)' BY <1>1, <1>3, ArriveReturn, ArriveUnclaimed
<1> QED BY <1>2, <1>4 DEF Kept

(* RemoveClaims (removeDraftClaims) *)
LEMMA RemoveClaimsKept == ASSUME HandoffInv, NEW p \in Procs, RemoveClaims(p) PROVE Kept(p)
<1>1. claim = NoClaim /\ claim' = NoClaim BY Known DEF RemoveClaims, BeginAt
<1>2. StoreInv' BY <1>1, Known, ClaimValues, StoreSending DEF RemoveClaims
<1>3. pc'[p] = "return" /\ UNCHANGED <<draft, after>> BY Known, Entries DEF RemoveClaims
<1>4. AtStep(p)' BY <1>3, Known, ArriveReturn DEF BeginAt
<1> QED BY <1>2, <1>4 DEF Kept

(* SweepResumes (removeOrphanHandoffSnapshotTree, a finished attempt) *)
LEMMA SweepResumesKept == ASSUME HandoffInv, NEW p \in Procs, SweepResumes(p) PROVE Kept(p)
<1>1. StoreInv' BY Known, StoreUnchanged DEF SweepResumes
<1>2. /\ pc'[p] = IF claim = NoClaim THEN "tidy" ELSE "scan"
      /\ att'[p] = claim /\ after'[p] = "orphans" /\ UNCHANGED <<claim, draft>>
  BY Known, Entries DEF SweepResumes, TypeOK, MemoryTypeOK, ControlTypeOK
<1>3. CASE claim = NoClaim BY <1>1, <1>2, <1>3, ArriveUnclaimed DEF Kept
<1>4. CASE claim # NoClaim
 <2>1. claim.outcome \in Terminal /\ claim.id \in Attempts
   BY <1>4, Known, ClaimValues DEF SweepResumes, StoreInv, ClaimShape, Terminal
 <2>2. AtStep(p)' BY <1>2, <1>4, <2>1, ArriveCleaning DEF Cleaning
 <2> QED BY <1>1, <2>2 DEF Kept
<1> QED BY <1>3, <1>4

(* SweepCancels (removeOrphanHandoffSnapshotTree, a prepared attempt) *)
LEMMA SweepCancelsKept == ASSUME HandoffInv, NEW p \in Procs, SweepCancels(p) PROVE Kept(p)
<1>1. CASE ~Matching
 <2>1. Return(p, "snapshots_changed") /\ Quiet BY <1>1 DEF SweepCancels
 <2> QED BY <2>1, QuietReturn
<1>2. CASE Matching
 <2> DEFINE d == [claim EXCEPT !.outcome = "canceled"]
 <2>1. "canceled" \in Outcomes /\ "prepared" \in Outcomes BY DEF Outcomes, Terminal
 <2>2. d.id = claim.id /\ d.outcome = "canceled" BY <2>1, Known, Entries, ClaimFields
 <2>3. claim' = d /\ claim.outcome = "prepared" BY <1>2 DEF SweepCancels
 <2>4. claim.id \in Attempts /\ window[claim.id] = "none"
   BY <2>3, Known DEF StoreInv, ClaimShape, OutcomeTrue
 <2>5. StoreInv' BY <2>1, <2>2, <2>3, <2>4, Known, StoreCanceled DEF SweepCancels
 <2>6. pc'[p] = "scan" /\ att'[p] = claim' /\ after'[p] = "orphans"
   BY <1>2, Known, Entries DEF SweepCancels, TypeOK, MemoryTypeOK, ControlTypeOK
 <2>7. d # NoClaim BY <2>2, ClaimValues
 <2>8. AtStep(p)' BY <2>2, <2>3, <2>4, <2>6, <2>7, ArriveCleaning DEF Cleaning, Terminal
 <2> QED BY <2>5, <2>8 DEF Kept
<1> QED BY <1>1, <1>2

(* SweepClaims (removeOrphanDraftClaims) *)
LEMMA SweepClaimsKept == ASSUME HandoffInv, NEW p \in Procs, SweepClaims(p) PROVE Kept(p)
<1>1. StoreInv' BY Known, StoreSending DEF SweepClaims, OneWayOut, StoreInv
<1>2. pc'[p] = "return" /\ UNCHANGED <<draft, after>> BY Known, Entries DEF SweepClaims
<1>3. AtStep(p)' BY <1>2, Known, ArriveReturn DEF BeginAt
<1> QED BY <1>1, <1>3 DEF Kept

(* TearClaim (a claim whose writer was killed) and Stop, Release *)
LEMMA LeavingKept ==
  ASSUME HandoffInv, NEW p \in Procs, Release(p) \/ Stop(p) \/ TearClaim(p)
  PROVE  Kept(p)
<1>1. Leave(p) BY DEF Release, Stop, TearClaim
<1>2. pc'[p] = "idle" /\ att'[p] = NoClaim /\ after'[p] = "return"
  BY <1>1, Known DEF Leave, TypeOK, ControlTypeOK, MemoryTypeOK
<1>3. AtStep(p)' BY <1>2, ArriveStart
<1>4. StoreInv'
 <2>1. CASE Release(p) \/ Stop(p)
   BY <1>1, <2>1, Known, StoreUnchanged DEF Release, Stop, Leave
 <2>2. CASE TearClaim(p)
  <3>1. claim = NoClaim /\ ~sendClaim BY <2>2, Known DEF TearClaim, BeginAt
  <3>2. dirs = {}
   <4>1. dirs \subseteq {NoAttempt} /\ dirs \subseteq Attempts
     BY <3>1, Known, ClaimValues DEF StoreInv, TreeShape, SnapshotsAccounted, TypeOK, StoreTypeOK
   <4> QED BY <4>1
  <3>3. claim' = TornClaim /\ ~sendClaim' /\ UNCHANGED <<parent, dirs, file, window, verdict>>
    BY <2>2, <3>1 DEF TearClaim, Leave
  <3>4. claim.outcome \notin {"dispatched", "unknown"} BY <3>1, ClaimValues
  <3> QED BY <3>2, <3>3, <3>4, Known, StoreEmptied
 <2> QED BY <2>1, <2>2
<1> QED BY <1>3, <1>4 DEF Kept

-----------------------------------------------------------------------------
(* Types, and what a running process leaves alone *)

(* The control of cleaning up: the next step, and nobody else's. *)
LEMMA CleanControl ==
  ASSUME TypeOK, NEW p \in Procs, CleanStep(p) PROVE ControlTypeOK' /\ Alone(p)
<1> USE RequestValues DEF TypeOK, ControlTypeOK, MemoryTypeOK, Steps, Ops, Staging, Cleaning, Codes
<1>1. CASE Scan(p) BY ZenonT(60), <1>1 DEF Scan, Alone
<1>2. CASE DeleteFile(p) BY <1>2 DEF DeleteFile, Shrunk, Used, Alone
<1>3. CASE DeleteDir(p) BY <1>3 DEF DeleteDir, Used, Alone
<1>4. CASE Tidy(p)
 <2>1. after[p] \in Steps BY <1>4
 <2>2. ControlTypeOK'
  <3>1. CASE parent /\ dirs # {} BY <1>4, <3>1 DEF Tidy
  <3>2. CASE ~(parent /\ dirs # {})
   <4>1. code' = code /\ pc' \in [Procs -> Steps] BY <1>4, <2>1, <3>2 DEF Tidy
   <4> QED BY <4>1
  <3> QED BY <3>1, <3>2
 <2>3. Alone(p) BY <1>4 DEF Tidy, Alone
 <2> QED BY <2>2, <2>3
<1>5. CASE Rewrite(p) BY <1>5 DEF Rewrite, Alone
<1>6. CASE Unclaim(p) BY <1>6 DEF Unclaim, Result, Alone
<1>7. CASE CleanupChanged(p) BY <1>7 DEF CleanupChanged, Alone
<1>8. CASE CleanupFails(p) BY <1>8 DEF CleanupFails, Alone
<1> QED BY <1>1, <1>2, <1>3, <1>4, <1>5, <1>6, <1>7, <1>8 DEF CleanStep

(* The control of beginning a handoff: the next step, and nobody else's. *)
LEMMA BeginControl ==
  ASSUME TypeOK, NEW p \in Procs, BeginStep(p) PROVE ControlTypeOK' /\ Alone(p)
<1> USE RequestValues DEF TypeOK, ControlTypeOK, MemoryTypeOK, Steps, Ops, Staging, Cleaning, Codes
<1>1. CASE ReadFails(p) BY <1>1 DEF ReadFails, Alone
<1>2. CASE BeginRecovers(p) BY <1>2 DEF BeginRecovers, Alone
<1>3. CASE BeginFresh(p) BY <1>3 DEF BeginFresh, Alone
<1>4. CASE BeginRefused(p) BY <1>4 DEF BeginRefused, Alone
<1>5. CASE Create(p) BY <1>5 DEF Create, Alone
<1>6. CASE CreateFails(p) BY <1>6 DEF CreateFails, Alone
<1>7. CASE MakeParent(p) BY <1>7 DEF MakeParent, Alone
<1>8. CASE MakeDir(p) BY <1>8 DEF MakeDir, Alone
<1>9. CASE Stage(p) BY <1>9 DEF Stage, Grown, Unstaged, Alone
<1>10. CASE Staged(p) BY <1>10 DEF Staged, Alone
<1>11. CASE Retain(p) BY <1>11 DEF Retain, WithSnapshots, Alone
<1>12. CASE StageFails(p) BY <1>12 DEF StageFails, WithSnapshots, MayReplace, Alone
<1>13. CASE StageCanceled(p) BY <1>13 DEF StageCanceled, Alone
<1>14. CASE Recover(p) BY ZenonT(60), <1>14 DEF Recover, Alone
<1> QED BY <1>1, <1>2, <1>3, <1>4, <1>5, <1>6, <1>7, <1>8, <1>9, <1>10, <1>11, <1>12, <1>13,
<1>14 DEF BeginStep

(* The control of dispatching: the next step, and nobody else's. *)
LEMMA DispatchControl ==
  ASSUME TypeOK, NEW p \in Procs, DispatchStep(p) PROVE ControlTypeOK' /\ Alone(p)
<1> USE RequestValues DEF TypeOK, ControlTypeOK, MemoryTypeOK, Steps, Ops, Staging, Cleaning, Codes
<1>1. CASE MarkDispatched(p) BY <1>1 DEF MarkDispatched, Alone
<1>2. CASE NotDispatched(p) BY <1>2 DEF NotDispatched, MayReplace, Alone
<1>3. CASE Cancel(p) BY <1>3 DEF Cancel, Alone
<1>4. CASE NotInvoked(p) BY <1>4 DEF NotInvoked, Decide, Alone
<1>5. CASE Invoke(p) BY <1>5 DEF Invoke, Alone
<1>6. CASE Answered(p) BY <1>6 DEF Answered, Decide, Alone
<1>7. CASE Unanswered(p) BY <1>7 DEF Unanswered, Decide, Alone
<1>8. CASE Finish(p) BY ZenonT(60), <1>8 DEF Finish, Confirm, Alone
<1> QED BY <1>1, <1>2, <1>3, <1>4, <1>5, <1>6, <1>7, <1>8 DEF DispatchStep

(* The control of the other operations: the next step, and nobody else's. *)
LEMMA OtherControl ==
  ASSUME TypeOK, NEW p \in Procs, OtherStep(p) PROVE ControlTypeOK' /\ Alone(p)
<1> USE RequestValues DEF TypeOK, ControlTypeOK, MemoryTypeOK, Steps, Ops, Staging, Cleaning, Codes
<1>1. CASE ReconcileRefused(p) BY ZenonT(60), <1>1 DEF ReconcileRefused, Alone
<1>2. CASE ReconcileResumes(p) BY <1>2 DEF ReconcileResumes, Alone
<1>3. CASE ReconcileRecords(p) BY <1>3 DEF ReconcileRecords, Confirm, Alone
<1>4. CASE Update(p) BY <1>4 DEF Update, Alone
<1>5. CASE UpdateRefused(p) BY <1>5 DEF UpdateRefused, Alone
<1>6. CASE Send(p) BY <1>6 DEF Send, Alone
<1>7. CASE SendRefused(p) BY <1>7 DEF SendRefused, Alone
<1>8. CASE SendEnds(p) BY ZenonT(60), <1>8 DEF SendEnds, Alone
<1>9. CASE Prune(p) BY ZenonT(60), <1>9 DEF Prune, Alone
<1>10. CASE Discard(p) BY <1>10 DEF Discard, Alone
<1>11. CASE DiscardRefused(p) BY <1>11 DEF DiscardRefused, Alone
<1>12. CASE RemoveDoc(p) BY ZenonT(60), <1>12 DEF RemoveDoc, Alone
<1>13. CASE RemoveClaims(p) BY <1>13 DEF RemoveClaims, Alone
<1>14. CASE SweepKeeps(p) BY ZenonT(60), <1>14 DEF SweepKeeps, Alone
<1>15. CASE SweepResumes(p) BY <1>15 DEF SweepResumes, Alone
<1>16. CASE SweepCancels(p) BY ZenonT(60), <1>16 DEF SweepCancels, Alone
<1>17. CASE SweepClaims(p) BY ZenonT(60), <1>17 DEF SweepClaims, Alone
<1> QED BY <1>1, <1>2, <1>3, <1>4, <1>5, <1>6, <1>7, <1>8, <1>9, <1>10, <1>11, <1>12, <1>13,
<1>14, <1>15, <1>16, <1>17 DEF OtherStep

(* The files of cleaning up. *)
LEMMA CleanStore ==
  ASSUME HandoffInv, NEW p \in Procs, CleanStep(p) PROVE StoreTypeOK'
<1> USE Known, ClaimFields, ClaimValues DEF TypeOK, StoreTypeOK
<1>1. CASE DeleteFile(p)
 <2>1. att[p].id \in Attempts BY <1>1, CleaningKnows DEF DeleteFile, Cleaning
 <2>2. \A f \in FileStates : Shrunk(f) \in FileStates BY DEF FileStates, Shrunk
 <2>3. PICK i \in Index : file' = [file EXCEPT ![att[p].id][i] = Shrunk(file[att[p].id][i])]
   BY <1>1 DEF DeleteFile, Used
 <2>4. file[att[p].id] \in [Index -> FileStates] BY <2>1
 <2>5. file[att[p].id][i] \in FileStates BY <2>4
 <2>6. Shrunk(file[att[p].id][i]) \in FileStates BY <2>2, <2>5
 <2>7. file' \in [Attempts -> [Index -> FileStates]] BY ZenonT(60), <2>1, <2>3, <2>6
 <2> QED BY <1>1, <2>7 DEF DeleteFile
<1>2. CASE DeleteDir(p) BY <1>2 DEF DeleteDir, Used, MemoryTypeOK, Outcomes, Started, Terminal
<1>3. CASE Tidy(p) BY <1>3 DEF Tidy, MemoryTypeOK, Outcomes, Started, Terminal
<1>4. CASE Rewrite(p)
  BY ZenonT(60), <1>4 DEF Rewrite, MemoryTypeOK, Outcomes, Started, Terminal
<1>5. CASE Unclaim(p) BY <1>5 DEF Unclaim, MemoryTypeOK, Outcomes, Started, Terminal
<1>6. CASE Scan(p) \/ CleanupChanged(p) \/ CleanupFails(p)
 <2>1. UNCHANGED <<doc, sendClaim, claim, parent, dirs, file, window, verdict, lease>>
   BY <1>6 DEF Scan, CleanupChanged, CleanupFails
 <2> QED BY <2>1
<1> QED BY <1>1, <1>2, <1>3, <1>4, <1>5, <1>6 DEF CleanStep

(* The memory of cleaning up. *)
LEMMA CleanMemory ==
  ASSUME HandoffInv, NEW p \in Procs, CleanStep(p) PROVE MemoryTypeOK'
<1> USE DEF MemoryTypeOK
<1>a. TypeOK /\ MemoryTypeOK /\ doc \in Revs \cup {NoRev} /\ claim \in Attempt /\ claim' \in Attempt
  BY CleanStore, Known DEF TypeOK, StoreTypeOK
<1>1. CASE Rewrite(p)
  BY <1>a, <1>1, ClaimFields, ClaimValues DEF Rewrite, Outcomes, Started, Terminal
<1>2. CASE Unclaim(p)
  BY <1>a, <1>2, ClaimFields, ClaimValues DEF Unclaim, Outcomes, Started, Terminal
<1>3. CASE Scan(p) \/ DeleteFile(p) \/ DeleteDir(p) \/ Tidy(p) \/ CleanupChanged(p) \/
           CleanupFails(p)
 <2>1. UNCHANGED <<req, att, draft, after>>
   BY <1>3 DEF Scan, DeleteFile, DeleteDir, Tidy, CleanupChanged, CleanupFails
 <2> QED BY <1>a, <2>1
<1> QED BY <1>1, <1>2, <1>3 DEF CleanStep

(* The files of beginning a handoff. *)
LEMMA BeginStore ==
  ASSUME HandoffInv, NEW p \in Procs, BeginStep(p) PROVE StoreTypeOK'
<1> USE Known, ClaimFields, ClaimValues DEF TypeOK, StoreTypeOK
<1>1. CASE Create(p)
 <2>1. PICK a \in Attempts : claim' = [NoClaim EXCEPT !.id = a, !.outcome = "prepared"]
   BY <1>1 DEF Create
 <2> QED BY <1>1, <2>1 DEF Create
<1>2. CASE MakeParent(p) BY <1>2 DEF MakeParent, MemoryTypeOK, Outcomes, Started, Terminal
<1>3. CASE MakeDir(p)
 <2>1. att[p].id \in Attempts BY <1>3, StagingKnows DEF MakeDir, Staging
 <2> QED BY <1>3, <2>1 DEF MakeDir
<1>4. CASE Stage(p)
 <2>1. att[p].id \in Attempts BY <1>4, StagingKnows DEF Stage, Staging
 <2>2. \A f \in FileStates : Grown(f) \in FileStates BY DEF FileStates, Grown
 <2>3. PICK i \in Index : file' = [file EXCEPT ![att[p].id][i] = Grown(file[att[p].id][i])]
   BY <1>4 DEF Stage, Unstaged
 <2>4. file[att[p].id] \in [Index -> FileStates] BY <2>1
 <2>5. file[att[p].id][i] \in FileStates BY <2>4
 <2>6. Grown(file[att[p].id][i]) \in FileStates BY <2>2, <2>5
 <2>7. file' \in [Attempts -> [Index -> FileStates]] BY ZenonT(60), <2>1, <2>3, <2>6
 <2> QED BY <1>4, <2>7 DEF Stage
<1>5. CASE Retain(p)
 <2>1. claim' \in Attempt BY <1>5, RetainedClaim DEF Retain, Staging
 <2> QED BY <1>5, <2>1 DEF Retain
<1>6. CASE StageFails(p)
 <2>1. claim' = claim \/ (claim' = WithSnapshots(p) /\ WithSnapshots(p) \in Attempt)
   BY <1>6, RetainedClaim DEF StageFails, MayReplace
 <2> QED BY ZenonT(60), <1>6, <2>1 DEF StageFails
<1>7. CASE Recover(p)
 <2> DEFINE d == [claim EXCEPT !.outcome = "canceled"]
 <2>1. d \in Attempt BY DEF Outcomes, Terminal
 <2>2. /\ claim' \in {claim, d}
       /\ UNCHANGED <<doc, sendClaim, parent, dirs, file, window, verdict, lease>>
   BY <1>7 DEF Recover
 <2> QED BY ZenonT(60), <2>1, <2>2
<1>8. CASE ReadFails(p) \/ BeginRecovers(p) \/ BeginFresh(p) \/ BeginRefused(p) \/
           CreateFails(p) \/ Staged(p) \/ StageCanceled(p)
 <2>1. UNCHANGED <<doc, sendClaim, claim, parent, dirs, file, window, verdict, lease>>
   BY <1>8 DEF ReadFails, BeginRecovers, BeginFresh, BeginRefused, CreateFails, Staged,
      StageCanceled
 <2> QED BY <2>1
<1> QED BY <1>1, <1>2, <1>3, <1>4, <1>5, <1>6, <1>7, <1>8 DEF BeginStep

(* The memory of beginning a handoff. *)
LEMMA BeginMemory ==
  ASSUME HandoffInv, NEW p \in Procs, BeginStep(p) PROVE MemoryTypeOK'
<1> USE DEF MemoryTypeOK
<1>a. TypeOK /\ MemoryTypeOK /\ doc \in Revs \cup {NoRev} /\ claim \in Attempt /\ claim' \in Attempt
  BY BeginStore, Known DEF TypeOK, StoreTypeOK
<1>1. CASE BeginRecovers(p)
  BY <1>a, <1>1, ClaimFields, ClaimValues DEF BeginRecovers, Outcomes, Started, Terminal
<1>2. CASE BeginFresh(p)
  BY <1>a, <1>2, ClaimFields, ClaimValues DEF BeginFresh, Outcomes, Started, Terminal
<1>3. CASE Create(p)
  BY <1>a, <1>3, ClaimFields, ClaimValues DEF Create, Outcomes, Started, Terminal
<1>4. CASE Retain(p)
  BY <1>a, <1>4, ClaimFields, ClaimValues DEF Retain, WithSnapshots, Outcomes, Started, Terminal
<1>5. CASE Recover(p)
 <2>1. att' \in [Procs -> Attempt] /\ UNCHANGED <<req, draft, after>>
   BY <1>a, <1>5 DEF Recover
 <2> QED BY <1>a, <2>1
<1>6. CASE ReadFails(p) \/ BeginRefused(p) \/ CreateFails(p) \/ MakeParent(p) \/ MakeDir(p) \/
           Stage(p) \/ Staged(p) \/ StageFails(p) \/ StageCanceled(p)
 <2>1. UNCHANGED <<req, att, draft, after>>
   BY <1>6 DEF ReadFails, BeginRefused, CreateFails, MakeParent, MakeDir, Stage, Staged,
      StageFails, StageCanceled
 <2> QED BY <1>a, <2>1
<1> QED BY <1>1, <1>2, <1>3, <1>4, <1>5, <1>6 DEF BeginStep

(* The files of dispatching. *)
LEMMA DispatchStore ==
  ASSUME HandoffInv, NEW p \in Procs, DispatchStep(p) PROVE StoreTypeOK'
<1> USE Known, ClaimFields, ClaimValues DEF TypeOK, StoreTypeOK
<1>1. CASE MarkDispatched(p)
  BY <1>1 DEF MarkDispatched, MemoryTypeOK, Outcomes, Started, Terminal
<1>2. CASE NotDispatched(p)
 <2> DEFINE d == [att[p] EXCEPT !.outcome = "dispatched"]
 <2>1. d \in Attempt BY DispatchRecord DEF Outcomes, Started
 <2>2. claim' \in {claim, d} BY <1>2 DEF NotDispatched, MayReplace
 <2> QED BY ZenonT(60), <1>2, <2>1, <2>2 DEF NotDispatched
<1>3. CASE Cancel(p) BY <1>3 DEF Cancel, MemoryTypeOK, Outcomes, Started, Terminal
<1>4. CASE Invoke(p) BY <1>4 DEF Invoke, MemoryTypeOK, Outcomes, Started, Terminal
<1>5. CASE Finish(p)
 <2>1. claim' = att[p] /\ att[p] \in Attempt BY <1>5, Entries DEF Finish
 <2>2. verdict' = verdict \/ verdict' = [verdict EXCEPT ![att[p].id] = "mail"]
   BY <1>5 DEF Finish, Confirm
 <2> QED BY ZenonT(60), <1>5, <2>1, <2>2 DEF Finish
<1>6. CASE NotInvoked(p) \/ Answered(p) \/ Unanswered(p)
 <2>1. UNCHANGED <<doc, sendClaim, claim, parent, dirs, file, window, verdict, lease>>
   BY <1>6 DEF NotInvoked, Answered, Unanswered, Decide
 <2> QED BY <2>1
<1> QED BY <1>1, <1>2, <1>3, <1>4, <1>5, <1>6 DEF DispatchStep

(* The memory of dispatching. *)
LEMMA DispatchMemory ==
  ASSUME HandoffInv, NEW p \in Procs, DispatchStep(p) PROVE MemoryTypeOK'
<1> USE DEF MemoryTypeOK
<1>a. TypeOK /\ MemoryTypeOK /\ doc \in Revs \cup {NoRev} /\ claim \in Attempt /\ claim' \in Attempt
  BY DispatchStore, Known DEF TypeOK, StoreTypeOK
<1>1. CASE MarkDispatched(p)
  BY <1>a, <1>1, ClaimFields, ClaimValues DEF MarkDispatched, Outcomes, Started, Terminal
<1>2. CASE Cancel(p)
  BY <1>a, <1>2, ClaimFields, ClaimValues DEF Cancel, Outcomes, Started, Terminal
<1>3. CASE NotInvoked(p)
  BY <1>a, <1>3, ClaimFields, ClaimValues DEF NotInvoked, Decide, Outcomes, Started, Terminal
<1>4. CASE Answered(p)
  BY <1>a, <1>4, ClaimFields, ClaimValues DEF Answered, Decide, Outcomes, Started, Terminal
<1>5. CASE Unanswered(p)
  BY <1>a, <1>5, ClaimFields, ClaimValues DEF Unanswered, Decide, Outcomes, Started, Terminal
<1>6. CASE NotDispatched(p) \/ Invoke(p) \/ Finish(p)
 <2>1. UNCHANGED <<req, att, draft, after>> BY <1>6 DEF NotDispatched, Invoke, Finish
 <2> QED BY <1>a, <2>1
<1> QED BY <1>1, <1>2, <1>3, <1>4, <1>5, <1>6 DEF DispatchStep

(* The files of the other operations. *)
LEMMA OtherStore ==
  ASSUME HandoffInv, NEW p \in Procs, OtherStep(p) PROVE StoreTypeOK'
<1> USE Known, ClaimFields, ClaimValues DEF TypeOK, StoreTypeOK
<1>1. CASE ReconcileRecords(p)
 <2> DEFINE d == [claim EXCEPT !.outcome = req[p].res]
 <2>1. req[p].res \in Outcomes
  <3>1. req[p] \in Requests BY DEF MemoryTypeOK
  <3> QED BY <3>1, RequestValues DEF Outcomes, Started
 <2>2. claim' = d /\ d \in Attempt BY <1>1, <2>1 DEF ReconcileRecords
 <2>3. verdict' \in [Attempts -> {"none", "mail", "person"}]
   BY <1>1 DEF ReconcileRecords, Confirm
 <2> QED BY <1>1, <2>2, <2>3 DEF ReconcileRecords
<1>2. CASE Update(p) BY <1>2 DEF Update, MemoryTypeOK, Outcomes, Started, Terminal
<1>3. CASE Send(p) BY <1>3 DEF Send, MemoryTypeOK, Outcomes, Started, Terminal
<1>4. CASE SendEnds(p) BY <1>4 DEF SendEnds, MemoryTypeOK, Outcomes, Started, Terminal
<1>5. CASE RemoveDoc(p) BY <1>5 DEF RemoveDoc, MemoryTypeOK, Outcomes, Started, Terminal
<1>6. CASE RemoveClaims(p) BY <1>6 DEF RemoveClaims, MemoryTypeOK, Outcomes, Started, Terminal
<1>7. CASE SweepCancels(p)
 <2> DEFINE d == [claim EXCEPT !.outcome = "canceled"]
 <2>1. d \in Attempt BY DEF Outcomes, Terminal
 <2>2. /\ claim' \in {claim, d}
       /\ UNCHANGED <<doc, sendClaim, parent, dirs, file, window, verdict, lease>>
   BY <1>7 DEF SweepCancels
 <2> QED BY ZenonT(60), <2>1, <2>2
<1>8. CASE SweepClaims(p) BY <1>8 DEF SweepClaims, MemoryTypeOK, Outcomes, Started, Terminal
<1>9. CASE ReconcileRefused(p) \/ ReconcileResumes(p) \/ UpdateRefused(p) \/ SendRefused(p) \/
           Prune(p) \/ Discard(p) \/ DiscardRefused(p) \/ SweepKeeps(p) \/ SweepResumes(p)
 <2>1. UNCHANGED <<doc, sendClaim, claim, parent, dirs, file, window, verdict, lease>>
   BY <1>9 DEF ReconcileRefused, ReconcileResumes, UpdateRefused, SendRefused, Prune, Discard,
      DiscardRefused, SweepKeeps, SweepResumes
 <2> QED BY <2>1
<1> QED BY <1>1, <1>2, <1>3, <1>4, <1>5, <1>6, <1>7, <1>8, <1>9 DEF OtherStep

(* The memory of the other operations. *)
LEMMA OtherMemory ==
  ASSUME HandoffInv, NEW p \in Procs, OtherStep(p) PROVE MemoryTypeOK'
<1> USE DEF MemoryTypeOK
<1>a. TypeOK /\ MemoryTypeOK /\ doc \in Revs \cup {NoRev} /\ claim \in Attempt /\ claim' \in Attempt
  BY OtherStore, Known DEF TypeOK, StoreTypeOK
<1>1. CASE ReconcileResumes(p)
  BY <1>a, <1>1, ClaimFields, ClaimValues DEF ReconcileResumes, Outcomes, Started, Terminal
<1>2. CASE ReconcileRecords(p)
  BY <1>a, <1>2, ClaimFields, ClaimValues DEF ReconcileRecords, Outcomes, Started, Terminal
<1>3. CASE Discard(p)
  BY <1>a, <1>3, ClaimFields, ClaimValues DEF Discard, Outcomes, Started, Terminal
<1>4. CASE SweepResumes(p)
  BY <1>a, <1>4, ClaimFields, ClaimValues DEF SweepResumes, Outcomes, Started, Terminal
<1>5. CASE SweepCancels(p)
 <2>1. att' \in [Procs -> Attempt] /\ UNCHANGED <<req, draft>> BY <1>a, <1>5 DEF SweepCancels
 <2>2. after' \in [Procs -> {"return", "create", "remove", "orphans"}]
   BY <1>a, <1>5 DEF SweepCancels
 <2> QED BY <1>a, <2>1, <2>2
<1>6. CASE ReconcileRefused(p) \/ Update(p) \/ UpdateRefused(p) \/ Send(p) \/ SendRefused(p) \/
           SendEnds(p) \/ Prune(p) \/ DiscardRefused(p) \/ RemoveDoc(p) \/ RemoveClaims(p) \/
           SweepKeeps(p) \/ SweepClaims(p)
 <2>1. UNCHANGED <<req, att, draft, after>>
   BY <1>6 DEF ReconcileRefused, Update, UpdateRefused, Send, SendRefused, SendEnds, Prune,
      DiscardRefused, RemoveDoc, RemoveClaims, SweepKeeps, SweepClaims
 <2> QED BY <1>a, <2>1
<1> QED BY <1>1, <1>2, <1>3, <1>4, <1>5, <1>6 DEF OtherStep
-----------------------------------------------------------------------------
(* Every step keeps the invariant *)

(* Cleaning up keeps the invariant. *)
LEMMA CleanKept == ASSUME HandoffInv, NEW p \in Procs, CleanStep(p) PROVE Kept(p)
<1>1. CASE CleanupChanged(p) BY <1>1, QuietReturn DEF CleanupChanged
<1>2. CASE CleanupFails(p) BY <1>2, QuietReturn DEF CleanupFails
<1>3. CASE ~(CleanupChanged(p) \/ CleanupFails(p))
  BY <1>3, ScanKept, DeleteFileKept, DeleteDirKept, TidyKept, RewriteKept,
       UnclaimKept DEF CleanStep
<1> QED BY <1>1, <1>2, <1>3

(* Beginning a handoff keeps the invariant. *)
LEMMA BeginKept == ASSUME HandoffInv, NEW p \in Procs, BeginStep(p) PROVE Kept(p)
<1>1. CASE ReadFails(p) BY <1>1, QuietReturn DEF ReadFails
<1>2. CASE BeginRefused(p) BY <1>2, QuietReturn DEF BeginRefused
<1>3. CASE CreateFails(p) BY <1>3, QuietReturn DEF CreateFails
<1>4. CASE StageCanceled(p) BY <1>4, QuietReturn DEF StageCanceled
<1>5. CASE ~(ReadFails(p) \/ BeginRefused(p) \/ CreateFails(p) \/ StageCanceled(p))
  BY <1>5, BeginRecoversKept, BeginFreshKept, CreateKept, MakeParentKept, MakeDirKept,
       StageKept, StagedKept, RetainKept, StageFailsKept, RecoverKept DEF BeginStep
<1> QED BY <1>1, <1>2, <1>3, <1>4, <1>5

(* Dispatching keeps the invariant. *)
LEMMA DispatchKept == ASSUME HandoffInv, NEW p \in Procs, DispatchStep(p) PROVE Kept(p)
BY MarkDispatchedKept, NotDispatchedKept, CancelKept, DecidingKept, InvokeKept, FinishKept
   DEF DispatchStep

(* Each of the other operations keeps the invariant. *)
LEMMA OtherKept == ASSUME HandoffInv, NEW p \in Procs, OtherStep(p) PROVE Kept(p)
<1>1. CASE ReconcileRefused(p) BY <1>1, QuietReturn DEF ReconcileRefused
<1>2. CASE UpdateRefused(p) BY <1>2, QuietReturn DEF UpdateRefused
<1>3. CASE SendRefused(p) BY <1>3, QuietReturn DEF SendRefused
<1>4. CASE DiscardRefused(p) BY <1>4, QuietReturn DEF DiscardRefused
<1>5. CASE SweepKeeps(p) BY <1>5, QuietReturn DEF SweepKeeps
<1>6. CASE ~(ReconcileRefused(p) \/ UpdateRefused(p) \/ SendRefused(p) \/ DiscardRefused(p) \/ SweepKeeps(p))
  BY <1>6, ReconcileResumesKept, ReconcileRecordsKept, UpdateKept, SendKept, SendEndsKept,
       PruneKept, DiscardKept, RemoveDocKept, RemoveClaimsKept, SweepResumesKept,
       SweepCancelsKept, SweepClaimsKept DEF OtherStep
<1> QED BY <1>1, <1>2, <1>3, <1>4, <1>5, <1>6

(* A running operation keeps the invariant. *)
LEMMA RunInv == ASSUME HandoffInv, NEW p \in Procs, Run(p) PROVE HandoffInv'
<1>1. StoreTypeOK' BY CleanStore, BeginStore, DispatchStore, OtherStore DEF Run
<1>2. MemoryTypeOK' BY CleanMemory, BeginMemory, DispatchMemory, OtherMemory DEF Run
<1>3. ControlTypeOK' /\ Alone(p)
  BY Known, CleanControl, BeginControl, DispatchControl, OtherControl DEF Run
<1>4. Kept(p) BY CleanKept, BeginKept, DispatchKept, OtherKept DEF Run
<1> QED BY <1>1, <1>2, <1>3, <1>4, Moved DEF Kept, TypeOK

(* A process that moves beside the others leaves them where they were. *)
LEMMA Bystander ==
  ASSUME HandoffInv, NEW q \in Procs,
         UNCHANGED <<claim, sendClaim, parent, dirs, file, window>>,
         pc'[q] = pc[q], att'[q] = att[q], draft'[q] = draft[q], after'[q] = after[q]
  PROVE  AtStep(q)'
<1>1. BeginAt(q)' BY Known DEF BeginAt, Complete
<1>2. DispatchAt(q)' BY Known DEF DispatchAt, Retained, Complete
<1>3. CleanAt(q)' BY Known DEF CleanAt
<1> QED BY <1>1, <1>2, <1>3 DEF AtStep

(* A draft operation is asked for. *)
LEMMA RequestInv == ASSUME HandoffInv, NEW p \in Procs, Request(p) PROVE HandoffInv'
<1>1. /\ UNCHANGED <<doc, sendClaim, claim, parent, dirs, file, window, verdict, lease>>
      /\ UNCHANGED <<att, draft, after, code>>
      /\ pc[p] = "idle" /\ pc' = [pc EXCEPT ![p] = "wait"] BY DEF Request
<1>2. TypeOK'
 <2>1. StoreTypeOK' /\ ControlTypeOK'
   BY <1>1, Known DEF TypeOK, StoreTypeOK, ControlTypeOK, Steps
 <2>2. PICK r \in Requests : req' = [req EXCEPT ![p] = r] BY DEF Request
 <2>3. MemoryTypeOK' BY <1>1, <2>2, Known DEF TypeOK, MemoryTypeOK
 <2> QED BY <2>1, <2>3 DEF TypeOK
<1>3. Exclusive' BY <1>1, Known DEF HandoffInv, Exclusive, TypeOK, ControlTypeOK
<1>4. StoreInv' BY <1>1, Known, StoreUnchanged
<1>5. ASSUME NEW q \in Procs PROVE AtStep(q)'
 <2>1. CASE q = p
  <3>1. pc'[p] = "wait" /\ att'[p] = NoClaim /\ (after[p] = "create" => draft[p] \in Revs)
    BY <1>1, Known DEF BeginAt, TypeOK, ControlTypeOK
  <3> QED BY <1>1, <2>1, <3>1
          DEF AtStep, BeginAt, DispatchAt, CleanAt, Ops, Staging, Cleaning
 <2>2. CASE q # p
  <3>1. pc'[q] = pc[q] BY <1>1, <2>2, Known DEF TypeOK, ControlTypeOK
  <3> QED BY <1>1, <3>1, Bystander
 <2> QED BY <2>1, <2>2
<1> QED BY <1>2, <1>3, <1>4, <1>5 DEF HandoffInv, MemoryInv

(* The lease is taken where nobody runs (acquireDraftLease). *)
LEMMA AcquireInv == ASSUME HandoffInv, NEW p \in Procs, Acquire(p) PROVE HandoffInv'
<1>1. /\ UNCHANGED <<doc, sendClaim, claim, parent, dirs, file, window, verdict>>
      /\ UNCHANGED <<req, att, draft, after, code>>
      /\ pc[p] = "wait" /\ pc' = [pc EXCEPT ![p] = req[p].op]
      /\ lease = NoProc /\ lease' = p BY DEF Acquire
<1>2. req[p].op \in Ops
 <2>1. req[p] \in Requests BY Known DEF TypeOK, MemoryTypeOK
 <2> QED BY <2>1, RequestValues
<1>3. TypeOK'
 <2>1. StoreTypeOK' /\ MemoryTypeOK' BY <1>1, Known DEF TypeOK, StoreTypeOK, MemoryTypeOK
 <2>2. ControlTypeOK' BY <1>1, <1>2, Known DEF TypeOK, ControlTypeOK, Steps
 <2> QED BY <2>1, <2>2 DEF TypeOK
<1>4. \A q \in Procs \ {p} : pc'[q] = pc[q] /\ pc[q] \in {"idle", "wait"}
  BY <1>1, Known DEF HandoffInv, Exclusive, TypeOK, ControlTypeOK
<1>5. Exclusive' BY <1>1, <1>4 DEF Exclusive
<1>6. StoreInv' BY <1>1, Known, StoreUnchanged
<1>7. ASSUME NEW q \in Procs PROVE AtStep(q)'
 <2>1. CASE q = p
  <3>1. pc'[p] \in Ops /\ att'[p] = NoClaim /\ (after[p] = "create" => draft[p] \in Revs)
    BY <1>1, <1>2, Known DEF BeginAt, TypeOK, ControlTypeOK
  <3> QED BY <1>1, <2>1, <3>1, ArriveStart DEF Ops
 <2>2. CASE q # p BY <1>1, <1>4, <2>2, Bystander
 <2> QED BY <2>1, <2>2
<1> QED BY <1>3, <1>5, <1>6, <1>7 DEF HandoffInv, MemoryInv

(* Done, or killed: also the claim that tears is nobody's afterwards. *)
LEMMA LeavingInv ==
  ASSUME HandoffInv, NEW p \in Procs, Release(p) \/ Stop(p) \/ TearClaim(p)
  PROVE  HandoffInv'
<1>1. Leave(p) /\ claim' \in {claim, TornClaim} BY DEF Release, Stop, TearClaim
<1>2. TypeOK'
 <2>1. StoreTypeOK' BY <1>1, Known, ClaimValues DEF Leave, TypeOK, StoreTypeOK
 <2>2. ControlTypeOK' BY <1>1, Known DEF Leave, TypeOK, ControlTypeOK, Steps, Codes
 <2>3. MemoryTypeOK'
   BY <1>1, Known, ClaimValues, RequestValues DEF Leave, TypeOK, MemoryTypeOK
 <2> QED BY <2>1, <2>2, <2>3 DEF TypeOK
<1>3. /\ pc'[p] = "idle"
      /\ lease' = lease \/ (lease = p /\ lease' = NoProc)
      /\ \A q \in Procs \ {p} :
           pc'[q] = pc[q] /\ att'[q] = att[q] /\ draft'[q] = draft[q] /\ after'[q] = after[q]
  BY <1>1, Known DEF Leave, TypeOK, ControlTypeOK, MemoryTypeOK
<1>4. Kept(p) BY LeavingKept
<1>5. CASE pc[p] = "wait"
 <2>1. UNCHANGED <<claim, sendClaim, parent, dirs, file, window>>
   BY <1>1, <1>5 DEF Release, Stop, TearClaim, Leave
 <2>2. \A q \in Procs \ {p} : AtStep(q)' BY <1>3, <2>1, Bystander
 <2>3. Exclusive' BY <1>3 DEF HandoffInv, Exclusive
 <2> QED BY <1>2, <1>4, <2>2, <2>3 DEF HandoffInv, MemoryInv, Kept
<1>6. CASE pc[p] # "wait"
 <2>1. pc[p] # "idle" BY DEF Release, Stop, TearClaim
 <2>2. Alone(p) BY <1>3, <1>6, <2>1 DEF Alone
 <2> QED BY <1>2, <1>4, <2>2, Moved DEF Kept
<1> QED BY <1>5, <1>6

(* Mail answers a request that is open (NSSharingServiceDelegate). *)
LEMMA MailInv == ASSUME HandoffInv, NEW a \in Attempts, Mail(a) PROVE HandoffInv'
<1>1. PICK w \in {"opened", "failed"} : window' = [window EXCEPT ![a] = w] BY DEF Mail
<1>2. /\ UNCHANGED <<doc, sendClaim, claim, parent, dirs, file, verdict, lease, pc>>
      /\ UNCHANGED <<req, att, draft, after, code>>
      /\ window[a] = "called" BY DEF Mail
<1>3. TypeOK /\ StoreInv /\ Exclusive /\ MemoryInv BY DEF HandoffInv
<1>4. TypeOK' BY <1>1, <1>2, <1>3 DEF TypeOK, StoreTypeOK, ControlTypeOK, MemoryTypeOK
<1>5. /\ window'[a] = w /\ \A b \in Attempts \ {a} : window'[b] = window[b]
      /\ \A b \in Attempts : window'[b] = "none" <=> window[b] = "none"
  BY <1>1, <1>2, <1>3 DEF TypeOK, StoreTypeOK
<1>6. StoreInv'
 <2>1. \A b \in Attempts : Unresolved(b)' <=> Unresolved(b) BY <1>2, <1>5 DEF Unresolved
 <2>2. EvidenceKept' /\ VerdictShape'
   BY <1>2, <1>3, <1>5, <2>1 DEF StoreInv, EvidenceKept, VerdictShape
 <2>3. OutcomeTrue'
  <3>1. CASE claim.id = a
    BY <1>2, <1>3, <1>5, <3>1 DEF StoreInv, OutcomeTrue, EvidenceKept, VerdictShape, Unresolved
  <3>2. CASE claim.id # a /\ claim.id \in Attempts
    BY <1>2, <1>3, <1>5, <3>2 DEF StoreInv, OutcomeTrue
  <3>3. CASE claim.id \notin Attempts
    BY <1>2, <1>3, <3>3, ClaimValues DEF StoreInv, OutcomeTrue, ClaimShape
  <3> QED BY <3>1, <3>2, <3>3
 <2>4. ClaimShape' /\ TreeShape' /\ DispatchRetained' /\ StagingRecoverable' /\ OneWayOut'
   BY <1>2, <1>3 DEF StoreInv, ClaimShape, TreeShape, SnapshotsAccounted, DispatchRetained,
      StagingRecoverable, OneWayOut, Retained, Complete, Used
 <2> QED BY <2>2, <2>3, <2>4 DEF StoreInv
<1>7. ASSUME NEW q \in Procs PROVE AtStep(q)'
 <2>1. BeginAt(q)' /\ CleanAt(q)'
   BY <1>2, <1>3 DEF MemoryInv, AtStep, BeginAt, CleanAt, Complete
 <2>2. DispatchAt(q) BY Known
 <2>3. ASSUME pc[q] \in {"cancel", "invoke", "answer", "finish"} PROVE DispatchAt(q)'
  <3> DEFINE d == [att[q] EXCEPT !.outcome = "dispatched"]
  <3>1. d.id = att[q].id /\ d.outcome = "dispatched" BY DispatchRecord DEF Outcomes, Started
  <3>2. pc[q] # "cancel" => claim.id = att[q].id /\ claim.outcome = "dispatched"
    BY <2>2, <2>3, <3>1 DEF DispatchAt
  <3>3. att[q].id \in Attempts BY <1>3, <2>2, <2>3, <3>2 DEF DispatchAt, StoreInv, ClaimShape
  <3> QED BY <1>2, <1>5, <2>2, <2>3, <3>3 DEF DispatchAt
 <2>4. ASSUME pc[q] \notin {"cancel", "invoke", "answer", "finish"} PROVE DispatchAt(q)'
   BY <1>2, <2>2, <2>4 DEF DispatchAt, Retained, Complete
 <2> QED BY <2>1, <2>3, <2>4 DEF AtStep
<1>8. Exclusive' BY <1>2, <1>3 DEF Exclusive
<1> QED BY <1>4, <1>6, <1>7, <1>8 DEF HandoffInv, MemoryInv

(* The draft file is touched by hand: nothing below depends on it. *)
LEMMA TouchInv == HandoffInv /\ Touch => HandoffInv'
<1> SUFFICES ASSUME HandoffInv, Touch PROVE HandoffInv' OBVIOUS
<1>1. /\ UNCHANGED <<sendClaim, claim, parent, dirs, file, window, verdict, lease, pc>>
      /\ UNCHANGED <<req, att, draft, after, code>>
      /\ doc' \in Revs \cup {NoRev} BY DEF Touch
<1>2. TypeOK' /\ Exclusive'
  BY <1>1 DEF HandoffInv, TypeOK, StoreTypeOK, ControlTypeOK, MemoryTypeOK, Exclusive
<1>3. StoreInv' BY <1>1, StoreUnchanged DEF HandoffInv
<1>4. \A q \in Procs : AtStep(q)' BY <1>1, Bystander
<1> QED BY <1>2, <1>3, <1>4 DEF HandoffInv, MemoryInv

(* Nothing happens. *)
LEMMA StutterInv == HandoffInv /\ UNCHANGED vars => HandoffInv'
<1> SUFFICES ASSUME HandoffInv, UNCHANGED vars PROVE HandoffInv' OBVIOUS
<1>1. /\ UNCHANGED <<doc, sendClaim, claim, parent, dirs, file, window, verdict, lease, pc>>
      /\ UNCHANGED <<req, att, draft, after, code>> BY DEF vars
<1>2. TypeOK' /\ Exclusive'
  BY <1>1 DEF HandoffInv, TypeOK, StoreTypeOK, ControlTypeOK, MemoryTypeOK, Exclusive
<1>3. StoreInv' BY <1>1, StoreUnchanged DEF HandoffInv
<1>4. \A q \in Procs : AtStep(q)' BY <1>1, Bystander
<1> QED BY <1>2, <1>3, <1>4 DEF HandoffInv, MemoryInv

(* A draft that nobody touched yet. *)
LEMMA HandoffStarts == Init => HandoffInv
<1> SUFFICES ASSUME Init PROVE HandoffInv OBVIOUS
<1> USE ClaimValues DEF Init
<1>1. StoreTypeOK /\ ControlTypeOK BY DEF StoreTypeOK, ControlTypeOK, FileStates, Steps, Codes
<1>2. MemoryTypeOK BY RequestValues DEF MemoryTypeOK
<1>3. StoreInv
  BY DEF StoreInv, ClaimShape, TreeShape, VerdictShape, DispatchRetained, EvidenceKept,
     OutcomeTrue, StagingRecoverable, OneWayOut, SnapshotsAccounted, Unresolved, Used
<1>4. Exclusive BY DEF Exclusive
<1>5. \A p \in Procs : AtStep(p)
  BY DEF AtStep, BeginAt, DispatchAt, CleanAt, Ops, Staging, Cleaning
<1> QED BY <1>1, <1>2, <1>3, <1>4, <1>5 DEF HandoffInv, TypeOK, MemoryInv

(* Every step keeps the invariant. *)
LEMMA HandoffSteps == HandoffInv /\ [Next]_vars => HandoffInv'
<1> SUFFICES ASSUME HandoffInv, [Next]_vars PROVE HandoffInv' OBVIOUS
<1>1. ASSUME NEW p \in Procs, Request(p) \/ Acquire(p) \/ Run(p) PROVE HandoffInv'
  BY <1>1, RequestInv, AcquireInv, RunInv
<1>2. ASSUME NEW p \in Procs, Release(p) \/ Stop(p) \/ TearClaim(p) PROVE HandoffInv'
  BY <1>2, LeavingInv
<1>3. ASSUME NEW a \in Attempts, Mail(a) PROVE HandoffInv' BY <1>3, MailInv
<1>4. CASE Touch BY <1>4, TouchInv
<1>5. CASE UNCHANGED vars BY <1>5, StutterInv
<1> QED BY <1>1, <1>2, <1>3, <1>4, <1>5 DEF Next
-----------------------------------------------------------------------------
(* The invariant, and what it says of every reachable state *)

(* Files, claim, Mail and every process agree in every reachable state of  *)
(* the handoff, whatever was killed, failed or touched on the way.         *)
THEOREM HandoffInvariant == Spec => []HandoffInv
<1> QED BY HandoffStarts, HandoffSteps, PTL DEF Spec

(* A window request that nobody confirmed stays on record in the claim     *)
(* (MarkDispatched, discardDraftFiles, removeOrphanHandoffSnapshotTree).   *)
THEOREM EvidenceAlwaysKept == Spec => []EvidenceKept
<1>1. HandoffInv => EvidenceKept BY DEF HandoffInv, StoreInv
<1> QED BY <1>1, HandoffInvariant, PTL

(* Mail finds every attachment it was given until the request is confirmed *)
(* (cleanupTerminalHandoffAttempt, Retain before MarkDispatched).          *)
THEOREM SnapshotsAlwaysKept == Spec => []SnapshotsKept
<1>1. HandoffInv => SnapshotsKept
  BY DEF HandoffInv, StoreInv, EvidenceKept, SnapshotsKept, DispatchRetained, Retained, Complete
<1> QED BY <1>1, HandoffInvariant, PTL

(* A claim never lies about the window (CancelBeforeDispatch, Finish).     *)
THEOREM OutcomeAlwaysTrue == Spec => []OutcomeTrue
<1>1. HandoffInv => OutcomeTrue BY DEF HandoffInv, StoreInv
<1> QED BY <1>1, HandoffInvariant, PTL

(* What an interrupted staging leaves can be cleaned up, and nothing is    *)
(* left that no claim accounts for (stageDraftAttachmentAt,                *)
(* removeHandoffSnapshotAttempt).                                          *)
THEOREM SnapshotsAlwaysAccounted == Spec => [](StagingRecoverable /\ SnapshotsAccounted)
<1>1. HandoffInv => StagingRecoverable /\ SnapshotsAccounted
  BY DEF HandoffInv, StoreInv, TreeShape
<1> QED BY <1>1, HandoffInvariant, PTL

(* A send claim and a handoff claim exclude each other                     *)
(* (rejectClaimedDraft, attachDraftAttempts).                              *)
THEOREM OneWayOutAlways == Spec => []OneWayOut
<1>1. HandoffInv => OneWayOut BY DEF HandoffInv, StoreInv
<1> QED BY <1>1, HandoffInvariant, PTL

-----------------------------------------------------------------------------
(* What a step does to the claim *)

(* The claim stays, is written again for the same attempt, comes where     *)
(* there was none, or goes where nothing is left below it.                 *)
ClaimMoves ==
  \/ claim' = claim
  \/ claim.id = NoAttempt
  \/ /\ claim'.id = claim.id
     /\ claim'.outcome # claim.outcome => claim'.outcome \in Progress(claim.outcome)
  \/ /\ claim' = NoClaim /\ dirs = {} /\ ~parent
     /\ claim.outcome \notin {"dispatched", "unknown"}

(* A cleanup takes the claim away when the snapshots are gone (Unclaim). *)
LEMMA CleanMoves == ASSUME HandoffInv, NEW p \in Procs, CleanStep(p) PROVE ClaimMoves
<1>1. CASE Rewrite(p)
 <2>1. claim = att[p] /\ att[p] \in Attempt BY <1>1, CleaningKnows DEF Rewrite, Cleaning
 <2> DEFINE d == [att[p] EXCEPT !.snaps = NoRev]
 <2>2. d.id = att[p].id /\ d.outcome = att[p].outcome BY <2>1, ClaimFields
 <2> QED BY <1>1, <2>1, <2>2 DEF Rewrite, ClaimMoves
<1>2. CASE Unclaim(p)
 <2>1. claim.outcome \in Terminal \cup {"prepared"} /\ dirs = {} /\ ~parent
   BY <1>2, Known, CleaningKnows DEF Unclaim, Cleaning, CleanAt
 <2> QED BY <1>2, <2>1 DEF Unclaim, ClaimMoves, Terminal
<1>3. CASE ~Rewrite(p) /\ ~Unclaim(p)
  BY <1>3 DEF CleanStep, Scan, DeleteFile, DeleteDir, Tidy, CleanupChanged, CleanupFails, ClaimMoves
<1> QED BY <1>1, <1>2, <1>3

(* Staging writes a prepared claim and at most cancels it. *)
LEMMA BeginMoves == ASSUME HandoffInv, NEW p \in Procs, BeginStep(p) PROVE ClaimMoves
<1>1. CASE Create(p)
 <2>1. claim = NoClaim BY <1>1, Known DEF Create, BeginAt
 <2> QED BY <2>1, ClaimValues DEF ClaimMoves
<1>2. CASE Retain(p) \/ StageFails(p)
 <2>1. pc[p] \in Staging BY <1>2 DEF Retain, StageFails, Staging
 <2>2. claim.outcome = "prepared" BY <2>1, StagingKnows
 <2>3. claim' = claim \/ (claim'.id = claim.id /\ claim'.outcome = "prepared")
   BY <1>2, <2>1, RetainedClaim DEF Retain, StageFails, MayReplace
 <2> QED BY <2>2, <2>3 DEF ClaimMoves
<1>3. CASE Recover(p)
 <2> DEFINE d == [claim EXCEPT !.outcome = "canceled"]
 <2>1. d.id = claim.id /\ d.outcome = "canceled"
   BY Known, Entries, ClaimFields DEF Outcomes, Terminal
 <2>2. claim' = claim \/ (claim' = d /\ claim.outcome = "prepared") BY <1>3 DEF Recover
 <2> QED BY <2>1, <2>2 DEF ClaimMoves, Progress
<1>4. CASE ~Create(p) /\ ~Retain(p) /\ ~StageFails(p) /\ ~Recover(p)
  BY <1>4 DEF BeginStep, ReadFails, BeginRecovers, BeginFresh, BeginRefused, CreateFails,
     MakeParent, MakeDir, Stage, Staged, StageCanceled, ClaimMoves
<1> QED BY <1>1, <1>2, <1>3, <1>4

(* A dispatch moves the outcome forward. *)
LEMMA DispatchMoves == ASSUME HandoffInv, NEW p \in Procs, DispatchStep(p) PROVE ClaimMoves
<1> DEFINE d == [att[p] EXCEPT !.outcome = "dispatched"]
           c == [att[p] EXCEPT !.outcome = "canceled"]
<1>1. d.id = att[p].id /\ d.outcome = "dispatched" /\ c.id = att[p].id /\ c.outcome = "canceled"
  BY DispatchRecord DEF Outcomes, Started, Terminal
<1>2. CASE MarkDispatched(p) \/ NotDispatched(p)
 <2>1. claim = att[p] /\ claim.outcome = "prepared"
   BY <1>2, DispatchKnows DEF MarkDispatched, NotDispatched
 <2>2. claim' = claim \/ claim' = d BY <1>2 DEF MarkDispatched, NotDispatched, MayReplace
 <2> QED BY <1>1, <2>1, <2>2 DEF ClaimMoves, Progress
<1>3. CASE Cancel(p)
 <2>1. claim \in {att[p], d} /\ att[p].outcome = "prepared" /\ claim' = c
   BY <1>3, Known DEF Cancel, DispatchAt
 <2> QED BY <1>1, <2>1 DEF ClaimMoves, Progress
<1>4. CASE Finish(p)
 <2>1. claim = d /\ att[p].outcome \in {"unknown", "opened", "failed"} /\ claim' = att[p]
   BY <1>4, Known DEF Finish, DispatchAt
 <2> QED BY <1>1, <2>1 DEF ClaimMoves, Progress
<1>5. CASE ~MarkDispatched(p) /\ ~NotDispatched(p) /\ ~Cancel(p) /\ ~Finish(p)
  BY <1>5 DEF DispatchStep, NotInvoked, Invoke, Answered, Unanswered, Decide, ClaimMoves
<1> QED BY <1>2, <1>3, <1>4, <1>5

(* A person decides, and a sweep cancels, what is open; a discard finds none. *)
LEMMA OtherMoves == ASSUME HandoffInv, NEW p \in Procs, OtherStep(p) PROVE ClaimMoves
<1>1. CASE ReconcileRecords(p)
 <2> DEFINE d == [claim EXCEPT !.outcome = req[p].res]
 <2>1. req[p].res \in {"opened", "failed"}
  <3>1. req[p] \in Requests BY Known DEF TypeOK, MemoryTypeOK
  <3> QED BY <3>1, RequestValues
 <2>2. d.id = claim.id /\ d.outcome = req[p].res
   BY <2>1, Known, Entries, ClaimFields DEF Outcomes, Started
 <2>3. claim' = d /\ claim.outcome \in {"dispatched", "unknown"} BY <1>1 DEF ReconcileRecords
 <2> QED BY <2>1, <2>2, <2>3 DEF ClaimMoves, Progress
<1>2. CASE SweepCancels(p)
 <2> DEFINE d == [claim EXCEPT !.outcome = "canceled"]
 <2>1. d.id = claim.id /\ d.outcome = "canceled"
   BY Known, Entries, ClaimFields DEF Outcomes, Terminal
 <2>2. claim' = claim \/ (claim' = d /\ claim.outcome = "prepared") BY <1>2 DEF SweepCancels
 <2> QED BY <2>1, <2>2 DEF ClaimMoves, Progress
<1>3. CASE RemoveClaims(p)
 <2>1. claim = NoClaim BY <1>3, Known DEF RemoveClaims, BeginAt
 <2> QED BY <2>1, ClaimValues DEF ClaimMoves
<1>4. CASE ~ReconcileRecords(p) /\ ~SweepCancels(p) /\ ~RemoveClaims(p)
  BY <1>4 DEF OtherStep, ReconcileRefused, ReconcileResumes, Update, UpdateRefused, Send,
     SendRefused, SendEnds, Prune, Discard, DiscardRefused, RemoveDoc, SweepKeeps, SweepResumes,
     SweepClaims, ClaimMoves
<1> QED BY <1>1, <1>2, <1>3, <1>4

(* No other step writes the claim, but one that tears it where none was. *)
LEMMA StepMoves == HandoffInv /\ [Next]_vars => ClaimMoves
<1> SUFFICES ASSUME HandoffInv, [Next]_vars PROVE ClaimMoves OBVIOUS
<1>1. ASSUME NEW p \in Procs, Run(p) PROVE ClaimMoves
  BY <1>1, CleanMoves, BeginMoves, DispatchMoves, OtherMoves DEF Run
<1>2. ASSUME NEW p \in Procs, TearClaim(p) PROVE ClaimMoves
 <2>1. claim = NoClaim BY <1>2, Known DEF TearClaim, BeginAt
 <2> QED BY <2>1, ClaimValues DEF ClaimMoves
<1>3. ASSUME NEW p \in Procs, Request(p) \/ Acquire(p) \/ Release(p) \/ Stop(p) PROVE ClaimMoves
  BY <1>3 DEF Request, Acquire, Release, Stop, ClaimMoves
<1>4. CASE (\E a \in Attempts : Mail(a)) \/ Touch \/ UNCHANGED vars
  BY <1>4 DEF Mail, Touch, vars, ClaimMoves
<1> QED BY <1>1, <1>2, <1>3, <1>4 DEF Next

(* The recorded outcome of an attempt only moves forward (MarkDispatched,  *)
(* Finish, ReconcileDraftHandoff).                                         *)
THEOREM OutcomeMovesForward == Spec => OutcomeForward
<1>1. ASSUME HandoffInv, [Next]_vars, claim.id \in Attempts,
             claim'.id = claim.id, claim'.outcome # claim.outcome
      PROVE  claim'.outcome \in Progress(claim.outcome)
 <2>1. claim' # NoClaim /\ claim.id # NoAttempt /\ claim' # claim
   BY ZenonT(60), <1>1, ClaimValues
 <2> QED BY <1>1, <2>1, StepMoves DEF ClaimMoves
<1>2. HandoffInv /\ [Next]_vars =>
        [claim.id \in Attempts /\ claim'.id = claim.id /\ claim'.outcome # claim.outcome =>
           claim'.outcome \in Progress(claim.outcome)]_vars BY <1>1
<1> QED BY <1>2, HandoffInvariant, PTL DEF Spec, OutcomeForward

(* A claim is given up only below an empty tree, and never while its       *)
(* request is open (removeHandoffAttempt, discardDraftFiles).              *)
THEOREM ClaimOutlivesRequest == Spec => ClaimOutlives
<1>1. HandoffInv /\ [Next]_vars =>
        [claim.id \in Attempts /\ claim'.id # claim.id =>
           /\ dirs = {} /\ ~parent
           /\ window[claim.id] = "none" \/ verdict[claim.id] # "none"]_vars
  BY StepMoves, NothingOpen DEF ClaimMoves, HandoffInv, Unresolved
<1> QED BY <1>1, HandoffInvariant, PTL DEF Spec, ClaimOutlives

-----------------------------------------------------------------------------
(* Only a hand on the file changes a draft with a handoff *)

(* An update, or a discard, finds no claim (UpdateDraft, discardDraftFiles). *)
LEMMA RunFreezes ==
  ASSUME HandoffInv, NEW p \in Procs, Run(p), claim.outcome # "none"
  PROVE  doc' = doc
<1>1. CASE Update(p) BY <1>1 DEF Update
<1>2. CASE RemoveDoc(p) BY <1>2, Known, ClaimValues DEF RemoveDoc, BeginAt
<1>3. CASE CleanStep(p)
  BY <1>3 DEF CleanStep, Scan, DeleteFile, DeleteDir, Tidy, Rewrite, Unclaim, CleanupChanged,
     CleanupFails
<1>4. CASE BeginStep(p)
  BY <1>4 DEF BeginStep, ReadFails, BeginRecovers, BeginFresh, BeginRefused, Create, CreateFails,
     MakeParent, MakeDir, Stage, Staged, Retain, StageFails, StageCanceled, Recover
<1>5. CASE DispatchStep(p)
  BY <1>5 DEF DispatchStep, MarkDispatched, NotDispatched, Cancel, NotInvoked, Invoke, Answered,
     Unanswered, Decide, Finish
<1>6. CASE OtherStep(p) /\ ~Update(p) /\ ~RemoveDoc(p)
  BY <1>6 DEF OtherStep, ReconcileRefused, ReconcileResumes, ReconcileRecords, UpdateRefused, Send,
     SendRefused, SendEnds, Prune, Discard, DiscardRefused, RemoveClaims, SweepKeeps,
     SweepResumes, SweepCancels, SweepClaims
<1> QED BY <1>1, <1>2, <1>3, <1>4, <1>5, <1>6 DEF Run

(* A draft with a handoff on record keeps its content, a hand on the file  *)
(* apart (UpdateDraft, PruneDrafts, discardDraftFiles).                    *)
THEOREM HandoffFreezes == Spec => HandoffFreezesDraft
<1>1. ASSUME HandoffInv, [Next]_vars PROVE [doc' # doc /\ claim.outcome # "none" => pc' = pc]_vars
 <2>1. ASSUME NEW p \in Procs, Run(p), claim.outcome # "none" PROVE doc' = doc
   BY <1>1, <2>1, RunFreezes
 <2>2. ASSUME NEW p \in Procs,
              Request(p) \/ Acquire(p) \/ Release(p) \/ Stop(p) \/ TearClaim(p)
       PROVE  doc' = doc BY <2>2 DEF Request, Acquire, Release, Stop, TearClaim, Leave
 <2>3. CASE \E a \in Attempts : Mail(a) BY <2>3 DEF Mail
 <2>4. CASE Touch BY <2>4 DEF Touch
 <2> QED BY <1>1, <2>1, <2>2, <2>3, <2>4 DEF Next, vars
<1> QED BY <1>1, HandoffInvariant, PTL DEF Spec, HandoffFreezesDraft
-----------------------------------------------------------------------------
(* One window at a time: DraftHandoff implements HandoffPromise *)

(* A step but these asks Mail for nothing and confirms nothing. *)
LEMMA OutsideRests ==
  ASSUME HandoffInv, NEW p \in Procs, Run(p), ~Invoke(p), ~Finish(p), ~ReconcileRecords(p)
  PROVE  UNCHANGED <<window, verdict>>
<1>1. CASE CleanStep(p)
  BY <1>1 DEF CleanStep, Scan, DeleteFile, DeleteDir, Tidy, Rewrite, Unclaim, CleanupChanged,
     CleanupFails
<1>2. CASE BeginStep(p)
  BY <1>2 DEF BeginStep, ReadFails, BeginRecovers, BeginFresh, BeginRefused, Create, CreateFails,
     MakeParent, MakeDir, Stage, Staged, Retain, StageFails, StageCanceled, Recover
<1>3. CASE DispatchStep(p) /\ ~Invoke(p) /\ ~Finish(p)
  BY <1>3 DEF DispatchStep, MarkDispatched, NotDispatched, Cancel, NotInvoked, Answered,
     Unanswered, Decide
<1>4. CASE OtherStep(p) /\ ~ReconcileRecords(p)
  BY <1>4 DEF OtherStep, ReconcileRefused, ReconcileResumes, Update, UpdateRefused, Send,
     SendRefused, SendEnds, Prune, Discard, DiscardRefused, RemoveDoc, RemoveClaims, SweepKeeps,
     SweepResumes, SweepCancels, SweepClaims
<1> QED BY <1>1, <1>2, <1>3, <1>4 DEF Run

(* The requests whose outcome is open, and those that are settled. *)
Open == {a \in Attempts : Unresolved(a)}
Settled == {a \in Attempts : window[a] # "none" /\ verdict[a] # "none"}

(* A window is asked for where nothing is open, by a new attempt (Invoke). *)
LEMMA InvokeAsks ==
  ASSUME HandoffInv, NEW p \in Procs, Invoke(p)
  PROVE  \E a \in Attempts : Open = {} /\ a \notin Settled /\ Open' = {a} /\ Settled' = Settled
<1> DEFINE a == att[p].id
<1>1. /\ claim = att[p] /\ claim.outcome = "dispatched" /\ a \in Attempts /\ window[a] = "none"
      /\ verdict[a] = "none"
  BY Known DEF Invoke, DispatchAt, StoreInv, ClaimShape, VerdictShape
<1>2. /\ window'[a] = "called" /\ \A b \in Attempts \ {a} : window'[b] = window[b]
      /\ verdict' = verdict BY <1>1, Known DEF Invoke, TypeOK, StoreTypeOK
<1>3. \A b \in Attempts : ~Unresolved(b) BY <1>1, Known DEF StoreInv, EvidenceKept, Unresolved
<1>4. Open = {} /\ a \notin Settled BY <1>1, <1>3 DEF Open, Settled
<1>5. Open' = {a} BY <1>1, <1>2, <1>3 DEF Open, Unresolved
<1>6. Settled' = Settled BY <1>1, <1>2 DEF Settled
<1> QED BY <1>1, <1>4, <1>5, <1>6

(* A recorded outcome settles the request of its claim, if there is one    *)
(* (Finish, ReconcileDraftHandoff).                                        *)
LEMMA ConfirmSettles ==
  ASSUME TypeOK, StoreInv, claim.outcome \in {"dispatched", "unknown"},
         NEW word \in {"mail", "person"}, Confirm(claim.id, word), window' = window
  PROVE  \/ Open' = Open /\ Settled' = Settled
         \/ \E a \in Open : Open' = Open \ {a} /\ Settled' = Settled \cup {a}
<1> DEFINE a == claim.id
<1>1. a \in Attempts BY DEF StoreInv, ClaimShape
<1>2. CASE window[a] = "none" \/ verdict[a] # "none"
 <2>1. \A b \in Attempts : verdict'[b] = "none" <=> verdict[b] = "none"
   BY <1>1, <1>2 DEF Confirm, TypeOK, StoreTypeOK
 <2> QED BY <2>1 DEF Open, Settled, Unresolved
<1>3. CASE window[a] # "none" /\ verdict[a] = "none"
 <2>1. verdict'[a] = word /\ \A b \in Attempts \ {a} : verdict'[b] = verdict[b]
   BY <1>1, <1>3 DEF Confirm, TypeOK, StoreTypeOK
 <2>2. a \in Open BY <1>1, <1>3 DEF Open, Unresolved
 <2>3. Open' = Open \ {a} BY <1>1, <2>1 DEF Open, Unresolved
 <2>4. Settled' = Settled \cup {a} BY <1>1, <1>3, <2>1 DEF Settled
 <2> QED BY <2>2, <2>3, <2>4
<1> QED BY <1>2, <1>3

(* What the promise sees of a step. *)
PromiseStep ==
  \/ Open' = Open /\ Settled' = Settled
  \/ \E a \in Attempts : Open = {} /\ a \notin Settled /\ Open' = {a} /\ Settled' = Settled
  \/ \E a \in Open : Open' = Open \ {a} /\ Settled' = Settled \cup {a}

(* Where Mail's requests and their outcomes rest, the promise stutters. *)
LEMMA RestStutters == UNCHANGED <<window, verdict>> => PromiseStep
BY DEF PromiseStep, Open, Settled, Unresolved

(* Every step of a running operation is one of the promise, or none. *)
LEMMA RunPromises == ASSUME HandoffInv, NEW p \in Procs, Run(p) PROVE PromiseStep
<1>1. CASE Invoke(p) BY <1>1, InvokeAsks DEF PromiseStep
<1>2. CASE Finish(p)
 <2> DEFINE d == [att[p] EXCEPT !.outcome = "dispatched"]
 <2>1. claim = d BY <1>2, Known DEF Finish, DispatchAt
 <2>2. claim.outcome = "dispatched" /\ att[p].id = claim.id
   BY <2>1, DispatchRecord DEF Outcomes, Started
 <2>3. window' = window /\ (verdict' = verdict \/ Confirm(claim.id, "mail"))
   BY <1>2, <2>2 DEF Finish
 <2>4. CASE verdict' = verdict BY <2>3, <2>4, RestStutters
 <2>5. CASE Confirm(claim.id, "mail")
   BY <2>2, <2>3, <2>5, Known, ConfirmSettles DEF PromiseStep
 <2> QED BY <2>3, <2>4, <2>5
<1>3. CASE ReconcileRecords(p)
 <2>1. /\ claim.outcome \in {"dispatched", "unknown"} /\ window' = window
       /\ Confirm(claim.id, "person") BY <1>3 DEF ReconcileRecords
 <2> QED BY <2>1, Known, ConfirmSettles DEF PromiseStep
<1>4. CASE ~Invoke(p) /\ ~Finish(p) /\ ~ReconcileRecords(p)
  BY <1>4, OutsideRests, RestStutters
<1> QED BY <1>1, <1>2, <1>3, <1>4

(* Mail's answer neither opens nor settles a request. *)
LEMMA MailPromises == ASSUME HandoffInv, NEW a \in Attempts, Mail(a) PROVE PromiseStep
<1>1. /\ \A b \in Attempts : window'[b] = "none" <=> window[b] = "none"
      /\ verdict' = verdict BY Known DEF Mail, HandoffInv, TypeOK, StoreTypeOK
<1> QED BY <1>1 DEF PromiseStep, Open, Settled, Unresolved

(* Mail is asked for a compose window only where what became of every      *)
(* earlier request is settled, whatever fails or is killed                 *)
(* (BeginDraftHandoff, MarkDispatched, Finish, ReconcileDraftHandoff).     *)
THEOREM HandoffImplementsPromise == Spec => ImplementsHandoffPromise
<1>1. Init => Promise!PromiseInit
 <2> SUFFICES ASSUME Init PROVE Promise!PromiseInit OBVIOUS
 <2>1. \A a \in Attempts : window[a] = "none" BY DEF Init
 <2>2. {a \in Attempts : Unresolved(a)} = {} BY <2>1 DEF Unresolved
 <2>3. {a \in Attempts : window[a] # "none" /\ verdict[a] # "none"} = {} BY <2>1
 <2> QED BY <2>2, <2>3 DEF Promise!PromiseInit
<1>2. ASSUME HandoffInv, [Next]_vars PROVE [Promise!PromiseNext]_Promise!promise
 <2>1. ASSUME NEW p \in Procs, Run(p) PROVE PromiseStep BY <1>2, <2>1, RunPromises
 <2>2. ASSUME NEW p \in Procs,
              Request(p) \/ Acquire(p) \/ Release(p) \/ Stop(p) \/ TearClaim(p)
       PROVE  PromiseStep
  <3>1. UNCHANGED <<window, verdict>>
    BY <2>2 DEF Request, Acquire, Release, Stop, TearClaim, Leave
  <3> QED BY <3>1, RestStutters
 <2>3. ASSUME NEW a \in Attempts, Mail(a) PROVE PromiseStep BY <1>2, <2>3, MailPromises
 <2>4. ASSUME Touch \/ UNCHANGED vars PROVE PromiseStep
  <3>1. UNCHANGED <<window, verdict>> BY <2>4 DEF Touch, vars
  <3> QED BY <3>1, RestStutters
 <2>5. PromiseStep => [Promise!PromiseNext]_Promise!promise
   BY DEF PromiseStep, Open, Settled, Promise!PromiseNext, Promise!Ask, Promise!Settle,
      Promise!promise
 <2> QED BY <1>2, <2>1, <2>2, <2>3, <2>4, <2>5 DEF Next
<1> QED BY <1>1, <1>2, HandoffInvariant, PTL
        DEF Spec, ImplementsHandoffPromise, Promise!PromiseSpec
=============================================================================
