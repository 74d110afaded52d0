------------------------ MODULE UpdateInstallProofs -------------------------
(***************************************************************************)
(* Proofs about updates and installations for every number of processes,   *)
(* releases and faults.  The invariant has four layers: who does what      *)
(* under the lock (Base), what is on the disk whoever stopped (Disk), what *)
(* the running installer knows of it at its step (Works), and what an      *)
(* update may rely on and report (Reports).                                *)
(***************************************************************************)
EXTENDS UpdateInstall, FiniteSetTheorems, TLAPS

Running(p) == job[p].in \notin {"off", "wait"}

(* Whoever has the lock is the only one who reads or changes the disk.     *)
Shape(p) ==
  /\ job[p].kind = "none" => job[p].up = "off" /\ job[p].in = "off"
  /\ job[p].kind = "direct" => job[p].up = "off"
  /\ job[p].in = "wait" => job[p].kind = "direct"
  /\ job[p].in \in {"off", "wait"} => job[p].t = NoOne
  /\ job[p].in # "off" => job[p].kind = "direct" \/ job[p].up \in {"run", "dead"}
  /\ job[p].in # "off" => job[p].ver >= 1 /\ ~job[p].ok
  /\ job[p].up \notin {"off", "latest", "done", "dead"} => job[p].ver >= 1
  /\ job[p].up \in {"latest", "manifest", "archive", "wait", "read", "extract", "package"}
       => ~job[p].ok /\ job[p].result = "none"
  /\ job[p].up = "run" => job[p].result = "none"
  /\ job[p].up = "verify" => job[p].ok /\ job[p].result = "none"
  /\ job[p].result \in {"refused", "current"} =>
       job[p].up \in {"close", "done", "dead"} /\ job[p].in = "off" /\ ~job[p].ok
  /\ job[p].kind = "none" => ~job[p].ok
  /\ job[p].kind # "update" => job[p].result = "none"
  /\ job[p].result = "complete" /\ lock = p => job[p].ok

LockHeld(p) == HasLock(p) \/ Running(p) => lock = p

(* One journal at a time, and never without its directory. *)
Journaled(t) == txn[t].state # "none"
OneJournal == \A t, u \in Procs : Journaled(t) /\ Journaled(u) => t = u
Housed(t) == Journaled(t) => txn[t].dir

(* Which transaction an installer works on, and what its journal allows.   *)
Turn(p) ==
  /\ job[p].in = "recover" => job[p].t # p /\ ~txn[p].dir
  /\ job[p].in = "script" =>
       /\ job[p].t = p /\ txn[p].dir
       /\ \A q \in Procs \ {p} : ~txn[q].dir
       /\ (job[p].step = 1 <=> ~InFlight(p))
       /\ txn[p].state \notin {"committed", "cleanup_pending"}
  /\ job[p].in \in {"undo", "finish", "clean"} => job[p].t \in Procs
  /\ job[p].in = "undo" => InFlight(job[p].t) /\ (job[p].t = p => job[p].trap)
  /\ job[p].in = "finish" => txn[job[p].t].state = "committed"
  /\ job[p].in \in {"script", "undo", "finish", "clean"} /\ job[p].t # p => ~txn[p].dir

(* Before it begins, a process has left nothing anywhere. *)
Fresh(p) ==
  \/ job[p].kind = "none"
  \/ job[p].up \in {"latest", "manifest", "archive", "wait", "read", "extract", "package"}
  \/ job[p].in \in {"wait", "recover"}
  \/ job[p].in = "script" /\ job[p].step = 1
  \/ job[p].in \in {"undo", "finish", "clean"} /\ job[p].t # p
  \/ job[p].result \in {"refused", "current"}
Untouched(p) ==
  Fresh(p) =>
    /\ txn[p].state = "none" /\ txn[p].snap = {} /\ txn[p].ids = {}
    /\ \A c \in Parts : /\ txn[p].stage[c] = Absent
                        /\ dest[c].by # p /\ backup[c].by # p
    /\ job[p].in # "script" => ~txn[p].dir

Base ==
  /\ TypeOK /\ OneJournal
  /\ \A p \in Procs : Shape(p) /\ LockHeld(p) /\ Housed(p) /\ Turn(p) /\ Untouched(p)

-----------------------------------------------------------------------------
New(t) == [by |-> t, ver |-> job[t].ver, whole |-> TRUE]
Torn(x) == [x EXCEPT !.whole = FALSE]
Intact(x) == There(x) => x.whole

(* How far a part has got under transaction t. *)
Before(t, c) == dest[c] = txn[t].orig[c] /\ backup[c] = Absent
Aside(t, c) == dest[c] = Absent /\ backup[c] = txn[t].orig[c]
After(t, c) ==
  dest[c] = New(t) /\ backup[c] = txn[t].orig[c] /\ c \in txn[t].ids /\ c \in txn[t].snap
Removing(t, c) ==
  c = "skill" /\ dest[c] = Torn(New(t)) /\ backup[c] = txn[t].orig[c]

Undoable(t) ==
  InFlight(t) => \A c \in Parts :
    /\ Intact(txn[t].orig[c]) /\ txn[t].orig[c].by # t
    /\ Before(t, c) \/ Aside(t, c) \/ After(t, c) \/ Removing(t, c)

Finishable(t) ==
  txn[t].state = "committed" => \A c \in Parts :
    /\ dest[c] = New(t) /\ c \in txn[t].ids /\ c \in txn[t].snap
    /\ There(backup[c]) => Had(t, c) /\ backup[c].by = txn[t].orig[c].by

(* Without a transaction that could still be undone the parts are whole,   *)
(* and once none is to be finished either there are no backups.            *)
Settled == (\A t \in Procs : ~InFlight(t)) => \A c \in Parts : Intact(dest[c])
NoBackups ==
  (\A t \in Procs : ~InFlight(t) /\ txn[t].state # "committed")
    => \A c \in Parts : backup[c] = Absent

Disk == Settled /\ NoBackups /\ \A t \in Procs : Undoable(t) /\ Finishable(t)

-----------------------------------------------------------------------------
(* The forward steps, in the order of Script: created, recorded, copied,   *)
(* snapshotted, backed up, installed.                                      *)
Forward(p, c, create, record, copy, snap, back, inst) ==
  LET s == job[p].step IN
  /\ txn[p].stage[c] = IF s <= create \/ s > inst THEN Absent
                       ELSE IF s <= copy THEN Torn(New(p)) ELSE New(p)
  /\ s > record => c \in txn[p].ids
  /\ s > snap => c \in txn[p].snap
  /\ s > 1 /\ s <= back => Before(p, c)
  /\ s > back /\ s <= inst => Aside(p, c)
  /\ s > inst => After(p, c)

Scripted(p) ==
  job[p].in = "script" =>
    /\ Forward(p, "binary", 2, 3, 4, 8, 12, 18)
    /\ Forward(p, "skill", 5, 6, 7, 9, 15, 21)

Undone(p) ==
  job[p].in = "undo" =>
    LET t == job[p].t IN
    /\ job[p].half => job[p].part = "skill" /\ Removing(t, "skill")
    /\ job[p].part = "skill" /\ ~job[p].failed => Before(t, "binary")

Finished(p) ==
  /\ job[p].in = "finish" /\ job[p].part = "skill" => backup["binary"] = Absent
  /\ job[p].in = "clean" =>
       LET t == job[p].t IN
       /\ InFlight(t) => \A c \in Parts : Before(t, c)
       /\ txn[t].state = "committed" => \A c \in Parts : backup[c] = Absent
       /\ txn[t].state = "none" => \A q \in Procs : ~Journaled(q)
  /\ job[p].in \in {"finish", "clean"} /\ job[p].t = p /\ ~job[p].trap =>
       ~InFlight(p) /\ \A c \in Parts : dest[c] = New(p)

Works == \A p \in Procs : Scripted(p) /\ Undone(p) /\ Finished(p)

-----------------------------------------------------------------------------
(* What the installer's exit code and the version read under the lock are  *)
(* worth as long as the lock is held.                                      *)
Good(p) ==
  job[p].ok /\ lock = p =>
    /\ \A t \in Procs : ~Journaled(t)
    /\ \A c \in Parts : dest[c] = New(p) /\ backup[c] = Absent

Recovering(p) ==
  \/ job[p].in = "recover"
  \/ job[p].in \in {"undo", "finish", "clean"} /\ job[p].t # p
Newer(p) ==
  job[p].kind = "update" /\ ~job[p].mixed =>
    /\ job[p].up \in {"extract", "package"} \/ Recovering(p)
       => (\A t \in Procs : ~InFlight(t)) /\ dest["binary"].ver < job[p].ver
    /\ job[p].in = "script" =>
         IF job[p].step = 1 THEN dest["binary"].ver < job[p].ver
         ELSE txn[p].orig["binary"].ver < job[p].ver

Reports == \A p \in Procs : Good(p) /\ Newer(p)

IInv == Base /\ Disk /\ Works /\ Reports

-----------------------------------------------------------------------------
(***************************************************************************)
(* Types.                                                                  *)
(***************************************************************************)

USE UpdateAssumption

(* The steps of the installer, one by one. *)
LEMMA ScriptSteps ==
  /\ Len(Script) = 25
  /\ Script[1] = Journal("prepared") /\ Script[2] = Do("create", "binary")
  /\ Script[3] = Journal("prepared") /\ Script[4] = Do("copy", "binary")
  /\ Script[5] = Do("create", "skill") /\ Script[6] = Journal("prepared")
  /\ Script[7] = Do("copy", "skill") /\ Script[8] = Do("snapshot", "binary")
  /\ Script[9] = Do("snapshot", "skill") /\ Script[10] = Journal("prepared")
  /\ Script[11] = Journal("binary_backup_pending") /\ Script[12] = Do("backup", "binary")
  /\ Script[13] = Journal("binary_backed_up")
  /\ Script[14] = Journal("skill_backup_pending") /\ Script[15] = Do("backup", "skill")
  /\ Script[16] = Journal("skill_backed_up")
  /\ Script[17] = Journal("binary_install_pending") /\ Script[18] = Do("install", "binary")
  /\ Script[19] = Journal("binary_installed")
  /\ Script[20] = Journal("skill_install_pending") /\ Script[21] = Do("install", "skill")
  /\ Script[22] = Journal("skill_installed") /\ Script[23] = Do("verify", "binary")
  /\ Script[24] = Journal("verified") /\ Script[25] = Journal("committed")
BY DEF Script, Each

TxnType == [dir : BOOLEAN, tmp : BOOLEAN, state : JournalStates, ids : SUBSET Parts,
            orig : [Parts -> Items], stage : [Parts -> Items], snap : SUBSET Parts]
JobType == [kind : {"none", "update", "direct"}, ver : 0..MaxRelease, up : UpSteps,
            in : InSteps, mixed : BOOLEAN, step : 1..25, t : Procs \cup {NoOne},
            part : Parts, half : BOOLEAN, failed : BOOLEAN, trap : BOOLEAN, ok : BOOLEAN,
            canceled : BOOLEAN, result : Results]

(* TypeOK, with the records named. *)
LEMMA Types ==
  TypeOK <=>
    /\ dest \in [Parts -> Items] /\ backup \in [Parts -> Items]
    /\ txn \in [Procs -> TxnType] /\ job \in [Procs -> JobType]
    /\ lock \in Procs \cup {NoOne}
    /\ published \in Releases /\ faults \in 0..MaxFaults
BY ScriptSteps DEF TypeOK, TxnType, JobType

(* The same in the next state. *)
LEMMA TypesNext ==
  TypeOK' <=>
    /\ dest' \in [Parts -> Items] /\ backup' \in [Parts -> Items]
    /\ txn' \in [Procs -> TxnType] /\ job' \in [Procs -> JobType]
    /\ lock' \in Procs \cup {NoOne}
    /\ published' \in Releases /\ faults' \in 0..MaxFaults
BY ScriptSteps DEF TypeOK, TxnType, JobType

(* Which steps write the journal, and what they write. *)
LEMMA JournalSteps ==
  ASSUME NEW i \in 1..25, Script[i].op = "journal"
  PROVE  /\ i \in {1, 3, 6, 10, 11, 13, 14, 16, 17, 19, 20, 22, 24, 25}
         /\ i = 25 => Script[i].arg = "committed"
         /\ i # 25 => Script[i].arg \in JournalStates \ {"none", "committed", "cleanup_pending"}
BY ScriptSteps DEF Journal, Do, JournalStates

(* Which steps work on a part, and on which. *)
LEMMA PartSteps ==
  ASSUME NEW i \in 1..25
  PROVE  /\ Script[i].op = "create" => \/ i = 2 /\ Script[i].arg = "binary"
                                       \/ i = 5 /\ Script[i].arg = "skill"
         /\ Script[i].op = "copy" => \/ i = 4 /\ Script[i].arg = "binary"
                                     \/ i = 7 /\ Script[i].arg = "skill"
         /\ Script[i].op = "snapshot" => \/ i = 8 /\ Script[i].arg = "binary"
                                         \/ i = 9 /\ Script[i].arg = "skill"
         /\ Script[i].op = "backup" => \/ i = 12 /\ Script[i].arg = "binary"
                                       \/ i = 15 /\ Script[i].arg = "skill"
         /\ Script[i].op = "install" => \/ i = 18 /\ Script[i].arg = "binary"
                                        \/ i = 21 /\ Script[i].arg = "skill"
         /\ Script[i].op = "verify" => i = 23
BY ScriptSteps DEF Journal, Do
-----------------------------------------------------------------------------
(* One process's job changes at a time. *)
LEMMA JobStep ==
  ASSUME TypeOK, NEW p \in Procs, NEW j \in JobType, job' = [job EXCEPT ![p] = j]
  PROVE  job' \in [Procs -> JobType] /\ job'[p] = j /\ \A q \in Procs \ {p} : job'[q] = job[q]
BY Types

(* The installer of an ended job is gone, whatever it was doing. *)
LEMMA GoneIs ==
  ASSUME NEW j \in JobType, NEW ok \in BOOLEAN
  PROVE  /\ Gone(j, ok) \in JobType
         /\ Gone(j, ok).in = "off" /\ Gone(j, ok).ok = ok /\ Gone(j, ok).t = NoOne
         /\ Gone(j, ok).kind = j.kind /\ Gone(j, ok).up = j.up /\ Gone(j, ok).ver = j.ver
         /\ Gone(j, ok).mixed = j.mixed /\ Gone(j, ok).result = j.result
         /\ Gone(j, ok).canceled = j.canceled
<1> DEFINE i == [j EXCEPT !.in = "off", !.ok = ok]
           k == [i EXCEPT !.step = 1]
           l == [k EXCEPT !.t = NoOne, !.part = "binary"]
<1>1. i \in JobType BY DEF JobType, InSteps
<1>2. k \in JobType
 <2> HIDE DEF i
 <2> QED BY <1>1 DEF JobType
<1>3. l \in JobType
 <2> HIDE DEF k
 <2> QED BY <1>2 DEF JobType, Parts
<1>4. [l EXCEPT !.half = FALSE, !.failed = FALSE, !.trap = FALSE] \in JobType
 <2> HIDE DEF l
 <2> QED BY <1>3 DEF JobType
<1>5. Gone(j, ok) = [l EXCEPT !.half = FALSE, !.failed = FALSE, !.trap = FALSE] BY DEF Gone
<1>6. Gone(j, ok) \in JobType BY <1>4, <1>5
<1> QED BY <1>6 DEF Gone, JobType

(* Every step of an updater leaves a job. *)
LEMMA UpdaterJobTyped ==
  ASSUME TypeOK, NEW p \in Procs, Updater(p), ~Cancel(p)
  PROVE  job' \in [Procs -> JobType]
<1>1. /\ job[p] \in JobType /\ published \in 0..MaxRelease
      /\ dest["binary"].ver \in 0..MaxRelease BY Types DEF Releases, Parts, Items
<1>2. CASE StartUpdate(p)
 <2>1. [job[p] EXCEPT !.kind = "update", !.up = "latest", !.ver = dest["binary"].ver] \in JobType
   BY <1>1 DEF JobType, UpSteps
 <2>2. job' = [job EXCEPT ![p] = [job[p] EXCEPT !.kind = "update", !.up = "latest",
                                                !.ver = dest["binary"].ver]]
   BY <1>2 DEF StartUpdate
 <2> QED BY <2>1, <2>2, JobStep
<1>3. CASE FetchLatest(p)
 <2> DEFINE newer == Older(job[p].ver, published)
            u == IF newer THEN "manifest" ELSE "done"
            r == IF newer THEN "none" ELSE "current"
 <2>1. u \in UpSteps /\ r \in Results BY DEF UpSteps, Results
 <2>2. job' = [job EXCEPT ![p] = [job[p] EXCEPT !.up = u, !.ver = published, !.result = r]]
   BY <1>3 DEF FetchLatest
 <2> HIDE DEF u, r
 <2>3. [job[p] EXCEPT !.up = u, !.ver = published, !.result = r] \in JobType
   BY <1>1, <2>1 DEF JobType
 <2> QED BY <2>2, <2>3, JobStep
<1>4. ASSUME NEW from, NEW to \in UpSteps, Proceed(p, from, to)
      PROVE  job' \in [Procs -> JobType]
 <2>1. [job[p] EXCEPT !.up = to] \in JobType BY <1>1 DEF JobType
 <2> QED BY <1>4, <2>1, JobStep DEF Proceed
<1>5. CASE DownloadManifest(p) \/ DownloadArchive(p) \/ Extract(p)
  BY <1>4, <1>5 DEF DownloadManifest, DownloadArchive, Extract, UpSteps
<1>6. CASE Refuse(p)
 <2> DEFINE u == IF HasLock(p) THEN "close" ELSE "done"
 <2>1. u \in UpSteps BY DEF UpSteps
 <2>2. job' = [job EXCEPT ![p] = [job[p] EXCEPT !.result = "refused", !.up = u]]
   BY <1>6 DEF Refuse
 <2> HIDE DEF u
 <2>3. [job[p] EXCEPT !.result = "refused", !.up = u] \in JobType
   BY <1>1, <2>1 DEF JobType, Results
 <2> QED BY <2>2, <2>3, JobStep
<1>7. CASE TakeLock(p) \/ Cleanup(p)
 <2>1. [job[p] EXCEPT !.up = "read"] \in JobType /\ [job[p] EXCEPT !.up = "close"] \in JobType
   BY <1>1 DEF JobType, UpSteps
 <2> QED BY <1>7, <2>1, JobStep DEF TakeLock, Cleanup
<1>8. CASE ReadInstalled(p)
 <2> DEFINE u == IF dest["binary"].whole /\ Older(dest["binary"].ver, job[p].ver)
                 THEN "extract" ELSE "close"
            m == \E t \in Procs : InFlight(t)
            r == CASE ~dest["binary"].whole -> "refused"
                   [] ~Older(dest["binary"].ver, job[p].ver) -> "current"
                   [] OTHER -> "none"
 <2>1. u \in UpSteps /\ m \in BOOLEAN /\ r \in Results BY DEF UpSteps, Results
 <2>2. job' = [job EXCEPT ![p].up = u, ![p].mixed = m, ![p].result = r]
   BY <1>8, Zenon DEF ReadInstalled
 <2> HIDE DEF u, m, r
 <2>4. job' = [job EXCEPT ![p] = [job[p] EXCEPT !.up = u, !.mixed = m, !.result = r]] BY <2>2
 <2>3. [job[p] EXCEPT !.up = u, !.mixed = m, !.result = r] \in JobType
   BY <1>1, <2>1 DEF JobType
 <2> QED BY <2>3, <2>4, JobStep
<1>9. CASE RunInstaller(p) \/ CloseLock(p)
 <2>1. /\ [job[p] EXCEPT !.up = "run", !.in = "recover"] \in JobType
       /\ [job[p] EXCEPT !.up = "done", !.ok = FALSE] \in JobType
   BY <1>1 DEF JobType, UpSteps, InSteps
 <2>2. \/ job' = [job EXCEPT ![p] = [job[p] EXCEPT !.up = "run", !.in = "recover"]]
       \/ job' = [job EXCEPT ![p] = [job[p] EXCEPT !.up = "done", !.ok = FALSE]]
   BY <1>9 DEF RunInstaller, CloseLock
 <2> QED BY <2>1, <2>2, JobStep
<1>10. CASE InstallerEnded(p)
 <2> DEFINE good == job[p].ok /\ ~job[p].canceled
            u == IF good THEN "verify" ELSE "cleanup"
            r == IF good THEN "none" ELSE "unknown"
 <2>1. u \in UpSteps /\ r \in Results BY DEF UpSteps, Results
 <2>2. job' = [job EXCEPT ![p] = [job[p] EXCEPT !.up = u, !.result = r]]
   BY <1>10 DEF InstallerEnded
 <2> HIDE DEF u, r
 <2>3. [job[p] EXCEPT !.up = u, !.result = r] \in JobType BY <1>1, <2>1 DEF JobType
 <2> QED BY <2>2, <2>3, JobStep
<1>11. CASE VerifyInstalled(p)
 <2>1. /\ [job[p] EXCEPT !.up = "cleanup", !.result = "complete"] \in JobType
       /\ [job[p] EXCEPT !.up = "cleanup", !.result = "unknown"] \in JobType
   BY <1>1 DEF JobType, UpSteps, Results
 <2>2. \/ job' = [job EXCEPT ![p] = [job[p] EXCEPT !.up = "cleanup", !.result = "complete"]]
       \/ job' = [job EXCEPT ![p] = [job[p] EXCEPT !.up = "cleanup", !.result = "unknown"]]
   BY <1>11 DEF VerifyInstalled
 <2> QED BY <2>1, <2>2, JobStep
<1> QED BY <1>2, <1>3, <1>5, <1>6, <1>7, <1>8, <1>9, <1>10, <1>11 DEF Updater

(* The installer exits. *)
LEMMA ExitedDoes ==
  ASSUME TypeOK, NEW p \in Procs, NEW ok \in BOOLEAN, job' = Exited(p, ok)
  PROVE  /\ job' \in [Procs -> JobType] /\ job'[p] = Gone(job[p], ok)
         /\ \A q \in Procs \ {p} : job'[q] = job[q]
<1>1. job[p] \in JobType BY Types
<1>2. Gone(job[p], ok) \in JobType BY <1>1, GoneIs
<1>3. job' = [job EXCEPT ![p] = Gone(job[p], ok)] BY DEF Exited
<1> QED BY <1>2, <1>3, JobStep

(* A routine ends: on to the next transaction, or out. *)
LEMMA ReturnTyped ==
  ASSUME TypeOK, NEW p \in Procs, NEW good \in BOOLEAN, Return(p, good)
  PROVE  job' \in [Procs -> JobType] /\ lock' \in Procs \cup {NoOne}
<1>1. job[p] \in JobType /\ lock \in Procs \cup {NoOne} BY Types
<1>2. CASE job' = Exited(p, good /\ ~job[p].trap)
 <2>1. (good /\ ~job[p].trap) \in BOOLEAN OBVIOUS
 <2> QED BY <1>1, <1>2, <2>1, ExitedDoes DEF Return, LockAfter
<1>3. CASE job' = [job EXCEPT ![p].in = "recover"] /\ lock' = lock
 <2>1. [job[p] EXCEPT !.in = "recover"] \in JobType BY <1>1 DEF JobType, InSteps
 <2> QED BY <1>1, <1>3, <2>1, JobStep
<1> QED BY <1>2, <1>3 DEF Return

(* The first part is done, the second, or the routine. *)
LEMMA NextPartTyped ==
  ASSUME TypeOK, NEW p \in Procs, NEW good \in BOOLEAN, NextPart(p, good)
  PROVE  job' \in [Procs -> JobType] /\ lock' \in Procs \cup {NoOne}
<1>1. job[p] \in JobType /\ lock \in Procs \cup {NoOne} BY Types
<1>2. CASE Return(p, FALSE) BY <1>2, ReturnTyped
<1>3. CASE job' = [job EXCEPT ![p].part = "skill", ![p].failed = ~good] /\ lock' = lock
 <2>1. [job[p] EXCEPT !.part = "skill", !.failed = ~good] \in JobType
   BY <1>1 DEF JobType, Parts
 <2>2. job' = [job EXCEPT ![p] = [job[p] EXCEPT !.part = "skill", !.failed = ~good]] BY <1>3
 <2> QED BY <1>1, <1>3, <2>1, <2>2, JobStep
<1>4. CASE job' = [job EXCEPT ![p].in = "clean"] /\ lock' = lock
 <2>1. [job[p] EXCEPT !.in = "clean"] \in JobType BY <1>1 DEF JobType, InSteps
 <2> QED BY <1>1, <1>4, <2>1, JobStep
<1> QED BY <1>2, <1>3, <1>4 DEF NextPart

(* A failing command ends the installer or starts its trap. *)
LEMMA FailingTyped ==
  ASSUME TypeOK, NEW p \in Procs, NEW left \in BOOLEAN, NEW canceled \in BOOLEAN,
         Failing(p, left, canceled)
  PROVE  /\ job' \in [Procs -> JobType] /\ txn' \in [Procs -> TxnType]
         /\ lock' \in Procs \cup {NoOne}
<1> DEFINE next == [job[p] EXCEPT !.canceled = @ \/ canceled]
           step == TrapStart(p)
           trap == [next EXCEPT !.in = step, !.trap = TRUE, !.part = "binary", !.half = FALSE,
                                !.failed = FALSE]
           ok == job[p].ok /\ job[p].in = "off"
<1>1. /\ txn \in [Procs -> TxnType] /\ job[p] \in JobType
      /\ lock \in Procs \cup {NoOne} BY Types
<1>2. next \in JobType BY <1>1 DEF JobType
<1>3. ok \in BOOLEAN OBVIOUS
<1>4. Gone(next, ok) \in JobType
 <2> HIDE DEF next, ok
 <2> QED BY <1>2, <1>3, GoneIs
<1>5. trap \in JobType
 <2>1. step \in InSteps BY DEF TrapStart, InSteps
 <2> HIDE DEF next, step
 <2>2. [next EXCEPT !.in = step, !.trap = TRUE] \in JobType BY <1>2, <2>1 DEF JobType
 <2> DEFINE n == [next EXCEPT !.in = step, !.trap = TRUE]
 <2>3. [n EXCEPT !.part = "binary", !.half = FALSE, !.failed = FALSE] \in JobType
  <3>1. n \in JobType BY <2>2
  <3> HIDE DEF n
  <3> QED BY <3>1 DEF JobType, Parts
 <2>4. trap = [n EXCEPT !.part = "binary", !.half = FALSE, !.failed = FALSE] OBVIOUS
 <2> QED BY <2>3, <2>4
<1>6. job' \in [Procs -> JobType]
 <2>1. \/ job' = [job EXCEPT ![p] = Gone(next, ok)]
       \/ job' = [job EXCEPT ![p] = trap] BY DEF Failing
 <2> HIDE DEF next, ok, trap
 <2> QED BY <1>4, <1>5, <2>1, JobStep
<1>7. txn' \in [Procs -> TxnType]
 <2> DEFINE tmp == left /\ job[p].in = "script"
 <2>1. txn[p] \in TxnType /\ tmp \in BOOLEAN BY <1>1
 <2>2. txn' = txn \/ txn' = [txn EXCEPT ![p] = [txn[p] EXCEPT !.dir = left, !.tmp = tmp]]
   BY DEF Failing
 <2> HIDE DEF tmp
 <2>3. [txn[p] EXCEPT !.dir = left, !.tmp = tmp] \in TxnType BY <2>1 DEF TxnType
 <2> QED BY <1>1, <2>2, <2>3
<1>8. lock' \in Procs \cup {NoOne} BY <1>1 DEF Failing, LockAfter
<1> QED BY <1>6, <1>7, <1>8

(* What a step of the script is about. *)
LEMMA ArgTyped ==
  ASSUME TypeOK, NEW p \in Procs
  PROVE  /\ job[p].step \in 1..25
         /\ At(p, "journal") => Arg(p) \in JournalStates
         /\ \A op \in {"create", "copy", "snapshot", "backup", "install"} :
              At(p, op) => Arg(p) \in Parts
<1>1. job[p].step \in 1..25 BY Types DEF JobType
<1> QED BY <1>1, JournalSteps, PartSteps DEF At, Arg, Parts, JournalStates

(* The script goes on. *)
LEMMA AdvanceTyped ==
  ASSUME TypeOK, NEW p \in Procs, Advance(p)
  PROVE  job' \in [Procs -> JobType]
<1>1. job[p] \in JobType /\ job[p].step \in 1..25 BY Types, ArgTyped
<1>2. CASE job[p].step < 25
 <2>1. job' = [job EXCEPT ![p] = [job[p] EXCEPT !.step = job[p].step + 1]]
   BY <1>2, ScriptSteps DEF Advance
 <2>2. job[p].step + 1 \in 1..25 BY <1>1, <1>2
 <2>3. [job[p] EXCEPT !.step = job[p].step + 1] \in JobType BY <1>1, <2>2 DEF JobType
 <2> QED BY <2>1, <2>3, JobStep
<1>3. CASE ~(job[p].step < 25)
 <2>1. job' = [job EXCEPT ![p] = [job[p] EXCEPT !.in = "finish", !.part = "binary"]]
   BY <1>3, ScriptSteps DEF Advance
 <2>2. [job[p] EXCEPT !.in = "finish", !.part = "binary"] \in JobType
   BY <1>1 DEF JobType, InSteps, Parts
 <2> QED BY <2>1, <2>2, JobStep
<1> QED BY <1>2, <1>3

(* The forward steps keep the types. *)
LEMMA ForwardTyped ==
  ASSUME TypeOK, NEW p \in Procs,
         WriteManifest(p) \/ CreateStage(p) \/ CopyStage(p) \/ Snapshot(p) \/ BackUp(p)
           \/ InstallPart(p) \/ VerifyParts(p)
  PROVE  TypeOK'
<1> USE DEF rest
<1>1. /\ txn \in [Procs -> TxnType] /\ txn[p] \in TxnType /\ job[p] \in JobType
      /\ dest \in [Parts -> Items] /\ backup \in [Parts -> Items]
      /\ lock \in Procs \cup {NoOne} /\ published \in Releases /\ faults \in 0..MaxFaults
  BY Types
<1>2. job' \in [Procs -> JobType]
 <2>1. Advance(p)
   BY DEF WriteManifest, CreateStage, CopyStage, Snapshot, BackUp, InstallPart, VerifyParts
 <2> QED BY <2>1, AdvanceTyped
<1>3. /\ lock' \in Procs \cup {NoOne} /\ published' \in Releases /\ faults' \in 0..MaxFaults
  BY <1>1 DEF WriteManifest, CreateStage, CopyStage, Snapshot, BackUp, InstallPart, VerifyParts
<1>4. Absent \in Items BY DEF Absent, Items
<1>5. CASE WriteManifest(p)
 <2> DEFINE ids == txn[p].ids \cup {c \in Parts : There(txn[p].stage[c])}
            orig == IF txn[p].state = "none" THEN dest ELSE txn[p].orig
 <2>1. ids \in SUBSET Parts /\ orig \in [Parts -> Items] /\ Arg(p) \in JournalStates
   BY <1>1, <1>5, ArgTyped DEF WriteManifest, TxnType
 <2>2. txn' = [txn EXCEPT ![p] = [txn[p] EXCEPT !.state = Arg(p), !.ids = ids, !.orig = orig]]
   BY <1>5 DEF WriteManifest
 <2> HIDE DEF ids, orig
 <2>3. [txn[p] EXCEPT !.state = Arg(p), !.ids = ids, !.orig = orig] \in TxnType
   BY <1>1, <2>1 DEF TxnType
 <2>4. txn' \in [Procs -> TxnType] BY <1>1, <2>2, <2>3
 <2>5. dest' = dest /\ backup' = backup BY <1>5 DEF WriteManifest
 <2> QED BY <1>1, <1>2, <1>3, <2>4, <2>5, TypesNext
<1>6. CASE CreateStage(p) \/ CopyStage(p)
 <2>1. PICK item \in Items, c \in Parts : txn' = [txn EXCEPT ![p].stage[c] = item]
  <3>1. CASE CreateStage(p)
   <4>1. [by |-> p, ver |-> job[p].ver, whole |-> FALSE] \in Items BY <1>1 DEF Items, JobType
   <4> QED BY <3>1, <4>1, ArgTyped DEF CreateStage
  <3>2. CASE CopyStage(p)
   <4>1. Arg(p) \in Parts BY <3>2, ArgTyped DEF CopyStage
   <4>2. txn[p].stage[Arg(p)] \in Items BY <1>1, <4>1 DEF TxnType
   <4>3. [txn[p].stage[Arg(p)] EXCEPT !.whole = TRUE] \in Items BY <4>2 DEF Items
   <4>4. txn' = [txn EXCEPT ![p].stage[Arg(p)] = [txn[p].stage[Arg(p)] EXCEPT !.whole = TRUE]]
     BY <3>2 DEF CopyStage
   <4> QED BY <4>1, <4>3, <4>4
  <3> QED BY <1>6, <3>1, <3>2
 <2>2. [txn[p].stage EXCEPT ![c] = item] \in [Parts -> Items] BY <1>1 DEF TxnType
 <2>3. [txn[p] EXCEPT !.stage = [txn[p].stage EXCEPT ![c] = item]] \in TxnType
   BY <1>1, <2>2 DEF TxnType
 <2>4. txn' = [txn EXCEPT ![p] = [txn[p] EXCEPT !.stage = [txn[p].stage EXCEPT ![c] = item]]]
   BY <2>1
 <2>5. txn' \in [Procs -> TxnType] BY <1>1, <2>3, <2>4
 <2>6. dest' = dest /\ backup' = backup BY <1>6 DEF CreateStage, CopyStage
 <2> QED BY <1>1, <1>2, <1>3, <2>5, <2>6, TypesNext
<1>7. CASE Snapshot(p)
 <2>1. txn[p].snap \cup {Arg(p)} \in SUBSET Parts
   BY <1>1, <1>7, ArgTyped DEF Snapshot, TxnType
 <2>2. [txn[p] EXCEPT !.snap = txn[p].snap \cup {Arg(p)}] \in TxnType
   BY <1>1, <2>1 DEF TxnType
 <2>3. txn' = [txn EXCEPT ![p] = [txn[p] EXCEPT !.snap = txn[p].snap \cup {Arg(p)}]]
   BY <1>7 DEF Snapshot
 <2>4. txn' \in [Procs -> TxnType] BY <1>1, <2>2, <2>3
 <2>5. dest' = dest /\ backup' = backup BY <1>7 DEF Snapshot
 <2> QED BY <1>1, <1>2, <1>3, <2>4, <2>5, TypesNext
<1>8. CASE BackUp(p)
 <2>1. Arg(p) \in Parts BY <1>8, ArgTyped DEF BackUp
 <2>2. dest' \in [Parts -> Items] /\ backup' \in [Parts -> Items] /\ txn' = txn
   BY <1>1, <1>4, <1>8, <2>1 DEF BackUp
 <2> QED BY <1>1, <1>2, <1>3, <2>2, TypesNext
<1>9. CASE InstallPart(p)
 <2>1. Arg(p) \in Parts BY <1>9, ArgTyped DEF InstallPart
 <2>2. txn[p].stage[Arg(p)] \in Items BY <1>1, <2>1 DEF TxnType
 <2>3. dest' \in [Parts -> Items] /\ backup' = backup BY <1>1, <1>9, <2>2 DEF InstallPart
 <2>4. [txn[p].stage EXCEPT ![Arg(p)] = Absent] \in [Parts -> Items] BY <1>1, <1>4 DEF TxnType
 <2>5. [txn[p] EXCEPT !.stage = [txn[p].stage EXCEPT ![Arg(p)] = Absent]] \in TxnType
   BY <1>1, <2>4 DEF TxnType
 <2>6. txn' = [txn EXCEPT ![p] = [txn[p] EXCEPT !.stage = [txn[p].stage EXCEPT ![Arg(p)] = Absent]]]
   BY <1>9 DEF InstallPart
 <2>7. txn' \in [Procs -> TxnType] BY <1>1, <2>5, <2>6
 <2> QED BY <1>1, <1>2, <1>3, <2>3, <2>7, TypesNext
<1>10. CASE VerifyParts(p)
 <2>1. dest' = dest /\ backup' = backup /\ txn' = txn BY <1>10 DEF VerifyParts, disk
 <2> QED BY <1>1, <1>2, <1>3, <2>1, TypesNext
<1> QED BY <1>5, <1>6, <1>7, <1>8, <1>9, <1>10

(* Starting an installer and taking the lock. *)
LEMMA StartTyped ==
  ASSUME TypeOK, NEW p \in Procs, StartDirect(p) \/ AcquireLock(p) \/ LockTimeout(p)
  PROVE  TypeOK'
<1>1. /\ job[p] \in JobType /\ published \in 1..MaxRelease /\ lock \in Procs \cup {NoOne}
      /\ txn \in [Procs -> TxnType] /\ dest \in [Parts -> Items] /\ backup \in [Parts -> Items]
      /\ faults \in 0..MaxFaults BY Types DEF Releases
<1>2. job' \in [Procs -> JobType]
 <2>1. CASE StartDirect(p)
  <3>1. PICK v \in 1..published :
          job' = [job EXCEPT ![p].kind = "direct", ![p].ver = v, ![p].in = "wait"]
    BY <2>1 DEF StartDirect
  <3>2. v \in 0..MaxRelease BY <1>1
  <3>3. [job[p] EXCEPT !.kind = "direct", !.ver = v, !.in = "wait"] \in JobType
    BY <1>1, <3>2 DEF JobType, InSteps
  <3>4. job' = [job EXCEPT ![p] = [job[p] EXCEPT !.kind = "direct", !.ver = v, !.in = "wait"]]
    BY <3>1
  <3> QED BY <3>3, <3>4, JobStep
 <2>2. CASE AcquireLock(p) \/ LockTimeout(p)
  <3>1. [job[p] EXCEPT !.in = "recover"] \in JobType /\ [job[p] EXCEPT !.in = "off"] \in JobType
    BY <1>1 DEF JobType, InSteps
  <3>2. \/ job' = [job EXCEPT ![p] = [job[p] EXCEPT !.in = "recover"]]
        \/ job' = [job EXCEPT ![p] = [job[p] EXCEPT !.in = "off"]]
    BY <2>2 DEF AcquireLock, LockTimeout
  <3> QED BY <3>1, <3>2, JobStep
 <2> QED BY <2>1, <2>2
<1>3. /\ dest' = dest /\ backup' = backup /\ txn' = txn /\ published' = published
      /\ faults' = faults /\ lock' \in Procs \cup {NoOne}
  BY <1>1 DEF StartDirect, AcquireLock, LockTimeout, disk
<1> QED BY <1>1, <1>2, <1>3, TypesNext DEF Releases

(* Looking for older transactions and beginning one. *)
LEMMA RecoverTyped ==
  ASSUME TypeOK, NEW p \in Procs, Recover(p) \/ Begin(p)
  PROVE  TypeOK'
<1>1. /\ job \in [Procs -> JobType] /\ job[p] \in JobType /\ published \in Releases
      /\ lock \in Procs \cup {NoOne} /\ txn \in [Procs -> TxnType]
      /\ dest \in [Parts -> Items] /\ backup \in [Parts -> Items] /\ faults \in 0..MaxFaults
  BY Types
<1>2. /\ dest' = dest /\ backup' = backup /\ published' = published /\ faults' = faults
      /\ lock' \in Procs \cup {NoOne} BY <1>1 DEF Recover, Begin, LockAfter
<1>3. \A t \in Procs : /\ [txn[t] EXCEPT !.dir = FALSE] \in TxnType
                       /\ [txn[t] EXCEPT !.dir = TRUE] \in TxnType
  BY ZenonT(60), <1>1 DEF TxnType
<1>4. \/ txn' = txn
      \/ \E t \in Procs : \/ txn' = [txn EXCEPT ![t] = [txn[t] EXCEPT !.dir = FALSE]]
                          \/ txn' = [txn EXCEPT ![t] = [txn[t] EXCEPT !.dir = TRUE]]
  BY DEF Recover, Begin
<1>5. txn' \in [Procs -> TxnType] BY <1>1, <1>3, <1>4
<1>6. job' \in [Procs -> JobType]
 <2>1. CASE job' = job BY <1>1, <2>1
 <2>2. CASE job' = Exited(p, FALSE) BY <2>2, ExitedDoes
 <2>3. CASE Begin(p) /\ job' # Exited(p, FALSE)
  <3> DEFINE j == [job[p] EXCEPT !.in = "script", !.t = p]
  <3>1. j \in JobType BY <1>1 DEF JobType, InSteps
  <3>2. [j EXCEPT !.step = 1] \in JobType
   <4> HIDE DEF j
   <4> QED BY <3>1 DEF JobType
  <3>3. job' = [job EXCEPT ![p] = [j EXCEPT !.step = 1]] BY <2>3 DEF Begin
  <3> HIDE DEF j
  <3> QED BY <3>2, <3>3, JobStep
 <2>4. CASE Recover(p) /\ job' # job /\ job' # Exited(p, FALSE)
  <3>1. PICK t \in Procs, in \in {"clean", "finish", "undo"} :
          job' = [job EXCEPT ![p].t = t, ![p].part = "binary", ![p].half = FALSE,
                             ![p].failed = FALSE, ![p].in = in] BY <2>4 DEF Recover
  <3> DEFINE j == [job[p] EXCEPT !.t = t, !.part = "binary"]
  <3>2. j \in JobType BY <1>1 DEF JobType, Parts
  <3>3. [j EXCEPT !.half = FALSE, !.failed = FALSE, !.in = in] \in JobType
   <4> HIDE DEF j
   <4> QED BY <3>2 DEF JobType, InSteps
  <3>4. job' = [job EXCEPT ![p] = [j EXCEPT !.half = FALSE, !.failed = FALSE, !.in = in]]
    BY <3>1
  <3> HIDE DEF j
  <3> QED BY <3>3, <3>4, JobStep
 <2> QED BY <2>1, <2>2, <2>3, <2>4
<1> QED BY <1>1, <1>2, <1>5, <1>6, TypesNext

(* Rollback, finalisation and cleanup. *)
LEMMA UndoTyped ==
  ASSUME TypeOK, NEW p \in Procs,
         UndoRemove(p) \/ UndoRemoved(p) \/ UndoRestore(p) \/ UndoStage(p) \/ UndoRefused(p)
           \/ FinishBackup(p) \/ CleanMark(p) \/ CleanSnapshot(p) \/ CleanManifest(p)
           \/ CleanDirectory(p)
  PROVE  TypeOK'
<1> USE DEF rest, disk
<1>1. /\ job \in [Procs -> JobType] /\ job[p] \in JobType /\ published \in Releases
      /\ lock \in Procs \cup {NoOne} /\ txn \in [Procs -> TxnType]
      /\ dest \in [Parts -> Items] /\ backup \in [Parts -> Items] /\ faults \in 0..MaxFaults
      /\ job[p].part \in Parts BY Types DEF JobType
<1>2. published' = published /\ faults' = faults
  BY DEF UndoRemove, UndoRemoved, UndoRestore, UndoStage, UndoRefused, FinishBackup, CleanMark,
     CleanSnapshot, CleanManifest, CleanDirectory
<1>3. Absent \in Items BY DEF Absent, Items
<1>4. \A x \in Items : [x EXCEPT !.whole = FALSE] \in Items BY DEF Items
<1>5. dest' \in [Parts -> Items]
 <2>1. CASE UndoRemove(p) BY <1>1, <1>3, <1>4, <2>1 DEF UndoRemove
 <2>2. CASE UndoRemoved(p) BY <1>1, <1>3, <2>2 DEF UndoRemoved
 <2>3. CASE UndoRestore(p) BY <1>1, <2>3 DEF UndoRestore
 <2>4. CASE ~(UndoRemove(p) \/ UndoRemoved(p) \/ UndoRestore(p))
   BY <1>1, <2>4 DEF UndoStage, UndoRefused, FinishBackup, CleanMark, CleanSnapshot,
      CleanManifest, CleanDirectory
 <2> QED BY <2>1, <2>2, <2>3, <2>4
<1>6. backup' \in [Parts -> Items]
 <2>1. CASE UndoRestore(p) BY <1>1, <1>3, <2>1 DEF UndoRestore
 <2>2. CASE FinishBackup(p) BY <1>1, <1>3, <1>4, <2>2 DEF FinishBackup
 <2>3. CASE ~(UndoRestore(p) \/ FinishBackup(p))
   BY <1>1, <2>3 DEF UndoRemove, UndoRemoved, UndoStage, UndoRefused, CleanMark, CleanSnapshot,
      CleanManifest, CleanDirectory
 <2> QED BY <2>1, <2>2, <2>3
<1>7. txn' \in [Procs -> TxnType]
 <2> DEFINE t == job[p].t
 <2>1. CASE txn' = txn BY <1>1, <2>1
 <2>2. CASE t \notin Procs
  <3>1. \A x : [txn EXCEPT ![t] = x] = txn BY <1>1, <2>2
  <3>2. CASE UndoStage(p) BY <1>1, <3>1, <3>2 DEF UndoStage
  <3>3. CASE CleanMark(p) \/ CleanManifest(p) \/ CleanDirectory(p)
    BY <1>1, <3>1, <3>3 DEF CleanMark, CleanManifest, CleanDirectory
  <3>4. CASE CleanSnapshot(p) BY <1>1, <3>1, <3>4 DEF CleanSnapshot
  <3> QED BY <1>1, <3>2, <3>3, <3>4
          DEF UndoRemove, UndoRemoved, UndoRestore, UndoRefused, FinishBackup
 <2>3. CASE t \in Procs /\ txn' # txn
  <3>1. txn[t] \in TxnType BY <1>1, <2>3
  <3>2. CASE UndoStage(p)
   <4>1. [txn[t].stage EXCEPT ![job[p].part] = Absent] \in [Parts -> Items]
     BY <1>1, <1>3, <3>1 DEF TxnType
   <4>2. [txn[t] EXCEPT !.stage = [txn[t].stage EXCEPT ![job[p].part] = Absent]] \in TxnType
     BY <3>1, <4>1 DEF TxnType
   <4>3. txn' = [txn EXCEPT ![t] = [txn[t] EXCEPT !.stage =
                                      [txn[t].stage EXCEPT ![job[p].part] = Absent]]]
     BY <2>3, <3>2 DEF UndoStage
   <4> QED BY <1>1, <4>2, <4>3
  <3>3. CASE CleanMark(p)
   <4>1. [txn[t] EXCEPT !.state = "cleanup_pending"] \in TxnType
     BY <3>1 DEF TxnType, JournalStates
   <4> QED BY <1>1, <3>3, <4>1 DEF CleanMark
  <3>4. CASE CleanSnapshot(p)
   <4>1. /\ txn[t].snap \ {"binary"} \in SUBSET Parts /\ {} \in SUBSET Parts
     BY <3>1 DEF TxnType
   <4>2. /\ [txn[t] EXCEPT !.snap = txn[t].snap \ {"binary"}] \in TxnType
         /\ [txn[t] EXCEPT !.snap = {}] \in TxnType BY <3>1, <4>1 DEF TxnType
   <4>3. \/ txn' = [txn EXCEPT ![t] = [txn[t] EXCEPT !.snap = txn[t].snap \ {"binary"}]]
         \/ txn' = [txn EXCEPT ![t] = [txn[t] EXCEPT !.snap = {}]] BY <3>4 DEF CleanSnapshot
   <4> QED BY <1>1, <4>2, <4>3
  <3>5. CASE CleanManifest(p)
   <4> DEFINE orig == [c \in Parts |-> Absent]
   <4>1. orig \in [Parts -> Items] BY <1>3
   <4>2. txn' = [txn EXCEPT ![t] = [txn[t] EXCEPT !.state = "none", !.ids = {}, !.orig = orig]]
     BY <3>5 DEF CleanManifest
   <4> HIDE DEF orig
   <4>3. [txn[t] EXCEPT !.state = "none", !.ids = {}, !.orig = orig] \in TxnType
     BY <3>1, <4>1 DEF TxnType, JournalStates
   <4> QED BY <1>1, <4>2, <4>3
  <3>6. CASE CleanDirectory(p)
   <4>1. [txn[t] EXCEPT !.dir = FALSE] \in TxnType BY <3>1 DEF TxnType
   <4> QED BY <1>1, <3>6, <4>1 DEF CleanDirectory
  <3>7. ~UndoRemove(p) /\ ~UndoRemoved(p) /\ ~UndoRestore(p) /\ ~UndoRefused(p) /\ ~FinishBackup(p)
    BY <2>3 DEF UndoRemove, UndoRemoved, UndoRestore, UndoRefused, FinishBackup
  <3> QED BY <3>2, <3>3, <3>4, <3>5, <3>6, <3>7
 <2> QED BY <2>1, <2>2, <2>3
<1>8. job' \in [Procs -> JobType] /\ lock' \in Procs \cup {NoOne}
 <2>1. CASE UndoStage(p) \/ UndoRefused(p) BY <2>1, NextPartTyped DEF UndoStage, UndoRefused
 <2>2. CASE CleanDirectory(p) BY <2>2, ReturnTyped DEF CleanDirectory
 <2>3. CASE ~(UndoStage(p) \/ UndoRefused(p) \/ CleanDirectory(p))
  <3>1. /\ [job[p] EXCEPT !.half = TRUE] \in JobType /\ [job[p] EXCEPT !.half = FALSE] \in JobType
        /\ [job[p] EXCEPT !.part = "skill"] \in JobType
        /\ [job[p] EXCEPT !.in = "clean"] \in JobType BY <1>1 DEF JobType, Parts, InSteps
  <3>2. \/ job' = job
        \/ job' = [job EXCEPT ![p] = [job[p] EXCEPT !.half = TRUE]]
        \/ job' = [job EXCEPT ![p] = [job[p] EXCEPT !.half = FALSE]]
        \/ job' = [job EXCEPT ![p] = [job[p] EXCEPT !.part = "skill"]]
        \/ job' = [job EXCEPT ![p] = [job[p] EXCEPT !.in = "clean"]]
    BY <2>3 DEF UndoRemove, UndoRemoved, UndoRestore, FinishBackup, CleanMark, CleanSnapshot,
       CleanManifest
  <3>3. lock' = lock
    BY <2>3 DEF UndoRemove, UndoRemoved, UndoRestore, FinishBackup, CleanMark, CleanSnapshot,
       CleanManifest
  <3> QED BY <1>1, <3>1, <3>2, <3>3, JobStep
 <2> QED BY <2>1, <2>2, <2>3
<1> QED BY <1>1, <1>2, <1>5, <1>6, <1>7, <1>8, TypesNext

(* Failures and kills. *)
LEMMA FaultTyped ==
  ASSUME TypeOK, NEW p \in Procs,
         Cancel(p) \/ Fail(p) \/ KillInstaller(p) \/ KillUpdater(p)
  PROVE  TypeOK'
<1> USE DEF disk, Fault
<1>1. /\ job \in [Procs -> JobType] /\ job[p] \in JobType /\ published \in Releases
      /\ lock \in Procs \cup {NoOne} /\ txn \in [Procs -> TxnType] /\ txn[p] \in TxnType
      /\ dest \in [Parts -> Items] /\ backup \in [Parts -> Items] /\ faults \in 0..MaxFaults
  BY Types
<1>2. /\ dest' = dest /\ backup' = backup /\ published' = published /\ faults' \in 0..MaxFaults
 <2>1. faults < MaxFaults /\ faults' = faults + 1
   BY DEF Cancel, Fail, KillInstaller, KillUpdater
 <2>2. dest' = dest /\ backup' = backup /\ published' = published
   BY DEF Cancel, Fail, KillInstaller, KillUpdater
 <2> QED BY <1>1, <2>1, <2>2
<1>3. CASE Cancel(p) \/ Fail(p)
 <2>1. PICK left \in BOOLEAN, canceled \in BOOLEAN : Failing(p, left, canceled)
   BY <1>3 DEF Cancel, Fail, Leaves
 <2> QED BY <1>1, <1>2, <2>1, FailingTyped, TypesNext
<1>4. CASE KillInstaller(p)
 <2>1. job' \in [Procs -> JobType] /\ lock' \in Procs \cup {NoOne}
   BY <1>1, <1>4, ExitedDoes DEF KillInstaller, LockAfter
 <2>2. PICK left \in BOOLEAN :
         txn' = [txn EXCEPT ![p] = [txn[p] EXCEPT !.tmp = left /\ job[p].in = "script"]]
   BY <1>4 DEF KillInstaller, Leaves
 <2>3. [txn[p] EXCEPT !.tmp = left /\ job[p].in = "script"] \in TxnType
  <3> DEFINE tmp == left /\ job[p].in = "script"
  <3>1. tmp \in BOOLEAN OBVIOUS
  <3> HIDE DEF tmp
  <3>2. [txn[p] EXCEPT !.tmp = tmp] \in TxnType BY <1>1, <3>1 DEF TxnType
  <3> QED BY <3>2 DEF tmp
 <2>4. txn' \in [Procs -> TxnType] BY <1>1, <2>2, <2>3
 <2> QED BY <1>1, <1>2, <2>1, <2>4, TypesNext
<1>5. CASE KillUpdater(p)
 <2>1. [job[p] EXCEPT !.up = "dead"] \in JobType BY <1>1 DEF JobType, UpSteps
 <2>2. job' \in [Procs -> JobType] BY <1>5, <2>1, JobStep DEF KillUpdater
 <2>3. lock' \in Procs \cup {NoOne} /\ txn' = txn
   BY <1>1, <1>5 DEF KillUpdater, LockWithoutUpdater
 <2> QED BY <1>1, <1>2, <2>2, <2>3, TypesNext
<1> QED BY <1>3, <1>4, <1>5

(* Every process ends at once. *)
LEMMA PowerLossTyped ==
  ASSUME TypeOK, PowerLoss
  PROVE  TypeOK'
<1>1. /\ job \in [Procs -> JobType] /\ published \in Releases /\ txn \in [Procs -> TxnType]
      /\ dest \in [Parts -> Items] /\ backup \in [Parts -> Items] /\ faults \in 0..MaxFaults
  BY Types
<1>2. ASSUME NEW q \in Procs PROVE job'[q] \in JobType
 <2> DEFINE j == Gone(job[q], FALSE)
            u == IF j.up \in {"off", "done"} THEN j.up ELSE "dead"
 <2>1. j \in JobType BY <1>1, GoneIs
 <2> HIDE DEF j
 <2>2. u \in UpSteps BY <2>1 DEF JobType, UpSteps
 <2>3. job'[q] = [j EXCEPT !.up = u] BY DEF PowerLoss, j
 <2> HIDE DEF u
 <2>4. [j EXCEPT !.up = u] \in JobType BY <2>1, <2>2 DEF JobType
 <2> QED BY <2>3, <2>4
<1>3. job' \in [Procs -> JobType] BY <1>2 DEF PowerLoss
<1>4. lock' = NoOne /\ dest' = dest /\ backup' = backup /\ txn' = txn /\ published' = published
  BY DEF PowerLoss, disk
<1>5. faults' \in 0..MaxFaults BY <1>1 DEF PowerLoss, Fault
<1> QED BY <1>1, <1>3, <1>4, <1>5, TypesNext

(* Everything else an updater does. *)
LEMMA UpdaterTyped ==
  ASSUME TypeOK, NEW p \in Procs, Updater(p), ~Cancel(p)
  PROVE  TypeOK'
<1> USE DEF disk
<1>1. /\ published \in Releases /\ lock \in Procs \cup {NoOne} /\ txn \in [Procs -> TxnType]
      /\ dest \in [Parts -> Items] /\ backup \in [Parts -> Items] /\ faults \in 0..MaxFaults
  BY Types
<1>2. job' \in [Procs -> JobType] BY UpdaterJobTyped
<1>3. dest' = dest /\ backup' = backup /\ txn' = txn /\ published' = published
  BY DEF Updater, StartUpdate, FetchLatest, DownloadManifest, DownloadArchive, Refuse, Extract,
     TakeLock, ReadInstalled, RunInstaller, InstallerEnded, VerifyInstalled, Cleanup, CloseLock,
     Proceed
<1>4. lock' \in Procs \cup {NoOne}
  BY <1>1 DEF Updater, StartUpdate, FetchLatest, DownloadManifest, DownloadArchive, Refuse,
     Extract, TakeLock, ReadInstalled, RunInstaller, InstallerEnded, VerifyInstalled, Cleanup,
     CloseLock, Proceed
<1>5. faults' = faults \/ Fault
  BY DEF Updater, StartUpdate, FetchLatest, DownloadManifest, DownloadArchive, Refuse, Extract,
     TakeLock, ReadInstalled, RunInstaller, InstallerEnded, VerifyInstalled, Cleanup, CloseLock,
     Proceed
<1>6. faults' \in 0..MaxFaults BY <1>1, <1>5 DEF Fault
<1> QED BY <1>1, <1>2, <1>3, <1>4, <1>6, TypesNext

(* No step leaves the types. *)
LEMMA NextTyped ==
  ASSUME TypeOK, [Next]_vars
  PROVE  TypeOK'
<1>1. ASSUME NEW p \in Procs, Updater(p) PROVE TypeOK' BY <1>1, UpdaterTyped, FaultTyped
<1>2. ASSUME NEW p \in Procs, Installer(p) PROVE TypeOK'
 <2>1. CASE StartDirect(p) \/ AcquireLock(p) \/ LockTimeout(p) BY <2>1, StartTyped
 <2>2. CASE Recover(p) \/ Begin(p) BY <2>2, RecoverTyped
 <2>3. CASE WriteManifest(p) \/ CreateStage(p) \/ CopyStage(p) \/ Snapshot(p) \/ BackUp(p)
              \/ InstallPart(p) \/ VerifyParts(p) BY <2>3, ForwardTyped
 <2>4. CASE UndoRemove(p) \/ UndoRemoved(p) \/ UndoRestore(p) \/ UndoStage(p) \/ UndoRefused(p)
              \/ FinishBackup(p) \/ CleanMark(p) \/ CleanSnapshot(p) \/ CleanManifest(p)
              \/ CleanDirectory(p) BY <2>4, UndoTyped
 <2> QED BY <1>2, <2>1, <2>2, <2>3, <2>4 DEF Installer
<1>3. ASSUME NEW p \in Procs, Fail(p) \/ KillInstaller(p) \/ KillUpdater(p) PROVE TypeOK'
  BY <1>3, FaultTyped
<1>4. CASE PowerLoss BY <1>4, PowerLossTyped
<1>5. CASE Publish BY <1>5, Types, TypesNext DEF Publish, disk, Releases
<1>6. CASE UNCHANGED vars BY <1>6, Types, TypesNext DEF vars
<1> QED BY <1>1, <1>2, <1>3, <1>4, <1>5, <1>6 DEF Next

(***************************************************************************)
(* Base.  A step of one process leaves the others' jobs alone, and only    *)
(* the holder of the lock touches what somebody else has.                  *)
(***************************************************************************)

Local(p) ==
  /\ \A q \in Procs \ {p} : job'[q] = job[q]
  /\ lock' = lock \/ (lock \in {p, NoOne} /\ lock' \in {p, NoOne})

(* Nothing changes on the disk that anybody looks at. *)
Quiet ==
  /\ dest' = dest /\ backup' = backup
  /\ \A q \in Procs :
       /\ txn'[q].state = txn[q].state /\ txn'[q].dir = txn[q].dir
       /\ txn'[q].snap = txn[q].snap /\ txn'[q].ids = txn[q].ids
       /\ txn'[q].orig = txn[q].orig /\ txn'[q].stage = txn[q].stage

(* The holder of the lock adds nothing to what others left. *)
Careful(p) ==
  /\ lock = p
  /\ \A c \in Parts : /\ dest'[c].by \in {dest[c].by, backup[c].by, p, NoOne}
                      /\ backup'[c].by \in {dest[c].by, backup[c].by, p, NoOne}
  /\ \A q \in Procs \ {p} :
       /\ txn'[q].state # "none" => txn[q].state # "none" /\ txn'[q].dir
       /\ txn'[q].dir => txn[q].dir
       /\ txn'[q].snap \subseteq txn[q].snap /\ txn'[q].ids \subseteq txn[q].ids
       /\ \A c \in Parts : txn'[q].stage[c] \in {txn[q].stage[c], Absent}

(* What holds of the others goes on holding. *)
LEMMA OthersBase ==
  ASSUME Base, NEW p \in Procs, Local(p), Quiet \/ Careful(p), NEW q \in Procs \ {p}
  PROVE  Shape(q)' /\ LockHeld(q)' /\ Housed(q)' /\ Turn(q)' /\ Untouched(q)'
<1>1. /\ job'[q] = job[q] /\ (lock' = q <=> lock = q)
      /\ Shape(q) /\ LockHeld(q) /\ Housed(q) /\ Turn(q) /\ Untouched(q) BY DEF Local, Base
<1>2. Shape(q)' /\ LockHeld(q)' BY <1>1 DEF Shape, LockHeld, HasLock, Running
<1>3. CASE Quiet
 <2>1. Housed(q)' BY <1>1, <1>3 DEF Quiet, Housed, Journaled
 <2>2. Turn(q)' BY <1>1, <1>3 DEF Quiet, Turn, InFlight
 <2>3. Untouched(q)' BY <1>1, <1>3 DEF Quiet, Untouched, Fresh
 <2> QED BY <1>2, <2>1, <2>2, <2>3
<1>4. CASE Careful(p)
 <2>1. job[q].in \in {"off", "wait"} /\ ~HasLock(q)
   BY <1>1, <1>4 DEF Careful, LockHeld, Running
 <2>2. Housed(q)' BY <1>4 DEF Careful, Housed, Journaled
 <2>3. Turn(q)' BY <1>1, <2>1 DEF Turn
 <2>4. Untouched(q)'
  <3> SUFFICES ASSUME Fresh(q)'
      PROVE  /\ txn'[q].state = "none" /\ txn'[q].snap = {} /\ txn'[q].ids = {}
             /\ \A c \in Parts : /\ txn'[q].stage[c] = Absent
                                 /\ dest'[c].by # q /\ backup'[c].by # q
             /\ job'[q].in # "script" => ~txn'[q].dir BY DEF Untouched
  <3>1. Fresh(q) BY <1>1 DEF Fresh
  <3>2. q # NoOne OBVIOUS
  <3> QED BY <1>1, <1>4, <2>1, <3>1, <3>2 DEF Untouched, Careful
 <2> QED BY <1>2, <2>2, <2>3, <2>4
<1> QED BY <1>3, <1>4

Own(p) == Shape(p) /\ LockHeld(p) /\ Housed(p) /\ Turn(p) /\ Untouched(p)

(* What the updater does to its own job. *)
UpdaterSteps(p) ==
  \/ StartUpdate(p) \/ FetchLatest(p) \/ DownloadManifest(p) \/ DownloadArchive(p) \/ Refuse(p)
  \/ Extract(p) \/ TakeLock(p) \/ ReadInstalled(p) \/ RunInstaller(p) \/ InstallerEnded(p)
  \/ VerifyInstalled(p) \/ Cleanup(p) \/ CloseLock(p) \/ KillUpdater(p)
  \/ StartDirect(p) \/ AcquireLock(p) \/ LockTimeout(p)

(* It touches neither the disk nor another job. *)
LEMMA UpdaterLocal ==
  ASSUME Base, NEW p \in Procs, UpdaterSteps(p)
  PROVE  /\ Local(p) /\ dest' = dest /\ backup' = backup /\ txn' = txn
<1>1. job \in [Procs -> JobType] BY Types DEF Base
<1>2. \A q \in Procs \ {p} : job'[q] = job[q]
  BY <1>1 DEF UpdaterSteps, StartUpdate, FetchLatest, DownloadManifest, DownloadArchive, Refuse,
     Extract, TakeLock, ReadInstalled, RunInstaller, InstallerEnded, VerifyInstalled, Cleanup,
     CloseLock, KillUpdater, StartDirect, AcquireLock, LockTimeout, Proceed
<1>3. dest' = dest /\ backup' = backup /\ txn' = txn
  BY DEF UpdaterSteps, StartUpdate, FetchLatest, DownloadManifest, DownloadArchive, Refuse,
     Extract, TakeLock, ReadInstalled, RunInstaller, InstallerEnded, VerifyInstalled, Cleanup,
     CloseLock, KillUpdater, StartDirect, AcquireLock, LockTimeout, Proceed, disk
<1>4. lock' = lock \/ (lock \in {p, NoOne} /\ lock' \in {p, NoOne})
 <2>1. CASE CloseLock(p) BY <2>1 DEF CloseLock, Base, LockHeld, HasLock
 <2>2. CASE ~CloseLock(p)
   BY <2>2 DEF UpdaterSteps, StartUpdate, FetchLatest, DownloadManifest, DownloadArchive, Refuse,
      Extract, TakeLock, ReadInstalled, RunInstaller, InstallerEnded, VerifyInstalled, Cleanup,
      KillUpdater, StartDirect, AcquireLock, LockTimeout, Proceed, LockWithoutUpdater
 <2> QED BY <2>1, <2>2
<1> QED BY <1>2, <1>3, <1>4 DEF Local

(* An updater's steps keep its own part of Base. *)
LEMMA UpdaterOwn ==
  ASSUME Base, NEW p \in Procs, UpdaterSteps(p)
  PROVE  Own(p)'
<1>1. /\ job \in [Procs -> JobType] /\ published \in 1..MaxRelease
      /\ dest["binary"].ver \in 0..MaxRelease /\ p # NoOne
      /\ job[p].kind \in {"none", "update", "direct"}
  BY Types DEF Base, Releases, Parts, Items, JobType
<1>2. Own(p) BY DEF Base, Own
<1>3. dest' = dest /\ backup' = backup /\ txn' = txn BY UpdaterLocal
<1>4. Housed(p)' BY <1>2, <1>3 DEF Own, Housed, Journaled
<1>5. CASE StartUpdate(p)
 <2>1. Shape(p)' BY <1>1, <1>2, <1>5 DEF StartUpdate, Own, Shape
 <2>2. LockHeld(p)'
   BY <1>1, <1>2, <1>5 DEF StartUpdate, Own, Shape, LockHeld, HasLock, Running
 <2>3. Turn(p)' BY <1>1, <1>2, <1>3, <1>5 DEF StartUpdate, Own, Shape, Turn, InFlight
 <2>4. Untouched(p)' BY <1>1, <1>2, <1>3, <1>5 DEF StartUpdate, Own, Shape, Untouched, Fresh
 <2> QED BY <1>4, <2>1, <2>2, <2>3, <2>4 DEF Own
<1>6. CASE FetchLatest(p)
 <2>1. Shape(p)' BY <1>1, <1>2, <1>6 DEF FetchLatest, Own, Shape
 <2>2. LockHeld(p)'
   BY <1>1, <1>2, <1>6 DEF FetchLatest, Own, Shape, LockHeld, HasLock, Running
 <2>3. Turn(p)' BY <1>1, <1>2, <1>3, <1>6 DEF FetchLatest, Own, Shape, Turn, InFlight
 <2>4. Untouched(p)' BY <1>1, <1>2, <1>3, <1>6 DEF FetchLatest, Own, Shape, Untouched, Fresh
 <2> QED BY <1>4, <2>1, <2>2, <2>3, <2>4 DEF Own
<1>7. CASE DownloadManifest(p)
 <2>1. Shape(p)' BY <1>1, <1>2, <1>7 DEF DownloadManifest, Own, Shape, Proceed
 <2>2. LockHeld(p)'
   BY <1>1, <1>2, <1>7 DEF DownloadManifest, Own, Shape, LockHeld, HasLock, Running, Proceed
 <2>3. Turn(p)'
   BY <1>1, <1>2, <1>3, <1>7 DEF DownloadManifest, Own, Shape, Turn, InFlight, Proceed
 <2>4. Untouched(p)'
   BY <1>1, <1>2, <1>3, <1>7 DEF DownloadManifest, Own, Shape, Untouched, Fresh, Proceed
 <2> QED BY <1>4, <2>1, <2>2, <2>3, <2>4 DEF Own
<1>8. CASE DownloadArchive(p)
 <2>1. Shape(p)' BY <1>1, <1>2, <1>8 DEF DownloadArchive, Own, Shape, Proceed
 <2>2. LockHeld(p)'
   BY <1>1, <1>2, <1>8 DEF DownloadArchive, Own, Shape, LockHeld, HasLock, Running, Proceed
 <2>3. Turn(p)'
   BY <1>1, <1>2, <1>3, <1>8 DEF DownloadArchive, Own, Shape, Turn, InFlight, Proceed
 <2>4. Untouched(p)'
   BY <1>1, <1>2, <1>3, <1>8 DEF DownloadArchive, Own, Shape, Untouched, Fresh, Proceed
 <2> QED BY <1>4, <2>1, <2>2, <2>3, <2>4 DEF Own
<1>9. CASE Extract(p)
 <2>1. Shape(p)' BY <1>1, <1>2, <1>9 DEF Extract, Own, Shape, Proceed
 <2>2. LockHeld(p)'
   BY <1>1, <1>2, <1>9 DEF Extract, Own, Shape, LockHeld, HasLock, Running, Proceed
 <2>3. Turn(p)' BY <1>1, <1>2, <1>3, <1>9 DEF Extract, Own, Shape, Turn, InFlight, Proceed
 <2>4. Untouched(p)'
   BY <1>1, <1>2, <1>3, <1>9 DEF Extract, Own, Shape, Untouched, Fresh, Proceed
 <2> QED BY <1>4, <2>1, <2>2, <2>3, <2>4 DEF Own
<1>10. CASE Refuse(p)
 <2>1. Shape(p)' BY <1>1, <1>2, <1>10 DEF Refuse, Own, Shape, HasLock
 <2>2. LockHeld(p)'
   BY <1>1, <1>2, <1>10 DEF Refuse, Own, Shape, LockHeld, HasLock, Running, HasLock
 <2>3. Turn(p)' BY <1>1, <1>2, <1>3, <1>10 DEF Refuse, Own, Shape, Turn, InFlight, HasLock
 <2>4. Untouched(p)'
   BY <1>1, <1>2, <1>3, <1>10 DEF Refuse, Own, Shape, Untouched, Fresh, HasLock
 <2> QED BY <1>4, <2>1, <2>2, <2>3, <2>4 DEF Own
<1>11. CASE TakeLock(p)
 <2>1. Shape(p)' BY <1>1, <1>2, <1>11 DEF TakeLock, Own, Shape
 <2>2. LockHeld(p)' BY <1>1, <1>2, <1>11 DEF TakeLock, Own, Shape, LockHeld, HasLock, Running
 <2>3. Turn(p)' BY <1>1, <1>2, <1>3, <1>11 DEF TakeLock, Own, Shape, Turn, InFlight
 <2>4. Untouched(p)' BY <1>1, <1>2, <1>3, <1>11 DEF TakeLock, Own, Shape, Untouched, Fresh
 <2> QED BY <1>4, <2>1, <2>2, <2>3, <2>4 DEF Own
<1>12. CASE ReadInstalled(p)
 <2> DEFINE u == IF dest["binary"].whole /\ Older(dest["binary"].ver, job[p].ver)
                 THEN "extract" ELSE "close"
            m == \E t \in Procs : InFlight(t)
            r == CASE ~dest["binary"].whole -> "refused"
                   [] ~Older(dest["binary"].ver, job[p].ver) -> "current"
                   [] OTHER -> "none"
 <2>1. u \in {"extract", "close"} /\ r \in {"refused", "current", "none"}
       /\ (r = "none" <=> u = "extract") OBVIOUS
 <2>2. job' = [job EXCEPT ![p].up = u, ![p].mixed = m, ![p].result = r]
   BY <1>12, Zenon DEF ReadInstalled
 <2>3. job[p].up = "read" /\ lock' = lock BY <1>12 DEF ReadInstalled
 <2> HIDE DEF u, m, r
 <2>4. /\ job'[p].kind = job[p].kind /\ job'[p].ver = job[p].ver /\ job'[p].in = job[p].in
       /\ job'[p].step = job[p].step /\ job'[p].t = job[p].t /\ job'[p].ok = job[p].ok
       /\ job'[p].trap = job[p].trap /\ job'[p].up = u /\ job'[p].result = r
   BY <1>1, <2>2 DEF JobType
 <2>5. Shape(p)' BY <1>1, <1>2, <2>1, <2>3, <2>4 DEF Own, Shape
 <2>6. LockHeld(p)' BY <1>2, <2>1, <2>3, <2>4 DEF Own, LockHeld, HasLock, Running
 <2>7. Turn(p)' BY <1>2, <1>3, <2>3, <2>4 DEF Own, Shape, Turn, InFlight
 <2>8. Untouched(p)' BY <1>2, <1>3, <2>1, <2>3, <2>4 DEF Own, Shape, Untouched, Fresh
 <2> QED BY <1>4, <2>5, <2>6, <2>7, <2>8 DEF Own
<1>13. CASE RunInstaller(p)
 <2>1. Shape(p)' BY <1>1, <1>2, <1>13 DEF RunInstaller, Own, Shape
 <2>2. LockHeld(p)'
   BY <1>1, <1>2, <1>13 DEF RunInstaller, Own, Shape, LockHeld, HasLock, Running
 <2>3. Turn(p)'
   BY <1>1, <1>2, <1>3, <1>13 DEF RunInstaller, Own, Shape, Turn, Untouched, Fresh
 <2>4. Untouched(p)' BY <1>1, <1>2, <1>3, <1>13 DEF RunInstaller, Own, Shape, Untouched, Fresh
 <2> QED BY <1>4, <2>1, <2>2, <2>3, <2>4 DEF Own
<1>14. CASE InstallerEnded(p)
 <2>1. Shape(p)' BY <1>1, <1>2, <1>14 DEF InstallerEnded, Own, Shape
 <2>2. LockHeld(p)'
   BY <1>1, <1>2, <1>14 DEF InstallerEnded, Own, Shape, LockHeld, HasLock, Running
 <2>3. Turn(p)' BY <1>1, <1>2, <1>3, <1>14 DEF InstallerEnded, Own, Shape, Turn, InFlight
 <2>4. Untouched(p)'
   BY <1>1, <1>2, <1>3, <1>14 DEF InstallerEnded, Own, Shape, Untouched, Fresh
 <2> QED BY <1>4, <2>1, <2>2, <2>3, <2>4 DEF Own
<1>15. CASE VerifyInstalled(p)
 <2>1. PICK r \in {"complete", "unknown"} :
         job' = [job EXCEPT ![p].up = "cleanup", ![p].result = r] BY <1>15 DEF VerifyInstalled
 <2>2. /\ job[p].up = "verify" /\ job'[p].up = "cleanup" /\ lock' = lock
       /\ job'[p].result \in {"complete", "unknown"}
       /\ job'[p].kind = job[p].kind /\ job'[p].ver = job[p].ver /\ job'[p].in = job[p].in
       /\ job'[p].step = job[p].step /\ job'[p].t = job[p].t /\ job'[p].ok = job[p].ok
       /\ job'[p].trap = job[p].trap BY <1>1, <1>15, <2>1 DEF VerifyInstalled, JobType
 <2>3. Shape(p)' BY <1>1, <1>2, <2>1, <2>2 DEF Own, Shape
 <2>4. LockHeld(p)' BY <1>2, <2>2 DEF Own, LockHeld, HasLock, Running
 <2>5. Turn(p)' BY <1>2, <1>3, <2>2 DEF Own, Shape, Turn, InFlight
 <2>6. Untouched(p)' BY <1>2, <1>3, <2>2 DEF Own, Shape, Untouched, Fresh
 <2> QED BY <1>4, <2>3, <2>4, <2>5, <2>6 DEF Own
<1>16. CASE Cleanup(p)
 <2>1. Shape(p)' BY <1>1, <1>2, <1>16 DEF Cleanup, Own, Shape
 <2>2. LockHeld(p)' BY <1>1, <1>2, <1>16 DEF Cleanup, Own, Shape, LockHeld, HasLock, Running
 <2>3. Turn(p)' BY <1>1, <1>2, <1>3, <1>16 DEF Cleanup, Own, Shape, Turn, InFlight
 <2>4. Untouched(p)' BY <1>1, <1>2, <1>3, <1>16 DEF Cleanup, Own, Shape, Untouched, Fresh
 <2> QED BY <1>4, <2>1, <2>2, <2>3, <2>4 DEF Own
<1>17. CASE CloseLock(p)
 <2>1. Shape(p)' BY <1>1, <1>2, <1>17 DEF CloseLock, Own, Shape
 <2>2. LockHeld(p)' BY <1>1, <1>2, <1>17 DEF CloseLock, Own, Shape, LockHeld, HasLock, Running
 <2>3. Turn(p)' BY <1>1, <1>2, <1>3, <1>17 DEF CloseLock, Own, Shape, Turn, InFlight
 <2>4. Untouched(p)' BY <1>1, <1>2, <1>3, <1>17 DEF CloseLock, Own, Shape, Untouched, Fresh
 <2> QED BY <1>4, <2>1, <2>2, <2>3, <2>4 DEF Own
<1>18. CASE KillUpdater(p)
 <2>1. Shape(p)' BY <1>1, <1>2, <1>18 DEF KillUpdater, Own, Shape, LockWithoutUpdater
 <2>2. LockHeld(p)'
   BY <1>1, <1>2, <1>18 DEF KillUpdater, Own, Shape, LockHeld, HasLock, Running, LockWithoutUpdater
 <2>3. Turn(p)'
   BY <1>1, <1>2, <1>3, <1>18 DEF KillUpdater, Own, Shape, Turn, InFlight, LockWithoutUpdater
 <2>4. Untouched(p)'
   BY <1>1, <1>2, <1>3, <1>18 DEF KillUpdater, Own, Shape, Untouched, Fresh, LockWithoutUpdater
 <2> QED BY <1>4, <2>1, <2>2, <2>3, <2>4 DEF Own
<1>19. CASE StartDirect(p)
 <2>1. Shape(p)' BY <1>1, <1>2, <1>19 DEF StartDirect, Own, Shape
 <2>2. LockHeld(p)'
   BY <1>1, <1>2, <1>19 DEF StartDirect, Own, Shape, LockHeld, HasLock, Running
 <2>3. Turn(p)' BY <1>1, <1>2, <1>3, <1>19 DEF StartDirect, Own, Shape, Turn, InFlight
 <2>4. Untouched(p)' BY <1>1, <1>2, <1>3, <1>19 DEF StartDirect, Own, Shape, Untouched, Fresh
 <2> QED BY <1>4, <2>1, <2>2, <2>3, <2>4 DEF Own
<1>20. CASE AcquireLock(p)
 <2>1. Shape(p)' BY <1>1, <1>2, <1>20 DEF AcquireLock, Own, Shape
 <2>2. LockHeld(p)'
   BY <1>1, <1>2, <1>20 DEF AcquireLock, Own, Shape, LockHeld, HasLock, Running
 <2>3. Turn(p)' BY <1>1, <1>2, <1>3, <1>20 DEF AcquireLock, Own, Shape, Turn, Untouched, Fresh
 <2>4. Untouched(p)' BY <1>1, <1>2, <1>3, <1>20 DEF AcquireLock, Own, Shape, Untouched, Fresh
 <2> QED BY <1>4, <2>1, <2>2, <2>3, <2>4 DEF Own
<1>21. CASE LockTimeout(p)
 <2>1. Shape(p)' BY <1>1, <1>2, <1>21 DEF LockTimeout, Own, Shape
 <2>2. LockHeld(p)'
   BY <1>1, <1>2, <1>21 DEF LockTimeout, Own, Shape, LockHeld, HasLock, Running
 <2>3. Turn(p)' BY <1>1, <1>2, <1>3, <1>21 DEF LockTimeout, Own, Shape, Turn, InFlight
 <2>4. Untouched(p)' BY <1>1, <1>2, <1>3, <1>21 DEF LockTimeout, Own, Shape, Untouched, Fresh
 <2> QED BY <1>4, <2>1, <2>2, <2>3, <2>4 DEF Own
<1> QED BY <1>5, <1>6, <1>7, <1>8, <1>9, <1>10, <1>11, <1>12, <1>13, <1>14, <1>15, <1>16, <1>17, <1>18, <1>19, <1>20, <1>21
        DEF UpdaterSteps

(* What a step of an installer never changes. *)
Same(p) ==
  /\ \A q \in Procs \ {p} : job'[q] = job[q]
  /\ job'[p].kind = job[p].kind /\ job'[p].ver = job[p].ver /\ job'[p].up = job[p].up
  /\ job'[p].mixed = job[p].mixed /\ job'[p].result = job[p].result

\* The installer goes on, with the lock and without an exit code.
Stays(p) ==
  /\ Same(p) /\ job'[p].ok = job[p].ok /\ lock' = lock
  /\ job'[p].in \notin {"off", "wait"}

\* The installer is gone with exit code ok.
Exits(p, ok) ==
  /\ Same(p) /\ job'[p].ok = ok /\ lock' = LockAfter(p)
  /\ job'[p].in = "off" /\ job'[p].t = NoOne

(* What a step of the script does to the job. *)
LEMMA AdvanceDoes ==
  ASSUME TypeOK, NEW p \in Procs, Advance(p), job[p].in = "script", lock' = lock
  PROVE  /\ Stays(p) /\ job'[p].t = job[p].t /\ job'[p].trap = job[p].trap
         /\ job[p].step < 25 => job'[p].in = "script" /\ job'[p].step = job[p].step + 1
         /\ job[p].step >= 25 => job'[p].in = "finish" /\ job'[p].part = "binary"
<1>1. job \in [Procs -> JobType] /\ job[p] \in JobType /\ job[p].step \in 1..25
  BY Types, ArgTyped
<1>2. CASE job[p].step < 25
 <2>1. job' = [job EXCEPT ![p].step = job[p].step + 1] BY <1>2, ScriptSteps DEF Advance
 <2> QED BY <1>1, <1>2, <2>1 DEF Stays, Same, JobType
<1>3. CASE ~(job[p].step < 25)
 <2>1. job' = [job EXCEPT ![p].in = "finish", ![p].part = "binary"]
   BY <1>3, ScriptSteps DEF Advance
 <2> QED BY <1>1, <1>3, <2>1 DEF Stays, Same, JobType
<1> QED BY <1>2, <1>3

(* What an exit does to the job. *)
LEMMA ExitDoes ==
  ASSUME TypeOK, NEW p \in Procs, NEW ok \in BOOLEAN, job' = Exited(p, ok), lock' = LockAfter(p)
  PROVE  Exits(p, ok)
<1>1. job[p] \in JobType BY Types
<1> QED BY <1>1, ExitedDoes, GoneIs DEF Exits, Same

(* What the end of a routine does to the job. *)
LEMMA ReturnDoes ==
  ASSUME TypeOK, NEW p \in Procs, NEW good \in BOOLEAN, Return(p, good), Running(p)
  PROVE  \/ /\ Stays(p) /\ job[p].t # p /\ good
            /\ job'[p].in = "recover" /\ job'[p].t = job[p].t /\ job'[p].trap = job[p].trap
         \/ Exits(p, good /\ ~job[p].trap) /\ (job[p].t = p \/ ~good)
<1>1. job \in [Procs -> JobType] /\ job[p] \in JobType BY Types
<1>2. CASE job[p].t # p /\ good
 <2>1. job' = [job EXCEPT ![p].in = "recover"] /\ lock' = lock BY <1>2 DEF Return
 <2> QED BY <1>1, <1>2, <2>1 DEF Stays, Same, JobType
<1>3. CASE ~(job[p].t # p /\ good)
 <2>1. job' = Exited(p, good /\ ~job[p].trap) /\ lock' = LockAfter(p) BY <1>3 DEF Return
 <2>2. (good /\ ~job[p].trap) \in BOOLEAN OBVIOUS
 <2>3. Exits(p, good /\ ~job[p].trap) BY <2>1, <2>2, ExitDoes
 <2> QED BY <1>3, <2>3
<1> QED BY <1>2, <1>3

(* What the end of a part does to the job. *)
LEMMA NextPartDoes ==
  ASSUME TypeOK, NEW p \in Procs, NEW good \in BOOLEAN, NextPart(p, good), Running(p)
  PROVE  \/ /\ Stays(p) /\ job[p].part = "binary" /\ job'[p].part = "skill"
            /\ job'[p].failed = ~good /\ job'[p].in = job[p].in /\ job'[p].t = job[p].t
            /\ job'[p].trap = job[p].trap /\ job'[p].half = job[p].half
         \/ /\ Stays(p) /\ job[p].part = "skill" /\ good /\ ~job[p].failed
            /\ job'[p].in = "clean" /\ job'[p].t = job[p].t /\ job'[p].trap = job[p].trap
         \/ Exits(p, FALSE)
<1>1. job \in [Procs -> JobType] /\ job[p] \in JobType /\ job[p].part \in {"binary", "skill"}
  BY Types DEF JobType, Parts
<1>2. CASE job[p].part = "binary"
 <2>1. job' = [job EXCEPT ![p].part = "skill", ![p].failed = ~good] /\ lock' = lock
   BY <1>2 DEF NextPart
 <2> QED BY <1>1, <1>2, <2>1 DEF Stays, Same, JobType, Running
<1>3. CASE job[p].part # "binary" /\ good /\ ~job[p].failed
 <2>1. job' = [job EXCEPT ![p].in = "clean"] /\ lock' = lock BY <1>3 DEF NextPart
 <2> QED BY <1>1, <1>3, <2>1 DEF Stays, Same, JobType
<1>4. CASE job[p].part # "binary" /\ ~(good /\ ~job[p].failed)
 <2>1. Return(p, FALSE) BY <1>4 DEF NextPart
 <2> QED BY <2>1, ReturnDoes
<1> QED BY <1>2, <1>3, <1>4

(* An installer that goes on keeps its place. *)
LEMMA StaysOwn ==
  ASSUME Base, NEW p \in Procs, Running(p), Stays(p)
  PROVE  Local(p) /\ lock = p /\ Shape(p)' /\ LockHeld(p)'
<1>1. Own(p) BY DEF Base, Own
<1>2. lock = p /\ lock' = p BY <1>1 DEF Own, LockHeld, Stays
<1>3. Local(p) /\ LockHeld(p)' BY <1>2 DEF Local, LockHeld, Stays, Same
<1>4. Shape(p)' BY <1>1, <1>2 DEF Own, Shape, Stays, Same, Running
<1> QED BY <1>2, <1>3, <1>4

(* An installer that is gone leaves nothing unsaid. *)
LEMMA ExitsOwn ==
  ASSUME Base, NEW p \in Procs, job[p].in # "off" \/ job[p].up = "run",
         NEW ok \in BOOLEAN, Exits(p, ok)
  PROVE  /\ Local(p) /\ Shape(p)' /\ LockHeld(p)' /\ Turn(p)' /\ Untouched(p)'
         /\ ~Fresh(p)'
<1>1. Own(p) /\ p # NoOne /\ job[p].kind \in {"none", "update", "direct"}
  BY Types DEF Base, Own, JobType
<1>2. Local(p) BY <1>1 DEF Local, Exits, Same, LockAfter
<1>3. Shape(p)' BY <1>1 DEF Own, Shape, Exits, Same, LockAfter, HasLock
<1>4. LockHeld(p)' BY <1>1 DEF Own, LockHeld, Exits, Same, LockAfter, HasLock, Running
<1>5. Turn(p)' BY DEF Exits, Turn
<1>6. ~Fresh(p)' BY <1>1 DEF Own, Shape, Fresh, Exits, Same
<1> QED BY <1>2, <1>3, <1>4, <1>5, <1>6 DEF Untouched

(* The rest of a transaction but its directory and the temporary file. *)
SameTxn(q) ==
  /\ txn'[q].state = txn[q].state /\ txn'[q].snap = txn[q].snap /\ txn'[q].ids = txn[q].ids
  /\ txn'[q].orig = txn[q].orig /\ txn'[q].stage = txn[q].stage

(* What a failing command does. *)
LEMMA FailingDoes ==
  ASSUME TypeOK, NEW p \in Procs, NEW left \in BOOLEAN, NEW canceled \in BOOLEAN,
         Failing(p, left, canceled)
  PROVE  \/ /\ Exits(p, job[p].ok /\ job[p].in = "off")
            /\ \A q \in Procs : SameTxn(q)
            /\ \A q \in Procs : \/ txn'[q].dir = txn[q].dir
                                \/ q = p /\ job[p].t = p /\ txn[p].state = "none"
                                   /\ txn[p].dir
            /\ \A q \in Procs \ {p} : txn'[q] = txn[q]
         \/ /\ Stays(p) /\ job[p].in \notin {"off", "wait", "recover"}
            /\ job[p].t = p /\ job'[p].t = p /\ ~job[p].trap /\ job'[p].trap
            /\ job'[p].in = TrapStart(p) /\ job'[p].part = "binary"
            /\ job'[p].half = FALSE /\ job'[p].failed = FALSE /\ txn' = txn
<1> DEFINE next == [job[p] EXCEPT !.canceled = @ \/ canceled]
           step == TrapStart(p)
           ok == job[p].ok /\ job[p].in = "off"
           exits == \/ job[p].in \in {"off", "wait", "recover"} \/ job[p].t # p \/ job[p].trap
                    \/ step = "off"
<1>1. /\ job \in [Procs -> JobType] /\ job[p] \in JobType /\ txn \in [Procs -> TxnType]
      /\ txn[p] \in TxnType BY Types
<1>2. next \in JobType BY <1>1 DEF JobType
<1>3. /\ next.kind = job[p].kind /\ next.ver = job[p].ver /\ next.up = job[p].up
      /\ next.mixed = job[p].mixed /\ next.result = job[p].result /\ next.ok = job[p].ok
      /\ next.t = job[p].t BY <1>1 DEF JobType
<1>4. ok \in BOOLEAN OBVIOUS
<1>5. CASE exits
 <2>1. job' = [job EXCEPT ![p] = Gone(next, ok)] /\ lock' = LockAfter(p) BY <1>5 DEF Failing
 <2>2. Exits(p, ok)
  <3> HIDE DEF next, ok
  <3>1. /\ job'[p] = Gone(next, ok) /\ \A q \in Procs \ {p} : job'[q] = job[q] BY <1>1, <2>1
  <3> QED BY <1>2, <1>3, <1>4, <2>1, <3>1, GoneIs DEF Exits, Same
 <2>3. \/ txn' = txn
       \/ /\ job[p].t = p /\ txn[p].state = "none" /\ txn[p].dir
          /\ txn' = [txn EXCEPT ![p].dir = left, ![p].tmp = left /\ job[p].in = "script"]
   BY <1>5 DEF Failing
 <2>4. /\ \A q \in Procs \ {p} : txn'[q] = txn[q]
       /\ SameTxn(p)
       /\ \A q \in Procs : SameTxn(q)
  <3>1. CASE txn' = txn BY <3>1 DEF SameTxn
  <3>2. CASE txn' # txn
   <4>1. PICK d \in BOOLEAN, m \in BOOLEAN :
           txn' = [txn EXCEPT ![p] = [txn[p] EXCEPT !.dir = d, !.tmp = m]] BY <2>3, <3>2
   <4> QED BY <1>1, <4>1 DEF SameTxn, TxnType
  <3> QED BY <3>1, <3>2
 <2> QED BY <2>2, <2>3, <2>4
<1>6. CASE ~exits
 <2>1. job' = [job EXCEPT ![p] = [next EXCEPT !.in = step, !.trap = TRUE, !.part = "binary",
                                             !.half = FALSE, !.failed = FALSE]]
   BY <1>6 DEF Failing
 <2>2. UNCHANGED <<lock, txn>> BY <1>6 DEF Failing
 <2>3. step \in {"clean", "finish", "undo"} BY <1>6 DEF TrapStart
 <2>4. /\ job'[p].kind = job[p].kind /\ job'[p].ver = job[p].ver /\ job'[p].up = job[p].up
       /\ job'[p].mixed = job[p].mixed /\ job'[p].result = job[p].result
       /\ job'[p].ok = job[p].ok /\ job'[p].t = job[p].t
       /\ \A q \in Procs \ {p} : job'[q] = job[q]
       /\ job'[p].in = step /\ job'[p].trap = TRUE /\ job'[p].part = "binary"
       /\ job'[p].half = FALSE /\ job'[p].failed = FALSE
  <3> HIDE DEF next, step
  <3> QED BY <1>1, <1>2, <1>3, <2>1 DEF JobType
 <2> QED BY <1>1, <1>6, <2>2, <2>3, <2>4 DEF Stays, Same
<1> QED BY <1>5, <1>6

(* What is left of Base once everybody keeps his own. *)
LEMMA BaseFrom ==
  ASSUME Base, TypeOK', NEW p \in Procs, Local(p), Quiet \/ Careful(p), Own(p)',
         \A q \in Procs : Journaled(q)' => Journaled(q) \/ q = p,
         Journaled(p)' => Journaled(p) \/ \A q \in Procs \ {p} : ~Journaled(q)
  PROVE  Base'
<1>1. \A q \in Procs : Own(q)' BY OthersBase DEF Own
<1>2. OneJournal' BY DEF Base, OneJournal
<1> QED BY <1>1, <1>2 DEF Base, Own

(* A failure leaves Base. *)
LEMMA FailingBase ==
  ASSUME Base, TypeOK', NEW p \in Procs, NEW left \in BOOLEAN, NEW canceled \in BOOLEAN,
         Failing(p, left, canceled), dest' = dest, backup' = backup,
         Running(p) \/ job[p].up = "run"
  PROVE  Base'
<1>1. TypeOK /\ Own(p) /\ lock = p BY DEF Base, Own, LockHeld, HasLock
<1>2. CASE /\ Exits(p, job[p].ok /\ job[p].in = "off")
           /\ \A q \in Procs : SameTxn(q)
           /\ \A q \in Procs : \/ txn'[q].dir = txn[q].dir
                               \/ q = p /\ job[p].t = p /\ txn[p].state = "none"
                                  /\ txn[p].dir
           /\ \A q \in Procs \ {p} : txn'[q] = txn[q]
 <2>1. (job[p].ok /\ job[p].in = "off") \in BOOLEAN OBVIOUS
 <2>2. Local(p) /\ Shape(p)' /\ LockHeld(p)' /\ Turn(p)' /\ Untouched(p)'
   BY <1>2, <2>1, ExitsOwn DEF Running
 <2>3. Housed(p)' BY <1>1, <1>2 DEF Own, Housed, Journaled, SameTxn
 <2>4. Careful(p) BY <1>1, <1>2 DEF Careful, Base, Housed, Journaled
 <2>5. \A q \in Procs : Journaled(q)' => Journaled(q) BY <1>2 DEF Journaled, SameTxn
 <2> QED BY <2>2, <2>3, <2>4, <2>5, BaseFrom DEF Own
<1>3. CASE /\ Stays(p) /\ job[p].in \notin {"off", "wait", "recover"}
           /\ job[p].t = p /\ job'[p].t = p /\ ~job[p].trap /\ job'[p].trap
           /\ job'[p].in = TrapStart(p) /\ job'[p].part = "binary"
           /\ job'[p].half = FALSE /\ job'[p].failed = FALSE /\ txn' = txn
 <2>1. Local(p) /\ Shape(p)' /\ LockHeld(p)' BY <1>3, StaysOwn DEF Running
 <2>2. Turn(p)' BY <1>3 DEF Turn, TrapStart, InFlight, Stays
 <2>3. Untouched(p)' BY <1>1, <1>3 DEF Own, Shape, Untouched, Fresh, Stays, Same, TrapStart
 <2>4. Housed(p)' /\ \A q \in Procs : Journaled(q)' => Journaled(q)
   BY <1>1, <1>3 DEF Own, Housed, Journaled
 <2>5. Careful(p) BY <1>1, <1>3 DEF Careful, Base, Housed, Journaled
 <2> QED BY <2>1, <2>2, <2>3, <2>4, <2>5, BaseFrom DEF Own
<1> QED BY <1>1, <1>2, <1>3, FailingDoes

(* What a kill of the installer does. *)
LEMMA KillInstallerDoes ==
  ASSUME TypeOK, NEW p \in Procs, KillInstaller(p)
  PROVE  /\ Exits(p, FALSE) /\ dest' = dest /\ backup' = backup
         /\ \A q \in Procs : SameTxn(q) /\ txn'[q].dir = txn[q].dir
<1>1. txn \in [Procs -> TxnType] /\ txn[p] \in TxnType BY Types
<1>2. Exits(p, FALSE) BY ExitDoes DEF KillInstaller
<1>3. PICK left \in BOOLEAN :
        txn' = [txn EXCEPT ![p].tmp = left /\ job[p].in = "script"]
  BY DEF KillInstaller, Leaves
<1>4. \A q \in Procs : SameTxn(q) /\ txn'[q].dir = txn[q].dir
  BY <1>1, <1>3 DEF SameTxn, TxnType
<1> QED BY <1>2, <1>4 DEF KillInstaller

(* A kill leaves Base. *)
LEMMA KillInstallerBase ==
  ASSUME Base, TypeOK', NEW p \in Procs, KillInstaller(p)
  PROVE  Base'
<1>1. /\ Exits(p, FALSE) /\ dest' = dest /\ backup' = backup
      /\ \A q \in Procs : SameTxn(q) /\ txn'[q].dir = txn[q].dir BY KillInstallerDoes DEF Base
<1>2. Local(p) /\ Shape(p)' /\ LockHeld(p)' /\ Turn(p)' /\ Untouched(p)'
  BY <1>1, ExitsOwn DEF KillInstaller
<1>3. Quiet BY <1>1 DEF Quiet, SameTxn
<1>4. Housed(p)' /\ \A q \in Procs : Journaled(q)' => Journaled(q)
  BY <1>1 DEF Base, Housed, Journaled, SameTxn
<1> QED BY <1>2, <1>3, <1>4, BaseFrom DEF Own

(* What the end of every process does. *)
LEMMA PowerLossDoes ==
  ASSUME TypeOK, PowerLoss
  PROVE  /\ lock' = NoOne /\ dest' = dest /\ backup' = backup /\ txn' = txn
         /\ \A q \in Procs :
              /\ job'[q].kind = job[q].kind /\ job'[q].ver = job[q].ver
              /\ job'[q].mixed = job[q].mixed /\ job'[q].result = job[q].result
              /\ job'[q].in = "off" /\ job'[q].t = NoOne /\ job'[q].ok = FALSE
              /\ job'[q].up = IF job[q].up \in {"off", "done"} THEN job[q].up ELSE "dead"
<1>1. ASSUME NEW q \in Procs
      PROVE  /\ job'[q].kind = job[q].kind /\ job'[q].ver = job[q].ver
             /\ job'[q].mixed = job[q].mixed /\ job'[q].result = job[q].result
             /\ job'[q].in = "off" /\ job'[q].t = NoOne /\ job'[q].ok = FALSE
             /\ job'[q].up = IF job[q].up \in {"off", "done"} THEN job[q].up ELSE "dead"
 <2> DEFINE j == Gone(job[q], FALSE)
            u == IF job[q].up \in {"off", "done"} THEN job[q].up ELSE "dead"
 <2>1. job[q] \in JobType BY Types
 <2>2. /\ j \in JobType /\ j.in = "off" /\ j.ok = FALSE /\ j.t = NoOne
       /\ j.kind = job[q].kind /\ j.up = job[q].up /\ j.ver = job[q].ver
       /\ j.mixed = job[q].mixed /\ j.result = job[q].result
  <3>1. FALSE \in BOOLEAN OBVIOUS
  <3> QED BY <2>1, <3>1, GoneIs
 <2>3. job'[q] = [j EXCEPT !.up = IF @ \in {"off", "done"} THEN @ ELSE "dead"]
   BY DEF PowerLoss
 <2> HIDE DEF j
 <2>4. job'[q] = [j EXCEPT !.up = u] BY <2>2, <2>3
 <2> HIDE DEF u
 <2>5. /\ job'[q].kind = j.kind /\ job'[q].ver = j.ver /\ job'[q].mixed = j.mixed
       /\ job'[q].result = j.result /\ job'[q].in = j.in /\ job'[q].t = j.t
       /\ job'[q].ok = j.ok /\ job'[q].up = u BY <2>2, <2>4 DEF JobType
 <2> QED BY <2>2, <2>5 DEF u
<1> QED BY <1>1 DEF PowerLoss, disk

(* The end of every process leaves Base. *)
LEMMA PowerLossBase ==
  ASSUME Base, TypeOK', PowerLoss
  PROVE  Base'
<1>1. /\ lock' = NoOne /\ dest' = dest /\ backup' = backup /\ txn' = txn
      /\ \A q \in Procs :
           /\ job'[q].kind = job[q].kind /\ job'[q].ver = job[q].ver
           /\ job'[q].mixed = job[q].mixed /\ job'[q].result = job[q].result
           /\ job'[q].in = "off" /\ job'[q].t = NoOne /\ job'[q].ok = FALSE
           /\ job'[q].up = IF job[q].up \in {"off", "done"} THEN job[q].up ELSE "dead"
  BY PowerLossDoes DEF Base
<1>2. ASSUME NEW q \in Procs PROVE Own(q)'
 <2>1. Own(q) /\ q # NoOne BY DEF Base, Own
 <2>2. Shape(q)' BY <1>1, <2>1 DEF Own, Shape
 <2>3. LockHeld(q)' /\ Turn(q)' /\ Housed(q)'
   BY <1>1, <2>1 DEF Own, LockHeld, HasLock, Running, Turn, Housed, Journaled
 <2>4. Untouched(q)' BY <1>1, <2>1 DEF Own, Shape, Untouched, Fresh
 <2> QED BY <2>2, <2>3, <2>4 DEF Own
<1>3. OneJournal' BY <1>1 DEF Base, OneJournal, Journaled
<1> QED BY <1>2, <1>3 DEF Base, Own

(* An updater's step leaves Base. *)
LEMMA UpdaterBase ==
  ASSUME Base, TypeOK', NEW p \in Procs, UpdaterSteps(p)
  PROVE  Base'
<1>1. Local(p) /\ dest' = dest /\ backup' = backup /\ txn' = txn BY UpdaterLocal
<1>2. Quiet /\ \A q \in Procs : Journaled(q)' => Journaled(q) BY <1>1 DEF Quiet, Journaled
<1> QED BY <1>1, <1>2, UpdaterOwn, BaseFrom

(* What looking for older transactions does. *)
RecoverEffect(p, t) ==
  \/ Exits(p, FALSE) /\ txn[t].state = "none" /\ txn' = txn
  \/ /\ txn[t].state = "none" /\ job' = job /\ lock' = lock
     /\ \A q \in Procs : SameTxn(q)
     /\ \A q \in Procs : q # t => txn'[q].dir = txn[q].dir
     /\ txn'[t].dir = FALSE
  \/ /\ Stays(p) /\ txn[t].state # "none" /\ txn' = txn
     /\ job'[p].t = t /\ job'[p].part = "binary" /\ job'[p].half = FALSE
     /\ job'[p].failed = FALSE /\ job'[p].trap = job[p].trap
     /\ job'[p].in = CASE txn[t].state = "cleanup_pending" -> "clean"
                       [] txn[t].state = "committed" -> "finish"
                       [] OTHER -> "undo"

(* Looking for older transactions stops, clears a directory or takes one on. *)
LEMMA RecoverDoes ==
  ASSUME TypeOK, NEW p \in Procs, Recover(p)
  PROVE  /\ dest' = dest /\ backup' = backup /\ job[p].in = "recover"
         /\ \E t \in Procs : txn[t].dir /\ RecoverEffect(p, t)
<1>1. /\ job \in [Procs -> JobType] /\ job[p] \in JobType /\ txn \in [Procs -> TxnType]
      /\ job[p].in = "recover" /\ dest' = dest /\ backup' = backup BY Types DEF Recover
<1>2. PICK t \in Procs :
        /\ txn[t].dir
        /\ IF txn[t].state = "none"
           THEN IF txn[t].tmp
                THEN job' = Exited(p, FALSE) /\ lock' = LockAfter(p) /\ UNCHANGED txn
                ELSE txn' = [txn EXCEPT ![t].dir = FALSE] /\ UNCHANGED <<job, lock>>
           ELSE /\ job' = [job EXCEPT ![p].t = t, ![p].part = "binary",
                             ![p].half = FALSE, ![p].failed = FALSE,
                             ![p].in = CASE txn[t].state = "cleanup_pending" -> "clean"
                                         [] txn[t].state = "committed" -> "finish"
                                         [] OTHER -> "undo"]
                /\ UNCHANGED <<lock, txn>> BY DEF Recover
<1>3. CASE txn[t].state = "none" /\ txn[t].tmp
 <2>1. job' = Exited(p, FALSE) /\ lock' = LockAfter(p) /\ txn' = txn /\ FALSE \in BOOLEAN
   BY <1>2, <1>3
 <2>2. Exits(p, FALSE) BY <2>1, ExitDoes
 <2> QED BY <1>1, <1>2, <1>3, <2>1, <2>2 DEF RecoverEffect
<1>4. CASE txn[t].state = "none" /\ ~txn[t].tmp
 <2>1. txn' = [txn EXCEPT ![t].dir = FALSE] /\ job' = job /\ lock' = lock BY <1>2, <1>4
 <2>2. txn[t] \in TxnType BY <1>1
 <2>3. (\A q \in Procs : SameTxn(q)) /\ (\A q \in Procs : q # t => txn'[q].dir = txn[q].dir)
       /\ txn'[t].dir = FALSE BY <1>1, <2>1, <2>2 DEF SameTxn, TxnType
 <2> QED BY <1>1, <1>2, <1>4, <2>1, <2>3 DEF RecoverEffect
<1>5. CASE txn[t].state # "none"
 <2> DEFINE i == CASE txn[t].state = "cleanup_pending" -> "clean"
                   [] txn[t].state = "committed" -> "finish"
                   [] OTHER -> "undo"
            j == [job[p] EXCEPT !.t = t, !.part = "binary"]
 <2>1. i \in {"clean", "finish", "undo"} OBVIOUS
 <2>2. job' = [job EXCEPT ![p].t = t, ![p].part = "binary", ![p].half = FALSE,
                          ![p].failed = FALSE, ![p].in = i] BY <1>2, <1>5
 <2>3. lock' = lock /\ txn' = txn BY <1>2, <1>5
 <2>4. j \in JobType BY <1>1 DEF JobType, Parts
 <2>5. /\ j.kind = job[p].kind /\ j.ver = job[p].ver /\ j.up = job[p].up
       /\ j.mixed = job[p].mixed /\ j.result = job[p].result /\ j.ok = job[p].ok
       /\ j.t = t /\ j.part = "binary" /\ j.trap = job[p].trap BY <1>1 DEF JobType
 <2> HIDE DEF i
 <2>6. job' = [job EXCEPT ![p] = [j EXCEPT !.half = FALSE, !.failed = FALSE, !.in = i]]
   BY <2>2
 <2> HIDE DEF j
 <2>7. /\ job'[p].kind = j.kind /\ job'[p].ver = j.ver /\ job'[p].up = j.up
       /\ job'[p].mixed = j.mixed /\ job'[p].result = j.result /\ job'[p].ok = j.ok
       /\ job'[p].t = j.t /\ job'[p].part = j.part /\ job'[p].trap = j.trap
       /\ job'[p].half = FALSE /\ job'[p].failed = FALSE /\ job'[p].in = i
       /\ \A q \in Procs \ {p} : job'[q] = job[q] BY <1>1, <2>4, <2>6 DEF JobType
 <2>8. Stays(p) BY <2>1, <2>3, <2>5, <2>7 DEF Stays, Same
 <2>9. /\ job'[p].t = t /\ job'[p].part = "binary" /\ job'[p].half = FALSE
       /\ job'[p].failed = FALSE /\ job'[p].trap = job[p].trap BY <2>5, <2>7
 <2>10. job'[p].in = CASE txn[t].state = "cleanup_pending" -> "clean"
                       [] txn[t].state = "committed" -> "finish"
                       [] OTHER -> "undo" BY <2>7, Zenon DEF i
 <2>11. RecoverEffect(p, t) BY <1>5, <2>3, <2>8, <2>9, <2>10, Zenon DEF RecoverEffect
 <2> QED BY <1>1, <1>2, <2>11
<1> QED BY <1>1, <1>2, <1>3, <1>4, <1>5

(* What beginning a transaction does. *)
BeginEffect(p) ==
  \/ Exits(p, FALSE) /\ txn' = txn
  \/ /\ Stays(p) /\ job'[p].in = "script" /\ job'[p].t = p /\ job'[p].step = 1
     /\ job'[p].trap = job[p].trap /\ \A c \in Parts : backup[c] = Absent
     /\ (\A q \in Procs : SameTxn(q)) /\ txn'[p].dir
     /\ \A q \in Procs \ {p} : txn'[q] = txn[q]

(* A new transaction begins, or a backup nobody accounts for refuses it. *)
LEMMA BeginDoes ==
  ASSUME TypeOK, NEW p \in Procs, Begin(p)
  PROVE  /\ dest' = dest /\ backup' = backup /\ job[p].in = "recover"
         /\ \A q \in Procs : ~txn[q].dir
         /\ BeginEffect(p)
<1>1. /\ job \in [Procs -> JobType] /\ job[p] \in JobType /\ txn \in [Procs -> TxnType]
      /\ job[p].in = "recover" /\ dest' = dest /\ backup' = backup /\ txn[p] \in TxnType
      /\ \A q \in Procs : ~txn[q].dir BY Types DEF Begin
<1>2. CASE \E c \in Parts : There(backup[c]) BY <1>1, <1>2, ExitDoes DEF Begin, BeginEffect
<1>3. CASE ~\E c \in Parts : There(backup[c])
 <2>1. /\ job' = [job EXCEPT ![p].in = "script", ![p].t = p, ![p].step = 1]
       /\ txn' = [txn EXCEPT ![p].dir = TRUE] /\ lock' = lock BY <1>3 DEF Begin
 <2> DEFINE j == [job[p] EXCEPT !.in = "script", !.t = p]
 <2>2. j \in JobType BY <1>1 DEF JobType, InSteps
 <2>3. /\ j.kind = job[p].kind /\ j.ver = job[p].ver /\ j.up = job[p].up
       /\ j.mixed = job[p].mixed /\ j.result = job[p].result /\ j.ok = job[p].ok
       /\ j.t = p /\ j.in = "script" /\ j.trap = job[p].trap BY <1>1 DEF JobType
 <2>4. job' = [job EXCEPT ![p] = [j EXCEPT !.step = 1]] BY <2>1
 <2> HIDE DEF j
 <2>5. /\ job'[p].kind = j.kind /\ job'[p].ver = j.ver /\ job'[p].up = j.up
       /\ job'[p].mixed = j.mixed /\ job'[p].result = j.result /\ job'[p].ok = j.ok
       /\ job'[p].t = j.t /\ job'[p].in = j.in /\ job'[p].trap = j.trap /\ job'[p].step = 1
       /\ \A q \in Procs \ {p} : job'[q] = job[q] BY <1>1, <2>2, <2>4 DEF JobType
 <2>6. (\A q \in Procs : SameTxn(q)) /\ txn'[p].dir /\ \A q \in Procs \ {p} : txn'[q] = txn[q]
   BY <1>1, <2>1 DEF SameTxn, TxnType
 <2>7. Stays(p) BY <2>1, <2>3, <2>5 DEF Stays, Same
 <2>8. \A c \in Parts : backup[c] = Absent BY <1>3 DEF There
 <2>9. /\ job'[p].in = "script" /\ job'[p].t = p /\ job'[p].step = 1
       /\ job'[p].trap = job[p].trap BY <2>3, <2>5
 <2>10. BeginEffect(p) BY <2>6, <2>7, <2>8, <2>9, Zenon DEF BeginEffect
 <2> QED BY <1>1, <2>10
<1> QED BY <1>1, <1>2, <1>3

(* Looking for older transactions leaves Base. *)
LEMMA RecoverBase ==
  ASSUME Base, TypeOK', NEW p \in Procs, Recover(p)
  PROVE  Base'
<1>1. /\ TypeOK /\ Own(p) /\ lock = p /\ dest' = dest /\ backup' = backup
      /\ job[p].in = "recover" /\ Running(p) BY RecoverDoes DEF Base, Own, LockHeld, Running
<1>2. PICK t \in Procs : txn[t].dir /\ RecoverEffect(p, t) BY <1>1, RecoverDoes
<1>3. t # p BY <1>1, <1>2 DEF Own, Turn
<1>4. CASE Exits(p, FALSE) /\ txn' = txn
 <2>1. Local(p) /\ Shape(p)' /\ LockHeld(p)' /\ Turn(p)' /\ Untouched(p)'
   BY <1>1, <1>4, ExitsOwn
 <2>2. Quiet /\ Housed(p)' /\ \A q \in Procs : Journaled(q)' => Journaled(q)
   BY <1>1, <1>4 DEF Quiet, Own, Housed, Journaled
 <2> QED BY <2>1, <2>2, BaseFrom DEF Own
<1>5. CASE /\ txn[t].state = "none" /\ job' = job /\ lock' = lock
           /\ \A q \in Procs : SameTxn(q)
           /\ \A q \in Procs : q # t => txn'[q].dir = txn[q].dir
           /\ txn'[t].dir = FALSE
 <2>1. Local(p) BY <1>5 DEF Local
 <2>2. Careful(p) BY <1>1, <1>2, <1>5 DEF Careful, SameTxn, Base, Housed, Journaled
 <2>3. Shape(p)' /\ LockHeld(p)' /\ Turn(p)'
   BY <1>1, <1>3, <1>5 DEF Own, Shape, LockHeld, HasLock, Running, Turn
 <2>4. Untouched(p)' BY <1>1, <1>3, <1>5 DEF Own, Untouched, Fresh, SameTxn
 <2>5. Housed(p)' /\ \A q \in Procs : Journaled(q)' => Journaled(q)
   BY <1>1, <1>3, <1>5 DEF Own, Housed, Journaled, SameTxn
 <2> QED BY <2>1, <2>2, <2>3, <2>4, <2>5, BaseFrom DEF Own
<1>6. CASE /\ Stays(p) /\ txn[t].state # "none" /\ txn' = txn
           /\ job'[p].t = t /\ job'[p].part = "binary" /\ job'[p].half = FALSE
           /\ job'[p].failed = FALSE /\ job'[p].trap = job[p].trap
           /\ job'[p].in = CASE txn[t].state = "cleanup_pending" -> "clean"
                             [] txn[t].state = "committed" -> "finish"
                             [] OTHER -> "undo"
 <2>1. Local(p) /\ Shape(p)' /\ LockHeld(p)' BY <1>1, <1>6, StaysOwn
 <2>2. Quiet /\ Housed(p)' /\ \A q \in Procs : Journaled(q)' => Journaled(q)
   BY <1>1, <1>6 DEF Quiet, Own, Housed, Journaled
 <2>3. job'[p].in \in {"clean", "finish", "undo"} BY <1>6
 <2>4. Turn(p)' BY <1>1, <1>3, <1>6, <2>3 DEF Own, Turn, InFlight
 <2>5. Untouched(p)' BY <1>1, <1>3, <1>6, <2>3 DEF Own, Untouched, Fresh
 <2> QED BY <2>1, <2>2, <2>4, <2>5, BaseFrom DEF Own
<1> QED BY <1>2, <1>4, <1>5, <1>6 DEF RecoverEffect

(* Beginning a transaction leaves Base. *)
LEMMA BeginBase ==
  ASSUME Base, TypeOK', NEW p \in Procs, Begin(p)
  PROVE  Base'
<1>1. /\ TypeOK /\ Own(p) /\ lock = p /\ dest' = dest /\ backup' = backup
      /\ job[p].in = "recover" /\ Running(p) /\ (\A q \in Procs : ~txn[q].dir) /\ BeginEffect(p)
  BY BeginDoes DEF Base, Own, LockHeld, Running
<1>2. CASE Exits(p, FALSE) /\ txn' = txn
 <2>1. Local(p) /\ Shape(p)' /\ LockHeld(p)' /\ Turn(p)' /\ Untouched(p)'
   BY <1>1, <1>2, ExitsOwn
 <2>2. Quiet /\ Housed(p)' /\ \A q \in Procs : Journaled(q)' => Journaled(q)
   BY <1>1, <1>2 DEF Quiet, Own, Housed, Journaled
 <2> QED BY <2>1, <2>2, BaseFrom DEF Own
<1>3. CASE /\ Stays(p) /\ job'[p].in = "script" /\ job'[p].t = p /\ job'[p].step = 1
           /\ (\A q \in Procs : SameTxn(q)) /\ txn'[p].dir
           /\ \A q \in Procs \ {p} : txn'[q] = txn[q]
 <2>1. Local(p) /\ Shape(p)' /\ LockHeld(p)' BY <1>1, <1>3, StaysOwn
 <2>2. Careful(p) BY <1>1, <1>3 DEF Careful, Base, Housed, Journaled
 <2>3. Housed(p)' /\ \A q \in Procs : Journaled(q)' => Journaled(q)
   BY <1>3 DEF Housed, Journaled, SameTxn
 <2>4. Untouched(p)' BY <1>1, <1>3 DEF Own, Untouched, Fresh, SameTxn
 <2>5. txn'[p].state = "none" BY <1>1, <1>3 DEF Own, Untouched, Fresh, SameTxn
 <2>6. Turn(p)' BY <1>1, <1>3, <2>5 DEF Turn, InFlight
 <2> QED BY <2>1, <2>2, <2>3, <2>4, <2>6, BaseFrom DEF Own
<1> QED BY <1>1, <1>2, <1>3 DEF BeginEffect

-----------------------------------------------------------------------------
(* Items are what their fields are. *)
LEMMA ItemSame ==
  ASSUME NEW x \in Items, NEW y \in Items, x.by = y.by, x.ver = y.ver, x.whole = y.whole
  PROVE  x = y
BY DEF Items

(* A part torn or completed. *)
LEMMA WholeIs ==
  ASSUME NEW x \in Items, NEW w \in BOOLEAN
  PROVE  /\ [x EXCEPT !.whole = w] \in Items
         /\ [x EXCEPT !.whole = w] = [by |-> x.by, ver |-> x.ver, whole |-> w]
<1>1. [x EXCEPT !.whole = w] \in Items BY DEF Items
<1>2. [by |-> x.by, ver |-> x.ver, whole |-> w] \in Items BY DEF Items
<1>3. /\ [x EXCEPT !.whole = w].by = x.by /\ [x EXCEPT !.whole = w].ver = x.ver
      /\ [x EXCEPT !.whole = w].whole = w BY DEF Items
<1> QED BY <1>1, <1>2, <1>3, ItemSame

Completed(x) == [x EXCEPT !.whole = TRUE]

(* The part a process makes. *)
LEMMA NewIs ==
  ASSUME TypeOK, NEW p \in Procs
  PROVE  /\ New(p) \in Items /\ Torn(New(p)) \in Items
         /\ Torn(New(p)) = [by |-> p, ver |-> job[p].ver, whole |-> FALSE]
         /\ Completed(Torn(New(p))) = New(p)
         /\ New(p).by = p /\ New(p).whole /\ New(p).ver = job[p].ver
         /\ Torn(New(p)).by = p /\ ~Torn(New(p)).whole
         /\ There(New(p)) /\ There(Torn(New(p))) /\ New(p) # Torn(New(p))
<1>1. New(p) \in Items BY Types DEF New, Items, JobType
<1>2. New(p).by = p /\ New(p).ver = job[p].ver /\ New(p).whole = TRUE BY DEF New
<1>3. Torn(New(p)) = [by |-> p, ver |-> job[p].ver, whole |-> FALSE] /\ Torn(New(p)) \in Items
  BY <1>1, <1>2, WholeIs DEF Torn
<1>4. /\ Torn(New(p)).by = p /\ Torn(New(p)).ver = job[p].ver /\ Torn(New(p)).whole = FALSE
  BY <1>3
<1>5. [Torn(New(p)) EXCEPT !.whole = TRUE] = [by |-> p, ver |-> job[p].ver, whole |-> TRUE]
  BY <1>3, <1>4, WholeIs
<1>6. There(New(p)) /\ There(Torn(New(p)))
 <2>1. p # NoOne /\ Absent.by = NoOne BY DEF Absent
 <2> QED BY <1>2, <1>4, <2>1 DEF There
<1> QED BY <1>1, <1>2, <1>3, <1>4, <1>5, <1>6 DEF New, Completed

-----------------------------------------------------------------------------
(* What the steps of the script do. *)
ScriptMove(p) ==
  /\ job[p].in = "script" /\ job[p].step \in 1..25
  /\ Stays(p) /\ job'[p].t = job[p].t /\ job'[p].trap = job[p].trap
  /\ job[p].step < 25 => job'[p].in = "script" /\ job'[p].step = job[p].step + 1
  /\ job[p].step >= 25 => job'[p].in = "finish" /\ job'[p].part = "binary"
  /\ \A q \in Procs \ {p} : txn'[q] = txn[q]
  /\ txn'[p].dir = txn[p].dir

WriteEffect(p) ==
  /\ dest' = dest /\ backup' = backup
  /\ job[p].step \in {1, 3, 6, 10, 11, 13, 14, 16, 17, 19, 20, 22, 24, 25}
  /\ job[p].step = 25 => txn'[p].state = "committed"
  /\ job[p].step # 25 => txn'[p].state \notin {"none", "committed", "cleanup_pending"}
  /\ txn'[p].stage = txn[p].stage /\ txn'[p].snap = txn[p].snap
  /\ txn'[p].ids = txn[p].ids \cup {c \in Parts : There(txn[p].stage[c])}
  /\ txn[p].state = "none" => txn'[p].orig = dest
  /\ txn[p].state # "none" => txn'[p].orig = txn[p].orig

\* Everything about p's transaction but what is listed stays.
Journal0(p) == txn'[p].state = txn[p].state /\ txn'[p].orig = txn[p].orig
             /\ txn'[p].ids = txn[p].ids

CreateEffect(p, c) ==
  /\ dest' = dest /\ backup' = backup /\ Journal0(p) /\ txn'[p].snap = txn[p].snap
  /\ (c = "binary" /\ job[p].step = 2) \/ (c = "skill" /\ job[p].step = 5)
  /\ txn'[p].stage[c] = Torn(New(p))
  /\ \A d \in Parts \ {c} : txn'[p].stage[d] = txn[p].stage[d]

CopyEffect(p, c) ==
  /\ dest' = dest /\ backup' = backup /\ Journal0(p) /\ txn'[p].snap = txn[p].snap
  /\ (c = "binary" /\ job[p].step = 4) \/ (c = "skill" /\ job[p].step = 7)
  /\ txn'[p].stage[c] = Completed(txn[p].stage[c])
  /\ \A d \in Parts \ {c} : txn'[p].stage[d] = txn[p].stage[d]

SnapshotEffect(p, c) ==
  /\ dest' = dest /\ backup' = backup /\ Journal0(p) /\ txn'[p].stage = txn[p].stage
  /\ (c = "binary" /\ job[p].step = 8) \/ (c = "skill" /\ job[p].step = 9)
  /\ txn'[p].snap = txn[p].snap \cup {c}

BackUpEffect(p, c) ==
  /\ txn' = txn
  /\ (c = "binary" /\ job[p].step = 12) \/ (c = "skill" /\ job[p].step = 15)
  /\ dest[c] = txn[p].orig[c] /\ dest'[c] = Absent /\ backup'[c] = dest[c]
  /\ \A d \in Parts \ {c} : dest'[d] = dest[d] /\ backup'[d] = backup[d]

InstallEffect(p, c) ==
  /\ backup' = backup /\ Journal0(p) /\ txn'[p].snap = txn[p].snap
  /\ (c = "binary" /\ job[p].step = 18) \/ (c = "skill" /\ job[p].step = 21)
  /\ dest'[c] = txn[p].stage[c] /\ txn'[p].stage[c] = Absent
  /\ \A d \in Parts \ {c} : dest'[d] = dest[d] /\ txn'[p].stage[d] = txn[p].stage[d]

VerifyEffect(p) ==
  /\ dest' = dest /\ backup' = backup /\ txn' = txn /\ job[p].step = 23
  /\ \A c \in Parts : dest[c] = New(p)

\* One of them.
ScriptEffect(p) ==
  \/ WriteEffect(p) \/ VerifyEffect(p)
  \/ \E c \in Parts : \/ CreateEffect(p, c) \/ CopyEffect(p, c) \/ SnapshotEffect(p, c)
                      \/ BackUpEffect(p, c) \/ InstallEffect(p, c)

ScriptStep(p) ==
  WriteManifest(p) \/ CreateStage(p) \/ CopyStage(p) \/ Snapshot(p) \/ BackUp(p)
    \/ InstallPart(p) \/ VerifyParts(p)

(* A step of the script moves on by one and does what is listed above. *)
LEMMA ScriptDoes ==
  ASSUME TypeOK, NEW p \in Procs, ScriptStep(p)
  PROVE  ScriptMove(p) /\ ScriptEffect(p)
<1>1. /\ txn \in [Procs -> TxnType] /\ txn[p] \in TxnType /\ job[p] \in JobType
      /\ dest \in [Parts -> Items] /\ backup \in [Parts -> Items] /\ job[p].step \in 1..25
  BY Types, ArgTyped
<1>2. Advance(p) /\ job[p].in = "script" /\ lock' = lock
  BY DEF ScriptStep, WriteManifest, CreateStage, CopyStage, Snapshot, BackUp, InstallPart,
     VerifyParts, At, rest
<1>3. ASSUME \A q \in Procs \ {p} : txn'[q] = txn[q], txn'[p].dir = txn[p].dir
      PROVE  ScriptMove(p) BY <1>1, <1>2, <1>3, AdvanceDoes DEF ScriptMove
<1>4. CASE WriteManifest(p)
 <2> DEFINE ids == txn[p].ids \cup {c \in Parts : There(txn[p].stage[c])}
            orig == IF txn[p].state = "none" THEN dest ELSE txn[p].orig
 <2>1. txn' = [txn EXCEPT ![p] = [txn[p] EXCEPT !.state = Arg(p), !.ids = ids, !.orig = orig]]
   BY <1>4 DEF WriteManifest
 <2>2. /\ txn[p].state = "none" => orig = dest
       /\ txn[p].state # "none" => orig = txn[p].orig OBVIOUS
 <2>3. dest' = dest /\ backup' = backup /\ Script[job[p].step].op = "journal"
   BY <1>4 DEF WriteManifest, At
 <2> HIDE DEF orig, ids
 <2>4. /\ txn'[p].state = Arg(p) /\ txn'[p].ids = ids /\ txn'[p].orig = orig
       /\ txn'[p].stage = txn[p].stage /\ txn'[p].snap = txn[p].snap
       /\ txn'[p].dir = txn[p].dir /\ \A q \in Procs \ {p} : txn'[q] = txn[q]
   BY <1>1, <2>1 DEF TxnType
 <2>5. /\ job[p].step \in {1, 3, 6, 10, 11, 13, 14, 16, 17, 19, 20, 22, 24, 25}
       /\ job[p].step = 25 => Arg(p) = "committed"
       /\ job[p].step # 25 => Arg(p) \notin {"none", "committed", "cleanup_pending"}
   BY <1>1, <2>3, JournalSteps DEF Arg
 <2>6. WriteEffect(p) BY <2>2, <2>3, <2>4, <2>5 DEF WriteEffect, ids
 <2> QED BY <1>3, <2>4, <2>6 DEF ScriptEffect
<1>5. CASE CreateStage(p)
 <2>1. PICK c \in Parts : c = Arg(p) BY <1>5, ArgTyped DEF CreateStage
 <2>2. (c = "binary" /\ job[p].step = 2) \/ (c = "skill" /\ job[p].step = 5)
  <3>1. Script[job[p].step].op = "create" /\ Script[job[p].step].arg = c
    BY <1>5, <2>1 DEF CreateStage, At, Arg
  <3> QED BY <1>1, <3>1, PartSteps
 <2> DEFINE stage == [txn[p].stage EXCEPT ![c] = [by |-> p, ver |-> job[p].ver, whole |-> FALSE]]
 <2>3. /\ txn' = [txn EXCEPT ![p] = [txn[p] EXCEPT !.stage = stage]]
       /\ dest' = dest /\ backup' = backup BY <1>5, <2>1 DEF CreateStage
 <2>4. /\ stage[c] = [by |-> p, ver |-> job[p].ver, whole |-> FALSE]
       /\ \A d \in Parts \ {c} : stage[d] = txn[p].stage[d] BY <1>1 DEF TxnType
 <2>5. [by |-> p, ver |-> job[p].ver, whole |-> FALSE] = Torn(New(p)) BY NewIs
 <2> HIDE DEF stage
 <2>6. /\ txn'[p].stage = stage /\ txn'[p].snap = txn[p].snap /\ Journal0(p)
       /\ txn'[p].dir = txn[p].dir /\ \A q \in Procs \ {p} : txn'[q] = txn[q]
   BY <1>1, <2>3 DEF TxnType, Journal0
 <2>7. CreateEffect(p, c) BY <2>2, <2>3, <2>4, <2>5, <2>6 DEF CreateEffect
 <2> QED BY <1>3, <2>6, <2>7 DEF ScriptEffect
<1>6. CASE CopyStage(p)
 <2>1. PICK c \in Parts : c = Arg(p) BY <1>6, ArgTyped DEF CopyStage
 <2>2. (c = "binary" /\ job[p].step = 4) \/ (c = "skill" /\ job[p].step = 7)
  <3>1. Script[job[p].step].op = "copy" /\ Script[job[p].step].arg = c
    BY <1>6, <2>1 DEF CopyStage, At, Arg
  <3> QED BY <1>1, <3>1, PartSteps
 <2> DEFINE x == [txn[p].stage[c] EXCEPT !.whole = TRUE]
            stage == [txn[p].stage EXCEPT ![c] = x]
 <2>3. /\ txn' = [txn EXCEPT ![p] = [txn[p] EXCEPT !.stage = stage]]
       /\ dest' = dest /\ backup' = backup BY <1>6, <2>1 DEF CopyStage
 <2>4. stage[c] = x /\ \A d \in Parts \ {c} : stage[d] = txn[p].stage[d]
  <3> HIDE DEF x
  <3> QED BY <1>1 DEF TxnType
 <2> HIDE DEF stage
 <2>5. /\ txn'[p].stage = stage /\ txn'[p].snap = txn[p].snap /\ Journal0(p)
       /\ txn'[p].dir = txn[p].dir /\ \A q \in Procs \ {p} : txn'[q] = txn[q]
   BY <1>1, <2>3 DEF TxnType, Journal0
 <2>6. CopyEffect(p, c) BY <2>2, <2>3, <2>4, <2>5 DEF CopyEffect, Completed
 <2> QED BY <1>3, <2>5, <2>6 DEF ScriptEffect
<1>7. CASE Snapshot(p)
 <2>1. PICK c \in Parts : c = Arg(p) BY <1>7, ArgTyped DEF Snapshot
 <2>2. (c = "binary" /\ job[p].step = 8) \/ (c = "skill" /\ job[p].step = 9)
  <3>1. Script[job[p].step].op = "snapshot" /\ Script[job[p].step].arg = c
    BY <1>7, <2>1 DEF Snapshot, At, Arg
  <3> QED BY <1>1, <3>1, PartSteps
 <2>3. /\ txn' = [txn EXCEPT ![p] = [txn[p] EXCEPT !.snap = txn[p].snap \cup {c}]]
       /\ dest' = dest /\ backup' = backup BY <1>7, <2>1 DEF Snapshot
 <2>4. /\ txn'[p].stage = txn[p].stage /\ txn'[p].snap = txn[p].snap \cup {c} /\ Journal0(p)
       /\ txn'[p].dir = txn[p].dir /\ \A q \in Procs \ {p} : txn'[q] = txn[q]
   BY <1>1, <2>3 DEF TxnType, Journal0
 <2>5. SnapshotEffect(p, c) BY <2>2, <2>3, <2>4 DEF SnapshotEffect
 <2> QED BY <1>3, <2>4, <2>5 DEF ScriptEffect
<1>8. CASE BackUp(p)
 <2>1. PICK c \in Parts : c = Arg(p) BY <1>8, ArgTyped DEF BackUp
 <2>2. (c = "binary" /\ job[p].step = 12) \/ (c = "skill" /\ job[p].step = 15)
  <3>1. Script[job[p].step].op = "backup" /\ Script[job[p].step].arg = c
    BY <1>8, <2>1 DEF BackUp, At, Arg
  <3> QED BY <1>1, <3>1, PartSteps
 <2>3. BackUpEffect(p, c) BY <1>1, <1>8, <2>1, <2>2 DEF BackUp, BackUpEffect
 <2>4. txn' = txn BY <1>8 DEF BackUp
 <2> QED BY <1>3, <2>3, <2>4 DEF ScriptEffect
<1>9. CASE InstallPart(p)
 <2>1. PICK c \in Parts : c = Arg(p) BY <1>9, ArgTyped DEF InstallPart
 <2>2. (c = "binary" /\ job[p].step = 18) \/ (c = "skill" /\ job[p].step = 21)
  <3>1. Script[job[p].step].op = "install" /\ Script[job[p].step].arg = c
    BY <1>9, <2>1 DEF InstallPart, At, Arg
  <3> QED BY <1>1, <3>1, PartSteps
 <2> DEFINE stage == [txn[p].stage EXCEPT ![c] = Absent]
 <2>3. /\ txn' = [txn EXCEPT ![p] = [txn[p] EXCEPT !.stage = stage]]
       /\ dest' = [dest EXCEPT ![c] = txn[p].stage[c]] /\ backup' = backup
   BY <1>9, <2>1 DEF InstallPart
 <2>4. /\ stage[c] = Absent /\ \A d \in Parts \ {c} : stage[d] = txn[p].stage[d]
       /\ dest'[c] = txn[p].stage[c] /\ \A d \in Parts \ {c} : dest'[d] = dest[d]
   BY <1>1, <2>3 DEF TxnType
 <2> HIDE DEF stage
 <2>5. /\ txn'[p].stage = stage /\ txn'[p].snap = txn[p].snap /\ Journal0(p)
       /\ txn'[p].dir = txn[p].dir /\ \A q \in Procs \ {p} : txn'[q] = txn[q]
   BY <1>1, <2>3 DEF TxnType, Journal0
 <2>6. InstallEffect(p, c) BY <2>2, <2>3, <2>4, <2>5 DEF InstallEffect
 <2> QED BY <1>3, <2>5, <2>6 DEF ScriptEffect
<1>10. CASE VerifyParts(p)
 <2>1. dest' = dest /\ backup' = backup /\ txn' = txn BY <1>10 DEF VerifyParts, disk
 <2>2. job[p].step = 23 BY <1>1, <1>10, PartSteps DEF VerifyParts, At
 <2>3. VerifyEffect(p) BY <1>10, <2>1, <2>2 DEF VerifyParts, VerifyEffect, New
 <2> QED BY <1>3, <2>1, <2>3 DEF ScriptEffect
<1> QED BY <1>4, <1>5, <1>6, <1>7, <1>8, <1>9, <1>10 DEF ScriptStep

(* A step of the script leaves Base. *)
LEMMA ScriptBase ==
  ASSUME Base, NEW p \in Procs, Scripted(p), TypeOK', ScriptStep(p)
  PROVE  Base'
<1>1. /\ TypeOK /\ Own(p) /\ p # NoOne /\ ScriptMove(p) /\ ScriptEffect(p)
  BY ScriptDoes DEF Base, Own
<1>2. Running(p) /\ lock = p /\ Local(p) /\ Shape(p)' /\ LockHeld(p)'
  BY <1>1, StaysOwn DEF ScriptMove, Running, Own, LockHeld
<1>3. /\ job[p].t = p /\ txn[p].dir /\ (job[p].step = 1 <=> ~InFlight(p))
      /\ (\A q \in Procs \ {p} : ~txn[q].dir) BY <1>1 DEF Own, Turn, ScriptMove
<1>4. /\ job[p].step < 25 => InFlight(p)'
      /\ job[p].step = 25 => txn'[p].state = "committed"
 <2>1. CASE WriteEffect(p) BY <1>1, <2>1 DEF WriteEffect, InFlight, ScriptMove
 <2>2. CASE txn'[p].state = txn[p].state /\ job[p].step # 1 /\ job[p].step # 25
   BY <1>3, <2>2 DEF InFlight
 <2>3. CASE VerifyEffect(p) BY <2>2, <2>3 DEF VerifyEffect
 <2>4. ASSUME NEW c \in Parts, CreateEffect(p, c) \/ CopyEffect(p, c) \/ SnapshotEffect(p, c)
                               \/ BackUpEffect(p, c) \/ InstallEffect(p, c)
       PROVE  txn'[p].state = txn[p].state /\ job[p].step # 1 /\ job[p].step # 25
   BY <2>4 DEF CreateEffect, CopyEffect, SnapshotEffect, BackUpEffect, InstallEffect, Journal0
 <2> QED BY <1>1, <2>1, <2>2, <2>3, <2>4 DEF ScriptEffect
<1>5. Turn(p)'
 <2>1. \A q \in Procs \ {p} : ~txn'[q].dir BY <1>1, <1>3 DEF ScriptMove
 <2>2. CASE job[p].step < 25 BY <1>1, <1>3, <1>4, <2>1, <2>2 DEF Turn, ScriptMove, InFlight
 <2>3. CASE ~(job[p].step < 25) BY <1>1, <1>3, <1>4, <2>1, <2>3 DEF Turn, ScriptMove
 <2> QED BY <2>2, <2>3
<1>6. Untouched(p)'
 <2>1. ~Fresh(p)'
  <3>1. CASE job[p].step < 25
    BY <1>1, <1>3, <3>1 DEF Own, Shape, Fresh, ScriptMove, Stays, Same
  <3>2. CASE ~(job[p].step < 25)
    BY <1>1, <1>3, <3>2 DEF Own, Shape, Fresh, ScriptMove, Stays, Same
  <3> QED BY <3>1, <3>2
 <2> QED BY <2>1 DEF Untouched
<1>7. Housed(p)' BY <1>1, <1>3 DEF Housed, ScriptMove
<1>8. /\ \A q \in Procs \ {p} : ~Journaled(q)
      /\ \A q \in Procs \ {p} : ~Journaled(q)'
  BY <1>1, <1>3 DEF Base, Housed, Journaled, ScriptMove
<1>9. Careful(p)
 <2>1. \A c \in Parts : /\ dest'[c].by \in {dest[c].by, backup[c].by, p, NoOne}
                        /\ backup'[c].by \in {dest[c].by, backup[c].by, p, NoOne}
  <3>1. CASE dest' = dest /\ backup' = backup BY <3>1
  <3>2. ASSUME NEW c \in Parts, BackUpEffect(p, c)
        PROVE  \A d \in Parts : /\ dest'[d].by \in {dest[d].by, backup[d].by, p, NoOne}
                                /\ backup'[d].by \in {dest[d].by, backup[d].by, p, NoOne}
    BY <3>2 DEF BackUpEffect, Absent
  <3>3. ASSUME NEW c \in Parts, InstallEffect(p, c)
        PROVE  \A d \in Parts : /\ dest'[d].by \in {dest[d].by, backup[d].by, p, NoOne}
                                /\ backup'[d].by \in {dest[d].by, backup[d].by, p, NoOne}
   <4>1. txn[p].stage[c] = New(p)
     BY <1>1, <3>3 DEF InstallEffect, ScriptMove, Scripted, Forward
   <4> QED BY <3>3, <4>1 DEF InstallEffect, New
  <3> QED BY <1>1, <3>1, <3>2, <3>3 DEF ScriptEffect, WriteEffect, VerifyEffect, CreateEffect,
             CopyEffect, SnapshotEffect
 <2> QED BY <1>1, <1>2, <1>8, <2>1 DEF Careful, ScriptMove, Journaled
<1> QED BY <1>2, <1>5, <1>6, <1>7, <1>8, <1>9, BaseFrom DEF Own

-----------------------------------------------------------------------------
(* What rollback, finalisation and cleanup do. *)

\* The installer keeps its transaction and its exit code.
Keeps(p) ==
  Stays(p) /\ job'[p].t = job[p].t /\ job'[p].trap = job[p].trap

\* Only part c of m changes.
OnlyPart(m, n, c) == \A d \in Parts \ {c} : n[d] = m[d]

UndoRemoveEffect(p, t, c) ==
  /\ Undoing(p) /\ Replaced(t, c) /\ backup' = backup /\ txn' = txn /\ Keeps(p)
  /\ OnlyPart(dest, dest', c) /\ job'[p].in = "undo" /\ job'[p].part = c
  /\ job'[p].failed = job[p].failed
  /\ c = "binary" => dest'[c] = Absent /\ ~job'[p].half
  /\ c = "skill" => dest'[c] = Torn(dest[c]) /\ job'[p].half

(* remove_component_destination, its first step. *)
LEMMA UndoRemoveDoes ==
  ASSUME TypeOK, NEW p \in Procs, UndoRemove(p)
  PROVE  job[p].in = "undo" /\ job[p].part \in Parts /\ UndoRemoveEffect(p, job[p].t, job[p].part)
<1>1. /\ job \in [Procs -> JobType] /\ job[p] \in JobType /\ dest \in [Parts -> Items]
      /\ job[p].part \in {"binary", "skill"} BY Types DEF JobType, Parts
<1>2. /\ Undoing(p) /\ Replaced(job[p].t, job[p].part) /\ backup' = backup /\ txn' = txn
      /\ lock' = lock BY DEF UndoRemove, rest
<1>3. CASE job[p].part = "binary"
 <2>1. dest' = [dest EXCEPT !["binary"] = Absent] /\ job' = job BY <1>3 DEF UndoRemove
 <2> QED BY <1>1, <1>2, <1>3, <2>1
         DEF UndoRemoveEffect, Keeps, Stays, Same, OnlyPart, Undoing, Parts
<1>4. CASE job[p].part = "skill"
 <2>1. dest' = [dest EXCEPT !["skill"].whole = FALSE] /\ job' = [job EXCEPT ![p].half = TRUE]
   BY <1>4 DEF UndoRemove
 <2>2. /\ dest'["skill"] = Torn(dest["skill"]) /\ OnlyPart(dest, dest', "skill")
   BY <1>1, <2>1 DEF Torn, OnlyPart, Parts
 <2>3. /\ Keeps(p) /\ job'[p].in = "undo" /\ job'[p].part = "skill" /\ job'[p].half
       /\ job'[p].failed = job[p].failed
   BY <1>1, <1>2, <1>4, <2>1 DEF Keeps, Stays, Same, Undoing, JobType
 <2> QED BY <1>1, <1>2, <1>4, <2>2, <2>3 DEF UndoRemoveEffect, Undoing, Parts
<1> QED BY <1>1, <1>3, <1>4

UndoRemovedEffect(p) ==
  /\ backup' = backup /\ txn' = txn /\ Keeps(p)
  /\ OnlyPart(dest, dest', "skill") /\ dest'["skill"] = Absent
  /\ job'[p].in = "undo" /\ job'[p].part = job[p].part
  /\ job'[p].failed = job[p].failed /\ ~job'[p].half

(* remove_component_destination, the rest of the skill. *)
LEMMA UndoRemovedDoes ==
  ASSUME TypeOK, NEW p \in Procs, UndoRemoved(p)
  PROVE  job[p].in = "undo" /\ job[p].half /\ UndoRemovedEffect(p)
<1>1. /\ job \in [Procs -> JobType] /\ job[p] \in JobType /\ dest \in [Parts -> Items]
  BY Types
<1>2. /\ job[p].in = "undo" /\ job[p].half /\ backup' = backup /\ txn' = txn /\ lock' = lock
      /\ dest' = [dest EXCEPT !["skill"] = Absent] /\ job' = [job EXCEPT ![p].half = FALSE]
  BY DEF UndoRemoved, rest
<1>3. /\ Keeps(p) /\ job'[p].in = "undo" /\ job'[p].part = job[p].part /\ ~job'[p].half
      /\ job'[p].failed = job[p].failed BY <1>1, <1>2 DEF Keeps, Stays, Same, JobType
<1> QED BY <1>1, <1>2, <1>3 DEF UndoRemovedEffect, OnlyPart, Parts

UndoRestoreEffect(t, c) ==
  /\ OriginalAt(t, c, backup[c]) /\ ~There(dest[c])
  /\ dest'[c] = backup[c] /\ backup'[c] = Absent
  /\ OnlyPart(dest, dest', c) /\ OnlyPart(backup, backup', c)
  /\ job' = job /\ txn' = txn /\ lock' = lock

(* restore_component_backup. *)
LEMMA UndoRestoreDoes ==
  ASSUME TypeOK, NEW p \in Procs, UndoRestore(p)
  PROVE  job[p].part \in Parts /\ Undoing(p) /\ UndoRestoreEffect(job[p].t, job[p].part)
<1>1. job[p].part \in Parts /\ dest \in [Parts -> Items] /\ backup \in [Parts -> Items]
  BY Types DEF JobType
<1> QED BY <1>1 DEF UndoRestore, UndoRestoreEffect, OnlyPart, rest

\* The part is done, with or without success.
PartDone(p, good) ==
  \/ /\ Keeps(p) /\ job[p].part = "binary" /\ job'[p].part = "skill"
     /\ job'[p].failed = ~good /\ job'[p].in = "undo" /\ ~job'[p].half
  \/ /\ Keeps(p) /\ job[p].part = "skill" /\ good /\ ~job[p].failed /\ job'[p].in = "clean"
  \/ Exits(p, FALSE)

(* The routine goes on with the skill, with the directory, or ends. *)
LEMMA PartDoneDoes ==
  ASSUME TypeOK, NEW p \in Procs, NEW good \in BOOLEAN, NextPart(p, good), Undoing(p)
  PROVE  PartDone(p, good)
BY NextPartDoes DEF Undoing, Running, PartDone, Keeps

UndoStageEffect(p, t, c) ==
  /\ Undoing(p) /\ Restored(t, c) /\ dest' = dest /\ backup' = backup /\ PartDone(p, TRUE)
  /\ \A q \in Procs \ {t} : txn'[q] = txn[q]
  /\ txn'[t].state = txn[t].state /\ txn'[t].dir = txn[t].dir /\ txn'[t].snap = txn[t].snap
  /\ txn'[t].ids = txn[t].ids /\ txn'[t].orig = txn[t].orig
  /\ \A d \in Parts : txn'[t].stage[d] \in {txn[t].stage[d], Absent}

(* remove_component_stage. *)
LEMMA UndoStageDoes ==
  ASSUME TypeOK, NEW p \in Procs, UndoStage(p), job[p].t \in Procs
  PROVE  job[p].part \in Parts /\ UndoStageEffect(p, job[p].t, job[p].part)
<1> DEFINE t == job[p].t
           c == job[p].part
<1>1. c \in Parts /\ txn \in [Procs -> TxnType] /\ txn[t] \in TxnType BY Types DEF JobType
<1>2. /\ Undoing(p) /\ Restored(t, c) /\ dest' = dest /\ backup' = backup
      /\ PartDone(p, TRUE)
 <2>1. Undoing(p) /\ NextPart(p, TRUE) /\ TRUE \in BOOLEAN BY DEF UndoStage
 <2> QED BY <2>1, PartDoneDoes DEF UndoStage
<1>3. txn' = txn \/ txn' = [txn EXCEPT ![t].stage[c] = Absent] BY DEF UndoStage
<1> HIDE DEF t, c
<1>4. /\ \A q \in Procs \ {t} : txn'[q] = txn[q]
      /\ txn'[t].state = txn[t].state /\ txn'[t].dir = txn[t].dir /\ txn'[t].snap = txn[t].snap
      /\ txn'[t].ids = txn[t].ids /\ txn'[t].orig = txn[t].orig
      /\ \A d \in Parts : txn'[t].stage[d] \in {txn[t].stage[d], Absent}
 <2>1. CASE txn' = txn BY <2>1
 <2>2. CASE txn' = [txn EXCEPT ![t].stage[c] = Absent]
  <3> DEFINE stage == [txn[t].stage EXCEPT ![c] = Absent]
  <3>1. \A d \in Parts : stage[d] \in {txn[t].stage[d], Absent} BY <1>1 DEF TxnType
  <3>2. txn' = [txn EXCEPT ![t] = [txn[t] EXCEPT !.stage = stage]] BY <2>2
  <3> HIDE DEF stage
  <3> QED BY <1>1, <3>1, <3>2 DEF TxnType, t
 <2> QED BY <1>3, <2>1, <2>2
<1> QED BY <1>1, <1>2, <1>4 DEF UndoStageEffect, t, c

UndoRefusedEffect(p, t, c) ==
  /\ Undoing(p) /\ ~Replaced(t, c) /\ ~Restored(t, c)
  /\ ~(OriginalAt(t, c, backup[c]) /\ ~There(dest[c]))
  /\ dest' = dest /\ backup' = backup /\ txn' = txn /\ PartDone(p, FALSE)

(* A part the journal does not describe is left alone. *)
LEMMA UndoRefusedDoes ==
  ASSUME TypeOK, NEW p \in Procs, UndoRefused(p)
  PROVE  job[p].part \in Parts /\ UndoRefusedEffect(p, job[p].t, job[p].part)
<1>1. Undoing(p) /\ NextPart(p, FALSE) /\ FALSE \in BOOLEAN /\ job[p].part \in Parts
  BY Types DEF UndoRefused, JobType
<1> QED BY <1>1, PartDoneDoes DEF UndoRefused, UndoRefusedEffect, disk

FinishEffect(p, t, c) ==
  /\ job[p].in = "finish" /\ FinishAllowed(t) /\ dest' = dest /\ txn' = txn /\ Keeps(p)
  /\ OnlyPart(backup, backup', c)
  /\ \/ c = "skill" /\ backup'[c] = Torn(backup[c]) /\ backup[c].whole /\ job' = job
     \/ /\ backup'[c] = Absent
        /\ c = "binary" => job'[p].in = "finish" /\ job'[p].part = "skill"
        /\ c = "skill" => job'[p].in = "clean"

(* finalize_committed_transaction, for one part. *)
LEMMA FinishDoes ==
  ASSUME TypeOK, NEW p \in Procs, FinishBackup(p)
  PROVE  job[p].part \in Parts /\ FinishEffect(p, job[p].t, job[p].part)
<1>1. /\ job \in [Procs -> JobType] /\ job[p] \in JobType /\ backup \in [Parts -> Items]
      /\ job[p].part \in Parts /\ job[p].part \in {"binary", "skill"}
  BY Types DEF JobType, Parts
<1>2. /\ job[p].in = "finish" /\ FinishAllowed(job[p].t) /\ dest' = dest /\ txn' = txn
      /\ lock' = lock BY DEF FinishBackup, rest
<1> DEFINE c == job[p].part
<1>3. CASE c = "skill" /\ backup[c].whole
 <2>1. backup' = [backup EXCEPT !["skill"].whole = FALSE] /\ job' = job
   BY <1>3 DEF FinishBackup
 <2>2. backup'["skill"] = Torn(backup["skill"]) /\ OnlyPart(backup, backup', "skill")
   BY <1>1, <2>1 DEF Torn, OnlyPart, Parts
 <2>3. Keeps(p) BY <1>2, <2>1 DEF Keeps, Stays, Same
 <2> QED BY <1>1, <1>2, <1>3, <2>1, <2>2, <2>3 DEF FinishEffect
<1>4. CASE ~(c = "skill" /\ backup[c].whole)
 <2>1. /\ backup' = [backup EXCEPT ![c] = Absent]
       /\ job' = IF c = "binary" THEN [job EXCEPT ![p].part = "skill"]
                                 ELSE [job EXCEPT ![p].in = "clean"] BY <1>4 DEF FinishBackup
 <2>2. backup'[c] = Absent /\ OnlyPart(backup, backup', c) BY <1>1, <2>1 DEF OnlyPart, Parts
 <2>3. CASE c = "binary"
  <3>1. /\ Keeps(p) /\ job'[p].in = "finish" /\ job'[p].part = "skill"
    BY <1>1, <1>2, <2>1, <2>3 DEF Keeps, Stays, Same, JobType
  <3> QED BY <1>1, <1>2, <2>2, <2>3, <3>1 DEF FinishEffect
 <2>4. CASE c = "skill"
  <3>1. Keeps(p) /\ job'[p].in = "clean"
    BY <1>1, <1>2, <2>1, <2>4 DEF Keeps, Stays, Same, JobType
  <3> QED BY <1>1, <1>2, <2>2, <2>4, <3>1 DEF FinishEffect
 <2> QED BY <1>1, <2>3, <2>4
<1> QED BY <1>3, <1>4

\* Only the transaction t changes, and neither its stages nor its directory.
OnlyTxn(t) ==
  /\ \A q \in Procs \ {t} : txn'[q] = txn[q]
  /\ txn'[t].stage = txn[t].stage

CleanMarkEffect(t) ==
  /\ job' = job /\ lock' = lock /\ dest' = dest /\ backup' = backup /\ OnlyTxn(t)
  /\ txn[t].state \notin {"cleanup_pending", "none"} /\ txn'[t].state = "cleanup_pending"
  /\ txn'[t].dir = txn[t].dir /\ txn'[t].snap = txn[t].snap /\ txn'[t].ids = txn[t].ids
  /\ txn'[t].orig = txn[t].orig

CleanSnapshotEffect(t) ==
  /\ job' = job /\ lock' = lock /\ dest' = dest /\ backup' = backup /\ OnlyTxn(t)
  /\ txn[t].state = "cleanup_pending" /\ txn'[t].state = txn[t].state
  /\ txn'[t].dir = txn[t].dir /\ txn'[t].snap \subseteq txn[t].snap
  /\ txn'[t].ids = txn[t].ids /\ txn'[t].orig = txn[t].orig

CleanManifestEffect(t) ==
  /\ job' = job /\ lock' = lock /\ dest' = dest /\ backup' = backup /\ OnlyTxn(t)
  /\ txn[t].state = "cleanup_pending" /\ txn'[t].state = "none"
  /\ txn'[t].dir = txn[t].dir /\ txn'[t].snap = txn[t].snap /\ txn'[t].ids = {}
  /\ txn[t].snap = {}

CleanDirectoryEffect(p, t) ==
  /\ dest' = dest /\ backup' = backup /\ OnlyTxn(t)
  /\ txn[t].state = "none" /\ txn'[t].state = "none" /\ txn'[t].dir = FALSE
  /\ txn'[t].snap = txn[t].snap /\ txn'[t].ids = txn[t].ids /\ txn'[t].orig = txn[t].orig
  /\ \/ Keeps(p) /\ job[p].t # p /\ job'[p].in = "recover"
     \/ Exits(p, ~job[p].trap) /\ job[p].t = p

CleanEffect(p, t) ==
  CleanMarkEffect(t) \/ CleanSnapshotEffect(t) \/ CleanManifestEffect(t)
    \/ CleanDirectoryEffect(p, t)

CleanStep(p) == CleanMark(p) \/ CleanSnapshot(p) \/ CleanManifest(p) \/ CleanDirectory(p)

(* The four steps of the cleanup. *)
LEMMA CleanDoes ==
  ASSUME TypeOK, NEW p \in Procs, CleanStep(p), job[p].t \in Procs
  PROVE  job[p].in = "clean" /\ CleanEffect(p, job[p].t)
<1> DEFINE t == job[p].t
<1>1. txn \in [Procs -> TxnType] /\ txn[t] \in TxnType BY Types
<1>2. CASE CleanMark(p)
 <2>1. /\ job[p].in = "clean" /\ txn' = [txn EXCEPT ![t].state = "cleanup_pending"]
       /\ job' = job /\ lock' = lock /\ dest' = dest /\ backup' = backup
       /\ txn[t].state \notin {"cleanup_pending", "none"} BY <1>2 DEF CleanMark, rest
 <2> HIDE DEF t
 <2> QED BY <1>1, <2>1 DEF TxnType, t, CleanEffect, CleanMarkEffect, OnlyTxn
<1>3. CASE CleanSnapshot(p)
 <2>1. /\ job[p].in = "clean" /\ job' = job /\ lock' = lock /\ dest' = dest /\ backup' = backup
       /\ txn[t].state = "cleanup_pending" BY <1>3 DEF CleanSnapshot, rest
 <2>2. PICK s : s \subseteq txn[t].snap /\ txn' = [txn EXCEPT ![t].snap = s]
   BY <1>3 DEF CleanSnapshot
 <2> HIDE DEF t
 <2> QED BY <1>1, <2>1, <2>2 DEF TxnType, t, CleanEffect, CleanSnapshotEffect, OnlyTxn
<1>4. CASE CleanManifest(p)
 <2> DEFINE orig == [c \in Parts |-> Absent]
 <2>1. /\ job[p].in = "clean" /\ job' = job /\ lock' = lock /\ dest' = dest /\ backup' = backup
       /\ txn[t].state = "cleanup_pending" /\ txn[t].snap = {}
       /\ txn' = [txn EXCEPT ![t] = [txn[t] EXCEPT !.state = "none", !.ids = {}, !.orig = orig]]
   BY <1>4 DEF CleanManifest, rest
 <2> HIDE DEF t, orig
 <2> QED BY <1>1, <2>1 DEF TxnType, t, CleanEffect, CleanManifestEffect, OnlyTxn
<1>5. CASE CleanDirectory(p)
 <2>1. /\ job[p].in = "clean" /\ dest' = dest /\ backup' = backup /\ txn[t].state = "none"
       /\ txn' = [txn EXCEPT ![t].dir = FALSE] /\ Return(p, TRUE) /\ TRUE \in BOOLEAN
   BY <1>5 DEF CleanDirectory
 <2>2. \/ Keeps(p) /\ job[p].t # p /\ job'[p].in = "recover"
       \/ Exits(p, TRUE /\ ~job[p].trap) /\ job[p].t = p
   BY <2>1, ReturnDoes DEF Keeps, Running
 <2>3. (TRUE /\ ~job[p].trap) = ~job[p].trap OBVIOUS
 <2>4. \/ Keeps(p) /\ job[p].t # p /\ job'[p].in = "recover"
       \/ Exits(p, ~job[p].trap) /\ job[p].t = p BY <2>2, <2>3
 <2> HIDE DEF t
 <2>5. /\ OnlyTxn(t) /\ txn'[t].state = "none" /\ txn'[t].dir = FALSE
       /\ txn'[t].snap = txn[t].snap /\ txn'[t].ids = txn[t].ids /\ txn'[t].orig = txn[t].orig
   BY <1>1, <2>1 DEF TxnType, OnlyTxn, t
 <2> QED BY <2>1, <2>4, <2>5 DEF t, CleanEffect, CleanDirectoryEffect
<1> QED BY <1>2, <1>3, <1>4, <1>5 DEF CleanStep

\* Nothing is added to what is on the disk.
Shrinks ==
  /\ \A c \in Parts : /\ dest'[c].by \in {dest[c].by, backup[c].by, NoOne}
                      /\ backup'[c].by \in {dest[c].by, backup[c].by, NoOne}
  /\ \A q \in Procs :
       /\ txn'[q].state # "none" => txn[q].state # "none" /\ txn'[q].dir
       /\ txn'[q].dir => txn[q].dir
       /\ txn'[q].snap \subseteq txn[q].snap /\ txn'[q].ids \subseteq txn[q].ids
       /\ \A c \in Parts : txn'[q].stage[c] \in {txn[q].stage[c], Absent}

RoutineMove(p) ==
  /\ job[p].in \in {"undo", "finish", "clean"}
  /\ \/ /\ Keeps(p) /\ job'[p].in \in {"undo", "finish", "clean", "recover"}
        /\ job'[p].in = "recover" => job[p].t # p
        /\ job'[p].in = "undo" => job[p].in = "undo" /\ InFlight(job[p].t)'
        /\ job'[p].in = "finish" => txn'[job[p].t].state = "committed"
     \/ \E ok \in BOOLEAN : Exits(p, ok)

(* A routine that only takes things away leaves Base. *)
LEMMA RoutineBase ==
  ASSUME Base, TypeOK', NEW p \in Procs, RoutineMove(p), Shrinks
  PROVE  Base'
<1>1. Own(p) /\ lock = p /\ Running(p) /\ p # NoOne
  BY DEF Base, Own, LockHeld, Running, RoutineMove
<1>2. Careful(p) BY <1>1 DEF Careful, Shrinks
<1>3. Housed(p)' /\ \A q \in Procs : Journaled(q)' => Journaled(q)
  BY DEF Shrinks, Housed, Journaled
<1>4. CASE \E ok \in BOOLEAN : Exits(p, ok)
 <2>1. Local(p) /\ Shape(p)' /\ LockHeld(p)' /\ Turn(p)' /\ Untouched(p)'
   BY <1>1, <1>4, ExitsOwn DEF Running
 <2> QED BY <1>2, <1>3, <2>1, BaseFrom DEF Own
<1>5. CASE /\ Keeps(p) /\ job'[p].in \in {"undo", "finish", "clean", "recover"}
           /\ job'[p].in = "recover" => job[p].t # p
           /\ job'[p].in = "undo" => job[p].in = "undo" /\ InFlight(job[p].t)'
           /\ job'[p].in = "finish" => txn'[job[p].t].state = "committed"
 <2>1. Local(p) /\ Shape(p)' /\ LockHeld(p)' BY <1>1, <1>5, StaysOwn DEF Keeps
 <2>2. Turn(p)'
  <3>1. job[p].t \in Procs /\ (job[p].t # p => ~txn[p].dir)
        /\ (job[p].in = "undo" /\ job[p].t = p => job[p].trap)
    BY <1>1 DEF Own, Turn, RoutineMove
  <3>2. txn'[p].dir => txn[p].dir BY DEF Shrinks
  <3>3. job'[p].t = job[p].t /\ job'[p].trap = job[p].trap BY <1>5 DEF Keeps
  <3>4. job'[p].in = "undo" => InFlight(job[p].t)' BY <1>5
  <3>5. job'[p].in = "finish" => txn'[job'[p].t].state = "committed" BY <1>5, <3>3
  <3> QED BY <1>5, <3>1, <3>2, <3>3, <3>4, <3>5 DEF Turn
 <2>3. Untouched(p)'
  <3> SUFFICES ASSUME Fresh(p)'
      PROVE  /\ txn'[p].state = "none" /\ txn'[p].snap = {} /\ txn'[p].ids = {}
             /\ \A c \in Parts : /\ txn'[p].stage[c] = Absent
                                 /\ dest'[c].by # p /\ backup'[c].by # p
             /\ job'[p].in # "script" => ~txn'[p].dir BY DEF Untouched
  <3>1. Fresh(p) BY <1>1, <1>5 DEF Fresh, Keeps, Stays, Same, RoutineMove, Own, Shape
  <3>2. /\ txn[p].state = "none" /\ txn[p].snap = {} /\ txn[p].ids = {} /\ ~txn[p].dir
        /\ \A c \in Parts : txn[p].stage[c] = Absent /\ dest[c].by # p /\ backup[c].by # p
    BY <1>1, <3>1 DEF Own, Untouched, RoutineMove
  <3> QED BY <1>1, <3>2 DEF Shrinks
 <2> QED BY <1>2, <1>3, <2>1, <2>2, <2>3, BaseFrom DEF Own
<1> QED BY <1>4, <1>5 DEF RoutineMove

RoutineStep(p) ==
  UndoRemove(p) \/ UndoRemoved(p) \/ UndoRestore(p) \/ UndoStage(p) \/ UndoRefused(p)
    \/ FinishBackup(p) \/ CleanStep(p)

(* Rollback, finalisation and cleanup take things away. *)
LEMMA RoutineShrinks ==
  ASSUME Base, NEW p \in Procs, RoutineStep(p)
  PROVE  RoutineMove(p) /\ Shrinks
<1>1. TypeOK /\ Own(p) /\ \A q \in Procs : Housed(q) BY DEF Base, Own
<1>2. ASSUME job[p].in \in {"undo", "finish", "clean"}
      PROVE  /\ job[p].t \in Procs
             /\ job[p].in = "undo" => InFlight(job[p].t)
             /\ job[p].in = "finish" => txn[job[p].t].state = "committed"
  BY <1>1, <1>2 DEF Own, Turn
<1>3. ASSUME txn' = txn
      PROVE  \A q \in Procs :
       /\ txn'[q].state # "none" => txn[q].state # "none" /\ txn'[q].dir
       /\ txn'[q].dir => txn[q].dir
       /\ txn'[q].snap \subseteq txn[q].snap /\ txn'[q].ids \subseteq txn[q].ids
       /\ \A c \in Parts : txn'[q].stage[c] \in {txn[q].stage[c], Absent}
  BY <1>1, <1>3 DEF Housed, Journaled
<1>4. ASSUME job' = job, lock' = lock, job[p].in \in {"undo", "finish", "clean"}
      PROVE  Keeps(p) BY <1>4 DEF Keeps, Stays, Same
<1>5. CASE UndoRemove(p)
 <2>1. job[p].in = "undo" /\ job[p].part \in Parts /\ UndoRemoveEffect(p, job[p].t, job[p].part)
   BY <1>1, <1>5, UndoRemoveDoes
 <2>2. dest[job[p].part] \in Items BY <1>1, <2>1, Types
 <2>3. Torn(dest[job[p].part]).by = dest[job[p].part].by BY <2>2, WholeIs DEF Torn
 <2>4. Shrinks BY <1>3, <2>1, <2>3 DEF Shrinks, UndoRemoveEffect, OnlyPart, Parts, Absent
 <2>5. RoutineMove(p) BY <1>2, <2>1 DEF RoutineMove, UndoRemoveEffect, Keeps, InFlight
 <2> QED BY <2>4, <2>5
<1>6. CASE UndoRemoved(p)
 <2>1. job[p].in = "undo" /\ UndoRemovedEffect(p) BY <1>1, <1>6, UndoRemovedDoes
 <2>2. Shrinks BY <1>3, <2>1 DEF Shrinks, UndoRemovedEffect, OnlyPart, Parts, Absent
 <2>3. RoutineMove(p) BY <1>2, <2>1 DEF RoutineMove, UndoRemovedEffect, Keeps, InFlight
 <2> QED BY <2>2, <2>3
<1>7. CASE UndoRestore(p)
 <2>1. /\ job[p].in = "undo" /\ job[p].part \in Parts
       /\ UndoRestoreEffect(job[p].t, job[p].part) BY <1>1, <1>7, UndoRestoreDoes DEF Undoing
 <2>2. Shrinks BY <1>3, <2>1 DEF Shrinks, UndoRestoreEffect, OnlyPart, Parts, Absent
 <2>3. RoutineMove(p) BY <1>2, <1>4, <2>1 DEF RoutineMove, UndoRestoreEffect, InFlight
 <2> QED BY <2>2, <2>3
<1>8. CASE UndoStage(p)
 <2>1. job[p].in = "undo" /\ job[p].t \in Procs BY <1>2, <1>8 DEF UndoStage, Undoing
 <2>2. UndoStageEffect(p, job[p].t, job[p].part) BY <1>1, <1>8, <2>1, UndoStageDoes
 <2>3. Shrinks BY <1>1, <2>1, <2>2 DEF Shrinks, UndoStageEffect, Housed, Journaled
 <2>4. RoutineMove(p)
   BY <1>2, <2>1, <2>2 DEF RoutineMove, UndoStageEffect, PartDone, Keeps, InFlight
 <2> QED BY <2>3, <2>4
<1>9. CASE UndoRefused(p)
 <2>1. UndoRefusedEffect(p, job[p].t, job[p].part) BY <1>1, <1>9, UndoRefusedDoes
 <2>2. job[p].in = "undo" BY <2>1 DEF UndoRefusedEffect, Undoing
 <2>3. Shrinks BY <1>3, <2>1 DEF Shrinks, UndoRefusedEffect
 <2>4. RoutineMove(p)
   BY <1>2, <2>1, <2>2 DEF RoutineMove, UndoRefusedEffect, PartDone, Keeps, InFlight
 <2> QED BY <2>3, <2>4
<1>10. CASE FinishBackup(p)
 <2>1. job[p].part \in Parts /\ FinishEffect(p, job[p].t, job[p].part)
   BY <1>1, <1>10, FinishDoes
 <2>2. backup[job[p].part] \in Items BY <1>1, <2>1, Types
 <2>3. Torn(backup[job[p].part]).by = backup[job[p].part].by BY <2>2, WholeIs DEF Torn
 <2>4. Shrinks BY <1>3, <2>1, <2>3 DEF Shrinks, FinishEffect, OnlyPart, Parts, Absent
 <2>5. RoutineMove(p) BY <1>2, <2>1 DEF RoutineMove, FinishEffect, Keeps, Parts
 <2> QED BY <2>4, <2>5
<1>11. CASE CleanStep(p)
 <2>1. job[p].in = "clean"
   BY <1>11 DEF CleanStep, CleanMark, CleanSnapshot, CleanManifest, CleanDirectory
 <2>2. job[p].t \in Procs /\ CleanEffect(p, job[p].t) BY <1>1, <1>2, <1>11, <2>1, CleanDoes
 <2>3. Shrinks
  <3>1. dest' = dest /\ backup' = backup /\ OnlyTxn(job[p].t)
    BY <2>2 DEF CleanEffect, CleanMarkEffect, CleanSnapshotEffect, CleanManifestEffect,
       CleanDirectoryEffect
  <3> DEFINE t == job[p].t
  <3>2. /\ txn'[t].state # "none" => txn[t].state # "none" /\ txn'[t].dir
        /\ txn'[t].dir => txn[t].dir
        /\ txn'[t].snap \subseteq txn[t].snap /\ txn'[t].ids \subseteq txn[t].ids
    BY <1>1, <2>2 DEF CleanEffect, CleanMarkEffect, CleanSnapshotEffect, CleanManifestEffect,
       CleanDirectoryEffect, Housed, Journaled
  <3> QED BY <1>1, <3>1, <3>2 DEF Shrinks, OnlyTxn, Housed, Journaled
 <2>4. RoutineMove(p)
  <3>1. CASE job' = job /\ lock' = lock BY <1>4, <2>1, <3>1 DEF RoutineMove
  <3>2. CASE CleanDirectoryEffect(p, job[p].t)
   <4>1. (~job[p].trap) \in BOOLEAN OBVIOUS
   <4> QED BY <2>1, <3>2, <4>1 DEF RoutineMove, CleanDirectoryEffect
  <3> QED BY <2>2, <3>1, <3>2 DEF CleanEffect, CleanMarkEffect, CleanSnapshotEffect,
             CleanManifestEffect
 <2> QED BY <2>3, <2>4
<1> QED BY <1>5, <1>6, <1>7, <1>8, <1>9, <1>10, <1>11 DEF RoutineStep

(* No step breaks Base. *)
LEMMA NextBase ==
  ASSUME IInv, [Next]_vars
  PROVE  Base'
<1>1. Base /\ TypeOK /\ (\A p \in Procs : Scripted(p)) /\ TypeOK'
  BY NextTyped DEF IInv, Base, Works
<1>2. ASSUME dest' = dest, backup' = backup, txn' = txn, job' = job, lock' = lock PROVE Base'
  BY <1>1, <1>2 DEF Base, OneJournal, Journaled, Shape, LockHeld, HasLock, Running, Housed, Turn,
     InFlight, Untouched, Fresh
<1>3. ASSUME NEW p \in Procs, Updater(p) \/ Installer(p) \/ Fail(p) \/ KillInstaller(p)
                                \/ KillUpdater(p)
      PROVE  Base'
 <2>1. CASE UpdaterSteps(p) BY <1>1, <2>1, UpdaterBase
 <2>2. CASE ScriptStep(p) BY <1>1, <2>2, ScriptBase
 <2>3. CASE RoutineStep(p) BY <1>1, <2>3, RoutineShrinks, RoutineBase
 <2>4. CASE Recover(p) \/ Begin(p) BY <1>1, <2>4, RecoverBase, BeginBase
 <2>5. CASE Fail(p) \/ Cancel(p)
  <3>1. PICK left \in BOOLEAN, canceled \in BOOLEAN : Failing(p, left, canceled)
    BY <2>5 DEF Fail, Cancel, Leaves
  <3>2. dest' = dest /\ backup' = backup /\ (Running(p) \/ job[p].up = "run")
    BY <2>5 DEF Fail, Cancel, Running
  <3> QED BY <1>1, <3>1, <3>2, FailingBase
 <2>6. CASE KillInstaller(p) BY <1>1, <2>6, KillInstallerBase
 <2> QED BY <1>3, <2>1, <2>2, <2>3, <2>4, <2>5, <2>6
         DEF Updater, Installer, UpdaterSteps, ScriptStep, RoutineStep, CleanStep
<1>4. CASE PowerLoss BY <1>1, <1>4, PowerLossBase
<1>5. CASE Publish BY <1>2, <1>5 DEF Publish, disk
<1>6. CASE UNCHANGED vars BY <1>2, <1>6 DEF vars
<1> QED BY <1>3, <1>4, <1>5, <1>6 DEF Next

(***************************************************************************)
(* Disk and Works.  Steps that leave the parts and the journals alone.     *)
(***************************************************************************)

\* The parts and the journals as far as they can still be undone or finished.
SameDisk ==
  /\ dest' = dest /\ backup' = backup
  /\ \A q \in Procs :
       /\ (InFlight(q)' <=> InFlight(q))
       /\ (txn'[q].state = "committed" <=> txn[q].state = "committed")
       /\ InFlight(q) \/ txn[q].state = "committed" =>
            /\ txn'[q].orig = txn[q].orig /\ txn'[q].ids = txn[q].ids
            /\ txn'[q].snap = txn[q].snap /\ job'[q].ver = job[q].ver

(* Where nothing moves, what is on the disk stays in order. *)
LEMMA SameDiskKeeps ==
  ASSUME Disk, SameDisk
  PROVE  Disk'
<1>1. Settled' /\ NoBackups' BY DEF Disk, SameDisk, Settled, NoBackups
<1>2. ASSUME NEW q \in Procs PROVE Undoable(q)'
 <2> SUFFICES ASSUME InFlight(q)', NEW c \in Parts
     PROVE  /\ Intact(txn'[q].orig[c]) /\ txn'[q].orig[c].by # q
            /\ Before(q, c)' \/ Aside(q, c)' \/ After(q, c)' \/ Removing(q, c)'
   BY DEF Undoable, Intact
 <2>1. /\ InFlight(q) /\ txn'[q].orig = txn[q].orig /\ txn'[q].ids = txn[q].ids
       /\ txn'[q].snap = txn[q].snap /\ job'[q].ver = job[q].ver
       /\ dest' = dest /\ backup' = backup BY DEF SameDisk
 <2>2. New(q)' = New(q) BY <2>1 DEF New
 <2>3. /\ Intact(txn[q].orig[c]) /\ txn[q].orig[c].by # q
       /\ Before(q, c) \/ Aside(q, c) \/ After(q, c) \/ Removing(q, c)
   BY <2>1 DEF Disk, Undoable
 <2>4. /\ Before(q, c)' = Before(q, c) /\ Aside(q, c)' = Aside(q, c)
       /\ After(q, c)' = After(q, c) /\ Removing(q, c)' = Removing(q, c)
   BY <2>1, <2>2 DEF Before, Aside, After, Removing, Torn
 <2> QED BY <2>1, <2>3, <2>4
<1>3. ASSUME NEW q \in Procs PROVE Finishable(q)'
 <2> SUFFICES ASSUME txn'[q].state = "committed"
     PROVE  \A c \in Parts :
              /\ dest'[c] = New(q)' /\ c \in txn'[q].ids /\ c \in txn'[q].snap
              /\ There(backup'[c]) => Had(q, c)' /\ backup'[c].by = txn'[q].orig[c].by
   BY DEF Finishable
 <2>1. /\ txn[q].state = "committed" /\ txn'[q].orig = txn[q].orig /\ txn'[q].ids = txn[q].ids
       /\ txn'[q].snap = txn[q].snap /\ job'[q].ver = job[q].ver
       /\ dest' = dest /\ backup' = backup BY DEF SameDisk
 <2> QED BY <2>1 DEF Disk, Finishable, New, Had, There
<1> QED BY <1>1, <1>2, <1>3 DEF Disk

\* What the running installer looks at.
SameWork(q) ==
  /\ job'[q].in = job[q].in /\ job'[q].step = job[q].step /\ job'[q].t = job[q].t
  /\ job'[q].part = job[q].part /\ job'[q].half = job[q].half /\ job'[q].failed = job[q].failed
  /\ job'[q].trap = job[q].trap

Work(q) == Scripted(q) /\ Undone(q) /\ Finished(q)

\* An installer that does not run knows nothing.
LEMMA IdleWork ==
  ASSUME NEW q \in Procs, job'[q].in \in {"off", "wait", "recover"}
  PROVE  Work(q)'
BY DEF Work, Scripted, Undone, Finished

(* An installer that sees no change knows what it knew. *)
LEMMA SameWorkKeeps ==
  ASSUME Base, NEW q \in Procs, Work(q), SameWork(q), dest' = dest, backup' = backup,
         \A t \in Procs : SameTxn(t),
         \A t \in Procs : Journaled(t) \/ Running(t) => job'[t].ver = job[t].ver
  PROVE  Work(q)'
<1>1. CASE ~Running(q) BY <1>1, IdleWork DEF SameWork, Running
<1>2. CASE Running(q)
 <2>1. New(q)' = New(q) BY <1>2 DEF New
 <2>2. job'[q].t = job[q].t BY DEF SameWork
 <2>3. Scripted(q)'
   BY <2>1, <2>2 DEF Work, Scripted, Forward, SameWork, SameTxn, Before, Aside, After, Torn
 <2>4. Undone(q)'
  <3> SUFFICES ASSUME job'[q].in = "undo"
      PROVE  /\ job'[q].half => job'[q].part = "skill" /\ Removing(job[q].t, "skill")'
             /\ job'[q].part = "skill" /\ ~job'[q].failed => Before(job[q].t, "binary")'
    BY <2>2 DEF Undone
  <3>1. job[q].in = "undo" /\ job[q].t \in Procs /\ InFlight(job[q].t)
    BY DEF SameWork, Base, Turn
  <3> DEFINE t == job[q].t
  <3>2. /\ txn'[t].orig = txn[t].orig /\ job'[t].ver = job[t].ver
    BY <3>1 DEF SameTxn, Journaled, InFlight
  <3>3. Removing(t, "skill") => Removing(job[q].t, "skill")'
    BY <2>2, <3>2 DEF Removing, New, Torn
  <3>4. Before(t, "binary") => Before(job[q].t, "binary")' BY <2>2, <3>2 DEF Before
  <3> QED BY <3>1, <3>3, <3>4 DEF Work, Undone, SameWork
 <2>5. Finished(q)'
  <3>1. job[q].in \in {"finish", "clean"} => job[q].t \in Procs BY DEF Base, Turn
  <3>2. \A t \in Procs : /\ txn'[t].orig = txn[t].orig /\ txn'[t].state = txn[t].state
    BY DEF SameTxn
  <3>3. Finished(q) BY DEF Work
  <3> QED BY <2>1, <2>2, <3>1, <3>2, <3>3 DEF Finished, SameWork, InFlight, Journaled, Before
 <2> QED BY <2>3, <2>4, <2>5 DEF Work
<1> QED BY <1>1, <1>2

(* An updater's step does nothing to a running installer. *)
LEMMA UpdaterWork ==
  ASSUME Base, NEW p \in Procs, UpdaterSteps(p)
  PROVE  /\ SameWork(p) \/ job'[p].in \in {"off", "wait", "recover"}
         /\ Journaled(p) \/ Running(p) => job'[p].ver = job[p].ver
<1>1. job \in [Procs -> JobType] /\ job[p] \in JobType BY Types DEF Base
<1>2. Shape(p) /\ Untouched(p) BY DEF Base
<1>3. CASE StartUpdate(p) \/ FetchLatest(p) \/ StartDirect(p)
 <2>1. ~Journaled(p) /\ ~Running(p)
   BY <1>2, <1>3 DEF StartUpdate, FetchLatest, StartDirect, Shape, Untouched, Fresh, Journaled,
      Running
 <2>2. CASE StartUpdate(p) BY <1>1, <2>1, <2>2 DEF StartUpdate, SameWork
 <2>3. CASE FetchLatest(p)
  <3> DEFINE u == IF Older(job[p].ver, published) THEN "manifest" ELSE "done"
             r == IF Older(job[p].ver, published) THEN "none" ELSE "current"
  <3>1. job' = [job EXCEPT ![p].up = u, ![p].ver = published, ![p].result = r]
    BY <2>3 DEF FetchLatest
  <3> HIDE DEF u, r
  <3> QED BY <1>1, <2>1, <3>1 DEF SameWork, JobType
 <2>4. CASE StartDirect(p)
  <3>1. job'[p].in = "wait" BY <1>1, <2>4 DEF StartDirect
  <3> QED BY <2>1, <3>1
 <2> QED BY <1>3, <2>2, <2>3, <2>4
<1>4. CASE RunInstaller(p) \/ AcquireLock(p) \/ LockTimeout(p)
 <2>1. CASE RunInstaller(p) BY <1>1, <2>1 DEF RunInstaller
 <2>2. CASE AcquireLock(p) BY <1>1, <2>2 DEF AcquireLock
 <2>3. CASE LockTimeout(p) BY <1>1, <2>3 DEF LockTimeout
 <2> QED BY <1>4, <2>1, <2>2, <2>3
<1>5. ASSUME NEW to, job' = [job EXCEPT ![p].up = to]
      PROVE  SameWork(p) /\ job'[p].ver = job[p].ver BY <1>1, <1>5 DEF SameWork, JobType
<1>6. CASE DownloadManifest(p) \/ DownloadArchive(p) \/ Extract(p) \/ TakeLock(p) \/ Cleanup(p)
             \/ KillUpdater(p)
  BY <1>5, <1>6 DEF DownloadManifest, DownloadArchive, Extract, TakeLock, Cleanup, KillUpdater,
     Proceed
<1>7. ASSUME NEW u, NEW r, job' = [job EXCEPT ![p].up = u, ![p].result = r]
      PROVE  SameWork(p) /\ job'[p].ver = job[p].ver BY <1>1, <1>7 DEF SameWork, JobType
<1>8. CASE Refuse(p)
 <2> DEFINE u == IF HasLock(p) THEN "close" ELSE "done"
 <2>1. job' = [job EXCEPT ![p].up = u, ![p].result = "refused"] BY <1>1, <1>8 DEF Refuse
 <2> HIDE DEF u
 <2> QED BY <1>7, <2>1
<1>9. CASE ReadInstalled(p)
 <2> DEFINE u == IF dest["binary"].whole /\ Older(dest["binary"].ver, job[p].ver)
                 THEN "extract" ELSE "close"
            m == \E t \in Procs : InFlight(t)
            r == CASE ~dest["binary"].whole -> "refused"
                   [] ~Older(dest["binary"].ver, job[p].ver) -> "current"
                   [] OTHER -> "none"
 <2>1. job' = [job EXCEPT ![p].up = u, ![p].mixed = m, ![p].result = r]
   BY <1>9, Zenon DEF ReadInstalled
 <2> HIDE DEF u, m, r
 <2> QED BY <1>1, <2>1 DEF SameWork, JobType
<1>10. CASE InstallerEnded(p)
 <2> DEFINE good == job[p].ok /\ ~job[p].canceled
            u == IF good THEN "verify" ELSE "cleanup"
            r == IF good THEN "none" ELSE "unknown"
 <2>1. job' = [job EXCEPT ![p].up = u, ![p].result = r] BY <1>10 DEF InstallerEnded
 <2> HIDE DEF u, r
 <2> QED BY <1>7, <2>1
<1>11. CASE VerifyInstalled(p)
 <2>1. PICK r \in {"complete", "unknown"} :
         job' = [job EXCEPT ![p].up = "cleanup", ![p].result = r] BY <1>11 DEF VerifyInstalled
 <2> QED BY <1>7, <2>1
<1>12. CASE CloseLock(p) BY <1>1, <1>12 DEF CloseLock, SameWork, JobType
<1> QED BY <1>3, <1>4, <1>6, <1>8, <1>9, <1>10, <1>11, <1>12 DEF UpdaterSteps

(* A step of an updater leaves Disk and Works. *)
LEMMA UpdaterKeepsWork ==
  ASSUME IInv, NEW p \in Procs, UpdaterSteps(p)
  PROVE  Disk' /\ Works'
<1>1. Base /\ Disk /\ \A q \in Procs : Work(q) BY DEF IInv, Works, Work
<1>2. Local(p) /\ dest' = dest /\ backup' = backup /\ txn' = txn BY <1>1, UpdaterLocal
<1>3. \A q \in Procs : Journaled(q) \/ Running(q) => job'[q].ver = job[q].ver
  BY <1>1, <1>2, UpdaterWork DEF Local
<1>4. SameDisk BY <1>2, <1>3 DEF SameDisk, InFlight, Journaled
<1>5. \A q \in Procs : SameTxn(q) BY <1>2 DEF SameTxn
<1>6. ASSUME NEW q \in Procs PROVE Work(q)'
 <2>1. CASE SameWork(q) BY <1>1, <1>2, <1>3, <1>5, <2>1, SameWorkKeeps
 <2>2. CASE job'[q].in \in {"off", "wait", "recover"} BY <2>2, IdleWork
 <2> QED BY <1>1, <1>2, <2>1, <2>2, UpdaterWork DEF Local, SameWork
<1> QED BY <1>1, <1>4, <1>6, SameDiskKeeps DEF Works, Work

\* The job of p changes, the others' do not, and the disk stays.
LEMMA KeepsWork ==
  ASSUME IInv, NEW p \in Procs, Same(p), dest' = dest, backup' = backup,
         \A q \in Procs : SameTxn(q), Work(p)'
  PROVE  Disk' /\ Works'
<1>1. Base /\ Disk /\ \A q \in Procs : Work(q) BY DEF IInv, Works, Work
<1>2. \A q \in Procs : job'[q].ver = job[q].ver BY DEF Same
<1>3. SameDisk BY <1>2 DEF SameDisk, SameTxn, InFlight
<1>4. ASSUME NEW q \in Procs \ {p} PROVE Work(q)'
 <2>1. SameWork(q) BY DEF Same, SameWork
 <2> QED BY <1>1, <1>2, <2>1, SameWorkKeeps
<1> QED BY <1>1, <1>3, <1>4, SameDiskKeeps DEF Works, Work

(* A failing command leaves Disk and Works, whether it starts the trap or not. *)
LEMMA FailingKeepsWork ==
  ASSUME IInv, NEW p \in Procs, NEW left \in BOOLEAN, NEW canceled \in BOOLEAN,
         Failing(p, left, canceled), dest' = dest, backup' = backup
  PROVE  Disk' /\ Works'
<1>1. TypeOK /\ Turn(p) BY DEF IInv, Base
<1>2. CASE Exits(p, job[p].ok /\ job[p].in = "off") /\ \A q \in Procs : SameTxn(q)
 <2>1. Work(p)' /\ Same(p) BY <1>2, IdleWork DEF Exits
 <2> QED BY <1>2, <2>1, KeepsWork
<1>3. CASE /\ Stays(p) /\ job[p].in \notin {"off", "wait", "recover"}
           /\ job[p].t = p /\ job'[p].t = p /\ ~job[p].trap /\ job'[p].trap
           /\ job'[p].in = TrapStart(p) /\ job'[p].part = "binary"
           /\ job'[p].half = FALSE /\ job'[p].failed = FALSE /\ txn' = txn
 <2>1. \/ job'[p].in = "off"
       \/ job'[p].in = "clean" /\ txn[p].state = "cleanup_pending"
       \/ job'[p].in = "finish" /\ txn[p].state = "committed"
       \/ job'[p].in = "undo" BY <1>3 DEF TrapStart
 <2>2. Work(p)' BY <1>3, <2>1 DEF Work, Scripted, Undone, Finished, InFlight
 <2>3. Same(p) /\ \A q \in Procs : SameTxn(q) BY <1>3 DEF Stays, SameTxn
 <2> QED BY <2>2, <2>3, KeepsWork
<1> QED BY ZenonT(60), <1>1, <1>2, <1>3, FailingDoes

(* A kill of the installer leaves Disk and Works. *)
LEMMA KillKeepsWork ==
  ASSUME IInv, NEW p \in Procs, KillInstaller(p)
  PROVE  Disk' /\ Works'
<1>1. /\ Exits(p, FALSE) /\ dest' = dest /\ backup' = backup
      /\ \A q \in Procs : SameTxn(q) BY KillInstallerDoes DEF IInv, Base
<1>2. Work(p)' /\ Same(p) BY <1>1, IdleWork DEF Exits
<1> QED BY <1>1, <1>2, KeepsWork

(* The end of every process leaves Disk and Works. *)
LEMMA PowerLossKeepsWork ==
  ASSUME IInv, PowerLoss
  PROVE  Disk' /\ Works'
<1>1. /\ dest' = dest /\ backup' = backup /\ txn' = txn
      /\ \A q \in Procs : job'[q].in = "off" /\ job'[q].ver = job[q].ver
  BY PowerLossDoes DEF IInv, Base
<1>2. SameDisk BY <1>1 DEF SameDisk, InFlight
<1>3. \A q \in Procs : Work(q)' BY <1>1, IdleWork
<1> QED BY <1>2, <1>3, SameDiskKeeps DEF IInv, Works, Work

(* Taking on an older transaction leaves Disk and Works. *)
LEMMA RecoverKeepsWork ==
  ASSUME IInv, NEW p \in Procs, Recover(p)
  PROVE  Disk' /\ Works'
<1>1. TypeOK /\ Turn(p) /\ Work(p) BY DEF IInv, Base, Works, Work
<1>2. dest' = dest /\ backup' = backup /\ job[p].in = "recover" BY <1>1, RecoverDoes
<1>3. PICK t \in Procs : txn[t].dir /\ RecoverEffect(p, t) BY <1>1, RecoverDoes
<1>4. \A q \in Procs : SameTxn(q) BY <1>3 DEF RecoverEffect, SameTxn
<1>5. Same(p) BY <1>3 DEF RecoverEffect, Exits, Stays, Same
<1>6. Work(p)'
 <2>1. CASE job'[p].in \in {"off", "recover"} BY <2>1, IdleWork
 <2>2. CASE ~(job'[p].in \in {"off", "recover"})
  <3>1. /\ txn[t].state # "none" /\ txn' = txn /\ job'[p].t = t /\ job'[p].part = "binary"
        /\ job'[p].half = FALSE
        /\ job'[p].in = CASE txn[t].state = "cleanup_pending" -> "clean"
                          [] txn[t].state = "committed" -> "finish"
                          [] OTHER -> "undo" BY <1>2, <1>3, <2>2 DEF RecoverEffect, Exits
  <3>2. \/ job'[p].in = "clean" /\ txn[t].state = "cleanup_pending"
        \/ job'[p].in = "finish" /\ txn[t].state = "committed"
        \/ job'[p].in = "undo" BY <3>1
  <3>3. t # p BY <1>1, <1>2, <1>3 DEF Turn
  <3> QED BY <3>1, <3>2, <3>3 DEF Work, Scripted, Undone, Finished, InFlight
 <2> QED BY <2>1, <2>2
<1> QED BY <1>2, <1>4, <1>5, <1>6, KeepsWork

(* Beginning a transaction leaves Disk and Works. *)
LEMMA BeginKeepsWork ==
  ASSUME IInv, NEW p \in Procs, Begin(p)
  PROVE  Disk' /\ Works'
<1>1. TypeOK /\ Untouched(p) BY DEF IInv, Base
<1>2. /\ dest' = dest /\ backup' = backup /\ job[p].in = "recover" /\ BeginEffect(p)
  BY <1>1, BeginDoes
<1>3. Same(p) /\ \A q \in Procs : SameTxn(q) BY <1>2 DEF BeginEffect, Exits, Stays, SameTxn
<1>4. Work(p)'
 <2>1. CASE job'[p].in = "off" BY <2>1, IdleWork
 <2>2. CASE ~(job'[p].in = "off")
  <3>1. job'[p].in = "script" /\ job'[p].step = 1 /\ SameTxn(p)
    BY <1>2, <2>2 DEF BeginEffect, Exits
  <3>2. \A c \in Parts : txn'[p].stage[c] = Absent
    BY <1>1, <1>2, <3>1 DEF Untouched, Fresh, SameTxn
  <3> QED BY <3>1, <3>2 DEF Work, Scripted, Forward, Undone, Finished, Parts
 <2> QED BY <2>1, <2>2
<1> QED BY <1>2, <1>3, <1>4, KeepsWork

-----------------------------------------------------------------------------
(* What the step from s does to one part of the script of p. *)
PartMoves(p, c, create, record, copy, snap, back, inst) ==
  LET s == job[p].step IN
  /\ txn'[p].stage[c] = IF s = create THEN Torn(New(p)) ELSE IF s = copy
                        THEN Completed(txn[p].stage[c])
                        ELSE IF s = inst THEN Absent ELSE txn[p].stage[c]
  /\ txn[p].ids \subseteq txn'[p].ids
  /\ s = record /\ There(txn[p].stage[c]) => c \in txn'[p].ids
  /\ txn[p].snap \subseteq txn'[p].snap
  /\ s = snap => c \in txn'[p].snap
  /\ dest'[c] = IF s = back THEN Absent ELSE IF s = inst THEN txn[p].stage[c] ELSE dest[c]
  /\ backup'[c] = IF s = back THEN dest[c] ELSE backup[c]
  /\ s = back => dest[c] = txn[p].orig[c]
  /\ txn'[p].orig[c] = IF s = 1 THEN dest[c] ELSE txn[p].orig[c]

(* The script does with each part what it should. *)
LEMMA ForwardKeeps ==
  ASSUME TypeOK, NEW p \in Procs, NEW c \in Parts, ScriptMove(p), job[p].step < 25,
         NEW create \in Nat, NEW record \in Nat, NEW copy \in Nat, NEW snap \in Nat,
         NEW back \in Nat, NEW inst \in Nat,
         1 < create, create < record, record < copy, copy < snap, snap < back, back < inst,
         Forward(p, c, create, record, copy, snap, back, inst),
         PartMoves(p, c, create, record, copy, snap, back, inst),
         job[p].step = 1 => backup[c] = Absent
  PROVE  Forward(p, c, create, record, copy, snap, back, inst)'
<1> DEFINE s == job[p].step
           n == New(p)
           x == Torn(New(p))
<1>1. /\ s \in 1..25 /\ job'[p].step = s + 1 /\ New(p)' = n /\ Torn(New(p))' = x
      /\ There(x) /\ Completed(x) = n BY NewIs DEF ScriptMove, Stays, Same, New, Torn
<1>2. txn'[p].stage[c] = IF s + 1 <= create \/ s + 1 > inst THEN Absent
                         ELSE IF s + 1 <= copy THEN x ELSE n
 <2>1. txn[p].stage[c] = IF s <= create \/ s > inst THEN Absent
                         ELSE IF s <= copy THEN x ELSE n BY DEF Forward
 <2>2. txn'[p].stage[c] = IF s = create THEN x ELSE IF s = copy
                          THEN Completed(txn[p].stage[c])
                          ELSE IF s = inst THEN Absent ELSE txn[p].stage[c] BY DEF PartMoves
 <2>3. s = copy => txn[p].stage[c] = x BY <1>1, <2>1
 <2> HIDE DEF s, n, x
 <2> QED BY <1>1, <2>1, <2>2, <2>3
<1>3. s > record => c \in txn[p].ids BY DEF Forward
<1>4. s = record => There(txn[p].stage[c]) BY <1>1 DEF Forward
<1>5. s + 1 > record => c \in txn'[p].ids BY <1>1, <1>3, <1>4 DEF PartMoves
<1>6. s + 1 > snap => c \in txn'[p].snap BY <1>1 DEF Forward, PartMoves
<1>7. s + 1 > 1 /\ s + 1 <= back => Before(p, c)' BY <1>1 DEF Forward, PartMoves, Before
<1>8. s + 1 > back /\ s + 1 <= inst => Aside(p, c)'
  BY <1>1 DEF Forward, PartMoves, Before, Aside
<1>9. s = inst => txn[p].stage[c] = n BY <1>1 DEF Forward
<1>10. s + 1 > inst => After(p, c)'
 <2>1. CASE s = inst
  <3>1. Aside(p, c) /\ dest'[c] = n /\ backup'[c] = backup[c] /\ txn'[p].orig[c] = txn[p].orig[c]
    BY <1>1, <1>9, <2>1 DEF Forward, PartMoves
  <3> QED BY <1>1, <1>5, <1>6, <2>1, <3>1 DEF Aside, After
 <2>2. CASE s > inst
  <3>1. After(p, c) BY <2>2 DEF Forward
  <3> QED BY <1>1, <2>2, <3>1 DEF After, PartMoves
 <2> QED BY <1>1, <2>1, <2>2
<1> HIDE DEF n, x
<1> QED BY <1>1, <1>2, <1>5, <1>6, <1>7, <1>8, <1>10 DEF Forward

(* What the effects are to the two parts. *)
LEMMA PartsMove ==
  ASSUME TypeOK, NEW p \in Procs, ScriptMove(p), ScriptEffect(p),
         job[p].step = 1 <=> txn[p].state = "none"
  PROVE  /\ PartMoves(p, "binary", 2, 3, 4, 8, 12, 18)
         /\ PartMoves(p, "skill", 5, 6, 7, 9, 15, 21)
<1>1. job[p].step \in 1..25 /\ "binary" \in Parts /\ "skill" \in Parts
  BY DEF ScriptMove, Parts
<1>2. CASE WriteEffect(p) BY <1>1, <1>2 DEF WriteEffect, PartMoves
<1>3. CASE VerifyEffect(p) BY <1>1, <1>3 DEF VerifyEffect, PartMoves
<1>4. ASSUME NEW c \in Parts, CreateEffect(p, c)
      PROVE  /\ PartMoves(p, "binary", 2, 3, 4, 8, 12, 18)
             /\ PartMoves(p, "skill", 5, 6, 7, 9, 15, 21)
  BY <1>1, <1>4 DEF CreateEffect, PartMoves, Journal0
<1>5. ASSUME NEW c \in Parts, CopyEffect(p, c)
      PROVE  /\ PartMoves(p, "binary", 2, 3, 4, 8, 12, 18)
             /\ PartMoves(p, "skill", 5, 6, 7, 9, 15, 21)
  BY <1>1, <1>5 DEF CopyEffect, PartMoves, Journal0
<1>6. ASSUME NEW c \in Parts, SnapshotEffect(p, c)
      PROVE  /\ PartMoves(p, "binary", 2, 3, 4, 8, 12, 18)
             /\ PartMoves(p, "skill", 5, 6, 7, 9, 15, 21)
  BY <1>1, <1>6 DEF SnapshotEffect, PartMoves, Journal0
<1>7. ASSUME NEW c \in Parts, BackUpEffect(p, c)
      PROVE  /\ PartMoves(p, "binary", 2, 3, 4, 8, 12, 18)
             /\ PartMoves(p, "skill", 5, 6, 7, 9, 15, 21)
  BY <1>1, <1>7 DEF BackUpEffect, PartMoves
<1>8. ASSUME NEW c \in Parts, InstallEffect(p, c)
      PROVE  /\ PartMoves(p, "binary", 2, 3, 4, 8, 12, 18)
             /\ PartMoves(p, "skill", 5, 6, 7, 9, 15, 21)
  BY <1>1, <1>8 DEF InstallEffect, PartMoves, Journal0
<1> QED BY <1>2, <1>3, <1>4, <1>5, <1>6, <1>7, <1>8 DEF ScriptEffect

(* The other installers do not run while p has the lock. *)
LEMMA OthersIdle ==
  ASSUME Base, NEW p \in Procs, Running(p), Same(p), NEW q \in Procs \ {p}
  PROVE  Work(q)'
<1>1. lock = p /\ LockHeld(q) BY DEF Base, LockHeld
<1>2. job'[q].in \in {"off", "wait"} BY <1>1 DEF LockHeld, Running, Same
<1> QED BY <1>2, IdleWork

(* A step of the script leaves Disk and Works. *)
LEMMA ScriptKeepsWork ==
  ASSUME IInv, NEW p \in Procs, ScriptStep(p)
  PROVE  Disk' /\ Works'
<1>1. /\ Base /\ TypeOK /\ Disk /\ Work(p) /\ Own(p) /\ ScriptMove(p) /\ ScriptEffect(p)
      /\ p # NoOne BY ScriptDoes DEF IInv, Base, Works, Work, Own
<1>2. Running(p) /\ Same(p) BY <1>1 DEF ScriptMove, Running, Stays
<1>3. /\ job[p].in = "script" /\ job[p].t = p /\ job[p].step \in 1..25
      /\ (job[p].step = 1 <=> ~InFlight(p))
      /\ txn[p].state \notin {"committed", "cleanup_pending"}
      /\ \A q \in Procs \ {p} : ~txn[q].dir BY <1>1 DEF Own, Turn, ScriptMove
<1>4. job[p].step = 1 <=> txn[p].state = "none" BY <1>3 DEF InFlight
<1>5. \A q \in Procs \ {p} : txn[q].state = "none" /\ txn'[q].state = "none"
  BY <1>1, <1>3 DEF Base, Housed, Journaled, ScriptMove
<1>6. /\ Forward(p, "binary", 2, 3, 4, 8, 12, 18)
      /\ Forward(p, "skill", 5, 6, 7, 9, 15, 21) BY <1>1, <1>3 DEF Work, Scripted
<1>7. /\ PartMoves(p, "binary", 2, 3, 4, 8, 12, 18)
      /\ PartMoves(p, "skill", 5, 6, 7, 9, 15, 21) BY <1>1, <1>4, PartsMove
<1>8. job[p].step = 1 => \A c \in Parts : backup[c] = Absent /\ Intact(dest[c]) /\ dest[c].by # p
 <2> SUFFICES ASSUME job[p].step = 1
     PROVE  \A c \in Parts : backup[c] = Absent /\ Intact(dest[c]) /\ dest[c].by # p OBVIOUS
 <2>1. \A q \in Procs : ~InFlight(q) /\ txn[q].state # "committed" BY <1>4, <1>5 DEF InFlight
 <2>2. \A c \in Parts : dest[c].by # p BY <1>1, <1>3 DEF Own, Untouched, Fresh
 <2> QED BY <1>1, <2>1, <2>2 DEF Disk, Settled, NoBackups
<1>9. /\ job[p].step < 25 => txn'[p].state \notin {"none", "committed", "cleanup_pending"}
      /\ job[p].step = 25 => txn'[p].state = "committed"
 <2>1. CASE WriteEffect(p) BY <1>3, <2>1 DEF WriteEffect
 <2>2. CASE txn'[p].state = txn[p].state /\ job[p].step # 1 /\ job[p].step # 25
   BY <1>3, <2>2 DEF InFlight
 <2>3. CASE VerifyEffect(p) BY <2>2, <2>3 DEF VerifyEffect
 <2>4. ASSUME NEW c \in Parts, CreateEffect(p, c) \/ CopyEffect(p, c) \/ SnapshotEffect(p, c)
                               \/ BackUpEffect(p, c) \/ InstallEffect(p, c)
       PROVE  txn'[p].state = txn[p].state /\ job[p].step # 1 /\ job[p].step # 25
   BY <2>4 DEF CreateEffect, CopyEffect, SnapshotEffect, BackUpEffect, InstallEffect, Journal0
 <2> QED BY <1>1, <2>1, <2>2, <2>3, <2>4 DEF ScriptEffect
<1>10. New(p)' = New(p) BY <1>2 DEF New, Same
<1>11. ASSUME job[p].step < 25
       PROVE  Disk' /\ Work(p)'
 <2>1. /\ Forward(p, "binary", 2, 3, 4, 8, 12, 18)'
       /\ Forward(p, "skill", 5, 6, 7, 9, 15, 21)'
  <3>1. "binary" \in Parts /\ "skill" \in Parts BY DEF Parts
  <3>2. job[p].step = 1 => backup["binary"] = Absent /\ backup["skill"] = Absent BY <1>8, <3>1
  <3>3. Forward(p, "binary", 2, 3, 4, 8, 12, 18)'
    BY SMTT(30), <1>1, <1>6, <1>7, <1>11, <3>1, <3>2, ForwardKeeps
  <3>4. Forward(p, "skill", 5, 6, 7, 9, 15, 21)'
    BY SMTT(30), <1>1, <1>6, <1>7, <1>11, <3>1, <3>2, ForwardKeeps
  <3> QED BY <3>3, <3>4
 <2>2. job'[p].in = "script" /\ job'[p].step = job[p].step + 1 BY <1>1, <1>11 DEF ScriptMove
 <2>3. Work(p)' BY <2>1, <2>2 DEF Work, Scripted, Undone, Finished
 <2>4. InFlight(p)' /\ ~(txn'[p].state = "committed") BY <1>9, <1>11 DEF InFlight
 <2>5. \A q \in Procs \ {p} : ~InFlight(q)' /\ txn'[q].state # "committed"
   BY <1>5 DEF InFlight
 <2>6. \A c \in Parts : /\ Before(p, c)' \/ Aside(p, c)' \/ After(p, c)'
  <3>1. \A c \in Parts : c = "binary" \/ c = "skill" BY DEF Parts
  <3>2. /\ Before(p, "binary")' \/ Aside(p, "binary")' \/ After(p, "binary")'
        /\ Before(p, "skill")' \/ Aside(p, "skill")' \/ After(p, "skill")'
    BY <1>3, <2>1, <2>2 DEF Forward
  <3> QED BY <3>1, <3>2
 <2>7. \A c \in Parts : Intact(txn'[p].orig[c]) /\ txn'[p].orig[c].by # p
  <3>1. ASSUME NEW c \in Parts
        PROVE  txn'[p].orig[c] = IF job[p].step = 1 THEN dest[c] ELSE txn[p].orig[c]
    BY <1>7 DEF PartMoves, Parts
  <3>2. job[p].step # 1 => \A c \in Parts : Intact(txn[p].orig[c]) /\ txn[p].orig[c].by # p
    BY <1>1, <1>3 DEF Disk, Undoable
  <3>3. CASE job[p].step = 1 BY <1>8, <3>1, <3>3
  <3>4. CASE job[p].step # 1 BY <3>1, <3>2, <3>4
  <3> QED BY <3>3, <3>4
 <2>8. Undoable(p)' BY <2>6, <2>7 DEF Undoable, Intact
 <2>9. Disk' BY <2>4, <2>5, <2>8 DEF Disk, Settled, NoBackups, Undoable, Finishable
 <2> QED BY <2>3, <2>9
<1>12. ASSUME job[p].step = 25
       PROVE  Disk' /\ Work(p)'
 <2>1. \A c \in Parts : After(p, c) BY <1>6, <1>12 DEF Forward, Parts
 <2>2. /\ job'[p].in = "finish" /\ job'[p].part = "binary" /\ txn'[p].state = "committed"
   BY <1>1, <1>9, <1>12 DEF ScriptMove
 <2>3. /\ \A c \in Parts : /\ dest'[c] = dest[c] /\ backup'[c] = backup[c]
                           /\ txn'[p].orig[c] = txn[p].orig[c]
       /\ txn[p].ids \subseteq txn'[p].ids /\ txn[p].snap \subseteq txn'[p].snap
   BY <1>7, <1>12 DEF PartMoves, Parts
 <2>4. New(p).whole BY DEF New
 <2>5. Finishable(p)' BY <1>10, <2>1, <2>3 DEF Finishable, After, Had, There
 <2>6. \A q \in Procs \ {p} : ~InFlight(q)' /\ txn'[q].state # "committed"
   BY <1>5 DEF InFlight
 <2>7. ~InFlight(p)' BY <2>2 DEF InFlight
 <2>8. Settled' BY <2>1, <2>3, <2>4 DEF Settled, After, Intact
 <2>9. Disk' BY <2>2, <2>5, <2>6, <2>7, <2>8 DEF Disk, NoBackups, Undoable, Finishable
 <2>10. \A c \in Parts : dest'[c] = New(p)' BY <1>10, <2>1, <2>3 DEF After
 <2>11. Work(p)' BY <2>2, <2>7, <2>10 DEF Work, Scripted, Undone, Finished
 <2> QED BY <2>9, <2>11
<1>13. \A q \in Procs \ {p} : Work(q)' BY <1>1, <1>2, OthersIdle
<1>14. job[p].step < 25 \/ job[p].step = 25 BY <1>3
<1> QED BY <1>11, <1>12, <1>13, <1>14 DEF Works, Work

-----------------------------------------------------------------------------
(* While p undoes t: what it knows, and that t is the only journal. *)
Undoes(p, t) ==
  /\ job[p].in = "undo" /\ job[p].t = t /\ t \in Procs /\ InFlight(t)
  /\ \A q \in Procs \ {t} : txn[q].state = "none"
  /\ \A c \in Parts :
       /\ Intact(txn[t].orig[c]) /\ txn[t].orig[c].by # t
       /\ Before(t, c) \/ Aside(t, c) \/ After(t, c) \/ Removing(t, c)
  /\ job[p].half => job[p].part = "skill" /\ Removing(t, "skill")
  /\ job[p].part = "skill" /\ ~job[p].failed => Before(t, "binary")
  /\ t = p => job[p].trap

(* What the invariant says of a transaction that is being undone. *)
LEMMA UndoKnows ==
  ASSUME IInv, NEW p \in Procs, job[p].in = "undo"
  PROVE  Undoes(p, job[p].t) /\ Running(p) /\ TypeOK /\ Base
<1>1. Base /\ Turn(p) /\ Disk /\ Undone(p) BY DEF IInv, Base, Works
<1>2. job[p].t \in Procs /\ InFlight(job[p].t) /\ (job[p].t = p => job[p].trap)
  BY <1>1 DEF Turn
<1>3. \A q \in Procs \ {job[p].t} : txn[q].state = "none"
  BY <1>1, <1>2 DEF Base, OneJournal, Journaled, InFlight
<1> QED BY <1>1, <1>2, <1>3 DEF Undoes, Disk, Undoable, Undone, Running, Base

(* What rollback has to establish again. *)
LEMMA UndoFrom ==
  ASSUME IInv, NEW p \in Procs, NEW t \in Procs, Undoes(p, t), Same(p),
         \A q \in Procs : txn'[q].state = txn[q].state /\ txn'[q].orig = txn[q].orig,
         \A c \in Parts : Before(t, c)' \/ Aside(t, c)' \/ After(t, c)' \/ Removing(t, c)',
         Work(p)'
  PROVE  Disk' /\ Works'
<1>1. Running(p) /\ Base BY DEF Undoes, Running, IInv
<1>2. InFlight(t)' /\ \A q \in Procs \ {t} : ~InFlight(q)' /\ txn'[q].state # "committed"
  BY DEF Undoes, InFlight
<1>3. Undoable(t)' BY DEF Undoes, Undoable, Intact
<1>4. Finishable(t)' BY <1>2 DEF InFlight, Finishable
<1>5. Disk' BY <1>2, <1>3, <1>4 DEF Disk, Settled, NoBackups, Undoable, Finishable
<1>6. \A q \in Procs \ {p} : Work(q)' BY <1>1, OthersIdle
<1> QED BY <1>5, <1>6 DEF Works, Work

(* Parts rollback leaves alone stay where they are. *)
LEMMA PartStays ==
  ASSUME NEW t \in Procs, NEW c \in Parts, dest'[c] = dest[c], backup'[c] = backup[c],
         txn'[t].orig = txn[t].orig, txn'[t].ids = txn[t].ids, txn'[t].snap = txn[t].snap,
         job'[t].ver = job[t].ver
  PROVE  /\ Before(t, c) => Before(t, c)'
         /\ Aside(t, c) => Aside(t, c)'
         /\ After(t, c) => After(t, c)'
         /\ Removing(t, c) => Removing(t, c)'
<1>1. New(t)' = New(t) /\ Torn(New(t))' = Torn(New(t)) BY DEF New, Torn
<1> QED BY <1>1 DEF Before, Aside, After, Removing

(* Removing what was installed leaves Disk and Works. *)
LEMMA UndoRemoveKeeps ==
  ASSUME IInv, NEW p \in Procs, UndoRemove(p)
  PROVE  Disk' /\ Works'
<1>a. /\ TypeOK /\ job[p].in = "undo" /\ job[p].part \in Parts
      /\ UndoRemoveEffect(p, job[p].t, job[p].part) BY UndoRemoveDoes DEF IInv, Base
<1>b. Undoes(p, job[p].t) /\ job[p].t \in Procs BY <1>a, UndoKnows DEF Undoes
<1>c. PICK t \in Procs, c \in Parts : t = job[p].t /\ c = job[p].part BY <1>a, <1>b
<1>1. TypeOK /\ job[p].in = "undo" /\ UndoRemoveEffect(p, t, c) BY <1>a, <1>c
<1>2. Undoes(p, t) BY <1>b, <1>c
<1>3. Same(p) /\ job'[t].ver = job[t].ver /\ job'[p].t = t /\ txn' = txn /\ backup' = backup
  BY <1>1, <1>c DEF UndoRemoveEffect, Keeps, Stays, Same
<1>4. /\ New(t) \in Items /\ Torn(New(t)).whole = FALSE /\ New(t)' = New(t)
      /\ Torn(New(t))' = Torn(New(t)) BY <1>1, <1>2, <1>3, NewIs DEF New, Torn
<1>5. After(t, c)
 <2>1. There(dest[c]) /\ dest[c].by = t /\ dest[c].whole
   BY <1>1 DEF UndoRemoveEffect, Replaced, MatchesSnapshot
 <2>2. ~Before(t, c) /\ ~Aside(t, c) /\ ~Removing(t, c)
   BY <1>1, <1>2, <1>4, <2>1 DEF Undoes, Before, Aside, Removing, There
 <2> QED BY <1>1, <1>2, <2>2 DEF Undoes
<1>6. \A d \in Parts \ {c} : dest'[d] = dest[d] /\ backup'[d] = backup[d]
  BY <1>1, <1>3 DEF UndoRemoveEffect, OnlyPart
<1>7. c = "binary" => Aside(t, c)' /\ ~job'[p].half
  BY <1>1, <1>3, <1>5 DEF UndoRemoveEffect, After, Aside
<1>8. c = "skill" => Removing(t, c)'
  BY <1>1, <1>3, <1>4, <1>5 DEF UndoRemoveEffect, After, Removing
<1>9. \A d \in Parts : Before(t, d)' \/ Aside(t, d)' \/ After(t, d)' \/ Removing(t, d)'
 <2>1. ASSUME NEW d \in Parts \ {c}
       PROVE  Before(t, d)' \/ Aside(t, d)' \/ After(t, d)' \/ Removing(t, d)'
   BY <1>2, <1>3, <1>6, PartStays DEF Undoes
 <2> QED BY <1>1, <1>7, <1>8, <2>1 DEF Parts
<1>10. Work(p)'
 <2>1. /\ job'[p].in = "undo" /\ job'[p].part = c /\ job'[p].failed = job[p].failed
       /\ job[p].part = c /\ c \in {"binary", "skill"}
   BY <1>1, <1>c DEF UndoRemoveEffect, Parts
 <2>2. c = "skill" /\ ~job[p].failed => Before(t, "binary")'
  <3>1. ASSUME c = "skill", ~job[p].failed PROVE Before(t, "binary")'
   <4>1. Before(t, "binary") /\ "binary" \in Parts \ {c} BY <1>2, <2>1, <3>1 DEF Undoes, Parts
   <4> QED BY <1>2, <1>3, <1>6, <4>1, PartStays
  <3> QED BY <3>1
 <2>3. c = "binary" => ~job'[p].half BY <1>7
 <2>4. Undone(p)'
  <3>1. job'[p].half => job'[p].part = "skill" /\ Removing(t, "skill")' BY <1>8, <2>1, <2>3
  <3>2. job'[p].part = "skill" /\ ~job'[p].failed => Before(t, "binary")' BY <2>1, <2>2
  <3> QED BY <1>3, <3>1, <3>2 DEF Undone, Before, Removing, New
 <2> QED BY <2>1, <2>4 DEF Work, Scripted, Finished
<1> QED BY <1>2, <1>3, <1>9, <1>10, UndoFrom

(* So does the rest of a removal. *)
LEMMA UndoRemovedKeeps ==
  ASSUME IInv, NEW p \in Procs, UndoRemoved(p)
  PROVE  Disk' /\ Works'
<1>1. TypeOK /\ job[p].in = "undo" /\ job[p].half /\ UndoRemovedEffect(p)
  BY UndoRemovedDoes DEF IInv, Base
<1>a. PICK t \in Procs : t = job[p].t BY <1>1, UndoKnows DEF Undoes
<1>2. Undoes(p, t) BY <1>1, <1>a, UndoKnows
<1>3. /\ Same(p) /\ job'[t].ver = job[t].ver /\ job'[p].t = t /\ txn' = txn /\ backup' = backup
      /\ job'[p].in = "undo" /\ job'[p].part = job[p].part /\ job'[p].failed = job[p].failed
      /\ ~job'[p].half BY <1>1, <1>a DEF UndoRemovedEffect, Keeps, Stays, Same
<1>4. \A d \in Parts \ {"skill"} : dest'[d] = dest[d] /\ backup'[d] = backup[d]
  BY <1>1, <1>3 DEF UndoRemovedEffect, OnlyPart
<1>5. job[p].part = "skill" /\ Removing(t, "skill") BY <1>1, <1>2 DEF Undoes
<1>6. Aside(t, "skill")' BY <1>1, <1>3, <1>5 DEF UndoRemovedEffect, Removing, Aside
<1>7. \A d \in Parts : Before(t, d)' \/ Aside(t, d)' \/ After(t, d)' \/ Removing(t, d)'
 <2>1. ASSUME NEW d \in Parts \ {"skill"}
       PROVE  Before(t, d)' \/ Aside(t, d)' \/ After(t, d)' \/ Removing(t, d)'
   BY <1>2, <1>3, <1>4, PartStays DEF Undoes
 <2> QED BY <1>6, <2>1
<1>8. ~job[p].failed => Before(t, "binary")'
 <2>1. ASSUME ~job[p].failed PROVE Before(t, "binary")'
  <3>1. Before(t, "binary") /\ "binary" \in Parts \ {"skill"}
    BY <1>2, <1>5, <2>1 DEF Undoes, Parts
  <3> QED BY <1>2, <1>3, <1>4, <3>1, PartStays
 <2> QED BY <2>1
<1>9. Work(p)' BY <1>3, <1>8 DEF Work, Scripted, Undone, Finished, Before
<1> QED BY <1>2, <1>3, <1>7, <1>9, UndoFrom

(* Moving the backup back leaves Disk and Works. *)
LEMMA UndoRestoreKeeps ==
  ASSUME IInv, NEW p \in Procs, UndoRestore(p)
  PROVE  Disk' /\ Works'
<1>a. /\ TypeOK /\ job[p].part \in Parts /\ Undoing(p)
      /\ UndoRestoreEffect(job[p].t, job[p].part) BY UndoRestoreDoes DEF IInv, Base
<1>b. Undoes(p, job[p].t) /\ job[p].t \in Procs BY <1>a, UndoKnows DEF Undoes, Undoing
<1>c. PICK t \in Procs, c \in Parts : t = job[p].t /\ c = job[p].part BY <1>a, <1>b
<1>1. TypeOK /\ Undoing(p) /\ UndoRestoreEffect(t, c) BY <1>a, <1>c
<1>2. Undoes(p, t) BY <1>b, <1>c
<1>3. /\ Same(p) /\ job' = job /\ txn' = txn
      /\ OnlyPart(dest, dest', c) /\ OnlyPart(backup, backup', c)
      /\ dest'[c] = backup[c] /\ backup'[c] = Absent BY <1>1 DEF UndoRestoreEffect, Same
<1>4. Aside(t, c)
 <2>1. Had(t, c) /\ There(backup[c]) /\ dest[c] = Absent
   BY <1>1 DEF UndoRestoreEffect, OriginalAt, There
 <2>2. There(New(t)) /\ There(Torn(New(t))) BY <1>1, <1>2, NewIs
 <2> QED BY <1>1, <1>2, <2>1, <2>2 DEF Undoes, Before, After, Removing, There
<1>5. Before(t, c)' BY <1>3, <1>4 DEF Aside, Before
<1>6. \A d \in Parts \ {c} : dest'[d] = dest[d] /\ backup'[d] = backup[d] BY <1>3 DEF OnlyPart
<1>7. \A d \in Parts : Before(t, d)' \/ Aside(t, d)' \/ After(t, d)' \/ Removing(t, d)'
 <2>1. ASSUME NEW d \in Parts \ {c}
       PROVE  Before(t, d)' \/ Aside(t, d)' \/ After(t, d)' \/ Removing(t, d)'
   BY <1>2, <1>3, <1>6, PartStays DEF Undoes
 <2> QED BY <1>5, <2>1
<1>8. job[p].part = "skill" /\ ~job[p].failed => Before(t, "binary")'
 <2>1. ASSUME job[p].part = "skill", ~job[p].failed PROVE Before(t, "binary")'
  <3>1. Before(t, "binary") /\ "binary" \in Parts \ {c} BY <1>2, <1>c, <2>1 DEF Undoes, Parts
  <3> QED BY <1>2, <1>3, <1>6, <3>1, PartStays
 <2> QED BY <2>1
<1>9. Work(p)'
 <2>1. job'[p].in = "undo" /\ ~job'[p].half /\ job'[p].t = t BY <1>1, <1>3, <1>c DEF Undoing
 <2> QED BY <1>3, <1>8, <2>1 DEF Work, Scripted, Undone, Finished, Before
<1> QED BY <1>2, <1>3, <1>7, <1>9, UndoFrom

(* Once a part is restored it is as it was before. *)
LEMMA RestoredIsBefore ==
  ASSUME TypeOK, NEW p \in Procs, NEW t \in Procs, NEW c \in Parts, Undoes(p, t), Restored(t, c)
  PROVE  Before(t, c)
<1>1. There(New(t)) /\ There(Torn(New(t))) BY NewIs
<1>2. backup[c] = Absent BY DEF Restored, There
<1>3. CASE Before(t, c) BY <1>3
<1>4. CASE Aside(t, c) BY <1>2, <1>4 DEF Aside, Before
<1>5. CASE After(t, c) \/ Removing(t, c)
 <2>1. ~Had(t, c) /\ There(dest[c]) BY <1>1, <1>2, <1>5 DEF After, Removing, Had, There
 <2> QED BY <2>1 DEF Restored
<1> QED BY <1>3, <1>4, <1>5 DEF Undoes

(* The end of a part of the rollback leaves Disk and Works. *)
LEMMA UndoPartKeeps ==
  ASSUME IInv, NEW p \in Procs, UndoStage(p) \/ UndoRefused(p)
  PROVE  Disk' /\ Works'
<1>a. TypeOK /\ job[p].in = "undo" /\ Undoes(p, job[p].t) /\ job[p].t \in Procs
  BY UndoKnows DEF Undoes, UndoStage, UndoRefused, Undoing
<1>b. /\ job[p].part \in Parts
      /\ UndoStageEffect(p, job[p].t, job[p].part) \/ UndoRefusedEffect(p, job[p].t, job[p].part)
  BY <1>a, UndoStageDoes, UndoRefusedDoes
<1>c. PICK t \in Procs, c \in Parts : t = job[p].t /\ c = job[p].part BY <1>a, <1>b
<1>1. TypeOK /\ job[p].in = "undo" /\ Undoes(p, t) BY <1>a, <1>c
<1>2. UndoStageEffect(p, t, c) \/ UndoRefusedEffect(p, t, c) BY <1>b, <1>c
<1>3. /\ dest' = dest /\ backup' = backup
      /\ \A q \in Procs : /\ txn'[q].state = txn[q].state /\ txn'[q].orig = txn[q].orig
                          /\ txn'[q].ids = txn[q].ids /\ txn'[q].snap = txn[q].snap
  BY <1>2 DEF UndoStageEffect, UndoRefusedEffect
<1>4. \/ PartDone(p, TRUE) /\ Restored(t, c)
      \/ PartDone(p, FALSE) BY <1>2 DEF UndoStageEffect, UndoRefusedEffect
<1>5. Same(p) /\ job'[t].ver = job[t].ver
  BY <1>1, <1>4 DEF PartDone, Keeps, Stays, Exits, Same
<1>6. \A d \in Parts : Before(t, d) => Before(t, d)' BY <1>1, <1>3, <1>5, PartStays
<1>7. \A d \in Parts : Before(t, d)' \/ Aside(t, d)' \/ After(t, d)' \/ Removing(t, d)'
  BY <1>1, <1>3, <1>5, PartStays DEF Undoes
<1>8. Work(p)'
 <2>1. CASE Exits(p, FALSE) BY <2>1, IdleWork DEF Exits
 <2>2. CASE /\ Keeps(p) /\ job[p].part = "binary" /\ job'[p].part = "skill"
            /\ job'[p].failed = TRUE /\ job'[p].in = "undo" /\ ~job'[p].half
   BY <2>2 DEF Work, Scripted, Undone, Finished
 <2>3. CASE /\ Keeps(p) /\ job[p].part = "binary" /\ job'[p].part = "skill" /\ Restored(t, c)
            /\ job'[p].in = "undo" /\ ~job'[p].half
  <3>1. Before(t, "binary")' BY <1>1, <1>6, <1>c, <2>3, RestoredIsBefore
  <3>2. job'[p].t = t BY <1>c, <2>3 DEF Keeps
  <3> QED BY <2>3, <3>1, <3>2 DEF Work, Scripted, Undone, Finished, Before
 <2>4. CASE /\ Keeps(p) /\ job[p].part = "skill" /\ Restored(t, c) /\ ~job[p].failed
            /\ job'[p].in = "clean"
  <3>1. Before(t, "binary") /\ Before(t, "skill")
    BY <1>1, <1>c, <2>4, RestoredIsBefore DEF Undoes
  <3>2. \A d \in Parts : Before(t, d)' BY <1>6, <3>1 DEF Parts
  <3>3. job'[p].t = t /\ job'[p].trap = job[p].trap BY <1>c, <2>4 DEF Keeps
  <3>4. txn'[t].state \notin {"none", "committed"} /\ (t = p => job[p].trap)
    BY <1>1, <1>3 DEF Undoes, InFlight
  <3> QED BY <2>4, <3>2, <3>3, <3>4 DEF Work, Scripted, Undone, Finished, Before
 <2> QED BY <1>4, <2>1, <2>2, <2>3, <2>4 DEF PartDone
<1> QED BY <1>1, <1>3, <1>5, <1>7, <1>8, UndoFrom

(* Finalisation removes the backups and nothing else. *)
LEMMA FinishKeeps ==
  ASSUME IInv, NEW p \in Procs, FinishBackup(p)
  PROVE  Disk' /\ Works'
<1>a. /\ TypeOK /\ Base /\ Disk /\ Finished(p) /\ job[p].part \in Parts
      /\ FinishEffect(p, job[p].t, job[p].part) BY FinishDoes DEF IInv, Base, Works
<1>b. job[p].in = "finish" /\ job[p].t \in Procs /\ txn[job[p].t].state = "committed"
  BY <1>a DEF FinishEffect, Base, Turn
<1>c. PICK t \in Procs, c \in Parts : t = job[p].t /\ c = job[p].part BY <1>a, <1>b
<1>1. FinishEffect(p, t, c) /\ txn[t].state = "committed" /\ Running(p)
  BY <1>a, <1>b, <1>c DEF Running
<1>2. \A q \in Procs \ {t} : txn[q].state = "none"
  BY <1>a, <1>1 DEF Base, OneJournal, Journaled
<1>3. /\ Same(p) /\ dest' = dest /\ txn' = txn /\ job'[p].t = t /\ job'[p].trap = job[p].trap
      /\ \A q \in Procs : New(q)' = New(q)
  BY <1>1, <1>c DEF FinishEffect, Keeps, Stays, Same, New
<1>4. \A d \in Parts \ {c} : backup'[d] = backup[d] BY <1>1 DEF FinishEffect, OnlyPart
<1>5. \A d \in Parts : There(backup'[d]) => There(backup[d]) /\ backup'[d].by = backup[d].by
 <2>1. There(backup'[c]) => There(backup[c]) /\ backup'[c].by = backup[c].by
  <3>1. CASE backup'[c] = Absent BY <3>1 DEF There
  <3>2. CASE backup'[c] = Torn(backup[c]) /\ backup[c].whole
   <4>1. backup[c] \in Items BY <1>a, Types
   <4>2. backup[c] # Absent BY <3>2 DEF Absent
   <4> QED BY <3>2, <4>1, <4>2, WholeIs DEF Torn, There
  <3> QED BY <1>1, <3>1, <3>2 DEF FinishEffect
 <2> QED BY <1>4, <2>1
<1>6. Finishable(t) BY <1>a DEF Disk
<1>7. Finishable(t)' BY <1>1, <1>3, <1>5, <1>6 DEF Finishable, Had, There
<1>8. Settled'
 <2>1. \A d \in Parts : dest'[d].whole BY <1>1, <1>3, <1>6 DEF Finishable, New
 <2> QED BY <2>1 DEF Settled, Intact
<1>9. Disk'
  BY <1>1, <1>2, <1>3, <1>7, <1>8 DEF Disk, NoBackups, Undoable, Finishable, InFlight
<1>10. Work(p)'
 <2>1. \/ c = "skill" /\ job' = job /\ backup'["binary"] = backup["binary"]
       \/ c = "binary" /\ backup'["binary"] = Absent /\ job'[p].in = "finish"
       \/ /\ c = "skill" /\ backup'["skill"] = Absent /\ backup'["binary"] = backup["binary"]
          /\ job'[p].in = "clean"
  <3>1. c = "binary" \/ c = "skill" BY DEF Parts
  <3>2. c = "skill" => backup'["binary"] = backup["binary"] BY <1>4 DEF Parts
  <3> QED BY <1>1, <3>1, <3>2 DEF FinishEffect
 <2>2. c = "skill" => backup["binary"] = Absent BY <1>a, <1>b, <1>c DEF Finished
 <2>3. t = p /\ ~job[p].trap => ~InFlight(p) /\ \A d \in Parts : dest[d] = New(p)
   BY <1>a, <1>b, <1>c DEF Finished
 <2>4. job'[p].in \in {"finish", "clean"} BY <1>b, <2>1
 <2>5. backup'["binary"] = Absent /\ (job'[p].in = "clean" => backup'["skill"] = Absent)
   BY <1>b, <2>1, <2>2
 <2>6. ~InFlight(t) /\ txn[t].state # "none" BY <1>1 DEF InFlight
 <2>7. Finished(p)'
  <3>1. job'[p].in = "finish" /\ job'[p].part = "skill" => backup'["binary"] = Absent BY <2>5
  <3>2. job'[p].in = "clean" => \A d \in Parts : backup'[d] = Absent BY <2>5 DEF Parts
  <3>3. job'[p].t = p /\ ~job'[p].trap => ~InFlight(p)' /\ \A d \in Parts : dest'[d] = New(p)'
    BY <1>3, <2>3 DEF InFlight
  <3>4. ~InFlight(t)' /\ txn'[t].state # "none" BY <1>3, <2>6 DEF InFlight
  <3> QED BY <1>3, <3>1, <3>2, <3>3, <3>4 DEF Finished, InFlight
 <2> QED BY <2>4, <2>7 DEF Work, Scripted, Undone
<1>11. \A q \in Procs \ {p} : Work(q)' BY <1>a, <1>1, <1>3, OthersIdle
<1> QED BY <1>9, <1>10, <1>11 DEF Works, Work

(* Cleanup starts when there is nothing left to undo or to finish. *)
LEMMA CleanKeeps ==
  ASSUME IInv, NEW p \in Procs, CleanStep(p)
  PROVE  Disk' /\ Works'
<1>a. TypeOK /\ Base /\ Disk /\ Finished(p) /\ Turn(p) BY DEF IInv, Base, Works
<1>b. job[p].in = "clean"
  BY DEF CleanStep, CleanMark, CleanSnapshot, CleanManifest, CleanDirectory
<1>c. PICK t \in Procs : t = job[p].t BY <1>a, <1>b DEF Turn
<1>1. CleanEffect(p, t) /\ Running(p) BY <1>a, <1>b, <1>c, CleanDoes DEF Running
<1>2. dest' = dest /\ backup' = backup /\ OnlyTxn(t)
  BY <1>1 DEF CleanEffect, CleanMarkEffect, CleanSnapshotEffect, CleanManifestEffect,
     CleanDirectoryEffect
<1>3. Same(p)
  BY <1>1 DEF CleanEffect, CleanMarkEffect, CleanSnapshotEffect, CleanManifestEffect,
     CleanDirectoryEffect, Keeps, Stays, Exits, Same
<1>4. \A q \in Procs : New(q)' = New(q) BY <1>3 DEF New, Same
<1>5. \A q \in Procs \ {p} : Work(q)' BY <1>a, <1>1, <1>3, OthersIdle
<1>6. /\ InFlight(t) => \A c \in Parts : Before(t, c)
      /\ txn[t].state = "committed" => \A c \in Parts : backup[c] = Absent
      /\ txn[t].state = "none" => \A q \in Procs : ~Journaled(q)
      /\ t = p /\ ~job[p].trap => ~InFlight(p) /\ \A c \in Parts : dest[c] = New(p)
  BY <1>a, <1>b, <1>c DEF Finished
<1>7. CASE CleanMarkEffect(t)
 <2>1. /\ txn'[t].state = "cleanup_pending" /\ txn[t].state \notin {"cleanup_pending", "none"}
       /\ job' = job BY <1>7 DEF CleanMarkEffect
 <2>2. \A q \in Procs \ {t} : txn'[q].state = "none" /\ txn[q].state = "none"
   BY <1>a, <1>2, <2>1 DEF Base, OneJournal, Journaled, OnlyTxn
 <2>3. \A q \in Procs : ~InFlight(q)' /\ txn'[q].state # "committed"
   BY <2>1, <2>2 DEF InFlight
 <2>4. InFlight(t) \/ txn[t].state = "committed" BY <2>1 DEF InFlight
 <2>5. \A c \in Parts : Intact(dest[c]) /\ backup[c] = Absent
  <3>1. CASE InFlight(t) BY <1>a, <1>6, <3>1 DEF Disk, Undoable, Before
  <3>2. CASE txn[t].state = "committed"
   <4>1. \A c \in Parts : dest[c] = New(t) /\ backup[c] = Absent
     BY <1>a, <1>6, <3>2 DEF Disk, Finishable
   <4>2. New(t).whole BY DEF New
   <4> QED BY <4>1, <4>2 DEF Intact
  <3> QED BY <2>4, <3>1, <3>2
 <2>6. Disk'
   BY <1>2, <2>3, <2>5 DEF Disk, Settled, NoBackups, Undoable, Finishable, Intact, There
 <2>7. Work(p)'
  <3>1. job'[p].in = "clean" /\ job'[p].t = t /\ job'[p].trap = job[p].trap
    BY <1>b, <1>c, <2>1
  <3>2. job'[p].t = p /\ ~job'[p].trap => ~InFlight(p)' /\ \A c \in Parts : dest'[c] = New(p)'
    BY <1>2, <1>4, <1>6, <2>3, <3>1
  <3> QED BY <2>1, <2>3, <3>1, <3>2 DEF Work, Scripted, Undone, Finished, InFlight
 <2> QED BY <1>5, <2>6, <2>7 DEF Works, Work
<1>8. CASE CleanSnapshotEffect(t) \/ CleanManifestEffect(t) \/ CleanDirectoryEffect(p, t)
 <2>1. /\ txn[t].state \in {"cleanup_pending", "none"} /\ txn'[t].state \in {"cleanup_pending", "none"}
   BY <1>8 DEF CleanSnapshotEffect, CleanManifestEffect, CleanDirectoryEffect
 <2>2. \A q \in Procs : /\ InFlight(q)' <=> InFlight(q)
                        /\ txn'[q].state = "committed" <=> txn[q].state = "committed"
                        /\ InFlight(q) \/ txn[q].state = "committed" => q # t
   BY <1>2, <2>1 DEF OnlyTxn, InFlight
 <2>3. SameDisk BY <1>2, <1>3, <2>2 DEF SameDisk, OnlyTxn, Same
 <2>4. Disk' BY <1>a, <2>3, SameDiskKeeps
 <2>5. Work(p)'
  <3>1. CASE CleanDirectoryEffect(p, t) BY <3>1, IdleWork DEF CleanDirectoryEffect, Exits
  <3>2. CASE CleanSnapshotEffect(t) \/ CleanManifestEffect(t)
   <4>1. /\ job' = job /\ txn[t].state = "cleanup_pending"
         /\ txn'[t].state = "none" \/ txn'[t].state = "cleanup_pending"
     BY <3>2 DEF CleanSnapshotEffect, CleanManifestEffect
   <4>2. \A q \in Procs \ {t} : txn'[q].state = "none"
     BY <1>a, <1>2, <4>1 DEF Base, OneJournal, Journaled, OnlyTxn
   <4>3. txn'[t].state = "none" => \A q \in Procs : ~Journaled(q)' BY <4>2 DEF Journaled
   <4>4. job'[p].in = "clean" /\ job'[p].t = t /\ job'[p].trap = job[p].trap
     BY <1>b, <1>c, <4>1
   <4>5. ~InFlight(t)' /\ txn'[t].state # "committed" BY <4>1 DEF InFlight
   <4>6. job'[p].t = p /\ ~job'[p].trap => ~InFlight(p)' /\ \A c \in Parts : dest'[c] = New(p)'
     BY <1>2, <1>4, <1>6, <2>2, <4>4
   <4> QED BY <4>3, <4>4, <4>5, <4>6 DEF Work, Scripted, Undone, Finished
  <3> QED BY <1>8, <3>1, <3>2
 <2> QED BY <1>5, <2>4, <2>5 DEF Works, Work
<1> QED BY <1>1, <1>7, <1>8 DEF CleanEffect

(* No step breaks Disk or Works. *)
LEMMA NextWork ==
  ASSUME IInv, [Next]_vars
  PROVE  Disk' /\ Works'
<1>1. ASSUME dest' = dest, backup' = backup, txn' = txn, job' = job PROVE Disk' /\ Works'
 <2>1. SameDisk BY <1>1 DEF SameDisk, InFlight
 <2>2. \A q \in Procs : SameWork(q) /\ SameTxn(q) BY <1>1 DEF SameWork, SameTxn
 <2>3. \A q \in Procs : Work(q)' BY <1>1, <2>2, SameWorkKeeps DEF IInv, Works, Work
 <2> QED BY <2>1, <2>3, SameDiskKeeps DEF IInv, Works, Work
<1>2. ASSUME NEW p \in Procs, Updater(p) \/ Installer(p) \/ Fail(p) \/ KillInstaller(p)
                                \/ KillUpdater(p)
      PROVE  Disk' /\ Works'
 <2>1. CASE UpdaterSteps(p) BY <2>1, UpdaterKeepsWork
 <2>2. CASE ScriptStep(p) BY <2>2, ScriptKeepsWork
 <2>3. CASE RoutineStep(p)
   BY <2>3, UndoRemoveKeeps, UndoRemovedKeeps, UndoRestoreKeeps, UndoPartKeeps, FinishKeeps,
      CleanKeeps DEF RoutineStep
 <2>4. CASE Recover(p) \/ Begin(p) BY <2>4, RecoverKeepsWork, BeginKeepsWork
 <2>5. CASE Fail(p) \/ Cancel(p)
  <3>1. PICK left \in BOOLEAN, canceled \in BOOLEAN : Failing(p, left, canceled)
    BY <2>5 DEF Fail, Cancel, Leaves
  <3>2. dest' = dest /\ backup' = backup BY <2>5 DEF Fail, Cancel
  <3> QED BY <3>1, <3>2, FailingKeepsWork
 <2>6. CASE KillInstaller(p) BY <2>6, KillKeepsWork
 <2> QED BY <1>2, <2>1, <2>2, <2>3, <2>4, <2>5, <2>6
         DEF Updater, Installer, UpdaterSteps, ScriptStep, RoutineStep, CleanStep
<1>3. CASE PowerLoss BY <1>3, PowerLossKeepsWork
<1>4. CASE Publish BY <1>1, <1>4 DEF Publish, disk
<1>5. CASE UNCHANGED vars BY <1>1, <1>5 DEF vars
<1> QED BY <1>2, <1>3, <1>4, <1>5 DEF Next

(***************************************************************************)
(* Reports.                                                                *)
(***************************************************************************)

(* Without the lock there is nothing to rely on. *)
LEMMA IdleReports ==
  ASSUME Base', NEW q \in Procs, lock' # q
  PROVE  Good(q)' /\ Newer(q)'
<1>1. Good(q)' BY DEF Good
<1>2. LockHeld(q)' /\ Shape(q)' BY DEF Base
<1>3. ~HasLock(q)' /\ ~Running(q)' BY <1>2 DEF LockHeld
<1> QED BY <1>1, <1>3 DEF Newer, HasLock, Running, Recovering

\* What an updater or an installer may still rely on.
SameReport(q) ==
  /\ job'[q].kind = job[q].kind /\ job'[q].mixed = job[q].mixed /\ job'[q].ver = job[q].ver
  /\ job'[q].up = job[q].up /\ job'[q].ok = job[q].ok /\ job'[q].in = job[q].in
  /\ job'[q].t = job[q].t /\ job'[q].step = job[q].step /\ (lock' = q => lock = q)

(* Where nothing moves, a report is worth what it was. *)
LEMMA SameReportKeeps ==
  ASSUME NEW q \in Procs, Good(q), Newer(q), SameReport(q), dest' = dest, backup' = backup,
         \A t \in Procs : SameTxn(t)
  PROVE  Good(q)' /\ Newer(q)'
<1>1. New(q)' = New(q) BY DEF New, SameReport
<1>2. Good(q)' BY <1>1 DEF Good, SameReport, SameTxn, Journaled
<1>3. Recovering(q)' = Recovering(q) BY DEF Recovering, SameReport
<1>4. \A t \in Procs : InFlight(t)' = InFlight(t) BY DEF InFlight, SameTxn
<1>5. Newer(q)' BY <1>3, <1>4 DEF Newer, SameReport, SameTxn
<1> QED BY <1>2, <1>5

(* What an updater's step does to what it relies on. *)
LEMMA UpdaterReports ==
  ASSUME IInv, Base', NEW p \in Procs, UpdaterSteps(p)
  PROVE  Good(p)' /\ Newer(p)'
<1>1. /\ job \in [Procs -> JobType] /\ job[p] \in JobType /\ Shape(p) /\ LockHeld(p)
      /\ Good(p) /\ Newer(p) /\ lock \in Procs \cup {NoOne} /\ p # NoOne /\ Base
  BY Types DEF IInv, Base, Reports
<1>2. dest' = dest /\ backup' = backup /\ txn' = txn BY <1>1, UpdaterLocal
<1>3. \A t \in Procs : InFlight(t)' = InFlight(t) /\ Journaled(t)' = Journaled(t)
  BY <1>2 DEF InFlight, Journaled
<1>4. ASSUME job'[p].ok = FALSE, job'[p].up \notin {"extract", "package"},
             job'[p].in \in {"off", "wait"}
      PROVE  Good(p)' /\ Newer(p)' BY <1>4 DEF Good, Newer, Recovering
<1>5. ASSUME job'[p].ok = job[p].ok, job'[p].up \notin {"extract", "package"},
             job'[p].in \in {"off", "wait"}, lock' = lock, job'[p].ver = job[p].ver
      PROVE  Good(p)' /\ Newer(p)'
 <2>1. New(p)' = New(p) BY <1>5 DEF New
 <2> QED BY <1>1, <1>2, <1>3, <1>5, <2>1 DEF Good, Newer, Recovering
<1>6. CASE StartUpdate(p)
 <2>1. job'[p].up = "latest" /\ job'[p].in = job[p].in /\ job'[p].ok = job[p].ok
   BY <1>1, <1>6 DEF StartUpdate
 <2>2. job[p].in = "off" /\ ~job[p].ok BY <1>1, <1>6 DEF StartUpdate, Shape
 <2> QED BY <1>4, <2>1, <2>2 DEF Good, Newer, Recovering
<1>7. CASE FetchLatest(p)
 <2> DEFINE u == IF Older(job[p].ver, published) THEN "manifest" ELSE "done"
            r == IF Older(job[p].ver, published) THEN "none" ELSE "current"
 <2>1. job' = [job EXCEPT ![p].up = u, ![p].ver = published, ![p].result = r]
   BY <1>7 DEF FetchLatest
 <2>2. u \notin {"extract", "package"} OBVIOUS
 <2> HIDE DEF u, r
 <2>3. job'[p].up = u /\ job'[p].in = job[p].in /\ job'[p].ok = job[p].ok
   BY <1>1, <2>1 DEF JobType
 <2>4. job[p].in = "off" /\ ~job[p].ok BY <1>1, <1>7 DEF FetchLatest, Shape
 <2> QED BY <2>2, <2>3, <2>4 DEF Good, Newer, Recovering
<1>8. CASE DownloadManifest(p) \/ DownloadArchive(p) \/ Cleanup(p) \/ TakeLock(p)
 <2>1. PICK to \in {"archive", "wait", "close", "read"} : job' = [job EXCEPT ![p].up = to]
   BY <1>8 DEF DownloadManifest, DownloadArchive, Cleanup, TakeLock, Proceed
 <2>2. job'[p].up = to /\ job'[p].in = job[p].in /\ job'[p].ok = job[p].ok
       /\ job'[p].ver = job[p].ver BY <1>1, <2>1 DEF JobType
 <2>3. /\ job[p].in = "off" \/ job[p].in = "wait"
       /\ lock' = lock \/ ~job[p].ok
   BY <1>1, <1>8 DEF DownloadManifest, DownloadArchive, Cleanup, TakeLock, Proceed, Shape
 <2> QED BY <1>5, <2>2, <2>3 DEF Good, Newer, Recovering
<1>9. CASE Refuse(p)
 <2> DEFINE u == IF HasLock(p) THEN "close" ELSE "done"
 <2>1. job' = [job EXCEPT ![p].up = u, ![p].result = "refused"] BY <1>1, <1>9 DEF Refuse
 <2>2. u \notin {"extract", "package"} OBVIOUS
 <2> HIDE DEF u
 <2>3. job'[p].up = u /\ job'[p].in = job[p].in /\ job'[p].ok = job[p].ok
   BY <1>1, <2>1 DEF JobType
 <2>4. job[p].in \in {"off", "wait"} /\ ~job[p].ok BY <1>1, <1>9 DEF Refuse, Shape
 <2> QED BY <2>2, <2>3, <2>4 DEF Good, Newer, Recovering
<1>10. CASE Extract(p) \/ RunInstaller(p)
 <2>1. /\ job[p].up \in {"extract", "package"} /\ job[p].in = "off" /\ ~job[p].ok
   BY <1>1, <1>10 DEF Extract, RunInstaller, Proceed, Shape
 <2>2. /\ job'[p].ok = job[p].ok /\ job'[p].kind = job[p].kind /\ job'[p].mixed = job[p].mixed
       /\ job'[p].ver = job[p].ver /\ job'[p].in # "script"
  <3>1. CASE Extract(p) BY <1>1, <2>1, <3>1 DEF Extract, Proceed
  <3>2. CASE RunInstaller(p) BY <1>1, <2>1, <3>2 DEF RunInstaller
  <3> QED BY <1>10, <3>1, <3>2
 <2> QED BY <1>1, <1>2, <1>3, <2>1, <2>2 DEF Good, Newer
<1>11. CASE ReadInstalled(p)
 <2> DEFINE newer == dest["binary"].whole /\ Older(dest["binary"].ver, job[p].ver)
            u == IF newer THEN "extract" ELSE "close"
            m == \E t \in Procs : InFlight(t)
            r == CASE ~dest["binary"].whole -> "refused"
                   [] ~Older(dest["binary"].ver, job[p].ver) -> "current"
                   [] OTHER -> "none"
 <2>1. job' = [job EXCEPT ![p].up = u, ![p].mixed = m, ![p].result = r]
   BY <1>11, Zenon DEF ReadInstalled
 <2>2. u \in {"extract", "package"} => dest["binary"].ver < job[p].ver BY DEF Older
 <2>3. ~m => \A t \in Procs : ~InFlight(t) OBVIOUS
 <2>4. job[p].up = "read" BY <1>11 DEF ReadInstalled
 <2> HIDE DEF u, m, r, newer
 <2>5. /\ job'[p].up = u /\ job'[p].mixed = m /\ job'[p].in = job[p].in /\ job'[p].ok = job[p].ok
       /\ job'[p].ver = job[p].ver BY <1>1, <2>1 DEF JobType
 <2>6. job[p].in = "off" \/ job[p].in = "wait" BY <1>1, <2>4 DEF Shape
 <2>7. ~job[p].ok BY <1>1, <2>4 DEF Shape
 <2> QED BY <1>2, <1>3, <2>2, <2>3, <2>5, <2>6, <2>7 DEF Good, Newer, Recovering
<1>12. CASE InstallerEnded(p)
 <2> DEFINE good == job[p].ok /\ ~job[p].canceled
            u == IF good THEN "verify" ELSE "cleanup"
            r == IF good THEN "none" ELSE "unknown"
 <2>1. /\ job' = [job EXCEPT ![p].up = u, ![p].result = r] /\ job[p].in = "off" /\ lock' = lock
   BY <1>12 DEF InstallerEnded
 <2>2. u \notin {"extract", "package"} OBVIOUS
 <2> HIDE DEF u, r
 <2>3. /\ job'[p].up = u /\ job'[p].in = job[p].in /\ job'[p].ok = job[p].ok
       /\ job'[p].ver = job[p].ver BY <1>1, <2>1 DEF JobType
 <2> QED BY <1>5, <2>1, <2>2, <2>3
<1>13. CASE VerifyInstalled(p)
 <2>1. PICK r \in {"complete", "unknown"} :
         job' = [job EXCEPT ![p].up = "cleanup", ![p].result = r] BY <1>13 DEF VerifyInstalled
 <2>2. /\ job'[p].up = "cleanup" /\ job'[p].in = job[p].in /\ job'[p].ok = job[p].ok
       /\ job'[p].ver = job[p].ver BY <1>1, <2>1 DEF JobType
 <2>3. lock' = lock /\ job[p].in \in {"off", "wait"} BY <1>1, <1>13 DEF VerifyInstalled, Shape
 <2> QED BY <1>5, <2>2, <2>3
<1>14. CASE CloseLock(p)
 <2>1. job'[p].ok = FALSE /\ job'[p].up = "done" /\ job'[p].in = job[p].in
   BY <1>1, <1>14 DEF CloseLock
 <2>2. job[p].in \in {"off", "wait"} BY <1>1, <1>14 DEF CloseLock, Shape
 <2> QED BY <1>4, <2>1, <2>2
<1>15. CASE KillUpdater(p)
 <2>1. job' = [job EXCEPT ![p].up = "dead"] BY <1>15 DEF KillUpdater
 <2>2. /\ job'[p].kind = job[p].kind /\ job'[p].mixed = job[p].mixed /\ job'[p].ver = job[p].ver
       /\ job'[p].up = "dead" /\ job'[p].ok = job[p].ok /\ job'[p].in = job[p].in
       /\ job'[p].t = job[p].t /\ job'[p].step = job[p].step BY <1>1, <2>1 DEF JobType
 <2>3. lock' = p => lock = p BY <1>1, <1>15 DEF KillUpdater, LockWithoutUpdater
 <2>4. New(p)' = New(p) BY <2>2 DEF New
 <2>5. Recovering(p)' = Recovering(p) BY <2>2 DEF Recovering
 <2>6. Good(p)' BY <1>1, <1>2, <1>3, <2>2, <2>3, <2>4 DEF Good
 <2>7. Newer(p)' BY <1>1, <1>2, <1>3, <2>2, <2>5 DEF Newer
 <2> QED BY <2>6, <2>7
<1>16. CASE StartDirect(p) \/ LockTimeout(p) \/ AcquireLock(p)
 <2>1. job'[p].kind = "direct" /\ job'[p].ok = job[p].ok /\ ~job[p].ok
  <3>1. CASE StartDirect(p) BY <1>1, <3>1 DEF StartDirect, Shape
  <3>2. CASE LockTimeout(p) BY <1>1, <3>2 DEF LockTimeout, Shape
  <3>3. CASE AcquireLock(p) BY <1>1, <3>3 DEF AcquireLock, Shape
  <3> QED BY <1>16, <3>1, <3>2, <3>3
 <2> QED BY <2>1 DEF Good, Newer
<1> QED BY <1>6, <1>7, <1>8, <1>9, <1>10, <1>11, <1>12, <1>13, <1>14, <1>15, <1>16
        DEF UpdaterSteps

(* The holder of the lock leaves nobody else anything to rely on. *)
LEMMA OthersReports ==
  ASSUME Base, Base', NEW p \in Procs, Running(p) \/ HasLock(p), Local(p),
         NEW q \in Procs \ {p}
  PROVE  Good(q)' /\ Newer(q)'
<1>1. lock = p /\ p # NoOne /\ q # NoOne BY DEF Base, LockHeld
<1>2. lock' # q BY <1>1 DEF Local
<1> QED BY <1>2, IdleReports

(* An installer that goes on has not said anything yet. *)
LEMMA GoodWhileRunning ==
  ASSUME Base', NEW p \in Procs, job'[p].in # "off"
  PROVE  Good(p)'
<1>1. Shape(p)' BY DEF Base
<1>2. ~job'[p].ok BY <1>1 DEF Shape
<1> QED BY <1>2 DEF Good

(* Nothing is known of an installer that is gone. *)
LEMMA NewerOff ==
  ASSUME Base, NEW p \in Procs, job[p].in # "off" \/ job[p].up = "run",
         NEW ok \in BOOLEAN, Exits(p, ok)
  PROVE  Newer(p)'
<1>1. Shape(p) BY DEF Base
<1> QED BY <1>1 DEF Shape, Newer, Recovering, Exits, Same

(* An installer that was stopped has nothing to report. *)
LEMMA StoppedReports ==
  ASSUME Base, NEW p \in Procs, job[p].in # "off" \/ job[p].up = "run", Exits(p, FALSE)
  PROVE  Good(p)' /\ Newer(p)'
<1>1. FALSE \in BOOLEAN OBVIOUS
<1>2. Newer(p)' BY <1>1, NewerOff
<1> QED BY <1>2 DEF Good, Exits

(* A failure leaves Reports. *)
LEMMA FailingReports ==
  ASSUME IInv, Base', NEW p \in Procs, NEW left \in BOOLEAN, NEW canceled \in BOOLEAN,
         Failing(p, left, canceled), dest' = dest, backup' = backup,
         Running(p) \/ job[p].up = "run"
  PROVE  Good(p)' /\ Newer(p)'
<1>1. /\ Base /\ TypeOK /\ Own(p) /\ lock = p /\ Good(p)
  BY DEF IInv, Base, Own, LockHeld, HasLock, Reports
<1>2. CASE /\ Exits(p, job[p].ok /\ job[p].in = "off")
           /\ \A q \in Procs : SameTxn(q)
 <2>1. (job[p].ok /\ job[p].in = "off") \in BOOLEAN OBVIOUS
 <2>2. Newer(p)' BY <1>1, <1>2, <2>1, NewerOff DEF Running
 <2>3. New(p)' = New(p) BY <1>2 DEF Exits, Same, New
 <2>4. job'[p].ok => job[p].ok BY <1>2 DEF Exits
 <2>5. Good(p)' BY <1>1, <1>2, <2>3, <2>4 DEF Good, Journaled, SameTxn
 <2> QED BY <2>2, <2>5
<1>3. CASE /\ Stays(p) /\ job[p].in \notin {"off", "wait", "recover"}
           /\ job'[p].t = p /\ job'[p].in = TrapStart(p)
 <2>1. job'[p].in \in {"undo", "finish", "clean"} BY <1>3 DEF Stays, TrapStart
 <2>2. Good(p)' BY <2>1, GoodWhileRunning
 <2>3. Newer(p)' BY <1>1, <1>3, <2>1 DEF Own, Shape, Newer, Recovering, Stays, Same
 <2> QED BY <2>2, <2>3
<1> QED BY ZenonT(60), <1>1, <1>2, <1>3, FailingDoes

(* Looking for older transactions leaves Reports. *)
LEMMA RecoverReports ==
  ASSUME IInv, Base', NEW p \in Procs, Recover(p)
  PROVE  Good(p)' /\ Newer(p)'
<1>1. Base /\ TypeOK /\ Own(p) /\ Good(p) /\ Newer(p) BY DEF IInv, Base, Own, Reports
<1>2. dest' = dest /\ backup' = backup /\ job[p].in = "recover" BY <1>1, RecoverDoes
<1>3. PICK t \in Procs : txn[t].dir /\ RecoverEffect(p, t) BY <1>1, RecoverDoes
<1>4. CASE Exits(p, FALSE) BY <1>1, <1>2, <1>4, StoppedReports
<1>5. CASE job' = job /\ lock' = lock /\ \A q \in Procs : SameTxn(q)
 <2>1. SameReport(p) BY <1>5 DEF SameReport
 <2> QED BY <1>1, <1>2, <1>5, <2>1, SameReportKeeps
<1>6. CASE /\ Stays(p) /\ txn' = txn
           /\ job'[p].in = CASE txn[t].state = "cleanup_pending" -> "clean"
                             [] txn[t].state = "committed" -> "finish"
                             [] OTHER -> "undo"
 <2>1. job'[p].in # "script" /\ job'[p].in # "off" BY <1>6
 <2>2. Good(p)' BY <2>1, GoodWhileRunning
 <2>3. \A u \in Procs : InFlight(u)' = InFlight(u) BY <1>6 DEF InFlight
 <2>4. Recovering(p) BY <1>2 DEF Recovering
 <2>5. Newer(p)' BY <1>1, <1>2, <1>6, <2>1, <2>3, <2>4 DEF Newer, Stays, Same
 <2> QED BY <2>2, <2>5
<1> QED BY <1>3, <1>4, <1>5, <1>6 DEF RecoverEffect

(* Beginning a transaction leaves Reports. *)
LEMMA BeginReports ==
  ASSUME IInv, Base', NEW p \in Procs, Begin(p)
  PROVE  Good(p)' /\ Newer(p)'
<1>1. Base /\ TypeOK /\ Own(p) /\ Good(p) /\ Newer(p) BY DEF IInv, Base, Own, Reports
<1>2. /\ dest' = dest /\ backup' = backup /\ job[p].in = "recover" /\ BeginEffect(p)
  BY <1>1, BeginDoes
<1>3. CASE Exits(p, FALSE) BY <1>1, <1>2, <1>3, StoppedReports
<1>4. CASE Stays(p) /\ job'[p].in = "script" /\ job'[p].step = 1
 <2>1. Good(p)' BY <1>4, GoodWhileRunning
 <2>2. job[p].in # "off" /\ Recovering(p) BY <1>2 DEF Recovering
 <2>3. Newer(p)' BY <1>1, <1>2, <1>4, <2>2 DEF Own, Shape, Newer, Recovering, Stays, Same
 <2> QED BY <2>1, <2>3
<1> QED BY <1>2, <1>3, <1>4 DEF BeginEffect

(* A step of the script leaves Reports. *)
LEMMA ScriptReports ==
  ASSUME IInv, Base', NEW p \in Procs, ScriptStep(p)
  PROVE  Good(p)' /\ Newer(p)'
<1>1. /\ Base /\ TypeOK /\ Own(p) /\ Newer(p) /\ ScriptMove(p) /\ ScriptEffect(p)
  BY ScriptDoes DEF IInv, Base, Own, Reports
<1>2. /\ job[p].in = "script" /\ job[p].t = p /\ job[p].step \in 1..25
      /\ (job[p].step = 1 <=> ~InFlight(p))
      /\ txn[p].state \notin {"committed", "cleanup_pending"}
  BY <1>1 DEF Own, Turn, ScriptMove
<1>3. job[p].step = 1 <=> txn[p].state = "none" BY <1>2 DEF InFlight
<1>4. PartMoves(p, "binary", 2, 3, 4, 8, 12, 18) BY <1>1, <1>3, PartsMove
<1>5. Stays(p) /\ job'[p].t = p BY <1>1, <1>2 DEF ScriptMove
<1>6. Good(p)' BY <1>5, GoodWhileRunning DEF Stays
<1>7. CASE job[p].step < 25
 <2>1. job'[p].in = "script" /\ job'[p].step = job[p].step + 1 /\ job'[p].step # 1
   BY <1>1, <1>2, <1>7 DEF ScriptMove
 <2>2. job[p].up \in {"run", "dead"} \/ job[p].kind = "direct" BY <1>1, <1>2 DEF Own, Shape
 <2>3. txn'[p].orig["binary"] = IF job[p].step = 1 THEN dest["binary"]
                                ELSE txn[p].orig["binary"] BY <1>4 DEF PartMoves
 <2>4. Newer(p)' BY <1>1, <1>2, <1>5, <2>1, <2>2, <2>3 DEF Newer, Recovering, Stays, Same
 <2> QED BY <1>6, <2>4
<1>8. CASE job[p].step >= 25
 <2>1. job'[p].in = "finish" BY <1>1, <1>8 DEF ScriptMove
 <2>2. job[p].up \in {"run", "dead"} \/ job[p].kind = "direct" BY <1>1, <1>2 DEF Own, Shape
 <2>3. Newer(p)' BY <1>5, <2>1, <2>2 DEF Newer, Recovering, Stays, Same
 <2> QED BY <1>6, <2>3
<1> QED BY <1>2, <1>7, <1>8

(* What rollback, finalisation and cleanup say and change. *)
RoutineSays(p) ==
  /\ job[p].in # "undo" =>
       dest' = dest /\ \A u \in Procs : InFlight(u)' => InFlight(u)
  /\ \/ ~job'[p].ok
     \/ /\ dest' = dest /\ backup' = backup /\ Exits(p, ~job[p].trap) /\ job[p].t = p
        /\ job[p].in = "clean" /\ txn[p].state = "none"
        /\ \A u \in Procs : txn'[u].state = txn[u].state

(* Only the cleanup of its own transaction lets an installer exit with success. *)
LEMMA RoutineTells ==
  ASSUME IInv, NEW p \in Procs, RoutineStep(p)
  PROVE  RoutineSays(p)
<1>1. TypeOK /\ Own(p) /\ ~job[p].ok BY RoutineShrinks DEF IInv, Base, Own, Shape, RoutineMove
<1>2. CASE UndoRemove(p)
  BY <1>1, <1>2, UndoRemoveDoes DEF UndoRemoveEffect, Keeps, Stays, RoutineSays
<1>3. CASE UndoRemoved(p)
  BY <1>1, <1>3, UndoRemovedDoes DEF UndoRemovedEffect, Keeps, Stays, RoutineSays
<1>4. CASE UndoRestore(p)
  BY <1>1, <1>4, UndoRestoreDoes DEF UndoRestoreEffect, Undoing, RoutineSays
<1>5. CASE UndoStage(p)
 <2>1. job[p].in = "undo" /\ job[p].t \in Procs
   BY <1>1, <1>5 DEF UndoStage, Undoing, Own, Turn
 <2> QED BY <1>1, <1>5, <2>1, UndoStageDoes
         DEF UndoStageEffect, PartDone, Keeps, Stays, Exits, RoutineSays
<1>6. CASE UndoRefused(p)
 <2>1. job[p].in = "undo" BY <1>6 DEF UndoRefused, Undoing
 <2> QED BY <1>1, <1>6, <2>1, UndoRefusedDoes
         DEF UndoRefusedEffect, PartDone, Keeps, Stays, Exits, RoutineSays
<1>7. CASE FinishBackup(p)
 <2>1. dest' = dest /\ txn' = txn /\ ~job'[p].ok
   BY <1>1, <1>7, FinishDoes DEF FinishEffect, Keeps, Stays
 <2> QED BY <2>1 DEF RoutineSays, InFlight
<1>8. CASE CleanStep(p)
 <2>1. job[p].in = "clean"
   BY <1>8 DEF CleanStep, CleanMark, CleanSnapshot, CleanManifest, CleanDirectory
 <2>2. PICK t \in Procs : t = job[p].t BY <1>1, <2>1 DEF Own, Turn
 <2>3. CleanEffect(p, t) BY <1>1, <1>8, <2>2, CleanDoes
 <2>4. dest' = dest /\ backup' = backup /\ \A u \in Procs \ {t} : txn'[u] = txn[u]
   BY <2>3 DEF CleanEffect, CleanMarkEffect, CleanSnapshotEffect, CleanManifestEffect,
      CleanDirectoryEffect, OnlyTxn
 <2>5. InFlight(t)' => InFlight(t)
   BY <2>3 DEF CleanEffect, CleanMarkEffect, CleanSnapshotEffect, CleanManifestEffect,
      CleanDirectoryEffect, InFlight
 <2>6. \A u \in Procs : InFlight(u)' => InFlight(u) BY <2>4, <2>5 DEF InFlight
 <2>7. CASE CleanDirectoryEffect(p, t) /\ Exits(p, ~job[p].trap) /\ t = p
  <3>1. txn[p].state = "none" /\ \A u \in Procs : txn'[u].state = txn[u].state
    BY <2>4, <2>7 DEF CleanDirectoryEffect
  <3> QED BY <2>1, <2>2, <2>4, <2>6, <2>7, <3>1 DEF RoutineSays
 <2>8. CASE ~job'[p].ok BY <2>4, <2>6, <2>8 DEF RoutineSays
 <2> QED BY <1>1, <2>2, <2>3, <2>7, <2>8 DEF CleanEffect, CleanMarkEffect, CleanSnapshotEffect,
            CleanManifestEffect, CleanDirectoryEffect, Keeps, Stays
<1> QED BY <1>2, <1>3, <1>4, <1>5, <1>6, <1>7, <1>8 DEF RoutineStep

(* Rollback, finalisation and cleanup leave Reports. *)
LEMMA RoutineReports ==
  ASSUME IInv, NEW p \in Procs, RoutineStep(p)
  PROVE  Good(p)' /\ Newer(p)'
<1>1. /\ Base /\ TypeOK /\ Own(p) /\ Newer(p) /\ Finished(p) /\ Disk
      /\ RoutineMove(p) /\ RoutineSays(p)
  BY RoutineShrinks, RoutineTells DEF IInv, Base, Own, Reports, Works
<1>2. Good(p)'
 <2>1. CASE ~job'[p].ok BY <2>1 DEF Good
 <2>2. CASE job'[p].ok
  <3>1. /\ dest' = dest /\ backup' = backup /\ Exits(p, ~job[p].trap) /\ job[p].t = p
        /\ job[p].in = "clean" /\ txn[p].state = "none" /\ ~job[p].trap
        /\ \A u \in Procs : txn'[u].state = txn[u].state BY <1>1, <2>2 DEF RoutineSays, Exits
  <3>2. /\ \A u \in Procs : ~Journaled(u)
        /\ \A c \in Parts : dest[c] = New(p) BY <1>1, <3>1 DEF Finished
  <3>3. \A c \in Parts : backup[c] = Absent
    BY <1>1, <3>2 DEF Disk, NoBackups, Journaled, InFlight
  <3>4. New(p)' = New(p) BY <3>1 DEF Exits, Same, New
  <3> QED BY <3>1, <3>2, <3>3, <3>4 DEF Good, Journaled
 <2> QED BY <2>1, <2>2
<1>3. Newer(p)'
 <2>1. CASE \E ok \in BOOLEAN : Exits(p, ok) BY <1>1, <2>1, NewerOff DEF RoutineMove
 <2>2. CASE /\ Keeps(p) /\ job'[p].in \in {"undo", "finish", "clean", "recover"}
            /\ job'[p].in = "recover" => job[p].t # p
  <3>1. Recovering(p)' => Recovering(p) /\ job[p].t # p
    BY <1>1, <2>2 DEF Recovering, RoutineMove, Keeps
  <3>2. job[p].in = "undo" => \E u \in Procs : InFlight(u) BY <1>1 DEF Own, Turn
  <3>3. job'[p].up \in {"extract", "package"} => job'[p].kind = "direct"
    BY <1>1, <2>2 DEF Own, Shape, RoutineMove, Keeps, Stays, Same
  <3> QED BY <1>1, <2>2, <3>1, <3>2, <3>3 DEF Newer, RoutineSays, Keeps, Stays, Same
 <2> QED BY <1>1, <2>1, <2>2 DEF RoutineMove
<1> QED BY <1>2, <1>3

(* No step breaks Reports. *)
LEMMA NextReports ==
  ASSUME IInv, [Next]_vars
  PROVE  Reports'
<1>1. Base' /\ Base /\ TypeOK /\ \A q \in Procs : Good(q) /\ Newer(q)
  BY NextBase DEF IInv, Base, Reports
<1>2. ASSUME dest' = dest, backup' = backup, txn' = txn, job' = job, lock' = lock PROVE Reports'
 <2>1. \A q \in Procs : SameReport(q) /\ SameTxn(q) BY <1>2 DEF SameReport, SameTxn
 <2>2. \A q \in Procs : Good(q)' /\ Newer(q)' BY <1>1, <1>2, <2>1, SameReportKeeps
 <2> QED BY <2>2 DEF Reports
<1>3. ASSUME NEW p \in Procs, Running(p) \/ job[p].up = "run", Local(p),
             Good(p)' /\ Newer(p)'
      PROVE  Reports'
 <2>1. \A q \in Procs \ {p} : Good(q)' /\ Newer(q)' BY <1>1, <1>3, OthersReports DEF HasLock
 <2> QED BY <1>3, <2>1 DEF Reports
<1>4. ASSUME NEW p \in Procs, Updater(p) \/ Installer(p) \/ Fail(p) \/ KillInstaller(p)
                                \/ KillUpdater(p)
      PROVE  Reports'
 <2>1. CASE UpdaterSteps(p)
  <3>1. Local(p) /\ dest' = dest /\ backup' = backup /\ txn' = txn BY <1>1, <2>1, UpdaterLocal
  <3>2. \A q \in Procs \ {p} : SameReport(q) BY <3>1 DEF Local, SameReport
  <3>3. \A q \in Procs : SameTxn(q) BY <3>1 DEF SameTxn
  <3>4. \A q \in Procs \ {p} : Good(q)' /\ Newer(q)'
    BY <1>1, <3>1, <3>2, <3>3, SameReportKeeps
  <3>5. Good(p)' /\ Newer(p)' BY <1>1, <2>1, UpdaterReports
  <3> QED BY <3>4, <3>5 DEF Reports
 <2>2. CASE ScriptStep(p)
  <3>1. Running(p) /\ Stays(p) BY <1>1, <2>2, ScriptDoes DEF ScriptMove, Running
  <3>2. Local(p) BY <1>1, <3>1, StaysOwn
  <3> QED BY <1>1, <1>3, <2>2, <3>1, <3>2, ScriptReports
 <2>3. CASE RoutineStep(p)
  <3>1. RoutineMove(p) BY <1>1, <2>3, RoutineShrinks
  <3>2. Running(p) BY <3>1 DEF RoutineMove, Running
  <3>3. Local(p) BY <1>1, <3>1, <3>2, StaysOwn, ExitsOwn DEF RoutineMove, Keeps, Running
  <3> QED BY <1>3, <2>3, <3>2, <3>3, RoutineReports
 <2>4. CASE Recover(p)
  <3>1. job[p].in = "recover" /\ \E t \in Procs : RecoverEffect(p, t)
    BY <1>1, <2>4, RecoverDoes
  <3>2. Local(p) BY <1>1, <3>1, StaysOwn, ExitsOwn DEF RecoverEffect, Running, Local
  <3> QED BY <1>1, <1>3, <2>4, <3>1, <3>2, RecoverReports DEF Running
 <2>5. CASE Begin(p)
  <3>1. job[p].in = "recover" /\ BeginEffect(p) BY <1>1, <2>5, BeginDoes
  <3>2. Local(p) BY <1>1, <3>1, StaysOwn, ExitsOwn DEF BeginEffect, Running
  <3> QED BY <1>1, <1>3, <2>5, <3>1, <3>2, BeginReports DEF Running
 <2>6. CASE Fail(p) \/ Cancel(p)
  <3>1. PICK left \in BOOLEAN, canceled \in BOOLEAN : Failing(p, left, canceled)
    BY <2>6 DEF Fail, Cancel, Leaves
  <3>2. dest' = dest /\ backup' = backup /\ (Running(p) \/ job[p].up = "run")
    BY <2>6 DEF Fail, Cancel, Running
  <3>3. (job[p].ok /\ job[p].in = "off") \in BOOLEAN OBVIOUS
  <3>4. Local(p)
   <4>1. CASE Exits(p, job[p].ok /\ job[p].in = "off")
     BY <1>1, <3>2, <3>3, <4>1, ExitsOwn DEF Running
   <4>2. CASE Stays(p) /\ job[p].in \notin {"off", "wait", "recover"}
     BY <1>1, <4>2, StaysOwn DEF Running
   <4> QED BY ZenonT(60), <1>1, <3>1, <4>1, <4>2, FailingDoes
  <3>5. Good(p)' /\ Newer(p)' BY <1>1, <3>1, <3>2, FailingReports
  <3> QED BY <1>3, <3>2, <3>4, <3>5
 <2>7. CASE KillInstaller(p)
  <3>1. Exits(p, FALSE) /\ job[p].in # "off" /\ FALSE \in BOOLEAN
    BY <1>1, <2>7, KillInstallerDoes DEF KillInstaller
  <3>2. Good(p)' /\ Newer(p)' BY <1>1, <3>1, StoppedReports
  <3>3. \A q \in Procs \ {p} : Good(q)' /\ Newer(q)'
   <4>1. dest' = dest /\ backup' = backup /\ \A q \in Procs : SameTxn(q)
     BY <1>1, <2>7, KillInstallerDoes
   <4>2. Local(p) BY <1>1, <3>1, ExitsOwn
   <4>3. \A q \in Procs \ {p} : SameReport(q) BY <4>2 DEF Local, SameReport
   <4> QED BY <1>1, <4>1, <4>3, SameReportKeeps
  <3> QED BY <3>2, <3>3 DEF Reports
 <2> QED BY <1>4, <2>1, <2>2, <2>3, <2>4, <2>5, <2>6, <2>7
         DEF Updater, Installer, UpdaterSteps, ScriptStep, RoutineStep, CleanStep
<1>5. CASE PowerLoss
 <2>1. lock' = NoOne BY <1>5 DEF PowerLoss
 <2>2. \A q \in Procs : lock' # q BY <2>1
 <2> QED BY <1>1, <2>2, IdleReports DEF Reports
<1>6. CASE Publish BY <1>2, <1>6 DEF Publish, disk
<1>7. CASE UNCHANGED vars BY <1>2, <1>7 DEF vars
<1> QED BY <1>4, <1>5, <1>6, <1>7 DEF Next

-----------------------------------------------------------------------------
(* Nothing has happened yet. *)
LEMMA InitInv ==
  ASSUME Init
  PROVE  IInv
<1>1. /\ Absent \in Items /\ Original \in Items /\ Absent.by = NoOne /\ Original.by = NoOne
      /\ Intact(Original) /\ Intact(Absent) BY DEF Absent, Original, Items, Intact, There
<1>2. NoTxn \in TxnType
 <2>1. [c \in Parts |-> Absent] \in [Parts -> Items] BY <1>1
 <2> QED BY <2>1 DEF NoTxn, TxnType, JournalStates
<1>3. NoJob \in JobType BY DEF NoJob, JobType, UpSteps, InSteps, Results, Parts
<1>4. /\ \A c \in Parts : dest[c] \in {Absent, Original} /\ backup[c] = Absent
      /\ \A p \in Procs : txn[p] = NoTxn /\ job[p] = NoJob
      /\ lock = NoOne BY DEF Init
<1>5. TypeOK BY <1>1, <1>2, <1>3, Types DEF Init, Releases
<1>6. \A p \in Procs :
        /\ txn[p].state = "none" /\ txn[p].snap = {} /\ txn[p].ids = {} /\ ~txn[p].dir
        /\ \A c \in Parts : txn[p].stage[c] = Absent
        /\ job[p].kind = "none" /\ job[p].up = "off" /\ job[p].in = "off"
        /\ job[p].t = NoOne /\ ~job[p].ok /\ job[p].result = "none" BY <1>4 DEF NoTxn, NoJob
<1>7. Base
  BY <1>1, <1>4, <1>5, <1>6 DEF Base, OneJournal, Journaled, Shape, LockHeld, HasLock, Running,
     Housed, Turn, Untouched
<1>8. Disk BY <1>1, <1>4, <1>6 DEF Disk, Settled, NoBackups, Undoable, Finishable, InFlight
<1>9. Works BY <1>6 DEF Works, Scripted, Undone, Finished
<1>10. Reports BY <1>6 DEF Reports, Good, Newer, Recovering
<1> QED BY <1>7, <1>8, <1>9, <1>10 DEF IInv

(* The four layers hold as long as the processes run, stop and fail.       *)
THEOREM InvHolds == Spec => []IInv
<1>1. IInv /\ [Next]_vars => IInv' BY NextBase, NextWork, NextReports DEF IInv
<1> QED BY <1>1, InitInv, PTL DEF Spec

-----------------------------------------------------------------------------
(* At most one transaction has a journal, counted. *)
LEMMA JournalsCounted ==
  ASSUME OneJournal
  PROVE  Cardinality({t \in Procs : txn[t].state # "none"}) <= 1
<1> DEFINE S == {t \in Procs : txn[t].state # "none"}
<1>1. CASE S = {}
 <2>1. Cardinality(S) = 0 BY <1>1, FS_EmptySet
 <2> QED BY <2>1
<1>2. CASE S # {}
 <2>1. PICK x : x \in S BY <1>2
 <2>2. S = {x} BY <2>1 DEF OneJournal, Journaled
 <2> HIDE DEF S
 <2>3. Cardinality({x}) = 1 BY FS_Singleton
 <2> QED BY <2>2, <2>3 DEF S
<1> QED BY <1>1, <1>2

(* What an undoable part lets rollback do with it. *)
LEMMA PartResumable ==
  ASSUME TypeOK, NEW t \in Procs, NEW c \in Parts,
         Before(t, c) \/ Aside(t, c) \/ After(t, c) \/ Removing(t, c)
  PROVE  \/ SkillTorn(t) \/ Replaced(t, c) \/ Restored(t, c)
         \/ OriginalAt(t, c, backup[c]) /\ ~There(dest[c])
<1>1. CASE Before(t, c) BY <1>1 DEF Before, Restored, OriginalAt, Had, There
<1>2. CASE Aside(t, c) BY <1>2 DEF Aside, Restored, OriginalAt, Had, There
<1>3. CASE After(t, c)
 <2>1. There(dest[c]) /\ MatchesSnapshot(t, c) BY <1>3, NewIs DEF After, MatchesSnapshot
 <2>2. IF There(backup[c]) THEN OriginalAt(t, c, backup[c]) ELSE ~Had(t, c)
   BY <1>3 DEF After, OriginalAt, Had, There
 <2> QED BY <2>1, <2>2 DEF Replaced
<1>4. CASE Removing(t, c) BY <1>4, NewIs DEF Removing, SkillTorn
<1> QED BY <1>1, <1>2, <1>3, <1>4

(* The invariant is enough. *)
LEMMA InvSound ==
  ASSUME IInv
  PROVE  UpdateSound
<1>1. Base /\ TypeOK /\ Disk /\ \A p \in Procs : Own(p) /\ Good(p)
  BY DEF IInv, Base, Own, Reports
<1>2. UpdateInv
 <2>1. \A p \in Procs : HasLock(p) \/ job[p].in \notin {"off", "wait"} => lock = p
   BY <1>1 DEF Own, LockHeld, Running
 <2>2. Cardinality({t \in Procs : txn[t].state # "none"}) <= 1
   BY <1>1, JournalsCounted DEF Base
 <2> QED BY <1>1, <2>1, <2>2 DEF UpdateInv
<1>3. Resumable
 <2>1. ASSUME NEW t \in Procs, InFlight(t)
       PROVE  SkillTorn(t) \/ \A c \in Parts :
                \/ Replaced(t, c) \/ Restored(t, c)
                \/ OriginalAt(t, c, backup[c]) /\ ~There(dest[c])
                \/ \E p \in Procs : job[p].in # "off"
  <3>1. \A c \in Parts : Before(t, c) \/ Aside(t, c) \/ After(t, c) \/ Removing(t, c)
    BY <1>1, <2>1 DEF Disk, Undoable
  <3> QED BY <1>1, <3>1, PartResumable
 <2>2. ASSUME NEW t \in Procs, txn[t].state = "committed"
       PROVE  FinishAllowed(t)
  <3>1. \A c \in Parts :
          /\ dest[c] = New(t) /\ c \in txn[t].ids /\ c \in txn[t].snap
          /\ There(backup[c]) => Had(t, c) /\ backup[c].by = txn[t].orig[c].by
    BY <1>1, <2>2 DEF Disk, Finishable
  <3> QED BY <3>1 DEF FinishAllowed, MatchesSnapshot, OriginalAt, New
 <2> QED BY <2>1, <2>2 DEF Resumable
<1>4. ReportTrue
 <2>1. ASSUME NEW p \in Procs, job[p].result = "complete", lock = p
       PROVE  \A c \in Parts : /\ dest[c] = [by |-> p, ver |-> job[p].ver, whole |-> TRUE]
                               /\ ~There(backup[c])
   BY <1>1, <2>1 DEF Own, Shape, Good, New, There
 <2>2. ASSUME NEW p \in Procs, job[p].result \in {"refused", "current"}
       PROVE  ~txn[p].dir /\ \A c \in Parts : p \notin {dest[c].by, backup[c].by}
   BY <1>1, <2>2 DEF Own, Shape, Untouched, Fresh
 <2> QED BY <2>1, <2>2 DEF ReportTrue
<1> QED BY <1>2, <1>3, <1>4 DEF UpdateSound

(* One process at a time changes the installation, whatever stops it       *)
(* leaves something the next can finish or undo, and a verified or an      *)
(* untried update is reported as what it is (acquireUpdateLock,            *)
(* recover_transactions, updateInstallOutcome).                            *)
THEOREM UpdateIsSound == Spec => []UpdateSound
BY InvHolds, InvSound, PTL

(***************************************************************************)
(* What the user has.                                                      *)
(***************************************************************************)

(* With an unfinished transaction, what there was before it; otherwise     *)
(* what is there.                                                          *)
InstalledParts ==
  /\ \A t \in Procs : InFlight(t) => \A c \in Parts : Installed[c] = txn[t].orig[c]
  /\ (\A t \in Procs : ~InFlight(t)) => \A c \in Parts : Installed[c] = dest[c]
  /\ Installed = [c \in Parts |-> Installed[c]]

(* The invariant makes it so. *)
LEMMA InstalledIs == IInv => InstalledParts
<1> SUFFICES ASSUME IInv PROVE InstalledParts OBVIOUS
<1>1. ASSUME NEW t \in Procs, InFlight(t), NEW c \in Parts
      PROVE  Installed[c] = txn[t].orig[c]
 <2>1. \A u \in Procs : InFlight(u) => u = t
   BY <1>1 DEF IInv, Base, OneJournal, Journaled, InFlight
 <2>2. (CHOOSE u \in Procs : InFlight(u)) = t BY <1>1, <2>1
 <2>3. Installed[c] = IF There(backup[c]) THEN backup[c]
                      ELSE IF Had(t, c) THEN dest[c] ELSE Absent BY <1>1, <2>2 DEF Installed
 <2>4. Before(t, c) \/ Aside(t, c) \/ After(t, c) \/ Removing(t, c)
   BY <1>1 DEF IInv, Disk, Undoable
 <2> QED BY <2>3, <2>4 DEF Before, Aside, After, Removing, Had, There
<1>2. ASSUME \A t \in Procs : ~InFlight(t), NEW c \in Parts
      PROVE  Installed[c] = dest[c] BY <1>2 DEF Installed
<1>3. Installed = [c \in Parts |-> Installed[c]] BY DEF Installed
<1> QED BY <1>1, <1>2, <1>3 DEF InstalledParts

(* The same after a step. *)
LEMMA InstalledNext == IInv' => InstalledParts'
BY InstalledIs, PTL

(* No transaction begins or ends, and outside one the parts stay. *)
SameFlight ==
  /\ \A q \in Procs : /\ (InFlight(q)' <=> InFlight(q))
                      /\ InFlight(q) => txn'[q].orig = txn[q].orig
                      /\ txn'[q].state = "committed" => txn[q].state = "committed"
  /\ dest' = dest \/ \E t \in Procs : InFlight(t)

\* p's installer writes its journal.
Writes(p) ==
  /\ ScriptMove(p) /\ WriteEffect(p) /\ job[p].t = p
  /\ (job[p].step = 1 <=> ~InFlight(p)) /\ \A q \in Procs \ {p} : ~InFlight(q)

\* The rest of transaction t is marked as nothing but rubbish.
Marks(p, t) ==
  /\ CleanMarkEffect(t)
  /\ InFlight(t) => \A c \in Parts : Before(t, c)
  /\ \A q \in Procs \ {t} : ~InFlight(q)

(* The journal decides: a transaction begins, moves on or ends only when   *)
(* its installer writes its journal or a cleanup marks it.                 *)
LEMMA FlightSteps ==
  ASSUME IInv, [Next]_vars
  PROVE  SameFlight \/ (\E p \in Procs : Writes(p)) \/ (\E p, t \in Procs : Marks(p, t))
<1>1. Base /\ TypeOK /\ (\A p \in Procs : Own(p) /\ Finished(p)) /\ OneJournal
  BY DEF IInv, Base, Own, Works
<1>2. ASSUME dest' = dest \/ \E t \in Procs : InFlight(t),
             \A q \in Procs : txn'[q].state = txn[q].state /\ txn'[q].orig = txn[q].orig
      PROVE  SameFlight BY <1>2 DEF SameFlight, InFlight
<1>3. ASSUME NEW p \in Procs, ScriptStep(p)
      PROVE  SameFlight \/ Writes(p)
 <2>1. ScriptMove(p) /\ ScriptEffect(p) BY <1>1, <1>3, ScriptDoes
 <2>2. /\ job[p].t = p /\ (job[p].step = 1 <=> ~InFlight(p))
       /\ \A q \in Procs \ {p} : ~txn[q].dir BY <1>1, <2>1 DEF Own, Turn, ScriptMove
 <2>3. \A q \in Procs \ {p} : txn[q].state = "none" BY <1>1, <2>2 DEF Own, Housed, Journaled
 <2>4. CASE WriteEffect(p) BY <2>1, <2>2, <2>3, <2>4 DEF Writes, InFlight
 <2>5. CASE VerifyEffect(p) BY <1>2, <2>5 DEF VerifyEffect
 <2>6. ASSUME NEW c \in Parts, CreateEffect(p, c) \/ CopyEffect(p, c) \/ SnapshotEffect(p, c)
       PROVE  SameFlight
  <3>1. dest' = dest /\ Journal0(p) BY <2>6 DEF CreateEffect, CopyEffect, SnapshotEffect
  <3> QED BY <1>2, <2>1, <3>1 DEF Journal0, ScriptMove
 <2>7. ASSUME NEW c \in Parts, BackUpEffect(p, c) \/ InstallEffect(p, c)
       PROVE  SameFlight
  <3>1. InFlight(p) BY <2>2, <2>7 DEF BackUpEffect, InstallEffect
  <3>2. CASE BackUpEffect(p, c) BY <1>2, <3>1, <3>2 DEF BackUpEffect
  <3>3. CASE InstallEffect(p, c)
    BY <1>2, <2>1, <3>1, <3>3 DEF InstallEffect, Journal0, ScriptMove
  <3> QED BY <2>7, <3>2, <3>3
 <2> QED BY <2>1, <2>4, <2>5, <2>6, <2>7 DEF ScriptEffect
<1>4. ASSUME NEW p \in Procs, CleanStep(p)
      PROVE  SameFlight \/ \E t \in Procs : Marks(p, t)
 <2>1. job[p].in = "clean"
   BY <1>4 DEF CleanStep, CleanMark, CleanSnapshot, CleanManifest, CleanDirectory
 <2>2. PICK t \in Procs : t = job[p].t BY <1>1, <2>1 DEF Own, Turn
 <2>3. CleanEffect(p, t) BY <1>1, <1>4, <2>2, CleanDoes
 <2>4. CASE CleanMarkEffect(t)
  <3>1. \A q \in Procs \ {t} : ~InFlight(q)
    BY <1>1, <2>4 DEF CleanMarkEffect, OneJournal, Journaled, InFlight
  <3>2. InFlight(t) => \A c \in Parts : Before(t, c) BY <1>1, <2>1, <2>2 DEF Finished
  <3> QED BY <2>4, <3>1, <3>2 DEF Marks
 <2>5. CASE CleanSnapshotEffect(t) \/ CleanManifestEffect(t) \/ CleanDirectoryEffect(p, t)
  <3>1. /\ dest' = dest /\ \A q \in Procs \ {t} : txn'[q] = txn[q]
    BY <2>5 DEF CleanSnapshotEffect, CleanManifestEffect, CleanDirectoryEffect, OnlyTxn
  <3>2. txn[t].state \in {"none", "cleanup_pending"} /\ txn'[t].state \in {"none", "cleanup_pending"}
    BY <2>5 DEF CleanSnapshotEffect, CleanManifestEffect, CleanDirectoryEffect
  <3> QED BY <3>1, <3>2 DEF SameFlight, InFlight
 <2> QED BY <2>3, <2>4, <2>5 DEF CleanEffect
<1>5. ASSUME NEW p \in Procs, RoutineStep(p), ~CleanStep(p)
      PROVE  SameFlight
 <2>1. job[p].in = "undo" => job[p].t \in Procs /\ InFlight(job[p].t) BY <1>1 DEF Own, Turn
 <2>2. CASE UndoRemove(p) BY <1>1, <1>2, <2>1, <2>2, UndoRemoveDoes DEF UndoRemoveEffect
 <2>3. CASE UndoRemoved(p) BY <1>1, <1>2, <2>1, <2>3, UndoRemovedDoes DEF UndoRemovedEffect
 <2>4. CASE UndoRestore(p)
   BY <1>1, <1>2, <2>1, <2>4, UndoRestoreDoes DEF UndoRestoreEffect, Undoing
 <2>5. CASE UndoStage(p)
  <3>1. PICK t \in Procs : t = job[p].t BY <2>1, <2>5 DEF UndoStage, Undoing
  <3>2. UndoStageEffect(p, t, job[p].part) BY <1>1, <2>5, <3>1, UndoStageDoes
  <3> QED BY <1>2, <3>2 DEF UndoStageEffect
 <2>6. CASE UndoRefused(p) BY <1>1, <1>2, <2>6, UndoRefusedDoes DEF UndoRefusedEffect
 <2>7. CASE FinishBackup(p) BY <1>1, <1>2, <2>7, FinishDoes DEF FinishEffect
 <2> QED BY <1>5, <2>2, <2>3, <2>4, <2>5, <2>6, <2>7 DEF RoutineStep
<1>6. ASSUME NEW p \in Procs, Updater(p) \/ Installer(p) \/ Fail(p) \/ KillInstaller(p)
                                \/ KillUpdater(p), ~ScriptStep(p), ~RoutineStep(p)
      PROVE  SameFlight
 <2>1. CASE UpdaterSteps(p) BY <1>1, <1>2, <2>1, UpdaterLocal
 <2>2. CASE Recover(p) BY <1>1, <1>2, <2>2, RecoverDoes DEF RecoverEffect, SameTxn
 <2>3. CASE Begin(p) BY <1>1, <1>2, <2>3, BeginDoes DEF BeginEffect, SameTxn
 <2>4. CASE Fail(p) \/ Cancel(p)
  <3>1. PICK left \in BOOLEAN, canceled \in BOOLEAN : Failing(p, left, canceled)
    BY <2>4 DEF Fail, Cancel, Leaves
  <3>2. dest' = dest BY <2>4 DEF Fail, Cancel
  <3>3. \A q \in Procs : SameTxn(q) BY <1>1, <3>1, FailingDoes DEF SameTxn
  <3> QED BY <1>2, <3>2, <3>3 DEF SameTxn
 <2>5. CASE KillInstaller(p) BY <1>1, <1>2, <2>5, KillInstallerDoes DEF SameTxn
 <2> QED BY <1>6, <2>1, <2>2, <2>3, <2>4, <2>5
         DEF Updater, Installer, UpdaterSteps, ScriptStep, RoutineStep, CleanStep
<1>7. ASSUME PowerLoss \/ Publish \/ UNCHANGED vars
      PROVE  SameFlight BY <1>2, <1>7 DEF PowerLoss, Publish, disk, vars
<1> QED BY <1>3, <1>4, <1>5, <1>6, <1>7 DEF Next, RoutineStep

(* Only the commit of its transaction changes what the user has, and it    *)
(* changes both parts at once.                                             *)
LEMMA InstalledSteps ==
  ASSUME IInv, IInv', [Next]_vars
  PROVE  \/ Installed' = Installed
         \/ \E p \in Procs : /\ Writes(p) /\ job[p].step = 25
                             /\ Installed' = [c \in Parts |-> New(p)]
<1>1. /\ \A t \in Procs : InFlight(t) => \A c \in Parts : Installed[c] = txn[t].orig[c]
      /\ (\A t \in Procs : ~InFlight(t)) => \A c \in Parts : Installed[c] = dest[c]
      /\ Installed = [c \in Parts |-> Installed[c]] BY InstalledIs DEF InstalledParts
<1>2. /\ \A t \in Procs : InFlight(t)' => \A c \in Parts : Installed'[c] = txn'[t].orig[c]
      /\ (\A t \in Procs : ~InFlight(t)') => \A c \in Parts : Installed'[c] = dest'[c]
      /\ Installed' = [c \in Parts |-> Installed'[c]] BY InstalledNext DEF InstalledParts
<1>3. ASSUME \A c \in Parts : Installed'[c] = Installed[c]
      PROVE  Installed' = Installed
 <2>1. [c \in Parts |-> Installed'[c]] = [c \in Parts |-> Installed[c]] BY <1>3
 <2> QED BY <1>1, <1>2, <2>1
<1>4. CASE SameFlight
 <2>1. CASE \E t \in Procs : InFlight(t) BY <1>1, <1>2, <1>3, <1>4, <2>1 DEF SameFlight
 <2>2. CASE \A t \in Procs : ~InFlight(t) BY <1>1, <1>2, <1>3, <1>4, <2>2 DEF SameFlight
 <2> QED BY <2>1, <2>2
<1>5. ASSUME NEW p \in Procs, NEW t \in Procs, Marks(p, t)
      PROVE  Installed' = Installed
 <2>1. dest' = dest /\ \A q \in Procs : ~InFlight(q)'
   BY <1>5 DEF Marks, CleanMarkEffect, OnlyTxn, InFlight
 <2>2. \A c \in Parts : Installed[c] = dest[c] BY <1>1, <1>5 DEF Marks, Before
 <2> QED BY <1>2, <1>3, <2>1, <2>2
<1>6. ASSUME NEW p \in Procs, Writes(p)
      PROVE  \/ Installed' = Installed
             \/ job[p].step = 25 /\ Installed' = [c \in Parts |-> New(p)]
 <2>1. dest' = dest /\ \A q \in Procs \ {p} : ~InFlight(q)' /\ ~InFlight(q)
   BY <1>6 DEF Writes, WriteEffect, ScriptMove, InFlight
 <2>2. CASE job[p].step = 1
  <3>1. \A c \in Parts : Installed[c] = dest[c] BY <1>1, <1>6, <2>1, <2>2 DEF Writes
  <3>2. txn[p].state = "none" BY <1>6, <2>2 DEF IInv, Base, Turn, Writes, ScriptMove, InFlight
  <3>3. InFlight(p)' /\ txn'[p].orig = dest
    BY <1>6, <2>2, <3>2 DEF Writes, WriteEffect, InFlight
  <3> QED BY <1>2, <1>3, <3>1, <3>3
 <2>3. CASE job[p].step # 1 /\ job[p].step # 25
  <3>1. InFlight(p) /\ InFlight(p)' /\ txn'[p].orig = txn[p].orig
    BY <1>6, <2>3 DEF Writes, WriteEffect, InFlight
  <3> QED BY <1>1, <1>2, <1>3, <3>1
 <2>4. CASE job[p].step = 25
  <3>1. txn'[p].state = "committed" /\ ~InFlight(p)'
    BY <1>6, <2>4 DEF Writes, WriteEffect, InFlight
  <3>2. \A c \in Parts : dest'[c] = New(p)' BY <3>1 DEF IInv, Disk, Finishable
  <3>3. New(p)' = New(p) BY <1>6 DEF Writes, ScriptMove, Stays, Same, New
  <3>4. \A c \in Parts : Installed'[c] = New(p) BY <1>2, <2>1, <3>1, <3>2, <3>3
  <3>5. [c \in Parts |-> Installed'[c]] = [c \in Parts |-> New(p)] BY <3>4
  <3> QED BY <1>2, <2>4, <3>5
 <2> QED BY <2>2, <2>3, <2>4
<1> QED BY <1>4, <1>5, <1>6, FlightSteps

(* A step either leaves what the user has or installs a release. *)
LEMMA StepInstalls ==
  ASSUME IInv, IInv', [Next]_vars
  PROVE  [Promise!Next]_Installed
<1>1. CASE Installed' = Installed BY <1>1
<1>2. ASSUME NEW p \in Procs, Writes(p), Installed' = [c \in Parts |-> New(p)]
      PROVE  Promise!Next
 <2>1. job[p].ver \in 1..MaxRelease
  <3>1. Shape(p) /\ job[p].in # "off" /\ job[p] \in JobType
    BY <1>2, Types DEF IInv, Base, Writes, ScriptMove
  <3> QED BY <3>1 DEF Shape, JobType
 <2>2. Promise!Install(p, job[p].ver)
   BY <1>2 DEF Promise!Install, Promise!Parts, Promise!Some, Parts, New
 <2> QED BY <2>1, <2>2 DEF Promise!Next
<1> QED BY <1>1, <1>2, InstalledSteps

(* What there was before any of the processes ran. *)
LEMMA InitInstalled ==
  ASSUME Init
  PROVE  Promise!Init
<1>1. \A t \in Procs : ~InFlight(t) BY DEF Init, NoTxn, InFlight
<1>2. Installed = [c \in Parts |-> dest[c]] BY <1>1 DEF Installed
<1>3. \A c \in Parts : dest[c] \in {Absent, Original} BY DEF Init
<1>4. Absent = [Promise!Some(NoOne, 0) EXCEPT !.whole = FALSE]
 <2> DEFINE x == Promise!Some(NoOne, 0)
 <2>1. x \in Items /\ x.by = NoOne /\ x.ver = 0 /\ FALSE \in BOOLEAN
   BY DEF Promise!Some, Items
 <2> HIDE DEF x
 <2>2. [x EXCEPT !.whole = FALSE] = [by |-> NoOne, ver |-> 0, whole |-> FALSE]
   BY <2>1, WholeIs
 <2> QED BY <2>2 DEF Absent, x
<1>5. Original = Promise!Some(NoOne, 1) BY DEF Original, Promise!Some
<1> QED BY <1>2, <1>3, <1>4, <1>5 DEF Promise!Init, Promise!Parts, Parts

(* However many installers are stopped on the way, the user always has one *)
(* installation, binary and skill together, and it is replaced in one step *)
(* when the journal says committed (install.sh's transaction).             *)
THEOREM UpdateImplementsPromise == Spec => ImplementsPromise
<1>1. IInv /\ IInv' /\ [Next]_vars => [Promise!Next]_Installed BY StepInstalls
<1> QED BY <1>1, InitInstalled, InvHolds, PTL DEF Spec, ImplementsPromise, Promise!Spec

(* An update commits only over an older release, unless the version it     *)
(* read under the lock was that of an interrupted install.                 *)
LEMMA StepUpgrades ==
  ASSUME IInv, [Next]_vars, NEW p \in Procs, job[p].kind = "update",
         txn'[p].state = "committed", txn[p].state # "committed"
  PROVE  Installed["binary"].ver < job[p].ver \/ job[p].mixed
<1>1. ~SameFlight BY DEF SameFlight
<1>2. ASSUME NEW q \in Procs, NEW t \in Procs, Marks(q, t) PROVE FALSE
  BY <1>2 DEF Marks, CleanMarkEffect, OnlyTxn
<1>3. PICK q \in Procs : Writes(q) BY <1>1, <1>2, FlightSteps
<1>4. q = p BY <1>3 DEF Writes, ScriptMove
<1>5. job[p].in = "script" /\ job[p].step = 25 /\ InFlight(p)
  BY <1>3, <1>4 DEF Writes, WriteEffect, ScriptMove
<1>6. Installed["binary"] = txn[p].orig["binary"]
  BY <1>5, InstalledIs DEF InstalledParts, Parts
<1>7. ~job[p].mixed => txn[p].orig["binary"].ver < job[p].ver BY <1>5 DEF IInv, Reports, Newer
<1> QED BY <1>6, <1>7

(* An update never replaces an installation by the same or an older        *)
(* release, although another updater may have installed one while it       *)
(* waited for the lock (installUpdate reads the version again under it).   *)
THEOREM UpdateNeverDowngrades == Spec => NoDowngrade
<1> DEFINE Upgrades == \A p \in Procs :
      job[p].kind = "update" /\ txn'[p].state = "committed" /\ txn[p].state # "committed"
        => Installed["binary"].ver < job[p].ver \/ job[p].mixed
<1>1. IInv /\ [Next]_vars => Upgrades BY StepUpgrades
<1>2. IInv /\ [Next]_vars => [Upgrades]_vars BY <1>1
<1> QED BY <1>2, InvHolds, PTL DEF Spec, NoDowngrade
=============================================================================
