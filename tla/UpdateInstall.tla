---------------------------- MODULE UpdateInstall ----------------------------
(***************************************************************************)
(* Replacing the installed binary and skill.  `mailcli update` downloads   *)
(* a signed release, takes update.lock and runs the release's install.sh,  *)
(* which may also be started directly.  The installer journals every step  *)
(* in a transaction directory, so that a later installer can finish or     *)
(* undo what a stopped one left behind.  Updaters, installers and the      *)
(* machine may stop between any two steps.                                 *)
(***************************************************************************)
EXTENDS Naturals, Sequences, FiniteSets

CONSTANTS Procs,        \* processes: each is one update or one direct install
          MaxRelease,   \* releases 1..MaxRelease get published
          MaxFaults,    \* bound on failures, kills and cancellations
          NoOne         \* nobody holds the lock

ASSUME UpdateAssumption ==
    MaxRelease \in Nat \ {0} /\ MaxFaults \in Nat /\ NoOne \notin Procs

VARIABLES dest,       \* per part: what is at its destination
          backup,     \* per part: what is at its backup path
          txn,        \* per process: its transaction directory and stages
          lock,       \* the open file description that has the flock
          job,        \* per process: updater and installer
          published,  \* number of the latest release
          faults

vars == <<dest, backup, txn, lock, job, published, faults>>

-----------------------------------------------------------------------------
Parts    == {"binary", "skill"}
Releases == 1..MaxRelease

\* A file or directory: the process that made it (its inode), its release,
\* and whether nothing of it is missing.
Absent == [by |-> NoOne, ver |-> 0, whole |-> FALSE]
Items  == [by: Procs \cup {NoOne}, ver: 0..MaxRelease, whole: BOOLEAN]
There(x) == x # Absent

\* Installed before any of these processes ran.
Original == [by |-> NoOne, ver |-> 1, whole |-> TRUE]

JournalStates == {"none", "prepared", "binary_backup_pending",
    "binary_backed_up", "skill_backup_pending", "skill_backed_up",
    "binary_install_pending", "binary_installed", "skill_install_pending",
    "skill_installed", "verified", "committed", "cleanup_pending"}

\* The manifest: its state, the stages whose identity it records and what
\* was at the destinations.
NoTxn == [dir |-> FALSE, tmp |-> FALSE, state |-> "none", ids |-> {},
          orig |-> [c \in Parts |-> Absent],
          stage |-> [c \in Parts |-> Absent], snap |-> {}]

Do(op, arg) == [op |-> op, arg |-> arg]
Journal(s)  == Do("journal", s)
Each(op)    == <<Do(op, "binary"), Do(op, "skill")>>

\* What install.sh does once it has the lock and no old transaction is left.
Script ==
    <<Journal("prepared"),
      Do("create", "binary"), Journal("prepared"), Do("copy", "binary"),
      Do("create", "skill"),  Journal("prepared"), Do("copy", "skill")>>
    \o Each("snapshot")
    \o <<Journal("prepared"),
         Journal("binary_backup_pending"), Do("backup", "binary"),
         Journal("binary_backed_up"),
         Journal("skill_backup_pending"), Do("backup", "skill"),
         Journal("skill_backed_up"),
         Journal("binary_install_pending"), Do("install", "binary"),
         Journal("binary_installed"),
         Journal("skill_install_pending"), Do("install", "skill"),
         Journal("skill_installed"),
         Do("verify", "binary"), Journal("verified"), Journal("committed")>>

UpSteps == {"off", "latest", "manifest", "archive", "wait", "read", "extract",
            "package", "run", "verify", "cleanup", "close", "done", "dead"}
InSteps == {"off", "wait", "recover", "script", "undo", "finish", "clean"}
Results == {"none", "current", "complete", "unknown", "refused"}

NoJob == [kind |-> "none", ver |-> 0, up |-> "off", in |-> "off",
          mixed |-> FALSE, step |-> 1, t |-> NoOne, part |-> "binary",
          half |-> FALSE, failed |-> FALSE, trap |-> FALSE, ok |-> FALSE,
          canceled |-> FALSE, result |-> "none"]

Init == /\ dest \in [Parts -> {Absent, Original}]
        /\ backup = [c \in Parts |-> Absent]
        /\ txn = [p \in Procs |-> NoTxn]
        /\ lock = NoOne
        /\ job = [p \in Procs |-> NoJob]
        /\ published = 1
        /\ faults = 0

-----------------------------------------------------------------------------
(* The updater.                                                            *)

\* Transaction t has a journal and may still be undone.
InFlight(t) == txn[t].state \notin {"none", "committed", "cleanup_pending"}

Fault == faults < MaxFaults /\ faults' = faults + 1
disk  == <<dest, backup, txn>>

HasLock(p) == job[p].up \in {"read", "extract", "package", "run", "verify", "cleanup", "close"}

\* A new release appears on GitHub.
Publish == /\ published < MaxRelease
           /\ published' = published + 1
           /\ UNCHANGED <<disk, lock, job, faults>>

\* `mailcli update` runs from the installed binary.
StartUpdate(p) ==
    /\ job[p].kind = "none"
    /\ dest["binary"].whole
    /\ job' = [job EXCEPT ![p].kind = "update", ![p].up = "latest",
                          ![p].ver = dest["binary"].ver]
    /\ UNCHANGED <<disk, lock, published, faults>>

\* MAJOR.MINOR.PATCH, compared number by number.
Older(v, release) == v < release

\* The latest release is compared with the version that is running.
FetchLatest(p) ==
    /\ job[p].up = "latest"
    /\ LET newer == Older(job[p].ver, published)
       IN job' = [job EXCEPT ![p].up = IF newer THEN "manifest" ELSE "done",
                             ![p].ver = published,
                             ![p].result = IF newer THEN "none" ELSE "current"]
    /\ UNCHANGED <<disk, lock, published, faults>>

Proceed(p, from, to) ==
    /\ job[p].up = from
    /\ job' = [job EXCEPT ![p].up = to]
    /\ UNCHANGED <<disk, lock, published, faults>>

\* The checksums have to be signed by the pinned key.
DownloadManifest(p) == Proceed(p, "manifest", "archive")

\* The archive has to have the checksum the manifest gives for it.
DownloadArchive(p) == Proceed(p, "archive", "wait")

\* Anything before the installer fails, or the lock stays taken too long.
Refuse(p) ==
    /\ job[p].up \in {"latest", "manifest", "archive", "wait", "read", "extract", "package"}
    /\ Fault
    /\ job' = [job EXCEPT ![p].result = "refused",
                          ![p].up = IF HasLock(p) THEN "close" ELSE "done"]
    /\ UNCHANGED <<disk, lock, published>>

TakeLock(p) ==
    /\ job[p].up = "wait" /\ lock = NoOne
    /\ lock' = p
    /\ job' = [job EXCEPT ![p].up = "read"]
    /\ UNCHANGED <<disk, published, faults>>

\* Deviation: the version the updater was started from is trusted.
ReadNothing(p) ==
    /\ job[p].up = "read"
    /\ job' = [job EXCEPT ![p].up = "extract"]
    /\ UNCHANGED <<disk, lock, published, faults>>

\* The version is read again under the lock: somebody may have installed an
\* equal or newer release meanwhile.
ReadInstalled(p) ==
    /\ job[p].up = "read"
    /\ job' = [job EXCEPT
         ![p].up = IF dest["binary"].whole /\ Older(dest["binary"].ver, job[p].ver)
                   THEN "extract" ELSE "close",
         ![p].mixed = \E t \in Procs: InFlight(t),
         ![p].result = CASE ~dest["binary"].whole -> "refused"
                         [] ~Older(dest["binary"].ver, job[p].ver) -> "current"
                         [] OTHER -> "none"]
    /\ UNCHANGED <<disk, lock, published, faults>>

\* Into a private directory, within the limits on size, entries and paths.
Extract(p) == Proceed(p, "extract", "package")

\* The binary has to be for this machine, signed and of the new version; then
\* the package's installer is started with the lock's descriptor.
RunInstaller(p) ==
    /\ job[p].up = "package"
    /\ job' = [job EXCEPT ![p].up = "run", ![p].in = "recover"]
    /\ UNCHANGED <<disk, lock, published, faults>>

\* The installer's process group is gone.
InstallerEnded(p) ==
    /\ job[p].up = "run" /\ job[p].in = "off"
    /\ LET good == job[p].ok /\ ~job[p].canceled
       IN job' = [job EXCEPT ![p].up = IF good THEN "verify" ELSE "cleanup",
                             ![p].result = IF good THEN "none" ELSE "unknown"]
    /\ UNCHANGED <<disk, lock, published, faults>>

\* The installed binary has to print the new version.
VerifyInstalled(p) ==
    /\ job[p].up = "verify"
    /\ \/ /\ dest["binary"].whole /\ dest["binary"].ver = job[p].ver
          /\ job' = [job EXCEPT ![p].up = "cleanup", ![p].result = "complete"]
          /\ UNCHANGED faults
       \/ /\ Fault
          /\ job' = [job EXCEPT ![p].up = "cleanup", ![p].result = "unknown"]
    /\ UNCHANGED <<disk, lock, published>>

\* The private package directory goes; a failure is only reported.
Cleanup(p) ==
    /\ job[p].up = "cleanup"
    /\ job' = [job EXCEPT ![p].up = "close"]
    /\ UNCHANGED <<disk, lock, published, faults>>

\* finishUpdateLock: the descriptor is closed whatever the result was.
CloseLock(p) ==
    /\ job[p].up = "close"
    /\ lock' = NoOne
    /\ job' = [job EXCEPT ![p].up = "done", ![p].ok = FALSE]
    /\ UNCHANGED <<disk, published, faults>>

-----------------------------------------------------------------------------
(* The installer: lock and recovery.                                       *)

\* install.sh run by a person: some release that was published.
StartDirect(p) ==
    /\ job[p].kind = "none"
    /\ \E v \in 1..published:
         job' = [job EXCEPT ![p].kind = "direct", ![p].ver = v, ![p].in = "wait"]
    /\ UNCHANGED <<disk, lock, published, faults>>

AcquireLock(p) ==
    /\ job[p].in = "wait" /\ lock = NoOne
    /\ lock' = p
    /\ job' = [job EXCEPT ![p].in = "recover"]
    /\ UNCHANGED <<disk, published, faults>>

\* lockf waits for 30 seconds.
LockTimeout(p) ==
    /\ job[p].in = "wait" /\ lock # NoOne
    /\ job' = [job EXCEPT ![p].in = "off"]
    /\ UNCHANGED <<disk, lock, published, faults>>

\* The flock lasts until the updater and the installer have closed it.
LockAfter(p) == IF lock = p /\ ~HasLock(p) THEN NoOne ELSE lock

\* The installer of job j is gone; nothing but its exit code is left of it.
Gone(j, ok) == [j EXCEPT !.in = "off", !.ok = ok, !.step = 1, !.t = NoOne,
                         !.part = "binary", !.half = FALSE, !.failed = FALSE,
                         !.trap = FALSE]
Exited(p, ok) == [job EXCEPT ![p] = Gone(@, ok)]

\* rollback_install, the EXIT trap, and what it starts with.
TrapStart(p) ==
    CASE txn[p].state = "cleanup_pending" -> "clean"
      [] txn[p].state = "committed"       -> "finish"
      [] txn[p].state = "none"            -> "off"
      [] OTHER                            -> "undo"

\* A command of p's installer fails, or SIGTERM ends it: recovery of an older
\* transaction and a failing trap just exit, otherwise the trap runs.  A
\* transaction directory without a journal is removed unless something (left)
\* is in it.
Failing(p, left, canceled) ==
    LET j == job[p]
        exits == \/ j.in \in {"off", "wait", "recover"} \/ j.t # p \/ j.trap
                 \/ TrapStart(p) = "off"
        next == [j EXCEPT !.canceled = @ \/ canceled]
    IN IF exits
       THEN /\ job' = [job EXCEPT ![p] = Gone(next, j.ok /\ j.in = "off")]
            /\ lock' = LockAfter(p)
            /\ txn' = IF j.t = p /\ txn[p].state = "none" /\ txn[p].dir
                      THEN [txn EXCEPT ![p].dir = left, ![p].tmp = left /\ j.in = "script"]
                      ELSE txn
       ELSE /\ job' = [job EXCEPT ![p] = [next EXCEPT !.in = TrapStart(p),
                         !.trap = TRUE, !.part = "binary", !.half = FALSE,
                         !.failed = FALSE]]
            /\ UNCHANGED <<lock, txn>>

\* A step of the first journal write may leave its temporary file.
Leaves(p) == IF job[p].in # "off" /\ job[p].t = p /\ txn[p].state = "none"
             THEN BOOLEAN ELSE {FALSE}

Fail(p) ==
    /\ job[p].in \notin {"off", "wait"}
    /\ Fault
    /\ \E left \in Leaves(p): Failing(p, left, FALSE)
    /\ UNCHANGED <<dest, backup, published>>

\* The updater is interrupted or its deadline passes: SIGTERM to the group of
\* its installer, which may have ended a moment ago.
Cancel(p) ==
    /\ job[p].up = "run" /\ ~job[p].canceled
    /\ Fault
    /\ \E left \in Leaves(p): Failing(p, left, TRUE)
    /\ UNCHANGED <<dest, backup, published>>

\* Transactions left by others, in the order of their names.
Recover(p) ==
    /\ job[p].in = "recover"
    /\ \E t \in {q \in Procs: txn[q].dir}:
         IF txn[t].state = "none"
         THEN IF txn[t].tmp
              THEN job' = Exited(p, FALSE) /\ lock' = LockAfter(p) /\ UNCHANGED txn
              ELSE txn' = [txn EXCEPT ![t].dir = FALSE] /\ UNCHANGED <<job, lock>>
         ELSE /\ job' = [job EXCEPT ![p].t = t, ![p].part = "binary",
                           ![p].half = FALSE, ![p].failed = FALSE,
                           ![p].in = CASE txn[t].state = "cleanup_pending" -> "clean"
                                       [] txn[t].state = "committed" -> "finish"
                                       [] OTHER -> "undo"]
              /\ UNCHANGED <<lock, txn>>
    /\ UNCHANGED <<dest, backup, published, faults>>

\* No transaction is left.  A backup that none accounts for refuses the
\* install; otherwise p's own transaction directory is made.
Begin(p) ==
    /\ job[p].in = "recover"
    /\ \A q \in Procs: ~txn[q].dir
    /\ IF \E c \in Parts: There(backup[c])
       THEN job' = Exited(p, FALSE) /\ lock' = LockAfter(p) /\ UNCHANGED txn
       ELSE /\ job' = [job EXCEPT ![p].in = "script", ![p].t = p, ![p].step = 1]
            /\ txn' = [txn EXCEPT ![p].dir = TRUE]
            /\ UNCHANGED lock
    /\ UNCHANGED <<dest, backup, published, faults>>

-----------------------------------------------------------------------------
(* The installer: the forward steps.                                       *)

At(p, op) == job[p].in = "script" /\ Script[job[p].step].op = op
Arg(p)    == Script[job[p].step].arg
Advance(p) ==
    job' = IF job[p].step < Len(Script)
           THEN [job EXCEPT ![p].step = @ + 1]
           ELSE [job EXCEPT ![p].in = "finish", ![p].part = "binary"]
rest == <<lock, published, faults>>

\* manifest_write: a new manifest replaces the old one.
WriteManifest(p) ==
    /\ At(p, "journal")
    /\ txn' = [txn EXCEPT ![p].state = Arg(p),
                 ![p].ids = @ \cup {c \in Parts: There(txn[p].stage[c])},
                 ![p].orig = IF txn[p].state = "none" THEN dest ELSE @]
    /\ Advance(p)
    /\ UNCHANGED <<dest, backup, rest>>

\* An empty stage next to the destination; its inode stays the same.
CreateStage(p) ==
    /\ At(p, "create")
    /\ txn' = [txn EXCEPT ![p].stage[Arg(p)] =
                 [by |-> p, ver |-> job[p].ver, whole |-> FALSE]]
    /\ Advance(p)
    /\ UNCHANGED <<dest, backup, rest>>

CopyStage(p) ==
    /\ At(p, "copy")
    /\ txn' = [txn EXCEPT ![p].stage[Arg(p)].whole = TRUE]
    /\ Advance(p)
    /\ UNCHANGED <<dest, backup, rest>>

Snapshot(p) ==
    /\ At(p, "snapshot")
    /\ txn' = [txn EXCEPT ![p].snap = @ \cup {Arg(p)}]
    /\ Advance(p)
    /\ UNCHANGED <<dest, backup, rest>>

\* Deviation: the old part is deleted, not kept.
BackUpNothing(p) ==
    /\ At(p, "backup")
    /\ dest' = [dest EXCEPT ![Arg(p)] = Absent]
    /\ Advance(p)
    /\ UNCHANGED <<backup, txn, rest>>

\* The old part, still the one the journal names, moves out of the way.
BackUp(p) ==
    /\ At(p, "backup")
    /\ dest[Arg(p)] = txn[p].orig[Arg(p)]
    /\ dest' = [dest EXCEPT ![Arg(p)] = Absent]
    /\ backup' = [backup EXCEPT ![Arg(p)] = dest[Arg(p)]]
    /\ Advance(p)
    /\ UNCHANGED <<txn, rest>>

InstallPart(p) ==
    /\ At(p, "install")
    /\ dest' = [dest EXCEPT ![Arg(p)] = txn[p].stage[Arg(p)]]
    /\ txn' = [txn EXCEPT ![p].stage[Arg(p)] = Absent]
    /\ Advance(p)
    /\ UNCHANGED <<backup, rest>>

\* Digests of both parts, then the version the new binary prints.
VerifyParts(p) ==
    /\ At(p, "verify")
    /\ \A c \in Parts: dest[c] = [by |-> p, ver |-> job[p].ver, whole |-> TRUE]
    /\ Advance(p)
    /\ UNCHANGED <<disk, rest>>

-----------------------------------------------------------------------------
(* The installer: rollback, finalization and cleanup of transaction job.t. *)

Had(t, c) == There(txn[t].orig[c])

\* component_matches_snapshot
MatchesSnapshot(t, c) ==
    /\ dest[c].by = t /\ dest[c].whole
    /\ c \in txn[t].ids /\ c \in txn[t].snap

\* component_original_matches compares identities, never contents.
OriginalAt(t, c, x) == Had(t, c) /\ There(x) /\ x.by = txn[t].orig[c].by

Undoing(p) == job[p].in = "undo" /\ ~job[p].half

\* The routine over job.t ends: on to the next transaction, or exit.
Return(p, good) ==
    LET j == job[p] IN
    IF j.t # p /\ good THEN job' = [job EXCEPT ![p].in = "recover"] /\ UNCHANGED lock
    ELSE /\ job' = Exited(p, good /\ ~j.trap)
         /\ lock' = LockAfter(p)

\* After the binary comes the skill, then the directory unless one failed.
NextPart(p, good) ==
    LET j == job[p] IN
    IF j.part = "binary"
    THEN job' = [job EXCEPT ![p].part = "skill", ![p].failed = ~good] /\ UNCHANGED lock
    ELSE IF good /\ ~j.failed
    THEN job' = [job EXCEPT ![p].in = "clean"] /\ UNCHANGED lock
    ELSE Return(p, FALSE)

\* May p's rollback remove what is at the destination?
Replaced(t, c) ==
    /\ There(dest[c]) /\ MatchesSnapshot(t, c)
    /\ IF There(backup[c]) THEN OriginalAt(t, c, backup[c]) ELSE ~Had(t, c)

\* remove_component_destination; `rm -rf` of the skill takes several steps.
UndoRemove(p) ==
    LET t == job[p].t  c == job[p].part IN
    /\ Undoing(p) /\ Replaced(t, c)
    /\ IF c = "binary"
       THEN dest' = [dest EXCEPT ![c] = Absent] /\ UNCHANGED job
       ELSE /\ dest' = [dest EXCEPT ![c].whole = FALSE]
            /\ job' = [job EXCEPT ![p].half = TRUE]
    /\ UNCHANGED <<backup, txn, rest>>

UndoRemoved(p) ==
    /\ job[p].in = "undo" /\ job[p].half
    /\ dest' = [dest EXCEPT !["skill"] = Absent]
    /\ job' = [job EXCEPT ![p].half = FALSE]
    /\ UNCHANGED <<backup, txn, rest>>

\* restore_component_backup
UndoRestore(p) ==
    LET t == job[p].t  c == job[p].part IN
    /\ Undoing(p) /\ OriginalAt(t, c, backup[c]) /\ ~There(dest[c])
    /\ dest' = [dest EXCEPT ![c] = backup[c]]
    /\ backup' = [backup EXCEPT ![c] = Absent]
    /\ UNCHANGED <<job, txn, rest>>

Restored(t, c) ==
    /\ ~There(backup[c])
    /\ IF Had(t, c) THEN OriginalAt(t, c, dest[c]) ELSE ~There(dest[c])

\* remove_component_stage: a stage whose identity was never recorded stays.
UndoStage(p) ==
    LET t == job[p].t  c == job[p].part IN
    /\ Undoing(p) /\ Restored(t, c)
    /\ txn' = IF c \in txn[t].ids THEN [txn EXCEPT ![t].stage[c] = Absent] ELSE txn
    /\ NextPart(p, TRUE)
    /\ UNCHANGED <<dest, backup, published, faults>>

\* The disk is not what the journal describes: nothing is touched.
UndoRefused(p) ==
    LET t == job[p].t  c == job[p].part IN
    /\ Undoing(p)
    /\ ~Replaced(t, c) /\ ~Restored(t, c)
    /\ ~(OriginalAt(t, c, backup[c]) /\ ~There(dest[c]))
    /\ NextPart(p, FALSE)
    /\ UNCHANGED <<disk, published, faults>>

\* Both parts are what the journal describes; nothing makes this false while
\* the transaction is committed (see Resumable).
FinishAllowed(t) ==
    /\ \A c \in Parts: MatchesSnapshot(t, c)
    /\ \A c \in Parts: There(backup[c]) => OriginalAt(t, c, backup[c])

\* finalize_committed_transaction removes the backups it accounts for; that
\* of the skill in several steps.
FinishBackup(p) ==
    LET t == job[p].t  c == job[p].part IN
    /\ job[p].in = "finish" /\ FinishAllowed(t)
    /\ IF c = "skill" /\ backup[c].whole
       THEN backup' = [backup EXCEPT ![c].whole = FALSE] /\ UNCHANGED job
       ELSE /\ backup' = [backup EXCEPT ![c] = Absent]
            /\ job' = IF c = "binary" THEN [job EXCEPT ![p].part = "skill"]
                                      ELSE [job EXCEPT ![p].in = "clean"]
    /\ UNCHANGED <<dest, txn, rest>>

\* Deviation: the snapshots go before the journal says so.
CleanMarkNever(p) ==
    LET t == job[p].t IN
    /\ job[p].in = "clean" /\ txn[t].state # "cleanup_pending" /\ txn[t].snap # {}
    /\ txn' = [txn EXCEPT ![t].snap = {}]
    /\ UNCHANGED <<job, dest, backup, rest>>

\* Nothing of the effects is left to do once the journal says so.
CleanMark(p) ==
    LET t == job[p].t IN
    /\ job[p].in = "clean" /\ txn[t].state \notin {"cleanup_pending", "none"}
    /\ txn' = [txn EXCEPT ![t].state = "cleanup_pending"]
    /\ UNCHANGED <<job, dest, backup, rest>>

CleanSnapshot(p) ==
    LET t == job[p].t IN
    /\ job[p].in = "clean" /\ txn[t].state = "cleanup_pending"
    /\ \/ "binary" \in txn[t].snap /\ txn' = [txn EXCEPT ![t].snap = @ \ {"binary"}]
       \/ txn[t].snap = {"skill"} /\ txn' = [txn EXCEPT ![t].snap = {}]
    /\ UNCHANGED <<job, dest, backup, rest>>

CleanManifest(p) ==
    LET t == job[p].t IN
    /\ job[p].in = "clean" /\ txn[t].state = "cleanup_pending" /\ txn[t].snap = {}
    /\ txn' = [txn EXCEPT ![t].state = "none", ![t].ids = {},
                          ![t].orig = [c \in Parts |-> Absent]]
    /\ UNCHANGED <<job, dest, backup, rest>>

CleanDirectory(p) ==
    LET t == job[p].t IN
    /\ job[p].in = "clean" /\ txn[t].state = "none"
    /\ txn' = [txn EXCEPT ![t].dir = FALSE]
    /\ Return(p, TRUE)
    /\ UNCHANGED <<dest, backup, published, faults>>

-----------------------------------------------------------------------------
(* Processes stop.                                                         *)

\* SIGKILL of the installer alone; after a cancellation it follows SIGTERM
\* by five seconds.
KillInstaller(p) ==
    /\ job[p].in # "off"
    /\ Fault
    /\ job' = Exited(p, FALSE)
    /\ lock' = LockAfter(p)
    /\ \E left \in Leaves(p): txn' = [txn EXCEPT ![p].tmp = left /\ job[p].in = "script"]
    /\ UNCHANGED <<dest, backup, published>>

\* The descriptor the installer inherited keeps the flock.
LockWithoutUpdater(p) == IF lock = p /\ job[p].in = "off" THEN NoOne ELSE lock

\* The updater is killed; an installer it started goes on with the lock.
KillUpdater(p) ==
    /\ job[p].up \notin {"off", "done", "dead"}
    /\ Fault
    /\ job' = [job EXCEPT ![p].up = "dead"]
    /\ lock' = LockWithoutUpdater(p)
    /\ UNCHANGED <<disk, published>>

\* Every process ends at once.
PowerLoss ==
    /\ Fault
    /\ job' = [p \in Procs |->
         [Gone(job[p], FALSE) EXCEPT
            !.up = IF @ \in {"off", "done"} THEN @ ELSE "dead"]]
    /\ lock' = NoOne
    /\ UNCHANGED <<disk, published>>

Updater(p) == StartUpdate(p) \/ FetchLatest(p) \/ DownloadManifest(p)
    \/ DownloadArchive(p) \/ Refuse(p) \/ Extract(p)
    \/ TakeLock(p) \/ ReadInstalled(p) \/ RunInstaller(p) \/ InstallerEnded(p)
    \/ VerifyInstalled(p) \/ Cleanup(p) \/ CloseLock(p) \/ Cancel(p)

Installer(p) == StartDirect(p) \/ AcquireLock(p) \/ LockTimeout(p)
    \/ Recover(p) \/ Begin(p) \/ WriteManifest(p) \/ CreateStage(p)
    \/ CopyStage(p) \/ Snapshot(p) \/ BackUp(p) \/ InstallPart(p)
    \/ VerifyParts(p) \/ UndoRemove(p) \/ UndoRemoved(p) \/ UndoRestore(p)
    \/ UndoStage(p) \/ UndoRefused(p) \/ FinishBackup(p)
    \/ CleanMark(p) \/ CleanSnapshot(p) \/ CleanManifest(p) \/ CleanDirectory(p)

Next == \/ Publish \/ PowerLoss
        \/ \E p \in Procs: Updater(p) \/ Installer(p) \/ Fail(p)
                           \/ KillInstaller(p) \/ KillUpdater(p)

Spec == Init /\ [][Next]_vars

-----------------------------------------------------------------------------
(* What replacing an installation promises.                                *)

\* What a user has: under an unfinished transaction, what it would restore.
Installed ==
    [c \in Parts |->
       IF \E t \in Procs: InFlight(t)
       THEN LET t == CHOOSE t \in Procs: InFlight(t)
            IN IF There(backup[c]) THEN backup[c]
               ELSE IF Had(t, c) THEN dest[c] ELSE Absent
       ELSE dest[c]]

\* At any moment the user has one installation, binary and skill together,
\* replaced in one step when the journal says committed, however many
\* installers were stopped on the way.
Promise == INSTANCE InstallPromise WITH installed <- Installed
ImplementsPromise == Promise!Spec

TypeOK ==
    /\ dest \in [Parts -> Items] /\ backup \in [Parts -> Items]
    /\ txn \in [Procs -> [dir: BOOLEAN, tmp: BOOLEAN, state: JournalStates,
                          ids: SUBSET Parts, orig: [Parts -> Items],
                          stage: [Parts -> Items], snap: SUBSET Parts]]
    /\ lock \in Procs \cup {NoOne}
    /\ job \in [Procs -> [kind: {"none", "update", "direct"}, ver: 0..MaxRelease,
         up: UpSteps, in: InSteps, mixed: BOOLEAN, step: 1..Len(Script),
         t: Procs \cup {NoOne}, part: Parts, half: BOOLEAN, failed: BOOLEAN,
         trap: BOOLEAN, ok: BOOLEAN, canceled: BOOLEAN, result: Results]]
    /\ published \in Releases /\ faults \in 0..MaxFaults

\* Whoever reads the installed version, changes the disk or verifies the
\* result has the flock, an orphaned installer included, and at most one
\* transaction has a journal.
UpdateInv ==
    /\ TypeOK
    /\ \A p \in Procs: HasLock(p) \/ job[p].in \notin {"off", "wait"} => lock = p
    /\ Cardinality({t \in Procs: txn[t].state # "none"}) <= 1

\* A result that says the installation was verified is right, and one that
\* says nothing was attempted or needed leaves nothing of its package behind.
ReportTrue == \A p \in Procs:
    /\ job[p].result = "complete" /\ lock = p =>
         \A c \in Parts: /\ dest[c] = [by |-> p, ver |-> job[p].ver, whole |-> TRUE]
                         /\ ~There(backup[c])
    /\ job[p].result \in {"refused", "current"} =>
         ~txn[p].dir /\ \A c \in Parts: p \notin {dest[c].by, backup[c].by}

\* An update never replaces an installation by the same or an older release,
\* although another updater may have installed one while it waited, unless
\* the version it read was that of an interrupted install (mixed), which its
\* own installer then undoes.
NoDowngrade == [][\A p \in Procs:
    job[p].kind = "update" /\ txn'[p].state = "committed" /\ txn[p].state # "committed"
      => Installed["binary"].ver < job[p].ver \/ job[p].mixed]_vars

\* Rollback was stopped inside the removal of the new skill.
SkillTorn(t) == dest["skill"].by = t /\ ~dest["skill"].whole

\* Whatever stopped an installer, the next one can finish or undo its
\* transaction; it may refuse only a directory whose journal was never
\* published and a skill whose removal was cut short.
Resumable == \A t \in Procs:
    /\ InFlight(t) => SkillTorn(t) \/ \A c \in Parts:
         \/ Replaced(t, c) \/ Restored(t, c)
         \/ OriginalAt(t, c, backup[c]) /\ ~There(dest[c])
         \/ \E p \in Procs: job[p].in # "off"
    /\ txn[t].state = "committed" => FinishAllowed(t)

\* One process at a time changes the installation, it leaves something the
\* next can finish, and it says what it did (acquireUpdateLock,
\* recover_transactions, updateInstallOutcome).
UpdateSound == UpdateInv /\ Resumable /\ ReportTrue
=============================================================================
