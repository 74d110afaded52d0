----------------------------- MODULE DraftLease -----------------------------
(***************************************************************************)
(* The per-draft lease: a BSD flock on <REF>.lock in the pinned draft      *)
(* directory (internal/mail/draft_state.go, draft_lock_darwin.go).         *)
(*                                                                         *)
(* The lock file itself is unlinked when its draft is consumed, discarded  *)
(* or missing, so a flock alone excludes nobody: a process may hold the    *)
(* flock of an inode that no longer has a name while another one creates   *)
(* a new file under the same name.  The protocol therefore compares inodes *)
(* after the flock (openPinnedDraftStorage) and before the unlink          *)
(* (draftLockResource.remove).  Every system call is an action here.       *)
(*                                                                         *)
(* An inode number may be reused once it has neither a name nor an open    *)
(* descriptor.  A process is one operation at a time; it starts over after *)
(* it closed its descriptor.                                               *)
(***************************************************************************)
CONSTANTS Procs,      \* concurrent mailcli operations on one draft
          NoProc,
          Inodes,     \* inode numbers the file system hands out
          NoInode,
          Faults      \* TRUE: operations may also time out, fail or be killed

ASSUME LeaseAssumption ==
  /\ NoProc \notin Procs
  /\ NoInode \notin Inodes
  /\ Faults \in BOOLEAN

VARIABLES
  path,     \* the inode <REF>.lock names, NoInode when the file is absent
  flock,    \* per inode, the process whose descriptor holds LOCK_EX
  fd,       \* per process, the inode its lock descriptor refers to
  pc,       \* per process, the system call it makes next
  doc       \* <REF>.json: not created yet, present, or removed for good

vars == <<path, flock, fd, pc, doc>>

(* "reopen"       the exclusive create failed with EEXIST                  *)
(* "poll"         acquireDraftLease waits for the flock                    *)
(* "pin"          it has the flock and has not compared inodes yet         *)
(* "leased"       the operation runs                                       *)
(* "unlink"       remove() found its own inode under the name              *)
(* "unlinked"     the operation goes on without a named lock               *)
(* "sweepOpen" .. the orphan-lock sweep of drafts prune                    *)
(* "probe" ..     the nonblocking busy probe of the artifact sweep         *)
States == {"idle", "reopen", "poll", "pin", "leased", "unlink", "unlinked",
           "sweepOpen", "sweepTry", "sweepCheck", "sweepUnlink",
           "probeTry", "probeHeld"}

TypeOK ==
  /\ path \in Inodes \cup {NoInode}
  /\ flock \in [Inodes -> Procs \cup {NoProc}]
  /\ fd \in [Procs -> Inodes \cup {NoInode}]
  /\ pc \in [Procs -> States]
  /\ doc \in {"new", "live", "gone"}

Init ==
  /\ path = NoInode
  /\ flock = [i \in Inodes |-> NoProc]
  /\ fd = [p \in Procs |-> NoInode]
  /\ pc = [p \in Procs |-> "idle"]
  /\ doc = "new"

(* The kernel reuses an inode number only without a name and a descriptor. *)
Unused(i) == i # path /\ \A p \in Procs : fd[p] # i

Goto(p, s) == pc' = [pc EXCEPT ![p] = s]

(* close(2) ends the descriptor and with it the flock held through it. *)
Close(p) ==
  /\ flock' = [i \in Inodes |-> IF flock[i] = p THEN NoProc ELSE flock[i]]
  /\ fd' = [fd EXCEPT ![p] = NoInode]
  /\ Goto(p, "idle")

OpenNamed(p, s) ==
  /\ path # NoInode
  /\ fd' = [fd EXCEPT ![p] = path]
  /\ Goto(p, s)
  /\ UNCHANGED <<path, flock, doc>>

(* The file vanished before the plain open: the operation reports it. *)
OpenMissing(p) ==
  /\ path = NoInode
  /\ Goto(p, "idle")
  /\ UNCHANGED <<path, flock, fd, doc>>

-----------------------------------------------------------------------------
(* acquireDraftLease *)

OpenCreate(p) ==
  /\ pc[p] = "idle"
  /\ path = NoInode
  /\ \E i \in Inodes :
       /\ Unused(i)
       /\ path' = i
       /\ fd' = [fd EXCEPT ![p] = i]
  /\ Goto(p, "poll")
  /\ UNCHANGED <<flock, doc>>

OpenExists(p) ==
  /\ pc[p] = "idle"
  /\ path # NoInode
  /\ Goto(p, "reopen")
  /\ UNCHANGED <<path, flock, fd, doc>>

Reopen(p) == pc[p] = "reopen" /\ (OpenNamed(p, "poll") \/ OpenMissing(p))

TryLock(p, from, to) ==
  /\ pc[p] = from
  /\ flock[fd[p]] = NoProc
  /\ flock' = [flock EXCEPT ![fd[p]] = p]
  /\ Goto(p, to)
  /\ UNCHANGED <<path, fd, doc>>

Lock(p) == TryLock(p, "poll", "pin")

(* Deviation: the inode under the name is not compared.                    *)
PinUnchecked(p) ==
  /\ pc[p] = "pin"
  /\ Goto(p, "leased")
  /\ UNCHANGED <<path, flock, fd, doc>>

Pin(p) ==
  /\ pc[p] = "pin"
  /\ path = fd[p]
  /\ Goto(p, "leased")
  /\ UNCHANGED <<path, flock, fd, doc>>

(* draft_lock_changed: the flock is on a file that lost its name. *)
PinChanged(p) ==
  /\ pc[p] = "pin"
  /\ path # fd[p]
  /\ Close(p)
  /\ UNCHANGED <<path, doc>>

-----------------------------------------------------------------------------
(* The operation under the lease *)

(* writeDraftFileContext publishes a new draft under its own lease. *)
Publish(p) ==
  /\ pc[p] = "leased"
  /\ doc = "new"
  /\ doc' = "live"
  /\ UNCHANGED <<path, flock, fd, pc>>

(* discardDraftFiles removes <REF>.json for good; references are random. *)
Consume(p) ==
  /\ pc[p] = "leased"
  /\ doc = "live"
  /\ doc' = "gone"
  /\ UNCHANGED <<path, flock, fd, pc>>

(* remove(): reopen the name and compare it with the leased inode ...      *)
RemoveCheck(p) ==
  /\ pc[p] = "leased"
  /\ doc # "live"
  /\ path = fd[p]
  /\ Goto(p, "unlink")
  /\ UNCHANGED <<path, flock, fd, doc>>

(* ... and unlink whatever the name refers to by then.                     *)
Unlink(p) ==
  /\ pc[p] = "unlink"
  /\ path' = NoInode
  /\ Goto(p, "unlinked")
  /\ UNCHANGED <<flock, fd, doc>>

(* The deferred release; a live draft keeps its lock file.                 *)
Release(p) ==
  /\ pc[p] = "unlinked" \/ (pc[p] = "leased" /\ doc = "live")
  /\ Close(p)
  /\ UNCHANGED <<path, doc>>

-----------------------------------------------------------------------------
(* drafts prune: sweepOrphanDraftLockRef and draftArtifactRefBusy *)

SweepBegin(p) ==
  /\ pc[p] = "idle"
  /\ path # NoInode
  /\ doc # "live"
  /\ Goto(p, "sweepOpen")
  /\ UNCHANGED <<path, flock, fd, doc>>

SweepOpen(p) ==
  pc[p] = "sweepOpen" /\ (OpenNamed(p, "sweepTry") \/ OpenMissing(p))

SweepLock(p) == TryLock(p, "sweepTry", "sweepCheck")

ProbeOpen(p) == pc[p] = "idle" /\ OpenNamed(p, "probeTry")

ProbeLock(p) == TryLock(p, "probeTry", "probeHeld")

TryBusy(p) ==
  /\ pc[p] \in {"sweepTry", "probeTry"}
  /\ flock[fd[p]] # NoProc
  /\ Close(p)
  /\ UNCHANGED <<path, doc>>

SweepCheck(p) ==
  /\ pc[p] = "sweepCheck"
  /\ path = fd[p]
  /\ Goto(p, "sweepUnlink")
  /\ UNCHANGED <<path, flock, fd, doc>>

SweepChanged(p) ==
  /\ pc[p] = "sweepCheck"
  /\ path # fd[p]
  /\ Close(p)
  /\ UNCHANGED <<path, doc>>

SweepUnlink(p) ==
  /\ pc[p] = "sweepUnlink"
  /\ path' = NoInode
  /\ Close(p)
  /\ UNCHANGED doc

ProbeDone(p) ==
  /\ pc[p] = "probeHeld"
  /\ Close(p)
  /\ UNCHANGED <<path, doc>>

-----------------------------------------------------------------------------
(* The two-second lock budget, an error return, or a kill: the descriptor  *)
(* is closed wherever the operation is, and nothing is undone.             *)
Abandon(p) ==
  /\ Faults
  /\ pc[p] # "idle"
  /\ Close(p)
  /\ UNCHANGED <<path, doc>>

Step(p) ==
  \/ Reopen(p) \/ Lock(p) \/ Pin(p) \/ PinChanged(p)
  \/ RemoveCheck(p) \/ Unlink(p) \/ Release(p)
  \/ SweepOpen(p) \/ SweepLock(p) \/ SweepCheck(p) \/ SweepChanged(p)
  \/ SweepUnlink(p) \/ TryBusy(p) \/ ProbeLock(p) \/ ProbeDone(p)

Start(p) ==
  \/ OpenCreate(p) \/ OpenExists(p) \/ SweepBegin(p) \/ ProbeOpen(p)

Next ==
  \E p \in Procs :
    Start(p) \/ Step(p) \/ Publish(p) \/ Consume(p) \/ Abandon(p)

Spec == Init /\ [][Next]_vars

-----------------------------------------------------------------------------
(* A process owns the draft from the comparison that pinned its lock until *)
(* that lock loses its name.                                               *)
Owns(p) == pc[p] \in {"leased", "unlink"}

(* No two operations own one draft at a time, although the file their      *)
(* flocks live on is unlinked and created again by sends, discards, failed *)
(* mutations and the sweep (acquireDraftLease, remove).                    *)
LeaseExclusive == \A p, q \in Procs : Owns(p) /\ Owns(q) => p = q

(* The owner's lock file stays under its name until the owner unlinks it:  *)
(* later arrivals queue on the inode the owner has locked (remove,         *)
(* sweepOrphanDraftLock).                                                  *)
OwnerNamed == \A p \in Procs : Owns(p) => path = fd[p] /\ flock[path] = p

(* The name is unlinked only by a process that holds the flock of the very *)
(* inode under that name, although comparison and unlink are two calls.    *)
UnlinkOwnOnly ==
  [][path # NoInode /\ path' = NoInode
       => \E p \in Procs : flock[path] = p /\ pc[p] \in {"unlink", "sweepUnlink"}]_vars

-----------------------------------------------------------------------------
(* The inductive invariant behind LeaseExclusive.  An flock belongs to the *)
(* one open descriptor of its process; whoever passed a lock call still    *)
(* has it; and whoever compared inodes under its flock still finds its own *)
(* inode under the name, because nobody else can have passed both tests.   *)
Holding == {"pin", "leased", "unlink", "unlinked", "sweepCheck", "sweepUnlink",
            "probeHeld"}

FlockOnDescriptor == \A i \in Inodes, p \in Procs : flock[i] = p => fd[p] = i

DescriptorOpen ==
  \A p \in Procs : fd[p] = NoInode <=> pc[p] \in {"idle", "reopen", "sweepOpen"}

HoldersLocked == \A p \in Procs : pc[p] \in Holding => flock[fd[p]] = p

ComparedNamed ==
  \A p \in Procs : pc[p] \in {"leased", "unlink", "sweepUnlink"} => path = fd[p]

LeaseInv ==
  TypeOK /\ FlockOnDescriptor /\ DescriptorOpen /\ HoldersLocked /\ ComparedNamed

-----------------------------------------------------------------------------
Owner == IF \E p \in Procs : Owns(p) THEN CHOOSE p \in Procs : Owns(p) ELSE NoProc

Mutex == INSTANCE LeaseMutex WITH owner <- Owner

(* The lock-file protocol implements the abstract lease.                   *)
ImplementsMutex == Mutex!MutexSpec
=============================================================================
