--------------------------- MODULE AttachmentSave ---------------------------
(* Saving an attachment: the bytes come from a file Mail keeps, from the    *)
(* local message or from the server (MessageSource), are written to a       *)
(* temporary name and published at the output path by a hard link.          *)
(*                                                                          *)
(* Names in a directory belong to nobody. Between any two calls another     *)
(* process may unlink, replace, write or chmod what stands under them, or   *)
(* replace the directory, and Mail may change its own file. The saver must  *)
(* remove only what it created, must not leave its own files behind when it *)
(* fails, and must not call anything saved but the complete, private bytes. *)
EXTENDS MessageSource

CONSTANT MaxOthers   \* what other processes do in the output directory

VARIABLES
    d,     \* the saver: its place, what it holds, what it will answer
    fs,    \* the directory: what stands under the temporary and the output name
    con,   \* the two files it may create: bytes, mode, written by others
    ext,   \* the file in which Mail keeps the attachment
    seen   \* history: what others did, and what happened to their files

saving == <<d, fs, con, ext, seen>>

Ours == {"temp", "copy"}
ASSUME SaveAssumption == None \notin Ours \cup {"other", "tmp", "out", "file", "complete", "none", "unknown"}

NewFile == [data |-> "none", private |-> TRUE, touched |-> FALSE]

SaveInit ==
    /\ ReadInit
    /\ d = [pc |-> "idle", from |-> None, pin |-> None, dirty |-> FALSE, rm |-> None,
            captured |-> FALSE, out |-> None, owned |-> FALSE, published |-> FALSE,
            retain |-> FALSE, err |-> FALSE, certainty |-> None]
    /\ con = [o \in Ours |-> NewFile]
    /\ seen = [others |-> 0, blind |-> FALSE, harmed |-> FALSE, kept |-> FALSE]
    /\ IF q.kind = "save"
       THEN /\ r["a"].ref.v = 0 /\ r["a"].ref.id = None
            /\ \E o \in {None, "other"}, l \in BOOLEAN :
                fs = [tmp |-> None, out |-> o, moved |-> FALSE, links |-> l]
            /\ \E st \in {"norow", "none", "one", "many"} : ext = [st |-> st, ino |-> 1, mtime |-> 1]
       ELSE /\ fs = [tmp |-> None, out |-> None, moved |-> FALSE, links |-> TRUE]
            /\ ext = [st |-> "none", ino |-> 1, mtime |-> 1]

Saver(pc) == d.pc = pc /\ UNCHANGED <<q, srv, idx, lv, file, cache, page, torn>>
Keeps == UNCHANGED <<r, left>>
Then(x, pc) == [x EXCEPT !.pc = pc]
Fails(x) == [x EXCEPT !.pc = "cleanup", !.err = TRUE]
----------------------------------------------------------------------------
(* Where the bytes come from. *)

\* validateAttachmentRequest, openAttachmentPublication: the output name is
\* free, the directory is pinned.
OpenPublication ==
    /\ Saver("idle") /\ q.kind = "save"
    /\ IF fs.out # None
       THEN d' = [Then(d, "done") EXCEPT !.err = TRUE] /\ UNCHANGED r
       ELSE d' = Then(d, "source") /\ Goes("a", [r["a"] EXCEPT !.pc = "resolve"])
    /\ UNCHANGED <<fs, con, ext, seen, left>>

\* findExternalAttachment: one file, or several with the same bytes.
Pinned(x) == IF ext.st = "one" THEN [Then(x, "hash") EXCEPT !.from = "file", !.pin = ext] ELSE Fails(x)
Stored == ext.st \in {"one", "many"}

\* saveAttachmentToWithEvidence: Mail's file first, then the part of a full
\* message.
UseStored ==
    /\ Saver("source") /\ r["a"].pc = "use"
    /\ IF Stored
       THEN d' = Pinned(d) /\ Goes("a", [r["a"] EXCEPT !.pc = "write", !.got = "a"])
       ELSE IF r["a"].open = "full"
       THEN d' = [Then(d, "create") EXCEPT !.from = "local"] /\ Goes("a", [Locally(r["a"]) EXCEPT !.pc = "write"])
       ELSE Goes("a", [r["a"] EXCEPT !.pc = "again"]) /\ UNCHANGED d
    /\ UNCHANGED <<fs, con, ext, seen, left>>

\* saveMaterializedAttachmentWithEvidence: Mail's file without the message;
\* whatever fails here is final. Otherwise the message is fetched.
UseMaterialized ==
    /\ Saver("source") /\ r["a"].pc = "again"
    /\ IF Resolves(r["a"].ref) /\ ~Stored
       THEN Goes("a", Hydrate(r["a"])) /\ UNCHANGED d
       ELSE IF Resolves(r["a"].ref)
       THEN d' = Pinned(d) /\ Goes("a", [r["a"] EXCEPT !.pc = "write", !.got = "a"])
       ELSE Goes("a", Refuse(r["a"])) /\ d' = Fails(d)
    /\ UNCHANGED <<fs, con, ext, seen, left>>

SourceEnds ==
    /\ Saver("source") /\ r["a"].pc \in {"write", "done"}
    /\ d' = IF r["a"].pc = "done" THEN Fails(d) ELSE [Then(d, "create") EXCEPT !.from = "imap"]
    /\ Keeps /\ UNCHANGED <<fs, con, ext, seen>>

\* hashStoreFile: the digest of the pinned file.
HashFile ==
    /\ Saver("hash")
    /\ d' = IF ext = d.pin THEN Then(d, "create") ELSE Fails(d)
    /\ Keeps /\ UNCHANGED <<fs, con, ext, seen>>
----------------------------------------------------------------------------
(* writeAttachmentOutputWithEvidence: the temporary file. *)

CreateTemp ==
    /\ Saver("create")
    /\ IF (d.from = "file" /\ ext # d.pin) \/ fs.moved \/ fs.tmp # None
       THEN d' = Fails(d) /\ UNCHANGED <<fs, con>>
       ELSE /\ d' = Then(d, "write")
            /\ fs' = [fs EXCEPT !.tmp = "temp"]
            /\ con' = [con EXCEPT !["temp"] = NewFile]
    /\ Keeps /\ UNCHANGED <<ext, seen>>

\* The bytes must have the digest the file had before.
WriteTemp ==
    /\ Saver("write")
    /\ con' = [con EXCEPT !["temp"].data = IF con["temp"].touched \/ d.dirty THEN "bad" ELSE "good"]
    /\ d' = Then(d, IF d.dirty THEN "unwrite" ELSE "verify")
    /\ Keeps /\ UNCHANGED <<fs, ext, seen>>

\* verifyAttachmentOutput: the bytes are read back, the name still is theirs.
VerifyTemp ==
    /\ Saver("verify")
    /\ d' = Then(d, IF ~fs.moved /\ fs.tmp = "temp" /\ con["temp"].data = "good" THEN "evidence" ELSE "unwrite")
    /\ Keeps /\ UNCHANGED <<fs, con, ext, seen>>

\* The file's identity, size and time become the evidence.
TakeEvidence ==
    /\ Saver("evidence")
    /\ con' = [con EXCEPT !["temp"].touched = FALSE]
    /\ d' = Then(d, IF d.from = "file" THEN "recheck" ELSE "capture")
    /\ Keeps /\ UNCHANGED <<fs, ext, seen>>

\* copyExternalAttachmentWithEvidence, afterwards: Mail's file has not changed.
\* If it has, nobody removes the temporary file: it was not captured yet.
RecheckFile ==
    /\ Saver("recheck")
    /\ d' = IF ext = d.pin THEN Then(d, "capture") ELSE Fails(d)
    /\ seen' = [seen EXCEPT !.kept = @ \/ ext # d.pin]
    /\ Keeps /\ UNCHANGED <<fs, con, ext>>

\* Deviation: what stands under the name is removed unseen.
OwnedNameAlways(name, o) == TRUE

\* The name still has the identity of the file that was created.
OwnedName(name, o) == fs[name] = o

\* removeOwnedAttachmentOutput.
UndoWrite ==
    /\ Saver("unwrite")
    /\ d' = IF fs.tmp # None /\ OwnedName("tmp", "temp")
            THEN [Then(d, "drop") EXCEPT !.rm = "tmp", !.err = TRUE] ELSE Fails(d)
    /\ Keeps /\ UNCHANGED <<fs, con, ext, seen>>
----------------------------------------------------------------------------
(* attachmentPublication. *)

\* captureTemporary: a file that replaced the temporary one is not owned.
CaptureTemp ==
    /\ Saver("capture")
    /\ LET same == ~fs.moved /\ fs.tmp = "temp"
           x == [d EXCEPT !.captured = same]
       IN  d' = IF same /\ ~con["temp"].touched THEN Then(x, "publish") ELSE Fails(x)
    /\ Keeps /\ UNCHANGED <<fs, con, ext, seen>>

\* verifyTemporary
TempIntact == ~fs.moved /\ fs.tmp = "temp" /\ ~con["temp"].touched

CheckTemp ==
    /\ Saver("publish")
    /\ d' = IF TempIntact THEN Then(d, "link") ELSE Fails(d)
    /\ Keeps /\ UNCHANGED <<fs, con, ext, seen>>

\* A link never replaces what stands under the name.
Free == fs.out = None /\ fs.tmp # None

\* The link names what stands under the temporary name now.
LinkOutput ==
    /\ Saver("link")
    /\ IF ~fs.links THEN d' = Then(d, "copycreate") /\ UNCHANGED <<fs, seen>>
       ELSE IF ~Free THEN d' = Fails(d) /\ UNCHANGED <<fs, seen>>
       ELSE /\ d' = [Then(d, "openout") EXCEPT !.published = TRUE, !.owned = TRUE]
            /\ fs' = [fs EXCEPT !.out = fs.tmp]
            /\ seen' = [seen EXCEPT !.harmed = @ \/ fs.out = "other"]
    /\ Keeps /\ UNCHANGED <<con, ext>>

\* openPublished
OpenOutput ==
    /\ Saver("openout")
    /\ d' = CASE fs.out = "temp" -> [Then(d, "restrict") EXCEPT !.out = "temp"]
              [] fs.out = None -> Fails(d)
              [] OTHER -> Fails([d EXCEPT !.owned = FALSE])
    /\ Keeps /\ UNCHANGED <<fs, con, ext, seen>>

\* createPublishedCopy, where there are no links.
CreateCopy ==
    /\ Saver("copycreate")
    /\ IF ~TempIntact \/ fs.out # None
       THEN d' = Fails(d) /\ UNCHANGED <<fs, con>>
       ELSE /\ d' = [Then(d, "copy") EXCEPT !.published = TRUE, !.owned = TRUE, !.out = "copy"]
            /\ fs' = [fs EXCEPT !.out = "copy"]
            /\ con' = [con EXCEPT !["copy"] = NewFile]
    /\ Keeps /\ UNCHANGED <<ext, seen>>

\* copyTemporaryBytes: the digest of what was read must be the evidence's.
CopyBytes ==
    /\ Saver("copy")
    /\ con' = [con EXCEPT !["copy"].data = IF con["copy"].touched THEN "bad" ELSE con["temp"].data]
    /\ d' = IF TempIntact /\ con["temp"].data = "good" THEN Then(d, "copystat") ELSE Fails(d)
    /\ Keeps /\ UNCHANGED <<fs, ext, seen>>

StatCopy ==
    /\ Saver("copystat")
    /\ con' = [con EXCEPT !["copy"].touched = FALSE]
    /\ d' = Then(d, "restrict")
    /\ Keeps /\ UNCHANGED <<fs, ext, seen>>

\* verifyPublished, the mode aside.
OutputSame == ~fs.moved /\ fs.out = d.out /\ ~con[d.out].touched

\* A changed output is disowned, a readable one is not.
Checked(private, next) ==
    CASE ~OutputSame -> Fails([d EXCEPT !.owned = FALSE])
      [] OutputSame /\ private /\ ~con[d.out].private -> Fails(d)
      [] OTHER -> next

\* restrictPublished, with the chmod in between; then inspect, twice.
CheckOutput ==
    /\ d.pc \in {"restrict", "restricted", "inspect", "inspected"} /\ Saver(d.pc)
    /\ d' = CASE d.pc = "restrict" -> Checked(FALSE, Then(d, "chmod"))
              [] d.pc = "restricted" ->
                    Checked(TRUE, IF d.out = "temp" THEN Then(d, "checktemp")
                                  ELSE [Then(d, "inspect") EXCEPT !.retain = TRUE])
              [] d.pc = "inspect" -> Checked(TRUE, Then(d, "inspected"))
              [] d.pc = "inspected" -> Checked(TRUE, Then(d, "cleanup"))
    /\ Keeps /\ UNCHANGED <<fs, con, ext, seen>>

Chmod ==
    /\ Saver("chmod")
    /\ con' = [con EXCEPT ![d.out].private = TRUE]
    /\ d' = Then(d, "restricted")
    /\ Keeps /\ UNCHANGED <<fs, ext, seen>>

RecheckTemp ==
    /\ Saver("checktemp")
    /\ d' = IF TempIntact THEN [Then(d, "inspect") EXCEPT !.retain = TRUE] ELSE Fails(d)
    /\ Keeps /\ UNCHANGED <<fs, con, ext, seen>>
----------------------------------------------------------------------------
(* finishAttachmentSave *)

\* removeOwned looks first, and removes in a second call.
RemoveOwned(name, o, next) ==
    CASE fs.moved -> [Then(d, next) EXCEPT !.err = TRUE]
      [] ~fs.moved /\ fs[name] = None -> Then(d, next)
      [] ~fs.moved /\ fs[name] # None /\ OwnedName(name, o) -> [Then(d, "drop") EXCEPT !.rm = name]
      [] OTHER -> [Then(d, next) EXCEPT !.err = TRUE]

CleanOutput ==
    /\ Saver("cleanup")
    /\ d' = IF ~(d.owned /\ d.out # None) THEN Then(d, "cleantemp")
            ELSE IF d.retain
            THEN [Checked(TRUE, d) EXCEPT !.pc = "cleantemp"]
            ELSE RemoveOwned("out", d.out, "cleantemp")
    /\ Keeps /\ UNCHANGED <<fs, con, ext, seen>>

CleanTemp ==
    /\ Saver("cleantemp")
    /\ d' = IF d.captured THEN RemoveOwned("tmp", "temp", "outcome") ELSE Then(d, "outcome")
    /\ Keeps /\ UNCHANGED <<fs, con, ext, seen>>

\* After the output the temporary file is removed, and after it nothing; what
\* the write undid was never captured.
AfterDrop == CASE d.rm = "out" -> "cleantemp" [] d.rm # "out" /\ d.captured -> "outcome" [] OTHER -> "cleanup"

Drop ==
    /\ Saver("drop")
    /\ fs' = [fs EXCEPT ![d.rm] = None]
    /\ seen' = [seen EXCEPT !.harmed = @ \/ (fs[d.rm] = "other")]
    /\ d' = [Then(d, AfterDrop) EXCEPT !.rm = None]
    /\ Keeps /\ UNCHANGED <<con, ext>>

\* Deviation: an output that was published counts as saved.
CompleteIfPublished == d.published

\* outcome: a retained output that still verifies is complete.
Complete == d.published /\ d.retain /\ d.owned /\ OutputSame /\ con[d.out].private

Outcome ==
    /\ Saver("outcome")
    /\ LET c == CASE Complete -> "complete"
                  [] ~Complete /\ ~d.published /\ ~fs.moved /\ fs.out = None -> "none"
                  [] OTHER -> "unknown"
       IN  d' = [Then(d, "close") EXCEPT !.certainty = c, !.err = @ \/ c # "complete"]
    /\ Keeps /\ UNCHANGED <<fs, con, ext, seen>>

CloseFiles ==
    /\ Saver("close")
    /\ d' = Then(d, "done")
    /\ Keeps /\ UNCHANGED <<fs, con, ext, seen>>

\* A call fails, or the caller gives up while bytes are read or written.
CallFails ==
    /\ d.pc \in {"hash", "create", "write", "verify", "evidence", "copy", "chmod", "drop", "close"}
    /\ Saver(d.pc) /\ Fault
    /\ d' = CASE d.pc \in {"write", "verify", "evidence"} -> Then(d, "unwrite")
              [] d.pc = "drop" -> [Then(d, AfterDrop) EXCEPT !.rm = None, !.err = TRUE]
              [] d.pc = "close" -> [Then(d, "done") EXCEPT !.err = TRUE]
              [] OTHER -> Fails(d)
    /\ seen' = [seen EXCEPT !.kept = @ \/ d.pc = "drop"]
    /\ UNCHANGED <<r, fs, con, ext>>

Save ==
    \/ OpenPublication \/ UseStored \/ UseMaterialized \/ SourceEnds \/ HashFile
    \/ CreateTemp \/ WriteTemp \/ VerifyTemp \/ TakeEvidence \/ RecheckFile \/ UndoWrite
    \/ CaptureTemp \/ CheckTemp \/ LinkOutput \/ OpenOutput \/ CreateCopy \/ CopyBytes \/ StatCopy
    \/ CheckOutput \/ Chmod \/ RecheckTemp
    \/ CleanOutput \/ CleanTemp \/ Drop \/ Outcome \/ CloseFiles \/ CallFails
----------------------------------------------------------------------------
(* Other processes, and Mail. *)

\* Nobody looks at the directory before the temporary file is created.
Other(blind) ==
    /\ d.pc \notin {"idle", "source", "hash", "close", "done"} /\ seen.others < MaxOthers
    /\ seen' = [seen EXCEPT !.others = @ + 1, !.blind = @ \/ blind]
    /\ UNCHANGED <<source, d, ext>>

OtherUnlinks(n) ==
    /\ Other(FALSE) /\ fs[n] # None
    /\ fs' = [fs EXCEPT ![n] = None] /\ UNCHANGED con

\* Nothing sees a file that is replaced between the look and the removal.
OtherReplaces(n) ==
    /\ Other(d.pc = "drop" /\ d.rm = n) /\ fs[n] # "other"
    /\ fs' = [fs EXCEPT ![n] = "other"] /\ UNCHANGED con

\* Nor what is written after the bytes were read back, or to the copy before
\* its time was taken.
OtherWrites(o) ==
    /\ Other(d.pc = "evidence" \/ (o = "copy" /\ d.pc \in {"copy", "copystat"}))
    /\ o \in {fs.tmp, fs.out}
    /\ con' = [con EXCEPT ![o].data = "bad", ![o].touched = TRUE] /\ UNCHANGED fs

OtherOpensUp(o) ==
    /\ Other(FALSE) /\ o \in {fs.tmp, fs.out} /\ con[o].private
    /\ con' = [con EXCEPT ![o].private = FALSE] /\ UNCHANGED fs

OtherReplacesDirectory ==
    /\ Other(FALSE) /\ ~fs.moved
    /\ fs' = [fs EXCEPT !.moved = TRUE] /\ UNCHANGED con

\* Mail writes its file, replaces it, drops it, or stores a second one.
MailChangesFile ==
    /\ q.kind = "save" /\ d.pc \in {"source", "hash", "create", "write", "verify", "evidence", "recheck"}
    /\ left.changes > 0 /\ left' = [left EXCEPT !.changes = @ - 1]
    /\ d.pc # "source" => d.from = "file"
    /\ \/ ext.st = "one" /\ ext' = [ext EXCEPT !.mtime = @ + 1]
          /\ d' = [d EXCEPT !.dirty = (d.pc = "write" /\ ext.ino = d.pin.ino)]
       \/ \E st \in {"none", "one", "many"} : ext' = [ext EXCEPT !.st = st, !.ino = @ + 1] /\ UNCHANGED d
    /\ UNCHANGED <<q, srv, idx, lv, file, r, cache, page, torn, fs, con, seen>>

Others ==
    \/ \E n \in {"tmp", "out"} : OtherUnlinks(n) \/ OtherReplaces(n)
    \/ \E o \in Ours : OtherWrites(o) \/ OtherOpensUp(o)
    \/ OtherReplacesDirectory
----------------------------------------------------------------------------
SaveNext ==
    \/ ReadStep /\ UNCHANGED saving
    \/ Environment /\ UNCHANGED saving
    \/ Save \/ Others \/ MailChangesFile

SaveSpec == SaveInit /\ [][SaveNext]_<<source, saving>>
----------------------------------------------------------------------------
Saved == d.pc = "done" /\ d.certainty # None

\* What is reported as saved is the complete and private file of the right
\* message under the output name, and an effect reported as none left nothing
\* there, unless another process wrote in a moment nobody can see.
SavedTrue ==
    Saved =>
        /\ d.certainty = "complete" =>
            /\ fs.out \in Ours /\ fs.out = d.out /\ ~fs.moved
            /\ con[d.out].private /\ (con[d.out].data = "good" \/ seen.blind)
            /\ r["a"].got # None /\ (torn \/ Same(r["a"].got, "a"))
        /\ d.certainty = "none" => fs.out = None
        /\ ~d.err => d.certainty = "complete"

\* A file of another process is never replaced or removed, except for one that
\* takes the name between removeOwned's look and its removal.
ForeignKept == seen.harmed => seen.blind

\* A save that nobody disturbed leaves no temporary file, and no output unless
\* it is complete. It may leave the temporary one if a removal failed, or if
\* Mail changed its file after the copy was written.
NothingLeft ==
    Saved /\ seen.others = 0 /\ ~seen.kept =>
        /\ fs.tmp = None
        /\ d.certainty # "complete" => fs.out = None

\* What is read is of the message asked for, whole, and within the budget of
\* its page (Client.GetMessage, Client.EnrichMessages).
ReadSound == RightMessage /\ NothingHalf /\ BudgetHeld

\* A save that fails takes back what it made, and nothing else
\* (attachmentPublication.cleanup, removeOwned).
CleanupSound == ForeignKept /\ NothingLeft
=============================================================================
