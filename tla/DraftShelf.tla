----------------------------- MODULE DraftShelf -----------------------------
(* The directory of local drafts as a shelf that several commands share:    *)
(* adopting a draft of Mail.app's, updating, claiming, discarding or         *)
(* reconciling one, pruning old ones with what stopped commands left, and    *)
(* listing them page by page.                                               *)
(*                                                                          *)
(* A draft is a document and, when it was adopted, a directory of attachment *)
(* files. Commands on one draft exclude each other by its lease (DraftLease);*)
(* listing and the inventory of prune take no lease. A command may be killed *)
(* between any two calls and the power may fail, which keeps or loses every  *)
(* directory entry that was not yet synced on its own.                       *)
EXTENDS Naturals, FiniteSets, Sequences

CONSTANTS
    Refs,       \* draft references, in the order listings use
    New,        \* the reference an adoption draws
    Target,     \* the draft that is old, half removed or claimed at first
    Files,      \* attachments of an adopted draft
    Scenes,     \* which commands meet: subsets of Commands
    None,       \* nothing stands there
    Faults,  \* calls that fail, commands killed, power failures, files edited
    MaxPrunes   \* runs of prune: one that is stopped is run again

Edits == {"update", "claim", "discard", "save"}
Commands == Edits \cup {"adopt", "prune", "dryrun", "list"}

ASSUME ShelfAssumption ==
    /\ Refs \subseteq Nat \ {0} /\ IsFiniteSet(Refs) /\ Files \subseteq Nat
    /\ New \in Refs /\ Target \in Refs \ {New}
    /\ Scenes \subseteq SUBSET Commands /\ Faults \in Nat /\ MaxPrunes \in Nat
    /\ None \notin Refs
    /\ None \notin Commands \cup
           {"edit", "send", "handoff", "saved", "young", "old", "part", "bytes", "edited",
            "ok", "error", "killed", "failed", "stable", "unstable"}

VARIABLES
    shelf,    \* what stands under the names of each draft
    disk,     \* of it, what a power failure cannot take back
    noted,    \* the commands that know the directory's modification time
    holder,   \* who holds the lease of each draft
    rm,       \* the removal under way under the lease of each draft
    stage,    \* the adoption's staging directory, beside the shelf
    fp,       \* the fingerprints the adoption took of it
    ad, ed, pr, li,   \* the adoption, the edit, the prune, the listing
    left      \* faults left

shelfVars == <<shelf, disk, noted, holder, rm, stage, fp, ad, ed, pr, li, left>>

Bytes == "bytes"
NoFiles == [f \in Files |-> None]
AllFiles == [f \in Files |-> Bytes]
NoDoc == [ver |-> "none", old |-> FALSE, fp |-> NoFiles]
Gone == [doc |-> NoDoc, dir |-> FALSE, files |-> NoFiles, claim |-> None, temp |-> None, lock |-> FALSE]
Plain == [Gone EXCEPT !.doc.ver = "first", !.lock = TRUE]
HasDoc(r) == shelf[r].doc.ver # "none"

\* A draft of the past: whole, with a claim, or what a stopped command left.
Adopted == [Plain EXCEPT !.doc.old = TRUE, !.doc.fp = AllFiles, !.dir = TRUE, !.files = AllFiles]
Pasts ==
    {Adopted, [Adopted EXCEPT !.claim = "save", !.temp = "old"],
     [Adopted EXCEPT !.doc = NoDoc, !.claim = "send", !.temp = "young"]}

Idle == [at |-> "idle", sweep |-> FALSE, err |-> FALSE]

ShelfInit ==
    /\ \E past \in Pasts :
        shelf = [r \in Refs |-> IF r = New THEN Gone ELSE IF r = Target THEN past ELSE Plain]
    /\ disk = shelf /\ noted = {}
    /\ holder = [r \in Refs |-> None] /\ rm = [r \in Refs |-> Idle]
    /\ stage = NoFiles /\ fp = NoFiles
    /\ ad = [pc |-> "off", made |-> FALSE, started |-> FALSE, retained |-> FALSE, result |-> None]
    /\ ed = [pc |-> "off", kind |-> None, ref |-> Target, result |-> None]
    /\ pr = [pc |-> "off", kind |-> None, ref |-> None, seen |-> [r \in Refs |-> {}], todo |-> {},
             orphans |-> {}, runs |-> 0, quiet |-> FALSE, truth |-> FALSE, result |-> None]
    /\ li = [pc |-> "off", after |-> 0, refs |-> <<>>, shown |-> <<>>, was |-> <<>>]
    /\ left = Faults

Started ==
    {p \in Commands :
        \/ p = "adopt" /\ ad.pc # "off"
        \/ p \in {ed.kind, pr.kind}
        \/ p = "list" /\ li.pc # "off"}
\* A command may still be started: those started and it are one of the scenes.
May(p) == p \notin Started /\ \E s \in Scenes : Started \cup {p} \subseteq s
Faulty == left > 0 /\ left' = left - 1
Sound == left' = left

\* An entry of the directory changes, and with it the directory's time.
Enters(r, entry) == shelf' = [shelf EXCEPT ![r] = entry] /\ noted' = {}
SameShelf == UNCHANGED <<shelf, noted>>
\* fsync of the directory keeps every entry in it; the files inside an
\* attachment directory are kept by the sync of that directory alone.
Synced(before) == [r \in Refs |-> [shelf[r] EXCEPT !.files = IF shelf[r].dir THEN before[r].files ELSE NoFiles]]
SyncShelf == disk' = Synced(disk)
----------------------------------------------------------------------------
(* The lease of a draft: acquireDraftLease makes the lock file if there is  *)
(* none; a draft that is busy for too long is refused.                      *)

Leases(p, r) ==
    /\ holder[r] = None
    /\ holder' = [holder EXCEPT ![r] = p]
    /\ IF shelf[r].lock THEN SameShelf ELSE Enters(r, [shelf[r] EXCEPT !.lock = TRUE])
InUse(r) == holder[r] # None /\ UNCHANGED holder /\ SameShelf
Releases(r) == holder' = [holder EXCEPT ![r] = None] /\ rm' = [rm EXCEPT ![r] = Idle]
Removes(r, sweep) == rm' = [rm EXCEPT ![r] = [Idle EXCEPT !.at = IF sweep THEN "claims" ELSE "doc", !.sweep = sweep]]
Removed(r) == rm[r].at = "done"
----------------------------------------------------------------------------
(* Removal of a draft's files, under its lease: discardDraftFiles, and for  *)
(* a draft without document cleanOrphanDraftArtifactsUnderLease.            *)

Removal(r, at) == rm[r].at = at /\ UNCHANGED <<holder, stage, fp, ad, ed, pr, li>>
RemovalAt(r, at) == rm' = [rm EXCEPT ![r].at = at]

\* A document that is gone already is the end of a discard; its lock goes.
RemoveDoc(r) ==
    /\ Removal(r, "doc") /\ Sound /\ UNCHANGED disk
    /\ IF HasDoc(r)
       THEN Enters(r, [shelf[r] EXCEPT !.doc = NoDoc]) /\ RemovalAt(r, "sync")
       ELSE SameShelf /\ rm' = [rm EXCEPT ![r] = [@ EXCEPT !.at = "lock", !.err = TRUE]]

SyncGone(r) == Removal(r, "sync") /\ SyncShelf /\ RemovalAt(r, "claims") /\ SameShelf /\ Sound

\* removeDraftClaims and removeOrphanDraftClaims sync the directory also when
\* there was none, and so an orphan's attachments go after its document.
DropClaims(r) ==
    /\ Removal(r, "claims") /\ RemovalAt(r, "dir") /\ Sound
    /\ IF shelf[r].claim = None THEN SameShelf ELSE Enters(r, [shelf[r] EXCEPT !.claim = None])
    /\ disk' = [q \in Refs |-> [Synced(disk)[q] EXCEPT !.claim = IF q = r THEN None ELSE @]]

\* removeDraftAttachmentDir: the files one by one, then the directory.
DropFile(r, f) ==
    /\ Removal(r, "dir") /\ shelf[r].files[f] # None
    /\ shelf' = [shelf EXCEPT ![r].files[f] = None]
    /\ UNCHANGED <<noted, disk, rm>> /\ Sound
DropDir(r) ==
    /\ Removal(r, "dir") /\ shelf[r].files = NoFiles /\ RemovalAt(r, "lock") /\ Sound
    /\ IF shelf[r].dir
       THEN /\ Enters(r, [shelf[r] EXCEPT !.dir = FALSE])
            /\ disk' = [q \in Refs |-> [Synced(disk)[q] EXCEPT !.dir = IF q = r THEN FALSE ELSE @]]
       ELSE SameShelf /\ UNCHANGED disk
DropLock(r) ==
    /\ Removal(r, "lock") /\ RemovalAt(r, "done") /\ Sound /\ UNCHANGED disk
    /\ IF shelf[r].lock THEN Enters(r, [shelf[r] EXCEPT !.lock = FALSE]) ELSE SameShelf

\* A call of the removal fails. A discard whose document is gone goes on with
\* the rest and reports the failure; a sweep stops.
RemovalFails(r) ==
    /\ rm[r].at \in {"doc", "sync", "claims", "dir", "lock"} /\ Faulty
    /\ rm' = [rm EXCEPT ![r].err = TRUE,
                        ![r].at = CASE rm[r].sweep -> "done"
                                    [] rm[r].at = "claims" -> "dir"
                                    [] rm[r].at = "dir" -> "lock"
                                    [] OTHER -> "done"]
    /\ SameShelf /\ UNCHANGED <<disk, holder, stage, fp, ad, ed, pr, li>>

RemovalStep ==
    \E r \in Refs :
        \/ RemoveDoc(r) \/ SyncGone(r) \/ DropClaims(r) \/ DropDir(r) \/ DropLock(r)
        \/ (\E f \in Files : DropFile(r, f))
        \/ RemovalFails(r)
----------------------------------------------------------------------------
(* Adoption of a draft Mail.app keeps.                                      *)

Adopting(pc) == ad.pc = pc /\ UNCHANGED <<ed, pr, li>>
AdoptTo(pc) == ad' = [ad EXCEPT !.pc = pc]
\* What is cleaned up depends on whether anything was published.
AdoptFails == ad' = [ad EXCEPT !.pc = "finish", !.result = "error"]
Beside == UNCHANGED <<shelf, disk, noted, holder, rm>>
Aside == UNCHANGED <<shelf, disk, holder, rm>>

\* The staging directory is made beside the shelf, where no prune looks.
AdoptStart ==
    /\ May("adopt") /\ Adopting("off") /\ Sound
    /\ ad' = [ad EXCEPT !.pc = "stage", !.made = TRUE] /\ Beside /\ UNCHANGED <<stage, fp>>
\* Gateway.SaveAttachmentTo for one file after the other; the download that
\* fails may leave part of its file.
AdoptStage ==
    /\ Adopting("stage") /\ stage = NoFiles
    /\ \/ stage' = AllFiles /\ UNCHANGED ad /\ Sound
       \/ /\ \E f \in Files, rest \in {None, "part"} :
               stage' = [g \in Files |-> IF g < f THEN Bytes ELSE IF g = f THEN rest ELSE None]
          /\ AdoptFails /\ Faulty
    /\ Beside /\ UNCHANGED fp
\* prepareDraftWithAttachmentsObserverContext fingerprints the staged files.
AdoptPrepare ==
    /\ Adopting("stage") /\ \A f \in Files : stage[f] # None
    /\ \/ fp' = stage /\ AdoptTo("lease") /\ Sound
       \/ AdoptFails /\ UNCHANGED fp /\ Faulty
    /\ Beside /\ UNCHANGED stage
AdoptLease ==
    /\ Adopting("lease") /\ Sound
    /\ \/ Leases("adopt", New) /\ AdoptTo("mkdir")
       \/ InUse(New) /\ AdoptFails
    /\ UNCHANGED <<disk, rm, stage, fp>>
\* Nothing may stand there: a document ends the adoption, a directory of
\* that name fails Mkdir.
AdoptMkdir ==
    /\ Adopting("mkdir")
    /\ \/ /\ ~HasDoc(New) /\ ~shelf[New].dir /\ Sound
          /\ Enters(New, [shelf[New] EXCEPT !.dir = TRUE])
          /\ ad' = [ad EXCEPT !.pc = "copy", !.started = TRUE]
       \/ (HasDoc(New) \/ shelf[New].dir) /\ SameShelf /\ AdoptFails /\ Sound
       \/ SameShelf /\ AdoptFails /\ Faulty
    /\ UNCHANGED <<disk, holder, rm, stage, fp>>
\* copyAdoptionAttachment: the file is created, written, compared with the
\* fingerprint, synced.
CopyOpen(f) ==
    /\ Adopting("copy") /\ shelf[New].files[f] = None
    /\ \A g \in Files : g < f => shelf[New].files[g] \notin {None, "part"}
    /\ IF stage[f] = fp[f]
       THEN shelf' = [shelf EXCEPT ![New].files[f] = "part"] /\ UNCHANGED ad
       ELSE AdoptFails /\ UNCHANGED shelf
    /\ Sound /\ UNCHANGED <<noted, disk, holder, rm, stage, fp>>
CopyWrite(f) ==
    /\ Adopting("copy") /\ shelf[New].files[f] = "part"
    /\ \/ stage[f] = fp[f] /\ shelf' = [shelf EXCEPT ![New].files[f] = stage[f]] /\ UNCHANGED ad /\ Sound
       \/ stage[f] # fp[f] /\ UNCHANGED shelf /\ AdoptFails /\ Sound
       \/ UNCHANGED shelf /\ AdoptFails /\ Faulty
    /\ UNCHANGED <<noted, disk, holder, rm, stage, fp>>
\* Deviation: only the shelf is synced, not the attachment directory.
CopySyncedShelf ==
    /\ Adopting("copy") /\ \A f \in Files : shelf[New].files[f] \notin {None, "part"}
    /\ SyncShelf /\ AdoptTo("temp") /\ Sound /\ SameShelf /\ UNCHANGED <<holder, rm, stage, fp>>
\* Both the attachment directory and the shelf are synced before the document.
CopySynced ==
    /\ Adopting("copy") /\ \A f \in Files : shelf[New].files[f] \notin {None, "part"}
    /\ disk' = [Synced(disk) EXCEPT ![New].files = shelf[New].files]
    /\ AdoptTo("temp") /\ Sound /\ SameShelf /\ UNCHANGED <<holder, rm, stage, fp>>
----------------------------------------------------------------------------
(* replacePrivateDraftFile: a temporary name, a rename, a sync of the       *)
(* directory. It serves the adoption and the edit.                          *)

WriteTemp(r) == Enters(r, [shelf[r] EXCEPT !.temp = "young"]) /\ UNCHANGED disk
Publish(r, entry) == Enters(r, [entry EXCEPT !.temp = None]) /\ UNCHANGED disk
\* A rename that fails takes the temporary file with it.
Unpublished(r) == Enters(r, [shelf[r] EXCEPT !.temp = None]) /\ UNCHANGED disk
Unleased == UNCHANGED <<holder, rm, stage, fp>>

AdoptTemp == Adopting("temp") /\ WriteTemp(New) /\ AdoptTo("rename") /\ Sound /\ Unleased
AdoptRename ==
    /\ Adopting("rename") /\ Unleased
    /\ \/ Publish(New, [shelf[New] EXCEPT !.doc = [ver |-> "adopted", old |-> FALSE, fp |-> fp]])
          /\ AdoptTo("sync") /\ Sound
       \/ Unpublished(New) /\ AdoptFails /\ Faulty
\* The result of a failing sync is an error though the draft is there.
AdoptSync ==
    /\ Adopting("sync") /\ SameShelf /\ Unleased
    /\ \/ SyncShelf /\ ad' = [ad EXCEPT !.pc = "finish", !.result = "ok"] /\ Sound
       \/ UNCHANGED disk /\ AdoptFails /\ Faulty

\* finishDraftAdoption, after the lease was given back: staging is removed
\* when the draft is there, or when nothing was published, and only if it
\* holds what was downloaded; else it is kept and the error names it.
Cleans == ad.made /\ (ad.result = "ok" \/ ~ad.started)
Verified == \A f \in Files : stage[f] # "part"
\* Deviation: staging is removed in every case.
AdoptFinishAlways ==
    /\ Adopting("finish") /\ SameShelf
    /\ IF holder[New] = "adopt" THEN Releases(New) ELSE UNCHANGED <<holder, rm>>
    /\ stage' = NoFiles /\ ad' = [ad EXCEPT !.pc = "done", !.made = FALSE]
    /\ fp' = NoFiles /\ Sound /\ UNCHANGED disk
AdoptFinish ==
    /\ Adopting("finish") /\ SameShelf
    /\ IF holder[New] = "adopt" THEN Releases(New) ELSE UNCHANGED <<holder, rm>>
    /\ IF Cleans /\ Verified
       THEN stage' = NoFiles /\ ad' = [ad EXCEPT !.pc = "done", !.made = FALSE]
       ELSE UNCHANGED stage /\ ad' = [ad EXCEPT !.pc = "done", !.retained = ad.made]
    /\ fp' = NoFiles /\ Sound /\ UNCHANGED disk

\* Somebody writes into a staged file, which is an ordinary file on disk.
EditStaged(f) ==
    /\ ad.pc \in {"stage", "lease", "mkdir", "copy"} /\ stage[f] = Bytes
    /\ stage' = [stage EXCEPT ![f] = "edited"]
    /\ Faulty /\ Beside /\ UNCHANGED <<fp, ad, ed, pr, li>>

AdoptStep ==
    \/ AdoptStart \/ AdoptStage \/ AdoptPrepare \/ AdoptLease \/ AdoptMkdir \/ CopySynced
    \/ AdoptTemp \/ AdoptRename \/ AdoptSync \/ AdoptFinish
    \/ \E f \in Files : CopyOpen(f) \/ CopyWrite(f) \/ EditStaged(f)
----------------------------------------------------------------------------
(* One more command on a draft: an update, a claim by a send or a handoff,  *)
(* a discard, or the reconciliation of a native save of the past.           *)

Editing(pc) == ed.pc = pc /\ UNCHANGED <<ad, pr, li, stage, fp>>
EditTo(pc) == ed' = [ed EXCEPT !.pc = pc]
EditEnds(result) == ed' = [ed EXCEPT !.pc = "done", !.result = result]
Claimed(r) == shelf[r].claim # None

EditStart ==
    /\ Editing("off") /\ Sound
    /\ \E kind \in {k \in Edits : May(k)}, r \in {New, Target} :
        ed' = [ed EXCEPT !.pc = "lease", !.kind = kind, !.ref = r]
    /\ Beside
EditLease ==
    /\ Editing("lease") /\ Sound
    /\ \/ Leases("edit", ed.ref) /\ EditTo("read")
       \/ InUse(ed.ref) /\ EditEnds("error")
    /\ UNCHANGED <<disk, rm>>

\* readDraftForMutation and the refusals. discardDraftFiles refuses a draft
\* that was handed over, and any other command one with a claim. A missing
\* draft leaves no lock behind. Without evidence a save stays unresolved.
Refuses ==
    \/ ed.kind \in {"update", "claim"} /\ Claimed(ed.ref)
    \/ ed.kind = "discard" /\ shelf[ed.ref].claim = "handoff"
    \/ ed.kind = "save"
EditRead ==
    /\ Editing("read") /\ Sound /\ UNCHANGED <<disk, holder>>
    /\ \/ /\ ~HasDoc(ed.ref) /\ ed.kind # "discard"
          /\ rm' = [rm EXCEPT ![ed.ref] = [@ EXCEPT !.at = "lock", !.err = TRUE]]
          /\ EditTo("remove") /\ SameShelf
       \/ /\ (~HasDoc(ed.ref) /\ ed.kind = "discard") \/ (HasDoc(ed.ref) /\ ed.kind = "discard" /\ ~Refuses)
          /\ Removes(ed.ref, FALSE) /\ EditTo("remove") /\ SameShelf
       \/ HasDoc(ed.ref) /\ Refuses /\ EditTo("refused") /\ SameShelf /\ UNCHANGED rm
       \/ /\ HasDoc(ed.ref) /\ ed.kind \in {"update", "claim"} /\ ~Refuses
          /\ Enters(ed.ref, [shelf[ed.ref] EXCEPT !.temp = "young"]) /\ EditTo("rename") /\ UNCHANGED rm
       \/ /\ HasDoc(ed.ref) /\ ed.kind = "save" /\ shelf[ed.ref].claim = "save"
          /\ Enters(ed.ref, [shelf[ed.ref] EXCEPT !.temp = "young"]) /\ EditTo("rename") /\ UNCHANGED rm

\* An update keeps the adopted attachments, which it fingerprints again, or
\* names none of them.
Edited(s) ==
    CASE ed.kind = "update" -> {[s EXCEPT !.doc = [ver |-> "edited", old |-> FALSE, fp |-> p]] : p \in {s.doc.fp, NoFiles}}
      [] ed.kind = "claim" -> {[s EXCEPT !.claim = c] : c \in {"send", "handoff"}}
      [] OTHER -> {[s EXCEPT !.claim = "saved"]}
EditRename ==
    /\ Editing("rename") /\ UNCHANGED <<holder, rm>>
    /\ \/ (\E s \in Edited(shelf[ed.ref]) : Publish(ed.ref, s)) /\ EditTo("sync") /\ Sound
       \/ Unpublished(ed.ref) /\ EditTo("refused") /\ Faulty
\* A save that was observed is followed by the removal of the local draft.
EditSync ==
    /\ Editing("sync") /\ SameShelf /\ UNCHANGED holder
    /\ \/ /\ SyncShelf /\ Sound
          /\ IF ed.kind = "save"
             THEN Removes(ed.ref, FALSE) /\ EditTo("remove")
             ELSE EditTo("written") /\ UNCHANGED rm
       \/ UNCHANGED <<disk, rm>> /\ EditTo("refused") /\ Faulty
EditDone ==
    /\ ed.pc \in {"refused", "written"} \/ (ed.pc = "remove" /\ Removed(ed.ref))
    /\ UNCHANGED <<ad, pr, li, stage, fp, disk>> /\ SameShelf /\ Sound /\ Releases(ed.ref)
    /\ EditEnds(IF ed.pc = "written" \/ (ed.pc = "remove" /\ ~rm[ed.ref].err) THEN "ok" ELSE "error")

EditStep == EditStart \/ EditLease \/ EditRead \/ EditRename \/ EditSync \/ EditDone
----------------------------------------------------------------------------
(* Prune: an inventory without leases, then each draft, each leftover and   *)
(* each lock on its own.                                                    *)

Pruning(pc) == pr.pc = pc /\ UNCHANGED <<ad, ed, li, stage, fp>>
PruneTo(pc, todo) == [pr EXCEPT !.pc = pc, !.todo = todo, !.ref = None]
PruneFailed(x) == [x EXCEPT !.result = "failed"]
Turn(r) == r \in pr.todo /\ \A q \in pr.todo : r <= q
Seen(kind) == {r \in Refs : kind \in pr.seen[r]}

PruneStart ==
    /\ \E kind \in {"prune", "dryrun"} :
        /\ (pr.kind = None /\ May(kind)) \/ (kind = "prune" /\ pr.kind = kind /\ pr.result = "killed" /\ pr.runs < MaxPrunes)
        /\ pr' = [pr EXCEPT !.pc = "look", !.kind = kind, !.seen = [r \in Refs |-> {}], !.todo = Refs,
                            !.runs = @ + 1, !.quiet = ({ad.pc, ed.pc} = {"done"}), !.result = None]
    /\ noted' = noted \cup {"prune"}
    /\ Aside /\ Sound /\ UNCHANGED <<ad, ed, li, stage, fp>>

\* pruneEligible: old, and no send, save or handoff was attempted.
PruneEligible(r) == HasDoc(r) /\ shelf[r].doc.old /\ ~Claimed(r)

\* Deviation: an attachment directory is not something to sweep.
ClassifiedWithoutDirectory(r) ==
    {k \in {"candidate", "artifact", "temp", "lock"} :
        \/ k = "candidate" /\ PruneEligible(r)
        \/ k = "artifact" /\ Claimed(r)
        \/ k = "temp" /\ shelf[r].temp = "old"
        \/ k = "lock" /\ shelf[r].lock}
\* classifyDraftPruneEntry, for all names of one draft.
Classified(r) ==
    {k \in {"candidate", "artifact", "temp", "lock"} :
        \/ k = "candidate" /\ PruneEligible(r)
        \/ k = "artifact" /\ (shelf[r].dir \/ Claimed(r))
        \/ k = "temp" /\ shelf[r].temp = "old"
        \/ k = "lock" /\ shelf[r].lock}
PruneLook(r) ==
    /\ Pruning("look") /\ Turn(r)
    /\ pr' = [pr EXCEPT !.seen[r] = Classified(r), !.todo = @ \ {r}]
    /\ Beside /\ Sound
\* verifyPruneDraftRevision: the directory is as it was before the inventory.
PruneVerify ==
    /\ Pruning("look") /\ pr.kind = "prune" /\ pr.todo = {}
    /\ pr' = IF "prune" \in noted THEN PruneTo("drafts", Seen("candidate")) ELSE PruneFailed(PruneTo("done", {}))
    /\ Beside /\ Sound

\* A dry run lists what a prune would take: the old drafts of the inventory
\* and each draft without document that has leftovers and is not in use.
DryOrphans ==
    /\ Pruning("look") /\ pr.kind = "dryrun" /\ pr.todo = {} /\ Beside /\ Sound
    /\ pr' = PruneTo("orphans", {r \in Refs : pr.seen[r] \cap {"artifact", "temp"} # {}})
DryOrphan(r) ==
    /\ Pruning("orphans") /\ Turn(r) /\ Beside /\ Sound
    /\ pr' = [pr EXCEPT !.todo = @ \ {r},
                        !.orphans = IF HasDoc(r) \/ holder[r] # None THEN @ ELSE @ \cup {r}]
Leftover(r) == ~HasDoc(r) /\ (shelf[r].dir \/ Claimed(r) \/ shelf[r].temp # None)
DryEnds(stable) ==
    /\ Pruning("orphans") /\ pr.todo = {} /\ Beside /\ Sound
    /\ pr' = [PruneTo("done", {}) EXCEPT
                !.result = IF stable THEN "stable" ELSE "unstable",
                !.truth = /\ Seen("candidate") = {r \in Refs : PruneEligible(r)}
                          /\ \A r \in pr.orphans : Leftover(r)]
\* finalizeDraftPruneDryRun: stable if the directory did not change.
DryDone == DryEnds("prune" \in noted)

\* pruneDraftOnce: under the lease the draft is read again.
PruneLease(r) ==
    /\ Pruning("drafts") /\ pr.ref = None /\ Turn(r) /\ Sound
    /\ \/ Leases("prune", r) /\ pr' = [pr EXCEPT !.ref = r]
       \/ InUse(r) /\ pr' = PruneFailed([pr EXCEPT !.todo = @ \ {r}])
    /\ UNCHANGED <<disk, rm>>
PruneRead ==
    /\ Pruning("drafts") /\ pr.ref # None /\ rm[pr.ref].at = "idle"
    /\ \/ PruneEligible(pr.ref) /\ Removes(pr.ref, FALSE) /\ UNCHANGED <<pr, holder>>
       \/ ~HasDoc(pr.ref) /\ rm' = [rm EXCEPT ![pr.ref].at = "lock"] /\ UNCHANGED <<pr, holder>>
       \/ /\ HasDoc(pr.ref) /\ ~PruneEligible(pr.ref) /\ Releases(pr.ref)
          /\ pr' = PruneFailed([pr EXCEPT !.ref = None, !.todo = @ \ {pr.ref}])
    /\ SameShelf /\ UNCHANGED disk /\ Sound
PruneNext ==
    /\ pr.pc = "drafts" /\ UNCHANGED <<ad, ed, li, stage, fp, disk>> /\ SameShelf /\ Sound
    /\ \/ /\ pr.ref # None /\ Removed(pr.ref) /\ Releases(pr.ref)
          /\ pr' = [pr EXCEPT !.ref = None, !.todo = @ \ {pr.ref},
                              !.result = IF rm[pr.ref].err THEN "failed" ELSE @]
       \/ pr.ref = None /\ pr.todo = {} /\ pr' = PruneTo("sweep", Refs) /\ UNCHANGED <<holder, rm>>

\* shouldSweepPruneArtifactGroup, draftArtifactRefBusy and the lease: a draft
\* in use is left alone.
ShouldSweep(r) == "temp" \in pr.seen[r] \/ (~HasDoc(r) /\ "artifact" \in pr.seen[r])
SweepLease(r) ==
    /\ Pruning("sweep") /\ pr.ref = None /\ Turn(r) /\ Sound
    /\ \/ ~ShouldSweep(r) /\ pr' = [pr EXCEPT !.todo = @ \ {r}] /\ SameShelf /\ UNCHANGED holder
       \/ ShouldSweep(r) /\ Leases("prune", r) /\ pr' = [pr EXCEPT !.ref = r]
       \/ ShouldSweep(r) /\ InUse(r) /\ pr' = [pr EXCEPT !.todo = @ \ {r}]
    /\ UNCHANGED <<disk, rm>>
\* cleanOrphanDraftArtifactsUnderLease: the temporary file the inventory saw,
\* then, if there is still no document, everything else.
SweepTemp(r) ==
    IF "temp" \in pr.seen[r] /\ shelf[r].temp = "old"
    THEN Enters(r, [shelf[r] EXCEPT !.temp = None])
    ELSE SameShelf
Sweep ==
    /\ Pruning("sweep") /\ pr.ref # None /\ rm[pr.ref].at = "idle" /\ Sound
    /\ SweepTemp(pr.ref)
    /\ IF "temp" \in pr.seen[pr.ref] /\ shelf[pr.ref].temp # "old"
       THEN Releases(pr.ref) /\ pr' = PruneFailed([pr EXCEPT !.ref = None, !.todo = @ \ {pr.ref}])
       ELSE IF HasDoc(pr.ref)
       THEN Releases(pr.ref) /\ pr' = [pr EXCEPT !.ref = None, !.todo = @ \ {pr.ref}]
       ELSE Removes(pr.ref, TRUE) /\ UNCHANGED <<pr, holder>>
    /\ UNCHANGED disk
SweepNext ==
    /\ pr.pc = "sweep" /\ UNCHANGED <<ad, ed, li, stage, fp, disk>> /\ SameShelf /\ Sound
    /\ \/ /\ pr.ref # None /\ Removed(pr.ref) /\ Releases(pr.ref)
          /\ pr' = [pr EXCEPT !.ref = None, !.todo = @ \ {pr.ref},
                              !.result = IF rm[pr.ref].err THEN "failed" ELSE @]
       \/ pr.ref = None /\ pr.todo = {} /\ pr' = PruneTo("locks", Seen("lock")) /\ UNCHANGED <<holder, rm>>
\* sweepOrphanDraftLockRef: the lock of no document, unless it is held.
SweepLock(r) ==
    /\ Pruning("locks") /\ Turn(r) /\ pr' = [pr EXCEPT !.todo = @ \ {r}] /\ Sound
    /\ IF ~HasDoc(r) /\ shelf[r].lock /\ holder[r] = None
       THEN Enters(r, [shelf[r] EXCEPT !.lock = FALSE])
       ELSE SameShelf
    /\ UNCHANGED <<disk, holder, rm>>
PruneDone ==
    /\ Pruning("locks") /\ pr.todo = {} /\ Beside /\ Sound
    /\ pr' = [PruneTo("done", {}) EXCEPT !.result = IF @ = None THEN "ok" ELSE @]

PruneStep ==
    \/ PruneStart \/ PruneVerify \/ DryOrphans \/ DryDone \/ PruneRead \/ PruneNext \/ Sweep \/ SweepNext \/ PruneDone
    \/ \E r \in Refs : PruneLook(r) \/ DryOrphan(r) \/ PruneLease(r) \/ SweepLease(r) \/ SweepLock(r)
----------------------------------------------------------------------------
(* Listing, one draft a page. The cursor holds the directory's time and the *)
(* last reference shown.                                                    *)

Listing(pc) == li.pc = pc /\ UNCHANGED <<ad, ed, pr, stage, fp>> /\ Aside /\ Sound
Summary(r) == [ref |-> r, ver |-> shelf[r].doc.ver, claim |-> shelf[r].claim]
Ranked(S, n) == {r \in S : Cardinality({q \in S : q < r}) = n}
Ordered(S) == [i \in 1..Cardinality(S) |-> CHOOSE r \in Ranked(S, i - 1) : TRUE]
Drafts == {r \in Refs : HasDoc(r)}
After(a) == {r \in Drafts : r > a}
Touched == "list" \notin noted

ListStart ==
    /\ May("list") /\ Listing("off") /\ noted' = noted \cup {"list"}
    /\ li' = [li EXCEPT !.pc = "select",
                       !.was = [i \in 1..Cardinality(Drafts) |-> Summary(Ordered(Drafts)[i])]]
\* A page asked for with a cursor of another time is refused.
ListContinue ==
    /\ Listing("next") /\ UNCHANGED noted
    /\ li' = [li EXCEPT !.pc = IF Touched THEN "changed" ELSE "select"]
\* selectDraftListRefs: the next reference, and whether there is one more.
ListSelect ==
    /\ Listing("select") /\ UNCHANGED noted
    /\ li' = [li EXCEPT !.pc = "read", !.refs = Ordered(After(li.after))]
ListRead ==
    /\ Listing("read") /\ UNCHANGED noted
    /\ li' = [li EXCEPT !.pc = "verify",
                        !.shown = IF li.refs = <<>> THEN @ ELSE Append(@, Summary(Head(li.refs))),
                        !.after = IF li.refs = <<>> THEN @ ELSE Head(li.refs)]
\* verifyDraftListDirectory: what changed meanwhile voids the page.
ListVerify ==
    /\ Listing("verify") /\ UNCHANGED noted
    /\ li' = [li EXCEPT !.pc = IF Touched THEN "changed" ELSE IF Len(li.refs) > 1 THEN "next" ELSE "done"]

ListStep == ListStart \/ ListContinue \/ ListSelect \/ ListRead \/ ListVerify
----------------------------------------------------------------------------
(* Time and failures.                                                       *)

\* Ten minutes pass.
Age ==
    /\ \E r \in Refs : shelf[r].temp = "young"
    /\ shelf' = [r \in Refs |-> [shelf[r] EXCEPT !.temp = IF @ = None THEN None ELSE "old"]]
    /\ disk' = [r \in Refs |-> [disk[r] EXCEPT !.temp = IF @ = None THEN None ELSE "old"]]
    /\ Sound /\ UNCHANGED <<noted, holder, rm, stage, fp, ad, ed, pr, li>>

Freed(p) ==
    /\ holder' = [r \in Refs |-> IF holder[r] \in p THEN None ELSE holder[r]]
    /\ rm' = [r \in Refs |-> IF holder[r] \in p THEN Idle ELSE rm[r]]
Stopped == {"off", "done"}

\* A command is killed: the kernel gives its lease back, its files stay.
Killed ==
    /\ Faulty /\ SameShelf /\ UNCHANGED <<disk, stage, fp, li>>
    /\ \/ ad.pc \notin Stopped /\ ad' = [ad EXCEPT !.pc = "done", !.result = "killed"] /\ UNCHANGED <<ed, pr>> /\ Freed({"adopt"})
       \/ ed.pc \notin Stopped /\ ed' = [ed EXCEPT !.pc = "done", !.result = "killed"] /\ UNCHANGED <<ad, pr>> /\ Freed({"edit"})
       \/ pr.pc \notin Stopped /\ pr' = [PruneTo("done", {}) EXCEPT !.result = "killed"] /\ UNCHANGED <<ad, ed>> /\ Freed({"prune"})

\* The power fails: every entry is as it is or as it was when last synced.
Survivors(r) ==
    {s \in [doc : {disk[r].doc, shelf[r].doc}, dir : {disk[r].dir, shelf[r].dir},
            files : {g \in [Files -> {None, "part", Bytes, "edited"}] :
                        \A f \in Files : g[f] \in {disk[r].files[f], shelf[r].files[f]}},
            claim : {disk[r].claim, shelf[r].claim}, temp : {disk[r].temp, shelf[r].temp},
            lock : {shelf[r].lock}] :
        ~s.dir => s.files = NoFiles}
PowerFails ==
    /\ Faulty /\ ({ad.pc, ed.pc, pr.pc} \ Stopped # {})
    /\ \E n \in Survivors(New), t \in Survivors(Target) :
        LET s == [shelf EXCEPT ![New] = n, ![Target] = t] IN shelf' = s /\ disk' = s
    /\ noted' = {}
    /\ Freed({"adopt", "edit", "prune"})
    /\ ad' = IF ad.pc \in Stopped THEN ad ELSE [ad EXCEPT !.pc = "done", !.result = "killed"]
    /\ ed' = IF ed.pc \in Stopped THEN ed ELSE [ed EXCEPT !.pc = "done", !.result = "killed"]
    /\ pr' = IF pr.pc \in Stopped THEN pr ELSE [PruneTo("done", {}) EXCEPT !.result = "killed"]
    /\ li' = IF li.pc \in Stopped THEN li ELSE [li EXCEPT !.pc = "changed"]
    /\ UNCHANGED <<stage, fp>>

ShelfNext == RemovalStep \/ AdoptStep \/ EditStep \/ PruneStep \/ ListStep \/ Age \/ Killed \/ PowerFails

ShelfSpec == ShelfInit /\ [][ShelfNext]_shelfVars
----------------------------------------------------------------------------
(* A document on the shelf has the attachments it was published with, whole *)
(* and unchanged, whatever was stopped where and whatever a power failure   *)
(* kept: attachments come before their document and go after it.            *)
DocumentWhole ==
    \A r \in Refs : HasDoc(r) =>
        \A f \in Files : shelf[r].doc.fp[f] # None => shelf[r].files[f] = shelf[r].doc.fp[f]

(* What a command reported as done stays: an adopted or updated draft is    *)
(* there, across prunes, other commands and power failures, until somebody  *)
(* discards it or a native save of it is confirmed.                         *)
Discards(r) == ed.kind \in {"discard", "save"} /\ ed.ref = r
AcknowledgedKept ==
    /\ ad.result = "ok" /\ ~Discards(New) => HasDoc(New)
    /\ ed.result = "ok" /\ ed.kind = "update" => shelf[ed.ref].doc.ver = "edited"
    /\ ed.result = "ok" /\ ed.kind = "claim" => HasDoc(ed.ref) /\ Claimed(ed.ref)

(* What commands report is so. An adoption that says nothing was published  *)
(* left nothing on the shelf, one that does not say staging was kept left   *)
(* none, and one that was published in part keeps its staging as the        *)
(* evidence it names. A dry run that calls itself stable names exactly the  *)
(* drafts a prune would remove, and no draft as a leftover.                 *)
ReportsTrue ==
    /\ ad.pc = "done" /\ ad.result = "error" =>
          /\ ~ad.started => ~HasDoc(New) /\ ~shelf[New].dir
          /\ ad.retained <=> stage # NoFiles \/ ad.made
          /\ ad.started => ad.retained
    /\ pr.result = "stable" => pr.truth

(* What stopped commands leave does not stay for ever: a prune that reports *)
(* success after all other commands leaves no attachments, claims, old     *)
(* temporary files or locks of a draft that has no document.                *)
LeftoversSwept ==
    pr.pc = "done" /\ pr.result = "ok" /\ pr.quiet =>
        \A r \in Refs : ~HasDoc(r) =>
            /\ ~shelf[r].dir /\ ~Claimed(r) /\ ~shelf[r].lock
            /\ "temp" \in pr.seen[r] => shelf[r].temp = None

(* Pages put together are the shelf at one moment: a listing that ends has  *)
(* shown every draft it had when it began, once, in order, with the claims  *)
(* and contents of that moment.                                             *)
ListingTrue == li.pc = "done" => li.shown = li.was

\* A draft that exists is whole, and one that was reported as saved exists
\* (replacePrivateDraftFile, discardDraftFiles).
DraftsKept == DocumentWhole /\ AcknowledgedKept

\* What a prune, its dry run and a listing show was so
\* (PruneDrafts, ListDrafts).
ShelfShown == ReportsTrue /\ ListingTrue
=============================================================================
