# MailCLI: a TLA+ verification project

MailCLI is a command line mail client for macOS. It reads Mail.app's store,
keeps drafts of its own as private files, sends them over SMTP, mirrors them to
the Sent mailbox over IMAP, and changes messages on the IMAP server. Its users
are often other programs that run several `mailcli` processes at once, retry
what failed and kill what takes too long. This project models the parts of it
where that matters, checks the models with TLC, and proves the most important
facts about them with TLAPS.

All paths below are relative to the repository; `mail/` stands for
`internal/mail/`, `mailstore/` for `internal/mailstore/`, `imapclient/` for
`internal/transport/imapclient/`.

## 1. The system

| Component | State | Operations | Talks to |
|---|---|---|---|
| Draft lease (`mail/draft_state.go`, `draft_lock_darwin.go`) | `<REF>.lock`, its flock, its inode | acquire, release, remove, sweep, busy probe | every operation on a draft |
| Draft store (`mail/draft_store.go`, `draft_storage.go`, `draft_persistence.go`, `draft_list.go`) | `<REF>.json` | create, update, discard, list by pages | lease |
| Draft send (`mail/draft_send.go`, `draft_claims.go`, `draft_recovery_spool.go`) | `<REF>.send-claim`, `.send-spool`, `.send-receipt` | send, reconcile, replay | lease, SMTP, IMAP |
| Draft prune (`mail/draft_prune*.go`) | none of its own | prune drafts, receipts, orphan artifacts, orphan locks | lease, all draft files |
| Compose handoff (`mail/draft_handoff.go`) | `<REF>.handoff-claim`, snapshot tree | begin, mark dispatched, finish, cancel, reconcile | lease, Mail.app |
| Draft save and adoption (`mail/draft_save.go`, `draft_adopt.go`) | `<REF>.save-claim`, attachment directory | save, reconcile, adopt | lease, Mail.app's store |
| SMTP client (`internal/transport/smtpclient`) | one connection | submit | provider |
| IMAP client (`imapclient/`) | session pool, credential generations, account mutation lock | search, append, copy, move, flags, fetch | provider |
| Message mutations (`internal/mailstore/imap_*.go`) | copy attempts of this process | mark, transfer, delete | IMAP client |
| Mail.app access gate (`internal/mailapp/`) | lock file with the PID of an uncertain Mail.app | acquire, arm, run the bridge script, release | Mail.app |
| Account bindings (`mail/account_bindings.go`, `internal/cli/send_setup.go`) | one JSON file, two locks | set up and remove senders, load | keychain, IMAP, SMTP |
| Batch execution (`mail/batch.go`, `internal/cli/batch_commands.go`) | worker pool, output budget | read, mark, transfer many | service |
| Store reader (`mailstore/`) | Mail.app's database and files | list, search, conversations, read, excerpts | IMAP client |
| Server check (`mailstore/imap_sync.go`, `new_messages.go`) | mailbox catalogue with one LIST in flight | `sync check`, `messages new` | store reader, IMAP client |
| Attachment save (`mail/attachment.go`, `mailstore/attachments.go`) | a temporary file and the output file | choose the source, copy, publish, verify, clean up | store reader, IMAP client |
| Update (`internal/cli/update_*.go`, `scripts/release/install.sh`) | update lock, installed binary and skill | download, verify, install, roll back | file system |
| MIME, content, references, keychain, release signing, command line | none that outlives a call | transformations | |

What makes it hard:

* **Processes.** Every command is a process. Two of them meet only in files and
  on the servers; nothing orders them except flocks on files that are
  themselves created and unlinked.
* **Stops.** A process can be killed, or give up at a deadline, between any two
  system calls. Nothing is undone; the next process finds what is there.
* **Unknown outcomes.** After SMTP's terminating dot, or the CRLF that ends an
  APPEND, COPY or MOVE, a lost answer says nothing about what the server did.
  Repeating would deliver or file twice; forgetting would lose the mail.
* **Evidence.** Everything MailCLI later says about a message is read back from
  these files and from searches in a mailbox that others write to as well.

What makes each component correct, in short: the *lease* excludes; the *send*
submits at most once, only what was reviewed, files at most one copy, and never
lets a draft vanish without an explicit request or a receipt that tells the
truth; *prune* never removes evidence that is still needed; *handoff* asks
for one window at a time and keeps what Mail may still read; the *pool* respects its limit and never
deadlocks; *message mutations* touch only the named message, copy it once, never lose it, and
report exactly the effects that happened; the *access gate* admits nobody while an
uncertain Mail.app operation may run, and is shut only for a cause; *account bindings* stay
one valid document whatever is written at once; an *update* leaves the old or the
new version, of binary and skill together; a *reader* sees every message that stayed
where it was, once and in order; a *server check* says that the sides agree only if they
do; what is *read* or *saved* is the message that was named, whole or marked; and the
*drafts directory* never shows a draft without its attachments.

The hazards of the code, each at its line and with the properties that watch
it, are listed in `PROJECT.json`.

## 2. Modules

| Module | What it is |
|---|---|
| `LeaseMutex` | abstract: somebody owns the draft, or nobody |
| `DraftLease` | the lock-file protocol, one action per system call |
| `MCDraftLease` | its small instances |
| `DraftPromise` | abstract: what MailCLI promises about one draft |
| `DraftSend` | the life of one draft: files, processes, servers |
| `DraftSendProps` | its properties, its inductive invariant, its refinement |
| `MCDraftSend` | its small instances |
| `DraftSendProofs` | its theorems: types, invariants, action properties, refinement |
| `HandoffPromise` | abstract: a window is asked for only when every earlier request is settled |
| `DraftHandoff` | the visible handoff of one draft: claims, snapshots, Mail, processes |
| `DraftHandoffProps` | its properties, its inductive invariant, its refinement |
| `MCDraftHandoff` | its small instances |
| `DraftHandoffProofs` | its theorems |
| `AccountGate` | abstract: reads share an account, a mutation has it alone |
| `ConnectionPool` | the IMAP client's operations on one account, one action per critical section, wait or system call |
| `ConnectionPoolProps` | its properties, its inductive invariant, its refinement |
| `MCConnectionPool` | its small instances |
| `ConnectionPoolProofs` | its theorems |
| `ImapMutation` | COPY, MOVE and its fallback, deletion and flags, one action per IMAP command |
| `ImapMutationProofs` | its theorems |
| `AccessGate` | the gate to Mail.app, the bridge script and Mail |
| `MailAccessProofs` | theorems of `AccessGate`, and of `messages new` in `ServerCheck` |
| `AccountBindings` | the binding file and `send setup` |
| `InstallPromise` | abstract: one installation, replaced as a whole |
| `UpdateInstall` | the updater, the installer's journal, rollback and recovery |
| `UpdateInstallProofs` | its theorems |
| `MailReading` | pages of a search, a mailbox, all inboxes or a conversation while Mail writes |
| `ServerCheck` | the comparison of Mail's store with the server, and the mailbox catalogue |
| `MessageSource` | reading one message or the excerpts of a page, locally or over IMAP |
| `AttachmentSave` | saving an attachment; extends `MessageSource` |
| `FileNameProofs` | the theorems of `DraftLease`, and of `MessageSource` and `AttachmentSave`: the protocols on file names that others may take |
| `DraftShelf` | adoption, native-save reconciliation, prune and listing on one directory |
| `DocumentProofs` | the theorems of `AccountBindings` and `DraftShelf`, the two that keep documents over a power loss |
| `MC...` | the small instances of the module they are named after |

Operators marked "Deviation" are not part of a model: each is a definition as it
would be with a plausible mistake, and shows which property notices the mistake.

`DraftSend` builds on `DraftLease`: it takes from it that one process at a time
holds the lease of the *linked* lock file (`lease`), and keeps of the lock file
only whether it exists (`lockFile`). Operations that go on after they unlinked
it (`ReconcileMissing`, `Unlock`) are modelled as going on without the lease.

### DraftLease

`path` is the inode the name `<REF>.lock` refers to, `flock` the process whose
descriptor holds the lock of an inode, `fd` a process's descriptor, `doc` whether
`<REF>.json` exists. An inode number may be used again when it has neither a
name nor a descriptor, as the kernel does, so that comparing inodes is not made
stronger than it is. `acquireDraftLease` is `OpenCreate`/`OpenExists`, `Reopen`,
`Lock`, `Pin`/`PinChanged`; `draftLockResource.remove` is `RemoveCheck` and
`Unlink`; `release` is `Release`; the prune sweep is `SweepBegin` to
`SweepUnlink`; `draftArtifactRefBusy` is `ProbeOpen` to `ProbeDone`. `Abandon`
is a timeout, an error return or a kill anywhere. Modelled is the Darwin variant
(`draft_lock_darwin.go`); the release is built for Darwin only.

### DraftSend

`doc`, `claim`, `spool`, `receipt` are the files. A revision is a digest of a
draft's content (`refreshDraftRevision`), so `Revs` stands for contents. A claim
is torn when it was created under its final name and its writer was stopped
(`writePrivateDraftFile`); updates of it are renamed over (`replacePrivateDraftFile`)
and cannot tear it. The outcomes are those of the code that guard a decision:
`unknown` (claimed, submission not known to be accepted), `pending` (accepted,
Sent copy missing), `sent` (accepted and observed), with `unk` for a mirror
attempt that may have taken effect. `mail` and `apnd` are what the two servers know: a
message or APPEND has been given over (`data`) and the server decides later, in
its own time, also after the client is gone (`SmtpDecide`, `AppendDecide`). The
provider may file accepted mail into Sent by itself (`ProviderFile`).

The steps of a process (`pc`) name the next write or exchange:

| Code | Actions |
|---|---|
| `SendDraft` up to the claim | `SendMissing`, `SendRefused`, `SendReplay`, `SendPrepare`, `RecoverSpool`, `PersistSpool`/`PersistFails`, `BeginAttempt`/`BeginFails`/`TearClaim` |
| SMTP submission | `SubmitFails`, `SubmitData`, `ReplyAccepted`, `ReplyRefused`, `ReplyLost`, `RejectSpool`, `RejectClaim` |
| Sent mirror | `Arm`, `MirrorFound`, `MirrorFails`, `MirrorData`, `AckOk`, `AckNo`, `AckLost`, `Confirm`, `Record` |
| terminal evidence, cleanup | `MarkSent`, `EnsureReceipt`/`TearReceipt`, `RemoveDoc`, `RemoveClaims`, `RemoveClaim`, `Unlock` |
| `ReconcileDraft` | `ReconcileMissing`, `ReconcileConsumed`, `ReconcileUnclaimed`, `ReconcileClaimed`, `SearchUnknown`, `SearchPending`, `Adopt` |
| `UpdateDraft`, `DiscardDraft`, `PruneDrafts` | `UpdateWrite`, `UpdateRefused`, `RemoveDoc`, `Prune`, `Expire`, `DropReceipt`, `Sweep`, `SweepSpool`, `MutateMissing` |

`Stop` ends a process at any of them: killed, past its deadline, or after a file
or network error that the code only returns. A caller may name any revision,
reviewed before or after other edits, and repeat any operation.

`DraftPromise` says the same from outside: a draft is open, frozen or gone; at
most one submission is open or accepted at a time and none after an acceptance;
a Sent copy is offered only of an accepted message and only once unless it was
definitely refused. `ImplementsPromise` maps the files and servers to it.

### DraftHandoff

`doc`, `sendClaim` and `claim` are the files, `parent`, `dirs` and `file` the
snapshot tree below `<REF>.handoff-snapshots`: its root, the attempt directories,
and per attachment whether its index directory is missing, empty, or holds a
partial or the verified copy. `window` is what the sharing service did with an
attempt; `verdict` is not in the code: it notes on whose word, Mail's or a
person's, an outcome was recorded. `att`, `draft` and `after` are a process's
memory: the attempt it works on, the content it read, and what follows the
cleanup it is in.

| Code | Actions |
|---|---|
| lease | `Request`, `Acquire`, `Release`, `Stop` |
| `BeginDraftHandoffContext` | `ReadFails`, `BeginRefused`, `BeginFresh`, `BeginRecovers`, `Create`/`TearClaim`/`CreateFails`, `MakeParent`, `MakeDir`, `Stage`, `Staged`, `Retain`, `StageFails`, `StageCanceled` |
| `recoverPreparedHandoffStaging` | `Recover` |
| `runDraftHandoffWithDispatch`, `HandoffWithDispatch` | `MarkDispatched`/`NotDispatched`, `Invoke`/`NotInvoked`, `Mail`, `Answered`/`Unanswered` |
| `Finish`, `CancelBeforeDispatch` | `Finish`, `Cancel`, then a cleanup |
| `cleanupTerminalHandoffAttempt`, `removeHandoffSnapshotAttempt` | `Scan`, `DeleteFile`, `DeleteDir`, `Tidy`, `Rewrite`, `Unclaim`, `CleanupChanged`, `CleanupFails` |
| `ReconcileDraftHandoffContext` | `ReconcileRefused`, `ReconcileResumes`, `ReconcileRecords` |
| `UpdateDraft`, `SendDraft` | `Update`, `UpdateRefused`, `Send`, `SendRefused`, `SendEnds` |
| `DiscardDraft`, `PruneDrafts` | `Prune`, `Discard`, `DiscardRefused`, `Tidy`, `RemoveDoc`, `RemoveClaims` |
| sweep of orphans | `SweepKeeps`, `SweepResumes`, `SweepCancels`, a cleanup, `SweepClaims` |
| a person at the draft file | `Touch` |

A process can be killed before each of these steps (`Stop`), and each can fail
(`...Fails`); a claim that is replaced by a rename may be the new one although an
error was returned (`MayReplace`). The lease is atomic here, as `DraftLease` shows;
of a send only its claim is kept, since `DraftSend` has the rest. `Touch` lets
the draft file vanish and come back at any moment, which is how a sweep comes to
meet a handoff at all.

### ConnectionPool

`Ops` are goroutines, `Home` the client (one per process) each calls, `Pools`
the `accountSessionPool` objects, `Conns` connections. The counters `operations`,
`connecting` and `dedicated` are the sets of who counted himself; `gate` and
`queue` are the weighted semaphore, a library, with its first-in-first-out
waiters; `readers` and `writer` are the lifecycle `sync.RWMutex`, whose pending
writer holds off new readers; `flock` is the account's mutation lock file.
`gen` is the lifecycle generation, `creds` the credential generation, `cred` and
`auth` which credentials a caller had loaded and a connection logged in with.

| Code | Actions |
|---|---|
| `acquireOperation` | `Begin`, `Register`, `LockMutation`/`LockRefused`, `EnterGate` or `Enqueue` and `Granted`/`GateCanceled`, then `Confirm`/`Interrupted`/`GiveUp` |
| `borrowSession` | `Reuse`, `Dial`, `Connected`/`ConnectFails` |
| `acquireDedicated` (APPEND) | `Reserve`, `EvictIdle`, `DoneAppend`, `Unreserve` |
| `startCancellationWatcher` | `Cancel`, `WatcherCloses`, `WatcherStops` |
| `releaseSession` and the release | `Done`, `GiveBack`/`Discard`, `ReleaseGate`, `Deregister`, `Unflock`, `RUnlock` |
| `Close` | `BeginClose`, `Drain`, `HangUp`, `HungUp` |
| `InvalidateCredentials` | `Invalidate`, `HangUp`, `HungUp` |

Two waits for `pool.changed` (`pool.go:445`, `526`) and the eviction of stale idle
sessions (`pool.go:408`) have no action: `SlotForGranted` and `IdleIsUsable` show
that nobody reaches them, because the gate admits no more operations than there
are slots and stale sessions never become idle. The broadcasts on `changed` then
have no listener and are left out too.

`AccountGate` says the same from outside: an operation has no access, shared or
exclusive access to the account; exclusive access excludes every other operation
of the process and exclusive access of every other process. `ImplementsGate` maps
the steps from `Confirm` to the end of `releaseSession` to it.

`GateInv` and the refinement of `AccountGate` are proved for any number of
clients (`Home`); the run checks one client.

### ImapMutation

`box` is what the server holds per mailbox, by UIDs that a rebuild renews together
with the `validity` (UIDVALIDITY); `known` is the message's identity in Mail's store,
`felt` and `touched` what the server really did. A process
runs one request at a time through the steps of `pc`: resolve the reference,
register the attempt, take the mutation lock, search the destination (`Guard`),
select the source, dispatch, verify.

| Code | Actions |
|---|---|
| `imap_resolve.go` | `Resolve`, `Refuse` |
| `copyAttempts`, `dispatchCopy`, `CopyMessageIfAbsent` | `Attempt`, `Acquire`, `Guard`, `Source`, `DispatchCopy`, `VerifyCopy` |
| `moveMessage` | `DispatchMove`, `CheckAbsent`, `CheckArrived`, and without MOVE `FallbackCopy`, `SourceAgain`, `Store`, `Expunge`, `CheckExpunged` |
| `setFlagsAndVerify` | `Store` per phase, `Fetch` |
| the server and others | `LateExecution`, `Rebuild`, `ForeignClient`, `Synchronise`, `Kill` |

A command whose reply is lost is executed now, later (`late`) or never (`Lose`).
Deletion is the move to Trash; the LIST behind the choice of Trash and the check
that a message is there already are abstracted. A native MOVE of a message
without Message-ID is the one transfer the code does not guard, and
`OneCopyEach` says so. A COPY is reported as completed once the destination holds the one
copy (`FoundThere`): when its own UID COPY found nothing to copy any more, that copy may be the
work of another request, and the report does not promise otherwise.

### AccessGate

`record` is the gate file, `lock` its flock, `scripts` the osascript children
(which survive their parent), `events` the Apple events Mail has accepted, `mail`
the PID of Mail. `Outstanding` is not in the code: the synchronisations that may
still run in the Mail process of now.

| Code | Actions |
|---|---|
| `fileAccessGate.Acquire` | `Begin`, `TakeLock`/`Busy`/`Unsafe`, `Look`, `Judge`, `Target` |
| `ArmUncertainState`, `Release` | `Arm`, `Clear`, `Unlock` |
| `Client.invokeWithState` | `StartScript`, `Expire`, `Collect`, `GiveUp`, `Kill` |
| `bridge.js` | `Abort`, `Dispatch`, `Deny` |
| Mail | `Execute`, `Quit`, `Launch` |

Assumed: Mail answers an event, or quits, before a script that still lives gives up waiting
of its own accord (its process allows it 30 seconds and 15 more); PIDs are not used again;
the bridge reports `recovery_required` never (it has no such path); a power loss ends Mail as
well, so that the record, which is synchronised, can only name a Mail that is gone.
The path being replaced under the gate is a refusal (`Unsafe`) that may happen at
each use.

### AccountBindings

`visible` is the file as processes see it, `durable` what a power loss would leave,
`temps` temporary files left behind, `keychain` one entry per login. `Plan` reads
the document without a lock, `Add`/`Update`/`Remove` change the keychain, `TakeLock`
to `Release` are the re-read, merge, write, rename and sync under both locks (always
taken in the same order, hence one here). Each step may fail, be killed, or lose
power.

### UpdateInstall

`dest` and `backup` are the two parts (binary, skill) and their backups, `txn` each
process's transaction directory with its journal, `lock` the flock that the updater
passes to the installer. `Script` is the installer's order of steps; `Fail` and
`Cancel` enter its rollback, `Recover` the recovery of a stopped one.
`InstallPromise` says that there is one installation and that it is replaced as a
whole; under an unfinished transaction that is what the transaction would restore.

What the model relies on or leaves: one pair of destinations; a process runs once;
a power loss keeps the disk as it is between two steps. Recovery refuses a directory
whose journal was never published, and a skill whose removal (`rm -rf`) was cut
(`SkillTorn`). An update that finds the newest binary of an interrupted install says
"already up to date" while the skill still is in its backup
(`docs/documentation.md:67`); `mixed` marks updates that read such a version. When the
binary is missing only a direct install recovers.

### MailReading

`index`, `catalog` and `file` are Mail's database rows, its attachment catalogue and
its source files; `s` is the session of the reader, `p` the page being made. Each
query of the code is a step; `Deliver`, `Expunge`, `Catalogue` and `ChangeFile` may come
between any two. `ListPage` is a page of a mailbox or of all inboxes, `SeedOlder` to
`WalkEnds` a conversation, `BeginSearch` to `DeliverSearch` a search with its chunks,
byte budget and deferred candidates.

Every change of the index raises `generation`, as Mail's own write counter does
(where a database has none, the code falls back to size and time, which may miss a
change); changes of source files do not. ROWIDs are not used again. The two workers of a
scan batch are one step, because a batch is published only as a whole. A metadata search
says `Complete` although a cursor follows, which is what its coverage means. An empty
or missing mailbox path is not modelled.

### ServerCheck

`srv` are the server's mailboxes, `loc` Mail's, `cat` the cached catalogue with its
age, `flight` the one LIST under way (`singleflight`), `row` the other reader that
shares it. `RowStarts` to `ListFails` are `getOrLoadMailboxes`, `MakePlan` to `FinishCheck`
the count check with its two STATUS workers, `SelectRecent` to `Report` `messages new`.

The catalogue ages by `Tick`, not between a LIST reply and its storing; changes
before a check's own catalogue matter to the count check only. `torn` marks the one
race the code leaves open: Mail starts a mailbox over between the check of its
UIDVALIDITY and the comparison. Messages without sender and date are always reported as
new; messages behind the window are outside the evidence. Credentials are reduced to
three kinds of account.

### MessageSource and AttachmentSave

`idx` are Mail's index rows, `file` the source files, `lv` whether `Info.plist` tells the
UIDVALIDITY, `srv` the server's mailbox, `r` the readers, `cache` the excerpt cache.
`OpenFile`, `CheckRow`, `UseSource` read locally; `TargetRow`, `Validity`, `Identify`,
`Search`, `Fetch` find the same message over IMAP; `Chunks` to `PageDone` fill a page
of excerpts within one budget. Mail rebuilds rows and `Info.plist` in one step; where a
reference has no UIDVALIDITY, a rebuild between its check and its use is marked
`torn`. Threading enrichment is part of the read; failures of credentials and of LIST
are failures of the server.

`AttachmentSave` adds the saver (`d`), the directory (`fs`) in which others create,
replace and write (`Other...`), and Mail's own file (`ext`). Its steps follow
`attachment.go`: temporary file, verification, link or copy, chmod, re-check, removal of
what it owns. Two windows the code cannot close are marked `blind`: between the `lstat`
and the unlink of `removeOwned`, and bytes written after the last read. A temporary
file stays when Mail's file changes after the copy was verified, where
`docs/documentation.md:627` says the owned file is removed; a replaced parent
directory makes cleanup refuse, and the files stay.

### DraftShelf

`shelf` holds per reference its document, attachments, claims, lock and temporary
file; `disk` is the part a power loss keeps. A scene is a set of commands that meet
(`Scenes`): an adoption, another command on a draft (update, claim, discard,
reconciliation of a native save), a prune or its dry run, or a listing. The lease is
taken as exclusive (`DraftLease`), handoff snapshots and receipts are left to
`DraftHandoff` and `DraftSend`. The modification time of the directory is assumed to
change with every change of an entry; a synchronisation of the root makes its entries
durable, files within an attachment directory need that directory's own. Staging
outside the root is evidence that no command sweeps. A discard goes on after one
removal failed, a sweep stops there.

| Code | Actions |
|---|---|
| `AdoptStoreDraft` | `AdoptStart`, `AdoptStage`, `AdoptPrepare`, `AdoptLease`, `AdoptMkdir`, `CopyOpen`, `CopyWrite`, `CopySynced`, `AdoptTemp`, `AdoptRename`, `AdoptSync`, `AdoptFinish` |
| update, claim, discard, native save of another draft | `EditStart`, `EditLease`, `EditRead`, `EditSync`, `EditDone` |
| `discardDraftFiles`, `cleanOrphanDraftArtifactsUnderLease` | `RemoveDoc`, `SyncGone`, `DropClaims`, `DropFile`, `DropDir`, `DropLock`, `RemovalFails` |
| `PruneDrafts` and its dry run | `PruneStart`, `PruneLook`, `PruneVerify`, `PruneLease`, `PruneRead`, `PruneNext`, `SweepLease`, `Sweep`, `SweepNext`, `SweepLock`, `PruneDone`; `DryOrphans`, `DryOrphan`, `DryDone` |
| `ListDrafts` | `ListStart`, `ListContinue`, `ListSelect`, `ListRead`, `ListVerify` |
| everybody else | `Age`, `EditStaged`, `Killed`, `PowerFails` |

The claims are removed with a synchronisation of the root even when there is none
(`removeOrphanDraftClaims`, `removeDraftStorageFile`). For a sweep this is what puts the removal of
a document on the disk before the attachments go: a discard that was killed between its unlink
and its own synchronisation leaves a reference without a document in the directory that
a power failure would bring back with one.

## 3. Runs

| Run | Instance | States | Properties |
|---|---|---|---|
| `lease` | 4 processes, 5 inodes, faults | 22,164 | `LeaseExclusive`, `ImplementsMutex` |
| `send` | 2 processes, 2 contents, 2 messages, 2 APPENDs | 2,333,600 | `SendInv`, `AtMostOneSubmission`, `ReceiptTruthful`, `NoSilentLoss`, `ImplementsPromise` |
| `handoff` | 2 processes, 2 contents, 2 attempts, 2 attachments | 827,001 | `HandoffInv`, `SnapshotsKept`, `OutcomeTrue`, `ImplementsHandoffPromise` |
| `pool` | 1 client, 3 goroutines (read/mutate, read/APPEND, Close/credentials), limit 2, 2 pool objects, 4 connections | 395,900 | `GateInv`, `ConnectionsUsable`, `ConnectionsAccounted`, `ImplementsGate` |
| `mutation` | 2 processes, 2 requests each of 5 kinds, 3 sets of capabilities, 2 faults | 1,078,476 | `OnlyNamedMessage`, `ReportsHonest`, `MessageKept`, `TransferredOnce` |
| `access` | 2 processes, 2 operations each, 2 Mail processes, 3 faults | 4,963,333 | `GateSound`, `AnswersTrue`, `StartsAlone` |
| `bindings` | 2 processes, 2 requests each of 8, 2 accounts, 3 addresses, 2 faults | 3,327,057 | `BindingsKept`, `SetupTrue`, `SeenOrAsked` |
| `update` | 2 processes, 3 releases, 2 faults | 798,890 | `UpdateSound`, `ImplementsPromise`, `NoDowngrade` |
| `reading` | 4 messages, 2 mailboxes, pages of 1 or 2, chunks and batches of 2, 1 or 2 changes of the index, 1 of a file, fair | 417,254 | `PagesSound`, `CoverageTrue`, `PagesEnd` |
| `server` | 5 server mailboxes, 3 local ones, 3 messages, 1 change, 1 fault, fair | 650,345 | `StatusTrue`, `NewTrue`, `CheckEnds` |
| `message` | a read, a read by server reference, a page of 3 rows, or a save; 3 messages; 3 or 1 changes, 1 fault, 2 acts of others | 5,324,652 | `ReadSound`, `SavedTrue`, `CleanupSound` |
| `shelf` | 8 scenes from 3 pasts, 2 references, 2 attachments, 2 prunes, 1 fault | 2,693,855 | `DraftsKept`, `LeftoversSwept`, `ShelfShown` |

Deadlock is checked in `lease`, `send`, `handoff` and `pool`. The other systems may
really stop: every command was run, or nothing is asked any more.

Every property has a mutant: a plausible mistake in a definition that models the
code, under which TLC finds that property violated (`PROJECT.json`, "mutants").

*Lease.* An owner that passed `Pin` is the only one (`LeaseExclusive`), although the
file is unlinked and created again; the protocol is mutual exclusion
(`ImplementsMutex`).

*Send.* At most one submission (`AtMostOneSubmission`); a receipt tells the truth
(`ReceiptTruthful`); no draft is lost silently (`NoSilentLoss`); the promise is kept
(`ImplementsPromise`). `SendInv` has the rest: what may be delivered is on record, only
reviewed content is submitted, an attempt freezes its draft, at most one Sent copy of
its own, a torn claim hides nothing. Evidence only grows and receipts are immutable
until their retention ends: proved, not run on their own.

*Handoff.* A window keeps its attachments (`SnapshotsKept`); no claim says what did not
happen (`OutcomeTrue`); one window at a time (`ImplementsHandoffPromise`). `HandoffInv` has
the rest: a request nobody confirmed stays on record, interrupted staging leaves
something the next handoff can clean up and no copies that no claim accounts for, and
a draft does not leave by SMTP and by a window at once.

*Pool.* Idle sessions are neither stale nor closed and a borrowed connection has one user
and nobody closes it under him (`ConnectionsUsable`); no open connection is forgotten,
no limit exceeded, at the pool or at the server, and whoever passed the gate finds a
slot (`ConnectionsAccounted`). The server's limit excludes connections that a `Close` or
a change of credentials took out of the list and has not closed yet, which it does
outside every lock.

*Mutation.* No command changes another message than the named one (`OnlyNamedMessage`);
a definite error changed nothing, and a reported effect happened (`ReportsHonest`); the
message is always somewhere and never both junk and not junk (`MessageKept`); one
request makes one copy (`TransferredOnce`). The exceptions are the environment's: another
client's copies, and commands that run after their session was given up.

*Access.* The gate file names the Mail process in which a synchronisation may still run
(`GateSound`), nothing starts beside one (`StartsAlone`), refusals and successes are
reported as they were and the gate is shut only for a cause (`AnswersTrue`).

*Bindings.* The document is valid at any moment and keeps acknowledged aliases across power
losses (`BindingsKept`); a binding has a password and reports are so (`SetupTrue`); a
concurrent setup is never mixed in unseen (`SeenOrAsked`).

*Update.* One installation, replaced as a whole (`ImplementsPromise`); whatever stopped an
installer, the next one can finish or undo it (`UpdateSound`); no update to the same or an
older release (`NoDowngrade`).

*Reading.* Pages put together are in order, without repetition or gap and within their
limits (`PagesSound`); what a search says of its coverage is so (`CoverageTrue`);
following cursors ends (`PagesEnd`).

*Server.* Counts match only if they do, and a complete check compared everything
(`StatusTrue`); `messages new` reports nothing Mail held all the time and passes over
nothing Mail never held (`NewTrue`); every check ends, also when the LIST it waits for
belongs to another reader that fails (`CheckEnds`).

*Message.* What is read is the message the reference names, whole or marked as partial
(`ReadSound`); a saved attachment has the complete bytes in a private file
(`SavedTrue`); only own files are removed and none is left behind (`CleanupSound`).

*Shelf.* A draft that exists has its attachments, one reported as saved exists
(`DraftsKept`); a successful prune leaves no leftovers, orphaned locks included
(`LeftoversSwept`); adoption reports, dry runs and listings are so (`ShelfShown`).

**Bounds.** Four processes in `lease` are an owner, a waiter on its inode, a newcomer
that creates the file again and a sweeper; five inodes let each have its own and
leave one to reuse. Two processes in `send` are enough for any race, because all
but the cleanup after a draft is gone is under the lease and only two can meet
there; the theorems hold for any number. Two messages allow a submission after
a rejection and, were it possible, a second one; two APPENDs a retry. When both
messages are used, `PersistFails` is the only way on from `compose`; when both
APPENDs are, `MirrorFails`. `RetentionEnds` waits until no operation runs: the
retention is thirty days, the longest operation takes minutes. In `handoff`, two
attempts are an earlier one that was canceled or reconciled and the next, two
attachments give the tree a prefix that is complete and a last index that is not;
`Create` takes an identifier no window and no directory has yet, as 144 random bits
do, so that with two of them a third handoff of one behaviour stops at `create`.
In `pool`, one `Close` (`MaxCloses`) makes two pool objects exist at once, one change of
credentials (`MaxChanges`) two generations of sessions; four connections are two
in use or idle and two that wait to be closed. Goroutines call again and again,
so that sessions are reused by the same and by other callers; with limit 2 two
reads, a read and a waiting mutation, or a mutation alone pass the gate.

In `mutation`, `access`, `bindings` and `update` two requests per process are one that was
left in doubt and the one after it, and two faults are a first failure and one in the
recovery from it; `access` has a third, since a killed process, its killed
script and a record that cannot be cleared meet only together, and two Mail processes,
the one in doubt and its successor; in `update`, two processes are one that was stopped and
the one that finishes or undoes what it left, or that waited while the other installed, and
three releases are the installed one, the one an updater found and a newer one published
meanwhile. In `reading`, three messages with equal and missing dates are there and a
fourth is delivered, so that they fill two pages, chunks and batches of two and leave
a rest; two changes are one before and one behind the cursor. In `server`, the mailboxes
contain two candidates of one local mailbox by canonical name, two for one role, and one
that cannot be selected, and the server lists all of them, only the plain ones, or only
the twins; two messages differ in their Message-ID only and one has none;
the window of one message has something behind it. In `message`, three messages are the
named one, one with the same Message-ID and one that takes its number; two acts
of others suffice to replace a file and to change the replacement. In `shelf`, two references
are the one that is adopted and the one that is old; the scenes let each kind of edit meet
a prune, a listing or a dry run, and an adoption meet them all; the pasts are a whole
draft, one with an unfinished native save, and what a send or a stopped command left of one; one fault with two prunes is a
stopped one and the next.

**Fairness.** `reading` and `server` assume that the reader, or the check, takes some next
step (`WF_vars(Read)`, `WF_vars(Step)`): it is a sequential loop whose network calls end by a
deadline, and a LIST under way belongs to a caller that runs. Mail and the server owe
nothing; `PagesEnd` is about sessions with a bounded number of changes, since a mailbox
that grows for ever behind the cursor has no last page.

Two more configurations check liveness by hand, with
`tlc -config MCConnectionPoolLive.cfg MCConnectionPool` and
`tlc -config MCDraftHandoffLive.cfg MCDraftHandoff`:
`EveryOperationReturns` (a mutation, a reader and a reader that also closes;
an operation that began takes some next step of its own: network exchanges have deadlines,
the flock is polled for at most `mutationLockMaxWait`, the semaphore wakes its first
waiter, and `sync.RWMutex` admits the waiting readers after every writer, hence strong
fairness of `Confirm`/`Interrupted`; nobody has to cancel), and `HandoffEnds` (every
operation gives the lease back although Mail may never answer: the wait for the delegate
ends after ten seconds (`handoff.m`) and the command has a deadline of its own,
`draftHandoffDispatchTimeout`).

**Disagreements of code and documentation.** Three further configurations show a
counterexample to a sentence of the manual:

1. `MCDraftSendConsumed.cfg`, `ConsumedAnswered`: `ReconcileDraft` on a consumed reference
   unlinks its lock file first and goes on; when another operation creates the file again
   in between, its second removal fails and the command reports `send_cleanup_failed`
   (`mail/draft_send.go:405`) instead of returning the receipt as
   `docs/documentation.md:959` says. `SendDraft` keeps the lock linked there.
2. `MCConnectionPoolCredentials.cfg`, `CurrentCredentials`: a new session is tagged with the
   credential generation of the moment its slot is taken (`imapclient/pool.go:402`) but logs
   in with the password its caller loaded earlier. When the credentials change in
   between, the session counts as current and is borrowed by later operations, where
   `docs/documentation.md:1295` says that "the next operation authenticates with
   current credentials".
3. `MCDraftHandoffStuck.cfg`, `CleanupResumable`: when a handoff was killed while it
   staged and the draft file is gone, the sweep first turns the prepared claim into a
   canceled one without snapshots (`mail/draft_prune_snapshots.go:158`), below which it
   then accepts no index directory (`mail/draft_prune_snapshots.go:362`): neither that sweep nor
   a later one, a reconciliation or a handoff can remove the tree or the claim any more,
   although "interrupted cleanup resumes with the same outcome"
   (`docs/documentation.md:992`).

Smaller disagreements met while reading, which no configuration shows:

* The manual says that a duplicate found after an unknown APPEND "stays
  `send_mirror_outcome_unknown`" (`docs/documentation.md:952`);
  `reconcileMirrorPending` answers `send_outcome_unverifiable` (`mail/draft_send.go:687`).
  The claim stays as it was; only the answer differs.
* An operation that a `Close` interrupts returns `imap_canceled`
  (`imapclient/pool.go:314`); `docs/documentation.md:1294` says `imap_timeout`.
* A discard or an update that meets an attempt killed before its dispatch is refused
  with the advice to run `mailcli drafts handoff-reconcile`
  (`mail/draft_handoff.go:320-329`), which refuses it too, with
  `handoff_not_dispatched` (`mail/draft_handoff.go:585`). Another handoff clears it.
* A cancellation before the dispatch "cleans the attempt and staged evidence"
  (`docs/documentation.md:988`). While attachments are staged it does not: the
  recovery runs with the context that was just canceled and stops at its first check
  (`mail/draft_handoff.go:430`). Another handoff cleans up.
* A temporary file of an attachment save stays when Mail's file changed after the copy
  was verified (section 2), where `docs/documentation.md:627` says it is removed.

## 4. Proofs

The theorems hold for every set of processes, inodes, contents, messages and
APPENDs, finite or not. They assume only that the "none" values lie outside these
sets, and for the access gate that there may be a Mail process at all
(`LeaseAssumption`, `SendAssumption`, `HandoffAssumption`, `PoolAssumption`,
`GateAssumption`, `BindingsAssumption`, `MutationAssumption`, `UpdateAssumption`,
`SourceAssumption`, `SaveAssumption`, `ServerCheckAssumption`), that chunks are not empty, that the
mailbox `messages new` compares resolves to its own mailbox on the server or to none
(`InboxAssumption`: INBOX), and of an IMAP request what the code sees to before it begins: source and destination differ, no flag is both set and
cleared, and setting `$Junk` clears `$NotJunk` and the other way round
(`imap_flags.go`, `MarkMessage`).

*Lease.* `LeaseInv` says that flocks are on open descriptors, that whoever
passed a lock call still has its flock, and that whoever compared inodes under
its flock finds its own inode under the name. The last conjunct alone is not
inductive: that nobody else unlinks or replaces the name follows from all three,
since every unlink is of the caller's own flocked inode, and a file is created
only when the name is free. `LeaseExclusive`, `OwnerNamed`, `UnlinkOwnOnly` and
the refinement follow from it.

*Send.* `SendInv` has two halves. `StoreInv` relates the files to what the
servers know: a claim names a message of its revision, a pending one an accepted
message, a claim that allows another APPEND has none open, a receipt is true.
`ProcInv` says for each step what the process at it may rely on: it holds the lease
(except where it does not), its attempt in memory is the attempt on disk, and how
far the servers got. Without `ProcInv` no write of `StoreInv` can be justified;
without `StoreInv` a process that reads the files learns nothing. The proofs have one lemma
per action; `ReceiptImmutable` needs the small extra invariant
`ExpiryInv`, that an operation on its way to drop the receipt found it expired.
The refinement (`SendImplementsPromise`) looks at the steps that touch the document, the
claim, a message or an APPEND (`EffectSteps`), one lemma per step of the promise; `SendInv` supplies what
the promise's guards ask for: nothing was submitted when a claim is taken back
(`NothingSubmitted`), and an APPEND that is open is the only one (`OneOpenAppend`).

*Handoff.* For every number of processes, contents, attempts and attachments.
`HandoffInv` joins `Exclusive` (whoever runs holds the lease), `StoreInv` (the files,
Mail and the recorded outcome agree; it contains every invariant of the run) and
`MemoryInv` (what a process remembers is what is on disk, step by step). The
properties alone are not inductive: that nothing is removed under Mail's hands
(`SnapshotsKept`) needs that a cleanup only runs below a claim that is prepared or
terminal, which is a fact about a process's memory (`CleanAt`), and that one needs
that the claim on disk is the one in memory, which holds because everybody else
rests (`Exclusive`). `SnapshotsKept` follows from `EvidenceKept` and
`DispatchRetained`: a claim is dispatched only after its snapshots were staged and
listed. The proof has one lemma per action (`...Kept`), from lemmas about changes of the
files (`Store...`) and about the step where a process arrives (`Arrive...`).
`ClaimMoves` then says all that a step does to the claim, and `PromiseStep` all that
`HandoffPromise` sees of it.

*Pool.* For every number of processes, goroutines, pool objects, connections and
every limit. `GateInv` joins four facts: who counted himself is registered with
his pool object, which is the client's current one unless a Close came after he
began (`Registered`); exactly those past the gate hold it, a mutation alone
(`GateHeld`); an active operation holds the lifecycle lock and no Close came in
between (`ActiveIsCurrent`); a mutation holds the lock file (`MutationLocked`). None is
inductive alone: two operations of a process exclude each other at the gate only
if they met the same pool object, and that they did follows from the generation
check and the lifecycle lock together. `MutationAlone` and the refinement of
`AccountGate` follow. `SlotsInv` adds that pool objects are finite and that who
connects has counted himself, so that a finished attempt trades its slot for the
session's. `ConnectionsUsable` needs `OwnInv`: a connection in an operation's hands is in
nobody else's, a borrowed one stays in its pool and is marked as used, one's own is in no pool,
and one that is to be hung up is in the hands of a single goroutine and nowhere else; that
nobody closes a borrowed connection follows only from all of them. `ConnectionsAccounted` needs
`CountInv`, which counts idle sessions and those who hold a connection against the limit.

*Access gate.* For every number of processes, operations, Mail processes and faults.
`IInv` joins the types with `Numbered` (operations, their scripts and their events have
unique names, and an event only coexists with a script that waits for it), `Fresh` (an
operation that has not started a script has neither), `Known` (what the holder of the
lock may rely on at each of its steps) and `GateKept` (the record names Mail whenever
something is outstanding). `GateKept` alone is not inductive: that the record may be cleared
needs that nothing is outstanding, which is a fact about the holder's step (`Alone`),
and that one needs that an answered script has no event left (`Numbered`). The judgement
holds over a restart of Mail (`Judged`): either the looked-up PID is still Mail's, or Mail
quit meanwhile and nothing can be outstanding. The proof has one lemma per action, from four about
the ways a step can go: the request ends (`EndStep`), the holder goes on (`HolderStep`),
a script goes on (`ScriptStep`), events end (`AnsweredStep`). `GateAlwaysSound` follows from
the invariant; `OperationsStartAlone` from `Alone` at the step that starts a script.
`AnswersTrue` needs two more invariants: `ReportsTrue` (a refused operation has no script and
no event, one reported as done ran to its end) and `ShutOnlyForCause` (a record that nobody is
writing names a Mail in which an operation was left in doubt), which are properties of the
requests that ended and so of everything `Known` says of those that run.

*Bindings.* For every set of accounts, addresses, requests, processes and faults. The
invariant joins the document's own validity with what each process read before it
asked for a password (`SeenOrAsked`), what it knows under the locks, and what is durable: an
alias is acknowledged only after a synchronisation of the document that has it, and every later
document is built from one that has it because the locks were held from the re-read to the
rename. `SetupTrue` needs that a password is stored before its binding is published (`Stored`), and that
what a request did is on record under its own number (`Course`, `Numbered`).

*Mutation.* For every number of processes, requests, rebuilds, late commands, kills
and steps of other clients, and for every set of capabilities. The invariant has seven layers,
each proved inductive from those before it:

| Layer | What it says | Why it is needed |
|---|---|---|
| `Base` | types; a mailbox is finite and its UIDs are its own, below the next one; which requests are at which step; the lock's holder is the process with a session | every other layer |
| `Identities` | an identity that was resolved, remembered or sent names the message or nothing, now and until the next rebuild, and its UID was given | `OnlyNamedMessage`; a bare UID comparison would not survive the next delivery |
| `Requested` | what was sent for a request carries its run; before its dispatch nothing was sent for it | a refused request is untouched also by what comes late |
| `Copies` | who passed the guard finds the destination empty until it copied, and what it will report has happened | one copy each; honest reports |
| `Safe` | some copy of the message is not about to be expunged; the destination a guarded process will copy to holds none that is | the message is never lost, although the expunge of one process, or a late one, comes after the copy of another |
| `Unambiguous` | the rest of a flag plan still fits the flags the message has: a `$Junk` removal is stored before the addition | no message has both junk flags, also between the two STOREs |
| `Kept` | a COPY without reply is among its process's attempts, and who goes to dispatch has looked for its own | an unresolved COPY is not repeated, also when a rebuild gave the message a new identity |

The lemmas `...Does` say pointwise what each action does, `StepHolds`, `StepCondemns`,
`StepPlanned` and `StepKeeping` what a step of a process means for one layer, and `Next...`
that every step keeps it. `MessageNeverLost` does not follow from the copies alone: the
UIDs that commands in flight may still expunge (`Condemned`) have to be part of the invariant.

*Update.* For every number of processes, releases (at least one) and faults. The invariant `IInv` has four layers, which are proved
inductive together:

| Layer | What it says | Why it is needed |
|---|---|---|
| `Base` | types; who runs or reads under the lock has it; at most one transaction has a journal, in its directory; a process's own transaction begins only when nobody else's directory is left; who has not begun left nothing anywhere | every other layer; the reports "refused" and "already up to date" |
| `Disk` | each part of an unfinished transaction is untouched, moved aside, replaced, or a skill whose removal was cut; a committed one has both new parts; without either the parts are whole and there are no backups | whatever stopped an installer, these are the only disks the next one meets (`Resumable`) |
| `Works` | what the running installer has done by its step of the script, by its part of the rollback, by its place in the clean-up | `Disk` after its next step: a part is installed only when it was moved aside and its stage is complete, and a clean-up marks the journal only when nothing is left to undo |
| `Reports` | an exit with success means both parts are new and no backup is left, as long as the lock is held; until the commit, what an update found under the lock stays so: the installed version, or the one its transaction recorded, is older than its own | `ReportTrue`, `NoDowngrade` |

`Disk` alone is not inductive, since a step of the installer does not look at what its earlier
steps did; `Works` alone is not either, since a stopped installer leaves no step behind.
`FlightSteps` says that a transaction begins, goes on or ends only by a journal write or by the
mark of a clean-up. With `InstalledIs` (what the user has is what the journal recorded, or what is
there) it gives the refinement: of all steps only the write of `committed` changes what the user has,
and both parts at once. `NoDowngrade` is the same step, with what `Reports` says of it.
The lemmas `...Does` say pointwise what each action does; a failure, a kill and a power loss
have lemmas like any other step.

*Reading and saving.* For every chunk, budget and number of changes, faults and acts of
others; the three messages and their UIDs are part of the model. `ReadInv` is about the readers:

| Part | What it says | Why it is needed |
|---|---|---|
| `ServerPlaced`, `IndexPlaced` | under a UIDVALIDITY a UID stands for one message or none, on the server and in Mail's index | a UID and the UIDVALIDITY that vouches for it are read in two steps |
| `ReadersSound` | at each step: the UID a reader goes by was read under the UIDVALIDITY it holds, or there is a Message-ID to search for; what it found is the message or one with the same Message-ID; an answer without bytes is an error, and a complete one is whole | `RightMessage`, `NothingHalf` |
| `CacheSound` | an excerpt is of the message of its key | a later reader takes it from there without looking |
| `BudgetInv` | the chunks before the current one are through and charged, those after it have taken nothing, and whoever took something began below the budget | `BudgetHeld`: the charge comes only when the chunk has ended |

`RightMessage` is not inductive by itself, since a reader is wrong as soon as it *targets* a
wrong UID, many steps before it has an answer. `SaveInv` is about the saver and its directory:
`LookedAt` (who removes has looked, and what stands there now came after its look), `Still`,
`TempTracked` and `OutputTracked` (as long as nobody else was there, which file is under which name
at each step), `Controlled` (what the saver believes to own at each step), `Bytes` (what was read
back is good or was touched since, and whoever touched it unseen is `blind`), `OutcomeTrue` (the
answer, from the step that forms it on) and `Provenance` (bytes are written only of a message that was
read, which brings `ReadInv` in). `SavedTrue` needs `Bytes` for the temporary file *and* for the copy,
since the output is the one or the other; `CleanupSound` needs that an output without
`retain` is cleaned before the answer. There is one lemma per action for
each half: an action of the reader changes nothing of the saver but its start, and the other way round.

*Shelf.* For every number of drafts, attachments, faults and runs of prune, and every set of
scenes. There are three invariants, the second and third on top of the first:

| Part of `DraftsInv` | What it says | Why it is needed |
|---|---|---|
| `ShelfTyped`, `RunsTyped` | types; what is in the directory besides documents and attachments is on the disk as it is | a power failure |
| `ShelfLeases` | who works on a draft holds its lease; a removal runs under the lease of the edit or the prune it belongs to | nobody else moves what a step relies on |
| `DocsStand` | the attachments of a document, be it the one on the shelf *or* the one on the disk, stand in both | a power failure may bring the document of the disk back, and it must find them |
| `Copied` | how far an adoption has copied, up to attachments that stand on shelf and disk before the document is renamed to its name | `DocsStand` when the document appears |
| `DocsGo` | when the attachments of a draft go, there is no document of it, neither on the shelf nor on the disk | `DocsStand` when the attachments go |
| `MayGo` | whose document a removal may take: of an edit that discards or confirms, of a prune that found it unclaimed under the lease | `AcknowledgedKept` |
| `Acknowledged` | what was reported is on the shelf and on the disk | the same, over a power failure |

`DocumentWhole` alone is not inductive: a power failure replaces the shelf by the disk, of which it
says nothing. `DocsGo` is the reason why every removal is synchronised before the next begins; it
holds for a sweep only because the claims are removed with a synchronisation.

`SweptInv` follows a prune that is alone (`pr.quiet`, and nothing failed or was stopped since): what it has passed in its list is
clean, what is before it was seen with all that stands there, and what it holds is removed to the
end (`Cleaned`). `LeftoversSwept` is its last step. `ShownInv` has one part for each report:
`AdoptReports`, what an adoption that ends will say of what it left; `Inventory`, that as long as nothing changed in
the directory what prune or its dry run noted of a draft is what stands there; `Paging`, that as
long as nothing changed the pages shown so far are the first drafts of the shelf in order, and the cursor is the last
of them. Pages are cut from `Ordered`, the enumeration of a finite set of numbers by rank; that there
is exactly one draft of each rank (`OneOfRank`) rests on `LeastRef`, by well-foundedness of
inclusion on finite sets, and `NextDraft` says that a page goes on where the last one ended.

*New messages.* For every window, and every number of messages, changes and faults. `NewInv` relates three
tables of UIDs, each of which changes on its own: the server's mailbox, the window taken
from it, and Mail's rows.

| Part | What it says | Why it is needed |
|---|---|---|
| `ServerNumbers` | within a generation a UID is one message, a message is there once, and the next UID is above all | a delivery cannot reuse what a window or a row names |
| `CopyNumbers`, `WindowNumbers` | rows and window, rows and server, window and server agree pairwise, as long as they are of one generation | a comparison by UID is one of messages |
| `Noting` | what Mail held throughout is among what it holds now and what it held at some time | a row the comparison does not find was not held throughout |
| `Progress`, `Verdict` | by which identity the check compares at its step, and what its result says of the window | `NewTrue`, after the store has changed again |
| `Undisturbed`, `CutNoted` | while nothing changes the window is the newest of the mailbox, and the report says when it was cut | the completeness in `NewTrue` (`NewestIsTop`) |

`NewTrue` alone is not inductive: it says nothing before the answer. The agreement holds
for messages Mail held throughout only, since a message that left may be delivered again under another UID.

*Only model-checked:* liveness (`PagesEnd`, `CheckEnds`, and the two by hand), which is
out of the prover's reach; the run `reading`, whose properties speak of sequences cut from
ordered sets; and `StatusTrue` of the run `server`, which speaks of counts under two workers.

## 5. Not modelled

Batch execution (`mail/batch.go`): workers put results into slots of their own while one
coordinator publishes the first error and cancels; its state lives as long as one call, and
it is the next candidate. Message composition, content and threading headers, MIME decoding,
references, release signing and the command line: transformations of one input into one
output, whose detail is text and whose state does not outlive a call.

Power loss where only later processes look (`DraftSend`, `DraftHandoff`, `DraftLease`: files
are modelled as they appear to them, not as they survive a panic; `DraftShelf`,
`AccountBindings` and `UpdateInstall` have it); the build for other systems; claims written by
versions that sent through Mail.app (`ObservationBaseline`, gateway reconciliation); the draft
preview, the modes, owners and file identities that the snapshot code compares, and more
than one attempt directory in a tree; sending without an IMAP operator; deletion of the Sent
copy by other clients; an IMAP client without a lock directory, more than one account (accounts
share nothing but `Close`), SELECT reuse, the wrap-around of the generation
counters and the checks of the lock directory; the dialogues of SMTP and IMAP below the
outcomes listed above; the checks of Mail's database schema, the account catalogue and its
configuration files; eviction from the excerpt cache by size and age; the limit on metadata a prune keeps
in memory.

## 6. Plan

1. `BatchRun`: workers, the coordinator, cancellation and the shared output budget.
2. Proofs: `StatusTrue` of `ServerCheck`, and the invariants of `MailReading`.
3. Larger instances: three processes in `mutation`, two Mail changes in a page of excerpts.
