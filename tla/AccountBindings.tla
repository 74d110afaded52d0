---------------------------- MODULE AccountBindings ----------------------------
(***************************************************************************)
(* `mailcli send setup`: a password goes into the Keychain and a binding   *)
(* of a Mail account (sender aliases, the credential that logs in for      *)
(* them, optional SMTP and IMAP hosts) into a private file that several    *)
(* processes rewrite.  internal/cli/send_setup.go over                     *)
(* internal/mail/account_bindings.go and internal/keychain.                *)
(*                                                                         *)
(* The document is read without a lock before the password is asked for;   *)
(* it is read again, merged and replaced under two file locks, always      *)
(* taken in the same order and therefore one lock here.  A rename is seen  *)
(* at once and survives a power loss only once the directory was synced.   *)
(* Sizes (128 bindings, 64 aliases, 256 KiB), the syntax of addresses and  *)
(* hosts and replaced files or directories are not told apart.             *)
(***************************************************************************)
EXTENDS Integers, FiniteSets

CONSTANTS Procs,      \* processes running `send setup`, one after the other
          Accounts,   \* stable IDs of Mail accounts
          Addresses,  \* sender and login addresses
          provider,   \* the provider of an address, or "none"
          owners,     \* the Mail accounts whose identities contain an address
          Requests,   \* requests, see RequestRecord
          MaxRuns,    \* bound on the requests of a process
          MaxFaults   \* bound on failed steps, killed processes, power losses

Nobody == "nobody"
NoAccount == "no account"
NoAddress == "no address"
NoHost == "no host"
NoFlags == [smtp |-> "not given", imap |-> "not given"]
Hosts == [smtp: {NoHost, "host"}, imap: {NoHost, "host"}]

\* The flags of `send setup`; hosts replaces both endpoints at once.
RequestRecord ==
  [from: Addresses, account: Accounts \cup {NoAccount},
   cred: Addresses \cup {NoAddress}, hosts: Hosts \cup {NoFlags}, remove: BOOLEAN]

ASSUME BindingsAssumption ==
  /\ Requests \subseteq RequestRecord
  /\ provider \in [Addresses -> {"gmail", "icloud", "none"}]
  /\ owners \in [Addresses -> SUBSET Accounts]
  /\ MaxRuns \in Nat /\ MaxFaults \in Nat
  /\ Nobody \notin Procs /\ NoAccount \notin Accounts /\ NoAddress \notin Addresses

VARIABLES
  visible, durable,   \* the document as readers see it; as a power loss leaves it
  temps,              \* runs whose temporary file is still there
  keychain,           \* per address: absent, stored, or removed again
  lock,               \* holder of the file locks
  pc, job,            \* per process: its next step and its request, see NewJob
  runs, report,       \* per process: requests begun; result of the last one
  keyed, published,   \* history: runs that changed the Keychain, that renamed
  granted,            \* history: [account, alias] of successful runs
  killed,             \* history: a process was killed or the power lost
  faults

files == <<visible, durable, temps>>
worker == <<pc, job, runs, report>>
history == <<keyed, published, granted, killed>>
vars == <<files, keychain, lock, worker, history, faults>>

Unbound == [aliases |-> {}, cred |-> NoAddress, hosts |-> [smtp |-> NoHost, imap |-> NoHost]]
Bound(b) == b.aliases # {}
Empty == [a \in Accounts |-> Unbound]

Run(p) == [by |-> p, run |-> runs[p]]
NoRequest == [from |-> NoAddress, account |-> NoAccount, cred |-> NoAddress,
              hosts |-> NoFlags, remove |-> FALSE]

\* account and cred as resolved; snapshot: the binding read before the prompt;
\* planned: the merged document; says and status: the outcome so far.
NewJob(r) == [ask |-> r, account |-> NoAccount, cred |-> NoAddress, snapshot |-> Unbound,
              planned |-> Empty, says |-> "nothing", status |-> "none"]

NoReport == [says |-> "nothing", status |-> "none"]

Init ==
  /\ visible = Empty /\ durable = Empty /\ temps = {}
  /\ keychain = [c \in Addresses |-> "absent"]
  /\ lock = Nobody
  /\ pc = [p \in Procs |-> "idle"] /\ job = [p \in Procs |-> NewJob(NoRequest)]
  /\ runs = [p \in Procs |-> 0] /\ report = [p \in Procs |-> NoReport]
  /\ keyed = {} /\ published = {} /\ granted = {} /\ killed = FALSE
  /\ faults = 0

-------------------------------------------------------------------------------
(* Bindings.                                                               *)

Explicit(b) == b.hosts.smtp # NoHost \/ b.hosts.imap # NoHost

\* Without hosts of its own a binding needs one provider that knows the login
\* and every alias.
ValidBinding(b) ==
  Bound(b) => \/ Explicit(b)
              \/ /\ provider[b.cred] # "none"
                 /\ \A a \in b.aliases : provider[a] = provider[b.cred]

ValidDocument(d) == \A a \in Accounts : ValidBinding(d[a])

\* Deviation: a changed login is not compared when hosts are given.
ChangedHostsOnly(now, r, seen) ==
  r.hosts = NoFlags /\ (Bound(now) # Bound(seen) \/ now.hosts # seen.hosts)

\* What the request leaves implicit is not what was read before the prompt.
Changed(now, r, seen) ==
  \/ (r.cred = NoAddress \/ r.hosts = NoFlags) /\ Bound(now) # Bound(seen)
  \/ r.cred = NoAddress /\ now.cred # seen.cred
  \/ r.hosts = NoFlags /\ now.hosts # seen.hosts

Merged(now, r, cred) ==
  [aliases |-> now.aliases \cup {r.from},
   cred    |-> IF ~Bound(now) \/ r.cred # NoAddress THEN cred ELSE now.cred,
   hosts   |-> IF r.hosts = NoFlags THEN now.hosts ELSE r.hosts]

\* The account a request is about: named, or the only one that owns the sender.
Selected(r) ==
  IF r.account # NoAccount \/ r.remove THEN {r.account} ELSE owners[r.from]

-------------------------------------------------------------------------------
(* Bookkeeping.                                                            *)

Fault == faults < MaxFaults /\ faults' = faults + 1
NoFault == UNCHANGED faults
Step(p, step, j) ==
  /\ pc' = [pc EXCEPT ![p] = step] /\ job' = [job EXCEPT ![p] = j]
  /\ UNCHANGED <<runs, report>>
Tell(p, says, status) ==
  /\ pc' = [pc EXCEPT ![p] = "idle"]
  /\ job' = [job EXCEPT ![p] = NewJob(NoRequest)]
  /\ report' = [report EXCEPT ![p] = [says |-> says, status |-> status]]
  /\ UNCHANGED runs
\* To the release of the locks, with the outcome it will be told with.
Conclude(p, says, status) ==
  Step(p, "release", [job[p] EXCEPT !.says = says, !.status = status])

-------------------------------------------------------------------------------
(* runSendSetup up to the Keychain.                                        *)

Begin(p, r) ==
  /\ pc[p] = "idle" /\ runs[p] < MaxRuns
  /\ pc' = [pc EXCEPT ![p] = "plan"] /\ job' = [job EXCEPT ![p] = NewJob(r)]
  /\ runs' = [runs EXCEPT ![p] = @ + 1] /\ report' = [report EXCEPT ![p] = NoReport]
  /\ UNCHANGED <<files, keychain, lock, history, faults>>

Refuse(p) == Tell(p, "refused", "none") /\ UNCHANGED <<lock, faults>>

\* Reads the document, resolves account and login and tries the merge, all
\* before a password is asked for.
Plan(p) ==
  /\ pc[p] = "plan"
  /\ LET r == job[p].ask
         seen(a) == IF a = NoAccount THEN Unbound ELSE visible[a]
         login(a) == IF r.cred # NoAddress THEN r.cred
                     ELSE IF Bound(seen(a)) THEN seen(a).cred ELSE r.from
         hosted(a) == r.hosts # NoFlags \/ Explicit(seen(a))
         fits(a) ==
           /\ r.hosts # NoFlags => r.account # NoAccount
           /\ ~hosted(a) => /\ provider[r.from] # "none"
                            /\ r.cred # NoAddress => provider[r.cred] # "none"
           /\ r.account = NoAccount => login(a) = r.from
           /\ ~r.remove => ValidBinding(Merged(seen(a), r, login(a)))
     IN IF Cardinality(Selected(r)) = 1 /\ \A a \in Selected(r) : fits(a)
        THEN \E a \in Selected(r) :
               /\ Step(p, IF r.remove THEN "delete" ELSE "prompt",
                       [job[p] EXCEPT !.account = a, !.cred = login(a), !.snapshot = seen(a)])
               /\ UNCHANGED <<lock, faults>>
        ELSE Refuse(p)
  /\ UNCHANGED <<files, keychain, history>>

\* SIGINT, a deadline, an empty or unreadable password: nothing was done yet.
Abandon(p) ==
  /\ pc[p] \in {"plan", "prompt", "delete"} /\ Refuse(p)
  /\ UNCHANGED <<files, keychain, history>>

Keyed(p, value) ==
  /\ keychain' = [keychain EXCEPT ![job[p].cred] = value]
  /\ keyed' = keyed \cup {Run(p)}

\* SecItemDelete; an item that is not there is an error.
Remove(p) ==
  /\ pc[p] = "delete"
  /\ \/ /\ keychain[job[p].cred] = "stored" /\ NoFault
        /\ Keyed(p, "removed") /\ Tell(p, "removed", "none")
     \/ /\ keychain[job[p].cred] # "stored" \/ faults < MaxFaults
        /\ Tell(p, "refused", "none") /\ UNCHANGED <<keychain, keyed>>
        /\ IF keychain[job[p].cred] # "stored" THEN NoFault ELSE Fault
  /\ UNCHANGED <<files, lock, published, granted, killed>>

\* The password was typed; SecItemAdd stores it unless there is an item.
Add(p) ==
  /\ pc[p] = "prompt"
  /\ \/ /\ NoFault
        /\ IF keychain[job[p].cred] = "stored"
           THEN Step(p, "update", job[p]) /\ UNCHANGED <<keychain, keyed>>
           ELSE Keyed(p, "stored") /\ Step(p, "lock", job[p])
     \/ Fault /\ Tell(p, "refused", "none") /\ UNCHANGED <<keychain, keyed>>
  /\ UNCHANGED <<files, lock, published, granted, killed>>

\* SecItemUpdate; the item may have been removed since SecItemAdd found it.
Update(p) ==
  /\ pc[p] = "update"
  /\ \/ /\ keychain[job[p].cred] = "stored" /\ NoFault
        /\ Keyed(p, "stored") /\ Step(p, "lock", job[p])
     \/ /\ Tell(p, "refused", "none") /\ UNCHANGED <<keychain, keyed>>
        /\ IF keychain[job[p].cred] = "stored" THEN Fault ELSE NoFault
  /\ UNCHANGED <<files, lock, published, granted, killed>>

-------------------------------------------------------------------------------
(* UpdateAccountBindings.                                                  *)

TakeLock(p) ==
  /\ pc[p] = "lock" /\ lock = Nobody
  /\ lock' = p /\ Step(p, "merge", job[p])
  /\ UNCHANGED <<files, keychain, history, faults>>

\* Two seconds without the locks, or a cancelled request.
Busy(p) ==
  /\ pc[p] = "lock" /\ Tell(p, "partial", "none")
  /\ UNCHANGED <<files, keychain, lock, history, faults>>

\* Deviation: the document read before the prompt is merged and published.
MergeStale(p) ==
  /\ pc[p] = "merge" /\ NoFault
  /\ LET a == job[p].account IN
     Step(p, "write", [job[p] EXCEPT !.planned =
       [visible EXCEPT ![a] = Merged(job[p].snapshot, job[p].ask, job[p].cred)]])
  /\ UNCHANGED <<files, keychain, lock, history>>

\* Old temporaries are swept, the document is read again and merged; the
\* sweep takes those of processes that are gone, when they are old enough.
Merge(p) ==
  /\ pc[p] = "merge"
  /\ temps' \in {temps, {}}
  /\ LET a == job[p].account
         r == job[p].ask
         new == [visible EXCEPT ![a] = Merged(visible[a], r, job[p].cred)]
     IN \/ /\ ~Changed(visible[a], r, job[p].snapshot) /\ ValidDocument(new)
           /\ Step(p, "write", [job[p] EXCEPT !.planned = new]) /\ NoFault
        \/ /\ Changed(visible[a], r, job[p].snapshot) \/ ~ValidDocument(new)
           /\ Conclude(p, "partial", "none") /\ NoFault
        \/ Fault /\ Conclude(p, "partial", "none")
  /\ UNCHANGED <<visible, durable, keychain, lock, history>>

\* writePrivateDraftFile: a temporary file, synced; removed if that fails.
Write(p) ==
  /\ pc[p] = "write"
  /\ \/ NoFault /\ temps' = temps \cup {Run(p)} /\ Step(p, "rename", job[p])
     \/ Fault /\ UNCHANGED temps /\ Conclude(p, "partial", "none")
  /\ UNCHANGED <<visible, durable, keychain, lock, history>>

\* The publication; a temporary file that cannot be renamed is removed.
Rename(p) ==
  /\ pc[p] = "rename"
  /\ temps' = temps \ {Run(p)}
  /\ \/ /\ NoFault /\ visible' = job[p].planned
        /\ published' = published \cup {Run(p)} /\ Step(p, "sync", job[p])
     \/ Fault /\ Conclude(p, "partial", "none") /\ UNCHANGED <<visible, published>>
  /\ UNCHANGED <<durable, keychain, lock, keyed, granted, killed>>

\* Deviation: a directory that could not be synced counts as not published.
SyncOrNone(p) ==
  /\ pc[p] = "sync"
  /\ \/ NoFault /\ durable' = visible /\ Conclude(p, "stored", "complete")
     \/ Fault /\ UNCHANGED durable /\ Conclude(p, "partial", "none")
  /\ UNCHANGED <<visible, temps, keychain, lock, history>>

\* The directory is synced and the published file compared with the written one.
Sync(p) ==
  /\ pc[p] = "sync"
  /\ \/ NoFault /\ durable' = visible /\ Conclude(p, "stored", "complete")
     \/ Fault /\ durable' \in {durable, visible} /\ Conclude(p, "partial", "unknown")
  /\ UNCHANGED <<visible, temps, keychain, lock, history>>

\* A failed release turns success into a partial effect, publication complete;
\* the closed descriptors free the locks all the same.
Release(p) ==
  /\ pc[p] = "release" /\ lock' = Nobody
  /\ \/ NoFault /\ Tell(p, job[p].says, job[p].status)
     \/ Fault /\ Tell(p, "partial", job[p].status)
  /\ granted' = IF job[p].status = "complete"
                THEN granted \cup {[account |-> job[p].account, alias |-> job[p].ask.from]}
                ELSE granted
  /\ UNCHANGED <<files, keychain, keyed, published, killed>>

Kill(p) ==
  /\ pc[p] # "idle" /\ Fault
  /\ Tell(p, "nothing", "none")
  /\ lock' = IF lock = p THEN Nobody ELSE lock
  /\ killed' = TRUE
  /\ UNCHANGED <<files, keychain, keyed, published, granted>>

PowerLoss ==
  /\ Fault
  /\ visible' \in {visible, durable} /\ durable' = visible'
  /\ lock' = Nobody /\ killed' = TRUE
  /\ pc' = [p \in Procs |-> "idle"] /\ job' = [p \in Procs |-> NewJob(NoRequest)]
  /\ report' = [p \in Procs |-> NoReport]
  /\ UNCHANGED <<temps, keychain, runs, keyed, published, granted>>

Next ==
  \/ \E p \in Procs :
       \/ \E r \in Requests : Begin(p, r)
       \/ Plan(p) \/ Abandon(p) \/ Remove(p) \/ Add(p) \/ Update(p) \/ TakeLock(p)
       \/ Busy(p) \/ Merge(p) \/ Write(p) \/ Rename(p) \/ Sync(p) \/ Release(p) \/ Kill(p)
  \/ PowerLoss

Spec == Init /\ [][Next]_vars

-------------------------------------------------------------------------------
(* What setup promises.                                                    *)

Locked == {"merge", "write", "rename", "sync", "release"}

\* Whatever readers find is a valid document, also after a power loss; one
\* process at a time is between the re-read and the release; a temporary file
\* stays only after a kill (account_bindings.go:602-723).
BindingsInv ==
  /\ ValidDocument(visible) /\ ValidDocument(durable)
  /\ \A p \in Procs : (lock = p) <=> (pc[p] \in Locked)
  /\ temps \subseteq {Run(p) : p \in {q \in Procs : pc[q] = "rename"}} \/ killed
  /\ \A c \in Addresses : keychain[c] \in {"absent", "stored", "removed"}

\* An alias whose setup was reported as complete stays bound, whatever other
\* setups, kills and power losses follow (updates are serialised and durable).
NothingLost == \A g \in granted : g.alias \in visible[g.account].aliases \cap durable[g.account].aliases

\* A binding names a login whose password was stored before it was published;
\* it may have been removed since (send_setup.go:297-312).
BoundHasPassword ==
  \A a \in Accounts : Bound(visible[a]) => keychain[visible[a].cred] # "absent"

\* The reported effects are what happened: a refusal changed nothing, a partial
\* effect stored the password, and its binding status is true
\* (documentation.md:1104).
EffectsTruthful ==
  \A p \in Procs :
    LET said == report[p] IN
    /\ said.says = "refused" => Run(p) \notin keyed \cup published
    /\ said.says = "partial" => Run(p) \in keyed
    /\ said.says \in {"stored", "partial"} /\ said.status = "none" => Run(p) \notin published
    /\ said.says = "stored" => Run(p) \in keyed
    /\ said.status # "none" => Run(p) \in published

\* A publication sets login and hosts only to what the request says or what
\* its process had read before the prompt: a change made meanwhile by another
\* setup is never mixed in unseen (send_setup.go:433-443).
SeenOrAsked ==
  [][\A p \in Procs :
       pc[p] = "rename" /\ pc'[p] = "sync" =>
         LET a == job[p].account
             r == job[p].ask
             seen == job[p].snapshot
         IN /\ visible'[a].cred = IF r.cred # NoAddress THEN r.cred
                                  ELSE IF Bound(seen) THEN seen.cred ELSE r.from
            /\ visible'[a].hosts = IF r.hosts # NoFlags THEN r.hosts ELSE seen.hosts
            /\ \A b \in Accounts \ {a} : visible'[b] = visible[b]]_vars

\* The document of bindings is whole and keeps what was granted
\* (updateAccountBindingsLocked, writeAccountBindings).
BindingsKept == BindingsInv /\ NothingLost

\* What setup reports is what it left: bindings with a password, and the
\* effects it lists (runSendSetup, writeSendSetupResult).
SetupTrue == BoundHasPassword /\ EffectsTruthful
=============================================================================
