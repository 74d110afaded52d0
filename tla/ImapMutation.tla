----------------------------- MODULE ImapMutation -----------------------------
(***************************************************************************)
(* Changing one message over IMAP: COPY, MOVE (native, or COPY + STORE +   *)
(* UID EXPUNGE where the server has no MOVE), deletion (a MOVE to Trash)   *)
(* and flag changes, by several processes, against a server that other     *)
(* clients use too, that may rebuild a mailbox (new UIDVALIDITY, new UIDs) *)
(* and that may execute a command whose reply was lost at once, later or   *)
(* never.  internal/mailstore/imap_{copy_move,delete,flags,resolve}.go     *)
(* over internal/transport/imapclient/{mutations,flags,search}.go.         *)
(*                                                                         *)
(* One action per IMAP command.  A SELECT is one step with the read that   *)
(* follows it: a rebuild in between ends the session, and the read fails.  *)
(* The copies of the message the requests name all have id Named; another  *)
(* message of the same mailbox has id Other.                               *)
(***************************************************************************)
EXTENDS Integers, FiniteSets, Sequences, SequencesExt

CONSTANTS Procs,        \* processes, each running one request at a time
          Requests,     \* requests a process may make, see RequestRecord
          Offers,       \* what the server may advertise: sets of capabilities
          MaxRuns,      \* bound on the requests of a process
          MaxFaults     \* bound on rebuilds, steps of other clients, lost
                        \* replies and killed processes, together

Boxes == {"inbox", "trash"}
Flags == {"Deleted", "Junk", "NotJunk"}
NoUid == 0
Nobody == "nobody"

\* op; source and destination mailbox; flags to add and to remove; whether
\* the Message-ID is known; whether the reference carries a server UID.
RequestRecord ==
  [op: {"copy", "move", "mark"}, from: Boxes, to: Boxes,
   add: SUBSET Flags, remove: SUBSET Flags, named: BOOLEAN, pinned: BOOLEAN]

ASSUME MutationAssumption ==
  /\ Requests \subseteq RequestRecord
  /\ \A r \in Requests : /\ r.add \cap r.remove = {}
                         /\ r.op # "mark" => r.from # r.to
                         /\ "Junk" \in r.add => "NotJunk" \in r.remove
                         /\ "NotJunk" \in r.add => "Junk" \in r.remove
  /\ Offers \subseteq SUBSET {"MOVE", "UIDPLUS"}
  /\ MaxRuns \in Nat /\ MaxFaults \in Nat
  /\ Nobody \notin Procs

NoRequest == [op |-> "none", from |-> "inbox", to |-> "inbox", add |-> {},
              remove |-> {}, named |-> FALSE, pinned |-> FALSE]

VARIABLES
  validity, box, next,   \* server: UIDVALIDITY, messages and next UID of a mailbox
  late,                  \* commands the server got, whose reply is lost, still to run
  known,                 \* identity of the message in Mail.app's local store
  lock,                  \* holder of the account's mutation lock
  pc,                    \* per process: its next step
  job,                   \* the request and what is known of it, see NewJob
  attempts,              \* copyAttempts: identities of unresolved COPYs
  report,                \* what the last finished request told its caller
  runs,                  \* requests begun
  felt, touched,         \* history: effects that the server carried out
  sent,                  \* history: COPYs sent whose reply never came
  lateRan, removed, added, \* history: what the environment did
  faults,                \* faults so far
  offers                 \* capabilities the server advertises

server == <<validity, box, next>>
worker == <<pc, job, attempts, report, runs>>
history == <<felt, touched, sent, lateRan, removed, added, faults, offers>>
vars == <<server, late, known, lock, worker, history>>

NoTarget == [uid |-> NoUid, validity |-> 0]
NoReport == [says |-> "nothing", effects |-> {}, run |-> 0]

\* ask: the request; target: imapTarget's uid and uidvalidity; retried: it was
\* resolved twice; selected: UIDVALIDITY of the session's SELECT; guarded: UIDVALIDITY of the searched destination; plan:
\* flag phases to store; outcome, effects, copyuid: the evidence.
NewJob(r) ==
  [ask |-> r, target |-> NoTarget, retried |-> FALSE, selected |-> 0, guarded |-> 0,
   plan |-> <<>>, outcome |-> "not_started", effects |-> {}, copyuid |-> <<0, 0>>]

Message(uid, id, flags) == [uid |-> uid, id |-> id, flags |-> flags]
InitialBox == [b \in Boxes |->
                 IF b = "inbox" THEN {Message(1, "named", {"NotJunk"}),
                                      Message(2, "other", {})}
                                ELSE {}]

Init ==
  /\ validity = [b \in Boxes |-> 1]
  /\ box = InitialBox
  /\ next = [b \in Boxes |-> IF b = "inbox" THEN 3 ELSE 1]
  /\ late = {} /\ lock = Nobody
  /\ known = [b \in Boxes |-> IF b = "inbox" THEN [uid |-> 1, validity |-> 1]
                                             ELSE NoTarget]
  /\ pc = [p \in Procs |-> "idle"]
  /\ job = [p \in Procs |-> NewJob(NoRequest)]
  /\ attempts = [p \in Procs |-> {}]
  /\ report = [p \in Procs |-> NoReport]
  /\ runs = [p \in Procs |-> 0]
  /\ felt = {} /\ touched = {} /\ sent = {} /\ lateRan = FALSE
  /\ removed = FALSE /\ added = FALSE /\ faults = 0
  /\ offers \in Offers

-------------------------------------------------------------------------------
(* The server.  A command carries the generation of the mailbox its session *)
(* selected; after a rebuild that session is gone and the command with it.  *)

At(b, uid) == {m \in box[b] : m.uid = uid}
Holds(b) == {m \in box[b] : m.id = "named"}

Command(p, kind, phase) ==
  LET j == job[p] IN
  [by |-> p, run |-> runs[p], named |-> j.ask.named,
   kind |-> kind, from |-> j.ask.from, to |-> j.ask.to,
   uid |-> j.target.uid, validity |-> j.selected,
   add |-> phase.add, remove |-> phase.remove]
NoPhase == [add |-> {}, remove |-> {}]

\* The messages a command changes: none in a rebuilt mailbox, none when the
\* UID is gone, and UID EXPUNGE only takes a message flagged \Deleted.
Subjects(c) ==
  IF validity[c.from] # c.validity THEN {}
  ELSE {m \in At(c.from, c.uid) : c.kind = "expunge" => "Deleted" \in m.flags}

Leaves(c) == c.kind \in {"move", "expunge"}
Arrives(c) == c.kind \in {"move", "copy"}

Execute(c) ==
  /\ box' = [b \in Boxes |->
       ((IF b = c.from
         THEN (box[b] \ IF Leaves(c) \/ c.kind = "store" THEN Subjects(c) ELSE {})
              \cup {Message(m.uid, m.id, (m.flags \cup c.add) \ c.remove) :
                      m \in IF c.kind = "store" THEN Subjects(c) ELSE {}}
         ELSE box[b])
        \cup {Message(next[b], m.id, m.flags) :
                m \in IF b = c.to /\ Arrives(c) THEN Subjects(c) ELSE {}})]
  /\ next' = IF Arrives(c) /\ Subjects(c) # {}
             THEN [next EXCEPT ![c.to] = @ + 1] ELSE next
  /\ felt' = felt \cup {[by |-> c.by, run |-> c.run, kind |-> c.kind,
                           named |-> c.named] : m \in Subjects(c)}
  /\ touched' = touched \cup {m.id : m \in Subjects(c)}
  /\ UNCHANGED validity

Ignore == UNCHANGED <<server, felt, touched>>

Fault == faults < MaxFaults /\ faults' = faults + 1

\* Reply lost: the command runs now, stays in the server's hands, or is lost.
Lose(c) ==
  /\ Fault
  /\ \/ Execute(c) /\ UNCHANGED late
     \/ late' = late \cup {c} /\ Ignore
     \/ Ignore /\ UNCHANGED late

LateExecution ==
  \E c \in late :
    /\ late' = late \ {c}
    /\ \/ Execute(c) /\ lateRan' = TRUE
       \/ Ignore /\ UNCHANGED lateRan
    /\ UNCHANGED <<known, lock, worker, sent, removed, added, faults, offers>>

\* Rebuild: new UIDVALIDITY, the messages numbered anew in any order.
Rebuild(b) ==
  /\ Fault
  /\ validity' = [validity EXCEPT ![b] = @ + 1]
  /\ \E order \in {s \in [1..Cardinality(box[b]) -> box[b]] :
                     \A i, j \in DOMAIN s : s[i] = s[j] => i = j} :
       box' = [box EXCEPT ![b] = {[order[i] EXCEPT !.uid = i] : i \in DOMAIN order}]
  /\ next' = [next EXCEPT ![b] = Cardinality(box[b]) + 1]
  /\ UNCHANGED <<late, known, lock, worker, felt, touched, sent, lateRan, removed, added, offers>>

\* Another client delivers a copy, expunges a message or changes its flags.
ForeignClient(b) ==
  /\ Fault
  /\ \/ /\ box' = [box EXCEPT ![b] = @ \cup {Message(next[b], "named", {})}]
        /\ next' = [next EXCEPT ![b] = @ + 1]
        /\ added' = TRUE /\ UNCHANGED removed
     \/ \E m \in Holds(b) :
          /\ box' = [box EXCEPT ![b] = @ \ {m}]
          /\ removed' = TRUE /\ UNCHANGED <<next, added>>
     \/ \E m \in Holds(b) :
          /\ box' = [box EXCEPT ![b] =
                       (@ \ {m}) \cup {[m EXCEPT !.flags = @ \ {"Deleted"}]}]
          /\ UNCHANGED <<next, added, removed>>
  /\ UNCHANGED <<validity, late, known, lock, worker, felt, touched, sent,
                 lateRan, offers>>

\* Mail.app synchronises its store with the server.
Synchronise(b) ==
  /\ known' = [known EXCEPT ![b] =
       IF Holds(b) = {} THEN NoTarget
       ELSE [uid |-> (CHOOSE m \in Holds(b) : TRUE).uid, validity |-> validity[b]]]
  /\ known' # known
  /\ UNCHANGED <<server, late, lock, worker, history>>

-------------------------------------------------------------------------------
(* Building blocks of the processes' steps.                                 *)

Asked(p) == job[p].ask
Key(p) == [from |-> Asked(p).from, to |-> Asked(p).to, id |-> job[p].target]
Mark(p) == Asked(p).op = "mark"
Move(p) == Asked(p).op = "move"
Copy(p) == Asked(p).op = "copy"

\* The next step of the same request, with what it has learned.
Continue(p, step, j) ==
  /\ pc' = [pc EXCEPT ![p] = step]
  /\ job' = [job EXCEPT ![p] = j]
  /\ UNCHANGED <<report, runs>>

Unlock(p) == lock' = IF lock = p THEN Nobody ELSE lock

\* The request ends: release() is deferred in every operation.
Finish(p, says, effects) ==
  /\ report' = [report EXCEPT ![p] = [says |-> says, effects |-> effects, run |-> runs[p]]]
  /\ pc' = [pc EXCEPT ![p] = "idle"]
  /\ job' = [job EXCEPT ![p] = NewJob(NoRequest)]
  /\ Unlock(p) /\ UNCHANGED runs

\* Only COPY keeps attempts.
Forget(p) ==
  attempts' = IF Copy(p) THEN [attempts EXCEPT ![p] = @ \ {Key(p)}] ELSE attempts
Remember(p) == attempts' = [attempts EXCEPT ![p] = @ \cup {Key(p)}]

\* Ends before anything was written: a COPY forgets the attempt it noted.
Refuse(p) == Finish(p, "refused", {}) /\ Forget(p)

ReadOnly == UNCHANGED <<server, late, known, history>>

-------------------------------------------------------------------------------
(* The processes.                                                           *)

Begin(p, r) ==
  /\ pc[p] = "idle" /\ FoldFunction(+, 0, runs) < MaxRuns
  /\ runs' = [runs EXCEPT ![p] = @ + 1]
  /\ job' = [job EXCEPT ![p] = NewJob(r)]
  /\ report' = [report EXCEPT ![p] = NoReport]
  /\ pc' = [pc EXCEPT ![p] = "resolve"]
  /\ ReadOnly /\ UNCHANGED <<lock, attempts>>

\* The reference's own identity, while the local store still agrees with it;
\* otherwise the Message-ID, which has to match exactly one message.
Pinned == [uid |-> 1, validity |-> 1]
Resolved(p) ==
  LET b == Asked(p).from IN
  IF Asked(p).pinned THEN {Pinned} \cap {known[b]}
  ELSE {[uid |-> m.uid, validity |-> validity[b]] :
          m \in IF Asked(p).named /\ Cardinality(Holds(b)) = 1 THEN Holds(b) ELSE {}}

Resolve(p) ==
  /\ pc[p] = "resolve"
  /\ \/ \E t \in Resolved(p) :
          /\ Continue(p, IF Copy(p) /\ ~job[p].retried THEN "attempt" ELSE "lock",
                      [job[p] EXCEPT !.target = t])
          /\ attempts' = IF Copy(p) /\ job[p].retried
                         THEN [attempts EXCEPT ![p] = @ \cup {[Key(p) EXCEPT !.id = t]}]
                         ELSE attempts
          /\ UNCHANGED lock
     \/ Resolved(p) = {} /\ Finish(p, "refused", {}) /\ UNCHANGED attempts
  /\ ReadOnly

\* A COPY that this process left unresolved is not sent again, nor is one
\* that the destination could not be searched for.  A retried COPY notes its
\* new attempt without this look.
Attempt(p) ==
  /\ pc[p] = "attempt"
  /\ IF Key(p) \in attempts[p] \/ ~Asked(p).named
     THEN Finish(p, "unknown", {}) /\ UNCHANGED attempts
     ELSE Remember(p) /\ Continue(p, "lock", job[p]) /\ UNCHANGED lock
  /\ ReadOnly

\* acquireMutation; a MOVE without MOVE and without Message-ID stops here.
Acquire(p) ==
  /\ pc[p] = "lock"
  /\ \/ /\ ~(Move(p) /\ "MOVE" \notin offers /\ ~Asked(p).named)
        /\ lock = Nobody /\ lock' = p
        /\ Continue(p, IF ~Mark(p) /\ Asked(p).named THEN "guard" ELSE "source", job[p])
        /\ UNCHANGED attempts
     \/ Refuse(p)
  /\ ReadOnly

(* Deviation: a destination that holds the message does not stop a transfer. *)
GuardUnread(p) ==
  /\ pc[p] = "guard"
  /\ Continue(p, "source", [job[p] EXCEPT !.guarded = validity[Asked(p).to]])
  /\ ReadOnly /\ UNCHANGED <<lock, attempts>>

\* destinationMatch: the destination must not hold the message yet.
Guard(p) ==
  LET b == Asked(p).to IN
  /\ pc[p] = "guard"
  /\ \/ /\ Holds(b) = {}
        /\ Continue(p, "source", [job[p] EXCEPT !.guarded = validity[b]])
        /\ UNCHANGED <<lock, attempts>>
     \/ Finish(p, "unknown", {}) /\ Forget(p)
  /\ ReadOnly

TouchesJunk(r) == (r.add \cup r.remove) \cap {"Junk", "NotJunk"} # {}
Needed(r, flags) == [add |-> r.add \ flags, remove |-> r.remove \cap flags]
Phases(r, needed) ==
  LET adds == IF needed.add = {} THEN <<>> ELSE <<[NoPhase EXCEPT !.add = needed.add]>>
      removes == IF needed.remove = {} THEN <<>>
                 ELSE <<[NoPhase EXCEPT !.remove = needed.remove]>>
  IN  IF TouchesJunk(r) THEN removes \o adds ELSE adds \o removes

(* Deviation: any known UIDVALIDITY will do. *)
CheckUIDKnown(expected, observed) == expected # 0 /\ observed # 0

CheckUIDValidity(expected, observed) == expected # 0 /\ expected = observed

\* SELECT the source, compare UIDVALIDITY, and for MOVE and junk marks FETCH
\* the message's flags.  A changed UIDVALIDITY is worth one new resolution.
Source(p) ==
  LET b == Asked(p).from
      usable == CheckUIDValidity(job[p].target.validity, validity[b])
      selected == [job[p] EXCEPT !.selected = validity[b]]
      plan(m) == Phases(Asked(p), Needed(Asked(p), m.flags))
  IN
  /\ pc[p] = "source"
  /\ \/ /\ usable /\ Copy(p)
        /\ Continue(p, "dispatch", selected) /\ UNCHANGED <<lock, attempts>>
     \/ /\ usable /\ Move(p) /\ At(b, job[p].target.uid) # {}
        /\ Continue(p, "dispatch", selected) /\ UNCHANGED <<lock, attempts>>
     \/ /\ usable /\ Mark(p)
        /\ \E m \in At(b, job[p].target.uid) :
             IF plan(m) = <<>> THEN Finish(p, "completed", {})
             ELSE Continue(p, "store", [selected EXCEPT !.plan = plan(m)]) /\ UNCHANGED lock
        /\ UNCHANGED attempts
     \/ /\ ~usable /\ ~job[p].retried
        /\ Continue(p, "resolve", [NewJob(Asked(p)) EXCEPT !.retried = TRUE])
        /\ Forget(p) /\ Unlock(p)
     \/ Refuse(p)
  /\ ReadOnly

\* Before the server got anything, or after its NO: the caller may try again.
NotDispatched(p) == Ignore /\ UNCHANGED <<late, faults>> /\ Refuse(p)

\* The server answers OK: it ran the command, which found its session's
\* mailbox unchanged; COPYUID is optional.
Answered(c) ==
  /\ validity[c.from] = c.validity
  /\ Execute(c) /\ UNCHANGED <<late, faults>>
CopyUIDs(c) == {<<0, 0>>} \cup {<<validity[c.to], next[c.to]>> : m \in Subjects(c)}

(* Deviation: a COPY whose reply is lost counts as not sent. *)
DispatchCopyOrForget(p) ==
  LET c == Command(p, "copy", NoPhase) IN
  /\ pc[p] = "dispatch" /\ Copy(p)
  /\ \/ NotDispatched(p)
     \/ /\ Answered(c)
        /\ Continue(p, "verify", [job[p] EXCEPT !.outcome = "completed"])
        /\ Unlock(p) /\ UNCHANGED attempts
     \/ Lose(c) /\ Refuse(p)
  /\ UNCHANGED <<known, sent, lateRan, removed, added, offers>>

\* UID COPY of a COPY request.  The lock is released with the reply; the
\* destination is searched afterwards whatever the reply was.
DispatchCopy(p) ==
  LET c == Command(p, "copy", NoPhase) IN
  /\ pc[p] = "dispatch" /\ Copy(p)
  /\ \/ NotDispatched(p) /\ UNCHANGED sent
     \/ /\ Answered(c)
        /\ \E code \in CopyUIDs(c) :
             Continue(p, "verify", [job[p] EXCEPT !.outcome = "completed", !.copyuid = code])
        /\ Unlock(p) /\ UNCHANGED <<sent, attempts>>
     \/ /\ Lose(c)
        /\ sent' = sent \cup {[by |-> p, key |-> Key(p)]}
        /\ Continue(p, "verify", [job[p] EXCEPT !.outcome = "unknown"])
        /\ Unlock(p) /\ UNCHANGED attempts
  /\ UNCHANGED <<known, lateRan, removed, added, offers>>

\* verifyCopyDestinationAfterDispatch: exactly one match, the one COPYUID
\* named.  Anything else stays an unresolved attempt of this process.
VerifyCopy(p) ==
  LET b == Asked(p).to
      code == job[p].copyuid
      confirmed == /\ job[p].outcome = "completed"
                   /\ Cardinality(Holds(b)) = 1
                   /\ code # <<0, 0>> => /\ code[1] = validity[b]
                                         /\ \E m \in Holds(b) : m.uid = code[2]
  IN
  /\ pc[p] = "verify"
  /\ \/ confirmed /\ Finish(p, "completed", {"copy"}) /\ Forget(p)
     \/ Finish(p, "unknown", {}) /\ Remember(p)
  /\ ReadOnly

\* UID MOVE.  A NO is not taken for proof that nothing moved.
DispatchMove(p) ==
  LET c == Command(p, "move", NoPhase) IN
  /\ pc[p] = "dispatch" /\ Move(p) /\ "MOVE" \in offers
  /\ \/ NotDispatched(p)
     \/ /\ Answered(c)
        /\ \E code \in CopyUIDs(c) :
             Continue(p, "absent", [job[p] EXCEPT !.outcome = "completed", !.copyuid = code])
        /\ UNCHANGED <<lock, attempts>>
     \/ /\ validity[c.from] = c.validity
        /\ Ignore /\ UNCHANGED <<late, faults>>
        /\ Continue(p, "absent", [job[p] EXCEPT !.outcome = "unknown"])
        /\ UNCHANGED <<lock, attempts>>
     \/ Lose(c) /\ Finish(p, "unknown", {}) /\ UNCHANGED attempts
  /\ UNCHANGED <<known, sent, lateRan, removed, added, offers>>

\* transferSourceAbsent: same generation, UID no longer there.
SourceAbsent(p) == /\ CheckUIDValidity(job[p].selected, validity[Asked(p).from])
                   /\ At(Asked(p).from, job[p].target.uid) = {}

\* After UID MOVE.  A failed look leaves the outcome open; a dirty session
\* ends the request.
CheckAbsent(p) ==
  /\ pc[p] = "absent"
  /\ \/ \E gone \in {{}} \cup (IF SourceAbsent(p) THEN {{"gone"}} ELSE {}) :
          Continue(p, "arrived", [job[p] EXCEPT !.effects = gone]) /\ UNCHANGED lock
     \/ Finish(p, "unknown", {})
  /\ ReadOnly /\ UNCHANGED attempts

\* verifyTransferDestination: the message COPYUID names, in the generation
\* that was guarded; without COPYUID the only match of the Message-ID.
DestinationVerified(p) ==
  LET b == Asked(p).to
      code == job[p].copyuid
  IN  IF code # <<0, 0>>
      THEN /\ job[p].guarded # 0 => code[1] = job[p].guarded
           /\ CheckUIDValidity(code[1], validity[b])
           /\ At(b, code[2]) # {}
      ELSE /\ Asked(p).named
           /\ CheckUIDValidity(job[p].guarded, validity[b])
           /\ Cardinality(Holds(b)) = 1

\* The report of a native MOVE; the next phase of a fallback.
CheckArrived(p) ==
  LET moved == job[p].effects = {"gone"} IN
  /\ pc[p] = "arrived"
  /\ \/ /\ DestinationVerified(p) /\ "MOVE" \in offers
        /\ Finish(p, IF moved THEN job[p].outcome ELSE "unknown",
                  IF moved THEN {"copy", "move"} ELSE {"copy"})
     \/ /\ DestinationVerified(p) /\ "MOVE" \notin offers
        /\ Continue(p, "again", [job[p] EXCEPT !.effects = {"copy"}])
        /\ UNCHANGED lock
     \/ Finish(p, "unknown", {})
  /\ ReadOnly /\ UNCHANGED attempts

(* Deviation: a fallback whose COPY was not answered goes on. *)
FallbackCopyBlind(p) ==
  LET c == Command(p, "copy", NoPhase) IN
  /\ pc[p] = "dispatch" /\ Move(p) /\ "MOVE" \notin offers
  /\ Answered(c) \/ Lose(c)
  /\ Continue(p, "again", [job[p] EXCEPT !.effects = {"copy"}])
  /\ UNCHANGED <<known, lock, attempts, sent, lateRan, removed, added, offers>>

\* Fallback of a MOVE: UID COPY first.  COPYUID must name the guarded
\* generation; without COPYUID the destination is searched.
FallbackCopy(p) ==
  LET c == Command(p, "copy", NoPhase) IN
  /\ pc[p] = "dispatch" /\ Move(p) /\ "MOVE" \notin offers
  /\ \/ NotDispatched(p)
     \/ /\ Answered(c) /\ UNCHANGED attempts
        /\ \/ Continue(p, "arrived", job[p]) /\ UNCHANGED lock
           \/ /\ Subjects(c) # {} /\ validity[c.to] = job[p].guarded
              /\ Continue(p, "again", [job[p] EXCEPT !.effects = {"copy"}])
              /\ UNCHANGED lock
           \/ /\ Subjects(c) # {} /\ validity[c.to] # job[p].guarded
              /\ Finish(p, "unknown", {})
     \/ Lose(c) /\ Finish(p, "unknown", {}) /\ UNCHANGED attempts
  /\ UNCHANGED <<known, sent, lateRan, removed, added, offers>>

\* The source is selected again before it is flagged.
SourceAgain(p) ==
  /\ pc[p] = "again"
  /\ \/ /\ CheckUIDValidity(job[p].selected, validity[Asked(p).from])
        /\ Continue(p, "store",
             [job[p] EXCEPT !.selected = validity[Asked(p).from],
                            !.plan = <<[NoPhase EXCEPT !.add = {"Deleted"}]>>])
        /\ UNCHANGED lock
     \/ Finish(p, "unknown", job[p].effects)
  /\ ReadOnly /\ UNCHANGED attempts

-------------------------------------------------------------------------------
(* Flag phases: STORE, verified by the reply's own FETCH data or by one     *)
(* FETCH, never by another STORE.                                           *)

FlagsMatch(flags, r) == r.add \subseteq flags /\ r.remove \cap flags = {}

\* A fallback MOVE reports any flag error as an unknown outcome.
FlagsFailed(p, says) ==
  Finish(p, IF Move(p) THEN "unknown" ELSE says, job[p].effects)

\* verifyFlagResult and what follows it, for the flags observed.
FlagsObserved(p, flags) ==
  LET rest == Tail(job[p].plan) IN
  \/ ~FlagsMatch(flags, Head(job[p].plan)) /\ FlagsFailed(p, "mismatch")
  \/ /\ FlagsMatch(flags, Head(job[p].plan)) /\ rest # <<>>
     /\ Continue(p, "store", [job[p] EXCEPT !.plan = rest, !.outcome = "partial"])
     /\ UNCHANGED lock
  \/ /\ FlagsMatch(flags, Head(job[p].plan)) /\ rest = <<>> /\ Move(p)
     /\ Continue(p, "expunge", [job[p] EXCEPT !.plan = rest, !.effects = @ \cup {"source_flag"}])
     /\ UNCHANGED lock
  \/ /\ FlagsMatch(flags, Head(job[p].plan)) /\ rest = <<>> /\ Mark(p)
     /\ Finish(p, IF FlagsMatch(flags, Asked(p)) THEN "completed" ELSE "mismatch", {})

\* NO, BAD or a deadline that cannot be set leave the phases before; a lost
\* reply leaves the outcome unknown.
Store(p) ==
  LET c == Command(p, "store", Head(job[p].plan)) IN
  /\ pc[p] = "store"
  /\ \/ /\ Ignore /\ UNCHANGED <<late, faults>>
        /\ FlagsFailed(p, IF job[p].outcome = "partial" THEN "partial" ELSE "refused")
     \/ /\ Answered(c)
        /\ \/ \E m \in Subjects(c) : FlagsObserved(p, (m.flags \cup c.add) \ c.remove)
           \/ Continue(p, "fetch", job[p]) /\ UNCHANGED lock
     \/ Lose(c) /\ FlagsFailed(p, "unknown")
  /\ UNCHANGED <<known, attempts, sent, lateRan, removed, added, offers>>

Fetch(p) ==
  /\ pc[p] = "fetch"
  /\ \/ /\ validity[Asked(p).from] = job[p].selected
        /\ \E m \in At(Asked(p).from, job[p].target.uid) : FlagsObserved(p, m.flags)
     \/ FlagsFailed(p, "unknown")
  /\ ReadOnly /\ UNCHANGED attempts

\* UID EXPUNGE, or, where the server refuses it, a deferred clean-up: never
\* an EXPUNGE of the whole mailbox.
Expunge(p) ==
  LET c == Command(p, "expunge", NoPhase) IN
  /\ pc[p] = "expunge"
  /\ \/ /\ "UIDPLUS" \in offers /\ Answered(c)
        /\ Continue(p, "expunged", job[p]) /\ UNCHANGED lock
     \/ /\ "UIDPLUS" \notin offers /\ Ignore /\ UNCHANGED <<late, faults>>
        /\ \/ Finish(p, "completed", job[p].effects \cup {"cleanup_deferred"})
           \/ Finish(p, "unknown", job[p].effects)
     \/ Lose(c) /\ Finish(p, "unknown", job[p].effects)
  /\ UNCHANGED <<known, attempts, sent, lateRan, removed, added, offers>>

CheckExpunged(p) ==
  /\ pc[p] = "expunged"
  /\ \/ SourceAbsent(p) /\ Finish(p, "completed", job[p].effects \cup {"uid_expunge"})
     \/ Finish(p, "unknown", job[p].effects)
  /\ ReadOnly /\ UNCHANGED attempts

\* SIGKILL: the lock is freed by the system, copyAttempts are gone.
Kill(p) ==
  /\ pc[p] # "idle" /\ Fault
  /\ pc' = [pc EXCEPT ![p] = "idle"]
  /\ job' = [job EXCEPT ![p] = NewJob(NoRequest)]
  /\ attempts' = [attempts EXCEPT ![p] = {}]
  /\ sent' = {s \in sent : s.by # p}
  /\ Unlock(p)
  /\ UNCHANGED <<server, late, known, report, runs, felt, touched, lateRan,
                 removed, added, offers>>

Step(p) ==
  \/ \E r \in Requests : Begin(p, r)
  \/ Resolve(p) \/ Attempt(p) \/ Acquire(p) \/ Guard(p) \/ Source(p)
  \/ DispatchCopy(p) \/ VerifyCopy(p)
  \/ DispatchMove(p) \/ CheckAbsent(p) \/ CheckArrived(p)
  \/ FallbackCopy(p) \/ SourceAgain(p)
  \/ Store(p) \/ Fetch(p) \/ Expunge(p) \/ CheckExpunged(p)
  \/ Kill(p)

Environment ==
  LateExecution \/ \E b \in Boxes : Rebuild(b) \/ ForeignClient(b) \/ Synchronise(b)

Next == Environment \/ \E p \in Procs : Step(p)

Spec == Init /\ [][Next]_vars

-------------------------------------------------------------------------------
(* Properties.                                                              *)

Steps == {"idle", "resolve", "attempt", "lock", "guard", "source", "dispatch",
          "verify", "absent", "arrived", "again", "store", "fetch", "expunge", "expunged"}

\* The state's shape, and: whoever is past acquireMutation and not yet done
\* with its session holds the account's mutation lock, and nobody else does.
MutationInv ==
  /\ pc \in [Procs -> Steps]
  /\ lock \in Procs \cup {Nobody}
  /\ \A p \in Procs :
       (pc[p] \in Steps \ {"idle", "resolve", "attempt", "lock", "verify"}) <=> lock = p
  /\ \A b \in Boxes : \A m \in box[b] :
       m.uid < next[b] /\ Cardinality(At(b, m.uid)) = 1
  /\ \A p \in Procs : pc[p] \in {"store", "fetch"} => job[p].plan # <<>>

\* UIDVALIDITY: whatever was rebuilt, moved or re-resolved, no command of
\* MailCLI ever changes another message than the one that was asked for
\* (imapclient/mutations.go checkUIDValidity).
OnlyNamedMessage == touched \subseteq {"named"}

\* A request that ends with a definite error did not change the server, and
\* no command of it can still do so (transferCommandError, the retry after a
\* UIDVALIDITY change, flagPreflightFailure).
RefusedMeansUntouched ==
  \A p \in Procs : report[p].says = "refused" =>
    /\ \A f \in felt : ~(f.by = p /\ f.run = report[p].run)
    /\ \A c \in late : ~(c.by = p /\ c.run = report[p].run)

\* MOVE without server support is COPY, STORE and EXPUNGE, and may stop
\* anywhere: unless another client expunges it, the message is always in a
\* mailbox (imapclient/mutations.go moveMessage).
MessageNeverLost == removed \/ Holds("inbox") # {} \/ Holds("trash") # {}

\* A COPY is reported as completed once its destination holds one copy: its
\* UID COPY may have found no message, and another request copied it since
\* (verifyCopyDestinationAfterDispatch).
FoundThere(p) == report[p].says = "completed" /\ report[p].effects = {"copy"}

\* The effects a report lists were carried out by that very request, those of
\* a COPY by some request, as long as no other client delivers copies and no
\* command ran after its session was given up.
ReportedEffectsHappened ==
  (~added /\ ~lateRan) =>
  \A p \in Procs :
    LET mine == {f \in felt : f.by = p /\ f.run = report[p].run}
        did(kinds) == \E f \in (IF FoundThere(p) THEN felt ELSE mine) : f.kind \in kinds
    IN  /\ "copy" \in report[p].effects => did({"copy", "move"})
        /\ "move" \in report[p].effects => did({"move"})
        /\ "source_flag" \in report[p].effects => did({"store"})

\* A transfer is sent only after the destination was searched under the
\* mutation lock: while no command runs after its session was given up, no
\* process adds a second copy, whoever was killed or lost a reply before
\* (imap_copy_move.go dispatchCopy, CopyMessageIfAbsent; moveMessage).  Only a
\* native MOVE of a message without Message-ID goes unguarded.
OneCopyEach ==
  (~added /\ ~lateRan /\ \A f \in felt : f.named) =>
  \A b \in Boxes : Cardinality(Holds(b)) <= 1

\* A process never sends a COPY again whose first reply it did not get, even
\* when the destination shows no copy yet (copyAttempts).
UnresolvedNotResent ==
  \A p \in Procs : pc[p] = "dispatch" /\ Copy(p) => [by |-> p, key |-> Key(p)] \notin sent

\* $Junk and $NotJunk are changed in two STOREs, the removal first: no stop
\* between them leaves a message with both (setFlagsAndVerify).
JunkUnambiguous ==
  ~lateRan => \A b \in Boxes : \A m \in box[b] : ~({"Junk", "NotJunk"} \subseteq m.flags)

\* What a report says of the server is so: a definite error is one, and an
\* effect took place (mutation reports of imapclient/mutations.go, flags.go).
ReportsHonest == RefusedMeansUntouched /\ ReportedEffectsHappened

\* Between any two commands the message is somewhere, unambiguous, and under
\* the lock of the one process that changes it (moveMessage, setFlagsAndVerify,
\* acquireMutation).
MessageKept == MutationInv /\ MessageNeverLost /\ JunkUnambiguous

\* One request makes one copy, over retries, lost replies and two processes
\* (dispatchCopy, copyAttempts, CopyMessageIfAbsent).
TransferredOnce == OneCopyEach /\ UnresolvedNotResent
===============================================================================
