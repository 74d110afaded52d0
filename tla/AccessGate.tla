------------------------------ MODULE AccessGate ------------------------------
(***************************************************************************)
(* Live access to Mail.app: several MailCLI processes take turns behind a  *)
(* locked gate file.  Before a synchronisation, the one operation that may *)
(* go on after its caller gave up, the gate file gets a record with the    *)
(* PID of the Mail process; the record is cleared when the operation is    *)
(* known to have ended, and otherwise keeps every later operation out      *)
(* until that Mail process is gone.  internal/mailapp/access_gate.go,      *)
(* client.go and scripts/bridge.js.                                        *)
(*                                                                         *)
(* A process may be killed anywhere, and its osascript child goes on; Mail *)
(* may quit and start again between any two steps, also between two        *)
(* lookups of its PID.  PIDs are never used twice, and the file behind the *)
(* gate's path is the one every process opened (the code compares the two  *)
(* before and after each use; a mismatch is a Fault here).                 *)
(***************************************************************************)
EXTENDS Integers, FiniteSets

CONSTANTS Procs,      \* MailCLI processes
          MaxRuns,    \* bound on the operations of a process
          MaxPids,    \* bound on the Mail processes
          MaxFaults   \* bound on killed processes, refused file operations,
                      \* failed lookups and given-up scripts, together

ASSUME GateAssumption ==
  /\ MaxRuns \in Nat /\ MaxPids \in Nat \ {0} /\ MaxFaults \in Nat
  /\ "nobody" \notin Procs

VARIABLES
  mail, born,    \* PID of the running Mail process, 0 if none; PIDs used
  record,        \* the gate file: 0 for empty, a PID, or Torn
  lock,          \* holder of the flock
  pc, job,       \* per process: its next step and its request, see NewJob
  runs, report,  \* per process: operations begun; answer of the last one
  scripts,       \* osascript processes
  events,        \* Apple events Mail has received and not answered
  sent, done,    \* history: events that were sent, and those that ran to the end
  abandoned,     \* history: Mail processes left with an operation in doubt
  faults

environment == <<mail, born>>
worker == <<pc, job, runs, report>>
bridge == <<scripts, events, sent, done>>
vars == <<environment, record, lock, worker, bridge, abandoned, faults>>

Nobody == "nobody"
Torn == -1
Pids == 1..MaxPids

Operations == {"sync", "list"}
Refusals == {"unsafe", "busy", "recovery_required", "corrupt", "not_running",
             "gate_failed", "cancelled", "changed", "denied"}
Answers == {"none", "ok", "failed", "unknown"} \cup Refusals

\* op; seen: the PID the validation read; target: the lease's targetPID;
\* touched: stateTouched; cancelled: the request's deadline passed; answer.
NewJob(op) == [op |-> op, seen |-> 0, target |-> 0, touched |-> FALSE,
               cancelled |-> FALSE, answer |-> "none"]

Run(p) == [by |-> p, run |-> runs[p]]
Script(p) == {s \in scripts : s.id = Run(p)}

\* Synchronisations that may still run in the Mail process of now: sent to it,
\* or about to be sent by a script that still lives.
Outstanding ==
  {s.id : s \in {t \in scripts : t.op = "sync" /\ t.phase = "ready" /\ t.pid = mail}}
    \cup {e.id : e \in {x \in events : x.op = "sync"}}

TypeOK ==
  /\ mail \in 0..born /\ born \in 0..MaxPids
  /\ record \in Pids \cup {0, Torn}
  /\ lock \in Procs \cup {Nobody}
  /\ pc \in [Procs -> {"idle", "open", "state", "judge", "target", "arm", "run",
                       "wait", "clear", "unlock"}]
  /\ job \in [Procs -> [op: Operations, seen: 0..MaxPids, target: 0..MaxPids,
                        touched: BOOLEAN, cancelled: BOOLEAN, answer: Answers]]
  /\ runs \in [Procs -> 0..MaxRuns] /\ report \in [Procs -> Answers]
  /\ \A s \in scripts : /\ s.op \in Operations /\ s.pid \in Pids
                        /\ s.phase \in {"ready", "sent", "answered"}
  /\ \A e \in events : e.pid = mail
  /\ abandoned \subseteq Pids
  /\ faults \in 0..MaxFaults

Init ==
  /\ born \in 0..1 /\ mail = born
  /\ record = 0 /\ lock = Nobody
  /\ pc = [p \in Procs |-> "idle"] /\ job = [p \in Procs |-> NewJob("list")]
  /\ runs = [p \in Procs |-> 0] /\ report = [p \in Procs |-> "none"]
  /\ scripts = {} /\ events = {} /\ sent = {} /\ done = {}
  /\ abandoned = {} /\ faults = 0

-------------------------------------------------------------------------------
(* The gate.                                                               *)

Fault == faults < MaxFaults /\ faults' = faults + 1
NoFault == UNCHANGED faults
To(p, step) == pc' = [pc EXCEPT ![p] = step]
Update(p, j) == job' = [job EXCEPT ![p] = j]

\* The request is over: its process tells the answer and is free again.
Finish(p, answer) ==
  /\ To(p, "idle") /\ Update(p, NewJob("list"))
  /\ report' = [report EXCEPT ![p] = answer]
  /\ UNCHANGED runs

\* Acquire failed while it held the lock: files.release, and the error.
Fail(p, answer) == Finish(p, answer) /\ lock' = Nobody

Step(p, step, j) == To(p, step) /\ Update(p, j) /\ UNCHANGED <<runs, report>>

Begin(p, op) ==
  /\ pc[p] = "idle" /\ runs[p] < MaxRuns
  /\ To(p, "open") /\ Update(p, NewJob(op))
  /\ runs' = [runs EXCEPT ![p] = @ + 1]
  /\ report' = [report EXCEPT ![p] = "none"]
  /\ UNCHANGED <<environment, record, lock, bridge, abandoned, faults>>

\* openAccessGateFiles or a later verify finds the path changed or unsafe.
Unsafe(p) ==
  /\ pc[p] \in {"open", "state", "judge", "target"} /\ Fault
  /\ Finish(p, "unsafe")
  /\ lock' = IF lock = p THEN Nobody ELSE lock
  /\ UNCHANGED <<environment, record, bridge, abandoned>>

\* acquireFile: one attempt every 25 ms; the wait ends after two seconds or
\* with the request, and both are told as mail_busy.
TakeLock(p) ==
  /\ pc[p] = "open" /\ lock = Nobody
  /\ lock' = p /\ Step(p, "state", job[p])
  /\ UNCHANGED <<environment, record, bridge, abandoned, faults>>

Busy(p) ==
  /\ pc[p] = "open" /\ Finish(p, "busy")
  /\ UNCHANGED <<environment, record, lock, bridge, abandoned, faults>>

\* validateAccessGateState, the PID it compares with; no record, no lookup.
Look(p) ==
  /\ pc[p] = "state"
  /\ \/ /\ record = 0 /\ Step(p, "target", job[p]) /\ NoFault /\ UNCHANGED lock
     \/ /\ record # 0 /\ Step(p, "judge", [job[p] EXCEPT !.seen = mail])
        /\ NoFault /\ UNCHANGED lock
     \/ /\ record # 0 /\ Fault
        /\ Fail(p, IF record = Torn THEN "corrupt" ELSE "failed")
  /\ UNCHANGED <<environment, record, bridge, abandoned>>

\* clearState: truncate, then synchronise; either may be refused.
Cleared == \/ record' = 0 /\ NoFault
           \/ record' \in {0, record} /\ Fault

\* Deviation: a record of a Mail process that still runs is cleared too.
JudgeLenient(p) ==
  /\ pc[p] = "judge"
  /\ record' = 0 /\ NoFault /\ Step(p, "target", job[p]) /\ UNCHANGED lock
  /\ UNCHANGED <<environment, bridge, abandoned>>

\* The rest of validateAccessGateState and repairCorruptAccessGateState.
Judge(p) ==
  /\ pc[p] = "judge"
  /\ \/ /\ record = job[p].seen /\ Fail(p, "recovery_required")
        /\ UNCHANGED record /\ NoFault
     \/ /\ record = Torn /\ job[p].seen # 0 /\ Fail(p, "corrupt")
        /\ UNCHANGED record /\ NoFault
     \/ /\ record = Torn /\ job[p].seen = 0 /\ Cleared
        /\ Fail(p, IF faults' = faults THEN "not_running" ELSE "failed")
     \/ /\ record \notin {Torn, job[p].seen} /\ Cleared
        /\ IF faults' = faults
           THEN Step(p, "target", job[p]) /\ UNCHANGED lock
           ELSE Fail(p, "failed")
  /\ UNCHANGED <<environment, bridge, abandoned>>

\* The second lookup of Acquire binds the lease to one Mail process.
Target(p) ==
  /\ pc[p] = "target"
  /\ IF mail = 0
     THEN Fail(p, "not_running")
     ELSE /\ Step(p, IF job[p].op = "sync" THEN "arm" ELSE "run",
                  [job[p] EXCEPT !.target = mail])
          /\ UNCHANGED lock
  /\ UNCHANGED <<environment, record, bridge, abandoned, faults>>

\* Deviation: the operation starts although the record could not be written.
ArmOrStart(p) ==
  /\ pc[p] = "arm"
  /\ \/ record' = job[p].target /\ NoFault
     \/ record' \in {0, Torn} /\ Fault
  /\ Step(p, "run", [job[p] EXCEPT !.touched = TRUE])
  /\ UNCHANGED <<environment, lock, bridge, abandoned>>

\* ArmUncertainState: write, truncate, synchronise; after a failure the file
\* is empty, torn or complete, and the operation does not start.
Arm(p) ==
  /\ pc[p] = "arm"
  /\ LET j == [job[p] EXCEPT !.touched = TRUE] IN
     \/ /\ record' = j.target /\ NoFault /\ Step(p, "run", j)
     \/ /\ record' \in {0, Torn, j.target} /\ Fault
        /\ Step(p, "clear", [j EXCEPT !.answer = "gate_failed"])
  /\ UNCHANGED <<environment, lock, bridge, abandoned>>

-------------------------------------------------------------------------------
(* The bridge: osascript runs bridge.js in a process group of its own.     *)

StartScript(p) ==
  /\ pc[p] = "run"
  /\ \/ /\ NoFault
        /\ scripts' = scripts \cup {[id |-> Run(p), op |-> job[p].op,
                                     pid |-> job[p].target, phase |-> "ready",
                                     answer |-> "none"]}
        /\ Step(p, "wait", job[p])
     \/ /\ Fault /\ UNCHANGED scripts
        /\ Step(p, "clear", [job[p] EXCEPT !.answer = "failed"])
  /\ UNCHANGED <<environment, record, lock, events, sent, done, abandoned>>

Replace(s, t) == scripts' = (scripts \ {s}) \cup {t}
Answer(s, answer) == [s EXCEPT !.phase = "answered", !.answer = answer]

\* run: abortIfCancelled, verifyMailProcess, then one Apple event.
Dispatch(s) ==
  /\ s.phase = "ready"
  /\ IF s.pid # mail
     THEN Replace(s, Answer(s, "changed")) /\ UNCHANGED <<events, sent>>
     ELSE /\ Replace(s, [s EXCEPT !.phase = "sent"])
          /\ events' = events \cup {[id |-> s.id, op |-> s.op, pid |-> s.pid]}
          /\ sent' = sent \cup {s.id}
  /\ UNCHANGED <<environment, record, lock, worker, done, abandoned, faults>>

\* The cancellation marker is read once, before anything is sent.
Abort(s) ==
  /\ s.phase = "ready"
  /\ \E p \in Procs : s.id = Run(p) /\ job[p].cancelled
  /\ Replace(s, Answer(s, "cancelled"))
  /\ UNCHANGED <<environment, record, lock, worker, events, sent, done, abandoned,
                 faults>>

\* macOS refuses the script the right to send Apple events to Mail.
Deny(s) ==
  /\ s.phase = "ready" /\ Fault
  /\ Replace(s, Answer(s, "denied"))
  /\ UNCHANGED <<environment, record, lock, worker, events, sent, done, abandoned>>

Answered(ids, answer) ==
  scripts' = {IF s.id \in ids /\ s.phase = "sent" THEN Answer(s, answer) ELSE s :
              s \in scripts}

\* Mail finishes an event, also one whose script is gone.
Execute(e) ==
  /\ events' = events \ {e} /\ done' = done \cup {e.id}
  /\ Answered({e.id}, "ok")
  /\ UNCHANGED <<environment, record, lock, worker, sent, abandoned, faults>>

Quit ==
  /\ mail # 0 /\ mail' = 0 /\ events' = {}
  /\ Answered({e.id : e \in events}, "failed")
  /\ UNCHANGED <<born, record, lock, worker, sent, done, abandoned, faults>>

Launch ==
  /\ mail = 0 /\ born < MaxPids
  /\ born' = born + 1 /\ mail' = born'
  /\ UNCHANGED <<record, lock, worker, bridge, abandoned, faults>>

-------------------------------------------------------------------------------
(* invokeWithState once the script was started.                            *)

\* The request's deadline: the marker file asks the script to stop, and the
\* process waits another 15 seconds for it.
Expire(p) ==
  /\ pc[p] = "wait" /\ ~job[p].cancelled
  /\ Update(p, [job[p] EXCEPT !.cancelled = TRUE])
  /\ UNCHANGED <<environment, record, lock, pc, runs, report, bridge, abandoned,
                 faults>>

Uncertain(p, completed) == ~completed /\ job[p].op = "sync"

\* Release(uncertain): an armed record stays, another one is cleared.
Leave(p, completed, answer) ==
  LET doubt == Uncertain(p, completed) IN
  /\ Step(p, IF job[p].touched /\ ~doubt THEN "clear" ELSE "unlock",
          [job[p] EXCEPT !.answer = answer])
  /\ abandoned' = IF doubt THEN abandoned \cup {job[p].target} ELSE abandoned

\* The script's output; one that cannot be decoded leaves a synchronisation
\* in doubt.
Collect(p) ==
  /\ pc[p] = "wait"
  /\ \E s \in Script(p) :
       /\ s.phase = "answered"
       /\ scripts' = scripts \ {s}
       /\ \/ NoFault /\ Leave(p, TRUE, s.answer)
          \/ Fault /\ Leave(p, FALSE, "unknown")
  /\ UNCHANGED <<environment, record, lock, events, sent, done>>

\* WaitDelay is over: the script's process group is killed, its event is not.
GiveUp(p) ==
  /\ pc[p] = "wait" /\ job[p].cancelled /\ Fault
  /\ \E s \in Script(p) : s.phase # "answered"
  /\ scripts' = scripts \ Script(p)
  /\ Leave(p, FALSE, "unknown")
  /\ UNCHANGED <<environment, record, lock, events, sent, done>>

\* Deviation: the lock is given up before the record was cleared.
ClearForgotten(p) ==
  /\ pc[p] = "clear" /\ NoFault /\ UNCHANGED record
  /\ Step(p, "unlock", job[p])
  /\ UNCHANGED <<environment, lock, bridge, abandoned>>

Clear(p) ==
  /\ pc[p] = "clear"
  /\ \/ ~job[p].touched /\ UNCHANGED record /\ NoFault
     \/ job[p].touched /\ Cleared
  /\ abandoned' = IF record' # 0 THEN abandoned \cup {job[p].target} ELSE abandoned
  /\ Step(p, "unlock", job[p])
  /\ UNCHANGED <<environment, lock, bridge>>

Unlock(p) ==
  /\ pc[p] = "unlock"
  /\ Fail(p, job[p].answer)
  /\ UNCHANGED <<environment, record, bridge, abandoned, faults>>

\* SIGKILL: the flock goes with the process, the record and the script stay.
Kill(p) ==
  /\ pc[p] # "idle" /\ Fault
  /\ Finish(p, "none")
  /\ lock' = IF lock = p THEN Nobody ELSE lock
  /\ abandoned' = IF job[p].touched THEN abandoned \cup {job[p].target} ELSE abandoned
  /\ UNCHANGED <<environment, record, bridge>>

Next ==
  \/ \E p \in Procs :
       \/ \E op \in Operations : Begin(p, op)
       \/ Unsafe(p) \/ TakeLock(p) \/ Busy(p) \/ Look(p) \/ Judge(p) \/ Target(p)
       \/ Arm(p) \/ StartScript(p) \/ Expire(p) \/ Collect(p) \/ GiveUp(p)
       \/ Clear(p) \/ Unlock(p) \/ Kill(p)
  \/ \E s \in scripts : Dispatch(s) \/ Abort(s) \/ Deny(s)
  \/ \E e \in events : Execute(e)
  \/ Quit \/ Launch

Spec == Init /\ [][Next]_vars

-------------------------------------------------------------------------------
(* What the gate promises.                                                  *)

\* The lock has one holder, and only a holder is past "open".
Held == \A p \in Procs : (lock = p) <=> (pc[p] \notin {"idle", "open"})

AccessGateInv == TypeOK /\ Held

\* As long as a synchronisation may still run in the current Mail process, the
\* gate file names that process, whoever was killed in the meantime: arming
\* before the start, clearing only after a known end (client.go:372-391).
Guarded == \A o \in Outstanding : record = mail

\* No operation starts while a synchronisation may still run in the same Mail
\* process, also one whose process is gone (documentation.md:1115).
StartsAlone == [][(\E s \in scripts' : s.id \notin {t.id : t \in scripts})
                    => Outstanding = {}]_vars

\* An operation that was refused, by the gate or by the script, sent nothing to
\* Mail; one reported as done ran to its end (mapAccessGateError's "did not
\* start", client.go:427).
ReportTruthful ==
  \A p \in Procs : /\ report[p] \in Refusals => Run(p) \notin sent
                   /\ report[p] = "ok" => Run(p) \in done

\* The gate stays shut for a Mail process only when an operation on it was left
\* in doubt, killed, or could not clear its record (access_gate.go:413-421).
ShutForCause ==
  lock = Nobody /\ record # 0 => /\ record = Torn => abandoned # {}
                                 /\ record # Torn => record \in abandoned

\* One holder of the lock at a time, and a gate file that outlives it
\* (fileAccessGate.Acquire, ArmUncertainState).
GateSound == AccessGateInv /\ Guarded

\* What a command is told is so: "complete" and "failed" of its own operation,
\* and a refusal of an operation that may still run (Client.invokeWithState, mapAccessGateError).
AnswersTrue == ReportTruthful /\ ShutForCause
=============================================================================
