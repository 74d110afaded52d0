--------------------------- MODULE MailAccessProofs ---------------------------
(***************************************************************************)
(* Proofs for the two ways to Mail's data: the Mail.app access gate, and   *)
(* the comparison of Mail's store with the server.                         *)
(*                                                                         *)
(* The gate (AccessGate): for any number of processes, runs, Mail          *)
(* processes and faults, the gate file names the Mail process in which a   *)
(* synchronisation may still run, and no operation starts beside one.      *)
(*                                                                         *)
(* The holder of the lock is the only one that starts scripts or writes    *)
(* the record.  It passes the judgement only with an empty record, so that *)
(* nothing is outstanding; what it then starts is the only thing           *)
(* outstanding until it lets go; and it clears the record only after its   *)
(* script answered, or before it started one.  A Mail process that ends    *)
(* takes its events along, and one that starts has none.                   *)
(*                                                                         *)
(* messages new (ServerCheck): for any mailbox, window and number of       *)
(* changes, what it reports as new was not held by Mail all the time.      *)
(* Within a generation a UID names one message, and a message Mail held    *)
(* all the time one UID: so say the server's mailbox, the window taken     *)
(* from it and Mail's rows, in pairs, whenever they are of one generation. *)
(***************************************************************************)
EXTENDS AccessGate, ServerCheck, FiniteSetTheorems, TLAPS

Ids == [by: Procs, run: Nat]
Scripts == [id: Ids, op: Operations, pid: Pids,
            phase: {"ready", "sent", "answered"}, answer: Answers]
Events == [id: Ids, op: Operations, pid: Pids]

\* What is outstanding, as two predicates.
Pending(s) == s.op = "sync" /\ s.phase = "ready" /\ s.pid = mail
Running(e) == e.op = "sync"
Quiet == /\ \A s \in scripts : ~Pending(s)
         /\ \A e \in events : ~Running(e)

\* The types, tighter than TypeOK.
Shape ==
  /\ born \in Nat /\ mail \in 0..born /\ born <= MaxPids
  /\ record \in Pids \cup {0, Torn}
  /\ scripts \subseteq Scripts /\ events \subseteq Events
  /\ \A s \in scripts : s.pid <= born
  /\ \A e \in events : e.pid = mail

\* Every operation has its own number; an operation has one script, and an
\* event only as long as its script, if it still lives, waits for the answer.
Numbered ==
  /\ \A s \in scripts : s.id.run <= runs[s.id.by]
  /\ \A e \in events : e.id.run <= runs[e.id.by]
  /\ \A s, t \in scripts : s.id = t.id => s = t
  /\ \A d, e \in events : d.id = e.id => d = e
  /\ \A e \in events, s \in scripts : e.id = s.id => s.phase = "sent"

Early == {"open", "state", "judge", "target", "arm", "run"}

\* An operation that has not started a script has none, and no event.
Fresh ==
  \A p \in Procs : pc[p] \in Early =>
    /\ \A s \in scripts : s.id # Run(p)
    /\ \A e \in events : e.id # Run(p)

\* What the holder of the lock knows at each of its steps.
Judged(p) == pc[p] = "judge" => Quiet \/ job[p].seen = mail
Cleaned(p) == pc[p] \in {"target", "arm"} => record = 0
Armed(p) ==
  /\ pc[p] = "arm" => job[p].op = "sync"
  /\ pc[p] \in {"run", "wait"} /\ job[p].op = "sync" => record = job[p].target
  /\ pc[p] \in {"arm", "run", "wait", "clear"} \/ job[p].touched => job[p].target \in 1..born
Unarmed(p) == pc[p] # "idle" /\ job[p].op = "list" => ~job[p].touched
Alone(p) ==
  /\ pc[p] \in {"run", "clear"} => Quiet
  /\ pc[p] = "wait" =>
       /\ \A s \in scripts : Pending(s) => s.id = Run(p)
       /\ \A e \in events : Running(e) => e.id = Run(p)

Known == \A p \in Procs :
  Judged(p) /\ Cleaned(p) /\ Armed(p) /\ Unarmed(p) /\ Alone(p)

GateKept == ~Quiet => record = mail

IInv == TypeOK /\ Held /\ Shape /\ Numbered /\ Fresh /\ Known /\ GateKept

-------------------------------------------------------------------------------
(* The start, and what the actions share.                                   *)

\* The invariant holds initially.
LEMMA GateStarts == Init => IInv
<1> SUFFICES ASSUME Init PROVE IInv OBVIOUS
<1> USE GateAssumption DEF Init, Nobody, Torn, Pids
<1>1. NewJob("list") \in [op: Operations, seen: 0..MaxPids, target: 0..MaxPids,
                         touched: BOOLEAN, cancelled: BOOLEAN, answer: Answers]
  BY DEF NewJob, Operations, Answers
<1>2. TypeOK
 <2>1. born \in 0..MaxPids /\ mail \in 0..born OBVIOUS
 <2>2. pc \in [Procs -> {"idle", "open", "state", "judge", "target", "arm", "run",
                         "wait", "clear", "unlock"}] OBVIOUS
 <2>3. job \in [Procs -> [op: Operations, seen: 0..MaxPids, target: 0..MaxPids,
                       touched: BOOLEAN, cancelled: BOOLEAN, answer: Answers]] BY <1>1
 <2>4. runs \in [Procs -> 0..MaxRuns] /\ report \in [Procs -> Answers] BY DEF Answers
 <2> QED BY <2>1, <2>2, <2>3, <2>4 DEF TypeOK
<1>3. Held BY DEF Held
<1>4. Shape /\ Numbered /\ Fresh BY DEF Shape, Numbered, Fresh, Early
<1>5. Quiet BY DEF Quiet
<1>6. Known BY DEF Known, Judged, Cleaned, Armed, Unarmed, Alone, NewJob
<1> QED BY <1>2, <1>3, <1>4, <1>5, <1>6 DEF IInv, GateKept

\* A step of a process that leaves Mail and the scripts alone.
LEMMA GateShape ==
  ASSUME IInv, UNCHANGED <<environment, bridge>>, record' \in Pids \cup {0, Torn},
         runs' \in [Procs -> Nat], \A w \in Procs : runs[w] <= runs'[w]
  PROVE  Shape' /\ Numbered' /\ (Quiet' <=> Quiet)
<1> USE DEF IInv, environment, bridge, TypeOK
<1>1. Shape' BY DEF Shape
<1>2. Numbered'
 <2>1. \A s \in scripts : s.id.by \in Procs /\ s.id.run \in Nat BY DEF Shape, Scripts, Ids
 <2>2. \A e \in events : e.id.by \in Procs /\ e.id.run \in Nat BY DEF Shape, Events, Ids
 <2>3. runs \in [Procs -> Nat] BY GateAssumption
 <2> QED BY <2>1, <2>2, <2>3 DEF Numbered
<1>3. Quiet' <=> Quiet BY DEF Quiet, Pending, Running
<1> QED BY <1>1, <1>2, <1>3

\* A process that ends its request, or has not got the lock yet, knows
\* nothing; the others know what they knew.
LEMMA OthersKnow ==
  ASSUME IInv, NEW p \in Procs, UNCHANGED <<environment, bridge>>, Quiet' <=> Quiet,
         \A w \in Procs \ {p} : pc'[w] = pc[w] /\ job'[w] = job[w] /\ runs'[w] = runs[w],
         record' = record \/ \A w \in Procs \ {p} : pc[w] \in {"idle", "open"},
         Judged(p)' /\ Cleaned(p)' /\ Armed(p)' /\ Unarmed(p)' /\ Alone(p)'
  PROVE  Known'
<1> SUFFICES ASSUME NEW w \in Procs, w # p
             PROVE  Judged(w)' /\ Cleaned(w)' /\ Armed(w)' /\ Unarmed(w)' /\ Alone(w)'
  BY DEF Known
<1>1. Judged(w) /\ Cleaned(w) /\ Armed(w) /\ Unarmed(w) /\ Alone(w) BY DEF IInv, Known
<1>2. pc'[w] = pc[w] /\ job'[w] = job[w] /\ Run(w)' = Run(w) BY DEF Run
<1>3. record' = record \/ pc[w] \in {"idle", "open"} OBVIOUS
<1>4. Alone(w)' BY <1>1, <1>2 DEF Alone, environment, bridge, Pending, Running
<1> QED BY <1>1, <1>2, <1>3, <1>4
        DEF Judged, Cleaned, Armed, Unarmed, environment, bridge

\* A request begins (Client.invoke).
LEMMA BeginStep == ASSUME IInv, NEW p \in Procs, NEW op \in Operations, Begin(p, op) PROVE IInv'
<1> USE DEF Begin, To, Update
<1>1. /\ TypeOK /\ Held /\ Fresh /\ GateKept /\ Shape /\ Numbered
      /\ runs \in [Procs -> Nat] /\ runs[p] \in Nat BY GateAssumption DEF IInv, TypeOK
<1>2. NewJob(op) \in [op: Operations, seen: 0..MaxPids, target: 0..MaxPids,
                      touched: BOOLEAN, cancelled: BOOLEAN, answer: Answers]
      /\ ~NewJob(op).touched BY GateAssumption DEF NewJob, Answers
<1>3. TypeOK'
 <2>1. job' \in [Procs -> [op: Operations, seen: 0..MaxPids, target: 0..MaxPids,
                     touched: BOOLEAN, cancelled: BOOLEAN, answer: Answers]]
   BY <1>1, <1>2 DEF TypeOK
 <2>2. runs' \in [Procs -> 0..MaxRuns] BY <1>1, GateAssumption DEF TypeOK
 <2>3. pc' \in [Procs -> {"idle", "open", "state", "judge", "target", "arm", "run",
                         "wait", "clear", "unlock"}] BY <1>1 DEF TypeOK
 <2>4. report' \in [Procs -> Answers] BY <1>1 DEF TypeOK, Answers
 <2> QED BY <1>1, <2>1, <2>2, <2>3, <2>4 DEF TypeOK, environment, bridge
<1>4. Held' BY <1>1 DEF Held, TypeOK
<1>5. Shape' /\ Numbered' /\ (Quiet' <=> Quiet) BY <1>1, GateShape DEF Shape
<1>6. Fresh'
 <2>1. Run(p)'.run = runs[p] + 1 /\ Run(p)'.by = p BY <1>1 DEF Run
 <2>2. \A s \in scripts : s.id # Run(p)' BY <1>1, <2>1 DEF Numbered, Shape, Scripts, Ids
 <2>3. \A e \in events : e.id # Run(p)' BY <1>1, <2>1 DEF Numbered, Shape, Events, Ids
 <2>4. \A w \in Procs \ {p} : Run(w)' = Run(w) /\ pc'[w] = pc[w] BY <1>1 DEF Run, TypeOK
 <2> QED BY <1>1, <2>2, <2>3, <2>4 DEF Fresh, bridge
<1>7. Known'
 <2>1. pc'[p] = "open" /\ job'[p] = NewJob(op) BY <1>1 DEF TypeOK
 <2>2. Judged(p)' /\ Cleaned(p)' /\ Armed(p)' /\ Unarmed(p)' /\ Alone(p)'
   BY <1>2, <2>1 DEF Judged, Cleaned, Armed, Unarmed, Alone
 <2>3. \A w \in Procs \ {p} : pc'[w] = pc[w] /\ job'[w] = job[w] /\ runs'[w] = runs[w]
   BY <1>1 DEF TypeOK
 <2> QED BY <1>5, <2>2, <2>3, OthersKnow
<1>8. GateKept' BY <1>1, <1>5 DEF GateKept, environment
<1> QED BY <1>3, <1>4, <1>5, <1>6, <1>7, <1>8 DEF IInv

Jobs == [op: Operations, seen: 0..MaxPids, target: 0..MaxPids,
         touched: BOOLEAN, cancelled: BOOLEAN, answer: Answers]
Stages == {"idle", "open", "state", "judge", "target", "arm", "run", "wait", "clear", "unlock"}

\* A request ends, and its process lets go of the lock (Finish, Fail).  Only
\* the holder of the lock may have changed the record.
LEMMA EndStep ==
  ASSUME IInv, NEW p \in Procs, NEW answer \in Answers, pc[p] # "idle", Finish(p, answer),
         lock' = IF lock = p THEN Nobody ELSE lock,
         UNCHANGED <<environment, bridge>>,
         record' \in Pids \cup {0, Torn},
         record' = record \/ (lock = p /\ Quiet),
         abandoned' \subseteq Pids, faults' \in 0..MaxFaults
  PROVE  IInv'
<1> USE DEF Finish, To, Update
<1>1. /\ TypeOK /\ Held /\ Fresh /\ GateKept /\ Shape /\ Numbered
      /\ runs \in [Procs -> Nat] /\ runs' = runs BY GateAssumption DEF IInv, TypeOK
<1>2. NewJob("list") \in Jobs /\ ~NewJob("list").touched
  BY GateAssumption DEF NewJob, Answers, Jobs, Operations
<1>3. pc' = [pc EXCEPT ![p] = "idle"] /\ job' = [job EXCEPT ![p] = NewJob("list")] OBVIOUS
<1>4. TypeOK'
 <2>1. job' \in [Procs -> Jobs] BY <1>1, <1>2 DEF TypeOK, Jobs
 <2>2. pc' \in [Procs -> Stages] BY <1>1 DEF TypeOK, Stages
 <2>3. report' \in [Procs -> Answers] BY <1>1 DEF TypeOK
 <2> QED BY <1>1, <2>1, <2>2, <2>3 DEF TypeOK, Jobs, Stages, environment, bridge, Nobody
<1>5. Held' BY <1>1, GateAssumption DEF Held, TypeOK, Nobody
<1>6. Shape' /\ Numbered' /\ (Quiet' <=> Quiet) BY <1>1, GateShape DEF Shape
<1>7. Fresh' BY <1>1 DEF Fresh, Early, Run, TypeOK, bridge
<1>8. Known'
 <2>1. pc'[p] = "idle" /\ job'[p] = NewJob("list") BY <1>1, <1>3 DEF TypeOK
 <2>2. Judged(p)' /\ Cleaned(p)' /\ Armed(p)' /\ Unarmed(p)' /\ Alone(p)'
   BY <1>2, <2>1 DEF Judged, Cleaned, Armed, Unarmed, Alone
 <2>3. \A w \in Procs \ {p} : pc'[w] = pc[w] /\ job'[w] = job[w] /\ runs'[w] = runs[w]
   BY <1>1, <1>3 DEF TypeOK
 <2>4. record' = record \/ \A w \in Procs \ {p} : pc[w] \in {"idle", "open"} BY <1>1 DEF Held
 <2> QED BY <1>6, <2>2, <2>3, <2>4, OthersKnow
<1>9. GateKept' BY <1>1, <1>6 DEF GateKept, environment
<1> QED BY <1>4, <1>5, <1>6, <1>7, <1>8, <1>9 DEF IInv

\* The holder of the lock goes on to its next step, and knows what it has to
\* know there.  It changes the record only while nothing is outstanding.
LEMMA HolderStep ==
  ASSUME IInv, NEW p \in Procs, NEW step \in Stages \ {"idle", "open"}, NEW j \in Jobs,
         Step(p, step, j), lock' = p, lock = p \/ (lock = Nobody /\ pc[p] = "open"),
         UNCHANGED <<environment, bridge>>,
         record' \in Pids \cup {0, Torn}, record' = record \/ (lock = p /\ Quiet),
         abandoned' \subseteq Pids, faults' \in 0..MaxFaults,
         step \in Early => pc[p] \in Early,
         Judged(p)' /\ Cleaned(p)' /\ Armed(p)' /\ Unarmed(p)' /\ Alone(p)'
  PROVE  IInv'
<1> USE DEF Step, To, Update
<1>1. /\ TypeOK /\ Held /\ Fresh /\ GateKept /\ Shape /\ Numbered
      /\ runs \in [Procs -> Nat] /\ runs' = runs BY GateAssumption DEF IInv, TypeOK
<1>2. pc' = [pc EXCEPT ![p] = step] /\ job' = [job EXCEPT ![p] = j] OBVIOUS
<1>3. TypeOK'
 <2>1. job' \in [Procs -> Jobs] BY <1>1 DEF TypeOK, Jobs
 <2>2. pc' \in [Procs -> Stages] BY <1>1 DEF TypeOK, Stages
 <2> QED BY <1>1, <2>1, <2>2 DEF TypeOK, Jobs, Stages, environment, bridge
<1>4. Held' BY <1>1, GateAssumption DEF Held, TypeOK, Nobody
<1>5. Shape' /\ Numbered' /\ (Quiet' <=> Quiet) BY <1>1, GateShape DEF Shape
<1>6. Fresh'
 <2>1. \A w \in Procs : Run(w)' = Run(w) BY <1>1 DEF Run
 <2>2. \A w \in Procs : pc'[w] \in Early => pc[w] \in Early BY <1>1, <1>2 DEF TypeOK
 <2> QED BY <1>1, <2>1, <2>2 DEF Fresh, bridge
<1>7. Known'
 <2>1. \A w \in Procs \ {p} : pc'[w] = pc[w] /\ job'[w] = job[w] /\ runs'[w] = runs[w]
   BY <1>1, <1>2 DEF TypeOK
 <2>2. record' = record \/ \A w \in Procs \ {p} : pc[w] \in {"idle", "open"} BY <1>1 DEF Held
 <2> QED BY <1>5, <2>1, <2>2, OthersKnow
<1>8. GateKept' BY <1>1, <1>5 DEF GateKept, environment
<1> QED BY <1>3, <1>4, <1>5, <1>6, <1>7, <1>8 DEF IInv

-------------------------------------------------------------------------------
(* The steps of a process.                                                  *)

\* What every action of a process may use of the invariant.
LEMMA Facts ==
  ASSUME IInv, NEW p \in Procs
  PROVE  /\ job[p] \in Jobs /\ pc[p] \in Stages /\ mail \in 0..MaxPids
         /\ record \in Pids \cup {0, Torn} /\ abandoned \subseteq Pids
         /\ faults \in 0..MaxFaults /\ born \in 0..MaxPids /\ mail \in 0..born
         /\ pc[p] \notin {"idle", "open"} => lock = p
         /\ lock = p => pc[p] \notin {"idle", "open"}
         /\ Judged(p) /\ Cleaned(p) /\ Armed(p) /\ Unarmed(p) /\ Alone(p)
         /\ (~Quiet => record = mail) /\ (~Quiet => mail # 0)
<1>1. ~Quiet => mail # 0 BY DEF IInv, Quiet, Shape, Pending, Running, Scripts, Events, Pids
<1> QED BY <1>1, GateAssumption DEF IInv, TypeOK, Held, Jobs, Stages, Known, GateKept

\* The gate's path is unsafe, or the wait for the lock ends.
LEMMA UnsafeStep == ASSUME IInv, NEW p \in Procs, Unsafe(p) PROVE IInv'
<1>1. "unsafe" \in Answers BY DEF Answers, Refusals
<1>2. faults' \in 0..MaxFaults BY Facts, GateAssumption DEF Unsafe, Fault
<1> QED BY <1>1, <1>2, EndStep, Facts DEF Unsafe

LEMMA BusyStep == ASSUME IInv, NEW p \in Procs, Busy(p) PROVE IInv'
<1>1. "busy" \in Answers BY DEF Answers, Refusals
<1>2. lock # p BY Facts DEF Busy
<1> QED BY <1>1, <1>2, EndStep, Facts DEF Busy

\* The lock is taken (fileAccessGate.acquireFile).
LEMMA TakeLockStep == ASSUME IInv, NEW p \in Procs, TakeLock(p) PROVE IInv'
<1>1. pc'[p] = "state" /\ job'[p] = job[p] BY DEF TakeLock, Step, To, Update, IInv, TypeOK
<1>2. Judged(p)' /\ Cleaned(p)' /\ Armed(p)' /\ Unarmed(p)' /\ Alone(p)'
  BY <1>1, Facts DEF Judged, Cleaned, Armed, Unarmed, Alone, TakeLock, environment
<1> QED BY <1>2, HolderStep, Facts DEF TakeLock, Early, Stages

\* The record is looked at (validateAccessGateState).
LEMMA LookStep == ASSUME IInv, NEW p \in Procs, Look(p) PROVE IInv'
<1> USE DEF Look
<1>1. /\ lock = p /\ pc[p] = "state" /\ job[p] \in Jobs
      /\ UNCHANGED <<environment, bridge>> /\ record' = record /\ abandoned' = abandoned
      /\ pc \in [Procs -> Stages] /\ job \in [Procs -> Jobs]
  BY Facts DEF IInv, TypeOK, Stages, Jobs
<1>2. CASE record = 0 /\ Step(p, "target", job[p]) /\ NoFault /\ UNCHANGED lock
 <2>1. pc'[p] = "target" /\ job'[p] = job[p] BY <1>1, <1>2 DEF Step, To, Update
 <2>2. Judged(p)' /\ Cleaned(p)' /\ Armed(p)' /\ Unarmed(p)' /\ Alone(p)'
   BY <1>1, <1>2, <2>1, Facts
      DEF Judged, Cleaned, Armed, Unarmed, Alone, environment
 <2> QED BY <1>1, <1>2, <2>2, HolderStep, Facts DEF NoFault, Early, Stages
<1>3. CASE record # 0 /\ Step(p, "judge", [job[p] EXCEPT !.seen = mail]) /\ NoFault
           /\ UNCHANGED lock
 <2> DEFINE j == [job[p] EXCEPT !.seen = mail]
 <2>1. /\ j \in Jobs /\ j.seen = mail
       /\ j.op = job[p].op /\ j.touched = job[p].touched /\ j.target = job[p].target
   BY <1>1, Facts DEF Jobs
 <2> HIDE DEF j
 <2>2. pc'[p] = "judge" /\ job'[p] = j BY <1>1, <1>3 DEF Step, To, Update, j
 <2>3. Judged(p)' /\ Cleaned(p)' /\ Armed(p)' /\ Unarmed(p)' /\ Alone(p)'
   BY <1>1, <2>1, <2>2, Facts DEF Judged, Cleaned, Armed, Unarmed, Alone, environment
 <2>4. Step(p, "judge", j) BY <1>3 DEF j
 <2> QED BY <1>1, <1>3, <2>1, <2>3, <2>4, HolderStep, Facts DEF NoFault, Early, Stages
<1>4. CASE record # 0 /\ Fault /\ Fail(p, IF record = Torn THEN "corrupt" ELSE "failed")
 <2>1. (IF record = Torn THEN "corrupt" ELSE "failed") \in Answers BY DEF Answers, Refusals
 <2>2. faults' \in 0..MaxFaults BY <1>4, Facts, GateAssumption DEF Fault
 <2> QED BY <1>1, <1>4, <2>1, <2>2, EndStep, Facts DEF Fail
<1> QED BY <1>2, <1>3, <1>4

\* The record is judged (validateAccessGateState, repairCorruptAccessGateState).
LEMMA JudgeStep == ASSUME IInv, NEW p \in Procs, Judge(p) PROVE IInv'
<1> USE DEF Judge
<1>1. /\ lock = p /\ pc[p] = "judge" /\ job[p] \in Jobs
      /\ UNCHANGED <<environment, bridge>> /\ abandoned' = abandoned
      /\ pc \in [Procs -> Stages] /\ job \in [Procs -> Jobs]
      /\ record \in Pids \cup {0, Torn} /\ faults \in 0..MaxFaults /\ abandoned \subseteq Pids
  BY Facts DEF IInv, TypeOK, Stages, Jobs
<1>2. record # job[p].seen => Quiet BY <1>1, Facts DEF Judged
<1>3. record = Torn => Quiet BY <1>1, Facts DEF Torn
<1>4. ASSUME NEW answer \in Answers, Fail(p, answer), record' = record \/ Quiet,
             record' \in {0, record}, NoFault \/ Fault
      PROVE  IInv'
 <2>1. faults' \in 0..MaxFaults BY <1>1, <1>4, GateAssumption DEF Fault, NoFault
 <2> QED BY <1>1, <1>4, <2>1, EndStep DEF Fail
<1>5. CASE record = job[p].seen /\ Fail(p, "recovery_required")
           /\ UNCHANGED record /\ NoFault BY <1>4, <1>5 DEF Answers, Refusals
<1>6. CASE record = Torn /\ job[p].seen # 0 /\ Fail(p, "corrupt")
           /\ UNCHANGED record /\ NoFault BY <1>4, <1>6 DEF Answers, Refusals
<1>7. CASE record = Torn /\ job[p].seen = 0 /\ Cleared
           /\ Fail(p, IF faults' = faults THEN "not_running" ELSE "failed")
 <2>1. (IF faults' = faults THEN "not_running" ELSE "failed") \in Answers
   BY DEF Answers, Refusals
 <2> QED BY <1>3, <1>4, <1>7, <2>1 DEF Cleared
<1>8. CASE /\ record \notin {Torn, job[p].seen} /\ Cleared
           /\ IF faults' = faults
              THEN Step(p, "target", job[p]) /\ UNCHANGED lock
              ELSE Fail(p, "failed")
 <2>1. CASE faults' # faults
  <3>1. "failed" \in Answers BY DEF Answers
  <3> QED BY <1>2, <1>4, <1>8, <2>1, <3>1 DEF Cleared
 <2>2. CASE faults' = faults
  <3>1. record' = 0 /\ Step(p, "target", job[p]) /\ lock' = lock
    BY <1>1, <1>8, <2>2 DEF Cleared, Fault
  <3>2. pc'[p] = "target" /\ job'[p] = job[p] BY <1>1, <3>1 DEF Step, To, Update
  <3>3. Judged(p)' /\ Cleaned(p)' /\ Armed(p)' /\ Unarmed(p)' /\ Alone(p)'
    BY <1>1, <3>1, <3>2, Facts DEF Judged, Cleaned, Armed, Unarmed, Alone, environment
  <3> QED BY <1>1, <1>2, <1>8, <2>2, <3>1, <3>3, HolderStep DEF Early, Stages
 <2> QED BY <2>1, <2>2
<1> QED BY <1>5, <1>6, <1>7, <1>8

\* The lease is bound to a Mail process (fileAccessGate.Acquire).
LEMMA TargetStep == ASSUME IInv, NEW p \in Procs, Target(p) PROVE IInv'
<1> USE DEF Target
<1>1. /\ lock = p /\ pc[p] = "target" /\ job[p] \in Jobs
      /\ UNCHANGED <<environment, bridge>> /\ abandoned' = abandoned
      /\ pc \in [Procs -> Stages] /\ job \in [Procs -> Jobs]
      /\ record = 0 /\ record' = record /\ faults \in 0..MaxFaults /\ faults' = faults
      /\ Quiet BY Facts DEF IInv, TypeOK, Stages, Jobs, Cleaned
<1>2. CASE mail = 0
 <2>1. "not_running" \in Answers BY DEF Answers, Refusals
 <2> QED BY <1>1, <1>2, <2>1, EndStep, Facts DEF Fail
<1>3. CASE mail # 0
 <2> DEFINE j == [job[p] EXCEPT !.target = mail]
            step == IF job[p].op = "sync" THEN "arm" ELSE "run"
 <2>1. /\ j \in Jobs /\ j.target = mail /\ j.op = job[p].op /\ j.touched = job[p].touched
       /\ Step(p, step, j) BY <1>1, <1>3, Facts DEF Jobs
 <2>2. step \in {"arm", "run"} /\ (step = "arm" <=> j.op = "sync") BY <2>1
 <2> HIDE DEF j, step
 <2>3. pc'[p] = step /\ job'[p] = j BY <1>1, <2>1 DEF Step, To, Update
 <2>4. mail' = mail /\ born' = born /\ mail \in 1..born
   BY <1>1, <1>3, Facts DEF environment, IInv, Shape
 <2>5. Quiet' BY <1>1 DEF Quiet, Pending, Running, environment, bridge
 <2>6. Judged(p)' /\ Cleaned(p)' /\ Armed(p)' /\ Unarmed(p)' /\ Alone(p)'
   BY <1>1, <2>1, <2>2, <2>3, <2>4, <2>5, Facts DEF Judged, Cleaned, Armed, Unarmed, Alone
 <2> QED BY <1>1, <1>3, <2>1, <2>2, <2>6, HolderStep, Facts DEF Early, Stages
<1> QED BY <1>2, <1>3

\* The record is written, or the operation does not start (ArmUncertainState).
LEMMA ArmStep == ASSUME IInv, NEW p \in Procs, Arm(p) PROVE IInv'
<1> DEFINE j == [job[p] EXCEPT !.touched = TRUE]
           k == [j EXCEPT !.answer = "gate_failed"]
<1>1. /\ lock = p /\ pc[p] = "arm" /\ job[p] \in Jobs /\ lock' = lock
      /\ UNCHANGED <<environment, bridge>> /\ abandoned' = abandoned
      /\ pc \in [Procs -> Stages] /\ job \in [Procs -> Jobs]
      /\ record = 0 /\ faults \in 0..MaxFaults /\ Quiet /\ abandoned \subseteq Pids
      /\ job[p].op = "sync" /\ job[p].target \in 1..born /\ born \in 0..MaxPids
  BY Facts DEF Arm, IInv, TypeOK, Stages, Jobs, Cleaned, Armed
<1>2. j \in Jobs /\ j.op = "sync" /\ j.target = job[p].target BY <1>1 DEF Jobs
<1>3. k \in Jobs /\ k.op = "sync" /\ k.target = job[p].target
  BY <1>1 DEF Jobs, Answers, Refusals
<1>4. Quiet' BY <1>1 DEF Quiet, Pending, Running, environment, bridge
<1>5. job[p].target \in Pids /\ born' = born BY <1>1, GateAssumption DEF Pids, environment
<1>6. \/ record' = j.target /\ NoFault /\ Step(p, "run", j)
      \/ record' \in {0, Torn, j.target} /\ Fault /\ Step(p, "clear", k) BY DEF Arm
<1> HIDE DEF j, k
<1>7. CASE record' = j.target /\ NoFault /\ Step(p, "run", j)
 <2>1. pc'[p] = "run" /\ job'[p] = j BY <1>1, <1>7 DEF Step, To, Update
 <2>2. Judged(p)' /\ Cleaned(p)' /\ Armed(p)' /\ Unarmed(p)' /\ Alone(p)'
   BY <1>1, <1>2, <1>4, <1>5, <1>7, <2>1 DEF Judged, Cleaned, Armed, Unarmed, Alone
 <2> QED BY <1>1, <1>2, <1>5, <1>7, <2>2, HolderStep DEF NoFault, Early, Stages
<1>8. CASE record' \in {0, Torn, j.target} /\ Fault /\ Step(p, "clear", k)
 <2>1. pc'[p] = "clear" /\ job'[p] = k BY <1>1, <1>8 DEF Step, To, Update
 <2>2. Judged(p)' /\ Cleaned(p)' /\ Armed(p)' /\ Unarmed(p)' /\ Alone(p)'
   BY <1>1, <1>3, <1>4, <1>5, <2>1 DEF Judged, Cleaned, Armed, Unarmed, Alone
 <2>3. faults' \in 0..MaxFaults BY <1>1, <1>8, GateAssumption DEF Fault
 <2> QED BY <1>1, <1>2, <1>3, <1>5, <1>8, <2>2, <2>3, HolderStep DEF Early, Stages
<1> QED BY <1>6, <1>7, <1>8

\* The request's deadline passes (Client.invokeWithState).
LEMMA ExpireStep == ASSUME IInv, NEW p \in Procs, Expire(p) PROVE IInv'
<1> DEFINE j == [job[p] EXCEPT !.cancelled = TRUE]
<1>1. /\ lock = p /\ pc[p] = "wait" /\ job[p] \in Jobs /\ lock' = lock
      /\ UNCHANGED <<environment, bridge, runs>> /\ abandoned' = abandoned
      /\ pc \in [Procs -> Stages] /\ job \in [Procs -> Jobs]
      /\ record' = record /\ faults' = faults BY Facts DEF Expire, IInv, TypeOK, Stages, Jobs
<1>2. /\ j \in Jobs /\ j.op = job[p].op /\ j.target = job[p].target
      /\ j.touched = job[p].touched BY <1>1 DEF Jobs
<1>3. Step(p, "wait", j) BY <1>1 DEF Expire, Step, To, Update
<1> HIDE DEF j
<1>4. pc'[p] = "wait" /\ job'[p] = j BY <1>1, <1>3 DEF Step, To, Update
<1>5. Run(p)' = Run(p) BY <1>1 DEF Run
<1>6. Alone(p)'
  BY <1>1, <1>4, <1>5, Facts DEF Alone, Quiet, Pending, Running, environment, bridge
<1>7. Judged(p)' /\ Cleaned(p)' /\ Armed(p)' /\ Unarmed(p)'
  BY <1>1, <1>2, <1>4, Facts DEF Judged, Cleaned, Armed, Unarmed, environment
<1> QED BY <1>1, <1>2, <1>3, <1>6, <1>7, HolderStep, Facts DEF Early, Stages

\* The record is cleared, or stays after a refusal (accessGateFiles.clearState).
LEMMA ClearStep == ASSUME IInv, NEW p \in Procs, Clear(p) PROVE IInv'
<1>1. /\ lock = p /\ pc[p] = "clear" /\ job[p] \in Jobs /\ lock' = lock
      /\ UNCHANGED <<environment, bridge>> /\ Quiet
      /\ pc \in [Procs -> Stages] /\ job \in [Procs -> Jobs]
      /\ job[p].target \in 1..born /\ born \in 0..MaxPids
      /\ abandoned \subseteq Pids /\ faults \in 0..MaxFaults
  BY Facts DEF Clear, IInv, TypeOK, Stages, Jobs, Alone, Armed
<1>2. abandoned' \subseteq Pids
 <2>1. job[p].target \in Pids BY <1>1, GateAssumption DEF Pids
 <2>2. abandoned' \subseteq abandoned \cup {job[p].target} BY DEF Clear
 <2> QED BY <1>1, <2>1, <2>2
<1>3. record' \in {0, record} /\ faults' \in 0..MaxFaults
  BY <1>1, GateAssumption DEF Clear, Cleared, Fault, NoFault
<1>4. Step(p, "unlock", job[p]) BY DEF Clear
<1>5. pc'[p] = "unlock" /\ job'[p] = job[p] BY <1>1, <1>4 DEF Step, To, Update
<1>6. Judged(p)' /\ Cleaned(p)' /\ Armed(p)' /\ Unarmed(p)' /\ Alone(p)'
  BY <1>1, <1>5, Facts DEF Judged, Cleaned, Armed, Unarmed, Alone, environment
<1> QED BY <1>1, <1>2, <1>3, <1>4, <1>6, HolderStep, Facts DEF Early, Stages

\* The lock is released (fileAccessLease.Release).
LEMMA UnlockStep == ASSUME IInv, NEW p \in Procs, Unlock(p) PROVE IInv'
<1>1. job[p].answer \in Answers BY Facts DEF Jobs
<1> QED BY <1>1, EndStep, Facts DEF Unlock, Fail

\* A process is killed; record and script stay behind.
LEMMA KillStep == ASSUME IInv, NEW p \in Procs, Kill(p) PROVE IInv'
<1>1. "none" \in Answers BY DEF Answers
<1>2. faults' \in 0..MaxFaults BY Facts, GateAssumption DEF Kill, Fault
<1>3. abandoned' \subseteq Pids BY Facts, GateAssumption DEF Kill, Armed, Pids
<1> QED BY <1>1, <1>2, <1>3, EndStep, Facts DEF Kill

-------------------------------------------------------------------------------
(* The bridge and Mail.                                                     *)

\* Nobody's knowledge depends on more of the scripts and events than this.
LEMMA BridgeKnow ==
  ASSUME IInv, UNCHANGED <<record, pc, job, runs, born, mail>>,
         \A s \in scripts' : Pending(s) => \E t \in scripts : t.id = s.id /\ Pending(t),
         \A e \in events' : Running(e) =>
            \/ e \in events
            \/ \E t \in scripts : t.id = e.id /\ Pending(t)
  PROVE  Known' /\ GateKept'
<1>1. Quiet => Quiet' BY DEF Quiet, Pending, Running
<1>2. ASSUME NEW p \in Procs PROVE Alone(p)'
 <2>1. Alone(p) /\ Run(p)' = Run(p) BY DEF IInv, Known, Run
 <2>2. CASE pc[p] \in {"run", "clear"} BY <1>1, <2>1, <2>2 DEF Alone
 <2>3. CASE pc[p] = "wait"
  <3>1. \A s \in scripts' : Pending(s)' => s.id = Run(p) BY <2>1, <2>3 DEF Alone, Pending
  <3>2. \A e \in events' : Running(e) => e.id = Run(p) BY <2>1, <2>3 DEF Alone
  <3> QED BY <2>1, <2>3, <3>1, <3>2 DEF Alone, Running
 <2> QED BY <2>2, <2>3 DEF Alone
<1>3. Known' BY <1>1, <1>2 DEF IInv, Known, Judged, Cleaned, Armed, Unarmed
<1> QED BY <1>1, <1>3 DEF IInv, GateKept

\* A script goes on (Dispatch, Abort, Deny): it keeps its name.
LEMMA ScriptStep ==
  ASSUME IInv, NEW s \in scripts, NEW t \in Scripts,
         t.id = s.id, t.op = s.op, t.pid = s.pid, s.phase = "ready", t.phase # "ready",
         scripts' = (scripts \ {s}) \cup {t},
         UNCHANGED <<environment, record, lock, worker, abandoned>>,
         faults' \in 0..MaxFaults,
         \/ events' = events
         \/ /\ s.pid = mail /\ t.phase = "sent"
            /\ events' = events \cup {[id |-> s.id, op |-> s.op, pid |-> s.pid]}
  PROVE  IInv'
<1> DEFINE e0 == [id |-> s.id, op |-> s.op, pid |-> s.pid]
<1>1. /\ TypeOK /\ Held /\ Shape /\ Numbered /\ Fresh /\ s \in Scripts
      /\ UNCHANGED <<mail, born, pc, job, runs, report>>
  BY DEF IInv, Shape, environment, worker
<1>2. e0 \in Events /\ e0.id = s.id /\ e0.op = s.op /\ e0.pid = s.pid
  BY <1>1 DEF Scripts, Events
<1>3. events' = events \/ (s.pid = mail /\ t.phase = "sent" /\ events' = events \cup {e0})
  OBVIOUS
<1> HIDE DEF e0
<1>4. TypeOK' BY <1>1, <1>2, <1>3 DEF TypeOK, Scripts
<1>5. Held' BY <1>1 DEF Held
<1>6. Shape' BY <1>1, <1>2, <1>3 DEF Shape
<1>7. Numbered'
 <2>1. \A e \in events : e.id # s.id BY <1>1 DEF Numbered
 <2>2. \A x \in scripts' : x.id.run <= runs[x.id.by] BY <1>1 DEF Numbered
 <2>3. \A e \in events' : e.id.run <= runs[e.id.by] BY <1>1, <1>2, <1>3 DEF Numbered
 <2>4. \A x, y \in scripts' : x.id = y.id => x = y BY <1>1 DEF Numbered
 <2>5. \A e \in events', x \in scripts' : e.id = x.id => x.phase = "sent"
   BY <1>1, <1>2, <1>3, <2>1, <2>4 DEF Numbered
 <2>6. \A d, e \in events' : d.id = e.id => d = e BY <1>1, <1>2, <1>3, <2>1 DEF Numbered
 <2> QED BY <1>1, <2>2, <2>3, <2>4, <2>5, <2>6 DEF Numbered
<1>8. Fresh' BY <1>1, <1>2, <1>3 DEF Fresh, Run
<1>9. Known' /\ GateKept'
 <2>1. \A x \in scripts' : Pending(x) => \E y \in scripts : y.id = x.id /\ Pending(y)
   BY <1>1 DEF Pending
 <2>2. \A e \in events' : Running(e) =>
           \/ e \in events
           \/ \E y \in scripts : y.id = e.id /\ Pending(y)
   BY <1>1, <1>2, <1>3 DEF Pending, Running
 <2> QED BY <1>1, <2>1, <2>2, BridgeKnow
<1> QED BY <1>4, <1>5, <1>6, <1>7, <1>8, <1>9 DEF IInv

\* The script sends its event, or finds another Mail process (bridge.js, run).
LEMMA DispatchStep == ASSUME IInv, NEW s \in scripts, Dispatch(s) PROVE IInv'
<1>1. s \in Scripts /\ faults' \in 0..MaxFaults BY DEF IInv, Shape, TypeOK, Dispatch
<1>2. CASE s.pid # mail
 <2> DEFINE t == Answer(s, "changed")
 <2>1. t \in Scripts /\ t.id = s.id /\ t.op = s.op /\ t.pid = s.pid /\ t.phase # "ready"
   BY <1>1 DEF Answer, Scripts, Answers, Refusals
 <2>2. scripts' = (scripts \ {s}) \cup {t} BY <1>2 DEF Dispatch, Replace
 <2> HIDE DEF t
 <2> QED BY <1>1, <1>2, <2>1, <2>2, ScriptStep DEF Dispatch
<1>3. CASE s.pid = mail
 <2> DEFINE t == [s EXCEPT !.phase = "sent"]
 <2>1. t \in Scripts /\ t.id = s.id /\ t.op = s.op /\ t.pid = s.pid /\ t.phase = "sent"
   BY <1>1 DEF Scripts
 <2>2. scripts' = (scripts \ {s}) \cup {t} BY <1>3 DEF Dispatch, Replace
 <2> HIDE DEF t
 <2> QED BY <1>1, <1>3, <2>1, <2>2, ScriptStep DEF Dispatch
<1> QED BY <1>2, <1>3

\* The script finds the cancellation marker (abortIfCancelled).
LEMMA AbortStep == ASSUME IInv, NEW s \in scripts, Abort(s) PROVE IInv'
<1> DEFINE t == Answer(s, "cancelled")
<1>1. s \in Scripts /\ faults' \in 0..MaxFaults BY DEF IInv, Shape, TypeOK, Abort
<1>2. t \in Scripts /\ t.id = s.id /\ t.op = s.op /\ t.pid = s.pid /\ t.phase # "ready"
  BY <1>1 DEF Answer, Scripts, Answers, Refusals
<1>3. scripts' = (scripts \ {s}) \cup {t} BY DEF Abort, Replace
<1> HIDE DEF t
<1> QED BY <1>1, <1>2, <1>3, ScriptStep DEF Abort

\* The script may not talk to Mail (isAutomationDenial).
LEMMA DenyStep == ASSUME IInv, NEW s \in scripts, Deny(s) PROVE IInv'
<1> DEFINE t == Answer(s, "denied")
<1>1. s \in Scripts BY DEF IInv, Shape
<1>2. t \in Scripts /\ t.id = s.id /\ t.op = s.op /\ t.pid = s.pid /\ t.phase # "ready"
  BY <1>1 DEF Answer, Scripts, Answers, Refusals
<1>3. scripts' = (scripts \ {s}) \cup {t} BY DEF Deny, Replace
<1>4. faults' \in 0..MaxFaults BY GateAssumption DEF IInv, TypeOK, Deny, Fault
<1> HIDE DEF t
<1> QED BY <1>1, <1>2, <1>3, <1>4, ScriptStep DEF Deny

\* Events end, with an answer to their scripts; Mail may be gone with them.
LEMMA AnsweredStep ==
  ASSUME IInv, NEW ids, NEW answer \in Answers, Answered(ids, answer),
         events' \subseteq events, \A e \in events : e.id \in ids => e \notin events',
         mail' = mail \/ (mail' = 0 /\ events' = {}),
         UNCHANGED <<born, record, lock, worker, abandoned, faults>>
  PROVE  IInv'
<1>1. /\ TypeOK /\ Held /\ Shape /\ Numbered /\ Fresh
      /\ UNCHANGED <<pc, job, runs, report>>
      /\ \A s \in scripts : s \in Scripts BY DEF IInv, Shape, worker
<1> DEFINE g(s) == IF s.id \in ids /\ s.phase = "sent" THEN Answer(s, answer) ELSE s
<1>2. ASSUME NEW s \in scripts
      PROVE  /\ g(s) \in Scripts /\ g(s).id = s.id /\ g(s).op = s.op /\ g(s).pid = s.pid
             /\ g(s).phase = "ready" <=> s.phase = "ready"
             /\ s.id \notin ids => g(s) = s BY <1>1 DEF Answer, Scripts
<1>3. scripts' = {g(s) : s \in scripts} BY DEF Answered
<1> HIDE DEF g
<1>4. \A x \in scripts' : \E s \in scripts : x = g(s) BY <1>3
<1>5. TypeOK'
 <2>1. mail' \in 0..born BY <1>1 DEF TypeOK, Shape
 <2>2. \A x \in scripts' : x \in Scripts BY <1>2, <1>4
 <2>3. \A e \in events' : e.pid = mail' BY <1>1 DEF TypeOK
 <2> QED BY <1>1, <2>1, <2>2, <2>3 DEF TypeOK, Scripts
<1>6. Held' BY <1>1 DEF Held
<1>7. Shape'
 <2>1. mail' \in 0..born BY <1>1 DEF Shape
 <2>2. \A x \in scripts' : x \in Scripts /\ x.pid <= born BY <1>1, <1>2, <1>4 DEF Shape
 <2>3. \A e \in events' : e.pid = mail' BY <1>1 DEF Shape
 <2> QED BY <1>1, <2>1, <2>2, <2>3 DEF Shape
<1>8. Numbered'
 <2>1. \A x \in scripts' : x.id.run <= runs[x.id.by] BY <1>1, <1>2, <1>4 DEF Numbered
 <2>2. \A e \in events' : e.id.run <= runs[e.id.by] BY <1>1 DEF Numbered
 <2>3. \A x, y \in scripts' : x.id = y.id => x = y BY <1>1, <1>2, <1>4 DEF Numbered
 <2>4. \A e \in events', x \in scripts' : e.id = x.id => x.phase = "sent"
   BY <1>1, <1>2, <1>4 DEF Numbered
 <2>5. \A d, e \in events' : d.id = e.id => d = e BY <1>1 DEF Numbered
 <2> QED BY <1>1, <2>1, <2>2, <2>3, <2>4, <2>5 DEF Numbered
<1>9. Fresh'
 <2>1. \A p \in Procs : Run(p)' = Run(p) BY <1>1 DEF Run
 <2> QED BY <1>1, <1>2, <1>4, <2>1 DEF Fresh
<1>10. Known' /\ GateKept'
 <2>1. CASE mail' = mail
  <3>1. \A x \in scripts' : Pending(x) => \E y \in scripts : y.id = x.id /\ Pending(y)
    BY <1>2, <1>4 DEF Pending
  <3> QED BY <1>1, <2>1, <3>1, BridgeKnow
 <2>2. CASE mail' = 0 /\ events' = {}
  <3>1. Quiet' BY <1>2, <1>4, <2>2 DEF Quiet, Pending, Scripts, Pids
  <3>2. Known'
    BY <1>1, <2>2, <3>1
       DEF IInv, Known, Judged, Cleaned, Armed, Unarmed, Alone, Quiet
  <3> QED BY <3>1, <3>2 DEF GateKept
 <2> QED BY <2>1, <2>2
<1> QED BY <1>5, <1>6, <1>7, <1>8, <1>9, <1>10 DEF IInv

\* Mail carries out an event.
LEMMA ExecuteStep == ASSUME IInv, NEW e \in events, Execute(e) PROVE IInv'
<1>1. "ok" \in Answers BY DEF Answers
<1>2. \A x \in events : x.id \in {e.id} => x \notin events' BY DEF Execute, IInv, Numbered
<1> QED BY <1>1, <1>2, AnsweredStep DEF Execute, environment

\* Mail quits, and its events fail.
LEMMA QuitStep == ASSUME IInv, Quit PROVE IInv'
<1> DEFINE ids == {e.id : e \in events}
<1>1. "failed" \in Answers BY DEF Answers
<1>2. Answered(ids, "failed") BY DEF Quit
<1>3. events' = {} BY DEF Quit
<1> HIDE DEF ids
<1> QED BY <1>1, <1>2, <1>3, AnsweredStep DEF Quit

\* Mail starts, with nothing to do.
LEMMA LaunchStep == ASSUME IInv, Launch PROVE IInv'
<1>1. /\ TypeOK /\ Held /\ Shape /\ Numbered /\ Fresh /\ Known
      /\ born \in Nat /\ born' = born + 1 /\ mail' = born' /\ mail = 0
      /\ born' \in Nat /\ born' <= MaxPids
      /\ UNCHANGED <<record, lock, pc, job, runs, report, scripts, events, abandoned, faults>>
  BY GateAssumption DEF IInv, Shape, Launch, worker, bridge
<1>2. events = {} BY <1>1 DEF Shape, Events, Pids
<1>3. Quiet BY <1>1, <1>2 DEF Quiet, Pending, Shape, Scripts, Pids
<1>4. Quiet' BY <1>1, <1>2 DEF Quiet, Pending, Shape, Scripts, Pids
<1>5. TypeOK' BY <1>1, <1>2, GateAssumption DEF TypeOK
<1>6. Held' BY <1>1 DEF Held
<1>7. Shape'
 <2>1. mail' \in 0..born' BY <1>1
 <2>2. \A s \in scripts' : s.pid <= born' BY <1>1, GateAssumption DEF Shape, Scripts, Pids
 <2> QED BY <1>1, <1>2, <2>1, <2>2 DEF Shape
<1>8. Numbered' BY <1>1 DEF Numbered
<1>9. Fresh' BY <1>1 DEF Fresh, Run
<1>10. Known' BY <1>1, <1>2, <1>4 DEF Known, Judged, Cleaned, Armed, Unarmed, Alone, Quiet
<1>11. GateKept' BY <1>4 DEF GateKept
<1> QED BY <1>5, <1>6, <1>7, <1>8, <1>9, <1>10, <1>11 DEF IInv

-------------------------------------------------------------------------------
(* The process and its script.                                              *)

\* The script is started, or could not be (Client.invokeWithState).
LEMMA StartScriptStep == ASSUME IInv, NEW p \in Procs, StartScript(p) PROVE IInv'
<1>1. /\ lock = p /\ pc[p] = "run" /\ job[p] \in Jobs /\ lock' = lock
      /\ UNCHANGED <<environment, record, events, abandoned, runs, report>> /\ Quiet
      /\ UNCHANGED <<mail, born>>
      /\ pc \in [Procs -> Stages] /\ job \in [Procs -> Jobs]
      /\ job[p].target \in 1..born /\ job[p].target \in Pids
      /\ job[p].op = "sync" => record = job[p].target
      /\ faults \in 0..MaxFaults
      /\ TypeOK /\ Held /\ Shape /\ Numbered /\ Fresh /\ Known
  BY Facts, GateAssumption
     DEF StartScript, IInv, TypeOK, Stages, Jobs, Alone, Armed, environment, Step, Pids
<1>2. CASE Fault
 <2> DEFINE j == [job[p] EXCEPT !.answer = "failed"]
 <2>1. CASE UNCHANGED scripts /\ Step(p, "clear", j)
  <3>1. /\ j \in Jobs /\ j.op = job[p].op /\ j.target = job[p].target
        /\ j.touched = job[p].touched BY <1>1 DEF Jobs, Answers
  <3>2. Step(p, "clear", j) /\ UNCHANGED <<environment, bridge>>
    BY <1>1, <2>1 DEF StartScript, bridge
  <3> HIDE DEF j
  <3>3. pc'[p] = "clear" /\ job'[p] = j BY <1>1, <3>2 DEF Step, To, Update
  <3>4. Quiet' BY <1>1, <3>2 DEF Quiet, Pending, Running, bridge
  <3>5. Judged(p)' /\ Cleaned(p)' /\ Armed(p)' /\ Unarmed(p)' /\ Alone(p)'
    BY <1>1, <3>1, <3>3, <3>4, Facts DEF Judged, Cleaned, Armed, Unarmed, Alone
  <3>6. faults' \in 0..MaxFaults BY <1>1, <1>2, GateAssumption DEF Fault
  <3> QED BY <1>1, <3>1, <3>2, <3>5, <3>6, HolderStep, Facts DEF Early, Stages
 <2>2. ~NoFault BY <1>1, <1>2 DEF Fault, NoFault
 <2> QED BY <2>1, <2>2 DEF StartScript
<1>3. CASE ~Fault
 <2> DEFINE s0 == [id |-> Run(p), op |-> job[p].op, pid |-> job[p].target,
                   phase |-> "ready", answer |-> "none"]
 <2>1. /\ NoFault /\ scripts' = scripts \cup {s0} /\ Step(p, "wait", job[p])
   BY <1>3 DEF StartScript
 <2>2. Run(p) \in Ids /\ Run(p).by = p /\ Run(p).run = runs[p]
   BY <1>1, GateAssumption DEF Run, Ids, TypeOK
 <2>3. /\ s0 \in Scripts /\ s0.id = Run(p) /\ s0.pid = job[p].target
       /\ s0.op = job[p].op /\ s0.phase = "ready" BY <1>1, <2>2 DEF Scripts, Jobs, Answers
 <2>4. \A s \in scripts : s.id # Run(p) BY <1>1 DEF Fresh, Early
 <2>5. \A e \in events : e.id # Run(p) BY <1>1 DEF Fresh, Early
 <2> HIDE DEF s0
 <2>6. /\ pc' = [pc EXCEPT ![p] = "wait"] /\ job' = [job EXCEPT ![p] = job[p]]
       /\ job' = job /\ faults' = faults BY <1>1, <2>1 DEF Step, To, Update, NoFault
 <2>7. TypeOK'
  <3>1. pc' \in [Procs -> Stages] BY <1>1, <2>6 DEF Stages
  <3> QED BY <1>1, <2>1, <2>3, <2>6, <3>1 DEF TypeOK, Stages, Scripts
 <2>8. Held' BY <1>1, <2>6 DEF Held
 <2>9. Shape' BY <1>1, <2>1, <2>3 DEF Shape
 <2>10. Numbered'
  <3>1. \A s \in scripts' : s.id.run <= runs[s.id.by]
    BY <1>1, <2>1, <2>2, <2>3, GateAssumption DEF Numbered, TypeOK
  <3>2. \A s, t \in scripts' : s.id = t.id => s = t BY <1>1, <2>1, <2>3, <2>4 DEF Numbered
  <3>3. \A e \in events, s \in scripts' : e.id = s.id => s.phase = "sent"
    BY <1>1, <2>1, <2>3, <2>5 DEF Numbered
  <3> QED BY <1>1, <3>1, <3>2, <3>3 DEF Numbered
 <2>11. Fresh'
  <3>1. \A w \in Procs : Run(w)' = Run(w) BY <1>1 DEF Run
  <3>2. \A w \in Procs : pc'[w] \in Early => w # p /\ pc[w] \in Early BY <1>1, <2>6 DEF Early
  <3>3. \A w \in Procs \ {p} : Run(w) # Run(p) BY DEF Run
  <3> QED BY <1>1, <2>1, <2>3, <3>1, <3>2, <3>3 DEF Fresh
 <2>12. \A s \in scripts' : Pending(s)' => s = s0 BY <1>1, <2>1 DEF Quiet, Pending
 <2>13. \A e \in events : ~Running(e) BY <1>1 DEF Quiet
 <2>14. Known'
  <3>1. Judged(p)' /\ Cleaned(p)' /\ Armed(p)' /\ Unarmed(p)'
    BY <1>1, <2>6, Facts DEF Judged, Cleaned, Armed, Unarmed
  <3>2. Alone(p)'
   <4>1. pc'[p] = "wait" /\ Run(p)' = Run(p) BY <1>1, <2>6 DEF Run
   <4> QED BY <1>1, <4>1, <2>3, <2>12, <2>13 DEF Alone, Running
  <3>3. ASSUME NEW w \in Procs, w # p
        PROVE  Judged(w)' /\ Cleaned(w)' /\ Armed(w)' /\ Unarmed(w)' /\ Alone(w)'
   <4>1. pc'[w] = pc[w] /\ job'[w] = job[w] /\ pc[w] \in {"idle", "open"}
     BY <1>1, <2>6, <3>3 DEF Held
   <4>2. Armed(w) /\ Unarmed(w) BY <1>1 DEF Known
   <4> QED BY <1>1, <4>1, <4>2 DEF Judged, Cleaned, Armed, Unarmed, Alone
  <3> QED BY <3>1, <3>2, <3>3 DEF Known
 <2>15. GateKept'
  <3>1. ~Quiet' => s0.op = "sync" /\ s0.pid = mail
    BY <1>1, <2>12, <2>13 DEF Quiet, Running, Pending
  <3>2. s0.op = "sync" /\ s0.pid = mail => record = mail BY <1>1, <2>3
  <3> QED BY <1>1, <3>1, <3>2 DEF GateKept
 <2> QED BY <2>7, <2>8, <2>9, <2>10, <2>11, <2>14, <2>15 DEF IInv
<1> QED BY <1>2, <1>3

\* The process lets go of its script, having its answer or without one; the
\* record may be cleared only if nothing is outstanding any more (Leave).
LEMMA LetGoStep ==
  ASSUME IInv, NEW p \in Procs, pc[p] = "wait", NEW step \in {"clear", "unlock"},
         NEW j \in Jobs, Step(p, step, j), j.op = job[p].op,
         j.target = job[p].target, j.touched = job[p].touched,
         scripts' \subseteq scripts, step = "clear" => Quiet',
         UNCHANGED <<environment, record, lock, events, sent, done>>,
         abandoned' \subseteq Pids, faults' \in 0..MaxFaults
  PROVE  IInv'
<1>1. /\ lock = p /\ UNCHANGED <<mail, born, runs, report>>
      /\ pc' = [pc EXCEPT ![p] = step] /\ job' = [job EXCEPT ![p] = j]
      /\ pc \in [Procs -> Stages] /\ job \in [Procs -> Jobs]
      /\ job[p].target \in 1..born
      /\ TypeOK /\ Held /\ Shape /\ Numbered /\ Fresh /\ Known /\ GateKept
  BY Facts DEF IInv, TypeOK, Stages, Jobs, Armed, environment, Step, To, Update
<1>2. TypeOK'
 <2>1. pc' \in [Procs -> Stages] BY <1>1 DEF Stages
 <2>2. job' \in [Procs -> Jobs] BY <1>1
 <2> QED BY <1>1, <2>1, <2>2 DEF TypeOK, Stages, Jobs
<1>3. Held' BY <1>1, GateAssumption DEF Held, Nobody, TypeOK
<1>4. Shape' BY <1>1 DEF Shape
<1>5. Numbered' BY <1>1 DEF Numbered
<1>6. Fresh'
 <2>1. \A w \in Procs : Run(w)' = Run(w) BY <1>1 DEF Run
 <2>2. \A w \in Procs : pc'[w] \in Early => pc[w] \in Early BY <1>1 DEF Early
 <2> QED BY <1>1, <2>1, <2>2 DEF Fresh
<1>7. Known'
 <2>1. pc'[p] = step /\ job'[p] = j BY <1>1
 <2>2. Judged(p)' /\ Cleaned(p)' /\ Armed(p)' /\ Unarmed(p)' /\ Alone(p)'
   BY <1>1, <2>1, Facts DEF Judged, Cleaned, Armed, Unarmed, Alone
 <2>3. ASSUME NEW w \in Procs, w # p
       PROVE  Judged(w)' /\ Cleaned(w)' /\ Armed(w)' /\ Unarmed(w)' /\ Alone(w)'
  <3>1. pc'[w] = pc[w] /\ job'[w] = job[w] /\ pc[w] \in {"idle", "open"}
    BY <1>1, <2>3 DEF Held
  <3>2. Armed(w) /\ Unarmed(w) BY <1>1 DEF Known
  <3> QED BY <1>1, <3>1, <3>2 DEF Judged, Cleaned, Armed, Unarmed, Alone
 <2> QED BY <2>2, <2>3 DEF Known
<1>8. GateKept'
 <2>1. Quiet => Quiet' BY <1>1 DEF Quiet, Pending, Running
 <2> QED BY <1>1, <2>1 DEF GateKept
<1> QED BY <1>2, <1>3, <1>4, <1>5, <1>6, <1>7, <1>8 DEF IInv

\* What Leave does, by whether the operation is known to have ended.
LEMMA LeaveFacts ==
  ASSUME IInv, NEW p \in Procs, pc[p] = "wait", NEW completed \in BOOLEAN,
         NEW answer \in Answers, Leave(p, completed, answer)
  PROVE  \E step \in {"clear", "unlock"}, j \in Jobs :
           /\ Step(p, step, j) /\ j.op = job[p].op
           /\ j.target = job[p].target /\ j.touched = job[p].touched
           /\ step = "clear" => completed
           /\ abandoned' \subseteq Pids
<1> DEFINE step == IF job[p].touched /\ ~Uncertain(p, completed) THEN "clear" ELSE "unlock"
           j == [job[p] EXCEPT !.answer = answer]
<1>1. /\ job[p] \in Jobs /\ job[p].target \in Pids /\ abandoned \subseteq Pids
      /\ job[p].op = "list" => ~job[p].touched
  BY Facts, GateAssumption DEF Armed, Unarmed, Pids, Jobs
<1>2. /\ j \in Jobs /\ j.op = job[p].op /\ j.target = job[p].target
      /\ j.touched = job[p].touched BY <1>1 DEF Jobs
<1>3. job[p].op \in {"sync", "list"} BY <1>1 DEF Jobs, Operations
<1>4. step \in {"clear", "unlock"} /\ (step = "clear" => completed)
  BY <1>1, <1>3 DEF Uncertain
<1>5. Step(p, step, j) BY DEF Leave
<1>6. abandoned' \subseteq Pids BY <1>1 DEF Leave
<1> HIDE DEF step, j
<1> QED BY <1>2, <1>4, <1>5, <1>6

\* The answer is read (Client.invokeWithState, decodeBridgeResponse).
LEMMA CollectStep == ASSUME IInv, NEW p \in Procs, Collect(p) PROVE IInv'
<1>1. pc[p] = "wait" /\ Alone(p) /\ faults \in 0..MaxFaults /\ Numbered /\ Shape
  BY Facts DEF Collect, IInv
<1>2. PICK s \in Script(p) :
        /\ s.phase = "answered" /\ scripts' = scripts \ {s}
        /\ \/ NoFault /\ Leave(p, TRUE, s.answer)
           \/ Fault /\ Leave(p, FALSE, "unknown") BY DEF Collect
<1>3. /\ s \in scripts /\ s.id = Run(p) /\ s.answer \in Answers /\ "unknown" \in Answers
      /\ UNCHANGED <<environment, record, lock, events, sent, done>>
  BY <1>1, <1>2 DEF Script, Shape, Scripts, Answers, Collect
<1>4. faults' \in 0..MaxFaults
 <2>1. CASE NoFault BY <1>1, <2>1 DEF NoFault
 <2>2. CASE Fault BY <1>1, <2>2, GateAssumption DEF Fault
 <2> QED BY <1>2, <2>1, <2>2
<1>5. Quiet'
 <2>1. \A e \in events : ~Running(e) BY <1>1, <1>2, <1>3 DEF Alone, Numbered
 <2>2. \A t \in scripts \ {s} : ~Pending(t) BY <1>1, <1>3 DEF Alone, Numbered
 <2> QED BY <1>2, <1>3, <2>1, <2>2 DEF Quiet, Pending, Running, environment
<1>6. PICK completed \in BOOLEAN, answer \in Answers : Leave(p, completed, answer)
  BY <1>2, <1>3
<1>7. PICK step \in {"clear", "unlock"}, j \in Jobs :
           /\ Step(p, step, j) /\ j.op = job[p].op
           /\ j.target = job[p].target /\ j.touched = job[p].touched
           /\ abandoned' \subseteq Pids BY <1>1, <1>6, LeaveFacts
<1> QED BY <1>1, <1>2, <1>3, <1>4, <1>5, <1>7, LetGoStep

\* The script is killed, its event goes on (Client.invokeWithState).
LEMMA GiveUpStep == ASSUME IInv, NEW p \in Procs, GiveUp(p) PROVE IInv'
<1>1. pc[p] = "wait" /\ faults \in 0..MaxFaults BY Facts DEF GiveUp
<1>2. /\ scripts' \subseteq scripts /\ faults' \in 0..MaxFaults
      /\ UNCHANGED <<environment, record, lock, events, sent, done>>
      /\ Leave(p, FALSE, "unknown") /\ "unknown" \in Answers
 <2>1. scripts' = scripts \ Script(p) /\ Fault /\ Leave(p, FALSE, "unknown")
       /\ UNCHANGED <<environment, record, lock, events, sent, done>> BY DEF GiveUp
 <2>2. faults' \in 0..MaxFaults BY <1>1, <2>1, GateAssumption DEF Fault
 <2>3. "unknown" \in Answers BY DEF Answers
 <2>4. scripts' \subseteq scripts BY <2>1
 <2> QED BY <2>1, <2>2, <2>3, <2>4
<1>3. PICK step \in {"clear", "unlock"}, j \in Jobs :
           /\ Step(p, step, j) /\ j.op = job[p].op
           /\ j.target = job[p].target /\ j.touched = job[p].touched
           /\ step # "clear" /\ abandoned' \subseteq Pids BY <1>1, <1>2, LeaveFacts
<1> QED BY <1>1, <1>2, <1>3, LetGoStep

-------------------------------------------------------------------------------
(* The theorems.                                                            *)

\* Every step keeps the invariant.
LEMMA NextStep == ASSUME IInv, [Next]_vars PROVE IInv'
<1>1. CASE UNCHANGED vars
 <2> USE <1>1 DEF vars, environment, worker, bridge
 <2>1. TypeOK' /\ Held' BY DEF IInv, TypeOK, Held
 <2>2. Shape' /\ Numbered' /\ Fresh' BY DEF IInv, Shape, Numbered, Fresh, Run
 <2>3. Quiet' <=> Quiet BY DEF Quiet, Pending, Running
 <2>4. Known'
   BY <2>3 DEF IInv, Known, Judged, Cleaned, Armed, Unarmed, Alone, Run, Pending, Running
 <2>5. GateKept' BY <2>3 DEF IInv, GateKept
 <2> QED BY <2>1, <2>2, <2>4, <2>5 DEF IInv
<1>2. ASSUME NEW p \in Procs, NEW op \in Operations, Begin(p, op) PROVE IInv'
  BY <1>2, BeginStep
<1>3. ASSUME NEW p \in Procs, Unsafe(p) \/ TakeLock(p) \/ Busy(p) \/ Look(p) PROVE IInv'
  BY <1>3, UnsafeStep, TakeLockStep, BusyStep, LookStep
<1>4. ASSUME NEW p \in Procs, Judge(p) \/ Target(p) \/ Arm(p) \/ StartScript(p) PROVE IInv'
  BY <1>4, JudgeStep, TargetStep, ArmStep, StartScriptStep
<1>5. ASSUME NEW p \in Procs, Expire(p) \/ Collect(p) \/ GiveUp(p) PROVE IInv'
  BY <1>5, ExpireStep, CollectStep, GiveUpStep
<1>6. ASSUME NEW p \in Procs, Clear(p) \/ Unlock(p) \/ Kill(p) PROVE IInv'
  BY <1>6, ClearStep, UnlockStep, KillStep
<1>7. ASSUME NEW s \in scripts, Dispatch(s) \/ Abort(s) \/ Deny(s) PROVE IInv'
  BY <1>7, DispatchStep, AbortStep, DenyStep
<1>8. ASSUME NEW e \in events, Execute(e) PROVE IInv' BY <1>8, ExecuteStep
<1>9. CASE Quit \/ Launch BY <1>9, QuitStep, LaunchStep
<1> QED BY <1>1, <1>2, <1>3, <1>4, <1>5, <1>6, <1>7, <1>8, <1>9 DEF Next

\* The gate's invariant, for every number of processes and Mail processes.
THEOREM GateInvariant == Spec => []IInv
<1>1. Init => IInv BY GateStarts
<1>2. IInv /\ [Next]_vars => IInv' BY NextStep
<1> QED BY <1>1, <1>2, PTL DEF Spec

\* Types, one holder of the lock, and a gate file that names the Mail process
\* in which a synchronisation may still run, whoever was killed meanwhile.
THEOREM GateAlwaysSound == Spec => []GateSound
<1>1. IInv => GateSound
 <2> SUFFICES ASSUME IInv PROVE Guarded BY DEF IInv, GateSound, AccessGateInv
 <2>1. ASSUME NEW o \in Outstanding PROVE ~Quiet
   BY <2>1 DEF Outstanding, Quiet, Pending, Running
 <2> QED BY <2>1 DEF Guarded, IInv, GateKept
<1> QED BY <1>1, GateInvariant, PTL

\* No operation starts while a synchronisation may still run in the same Mail
\* process.
THEOREM OperationsStartAlone == Spec => StartsAlone
<1> DEFINE Started == \E s \in scripts' : s.id \notin {t.id : t \in scripts}
<1>1. ASSUME IInv, Next, Started PROVE Outstanding = {}
 <2>1. PICK n \in scripts' : n.id \notin {t.id : t \in scripts} BY <1>1
 <2>2. n \notin scripts BY <2>1
 <2>3. CASE \E p \in Procs : StartScript(p)
  <3>1. PICK p \in Procs : pc[p] = "run" BY <2>3 DEF StartScript
  <3>2. Quiet BY <1>1, <3>1, Facts DEF Alone
  <3> QED BY <3>2 DEF Quiet, Pending, Running, Outstanding
 <2>4. CASE \E s \in scripts : Dispatch(s) \/ Abort(s) \/ Deny(s)
  <3>1. PICK s \in scripts : \E t :
          scripts' = (scripts \ {s}) \cup {t} /\ t.id = s.id
   <4>1. \A s \in scripts : s \in Scripts BY <1>1 DEF IInv, Shape
   <4>2. PICK s \in scripts : Dispatch(s) \/ Abort(s) \/ Deny(s) BY <2>4
   <4>3. \/ Replace(s, Answer(s, "changed")) \/ Replace(s, [s EXCEPT !.phase = "sent"])
         \/ Replace(s, Answer(s, "cancelled")) \/ Replace(s, Answer(s, "denied"))
     BY <4>2 DEF Dispatch, Abort, Deny
   <4>4. \A a \in Answers : Answer(s, a).id = s.id BY <4>1 DEF Answer, Scripts
   <4>5. [s EXCEPT !.phase = "sent"].id = s.id BY <4>1 DEF Scripts
   <4>6. {"changed", "cancelled", "denied"} \subseteq Answers BY DEF Answers, Refusals
   <4>7. /\ Answer(s, "changed").id = s.id /\ Answer(s, "cancelled").id = s.id
         /\ Answer(s, "denied").id = s.id BY <4>4, <4>6
   <4> QED BY <4>3, <4>5, <4>7 DEF Replace
  <3> QED BY <2>1, <3>1
 <2>5. ASSUME NEW ids, NEW a, Answered(ids, a) PROVE FALSE
  <3>1. \A s \in scripts : s \in Scripts BY <1>1 DEF IInv, Shape
  <3>2. \A s \in scripts : Answer(s, a).id = s.id BY <3>1 DEF Answer, Scripts
  <3>3. PICK s \in scripts : n = IF s.id \in ids /\ s.phase = "sent" THEN Answer(s, a) ELSE s
    BY <2>1, <2>5 DEF Answered
  <3> QED BY <2>1, <3>2, <3>3
 <2>6. CASE (\E e \in events : Execute(e)) \/ Quit BY <2>5, <2>6 DEF Execute, Quit
 <2>7. CASE scripts' \subseteq scripts BY <2>1, <2>2, <2>7
 <2> QED
   BY <1>1, <2>3, <2>4, <2>6, <2>7
      DEF Next, Begin, Unsafe, TakeLock, Busy, Look, Judge, Target, Arm, Expire, Collect,
          GiveUp, Clear, Unlock, Kill, Launch, bridge
<1>2. IInv /\ [Next]_vars => [Started => Outstanding = {}]_vars BY <1>1
<1> QED BY <1>2, GateInvariant, PTL DEF Spec, StartsAlone
-------------------------------------------------------------------------------
(* What a command is told.                                                  *)

\* A refusal is told of an operation that was never sent to Mail, and "ok" of
\* one that ran to its end.
Told(id, answer) == /\ answer \in Refusals => id \notin sent
                    /\ answer = "ok" => id \in done

\* Mail got events of operations that were begun; a script that has sent
\* nothing has sent nothing, and one that answered told the truth.
Stamped == \A d \in sent \cup done : d \in Ids /\ d.run <= runs[d.by]
ScriptTells(s) == /\ s.phase = "ready" => s.id \notin sent
                  /\ s.phase = "answered" => Told(s.id, s.answer)

\* An operation that has not started its script sent nothing; one that was
\* refused has no script any more that could still send.
NoScript(p) == \A s \in scripts : s.id # Run(p)
Tale(p) ==
  /\ pc[p] \in Early => Run(p) \notin sent
  /\ pc[p] \in {"clear", "unlock"} =>
       Told(Run(p), job[p].answer) /\ (job[p].answer \in Refusals => NoScript(p))
  /\ pc[p] # "idle" => report[p] = "none"
  /\ Told(Run(p), report[p]) /\ (report[p] \in Refusals => NoScript(p))

TellInv == Stamped /\ (\A s \in scripts : ScriptTells(s)) /\ \A p \in Procs : Tale(p)

\* A record has its cause, or its writer has not let go of the lock.
Caused == /\ record = Torn => abandoned # {}
          /\ record \notin {0, Torn} => record \in abandoned
Writing(p) == pc[p] \in {"run", "wait", "clear"} /\ job[p].touched
              /\ record \in {0, Torn, job[p].target}
CauseInv == Caused \/ \E p \in Procs : Writing(p)

\* The starting state tells nothing and has no record.
LEMMA AnswersStart == Init => TellInv /\ CauseInv
BY DEF Init, TellInv, Stamped, Tale, Told, NoScript, CauseInv, Caused, Torn, NewJob,
       Early, Refusals

\* A step of process p that sends nothing and starts no script: the others
\* tell what they told, and p has its own tale.
LEMMA TaleKept ==
  ASSUME IInv, TellInv, NEW p \in Procs, UNCHANGED <<sent, done>>, scripts' \subseteq scripts,
         \A w \in Procs \ {p} : /\ pc'[w] = pc[w] /\ job'[w] = job[w]
                                /\ report'[w] = report[w] /\ runs'[w] = runs[w],
         runs'[p] \in {runs[p], runs[p] + 1}, Tale(p)'
  PROVE  TellInv'
<1>1. runs \in [Procs -> Nat] BY GateAssumption DEF IInv, TypeOK
<1>2. Stamped'
 <2> SUFFICES ASSUME NEW d \in sent \cup done PROVE d \in Ids /\ d.run <= runs'[d.by]
   BY DEF Stamped
 <2>1. d \in Ids /\ d.run <= runs[d.by] BY DEF TellInv, Stamped
 <2>2. d.by \in Procs /\ d.run \in Nat BY <2>1 DEF Ids
 <2> QED BY <1>1, <2>1, <2>2
<1>3. \A s \in scripts' : ScriptTells(s)' BY DEF TellInv, ScriptTells, Told
<1>4. ASSUME NEW w \in Procs, w # p PROVE Tale(w)'
 <2>1. Tale(w) BY DEF TellInv
 <2>2. Run(w)' = Run(w) BY <1>4 DEF Run
 <2>3. NoScript(w) => NoScript(w)' BY <2>2 DEF NoScript
 <2> QED BY <1>4, <2>1, <2>2, <2>3 DEF Tale, Told
<1> QED BY <1>2, <1>3, <1>4 DEF TellInv

\* Before its script an operation ends, or goes on, without having sent
\* anything.
LEMMA EarlyEnd ==
  ASSUME IInv, TellInv, NEW p \in Procs, pc[p] \in Early, NEW answer, answer # "ok",
         Finish(p, answer), UNCHANGED bridge
  PROVE  TellInv'
<1> USE DEF Finish, To, Update, bridge
<1>1. /\ Run(p) \notin sent /\ NoScript(p) /\ pc \in [Procs -> Stages]
      /\ report \in [Procs -> Answers] /\ job \in [Procs -> Jobs] /\ "idle" \notin Early
  BY DEF TellInv, Tale, IInv, Fresh, NoScript, TypeOK, Stages, Jobs, Early
<1>2. pc'[p] = "idle" /\ report'[p] = answer /\ runs' = runs BY <1>1
<1>3. Run(p)' = Run(p) /\ NoScript(p)' BY <1>1, <1>2 DEF Run, NoScript
<1>4. Tale(p)' BY <1>1, <1>2, <1>3 DEF Tale, Told
<1> QED BY <1>1, <1>2, <1>4, TaleKept

LEMMA EarlyStep ==
  ASSUME IInv, TellInv, NEW p \in Procs, pc[p] \in Early, NEW step \in Stages, NEW j,
         Step(p, step, j), step \in Early \/ (step = "clear" /\ j.answer # "ok"),
         UNCHANGED bridge
  PROVE  TellInv'
<1> USE DEF Step, To, Update, bridge
<1>1. /\ Run(p) \notin sent /\ NoScript(p) /\ pc \in [Procs -> Stages]
      /\ report[p] = "none" /\ job \in [Procs -> Jobs]
  BY DEF TellInv, Tale, IInv, Fresh, NoScript, TypeOK, Stages, Jobs, Early
<1>2. pc'[p] = step /\ job'[p] = j /\ report'[p] = "none" /\ runs' = runs BY <1>1
<1>3. Run(p)' = Run(p) /\ NoScript(p)' BY <1>1, <1>2 DEF Run, NoScript
<1>4. Tale(p)' BY <1>1, <1>2, <1>3 DEF Tale, Told, Early, Refusals
<1> QED BY <1>1, <1>2, <1>4, TaleKept

\* The steps before the script (Client.invoke, fileAccessGate.Acquire).
LEMMA BeginTells ==
  ASSUME IInv, TellInv, NEW p \in Procs, NEW op \in Operations, Begin(p, op)
  PROVE  TellInv'
<1> USE DEF Begin, To, Update, bridge
<1>1. /\ pc \in [Procs -> Stages] /\ report \in [Procs -> Answers] /\ job \in [Procs -> Jobs]
      /\ runs \in [Procs -> Nat] BY GateAssumption DEF IInv, TypeOK, Stages, Jobs
<1>2. /\ pc'[p] = "open" /\ report'[p] = "none" /\ runs'[p] = runs[p] + 1
      /\ Run(p)' = [by |-> p, run |-> runs[p] + 1] BY <1>1 DEF Run
<1>3. Run(p)' \notin sent \cup done
 <2> SUFFICES ASSUME NEW d \in sent \cup done, d = Run(p)' PROVE FALSE OBVIOUS
 <2>1. d.run <= runs[d.by] BY DEF TellInv, Stamped
 <2>2. d.by = p /\ d.run = runs[p] + 1 BY <1>2
 <2> QED BY <1>1, <2>1, <2>2
<1>4. Tale(p)' BY <1>2, <1>3 DEF Tale, Told, Refusals
<1> QED BY <1>1, <1>2, <1>4, TaleKept

LEMMA EarlyTells ==
  ASSUME IInv, TellInv, NEW p \in Procs,
         \/ Unsafe(p) \/ TakeLock(p) \/ Busy(p) \/ Look(p) \/ Judge(p) \/ Target(p) \/ Arm(p)
  PROVE  TellInv'
<1> USE DEF Early, Fail
<1>1. CASE Unsafe(p) BY <1>1, EarlyEnd DEF Unsafe
<1>2. CASE Busy(p) BY <1>2, EarlyEnd DEF Busy
<1>3. CASE TakeLock(p) BY <1>3, EarlyStep DEF TakeLock, Stages
<1>4. CASE Look(p)
 <2>1. CASE Step(p, "target", job[p]) BY <1>4, <2>1, EarlyStep DEF Look, Stages
 <2>2. CASE Step(p, "judge", [job[p] EXCEPT !.seen = mail])
   BY <1>4, <2>2, EarlyStep DEF Look, Stages
 <2>3. CASE Finish(p, IF record = Torn THEN "corrupt" ELSE "failed")
   BY <1>4, <2>3, EarlyEnd DEF Look
 <2> QED BY <1>4, <2>1, <2>2, <2>3 DEF Look
<1>5. CASE Judge(p)
 <2>1. CASE Step(p, "target", job[p]) BY <1>5, <2>1, EarlyStep DEF Judge, Stages
 <2>2. CASE \E a \in {"recovery_required", "corrupt", "not_running", "failed"} : Finish(p, a)
   BY <1>5, <2>2, EarlyEnd DEF Judge
 <2> QED BY <1>5, <2>1, <2>2 DEF Judge
<1>6. CASE Target(p)
 <2>1. CASE Finish(p, "not_running") BY <1>6, <2>1, EarlyEnd DEF Target
 <2>2. CASE Step(p, IF job[p].op = "sync" THEN "arm" ELSE "run", [job[p] EXCEPT !.target = mail])
   BY <1>6, <2>2, EarlyStep DEF Target, Stages
 <2> QED BY <1>6, <2>1, <2>2 DEF Target
<1>7. CASE Arm(p)
 <2> DEFINE j == [job[p] EXCEPT !.touched = TRUE]
            k == [j EXCEPT !.answer = "gate_failed"]
 <2>1. CASE Step(p, "run", j) BY <1>7, <2>1, EarlyStep DEF Arm, Stages
 <2>2. CASE Step(p, "clear", k)
  <3>1. k.answer = "gate_failed" BY DEF IInv, TypeOK
  <3> HIDE DEF k
  <3> QED BY <1>7, <2>2, <3>1, EarlyStep DEF Arm, Stages
 <2> QED BY <1>7, <2>1, <2>2 DEF Arm
<1> QED BY <1>1, <1>2, <1>3, <1>4, <1>5, <1>6, <1>7

\* The script starts and has sent nothing (Client.runBridge).
LEMMA StartScriptTells ==
  ASSUME IInv, TellInv, NEW p \in Procs, StartScript(p)
  PROVE  TellInv'
<1> DEFINE k == [job[p] EXCEPT !.answer = "failed"]
           n == [id |-> Run(p), op |-> job[p].op, pid |-> job[p].target,
                 phase |-> "ready", answer |-> "none"]
<1>1. pc[p] = "run" /\ UNCHANGED <<sent, done>> BY DEF StartScript
<1>2. CASE Step(p, "clear", k) /\ UNCHANGED scripts
 <2>1. k.answer = "failed" BY DEF IInv, TypeOK
 <2>2. UNCHANGED bridge BY <1>2 DEF StartScript, bridge
 <2> HIDE DEF k
 <2> QED BY <1>1, <1>2, <2>1, <2>2, EarlyStep DEF Early, Stages
<1>3. CASE Step(p, "wait", job[p]) /\ scripts' = scripts \cup {n}
 <2>1. n.id = Run(p) /\ n.phase = "ready" OBVIOUS
 <2> HIDE DEF n
 <2> USE DEF Step, To, Update
 <2>2. pc \in [Procs -> Stages] /\ job \in [Procs -> Jobs] /\ runs' = runs /\ report' = report
   BY <1>3 DEF IInv, TypeOK, Stages, Jobs
 <2>3. Run(p) \notin sent /\ \A w \in Procs : Tale(w) BY <1>1 DEF TellInv, Tale, Early
 <2>4. Stamped' BY <1>1, <2>2 DEF TellInv, Stamped
 <2>5. \A s \in scripts' : ScriptTells(s)'
   BY <1>1, <1>3, <2>1, <2>3 DEF TellInv, ScriptTells, Told
 <2>6. ASSUME NEW w \in Procs, w # p PROVE Tale(w)'
  <3>1. Run(w)' = Run(w) /\ Run(w) # Run(p) BY <2>2, <2>6 DEF Run
  <3>2. NoScript(w) => NoScript(w)' BY <1>3, <2>1, <3>1 DEF NoScript
  <3>3. pc'[w] = pc[w] /\ job'[w] = job[w] BY <1>3, <2>2, <2>6
  <3> QED BY <1>1, <2>2, <2>3, <3>1, <3>2, <3>3 DEF Tale, Told
 <2>7. Tale(p)'
  <3>1. pc'[p] = "wait" /\ report'[p] = "none" BY <1>1, <1>3, <2>2, <2>3 DEF Tale
  <3> QED BY <3>1 DEF Tale, Told, Early, Refusals
 <2> QED BY <2>4, <2>5, <2>6, <2>7 DEF TellInv
<1> QED BY <1>2, <1>3 DEF StartScript

\* The end of an operation that knows its answer.
LEMMA LateTells ==
  ASSUME IInv, TellInv, NEW p \in Procs, NEW step \in {"clear", "unlock"}, NEW j,
         pc[p] # "idle", Step(p, step, j), UNCHANGED <<sent, done>>, scripts' \subseteq scripts,
         Told(Run(p), j.answer), j.answer \in Refusals => \A s \in scripts' : s.id # Run(p)
  PROVE  TellInv'
<1> USE DEF Step, To, Update
<1>1. /\ pc \in [Procs -> Stages] /\ job \in [Procs -> Jobs] /\ report[p] = "none"
  BY DEF IInv, TypeOK, Stages, Jobs, TellInv, Tale
<1>2. pc'[p] = step /\ job'[p] = j /\ report' = report /\ runs' = runs BY <1>1
<1>3. Run(p)' = Run(p) BY <1>2 DEF Run
<1>4. Tale(p)' BY <1>1, <1>2, <1>3 DEF Tale, Told, NoScript, Early, Refusals
<1> QED BY <1>1, <1>2, <1>4, TaleKept

\* invokeWithState and Release: the answer is the script's, or none is known.
LEMMA CollectTells ==
  ASSUME IInv, TellInv, NEW p \in Procs, Collect(p)
  PROVE  TellInv'
<1> USE DEF Collect
<1>1. PICK s \in Script(p) :
        /\ s.phase = "answered" /\ scripts' = scripts \ {s}
        /\ \/ NoFault /\ Leave(p, TRUE, s.answer)
           \/ Fault /\ Leave(p, FALSE, "unknown") OBVIOUS
<1>2. PICK step \in {"clear", "unlock"}, answer \in {s.answer, "unknown"} :
        Step(p, step, [job[p] EXCEPT !.answer = answer]) BY <1>1 DEF Leave
<1>3. s \in scripts /\ s.id = Run(p) BY DEF Script
<1>4. \A t \in scripts' : t.id # Run(p) BY <1>1, <1>3 DEF IInv, Numbered
<1>5. Told(Run(p), answer)
 <2>1. Told(Run(p), s.answer) BY <1>1, <1>3 DEF TellInv, ScriptTells
 <2>2. Told(Run(p), "unknown") BY DEF Told, Refusals
 <2> QED BY <2>1, <2>2
<1> DEFINE j == [job[p] EXCEPT !.answer = answer]
<1>6. j.answer = answer BY DEF IInv, TypeOK
<1>7. pc[p] # "idle" /\ UNCHANGED <<sent, done>> /\ scripts' \subseteq scripts BY <1>1
<1>8. Step(p, step, j) BY <1>2
<1> HIDE DEF j
<1> QED BY <1>4, <1>5, <1>6, <1>7, <1>8, LateTells

LEMMA GiveUpTells ==
  ASSUME IInv, TellInv, NEW p \in Procs, GiveUp(p)
  PROVE  TellInv'
<1> USE DEF GiveUp
<1>1. PICK step \in {"clear", "unlock"} :
        Step(p, step, [job[p] EXCEPT !.answer = "unknown"]) BY DEF Leave
<1> DEFINE j == [job[p] EXCEPT !.answer = "unknown"]
<1>2. j.answer = "unknown" /\ Told(Run(p), "unknown") /\ "unknown" \notin Refusals
  BY DEF IInv, TypeOK, Told, Refusals
<1>3. pc[p] # "idle" /\ UNCHANGED <<sent, done>> /\ scripts' \subseteq scripts OBVIOUS
<1>4. Step(p, step, j) BY <1>1
<1> HIDE DEF j
<1> QED BY <1>2, <1>3, <1>4, LateTells

LEMMA ClearTells ==
  ASSUME IInv, TellInv, NEW p \in Procs, Clear(p)
  PROVE  TellInv'
<1>1. Told(Run(p), job[p].answer) /\ (job[p].answer \in Refusals => NoScript(p))
  BY DEF TellInv, Tale, Clear
<1> QED BY <1>1, LateTells DEF Clear, NoScript, bridge

\* The answer is told, or the process is killed and tells none.
LEMMA EndTells ==
  ASSUME IInv, TellInv, NEW p \in Procs, Unlock(p) \/ Kill(p)
  PROVE  TellInv'
<1> USE DEF Unlock, Kill, Fail, Finish, To, Update
<1>1. /\ pc \in [Procs -> Stages] /\ report \in [Procs -> Answers] /\ job \in [Procs -> Jobs]
      /\ UNCHANGED <<sent, done, scripts>> BY DEF IInv, TypeOK, Stages, Jobs, bridge
<1>2. pc'[p] = "idle" /\ report'[p] \in {"none", job[p].answer} /\ runs' = runs
      /\ (report'[p] # "none" => Unlock(p)) BY <1>1
<1>3. Run(p)' = Run(p) /\ (NoScript(p) => NoScript(p)') BY <1>1, <1>2 DEF Run, NoScript
<1>4. Unlock(p) => Told(Run(p), job[p].answer) /\ (job[p].answer \in Refusals => NoScript(p))
  BY DEF TellInv, Tale
<1>5. Tale(p)' BY <1>1, <1>2, <1>3, <1>4 DEF Tale, Told, Early, Refusals
<1> QED BY <1>1, <1>2, <1>5, TaleKept

\* The deadline of the request passes.
LEMMA ExpireTells ==
  ASSUME IInv, TellInv, NEW p \in Procs, Expire(p)
  PROVE  TellInv'
<1> USE DEF Expire, Update, bridge
<1>1. job \in [Procs -> Jobs] BY DEF IInv, TypeOK, Jobs
<1>2. Run(p)' = Run(p) /\ pc'[p] = "wait" /\ report'[p] = "none" BY DEF Run, TellInv, Tale
<1>3. Tale(p)' BY <1>2 DEF Tale, Told, Early, Refusals
<1> QED BY <1>1, <1>3, TaleKept

\* A script sends its event or ends without it (bridge.js, run).
LEMMA BridgeTells ==
  ASSUME IInv, TellInv, NEW s \in scripts, s.phase = "ready", UNCHANGED <<worker, done>>,
         NEW t, scripts' = (scripts \ {s}) \cup {t}, t.id = s.id, sent' \in {sent, sent \cup {s.id}},
         \/ t.phase = "sent"
         \/ t.phase = "answered" /\ t.answer # "ok" /\ sent' = sent
  PROVE  TellInv'
<1> USE DEF worker
<1>1. s.id \notin sent /\ s.id \in Ids /\ s.id.run <= runs[s.id.by]
  BY DEF TellInv, ScriptTells, IInv, Numbered, Shape, Scripts
<1>2. Stamped' BY <1>1 DEF TellInv, Stamped
<1>3. ASSUME NEW u \in scripts' PROVE ScriptTells(u)'
 <2>1. CASE u = t BY <1>1, <2>1 DEF ScriptTells, Told
 <2>2. CASE u # t
  <3>1. u \in scripts /\ u.id # s.id /\ ScriptTells(u)
    BY <1>3, <2>2 DEF IInv, Numbered, TellInv
  <3> QED BY <3>1 DEF ScriptTells, Told
 <2> QED BY <2>1, <2>2
<1>4. ASSUME NEW p \in Procs PROVE Tale(p)'
 <2>1. Run(p)' = Run(p) /\ Tale(p) BY DEF Run, TellInv
 <2>2. NoScript(p) => NoScript(p)' /\ Run(p) # s.id BY <2>1 DEF NoScript
 <2>3. pc[p] \in Early => Run(p) # s.id BY DEF IInv, Fresh
 <2> QED BY <2>1, <2>2, <2>3 DEF Tale, Told
<1> QED BY <1>2, <1>3, <1>4 DEF TellInv

LEMMA ScriptTellsTrue ==
  ASSUME IInv, TellInv, NEW s \in scripts, Dispatch(s) \/ Abort(s) \/ Deny(s)
  PROVE  TellInv'
<1>1. s \in Scripts BY DEF IInv, Shape
<1>2. \A a \in {"changed", "cancelled", "denied"} :
        Answer(s, a).id = s.id /\ Answer(s, a).phase = "answered" /\ Answer(s, a).answer = a
  BY <1>1 DEF Answer, Scripts, Answers, Refusals
<1>3. [s EXCEPT !.phase = "sent"].id = s.id /\ [s EXCEPT !.phase = "sent"].phase = "sent"
  BY <1>1 DEF Scripts
<1>4. s.phase = "ready" /\ UNCHANGED <<worker, done>> BY DEF Dispatch, Abort, Deny
<1>5. \/ sent' = sent /\ \E a \in {"changed", "cancelled", "denied"} : Replace(s, Answer(s, a))
      \/ sent' = sent \cup {s.id} /\ Replace(s, [s EXCEPT !.phase = "sent"])
  BY DEF Dispatch, Abort, Deny
<1> QED BY <1>2, <1>3, <1>4, <1>5, BridgeTells DEF Replace

\* Mail finishes an event, or quits.
LEMMA MailTells ==
  ASSUME IInv, TellInv, (\E e \in events : Execute(e)) \/ Quit
  PROVE  TellInv'
<1> USE DEF worker
<1> DEFINE Answering(ids, answer) ==
             /\ Answered(ids, answer) /\ UNCHANGED <<worker, sent>>
             /\ done \subseteq done'
             /\ \A d \in done' : d \in done \/ (d \in Ids /\ d.run <= runs[d.by])
             /\ answer = "ok" => ids \subseteq done'
<1>1. \E answer \in {"ok", "failed"} : \E ids : Answering(ids, answer)
 <2>1. ASSUME NEW e \in events, Execute(e) PROVE Answering({e.id}, "ok")
  <3>1. e.id \in Ids /\ e.id.run <= runs[e.id.by] BY DEF IInv, Shape, Events, Numbered
  <3> QED BY <2>1, <3>1 DEF Execute
 <2>2. ASSUME Quit PROVE Answering({e.id : e \in events}, "failed") BY <2>2 DEF Quit
 <2> QED BY <2>1, <2>2
<1>2. PICK answer \in {"ok", "failed"} : \E ids : Answering(ids, answer) BY <1>1
<1>3. PICK ids : Answering(ids, answer) BY <1>2
<1>4. Stamped' BY <1>3 DEF TellInv, Stamped
<1>5. ASSUME NEW u \in scripts'
      PROVE  \E s \in scripts : u = s \/ (/\ s.id \in ids /\ u.id = s.id
                                          /\ u.phase = "answered" /\ u.answer = answer)
 <2>1. PICK s \in scripts : u = IF s.id \in ids /\ s.phase = "sent" THEN Answer(s, answer) ELSE s
   BY <1>3 DEF Answered
 <2>2. Answer(s, answer).id = s.id /\ Answer(s, answer).phase = "answered"
       /\ Answer(s, answer).answer = answer BY DEF IInv, Shape, Scripts, Answer
 <2> QED BY <2>1, <2>2
<1>6. ASSUME NEW u \in scripts' PROVE ScriptTells(u)'
  BY <1>3, <1>5 DEF TellInv, ScriptTells, Told, Refusals
<1>7. ASSUME NEW p \in Procs PROVE Tale(p)'
 <2>1. Run(p)' = Run(p) /\ Tale(p) BY <1>3 DEF Run, TellInv
 <2>2. NoScript(p) => NoScript(p)' BY <1>5, <2>1 DEF NoScript
 <2> QED BY <1>3, <2>1, <2>2 DEF Tale, Told
<1> QED BY <1>4, <1>6, <1>7 DEF TellInv

\* Every step keeps the tales.
LEMMA NextTells == ASSUME IInv, TellInv, [Next]_vars PROVE TellInv'
<1>1. CASE UNCHANGED <<worker, bridge>>
  BY <1>1 DEF worker, bridge, TellInv, Stamped, ScriptTells, Tale, Told, NoScript, Run
<1>2. CASE Launch \/ UNCHANGED vars BY <1>1, <1>2 DEF Launch, vars
<1>3. ASSUME NEW p \in Procs, NEW op \in Operations, Begin(p, op) PROVE TellInv'
  BY <1>3, BeginTells
<1>4. CASE (\E s \in scripts : Dispatch(s) \/ Abort(s) \/ Deny(s)) BY <1>4, ScriptTellsTrue
<1>5. CASE (\E e \in events : Execute(e)) \/ Quit BY <1>5, MailTells
<1> QED
  BY <1>2, <1>3, <1>4, <1>5, EarlyTells, StartScriptTells, CollectTells, GiveUpTells,
     ClearTells, EndTells, ExpireTells
     DEF Next

\* What a command is told of its operation is so.
THEOREM ReportsTrue == Spec => []ReportTruthful
<1>1. Init => TellInv BY AnswersStart
<1>2. IInv /\ TellInv /\ [Next]_vars => TellInv' BY NextTells
<1>3. TellInv => ReportTruthful BY DEF TellInv, Tale, Told, ReportTruthful
<1> QED BY <1>1, <1>2, <1>3, GateInvariant, PTL DEF Spec

-------------------------------------------------------------------------------
(* Why the gate is shut.                                                    *)

\* What matters of the cause: another process that writes goes on writing.
LEMMA CauseKept ==
  ASSUME IInv, CauseInv, NEW p \in Procs,
         \A w \in Procs \ {p} : pc'[w] = pc[w] /\ job'[w] = job[w],
         record' = record, abandoned \subseteq abandoned',
         Writing(p) => Writing(p)' \/ Caused'
  PROVE  CauseInv'
<1>1. CASE Caused BY <1>1 DEF Caused, CauseInv
<1>2. CASE \E w \in Procs : Writing(w)
 <2>1. PICK w \in Procs : Writing(w) BY <1>2
 <2>2. CASE w = p BY <2>1, <2>2 DEF CauseInv
 <2>3. CASE w # p
  <3>1. Writing(w)' BY <2>1, <2>3 DEF Writing
  <3> QED BY <3>1 DEF CauseInv
 <2> QED BY <2>2, <2>3
<1> QED BY <1>1, <1>2 DEF CauseInv

\* While one holds the lock nobody else writes.
LEMMA WriterHolds ==
  ASSUME IInv, NEW p \in Procs, Writing(p)
  PROVE  lock = p
BY Facts DEF Writing

\* Steps that touch no record (Client.invoke, fileAccessGate.Acquire).
LEMMA PlainCause ==
  ASSUME IInv, CauseInv, NEW p \in Procs,
         \/ \E op \in Operations : Begin(p, op)
         \/ Unsafe(p) \/ TakeLock(p) \/ Busy(p) \/ Look(p) \/ Target(p) \/ StartScript(p)
         \/ Expire(p) \/ Unlock(p)
  PROVE  CauseInv'
<1> USE DEF Step, Finish, Fail, To, Update
<1>1. pc \in [Procs -> Stages] /\ job \in [Procs -> Jobs] BY DEF IInv, TypeOK, Stages, Jobs
<1>2. record' = record /\ abandoned' = abandoned
  BY DEF Begin, Unsafe, TakeLock, Busy, Look, Target, StartScript, Expire, Unlock
<1>3. \E step, j : (pc' = [pc EXCEPT ![p] = step] \/ pc' = pc) /\ job' = [job EXCEPT ![p] = j]
  BY DEF Begin, Unsafe, TakeLock, Busy, Look, Target, StartScript, Expire, Unlock
<1>4. \A w \in Procs \ {p} : pc'[w] = pc[w] /\ job'[w] = job[w] BY <1>1, <1>3
<1>5. Writing(p) => Writing(p)'
 <2>1. CASE StartScript(p)
  <3>1. pc'[p] \in {"wait", "clear"}
        /\ job'[p].touched = job[p].touched /\ job'[p].target = job[p].target
    BY <1>1, <2>1 DEF StartScript, Jobs
  <3> QED BY <1>2, <3>1 DEF Writing
 <2>2. CASE Expire(p)
  <3>1. pc'[p] = pc[p]
        /\ job'[p].touched = job[p].touched /\ job'[p].target = job[p].target
    BY <1>1, <2>2 DEF Expire, Jobs
  <3> QED BY <1>2, <3>1 DEF Writing
 <2>3. pc[p] \notin {"run", "wait", "clear"} \/ StartScript(p) \/ Expire(p)
   BY DEF Begin, Unsafe, TakeLock, Busy, Look, Target, Unlock
 <2> QED BY <2>1, <2>2, <2>3 DEF Writing
<1> QED BY <1>2, <1>4, <1>5, CauseKept

\* clearState may leave the record of another operation; the judge has the
\* lock, so nobody is writing one.
LEMMA JudgeCause ==
  ASSUME IInv, CauseInv, NEW p \in Procs, Judge(p)
  PROVE  CauseInv'
<1>1. \A w \in Procs : ~Writing(w) BY WriterHolds, Facts DEF Judge, Writing
<1>2. record' \in {0, record} /\ abandoned' = abandoned BY DEF Judge, Cleared
<1> QED BY <1>1, <1>2 DEF CauseInv, Caused, Torn

\* Who arms the record is writing it.
LEMMA ArmCause ==
  ASSUME IInv, NEW p \in Procs, Arm(p)
  PROVE  CauseInv'
<1> DEFINE j == [job[p] EXCEPT !.touched = TRUE]
           k == [j EXCEPT !.answer = "gate_failed"]
<1>1. pc \in [Procs -> Stages] /\ job \in [Procs -> Jobs] BY DEF IInv, TypeOK, Stages, Jobs
<1>2. j.touched /\ j.target = job[p].target /\ k.touched /\ k.target = job[p].target
  BY <1>1 DEF Jobs
<1>3. /\ record' \in {0, Torn, j.target}
      /\ Step(p, "run", j) \/ Step(p, "clear", k) BY DEF Arm
<1> HIDE DEF j, k
<1>4. pc'[p] \in {"run", "clear"} /\ job'[p] \in {j, k} BY <1>1, <1>3 DEF Step, To, Update
<1>5. Writing(p)' BY <1>2, <1>3, <1>4 DEF Writing
<1> QED BY <1>5 DEF CauseInv

\* Release(uncertain) leaves a record on purpose, and says so.
LEMMA LeaveCause ==
  ASSUME IInv, CauseInv, NEW p \in Procs, Collect(p) \/ GiveUp(p)
  PROVE  CauseInv'
<1>1. pc \in [Procs -> Stages] /\ job \in [Procs -> Jobs] BY DEF IInv, TypeOK, Stages, Jobs
<1>2. record' = record /\ \E completed \in BOOLEAN : \E answer : Leave(p, completed, answer)
  BY DEF Collect, GiveUp
<1>3. PICK completed \in BOOLEAN : \E answer : Leave(p, completed, answer) BY <1>2
<1>4. PICK answer : Leave(p, completed, answer) BY <1>3
<1> DEFINE j == [job[p] EXCEPT !.answer = answer]
<1>5. j.touched = job[p].touched /\ j.target = job[p].target BY <1>1 DEF Jobs
<1>6. Step(p, IF job[p].touched /\ ~Uncertain(p, completed) THEN "clear" ELSE "unlock", j)
      /\ abandoned' = IF Uncertain(p, completed) THEN abandoned \cup {job[p].target} ELSE abandoned
  BY <1>4 DEF Leave
<1> HIDE DEF j
<1>7. /\ \A w \in Procs \ {p} : pc'[w] = pc[w] /\ job'[w] = job[w]
      /\ job'[p] = j
      /\ pc'[p] = IF job[p].touched /\ ~Uncertain(p, completed) THEN "clear" ELSE "unlock"
  BY <1>1, <1>6 DEF Step, To, Update
<1>8. Writing(p) => Writing(p)' \/ Caused' BY <1>2, <1>5, <1>6, <1>7 DEF Writing, Caused
<1> QED BY <1>2, <1>6, <1>7, <1>8, CauseKept

\* A record that cannot be cleared is left for the Mail process in doubt.
LEMMA ClearCause ==
  ASSUME IInv, CauseInv, NEW p \in Procs, Clear(p)
  PROVE  CauseInv'
<1>1. pc \in [Procs -> Stages] /\ job \in [Procs -> Jobs] BY DEF IInv, TypeOK, Stages, Jobs
<1>2. \A w \in Procs : Writing(w) => w = p BY WriterHolds, Facts DEF Clear
<1>3. record' \in {0, record} /\ abandoned \subseteq abandoned'
      /\ (record' # 0 => job[p].target \in abandoned') BY DEF Clear, Cleared
<1>4. Caused' BY <1>2, <1>3 DEF Clear, CauseInv, Caused, Writing, Torn
<1> QED BY <1>4 DEF CauseInv

\* A killed process leaves its record, and the doubt.
LEMMA KillCause ==
  ASSUME IInv, CauseInv, NEW p \in Procs, Kill(p)
  PROVE  CauseInv'
<1>1. pc \in [Procs -> Stages] /\ job \in [Procs -> Jobs] BY DEF IInv, TypeOK, Stages, Jobs
<1>2. /\ record' = record
      /\ abandoned' = IF job[p].touched THEN abandoned \cup {job[p].target} ELSE abandoned
      /\ \A w \in Procs \ {p} : pc'[w] = pc[w] /\ job'[w] = job[w]
  BY <1>1 DEF Kill, Finish, To, Update
<1>3. Writing(p) => Caused' BY <1>2 DEF Writing, Caused
<1> QED BY <1>2, <1>3, CauseKept

\* Every step keeps the cause.
LEMMA NextCause == ASSUME IInv, CauseInv, [Next]_vars PROVE CauseInv'
<1>1. CASE UNCHANGED <<record, pc, job, abandoned>> BY <1>1 DEF CauseInv, Caused, Writing
<1>2. CASE \/ Launch \/ Quit \/ UNCHANGED vars
           \/ \E s \in scripts : Dispatch(s) \/ Abort(s) \/ Deny(s)
           \/ \E e \in events : Execute(e)
  BY <1>1, <1>2 DEF Launch, Quit, Dispatch, Abort, Deny, Execute, vars, worker
<1> QED BY <1>2, PlainCause, JudgeCause, ArmCause, LeaveCause, ClearCause, KillCause DEF Next

\* The gate stays shut only for a cause.
THEOREM ShutOnlyForCause == Spec => []ShutForCause
<1>1. Init => CauseInv BY AnswersStart
<1>2. IInv /\ CauseInv /\ [Next]_vars => CauseInv' BY NextCause
<1>3. IInv /\ CauseInv => ShutForCause
 <2> SUFFICES ASSUME IInv, CauseInv, lock = Nobody PROVE Caused
   BY DEF ShutForCause, Caused, Torn
 <2>1. \A p \in Procs : ~Writing(p) BY WriterHolds, GateAssumption DEF Nobody
 <2> QED BY <2>1 DEF CauseInv
<1> QED BY <1>1, <1>2, <1>3, GateInvariant, PTL DEF Spec

\* What a command is told is so, and the gate is shut only for a cause.
THEOREM AnswersAlwaysTrue == Spec => []AnswersTrue
<1>1. ReportTruthful /\ ShutForCause => AnswersTrue BY DEF AnswersTrue
<1> QED BY <1>1, ReportsTrue, ShutOnlyForCause, PTL

-------------------------------------------------------------------------------
(* messages new: the inductive invariant behind NewTrue, of the local      *)
(* mailbox Near and the server mailbox Far it is compared with.             *)

Near == Inbox[1]
Far == Inbox[2]

Fields == {"kind", "pc", "acct", "list", "whole", "counts", "wait", "got", "states",
    "extra", "failed", "complete", "match", "win", "v", "exists", "by", "state",
    "new", "truncated", "quiet", "err", "held", "ever", "torn"}
Opening == {"begin", "lookup", "missed", "listing", "waiting", "map", "select", "fetch"}
Selected == {"fetch", "member", "validity", "compare", "report"}

\* The check is a record, also of sync check, and the caches hold names of
\* mailboxes.
CheckShape ==
    /\ q = [f \in Fields |-> q[f]]
    /\ q.kind \in {"new", "sync"}
    /\ cat = [list |-> cat.list, age |-> cat.age]
    /\ flight = [by |-> flight.by, list |-> flight.list]
    /\ cat.list # None => cat.list \subseteq Wire
    /\ flight.list # None => flight.list \subseteq Wire

\* Server and store are tables of records.
TableShape ==
    /\ srv = [w \in Wire |-> srv[w]] /\ loc = [b \in Box |-> loc[b]]
    /\ srv[Far] = [on |-> srv[Far].on, v |-> srv[Far].v, next |-> srv[Far].next,
                   mail |-> srv[Far].mail]
    /\ loc[Near] = [v |-> loc[Near].v, rows |-> loc[Near].rows,
                    labels |-> loc[Near].labels, counted |-> loc[Near].counted]

\* A generation of the server's mailbox gives a UID to one message only, and
\* a message is there once.
ServerNumbers ==
    /\ srv[Far].on \in BOOLEAN /\ srv[Far].v \in Nat \ {0} /\ srv[Far].next \in Nat
    /\ Uids(Far) \subseteq Nat /\ IsFiniteSet(Uids(Far))
    /\ ~srv[Far].on => Uids(Far) = {}
    /\ \A u \in Uids(Far) : u < srv[Far].next
    /\ \A x, y \in Uids(Far) : srv[Far].mail[x] = srv[Far].mail[y] => x = y

\* UID and message name one another in row r and the mailbox or window msgs,
\* the message at least when Mail held it all the time, of which nothing is
\* noted before the check begins.
Agree(r, msgs) ==
    \A u \in DOMAIN msgs :
        /\ r.uid = u => r.m = msgs[u]
        /\ r.m = msgs[u] /\ (q.pc = "begin" \/ r.m \in q.held) => r.uid = u

\* Mail's rows are of the generation its mailbox names.
CopyNumbers ==
    /\ loc[Near].v \in Nat /\ loc[Near].v <= srv[Far].v
    /\ \A r \in loc[Near].rows : r.uid \in Nat
    /\ loc[Near].v = srv[Far].v =>
        \A r \in loc[Near].rows :
            /\ srv[Far].on => r.uid < srv[Far].next
            /\ Agree(r, srv[Far].mail)

\* What the check notes of the messages Mail held.
Noting ==
    /\ q.held \subseteq HeldIn(Near) /\ q.held \subseteq q.ever
    /\ q.pc \in (Opening \cup Selected) \ {"begin"} => HeldIn(Near) \subseteq q.ever
    /\ q.quiet => q.held = HeldIn(Near) /\ q.ever = HeldIn(Near)

\* The window is of the generation q.v, and agrees with the mailbox and with
\* Mail's rows of that generation.
WindowNumbers ==
    q.pc \in Selected =>
        /\ q.v \in Nat \ {0} /\ q.v <= srv[Far].v /\ DOMAIN q.win \subseteq Nat
        /\ srv[Far].v = q.v =>
            \A u \in DOMAIN q.win :
                /\ srv[Far].on => u < srv[Far].next
                /\ Agree([uid |-> u, m |-> q.win[u]], srv[Far].mail)
        /\ loc[Near].v = q.v => \A r \in loc[Near].rows : Agree(r, q.win)

\* How far the comparison is, and by which identity it compares.
Progress ==
    /\ q.pc \in Opening \cup Selected \cup {"sum", "done"}
    /\ q.pc \in Opening \cup {"member"} => q.state = "none"
    /\ q.pc \in {"map", "select", "fetch"} => q.list \subseteq Wire
    /\ q.pc \in {"select", "fetch"} => Resolve(q.list, Near) = Far
    /\ q.pc = "validity" => q.by \in {"uid", "headers"}
    /\ q.pc = "compare" => q.by = "headers" \/ (q.by = "uid" /\ (~q.torn => loc[Near].v = q.v))
    /\ q.pc \in {"validity", "compare"} /\ q.by = "uid" => loc[Near].labels = {}

Compared == q.pc \in {"report", "sum", "done"} /\ q.state = "checked"

\* What is new was not held all the time, and what is not new was held at some
\* time.
Verdict ==
    Compared /\ ~q.torn =>
        /\ q.new \subseteq DOMAIN q.win
        /\ \A u \in DOMAIN q.win :
            /\ u \in q.new /\ (q.by = "headers" => Header[q.win[u]] # NoHeader) =>
                    ~\E m \in q.held : Same(q.win[u], m)
            /\ u \notin q.new => \E m \in q.ever : Same(q.win[u], m)

\* While nothing changes the window is the newest of the mailbox.
Undisturbed ==
    q.quiet /\ (q.pc \in Selected \/ Compared) =>
        /\ q.exists = Cardinality(Uids(Far))
        /\ DOMAIN q.win = DOMAIN Newest(Far, Window)
        /\ \A u \in DOMAIN q.win : q.win[u] = srv[Far].mail[u]

\* What the answer says of its completeness.
CutNoted == Compared /\ q.pc # "report" => q.truncated = Cut

Comparison ==
    /\ TableShape /\ ServerNumbers /\ CopyNumbers /\ Noting
    /\ WindowNumbers /\ Progress /\ Verdict /\ Undisturbed /\ CutNoted

\* The inductive invariant.
NewInv == CheckShape /\ (q.kind = "new" => Comparison)

\* What a step of the check keeps: the notes, and the window.
KeepsNotes ==
    /\ q'.quiet = q.quiet /\ q'.held = q.held /\ q'.ever = q.ever /\ q'.torn = q.torn
KeepsWindow == q'.v = q.v /\ q'.win = q.win /\ q'.exists = q.exists

\* A step of the check behind its beginning.
Behind ==
    /\ UNCHANGED <<srv, loc>> /\ KeepsNotes /\ q.pc # "begin" /\ q'.pc # "begin"
    /\ q'.pc \in Opening \cup Selected => q.pc \in Opening \cup Selected

\* A change of the server or of Mail's store as the check notes it.
Disturbs ==
    /\ KeepsWindow /\ q'.pc = q.pc /\ q'.list = q.list /\ q'.by = q.by
    /\ q'.state = q.state /\ q'.new = q.new /\ q'.truncated = q.truncated
    /\ ~Loading /\ ~q'.quiet /\ (q.torn => q'.torn)
    /\ q'.held = q.held \cap HeldIn(Near)' /\ q'.ever = q.ever \cup HeldIn(Near)'

----------------------------------------------------------------------------
(* Facts about the definitions.                                             *)

\* The compared mailboxes are a local and a server mailbox.
LEMMA NearFar == Near \in Box /\ Far \in Wire
BY ServerCheckAssumption DEF ServerCheckAssumption, Near, Far

\* Resolving the local mailbox gives its server mailbox when it gives a name
\* (Client.compareMailbox goes on with names only).
LEMMA ResolvedIsFar ==
    ASSUME NEW boxes \in SUBSET Wire, Resolve(boxes, Near) \in Wire
    PROVE  Resolve(boxes, Near) = Far
BY InboxAssumption DEF InboxAssumption, Near, Far

\* Numbering a mailbox anew keeps its messages apart (the renumbered mailbox
\* holds the same messages, as many as it has places).
LEMMA RenumberedApart ==
    ASSUME ServerNumbers, NEW p \in [1..Cardinality(Uids(Far)) -> Live(Far)],
           {p[i] : i \in DOMAIN p} = Live(Far)
    PROVE  /\ Cardinality(Uids(Far)) \in Nat
           /\ DOMAIN p = 1..Cardinality(Uids(Far)) /\ Len(p) = Cardinality(Uids(Far))
           /\ IsFiniteSet(DOMAIN p)
           /\ \A x, y \in DOMAIN p : p[x] = p[y] => x = y
<1> DEFINE n == Cardinality(Uids(Far))
           msgs == [u \in Uids(Far) |-> srv[Far].mail[u]]
<1>1. n \in Nat /\ IsFiniteSet(Uids(Far)) BY FS_CardinalityType DEF ServerNumbers
<1>2. msgs \in Surjection(Uids(Far), Live(Far)) /\ msgs \in Injection(Uids(Far), Live(Far))
 <2>1. msgs \in [Uids(Far) -> Live(Far)] /\ \A x \in Uids(Far) : msgs[x] = srv[Far].mail[x]
   BY DEF Live
 <2>2. \A t \in Live(Far) : \E x \in Uids(Far) : msgs[x] = t BY <2>1 DEF Live
 <2>3. \A x, y \in Uids(Far) : msgs[x] = msgs[y] => x = y BY <2>1 DEF ServerNumbers
 <2> QED BY ONLY <2>1, <2>2, <2>3 DEF Surjection, Injection, IsInjective
<1>3. Cardinality(Live(Far)) = n BY <1>1, <1>2, FS_Surjection
<1>4. IsFiniteSet(1..n) /\ Cardinality(1..n) = n BY <1>1, FS_Interval
<1>5. p \in Surjection(1..n, Live(Far)) BY DEF Surjection
<1>6. p \in Injection(1..n, Live(Far)) BY <1>3, <1>4, <1>5, FS_SurjSameCardinalityImpliesInj
<1>7. Len(p) = n BY <1>1
<1> QED BY <1>1, <1>4, <1>6, <1>7 DEF Injection, IsInjective

\* The check starts as a record, with nothing in the catalogue cache.
LEMMA ShapeFirst ==
    CheckInit => CheckShape
<1> SUFFICES ASSUME CheckInit PROVE CheckShape OBVIOUS
<1>1. PICK k \in {"sync", "new"}, a \in Accounts :
        q = [NoCheck EXCEPT !.kind = k, !.acct = a, !.pc = "begin"] BY DEF CheckInit
<1>2. q = [f \in Fields |-> q[f]] /\ q.kind = k BY ZenonT(60), <1>1 DEF NoCheck, Fields
<1> QED BY <1>2 DEF CheckInit, CheckShape

\* A step assigns some fields of the check and keeps it a record, and the
\* caches hold what the server listed.
LEMMA ShapeStep ==
    ASSUME CheckShape, [CheckNext]_checkVars
    PROVE  CheckShape' /\ q'.kind = q.kind
<1> DEFINE Caches ==
      /\ cat = [list |-> cat.list, age |-> cat.age]
      /\ flight = [by |-> flight.by, list |-> flight.list]
      /\ cat.list # None => cat.list \subseteq Wire
      /\ flight.list # None => flight.list \subseteq Wire
      Record == q' = [f \in Fields |-> q'[f]] /\ q'.kind = q.kind
<1>1. Caches'
 <2>1. CASE UNCHANGED <<cat, flight>> BY <2>1 DEF CheckShape
 <2>2. ASSUME NEW p \in Caller, Lookup(p) \/ Join(p) PROVE Caches'
  <3>1. CASE Lookup(p)
   <4>1. UNCHANGED flight
        /\ (UNCHANGED cat \/ cat' = [list |-> None, age |-> 0]) BY <3>1 DEF Lookup
   <4> QED BY <4>1 DEF CheckShape
  <3>2. CASE Join(p)
   <4>1. UNCHANGED cat
        /\ (UNCHANGED flight \/ flight' = [by |-> p, list |-> None]) BY <3>2 DEF Join
   <4> QED BY <4>1 DEF CheckShape
  <3> QED BY <2>2, <3>1, <3>2
 <2>3. CASE ListAnswers \/ ListStored \/ ListFails
  <3>1. CASE ListAnswers BY <3>1 DEF CheckShape, ListAnswers, Listed
  <3>2. CASE ListStored BY <3>2 DEF CheckShape, ListStored
  <3>3. CASE ListFails BY <3>3 DEF CheckShape, ListFails
  <3> QED BY <2>3, <3>1, <3>2, <3>3
 <2>4. CASE Tick BY <2>4 DEF CheckShape, Tick
 <2> QED
   BY <2>1, <2>2, <2>3, <2>4 DEF CheckNext, CheckStep, checkVars, BeginCheck, MakePlan,
      Merge, Sum, StatusAnswers, StatusFails, MapPath, SelectRecent, FetchRecent,
      Membership, ReadValidity, Compare, Report, CompareFails, CancelNew, RowStarts,
      Receive, ExpungeMail, Renumber, Toggle, Pull, Resync
<1>2. Record
 <2> USE DEF CheckShape, Fields
 <2>1. CASE UNCHANGED q BY <2>1
 <2>2. ASSUME NEW p \in Caller, Lookup(p) \/ Join(p) PROVE Record
  <3>1. CASE Lookup(p) /\ CacheHit
   <4>1. UNCHANGED q \/ q' = CatalogArrives(cat.list, TRUE) BY <3>1 DEF Lookup, Arrive
   <4> QED BY ZenonT(60), <4>1 DEF CatalogArrives
  <3>2. CASE Lookup(p) /\ ~CacheHit BY <3>2 DEF Lookup, Goes
  <3>3. CASE Join(p) BY <3>3 DEF Join, Goes
  <3> QED BY <2>2, <3>1, <3>2, <3>3
 <2>3. CASE ListAnswers \/ ListStored \/ ListFails
   BY ZenonT(60), <2>3 DEF ListAnswers, ListStored, ListFails, Arrive, CatalogArrives
 <2>4. CASE BeginCheck BY ZenonT(60), <2>4 DEF BeginCheck
 <2>5. CASE MakePlan \/ Merge \/ Sum BY ZenonT(60), <2>5 DEF MakePlan, Merge, Sum, FinishCheck
 <2>6. ASSUME NEW k \in 1..Workers, StatusAnswers(k) \/ StatusFails(k) PROVE Record
   BY <2>6 DEF StatusAnswers, StatusFails
 <2>7. CASE MapPath \/ SelectRecent \/ FetchRecent
   BY ZenonT(60), <2>7 DEF MapPath, SelectRecent, FetchRecent
 <2>8. CASE Membership \/ ReadValidity BY ZenonT(60), <2>8 DEF Membership, ReadValidity
 <2>9. CASE Compare \/ Report \/ CompareFails \/ CancelNew
   BY ZenonT(60), <2>9 DEF Compare, Report, CompareFails, CancelNew
 <2>10. ASSUME NEW w \in Wire, Receive(w) \/ ExpungeMail(w) \/ Renumber(w) \/ Toggle(w)
        PROVE  Record BY <2>10 DEF Receive, ExpungeMail, Renumber, Toggle, Noted
 <2>11. ASSUME NEW b \in Box, NEW w \in Wire, Pull(b, w) \/ Resync(b, w) PROVE Record
   BY <2>11 DEF Pull, Resync, Noted
 <2> QED
   BY <2>1, <2>2, <2>3, <2>4, <2>5, <2>6, <2>7, <2>8, <2>9, <2>10, <2>11
      DEF CheckNext, CheckStep, checkVars, RowStarts, Tick
<1> QED BY <1>1, <1>2 DEF CheckShape

\* The tables and the notes are kept by a step of the check.
LEMMA TablesKept ==
    ASSUME Comparison, Behind
    PROVE  TableShape' /\ ServerNumbers' /\ CopyNumbers' /\ Noting'
<1> USE DEF Comparison, Behind, KeepsNotes
<1>1. TableShape' /\ ServerNumbers' BY DEF TableShape, ServerNumbers, Uids
<1>2. CopyNumbers' BY DEF CopyNumbers, Agree
<1>3. Noting' BY DEF Noting, HeldIn
<1> QED BY <1>1, <1>2, <1>3

\* The window is kept by a step of the check that does not assign it.
LEMMA WindowKept ==
    ASSUME Comparison, Behind, KeepsWindow, q'.pc \in Selected => q.pc \in Selected,
           Compared' => q.pc \in Selected \/ Compared
    PROVE  WindowNumbers' /\ Undisturbed'
<1> USE DEF Comparison, Behind, KeepsNotes, KeepsWindow
<1>1. WindowNumbers' BY DEF WindowNumbers, Agree
<1>2. Undisturbed' BY DEF Undisturbed, Newest, Uids
<1> QED BY <1>1, <1>2

\* What the catalogue does to the check: it waits, it has its mailboxes, or
\* the failure is recorded (Client.getOrLoadMailboxes, Client.NewMessages).
Catalog ==
    \/ UNCHANGED q
    \/ /\ q.pc \in {"lookup", "missed", "listing", "waiting"}
       /\ \/ \E p \in {"missed", "listing", "waiting"} : q' = [q EXCEPT !.pc = p]
          \/ \E boxes \in SUBSET Wire : q' = [q EXCEPT !.list = boxes, !.pc = "map"]
          \/ q' = [q EXCEPT !.failed = TRUE, !.err = TRUE, !.pc = "sum"]

\* The steps around the catalogue do no more than that.
LEMMA CatalogSteps ==
    ASSUME CheckShape, q.kind = "new",
           \/ RowStarts \/ Tick \/ ListAnswers \/ ListStored \/ ListFails
           \/ \E p \in Caller : Lookup(p) \/ Join(p)
    PROVE  UNCHANGED <<srv, loc>> /\ Catalog
<1>1. CASE RowStarts \/ Tick \/ ListAnswers
  BY <1>1 DEF RowStarts, Tick, ListAnswers, World, Catalog
<1>2. ASSUME NEW boxes, NEW ok, NEW who,
             Arrive(boxes, ok, who), ok => boxes \subseteq Wire,
             "main" \in who => q.pc \in {"lookup", "missed", "listing", "waiting"}
      PROVE  Catalog BY <1>2 DEF Arrive, CatalogArrives, Catalog
<1>3. CASE ListStored \/ ListFails
 <2>1. "main" \in Waiting => q.pc \in {"listing", "waiting"} BY DEF Waiting, At
 <2>2. CASE ListStored BY <1>2, <2>1, <2>2 DEF ListStored, World, CheckShape
 <2>3. CASE ListFails BY <1>2, <2>1, <2>3 DEF ListFails, World
 <2> QED BY <1>3, <2>2, <2>3
<1>4. ASSUME NEW p \in Caller, Lookup(p) \/ Join(p)
      PROVE  UNCHANGED <<srv, loc>> /\ Catalog
 <2>1. CASE Lookup(p) /\ CacheHit BY <1>2, <2>1 DEF Lookup, World, CheckShape, CacheHit, At
 <2>2. CASE Lookup(p) /\ ~CacheHit BY <2>2 DEF Lookup, World, Goes, At, Catalog
 <2>3. CASE Join(p) BY <2>3 DEF Join, World, Goes, At, Catalog
 <2> QED BY <1>4, <2>1, <2>2, <2>3
<1> QED BY <1>1, <1>3, <1>4

\* Nothing of the comparison has begun while the catalogue is awaited.
LEMMA CatalogKeeps ==
    ASSUME CheckShape, q.kind = "new", Comparison, UNCHANGED <<srv, loc>>, Catalog
    PROVE  Comparison'
<1>1. CASE UNCHANGED q
 <2>1. TableShape' /\ ServerNumbers' /\ Noting' /\ Progress'
   BY ZenonT(60), <1>1 DEF Comparison, TableShape, ServerNumbers, Noting, Progress, Uids, HeldIn
 <2>2. CopyNumbers' /\ WindowNumbers'
   BY <1>1 DEF Comparison, CopyNumbers, WindowNumbers, Agree
 <2>3. Verdict' /\ Undisturbed' /\ CutNoted'
   BY ZenonT(60), <1>1 DEF Comparison, Verdict, Undisturbed, CutNoted, Compared, Same, Newest, Uids, Cut
 <2> QED BY <2>1, <2>2, <2>3 DEF Comparison
<1>2. CASE ~UNCHANGED q
 <2>1. /\ q.pc \in {"lookup", "missed", "listing", "waiting"}
       /\ q'.pc \in {"missed", "listing", "waiting", "map", "sum"}
       /\ KeepsNotes /\ KeepsWindow /\ q'.state = q.state
       /\ q'.pc = "map" => q'.list \subseteq Wire
   BY ZenonT(60), <1>2 DEF Catalog, CheckShape, Fields, KeepsNotes, KeepsWindow
 <2>2. q'.state = "none" /\ Progress' BY <2>1 DEF Comparison, Progress, Opening, Selected
 <2>3. Behind /\ ~Compared' /\ q'.pc \notin Selected
   BY <2>1, <2>2 DEF Behind, Compared, Opening, Selected
 <2>4. Verdict' /\ CutNoted' BY <2>3 DEF Verdict, CutNoted
 <2> QED BY <2>2, <2>3, <2>4, <2>1, TablesKept, WindowKept DEF Comparison
<1> QED BY <1>1, <1>2

\* The check begins: what Mail holds now is what it held all the time.
LEMMA BeginKeeps ==
    ASSUME CheckShape, q.kind = "new", Comparison, BeginCheck
    PROVE  Comparison'
<1> USE DEF Comparison
<1>1. /\ UNCHANGED <<srv, loc>> /\ q.pc = "begin" /\ q.state = "none"
      /\ q'.state = "none" /\ q'.pc \in {"sum", "lookup"}
      /\ q'.pc = "lookup" => q'.held = HeldIn(Near) /\ q'.ever = HeldIn(Near)
      /\ q'.pc = "sum" => KeepsNotes
  BY DEF BeginCheck, World, CheckShape, Fields, KeepsNotes, Near, Progress, Opening
<1>2. HeldIn(Near)' = HeldIn(Near) BY <1>1 DEF HeldIn
<1>3. TableShape' /\ ServerNumbers' BY <1>1 DEF TableShape, ServerNumbers, Uids
<1>4. CopyNumbers' BY <1>1 DEF CopyNumbers, Agree, KeepsNotes
<1>5. Noting' BY <1>1, <1>2 DEF Noting, KeepsNotes, Opening, Selected
<1>6. Progress' /\ ~Compared' /\ q'.pc \notin Selected
  BY <1>1 DEF Progress, Compared, Opening, Selected
<1>7. WindowNumbers' /\ Verdict' /\ Undisturbed' /\ CutNoted'
  BY <1>6 DEF WindowNumbers, Verdict, Undisturbed, CutNoted
<1> QED BY <1>3, <1>4, <1>5, <1>6, <1>7

\* A step that leaves the comparison without an answer, with a failure of the
\* mailbox or of the discovery.
LEMMA GivingUp ==
    ASSUME Comparison, Behind, KeepsWindow, q'.pc \in {"sum", "done"},
           q'.state # "checked"
    PROVE  Comparison'
<1>1. ~Compared' /\ q'.pc \notin Selected BY DEF Compared, Selected
<1>2. Progress' BY DEF Progress, Opening, Selected
<1>3. Verdict' /\ CutNoted' BY <1>1 DEF Verdict, CutNoted
<1> QED BY <1>1, <1>2, <1>3, TablesKept, WindowKept DEF Comparison

\* A failure and a cancellation are such steps.
LEMMA FailingKeeps ==
    ASSUME CheckShape, q.kind = "new", Comparison, CompareFails \/ CancelNew
    PROVE  Comparison'
<1>1. /\ UNCHANGED <<srv, loc>> /\ KeepsNotes /\ KeepsWindow
      /\ q'.pc \in {"sum", "done"} /\ q'.state = "none" /\ q.pc # "begin"
 <2>1. CASE CompareFails
   BY <2>1 DEF CompareFails, World, CheckShape, Fields, KeepsNotes, KeepsWindow
 <2>2. CASE CancelNew
   BY <2>2 DEF CancelNew, World, CheckShape, Fields, KeepsNotes, KeepsWindow
 <2> QED BY <2>1, <2>2
<1>2. Behind BY <1>1 DEF Behind, Opening, Selected
<1> QED BY <1>1, <1>2, GivingUp

\* The wire name is found.
LEMMA MapKeeps ==
    ASSUME CheckShape, q.kind = "new", Comparison, MapPath
    PROVE  Comparison'
<1>1. /\ Behind /\ KeepsWindow /\ q'.state = "none" /\ q.list \subseteq Wire
      /\ q'.list = q.list /\ q'.pc \in {"select", "sum"}
      /\ q'.pc = "select" => Resolve(q.list, Near) \in Wire
  BY DEF MapPath, Is, World, CheckShape, Fields, KeepsNotes, KeepsWindow, Behind,
     Opening, Selected, Comparison, Progress, Near
<1>2. CASE q'.pc = "sum" BY <1>1, <1>2, GivingUp
<1>3. CASE q'.pc = "select"
 <2>1. Resolve(q'.list, Near) = Far BY <1>1, <1>3, ResolvedIsFar
 <2>2. Progress' BY <1>1, <1>3, <2>1 DEF Progress, Opening, Selected, Resolve
 <2>3. ~Compared' /\ q'.pc \notin Selected BY <1>3 DEF Compared, Selected
 <2>4. Verdict' /\ CutNoted' BY <2>3 DEF Verdict, CutNoted
 <2> QED BY <1>1, <2>2, <2>3, <2>4, TablesKept, WindowKept DEF Comparison
<1> QED BY <1>1, <1>2, <1>3

\* SELECT: the window is a part of the mailbox as it is.
LEMMA SelectKeeps ==
    ASSUME CheckShape, q.kind = "new", Comparison, SelectRecent
    PROVE  Comparison'
<1>1. /\ Behind /\ q'.state = "none" /\ q.list \subseteq Wire /\ q'.list = q.list
      /\ Resolve(q.list, Near) = Far
  BY DEF SelectRecent, Is, World, CheckShape, Fields, KeepsNotes, Behind,
     Opening, Selected, Comparison, Progress, Near
<1>2. CASE ~srv[Far].on
 <2>1. q'.pc = "sum" /\ KeepsWindow
   BY <1>1, <1>2 DEF SelectRecent, CheckShape, Fields, KeepsWindow, Near
 <2> QED BY <1>1, <2>1, GivingUp
<1>3. CASE srv[Far].on
 <2>1. /\ q'.v = srv[Far].v /\ q'.exists = Cardinality(Uids(Far))
       /\ q'.win = Newest(Far, Window) /\ q'.pc \in {"fetch", "member"}
   BY <1>1, <1>3 DEF SelectRecent, CheckShape, Fields, Near
 <2>2. /\ DOMAIN q'.win \subseteq Uids(Far)
       /\ \A u \in DOMAIN q'.win : q'.win[u] = srv[Far].mail[u] BY <2>1 DEF Newest
 <2>3. WindowNumbers'
  <3>1. q'.v \in Nat \ {0} /\ q'.v <= srv'[Far].v /\ DOMAIN q'.win \subseteq Nat
    BY <1>1, <2>1, <2>2 DEF Comparison, ServerNumbers, Behind
  <3>2. \A u \in DOMAIN q'.win :
          /\ srv[Far].on => u < srv[Far].next
          /\ \A x \in Uids(Far) :
              /\ u = x => q'.win[u] = srv[Far].mail[x]
              /\ q'.win[u] = srv[Far].mail[x] => u = x BY <2>2 DEF Comparison, ServerNumbers
  <3>3. loc[Near].v = q'.v => \A r \in loc[Near].rows, u \in DOMAIN q'.win :
              /\ r.uid = u => r.m = q'.win[u]
              /\ r.m = q'.win[u] /\ r.m \in q.held => r.uid = u
    BY <2>1, <2>2 DEF Comparison, CopyNumbers, Agree, Uids
  <3> QED BY <1>1, <3>1, <3>2, <3>3 DEF WindowNumbers, Agree, Behind, KeepsNotes, Uids
 <2>4. Undisturbed' BY <1>1, <2>1, <2>2 DEF Undisturbed, Behind, Newest, Uids
 <2>5. Progress' /\ ~Compared'
   BY <1>1, <2>1 DEF Progress, Opening, Selected, Resolve, Compared
 <2>6. Verdict' /\ CutNoted' BY <2>5 DEF Verdict, CutNoted
 <2> QED BY <1>1, <2>3, <2>4, <2>5, <2>6, TablesKept DEF Comparison
<1> QED BY <1>2, <1>3

\* FETCH: all of the window is still there, or the mailbox has failed.
LEMMA FetchKeeps ==
    ASSUME CheckShape, q.kind = "new", Comparison, FetchRecent
    PROVE  Comparison'
<1>1. /\ Behind /\ q.pc = "fetch" /\ q.state = "none" /\ q'.state = "none"
      /\ Resolve(q.list, Near) = Far /\ q'.pc \in {"sum", "member"}
  BY DEF FetchRecent, Is, World, CheckShape, Fields, KeepsNotes, Behind,
     Opening, Selected, Comparison, Progress, Near
<1>2. q'.pc = "sum" => KeepsWindow BY DEF FetchRecent, CheckShape, Fields, KeepsWindow
<1>3. q'.pc = "member" =>
        /\ q'.v = q.v /\ q'.exists = q.exists /\ DOMAIN q'.win = DOMAIN q.win
        /\ \A u \in DOMAIN q.win : q'.win[u] = q.win[u]
  BY <1>1 DEF FetchRecent, WindowCovered, CheckShape, Fields, Near
<1>4. CASE q'.pc = "sum" BY <1>1, <1>2, <1>4, GivingUp
<1>5. CASE q'.pc = "member"
 <2>1. WindowNumbers'
   BY <1>1, <1>3, <1>5 DEF Comparison, WindowNumbers, Agree, Selected, Behind, KeepsNotes
 <2>2. Undisturbed'
   BY <1>1, <1>3, <1>5 DEF Comparison, Undisturbed, Selected, Behind, KeepsNotes, Newest, Uids
 <2>3. Progress' /\ ~Compared' BY <1>1, <1>5 DEF Progress, Opening, Selected, Compared
 <2>4. Verdict' /\ CutNoted' BY <2>3 DEF Verdict, CutNoted
 <2> QED BY <1>1, <2>1, <2>2, <2>3, <2>4, TablesKept DEF Comparison
<1> QED BY <1>1, <1>4, <1>5

\* The kind of comparison: without a local copy everything is new.
LEMMA MembershipKeeps ==
    ASSUME CheckShape, q.kind = "new", Comparison, Membership
    PROVE  Comparison'
<1> DEFINE l == loc[Near]
<1>1. /\ Behind /\ KeepsWindow /\ q.pc = "member" /\ q'.state = "checked"
      /\ q'.by = IF l.rows = {} /\ l.labels = {} THEN "none"
                 ELSE IF l.labels # {} THEN "headers" ELSE "uid"
      /\ q'.pc = IF l.rows # {} THEN "validity"
                 ELSE IF l.labels # {} THEN "compare" ELSE "report"
      /\ q'.new = IF l.rows = {} /\ l.labels = {} THEN DOMAIN q.win ELSE {}
  BY DEF Membership, Is, World, CheckShape, Fields, KeepsNotes, KeepsWindow, Behind,
     Opening, Selected, Near
<1>2. Progress' BY <1>1 DEF Progress, Opening, Selected, Behind
<1>3. CutNoted' BY <1>1 DEF CutNoted, Compared
<1>4. Verdict'
 <2>1. q'.pc = "report" => l.rows = {} /\ l.labels = {} BY <1>1
 <2>2. q'.pc = "report" => q'.held = {}
   BY <1>1, <2>1 DEF Comparison, Noting, HeldIn, Behind, KeepsNotes
 <2> QED BY <1>1, <2>2 DEF Verdict, Compared, KeepsWindow
<1> QED BY <1>1, <1>2, <1>3, <1>4, TablesKept, WindowKept DEF Comparison, Selected, Compared

\* The generation of the copy is read: only the window's own is compared.
LEMMA ValidityKeeps ==
    ASSUME CheckShape, q.kind = "new", Comparison, ReadValidity
    PROVE  Comparison'
<1>1. /\ Behind /\ KeepsWindow /\ q.pc = "validity" /\ q'.by = q.by
      /\ q'.state = Generation(loc[Near].v)
      /\ q'.pc = IF q'.state = "checked" THEN "compare" ELSE "sum"
  BY DEF ReadValidity, Is, World, CheckShape, Fields, KeepsNotes, KeepsWindow, Behind,
     Opening, Selected, Near
<1>2. CASE q'.state # "checked" BY <1>1, <1>2, GivingUp
<1>3. CASE q'.state = "checked"
 <2>1. loc[Near].v = q.v BY <1>1, <1>3 DEF Generation
 <2>2. Progress'
   BY <1>1, <1>3, <2>1 DEF Comparison, Progress, Opening, Selected, Behind, KeepsWindow
 <2>3. ~Compared' /\ q'.pc \in Selected /\ q.pc \in Selected
   BY <1>1, <1>3 DEF Compared, Selected
 <2>4. Verdict' /\ CutNoted' BY <2>3 DEF Verdict, CutNoted
 <2> QED BY <1>1, <2>2, <2>3, <2>4, TablesKept, WindowKept DEF Comparison
<1> QED BY <1>2, <1>3

\* The comparison: by UID within one generation, or by the headers.
LEMMA CompareKeeps ==
    ASSUME CheckShape, q.kind = "new", Comparison, Compare
    PROVE  Comparison'
<1> DEFINE l == loc[Near]
           known(u) == IF q.by = "headers"
                       THEN \E x \in Candidates(l, q.win[u]) : RfcId[x] = RfcId[q.win[u]]
                       ELSE \E r \in l.rows : r.uid = u
<1>1. /\ Behind /\ KeepsWindow /\ q.pc = "compare" /\ q'.by = q.by
      /\ q'.pc \in {"sum", "report"}
      /\ q'.pc = "sum" => q'.state = "none"
      /\ q'.pc = "report" => q'.new = {u \in DOMAIN q.win : ~known(u)}
  BY DEF Compare, MissingByHeader, MissingByUid, Is, World, CheckShape, Fields,
     KeepsNotes, KeepsWindow, Behind, Opening, Selected, Near
<1>2. CASE q'.pc = "sum" BY <1>1, <1>2, GivingUp
<1>3. CASE q'.pc = "report"
 <2>1. Progress' BY <1>3 DEF Progress, Opening, Selected
 <2>2. CutNoted' BY <1>3 DEF CutNoted, Compared
 <2>3. q.by = "headers" \/ (q.by = "uid" /\ l.labels = {} /\ (~q.torn => l.v = q.v))
   BY <1>1 DEF Comparison, Progress
 <2>4. q.held \subseteq HeldIn(Near) /\ HeldIn(Near) \subseteq q.ever
   BY <1>1 DEF Comparison, Noting, Opening, Selected
 <2>5. ASSUME NEW u \in DOMAIN q.win, ~q.torn, ~known(u),
              q.by = "headers" => Header[q.win[u]] # NoHeader,
              NEW m \in q.held, Same(q.win[u], m)
       PROVE  FALSE
  <3>1. m \in HeldIn(Near) BY <2>4
  <3>2. CASE q.by = "headers"
   <4>1. Header[m] = Header[q.win[u]] /\ RfcId[m] = RfcId[q.win[u]] BY <2>5 DEF Same
   <4>2. m \in Candidates(l, q.win[u]) BY <2>5, <3>1, <3>2, <4>1 DEF Candidates, HeldIn
   <4> QED BY <2>5, <3>2, <4>1, <4>2
  <3>3. CASE q.by = "uid"
   <4>1. m = q.win[u] BY <2>5, <3>3 DEF Same
   <4>2. PICK r \in l.rows : r.m = m BY <2>3, <3>1, <3>3 DEF HeldIn
   <4>3. r.uid = u
     BY <1>1, <2>3, <2>5, <3>3, <4>1, <4>2 DEF Comparison, WindowNumbers, Agree, Selected
   <4> QED BY <2>5, <3>3, <4>3
  <3> QED BY <2>3, <3>2, <3>3
 <2>6. ASSUME NEW u \in DOMAIN q.win, ~q.torn, known(u)
       PROVE  \E m \in q.ever : Same(q.win[u], m)
  <3>1. CASE q.by = "headers"
   <4>1. PICK x \in Candidates(l, q.win[u]) : RfcId[x] = RfcId[q.win[u]] BY <2>6, <3>1
   <4>2. x \in HeldIn(Near) /\ Header[x] = Header[q.win[u]] BY <4>1 DEF Candidates, HeldIn
   <4> QED BY <2>4, <3>1, <4>1, <4>2 DEF Same
  <3>2. CASE q.by = "uid"
   <4>1. PICK r \in l.rows : r.uid = u BY <2>6, <3>2
   <4>2. r.m = q.win[u]
     BY <1>1, <2>3, <2>6, <3>2, <4>1 DEF Comparison, WindowNumbers, Agree, Selected
   <4>3. r.m \in HeldIn(Near) BY <4>1 DEF HeldIn
   <4> QED BY <2>4, <4>2, <4>3 DEF Same
  <3> QED BY <2>3, <3>1, <3>2
 <2>7. Verdict'
  <3>1. /\ q'.win = q.win /\ q'.torn = q.torn /\ q'.held = q.held /\ q'.ever = q.ever
        /\ \A m, n : Same(m, n)' <=> Same(m, n)
    BY <1>1 DEF Behind, KeepsNotes, KeepsWindow, Same
  <3>2. q'.new = {u \in DOMAIN q.win : ~known(u)} /\ q'.by = q.by BY <1>1, <1>3
  <3> HIDE DEF known
  <3> QED BY <2>5, <2>6, <3>1, <3>2 DEF Verdict
 <2>8. q'.pc \notin Selected \/ q.pc \in Selected BY <1>1 DEF Selected
 <2> QED BY <1>1, <2>1, <2>2, <2>7, <2>8, TablesKept, WindowKept DEF Comparison, Selected
<1> QED BY <1>1, <1>2, <1>3

\* The answer is made, and the discovery ends.
LEMMA AnswerKeeps ==
    ASSUME CheckShape, q.kind = "new", Comparison, Report \/ Sum
    PROVE  Comparison'
<1>1. /\ Behind /\ KeepsWindow /\ q'.by = q.by /\ q'.new = q.new /\ q'.state = q.state
      /\ q.pc \in {"report", "sum"} /\ q'.pc \in {"sum", "done"}
      /\ q.pc = "report" => q'.truncated = Cut
      /\ q.pc = "sum" => q'.truncated = q.truncated
  BY ZenonT(60) DEF Report, Sum, FinishCheck, Is, World, CheckShape, Fields, KeepsNotes,
     KeepsWindow, Behind, Opening, Selected
<1>2. Progress' /\ q'.pc \notin Selected BY <1>1 DEF Progress, Opening, Selected
<1>3. Cut' <=> Cut BY <1>1 DEF Cut, KeepsWindow
<1>4. Compared' => Compared BY <1>1 DEF Compared
<1>5. CutNoted' BY <1>1, <1>3, <1>4 DEF Comparison, CutNoted, Compared
<1>6. Verdict' BY <1>1, <1>4 DEF Comparison, Verdict, Behind, KeepsNotes, KeepsWindow, Same
<1> QED BY <1>1, <1>2, <1>4, <1>5, <1>6, TablesKept, WindowKept DEF Comparison

\* The notes and the answer survive a change: held only shrinks, ever grows.
LEMMA AnswerSurvives ==
    ASSUME Comparison, Disturbs
    PROVE  /\ Noting' /\ Verdict' /\ Undisturbed' /\ CutNoted'
           /\ q.pc # "begin" /\ q'.pc # "begin"
<1> USE DEF Disturbs, KeepsWindow
<1>1. Noting' /\ Undisturbed' BY DEF Noting, Undisturbed
<1>2. \A m, n : Same(m, n)' <=> Same(m, n) BY DEF Same
<1>3. Compared' <=> Compared BY DEF Compared
<1>4. Verdict' BY <1>2, <1>3 DEF Comparison, Verdict
<1>5. (Cut' <=> Cut) /\ CutNoted' BY <1>3 DEF Comparison, CutNoted, Cut
<1> QED BY <1>1, <1>4, <1>5 DEF Loading

\* A change of the server's mailbox keeps the comparison when the mailbox
\* keeps its numbers, and a generation its messages.
LEMMA ServerChange ==
    ASSUME Comparison, Disturbs, UNCHANGED loc, TableShape', ServerNumbers',
           \/ srv'[Far].v > srv[Far].v
           \/ /\ srv'[Far].v = srv[Far].v /\ (srv'[Far].on => srv[Far].on)
              /\ srv'[Far].on => srv'[Far].next >= srv[Far].next
              /\ \A u \in Uids(Far)' :
                    \/ u \in Uids(Far) /\ srv'[Far].mail[u] = srv[Far].mail[u]
                    \/ /\ srv[Far].on /\ u >= srv[Far].next
                       /\ srv'[Far].mail[u] \notin q.ever
    PROVE  Comparison'
<1>1. q'.held = q.held /\ q.held \subseteq q.ever /\ q.pc # "begin" /\ q'.pc # "begin"
  BY AnswerSurvives DEF Comparison, Noting, HeldIn, Disturbs
<1>2. srv[Far].next \in Nat /\ srv'[Far].next \in Nat /\ srv[Far].v \in Nat /\ srv'[Far].v \in Nat
  BY DEF Comparison, ServerNumbers
<1>3. ASSUME NEW u \in Nat, NEW m, srv[Far].on => u < srv[Far].next,
             Agree([uid |-> u, m |-> m], srv[Far].mail),
             srv'[Far].v = srv[Far].v
      PROVE  /\ srv'[Far].on => u < srv'[Far].next
             /\ Agree([uid |-> u, m |-> m], srv[Far].mail)'
  BY <1>1, <1>2, <1>3 DEF Agree, Uids
<1>4. CopyNumbers'
 <2>1. ASSUME srv'[Far].v = srv[Far].v, loc[Near].v = srv[Far].v, NEW r \in loc[Near].rows
       PROVE  (srv'[Far].on => r.uid < srv'[Far].next) /\ Agree(r, srv[Far].mail)'
  <3>1. /\ r.uid \in Nat /\ (srv[Far].on => r.uid < srv[Far].next)
        /\ Agree([uid |-> r.uid, m |-> r.m], srv[Far].mail)
    BY <2>1 DEF Comparison, CopyNumbers, Agree
  <3>2. /\ srv'[Far].on => r.uid < srv'[Far].next
        /\ Agree([uid |-> r.uid, m |-> r.m], srv[Far].mail)' BY <1>3, <2>1, <3>1
  <3> QED BY <3>2 DEF Agree
 <2> QED BY <1>2, <2>1 DEF Comparison, CopyNumbers
<1>5. WindowNumbers'
 <2>1. CASE q.pc \notin Selected BY <2>1 DEF WindowNumbers, Disturbs
 <2>2. CASE q.pc \in Selected
  <3>1. /\ q.v \in Nat \ {0} /\ q.v <= srv[Far].v /\ DOMAIN q.win \subseteq Nat
        /\ srv[Far].v = q.v =>
            \A u \in DOMAIN q.win :
                /\ srv[Far].on => u < srv[Far].next
                /\ Agree([uid |-> u, m |-> q.win[u]], srv[Far].mail)
        /\ loc[Near].v = q.v => \A r \in loc[Near].rows : Agree(r, q.win)
    BY <2>2 DEF Comparison, WindowNumbers
  <3>2. srv'[Far].v = q.v =>
            \A u \in DOMAIN q.win :
                /\ srv'[Far].on => u < srv'[Far].next
                /\ Agree([uid |-> u, m |-> q.win[u]], srv[Far].mail)'
   <4> SUFFICES ASSUME srv'[Far].v = q.v, NEW u \in DOMAIN q.win
                PROVE  /\ srv'[Far].on => u < srv'[Far].next
                       /\ Agree([uid |-> u, m |-> q.win[u]], srv[Far].mail)'
     BY <3>1 DEF Agree, Disturbs, KeepsWindow
   <4>1. srv'[Far].v = srv[Far].v /\ u \in Nat BY <1>2, <3>1
   <4>2. (srv[Far].on => u < srv[Far].next) /\ Agree([uid |-> u, m |-> q.win[u]], srv[Far].mail)
     BY <3>1, <4>1
   <4> QED BY <1>3, <4>1, <4>2 DEF Agree, Disturbs, KeepsWindow
  <3>3. loc[Near].v = q.v => \A r \in loc[Near].rows : Agree(r, q.win)'
    BY <1>1, <3>1 DEF Agree, Disturbs, KeepsWindow
  <3> QED BY <1>1, <1>2, <3>1, <3>2, <3>3 DEF WindowNumbers, Disturbs, KeepsWindow, Agree
 <2> QED BY <2>1, <2>2
<1>6. Progress' BY DEF Comparison, Progress, Disturbs, KeepsWindow, Resolve
<1> QED BY <1>4, <1>5, <1>6, AnswerSurvives DEF Comparison

\* Every change of the server's mailbox is one of these.
LEMMA ServerSteps ==
    ASSUME CheckShape, q.kind = "new", Comparison, NEW w \in Wire,
           Receive(w) \/ ExpungeMail(w) \/ Renumber(w) \/ Toggle(w)
    PROVE  Comparison'
<1>1. w = Far /\ ~Loading BY DEF Receive, ExpungeMail, Renumber, Toggle, Changing, Far
<1>2. UNCHANGED loc /\ q' = Noted(loc) BY DEF Receive, ExpungeMail, Renumber, Toggle
<1>3. Disturbs
  BY <1>1, <1>2 DEF Disturbs, Noted, HeldIn, Near, CheckShape, Fields, KeepsWindow, Loading
<1>4. Far \in Wire /\ TableShape /\ ServerNumbers BY NearFar DEF Comparison
<1>5. CASE Receive(w)
 <2> DEFINE u == srv[Far].next
 <2>1. PICK m \in Arriving(Far) :
         srv' = [srv EXCEPT ![Far].next = u + 1, ![Far].mail =
                   [x \in Uids(Far) \cup {u} |-> IF x = u THEN m ELSE srv[Far].mail[x]]]
   BY <1>1, <1>5 DEF Receive
 <2>2. m \notin Live(Far) /\ m \notin q.ever /\ srv[Far].on
   BY <1>1, <1>5 DEF Arriving, Receive
 <2>3. /\ srv'[Far].v = srv[Far].v /\ srv'[Far].on = srv[Far].on /\ srv'[Far].next = u + 1
       /\ Uids(Far)' = Uids(Far) \cup {u} /\ srv'[Far].mail[u] = m
       /\ \A x \in Uids(Far) : x # u => srv'[Far].mail[x] = srv[Far].mail[x]
       /\ TableShape' BY <1>2, <1>4, <2>1 DEF TableShape, Uids
 <2>4. \A x \in Uids(Far) : x < u /\ x \in Nat /\ srv[Far].mail[x] # m
   BY <1>4, <2>2 DEF ServerNumbers, Live
 <2>5. ServerNumbers' BY <1>4, <2>2, <2>3, <2>4, FS_AddElement DEF ServerNumbers
 <2> QED BY <1>2, <1>3, <1>4, <2>2, <2>3, <2>4, <2>5, ServerChange DEF ServerNumbers
<1>6. CASE ExpungeMail(w)
 <2>1. PICK u \in Uids(Far) : srv' = [srv EXCEPT ![Far].mail =
                                   [x \in Uids(Far) \ {u} |-> srv[Far].mail[x]]]
  <3>1. ExpungeMail(Far) BY <1>1, <1>6
  <3> QED BY <3>1 DEF ExpungeMail
 <2>2. /\ srv'[Far].v = srv[Far].v /\ srv'[Far].on = srv[Far].on
       /\ srv'[Far].next = srv[Far].next /\ Uids(Far)' = Uids(Far) \ {u}
       /\ \A x \in Uids(Far)' : srv'[Far].mail[x] = srv[Far].mail[x]
       /\ TableShape' BY <1>2, <1>4, <2>1 DEF TableShape, Uids
 <2>3. ServerNumbers' BY <1>4, <2>2, FS_RemoveElement DEF ServerNumbers
 <2> QED BY <1>2, <1>3, <1>4, <2>2, <2>3, ServerChange DEF ServerNumbers
<1>7. CASE Renumber(w)
 <2>1. PICK p \in [1..Cardinality(Uids(Far)) -> Live(Far)] :
         /\ {p[i] : i \in DOMAIN p} = Live(Far)
         /\ srv' = [srv EXCEPT ![Far].v = @ + 1, ![Far].mail = p, ![Far].next = Len(p) + 1]
   BY <1>1, <1>7 DEF Renumber
 <2>2. /\ srv'[Far].v = srv[Far].v + 1 /\ srv'[Far].on = srv[Far].on
       /\ srv'[Far].next = Len(p) + 1 /\ srv'[Far].mail = p /\ TableShape'
   BY <1>2, <1>4, <2>1 DEF TableShape
 <2>3. /\ DOMAIN p = 1..Len(p) /\ Len(p) \in Nat /\ IsFiniteSet(DOMAIN p)
       /\ \A x, y \in DOMAIN p : p[x] = p[y] => x = y BY <1>4, <2>1, RenumberedApart
 <2>4. srv[Far].on BY <1>1, <1>7 DEF Renumber
 <2>5. ServerNumbers' BY <1>4, <2>2, <2>3, <2>4 DEF ServerNumbers, Uids
 <2> QED BY <1>2, <1>3, <1>4, <2>2, <2>5, ServerChange DEF ServerNumbers
<1>8. CASE Toggle(w)
 <2>1. srv' = [srv EXCEPT ![Far] = [on |-> ~@.on, next |-> 1, mail |-> <<>>,
                                    v |-> IF @.on THEN @.v ELSE @.v + 1]]
   BY <1>1, <1>8 DEF Toggle
 <2>2. /\ srv'[Far].v = (IF srv[Far].on THEN srv[Far].v ELSE srv[Far].v + 1)
       /\ srv'[Far].on = ~srv[Far].on /\ srv'[Far].next = 1 /\ Uids(Far)' = {}
       /\ TableShape' BY <1>2, <1>4, <2>1 DEF TableShape, Uids
 <2>3. ServerNumbers' BY <1>4, <2>2, FS_EmptySet DEF ServerNumbers
 <2> QED
  <3>1. CASE srv[Far].on BY <1>2, <1>3, <2>2, <2>3, <3>1, ServerChange
  <3>2. CASE ~srv[Far].on
   <4>1. srv'[Far].v > srv[Far].v BY <1>4, <2>2, <3>2 DEF ServerNumbers
   <4> QED BY <1>2, <1>3, <2>2, <2>3, <4>1, ServerChange
  <3> QED BY <3>1, <3>2
<1> QED BY <1>5, <1>6, <1>7, <1>8

\* A change of Mail's copy keeps the comparison: a row it adds is one of the
\* mailbox, and a copy that starts over has no rows of the old generation.
LEMMA CopySteps ==
    ASSUME CheckShape, q.kind = "new", Comparison, NEW b \in Box, NEW w \in Wire,
           Pull(b, w) \/ Resync(b, w)
    PROVE  Comparison'
<1> USE DEF Near
<1>1. w = Far /\ ~Loading /\ UNCHANGED srv BY DEF Pull, Resync, Changing, Far
<1>2. PICK l :
        /\ loc' = l
        /\ \/ q' = Noted(l)
           \/ Resync(b, w) /\ q' = [Noted(l) EXCEPT !.torn =
                        @ \/ (q.pc = "compare" /\ loc[b].v # srv[w].v)]
 <2>1. CASE Pull(b, w) BY <2>1 DEF Pull
 <2>2. CASE Resync(b, w) BY <2>2 DEF Resync
 <2> QED BY <2>1, <2>2
<1>3. Disturbs
  BY ZenonT(60), <1>1, <1>2 DEF Disturbs, Noted, HeldIn, CheckShape, Fields, KeepsWindow, Loading
<1>4. Near \in Box /\ TableShape /\ ServerNumbers /\ CopyNumbers BY NearFar DEF Comparison
<1>5. q.pc # "begin" /\ q'.pc = q.pc /\ q'.held \subseteq q.held
      /\ q'.by = q.by /\ q'.v = q.v /\ q'.win = q.win /\ (q.torn => q'.torn)
  BY <1>3 DEF Disturbs, KeepsWindow, Loading
<1>6. /\ TableShape' /\ ServerNumbers'
      /\ \/ /\ loc'[Near].v = loc[Near].v
            /\ loc[Near].labels = {} => loc'[Near].labels = {}
            /\ \A r \in loc'[Near].rows :
                \/ r \in loc[Near].rows
                \/ /\ loc[Near].v \in {0, srv[Far].v}
                   /\ r.uid \in Uids(Far) /\ r.m = srv[Far].mail[r.uid]
         \/ /\ loc'[Near].v = srv[Far].v /\ loc[Near].v # srv[Far].v
            /\ loc'[Near].rows = {} /\ loc'[Near].labels = loc[Near].labels
            /\ q.pc = "compare" => q'.torn
 <2>1. ServerNumbers' BY <1>1, <1>4 DEF ServerNumbers, Uids
 <2>2. CASE b # Near
  <3>1. loc'[Near] = loc[Near] /\ TableShape'
   <4>1. CASE Pull(b, w) BY <1>1, <1>4, <2>2, <4>1 DEF Pull, TableShape
   <4>2. CASE Resync(b, w) BY <1>1, <1>4, <2>2, <4>2 DEF Resync, TableShape
   <4> QED BY <4>1, <4>2
  <3> QED BY <2>1, <3>1
 <2>3. CASE b = Near /\ Pull(b, w)
  <3>1. PICK u \in Uids(Far) :
          /\ loc[Near].labels # {} \/ loc[Near].v \in {0, srv[Far].v}
          /\ loc' = IF loc[Near].labels # {}
                    THEN [loc EXCEPT ![Near].labels = @ \cup {srv[Far].mail[u]}]
                    ELSE [loc EXCEPT ![Near].rows =
                              @ \cup {[uid |-> u, m |-> srv[Far].mail[u]]}]
    BY <1>1, <2>3 DEF Pull
  <3>2. CASE loc[Near].labels # {} BY <1>1, <1>4, <2>1, <3>1, <3>2 DEF TableShape
  <3>3. CASE loc[Near].labels = {}
   <4> DEFINE new == [uid |-> u, m |-> srv[Far].mail[u]]
   <4>1. loc' = [loc EXCEPT ![Near].rows = @ \cup {new}] BY <3>1, <3>3
   <4>2. new.uid = u /\ new.m = srv[Far].mail[u] OBVIOUS
   <4> HIDE DEF new
   <4>3. /\ TableShape' /\ loc'[Near].v = loc[Near].v
         /\ loc'[Near].labels = loc[Near].labels
         /\ loc'[Near].rows = loc[Near].rows \cup {new} BY <1>1, <1>4, <4>1 DEF TableShape
   <4> QED BY <2>1, <3>1, <3>3, <4>2, <4>3
  <3> QED BY <3>2, <3>3
 <2>4. CASE b = Near /\ Resync(b, w)
  <3>1. loc' = [loc EXCEPT ![Near].v = srv[Far].v,
                  ![Near].rows = {r \in @ : loc[Near].v = srv[Far].v}]
    BY <1>1, <2>4 DEF Resync
  <3>2. /\ TableShape' /\ loc'[Near].v = srv[Far].v /\ loc'[Near].labels = loc[Near].labels
        /\ loc'[Near].rows = {r \in loc[Near].rows : loc[Near].v = srv[Far].v}
    BY <1>1, <1>4, <3>1 DEF TableShape
  <3>3. q.pc = "compare" /\ loc[Near].v # srv[Far].v => q'.torn
    BY <1>1, <2>4 DEF Resync, Noted, CheckShape, Fields
  <3> QED BY <2>1, <3>2, <3>3
 <2> QED BY <2>2, <2>3, <2>4
<1>7. CopyNumbers'
 <2>1. loc'[Near].v \in Nat /\ loc'[Near].v <= srv[Far].v
   BY <1>4, <1>6 DEF CopyNumbers, ServerNumbers
 <2>2. ASSUME NEW r \in loc'[Near].rows
       PROVE  /\ r.uid \in Nat
              /\ loc'[Near].v = srv[Far].v =>
                   /\ srv[Far].on => r.uid < srv[Far].next
                   /\ Agree(r, srv[Far].mail)'
  <3>1. CASE r \in loc[Near].rows /\ loc'[Near].v = loc[Near].v
    BY <1>1, <1>4, <1>5, <3>1 DEF CopyNumbers, Agree
  <3>2. CASE r.uid \in Uids(Far) /\ r.m = srv[Far].mail[r.uid]
    BY <1>1, <1>4, <1>5, <3>2 DEF ServerNumbers, Agree, Uids
  <3> QED BY <1>6, <2>2, <3>1, <3>2
 <2> QED BY <1>1, <2>1, <2>2 DEF CopyNumbers
<1>8. WindowNumbers'
 <2>1. CASE q.pc \notin Selected BY <1>5, <2>1 DEF WindowNumbers
 <2>2. CASE q.pc \in Selected
  <3>1. /\ q.v \in Nat \ {0} /\ q.v <= srv[Far].v /\ DOMAIN q.win \subseteq Nat
        /\ srv[Far].v = q.v =>
            \A u \in DOMAIN q.win :
                /\ srv[Far].on => u < srv[Far].next
                /\ Agree([uid |-> u, m |-> q.win[u]], srv[Far].mail)
        /\ loc[Near].v = q.v => \A r \in loc[Near].rows : Agree(r, q.win)
    BY <2>2 DEF Comparison, WindowNumbers
  <3>2. srv[Far].v = q.v =>
            \A u \in DOMAIN q.win :
                /\ srv[Far].on => u < srv[Far].next
                /\ Agree([uid |-> u, m |-> q.win[u]], srv[Far].mail)'
    BY <1>1, <1>5, <3>1 DEF Agree
  <3>3. ASSUME loc'[Near].v = q.v, NEW r \in loc'[Near].rows PROVE Agree(r, q.win)'
   <4>1. CASE r \in loc[Near].rows /\ loc'[Near].v = loc[Near].v
     BY <1>5, <3>1, <3>3, <4>1 DEF Agree
   <4>2. CASE /\ loc'[Near].v = loc[Near].v /\ loc[Near].v \in {0, srv[Far].v}
              /\ r.uid \in Uids(Far) /\ r.m = srv[Far].mail[r.uid]
     BY <1>5, <3>1, <3>3, <4>2 DEF Agree, Uids
   <4> QED BY <1>6, <3>3, <4>1, <4>2
  <3> QED BY <1>1, <1>5, <3>1, <3>2, <3>3 DEF WindowNumbers, Agree
 <2> QED BY <2>1, <2>2
<1>9. Progress'
 <2>1. q.pc = "compare" /\ q.by = "uid" /\ ~q'.torn => loc'[Near].v = q.v
   BY <1>5, <1>6 DEF Comparison, Progress
 <2>2. loc[Near].labels = {} => loc'[Near].labels = {} BY <1>6
 <2> QED BY <1>3, <1>5, <2>1, <2>2 DEF Comparison, Progress, Disturbs, Resolve
<1> QED BY <1>3, <1>6, <1>7, <1>8, <1>9, AnswerSurvives DEF Comparison

\* messages new starts on a mailbox Mail has partly copied.
LEMMA NewInvFirst ==
    CheckInit => NewInv
<1> SUFFICES ASSUME CheckInit, q.kind = "new" PROVE Comparison BY ShapeFirst DEF NewInv
<1>1. InitNew
 <2>1. PICK k \in {"sync", "new"}, a \in Accounts :
       /\ q = [NoCheck EXCEPT !.kind = k, !.acct = a, !.pc = "begin"]
       /\ IF k = "sync" THEN InitSync ELSE InitNew BY DEF CheckInit
 <2>2. q.kind = k BY <2>1 DEF NoCheck
 <2> QED BY <2>1, <2>2
<1>2. /\ q.pc = "begin" /\ q.held = {} /\ q.ever = {} /\ q.quiet = FALSE /\ q.state = "none"
  BY DEF CheckInit, NoCheck
<1>3. PICK f \in {<<>>} \cup {<<x>> : x \in Mail} \cup {p \in Mail \X Mail : p[1] # p[2]},
           keep \in SUBSET (1..2), v \in {0, 1}, labels \in BOOLEAN :
        /\ keep \subseteq DOMAIN f
        /\ srv = [x \in Wire |-> IF x = Far
                    THEN [EmptyBox EXCEPT !.mail = ByUid(f), !.next = Len(f) + 1]
                    ELSE EmptyBox]
        /\ loc = [x \in Box |->
                    [v |-> v, counted |-> TRUE,
                     rows |-> IF x = Near /\ ~labels
                              THEN {[uid |-> u, m |-> f[u]] : u \in keep} ELSE {},
                     labels |-> IF x = Near /\ labels
                                THEN {f[u] : u \in keep} ELSE {}]]
  BY <1>1 DEF InitNew, Near, Far
<1>4. /\ Len(f) \in 0..2 /\ DOMAIN f = 1..Len(f)
      /\ \A x, y \in 1..Len(f) : f[x] = f[y] => x = y BY <1>3
<1>5. /\ srv[Far].on = TRUE /\ srv[Far].v = 1 /\ srv[Far].next = Len(f) + 1
      /\ Uids(Far) = 1..Len(f) /\ \A u \in 1..Len(f) : srv[Far].mail[u] = f[u]
      /\ loc[Near].v = v /\ \A r \in loc[Near].rows : r.uid \in 1..Len(f) /\ r.m = f[r.uid]
      /\ TableShape
 <2>1. srv[Far] = [on |-> TRUE, v |-> 1, next |-> Len(f) + 1, mail |-> ByUid(f)]
   BY <1>3, NearFar DEF EmptyBox
 <2>2. loc[Near] = [v |-> v, counted |-> TRUE,
                    rows |-> IF ~labels THEN {[uid |-> u, m |-> f[u]] : u \in keep} ELSE {},
                    labels |-> IF labels THEN {f[u] : u \in keep} ELSE {}] BY <1>3, NearFar
 <2>3. TableShape BY <1>3, <2>1, <2>2 DEF TableShape
 <2>4. Uids(Far) = 1..Len(f) /\ \A u \in 1..Len(f) : srv[Far].mail[u] = f[u]
   BY <2>1 DEF ByUid, Uids
 <2>5. \A r \in loc[Near].rows : r.uid \in 1..Len(f) /\ r.m = f[r.uid] BY <1>3, <1>4, <2>2
 <2> QED BY <2>1, <2>2, <2>3, <2>4, <2>5
<1>6. ServerNumbers
 <2> DEFINE n == Len(f)
 <2>1. n \in Nat /\ 1..n \subseteq Nat /\ \A u \in 1..n : u < n + 1 BY <1>4
 <2>2. /\ Uids(Far) = 1..n /\ srv[Far].next = n + 1
       /\ \A x, y \in 1..n : srv[Far].mail[x] = srv[Far].mail[y] => x = y BY <1>4, <1>5
 <2> HIDE DEF n
 <2>3. IsFiniteSet(1..n) BY <2>1, FS_Interval
 <2> QED
  <3>1. /\ srv[Far].on \in BOOLEAN /\ srv[Far].v \in Nat \ {0} /\ srv[Far].next \in Nat
        /\ ~srv[Far].on => Uids(Far) = {}
   <4>1. srv[Far].on BY <1>5
   <4>2. srv[Far].on \in BOOLEAN BY <1>5, Zenon
   <4> QED BY <1>5, <2>1, <2>2, <4>1, <4>2
  <3> QED BY <2>1, <2>2, <2>3, <3>1 DEF ServerNumbers
<1>7. CopyNumbers BY <1>4, <1>5 DEF CopyNumbers, Agree, Uids
<1>8. Noting /\ Progress /\ ~Compared /\ q.pc \notin Selected
  BY <1>2 DEF Noting, Progress, Opening, Selected, Compared
<1>9. WindowNumbers /\ Verdict /\ Undisturbed /\ CutNoted
  BY <1>8 DEF WindowNumbers, Verdict, Undisturbed, CutNoted
<1> QED BY <1>5, <1>6, <1>7, <1>8, <1>9 DEF Comparison

\* One step per action.
LEMMA NewInvStep ==
    NewInv /\ [CheckNext]_checkVars => NewInv'
<1> SUFFICES ASSUME NewInv, [CheckNext]_checkVars, q.kind = "new" PROVE Comparison'
  BY ShapeStep DEF NewInv
<1>1. CheckShape /\ Comparison BY DEF NewInv
<1>2. CASE UNCHANGED checkVars BY <1>1, <1>2, CatalogKeeps DEF checkVars, Catalog
<1>3. CASE \/ RowStarts \/ Tick \/ ListAnswers \/ ListStored \/ ListFails
           \/ \E p \in Caller : Lookup(p) \/ Join(p) BY <1>1, <1>3, CatalogSteps, CatalogKeeps
<1>4. CASE BeginCheck \/ MapPath \/ SelectRecent \/ FetchRecent \/ Membership
  BY <1>1, <1>4, BeginKeeps, MapKeeps, SelectKeeps, FetchKeeps, MembershipKeeps
<1>5. CASE ReadValidity \/ Compare \/ Report \/ Sum \/ CompareFails \/ CancelNew
  BY <1>1, <1>5, ValidityKeeps, CompareKeeps, AnswerKeeps, FailingKeeps
<1>6. CASE \/ \E w \in Wire : Receive(w) \/ ExpungeMail(w) \/ Renumber(w) \/ Toggle(w)
           \/ \E b \in Box, w \in Wire : Pull(b, w) \/ Resync(b, w)
  BY <1>1, <1>6, ServerSteps, CopySteps
<1>7. ~(MakePlan \/ Merge \/ \E k \in 1..Workers : StatusAnswers(k) \/ StatusFails(k))
  BY DEF MakePlan, Merge, StatusAnswers, StatusFails, Is
<1> QED BY <1>2, <1>3, <1>4, <1>5, <1>6, <1>7 DEF CheckNext, CheckStep

\* The newest messages are not empty when the mailbox is not, they end
\* with its last one, and a mailbox behind the window is larger than it.
LEMMA NewestIsTop ==
    ASSUME ServerNumbers, NEW x \in Uids(Far), x \notin DOMAIN Newest(Far, Window)
    PROVE  /\ DOMAIN Newest(Far, Window) # {}
           /\ \A u \in DOMAIN Newest(Far, Window) : x < u
           /\ Cardinality(Uids(Far)) > Cardinality(DOMAIN Newest(Far, Window))
<1> DEFINE U == Uids(Far)
           newer(u) == {y \in U : y > u}
           D == {u \in U : Cardinality(newer(u)) < Window}
<1>1. DOMAIN Newest(Far, Window) = D BY DEF Newest
<1>2. U \subseteq Nat /\ IsFiniteSet(U) /\ Window \in Nat \ {0}
  BY ServerCheckAssumption DEF ServerNumbers, ServerCheckAssumption
<1>3. \A u \in U : IsFiniteSet(newer(u)) /\ Cardinality(newer(u)) \in Nat
  BY <1>2, FS_Subset, FS_CardinalityType
<1>4. ASSUME NEW u \in D, u <= x PROVE FALSE
 <2>1. newer(x) \subseteq newer(u) BY <1>2, <1>4
 <2>2. Cardinality(newer(x)) <= Cardinality(newer(u)) BY <1>3, <1>4, <2>1, FS_Subset
 <2>3. x \in D BY <1>2, <1>3, <1>4, <2>2
 <2> QED BY <1>1, <2>3
<1>5. \A u \in D : x < u BY <1>2, <1>4
<1>6. D # {}
 <2>1. PICK top \in U : \A y \in U : y <= top
  <3> DEFINE T == {newer(u) : u \in U}
  <3>1. T # {} /\ T \subseteq FiniteSubsetsOf(U) BY <1>3 DEF FiniteSubsetsOf
  <3>2. PICK t \in T : \A s \in T : ~(<<s, t>> \in StrictSubsetOrdering(U))
    BY <3>1, FS_StrictSubsetOrderingWellFounded, WFMin, Zenon
  <3>3. PICK top \in U : t = newer(top) BY <3>1
  <3>4. ASSUME NEW y \in U, y > top PROVE FALSE
   <4>1. newer(y) \subseteq newer(top) /\ newer(y) # newer(top) BY <1>2, <3>4
   <4>2. <<newer(y), newer(top)>> \in StrictSubsetOrdering(U) BY <4>1 DEF StrictSubsetOrdering
   <4> QED BY <3>2, <3>3, <4>2
  <3> QED BY <1>2, <3>4
 <2>2. newer(top) = {} BY <1>2, <2>1
 <2> QED BY <1>2, <2>1, <2>2, FS_EmptySet
<1>7. IsFiniteSet(D) /\ Cardinality(D) <= Cardinality(U) /\ Cardinality(D) # Cardinality(U)
  BY <1>1, <1>2, FS_Subset
<1> QED BY <1>1, <1>2, <1>5, <1>6, <1>7, FS_CardinalityType

\* The invariant of messages new, for any mailbox, window and number of changes.
THEOREM NewMessagesInvariant == CheckSpec => []NewInv
<1>1. CheckInit => NewInv BY NewInvFirst
<1>2. NewInv /\ [CheckNext]_checkVars => NewInv' BY NewInvStep
<1> QED BY <1>1, <1>2, PTL DEF CheckSpec

\* messages new reports nothing Mail held all the time and passes over nothing
\* it never held, and an answer that is not cut off has everything Mail lacks
\* (Client.compareMailbox).
THEOREM NewMessagesTrue == CheckSpec => []NewTrue
<1>1. NewInv => NewTrue
 <2> SUFFICES ASSUME NewInv, Is("new", "done"), q.state = "checked", ~q.torn
              PROVE  /\ \A u \in DOMAIN q.win :
                           /\ u \in q.new /\ Header[q.win[u]] # NoHeader =>
                                   ~\E m \in q.held : Same(q.win[u], m)
                           /\ u \notin q.new => \E m \in q.ever : Same(q.win[u], m)
                     /\ q.quiet /\ q.by # "headers" /\ ~q.truncated /\ q.complete /\ LacksNewest =>
                           {q.win[u] : u \in q.new} = Live(Inbox[2]) \ HeldIn(Inbox[1])
   BY DEF NewTrue
 <2> USE DEF Near, Far
 <2>1. Comparison /\ Compared /\ q.pc = "done" BY DEF NewInv, Is, Compared
 <2>2. /\ q.new \subseteq DOMAIN q.win
       /\ \A u \in DOMAIN q.win :
           /\ u \in q.new /\ (q.by = "headers" => Header[q.win[u]] # NoHeader) =>
                   ~\E m \in q.held : Same(q.win[u], m)
           /\ u \notin q.new => \E m \in q.ever : Same(q.win[u], m)
   BY <2>1 DEF Comparison, Verdict
 <2>3. ASSUME q.quiet, q.by # "headers", ~q.truncated, LacksNewest
       PROVE  {q.win[u] : u \in q.new} = Live(Far) \ HeldIn(Near)
  <3>1. /\ q.held = HeldIn(Near) /\ q.ever = HeldIn(Near) /\ ~Cut
        /\ q.exists = Cardinality(Uids(Far))
        /\ DOMAIN q.win = DOMAIN Newest(Far, Window)
        /\ \A u \in DOMAIN q.win : q.win[u] = srv[Far].mail[u]
        /\ ServerNumbers BY <2>1, <2>3 DEF Comparison, Noting, Undisturbed, CutNoted
  <3>2. \A u \in DOMAIN q.win : u \in q.new <=> srv[Far].mail[u] \notin HeldIn(Near)
    BY <2>2, <2>3, <3>1 DEF Same
  <3>3. DOMAIN q.win \subseteq Uids(Far) BY <3>1 DEF Newest
  <3>4. ASSUME NEW x \in Uids(Far), srv[Far].mail[x] \notin HeldIn(Near)
        PROVE  x \in DOMAIN q.win
   <4> SUFFICES ASSUME x \notin DOMAIN q.win PROVE FALSE OBVIOUS
   <4>1. /\ DOMAIN q.win # {} /\ \A u \in DOMAIN q.win : x < u
         /\ q.exists > Cardinality(DOMAIN q.win) BY <3>1, NewestIsTop
   <4>2. q.new = DOMAIN q.win BY <2>2, <2>3, <3>2, <3>3, <3>4, <4>1 DEF LacksNewest
   <4>3. q.win # <<>> BY <4>1
   <4> QED BY <3>1, <4>1, <4>2, <4>3 DEF Cut
  <3> QED BY <2>2, <3>1, <3>2, <3>3, <3>4 DEF Live
 <2> QED BY <2>2, <2>3
<1> QED BY <1>1, NewMessagesInvariant, PTL
===============================================================================
