---------------------------- MODULE DocumentProofs ----------------------------
(***************************************************************************)
(* Proofs for the two components that keep documents on disk: the account  *)
(* bindings and the directory of drafts.                                   *)
(*                                                                         *)
(* Bindings: for any number of processes, accounts, addresses, requests    *)
(* and faults, the document readers find is valid and keeps what was       *)
(* granted, setup reports what it did, and a publication sets only what    *)
(* was asked for or read before the prompt. Who holds the locks is the     *)
(* only one that changes the document, so what it merged stays true until  *)
(* it has renamed it. A login in the document has had its password stored, *)
(* and no password ever becomes "absent" again.                            *)
(*                                                                         *)
(* Drafts: for any drafts, attachments, faults and runs of prune, a        *)
(* document on the shelf has the attachments it was published with, what   *)
(* was acknowledged stays, leftovers are swept, and reports and listings   *)
(* are true. Attachments stand on the shelf and on the disk from before a  *)
(* document is there until it is gone from both.                           *)
(***************************************************************************)
EXTENDS AccountBindings, DraftShelf, FiniteSetTheorems, TLAPS

----------------------------------------------------------------------------
(* The account bindings. *)

Bindings == [aliases: SUBSET Addresses, cred: Addresses \cup {NoAddress}, hosts: Hosts]
Documents == [Accounts -> Bindings]
Stages == {"idle", "plan", "delete", "prompt", "update", "lock", "merge", "write",
           "rename", "sync", "release"}
Says == {"nothing", "refused", "removed", "stored", "partial"}
Status == {"none", "unknown", "complete"}
Jobs == [ask: RequestRecord \cup {NoRequest}, account: Accounts \cup {NoAccount},
         cred: Addresses \cup {NoAddress}, snapshot: Bindings, planned: Documents,
         says: Says, status: Status]
Ids == [by: Procs, run: Nat]
Grants == [account: Accounts, alias: Addresses]

\* The types.
TypeOK ==
  /\ visible \in Documents /\ durable \in Documents
  /\ keychain \in [Addresses -> {"absent", "stored", "removed"}]
  /\ pc \in [Procs -> Stages] /\ job \in [Procs -> Jobs]
  /\ runs \in [Procs -> Nat] /\ report \in [Procs -> [says: Says, status: Status]]
  /\ temps \subseteq Ids /\ keyed \subseteq Ids /\ published \subseteq Ids
  /\ granted \subseteq Grants

\* A request that runs is a real one; past the plan it has an account of its
\* own (a removal may do without) and a login.
Real(p) == pc[p] # "idle" => job[p].ask \in RequestRecord
Selecting == {"idle", "plan"}
Planned(p) ==
  /\ pc[p] \notin Selecting => job[p].cred \in Addresses
  /\ pc[p] \notin Selecting \cup {"delete"} => job[p].account \in Accounts

\* The login that was resolved at the plan.
Login(p) ==
  LET r == job[p].ask
      seen == job[p].snapshot
  IN IF r.cred # NoAddress THEN r.cred ELSE IF Bound(seen) THEN seen.cred ELSE r.from
Resolved(p) == pc[p] \notin Selecting => job[p].cred = Login(p)

\* The holder of the locks, and the temporary files.
Held(p) == (lock = p) <=> (pc[p] \in Locked)
Renaming == {Run(p) : p \in {q \in Procs : pc[q] = "rename"}}
Swept == temps \subseteq Renaming \/ killed

\* What is in the document, or about to be, has had a password.
Secret(d) == \A a \in Accounts : Bound(d[a]) => /\ d[a].cred \in Addresses
                                                /\ keychain[d[a].cred] # "absent"
Whole(d) == ValidDocument(d) /\ Secret(d)
Merging == {"write", "rename"}
Stored(p) == pc[p] \in Merging \cup {"lock", "merge"} => keychain[job[p].cred] # "absent"

\* The merged document: whole, with the alias, otherwise as the visible one,
\* and nothing in it that was neither asked for nor read before the prompt.
Merges(p) ==
  LET a == job[p].account
      r == job[p].ask
      new == job[p].planned
  IN pc[p] \in Merging =>
     /\ Whole(new)
     /\ r.from \in new[a].aliases
     /\ visible[a].aliases \subseteq new[a].aliases
     /\ new[a].cred = Login(p)
     /\ new[a].hosts = IF r.hosts # NoFlags THEN r.hosts ELSE job[p].snapshot.hosts
     /\ \A b \in Accounts \ {a} : new[b] = visible[b]

\* After the rename the alias is visible, and durable once that was said.
Placed(p) ==
  LET a == job[p].account
      alias == job[p].ask.from
  IN /\ pc[p] = "sync" => alias \in visible[a].aliases
     /\ pc[p] = "release" /\ job[p].status = "complete" =>
          alias \in visible[a].aliases \cap durable[a].aliases

\* What a request has done at each of its steps, and the numbers of requests.
Did == keyed \cup published
Before == {"plan", "delete", "prompt", "update"}
Course(p) ==
  /\ pc[p] \in Before => Run(p) \notin Did
  /\ pc[p] \in Merging \cup {"lock", "merge"} => Run(p) \in keyed /\ Run(p) \notin published
  /\ pc[p] = "sync" => Run(p) \in keyed /\ Run(p) \in published
  /\ pc[p] = "release" =>
       /\ Run(p) \in keyed
       /\ (Run(p) \in published) <=> (job[p].status # "none")
       /\ \/ job[p].says = "stored" /\ job[p].status = "complete"
          \/ job[p].says = "partial"
Numbered == \A k \in Did : k.run <= runs[k.by]
Silent(p) == pc[p] # "idle" => report[p] = NoReport

\* What setup reports of one process is so: EffectsTruthful, process by process.
Truthful(p) ==
  LET said == report[p] IN
  /\ said.says = "refused" => Run(p) \notin keyed \cup published
  /\ said.says = "partial" => Run(p) \in keyed
  /\ said.says \in {"stored", "partial"} /\ said.status = "none" => Run(p) \notin published
  /\ said.says = "stored" => Run(p) \in keyed
  /\ said.status # "none" => Run(p) \in published

\* What is true of every process.
PerProcess(p) ==
  /\ Real(p) /\ Planned(p) /\ Resolved(p) /\ Held(p) /\ Stored(p) /\ Merges(p)
  /\ Placed(p) /\ Course(p) /\ Silent(p) /\ Truthful(p)

\* The inductive invariant.
IInv ==
  /\ TypeOK /\ Swept /\ Whole(visible) /\ Whole(durable)
  /\ NothingLost /\ Numbered
  /\ \A p \in Procs : PerProcess(p)

-------------------------------------------------------------------------------
(* The start, and small facts.                                             *)

\* No binding: nothing to be wrong.
LEMMA EmptyFacts ==
  /\ Unbound \in Bindings /\ Empty \in Documents
  /\ \A a \in Accounts : ~Bound(Empty[a])
  /\ ~Bound(Unbound) BY DEF Unbound, Bindings, Hosts, NoHost, Empty, Documents, Bound

\* A request that has not begun is a job as well.
LEMMA NewJobType ==
  ASSUME NEW r \in RequestRecord \cup {NoRequest}
  PROVE  NewJob(r) \in Jobs /\ NewJob(r).ask = r BY EmptyFacts DEF NewJob, Jobs, Says, Status

\* The first state satisfies the invariant.
LEMMA InitInv == Init => IInv
<1> SUFFICES ASSUME Init PROVE IInv OBVIOUS
<1> USE BindingsAssumption DEF Init
<1>1. TypeOK BY EmptyFacts, NewJobType DEF TypeOK, Stages, NoReport, Says, Status
<1>2. Whole(visible) /\ Whole(durable)
  BY EmptyFacts DEF Whole, Secret, ValidDocument, ValidBinding
<1>3. \A p \in Procs : PerProcess(p)
 <2> TAKE p \in Procs
 <2>1. pc[p] = "idle" /\ report[p] = NoReport /\ lock # p BY DEF Nobody
 <2> QED
   BY <2>1 DEF PerProcess, Real, Planned, Selecting, Resolved, Held, Locked, Stored, Merging,
               Merges, Placed, Course, Before, Did, Silent, Truthful, NoReport
<1> QED BY <1>1, <1>2, <1>3 DEF IInv, Swept, NothingLost, Numbered, Did

\* How the step of one process leaves the others alone.
Frame(p) == \A q \in Procs \ {p} : /\ pc'[q] = pc[q] /\ job'[q] = job[q]
                                   /\ runs'[q] = runs[q] /\ report'[q] = report[q]
Kept == \A c \in Addresses : keychain[c] # "absent" => keychain'[c] # "absent"
Logged(p) == /\ keyed' \in {keyed, keyed \cup {Run(p)}}
             /\ published' \in {published, published \cup {Run(p)}}
Mine(p) == lock = p \/ UNCHANGED <<visible, durable>>
Passed(p) == \/ lock' = lock
             \/ lock = Nobody /\ lock' = p
             \/ lock = p /\ lock' = Nobody

\* A password that was stored once keeps every document whole.
LEMMA WholeKept == ASSUME NEW d, Whole(d), Kept PROVE Whole(d)'
<1> QED BY DEF Whole, Secret, Kept

\* What one process does leaves what is true of the others.
LEMMA OthersKept ==
  ASSUME IInv, TypeOK', NEW p \in Procs, Frame(p), Kept, Logged(p), Mine(p), Passed(p)
  PROVE  \A q \in Procs \ {p} : PerProcess(q)'
<1> TAKE q \in Procs \ {p}
<1>1. /\ pc'[q] = pc[q] /\ job'[q] = job[q] /\ runs'[q] = runs[q] /\ report'[q] = report[q]
      /\ PerProcess(q) /\ p # q /\ job[q] \in Jobs BY DEF Frame, IInv, TypeOK
<1>2. Run(q)' = Run(q) /\ Run(q) # Run(p) BY <1>1 DEF Run
<1>3. (Run(q) \in keyed' <=> Run(q) \in keyed)
      /\ (Run(q) \in published' <=> Run(q) \in published) BY <1>2 DEF Logged
<1>4. lock = q => UNCHANGED <<visible, durable>> BY <1>1 DEF Mine
<1>5. Real(q)' BY <1>1 DEF PerProcess, Real
<1>6. Planned(q)' BY <1>1 DEF PerProcess, Planned
<1>7. Resolved(q)' BY <1>1 DEF PerProcess, Resolved, Login
<1>8. Held(q)' BY <1>1, BindingsAssumption DEF PerProcess, Held, Passed
<1>9. Stored(q)' BY <1>1 DEF PerProcess, Stored, Planned, Selecting, Merging, Kept
<1>10. Merges(q)'
 <2> SUFFICES ASSUME pc[q] \in Merging PROVE Merges(q)' BY <1>1 DEF Merges
 <2>1. UNCHANGED <<visible, durable>> BY <1>1, <1>4 DEF PerProcess, Held, Merging, Locked
 <2>2. PICK d : d = job[q].planned OBVIOUS
 <2>3. job'[q].planned = d /\ Whole(d) BY <1>1, <2>2 DEF PerProcess, Merges
 <2>4. Whole(d)' BY <2>3, WholeKept
 <2> QED BY <1>1, <2>1, <2>2, <2>3, <2>4 DEF PerProcess, Merges, Login
<1>11. Placed(q)' BY <1>1, <1>4 DEF PerProcess, Placed, Held, Locked
<1>12. Course(q)' BY <1>1, <1>2, <1>3 DEF PerProcess, Course, Did
<1>13. Silent(q)' BY <1>1 DEF PerProcess, Silent
<1>14. Truthful(q)' BY <1>1, <1>2, <1>3 DEF PerProcess, Truthful
<1> QED BY <1>5, <1>6, <1>7, <1>8, <1>9, <1>10, <1>11, <1>12, <1>13, <1>14 DEF PerProcess

\* The numbers stay behind the requests that have them.
LEMMA NumberedKept ==
  ASSUME IInv, TypeOK', NEW p \in Procs, Frame(p), Logged(p), runs'[p] >= runs[p]
  PROVE  Numbered'
<1>1. \A q \in Procs : runs'[q] >= runs[q] /\ runs[q] \in Nat /\ runs'[q] \in Nat
  BY DEF Frame, IInv, TypeOK
<1>2. \A k \in Did : k.by \in Procs /\ k.run \in Nat /\ k.run <= runs[k.by]
  BY DEF IInv, TypeOK, Did, Ids, Numbered
<1>3. \A k \in Did' : k \in Did \/ k = Run(p) BY DEF Logged, Did
<1>4. Run(p).run = runs[p] /\ Run(p).by = p BY DEF Run
<1> QED BY <1>1, <1>2, <1>3, <1>4 DEF Numbered

\* A step that publishes nothing and takes no temporary file away from its rename.
LEMMA QuietStep ==
  ASSUME IInv, TypeOK', NEW p \in Procs, Frame(p), Kept, Logged(p), Passed(p),
         UNCHANGED <<visible, durable, granted, killed>>,
         temps' \subseteq temps, pc[p] # "rename", runs'[p] >= runs[p], PerProcess(p)'
  PROVE  IInv'
<1>1. \A q \in Procs : PerProcess(q)' BY OthersKept DEF Mine
<1>2. Numbered' BY NumberedKept
<1>3. Swept'
 <2>1. \A q \in Procs : pc[q] = "rename" => Run(q)' = Run(q) /\ pc'[q] = "rename"
   BY DEF Frame, Run
 <2>2. Renaming \subseteq Renaming' BY <2>1 DEF Renaming
 <2> QED BY <2>2 DEF Swept, IInv
<1>4. \A d : Whole(d) => Whole(d)' BY WholeKept
<1>5. Whole(visible)' /\ Whole(durable)'
 <2>1. PICK v, d : v = visible /\ d = durable OBVIOUS
 <2> QED BY <1>4, <2>1 DEF IInv
<1>6. NothingLost' BY DEF IInv, NothingLost
<1> QED BY <1>1, <1>2, <1>3, <1>5, <1>6 DEF IInv

\* The next step of a request, and its end.
LEMMA StepDoes ==
  ASSUME TypeOK, NEW p \in Procs, NEW step \in Stages, NEW j \in Jobs, Step(p, step, j)
  PROVE  /\ Frame(p) /\ pc'[p] = step /\ job'[p] = j /\ UNCHANGED <<runs, report>>
         /\ pc' \in [Procs -> Stages] /\ job' \in [Procs -> Jobs] BY DEF TypeOK, Step, Frame

LEMMA TellDoes ==
  ASSUME TypeOK, NEW p \in Procs, NEW says \in Says, NEW status \in Status, Tell(p, says, status)
  PROVE  /\ Frame(p) /\ pc'[p] = "idle" /\ runs' = runs
         /\ report'[p] = [says |-> says, status |-> status]
         /\ pc' \in [Procs -> Stages] /\ job' \in [Procs -> Jobs]
         /\ report' \in [Procs -> [says: Says, status: Status]]
<1>1. NewJob(NoRequest) \in Jobs BY NewJobType
<1> QED BY <1>1 DEF TypeOK, Tell, Frame, Stages

\* Of a process at rest only its report and the lock have to be right.
LEMMA AtRest ==
  ASSUME NEW p \in Procs, pc'[p] = "idle", lock' # p, Truthful(p)'
  PROVE  PerProcess(p)'
  BY DEF PerProcess, Real, Planned, Selecting, Resolved, Held, Locked, Stored, Merging,
         Merges, Placed, Course, Before, Silent

\* A request that ends before it did anything, or after the password only.
LEMMA Ends ==
  ASSUME IInv, NEW p \in Procs, NEW says \in {"refused", "partial"}, Tell(p, says, "none"),
         says = "refused" => pc[p] \in Before,
         says = "partial" => pc[p] = "lock",
         UNCHANGED <<visible, durable, temps, keychain, lock, keyed, published, granted, killed>>
  PROVE  IInv'
<1>1. TypeOK /\ PerProcess(p) BY DEF IInv
<1>2. /\ Frame(p) /\ pc'[p] = "idle" /\ runs' = runs
      /\ report'[p] = [says |-> says, status |-> "none"]
      /\ TypeOK' BY <1>1, TellDoes DEF TypeOK, Says, Status
<1>3. Truthful(p)' BY <1>1, <1>2 DEF Truthful, Run, PerProcess, Course, Before, Did, Merging
<1>4. PerProcess(p)' BY <1>1, <1>2, <1>3, AtRest DEF PerProcess, Held, Locked, Before
<1> QED BY <1>1, <1>2, <1>4, QuietStep DEF Kept, Logged, Passed, Before, TypeOK

-------------------------------------------------------------------------------
(* The actions, one by one.                                                *)

\* A request begins with a number of its own.
LEMMA BeginKeeps ==
  ASSUME IInv, NEW p \in Procs, NEW r \in Requests, Begin(p, r)
  PROVE  IInv'
<1>1. TypeOK /\ PerProcess(p) /\ Numbered BY DEF IInv
<1>2. NewJob(r) \in Jobs /\ NewJob(r).ask = r /\ r \in RequestRecord
  BY BindingsAssumption, NewJobType
<1>3. NoReport \in [says: Says, status: Status] BY DEF NoReport, Says, Status
<1>4. /\ Frame(p) /\ pc'[p] = "plan" /\ job'[p] = NewJob(r) /\ runs'[p] = runs[p] + 1
      /\ report'[p] = NoReport /\ TypeOK'
  BY <1>1, <1>2, <1>3 DEF Begin, TypeOK, Frame, Stages, files, history
<1>5. Run(p)' \notin Did'
 <2>1. Run(p)'.by = p /\ Run(p)'.run = runs[p] + 1 /\ runs[p] \in Nat
   BY <1>1, <1>4 DEF Run, TypeOK
 <2>2. Did' = Did BY DEF Begin, history, Did
 <2>3. \A k \in Did : k.by = p => k.run <= runs[p] BY <1>1 DEF Numbered
 <2>4. ~(runs[p] + 1 <= runs[p]) BY <2>1
 <2> QED BY <2>1, <2>2, <2>3, <2>4
<1>6. PerProcess(p)'
  BY <1>1, <1>2, <1>4, <1>5
  DEF PerProcess, Real, Planned, Selecting, Resolved, Held, Locked, Stored, Merging,
      Merges, Placed, Course, Before, Did, Silent, Truthful, NoReport, Begin
<1>7. runs'[p] >= runs[p] BY <1>1, <1>4 DEF TypeOK
<1> QED
  BY <1>1, <1>4, <1>6, <1>7, QuietStep
  DEF Begin, files, history, Kept, Logged, Passed

\* The plan: the account, and the login it resolves to.
LEMMA PlanKeeps ==
  ASSUME IInv, NEW p \in Procs, Plan(p)
  PROVE  IInv'
<1> DEFINE r == job[p].ask
           seen(a) == IF a = NoAccount THEN Unbound ELSE visible[a]
           login(a) == IF r.cred # NoAddress THEN r.cred
                       ELSE IF Bound(seen(a)) THEN seen(a).cred ELSE r.from
<1>1. TypeOK /\ PerProcess(p) /\ Whole(visible) /\ pc[p] = "plan" BY DEF IInv, Plan
<1>2. CASE Refuse(p) BY <1>1, <1>2, Ends DEF Plan, Refuse, files, history, Before
<1>3. CASE ~Refuse(p)
 <2>1. PICK a \in Selected(r) :
         /\ Step(p, IF r.remove THEN "delete" ELSE "prompt",
                 [job[p] EXCEPT !.account = a, !.cred = login(a), !.snapshot = seen(a)])
         /\ UNCHANGED <<lock, faults>> BY <1>3 DEF Plan
 <2>2. r \in RequestRecord BY <1>1 DEF PerProcess, Real
 <2>3. a \in Accounts \cup {NoAccount} /\ (~r.remove => a \in Accounts)
   BY <2>2, BindingsAssumption DEF Selected, RequestRecord
 <2>4. seen(a) \in Bindings BY <1>1, <2>3, EmptyFacts DEF TypeOK, Documents
 <2>5. login(a) \in Addresses
  <3>1. Bound(seen(a)) => seen(a).cred \in Addresses
    BY <1>1, <2>3, EmptyFacts DEF Whole, Secret
  <3> QED BY <2>2, <3>1 DEF RequestRecord
 <2>6. PICK l, s : l = login(a) /\ s = seen(a) OBVIOUS
 <2> DEFINE j == [job[p] EXCEPT !.account = a, !.cred = l, !.snapshot = s]
 <2>7. /\ j \in Jobs /\ j.ask = r /\ j.account = a /\ j.cred = l /\ j.snapshot = s
   BY ZenonT(60), <1>1, <2>3, <2>4, <2>5, <2>6 DEF TypeOK, Jobs
 <2>8. Step(p, IF r.remove THEN "delete" ELSE "prompt", j) BY <2>1, <2>6
 <2> HIDE DEF j
 <2>9. /\ Frame(p) /\ pc'[p] \in {"delete", "prompt"} /\ job'[p] = j
       /\ (pc'[p] = "prompt" => ~r.remove) /\ UNCHANGED <<runs, report>>
       /\ pc' \in [Procs -> Stages] /\ job' \in [Procs -> Jobs]
   BY <1>1, <2>7, <2>8, StepDoes DEF Stages
 <2>10. TypeOK' BY <1>1, <2>9 DEF TypeOK, Plan, files, history
 <2>11. l = IF r.cred # NoAddress THEN r.cred ELSE IF Bound(s) THEN s.cred ELSE r.from BY <2>6
 <2>12. Resolved(p)' BY <2>7, <2>9, <2>11 DEF Resolved, Login
 <2>13. Real(p)' /\ Planned(p)'
   BY <2>2, <2>3, <2>5, <2>6, <2>7, <2>9 DEF Real, Planned, Selecting
 <2>14. PerProcess(p)'
   BY <1>1, <2>1, <2>9, <2>12, <2>13
   DEF PerProcess, Held, Locked, Stored, Merging, Merges, Placed, Course, Before, Did, Run,
       Silent, Truthful, Plan, history
 <2> QED
  <3>1. UNCHANGED <<visible, durable, temps, keychain, keyed, published, granted, killed>>
    BY DEF Plan, files, history
  <3>2. runs'[p] >= runs[p] BY <1>1, <2>9 DEF TypeOK
  <3>3. Kept /\ Logged(p) /\ Passed(p) BY <2>1, <3>1 DEF Kept, Logged, Passed
  <3> QED BY <1>1, <2>9, <2>10, <2>14, <3>1, <3>2, <3>3, QuietStep
<1> QED BY <1>2, <1>3

\* Given up before anything was done.
LEMMA AbandonKeeps ==
  ASSUME IInv, NEW p \in Procs, Abandon(p)
  PROVE  IInv' BY Ends DEF Abandon, Refuse, files, history, Before

\* What the Keychain keeps: an item that was stored may be removed again.
LEMMA KeyedDoes ==
  ASSUME TypeOK, NEW p \in Procs, job[p].cred \in Addresses,
         NEW value \in {"stored", "removed"}, Keyed(p, value)
  PROVE  /\ Kept /\ keychain'[job[p].cred] = value
         /\ keychain' \in [Addresses -> {"absent", "stored", "removed"}]
         /\ keyed' = keyed \cup {Run(p)} /\ keyed' \subseteq Ids
<1>1. Run(p) \in Ids BY DEF TypeOK, Run, Ids
<1> QED BY <1>1 DEF TypeOK, Keyed, Kept

\* The password is removed, which is all a removal does.
LEMMA RemoveKeeps ==
  ASSUME IInv, NEW p \in Procs, Remove(p)
  PROVE  IInv'
<1>1. TypeOK /\ PerProcess(p) /\ pc[p] = "delete" BY DEF IInv, Remove
<1>2. CASE Tell(p, "refused", "none") /\ UNCHANGED <<keychain, keyed>>
  BY <1>1, <1>2, Ends DEF Remove, files, Before
<1>3. CASE Keyed(p, "removed") /\ Tell(p, "removed", "none")
 <2>1. job[p].cred \in Addresses BY <1>1 DEF PerProcess, Planned, Selecting
 <2>2. /\ Frame(p) /\ pc'[p] = "idle" /\ runs' = runs
       /\ report'[p] = [says |-> "removed", status |-> "none"]
       /\ pc' \in [Procs -> Stages] /\ job' \in [Procs -> Jobs]
       /\ report' \in [Procs -> [says: Says, status: Status]]
   BY <1>1, <1>3, TellDoes DEF Says, Status
 <2>3. Kept /\ Logged(p) /\ TypeOK'
   BY <1>1, <1>3, <2>1, <2>2, KeyedDoes DEF TypeOK, Remove, files, Logged
 <2>4. PerProcess(p)' BY <1>1, <2>2, AtRest DEF PerProcess, Held, Locked, Truthful, Remove
 <2> QED BY <1>1, <2>2, <2>3, <2>4, QuietStep DEF Remove, files, Passed, TypeOK
<1> QED BY <1>2, <1>3 DEF Remove

\* What holds of a process on its way to the merge, with its job as it was.
LEMMA OnTheWay ==
  ASSUME TypeOK, NEW p \in Procs, PerProcess(p),
         pc[p] \in {"prompt", "update"}, pc'[p] \in {"update", "lock"},
         job'[p] = job[p], UNCHANGED <<runs, report, lock>>, published' = published,
         pc'[p] = "update" => keyed' = keyed,
         pc'[p] = "lock" => keyed' = keyed \cup {Run(p)} /\ keychain'[job[p].cred] # "absent"
  PROVE  PerProcess(p)'
  BY SMTT(30) DEF PerProcess, Real, Planned, Selecting, Resolved, Login, Held, Locked, Stored, Merging,
         Merges, Placed, Course, Before, Did, Run, Silent, Truthful, NoReport

\* The password goes into the Keychain, as a new item ...
LEMMA AddKeeps ==
  ASSUME IInv, NEW p \in Procs, Add(p)
  PROVE  IInv'
<1>1. TypeOK /\ PerProcess(p) /\ pc[p] = "prompt" /\ job[p] \in Jobs BY DEF IInv, Add, TypeOK
<1>2. CASE Tell(p, "refused", "none") /\ UNCHANGED <<keychain, keyed>>
  BY <1>1, <1>2, Ends DEF Add, files, Before
<1>3. CASE \/ Step(p, "update", job[p]) /\ UNCHANGED <<keychain, keyed>>
           \/ Keyed(p, "stored") /\ Step(p, "lock", job[p])
 <2>1. job[p].cred \in Addresses BY <1>1 DEF PerProcess, Planned, Selecting
 <2>2. /\ Frame(p) /\ pc'[p] \in {"update", "lock"} /\ job'[p] = job[p]
       /\ UNCHANGED <<runs, report>>
       /\ pc' \in [Procs -> Stages] /\ job' \in [Procs -> Jobs]
   BY <1>1, <1>3, StepDoes DEF Stages
 <2>3. /\ Kept /\ Logged(p) /\ TypeOK'
       /\ (pc'[p] = "update" => keyed' = keyed)
       /\ (pc'[p] = "lock" => /\ keyed' = keyed \cup {Run(p)}
                              /\ keychain'[job[p].cred] # "absent")
  <3>1. CASE Step(p, "update", job[p]) /\ UNCHANGED <<keychain, keyed>>
   <4>1. pc'[p] = "update" BY <1>1, <3>1, StepDoes DEF Stages
   <4> QED BY <1>1, <2>2, <3>1, <4>1 DEF TypeOK, Add, files, Logged, Kept
  <3>2. CASE Keyed(p, "stored") /\ Step(p, "lock", job[p])
   <4>1. pc'[p] = "lock" BY <1>1, <3>2, StepDoes DEF Stages
   <4> QED BY <1>1, <2>1, <2>2, <3>2, <4>1, KeyedDoes DEF TypeOK, Add, files, Logged
  <3> QED BY <1>3, <3>1, <3>2
 <2>4. PerProcess(p)' BY <1>1, <2>2, <2>3, OnTheWay DEF Add
 <2> QED BY <1>1, <2>2, <2>3, <2>4, QuietStep DEF Add, files, Passed, TypeOK
<1> QED BY <1>2, <1>3 DEF Add

\* ... or over the one that is there.
LEMMA UpdateKeeps ==
  ASSUME IInv, NEW p \in Procs, Update(p)
  PROVE  IInv'
<1>1. TypeOK /\ PerProcess(p) /\ pc[p] = "update" /\ job[p] \in Jobs
  BY DEF IInv, Update, TypeOK
<1>2. CASE Tell(p, "refused", "none") /\ UNCHANGED <<keychain, keyed>>
  BY <1>1, <1>2, Ends DEF Update, files, Before
<1>3. CASE Keyed(p, "stored") /\ Step(p, "lock", job[p])
 <2>1. job[p].cred \in Addresses BY <1>1 DEF PerProcess, Planned, Selecting
 <2>2. /\ Frame(p) /\ pc'[p] = "lock" /\ job'[p] = job[p]
       /\ UNCHANGED <<runs, report>>
       /\ pc' \in [Procs -> Stages] /\ job' \in [Procs -> Jobs]
   BY <1>1, <1>3, StepDoes DEF Stages
 <2>3. /\ Kept /\ Logged(p) /\ TypeOK' /\ keyed' = keyed \cup {Run(p)}
       /\ keychain'[job[p].cred] # "absent"
   BY <1>1, <1>3, <2>1, <2>2, KeyedDoes DEF TypeOK, Update, files, Logged
 <2>4. PerProcess(p)' BY <1>1, <2>2, <2>3, OnTheWay DEF Update
 <2> QED BY <1>1, <2>2, <2>3, <2>4, QuietStep DEF Update, files, Passed, TypeOK
<1> QED BY <1>2, <1>3 DEF Update

\* The locks are taken by one.
LEMMA TakeLockKeeps ==
  ASSUME IInv, NEW p \in Procs, TakeLock(p)
  PROVE  IInv'
<1>1. TypeOK /\ PerProcess(p) /\ pc[p] = "lock" /\ job[p] \in Jobs
  BY DEF IInv, TakeLock, TypeOK
<1>2. /\ Frame(p) /\ pc'[p] = "merge" /\ job'[p] = job[p]
      /\ UNCHANGED <<runs, report>>
      /\ pc' \in [Procs -> Stages] /\ job' \in [Procs -> Jobs]
  BY <1>1, StepDoes DEF Stages, TakeLock
<1>3. TypeOK' BY <1>1, <1>2 DEF TypeOK, TakeLock, files, history
<1>4. PerProcess(p)'
  BY <1>1, <1>2
  DEF PerProcess, Real, Planned, Selecting, Resolved, Login, Held, Locked, Stored, Merging,
      Merges, Placed, Course, Before, Did, Run, Silent, Truthful, TakeLock, history
<1>5. Kept /\ Logged(p) /\ Passed(p) /\ runs'[p] >= runs[p]
  BY <1>1, <1>2 DEF TakeLock, history, Kept, Logged, Passed, TypeOK
<1> QED BY <1>1, <1>2, <1>3, <1>4, <1>5, QuietStep DEF TakeLock, files, history

\* Without the locks only the password was stored.
LEMMA BusyKeeps ==
  ASSUME IInv, NEW p \in Procs, Busy(p)
  PROVE  IInv' BY Ends DEF Busy, files, history

\* The outcome is noted and the locks are about to be released.
LEMMA ConcludeDoes ==
  ASSUME TypeOK, NEW p \in Procs, NEW says \in Says, NEW status \in Status,
         Conclude(p, says, status)
  PROVE  /\ Frame(p) /\ pc'[p] = "release" /\ UNCHANGED <<runs, report>>
         /\ job'[p].ask = job[p].ask /\ job'[p].account = job[p].account
         /\ job'[p].cred = job[p].cred /\ job'[p].snapshot = job[p].snapshot
         /\ job'[p].says = says /\ job'[p].status = status
         /\ pc' \in [Procs -> Stages] /\ job' \in [Procs -> Jobs]
<1> DEFINE j == [job[p] EXCEPT !.says = says, !.status = status]
<1>1. job[p] \in Jobs BY DEF TypeOK
<1>2. /\ j \in Jobs /\ j.ask = job[p].ask /\ j.account = job[p].account
      /\ j.cred = job[p].cred /\ j.snapshot = job[p].snapshot
      /\ j.says = says /\ j.status = status BY <1>1 DEF Jobs
<1>3. Step(p, "release", j) BY DEF Conclude
<1> HIDE DEF j
<1> QED BY <1>2, <1>3, StepDoes DEF Stages

\* Under the locks nothing was published: the password only.
LEMMA StopsUnpublished ==
  ASSUME IInv, NEW p \in Procs, pc[p] \in {"merge", "write", "rename"},
         Conclude(p, "partial", "none"),
         UNCHANGED <<keychain, lock, keyed, published>>
  PROVE  PerProcess(p)'
<1>1. TypeOK /\ PerProcess(p) BY DEF IInv
<1>2. /\ pc'[p] = "release" /\ UNCHANGED <<runs, report>>
      /\ job'[p].ask = job[p].ask /\ job'[p].account = job[p].account
      /\ job'[p].cred = job[p].cred /\ job'[p].snapshot = job[p].snapshot
      /\ job'[p].says = "partial" /\ job'[p].status = "none"
  BY <1>1, ConcludeDoes DEF Says, Status
<1> QED
  BY <1>1, <1>2
  DEF PerProcess, Real, Planned, Selecting, Resolved, Login, Held, Locked, Stored, Merging,
      Merges, Placed, Course, Before, Did, Run, Silent, Truthful, NoReport

\* The merge: the document is as it will be published.
LEMMA MergeKeeps ==
  ASSUME IInv, NEW p \in Procs, Merge(p)
  PROVE  IInv'
<1>1. TypeOK /\ PerProcess(p) /\ pc[p] = "merge" /\ job[p] \in Jobs /\ Whole(visible)
  BY DEF IInv, Merge, TypeOK
<1>2. /\ UNCHANGED <<visible, durable, keychain, lock, keyed, published, granted, killed>>
      /\ temps' \in {temps, {}} BY DEF Merge, history
<1>3. Kept /\ Logged(p) /\ Passed(p) BY <1>2 DEF Kept, Logged, Passed
<1>4. CASE Conclude(p, "partial", "none")
 <2>1. /\ Frame(p) /\ UNCHANGED <<runs, report>>
       /\ pc' \in [Procs -> Stages] /\ job' \in [Procs -> Jobs]
   BY <1>1, <1>4, ConcludeDoes DEF Says, Status
 <2>2. PerProcess(p)' BY <1>1, <1>2, <1>4, StopsUnpublished
 <2>3. TypeOK' BY <1>1, <1>2, <2>1 DEF TypeOK
 <2> QED BY <1>1, <1>2, <1>3, <2>1, <2>2, <2>3, QuietStep DEF TypeOK
<1>5. CASE ~Conclude(p, "partial", "none")
 <2> DEFINE r == job[p].ask
            a == job[p].account
            m == Merged(visible[a], r, job[p].cred)
            d == [visible EXCEPT ![a] = m]
            j == [job[p] EXCEPT !.planned = d]
 <2>1. /\ ~Changed(visible[a], r, job[p].snapshot) /\ ValidDocument(d)
       /\ Step(p, "write", j) BY <1>5 DEF Merge
 <2>2. /\ r \in RequestRecord /\ a \in Accounts /\ job[p].cred \in Addresses
       /\ job[p].cred = Login(p) /\ visible[a] \in Bindings /\ visible \in Documents
       /\ keychain[job[p].cred] # "absent" /\ job[p].snapshot \in Bindings
   BY <1>1 DEF PerProcess, Real, Planned, Selecting, Resolved, TypeOK, Documents, Jobs,
               Stored
 <2>3. /\ m \in Bindings /\ m.aliases = visible[a].aliases \cup {r.from}
       /\ m.cred = Login(p)
       /\ m.hosts = IF r.hosts # NoFlags THEN r.hosts ELSE job[p].snapshot.hosts
  <3>1. m.cred = Login(p) BY <2>1, <2>2 DEF Merged, Changed, Login
  <3>2. m.hosts = IF r.hosts # NoFlags THEN r.hosts ELSE job[p].snapshot.hosts
    BY <2>1 DEF Merged, Changed
  <3>3. m.aliases = visible[a].aliases \cup {r.from} BY DEF Merged
  <3>4. m.cred \in Addresses BY <2>2, <3>1
  <3>5. m.hosts \in Hosts BY <2>2 DEF Merged, RequestRecord, Bindings
  <3>6. m.aliases \subseteq Addresses BY <2>2, <3>3 DEF RequestRecord, Bindings
  <3>7. m = [aliases |-> m.aliases, cred |-> m.cred, hosts |-> m.hosts] BY DEF Merged
  <3> HIDE DEF m
  <3> QED BY <3>1, <3>2, <3>3, <3>4, <3>5, <3>6, <3>7 DEF Bindings
 <2> HIDE DEF m
 <2>4. /\ d \in Documents /\ d[a] = m /\ \A b \in Accounts \ {a} : d[b] = visible[b]
   BY <2>2, <2>3 DEF Documents
 <2> HIDE DEF d
 <2>5. Whole(d)
  <3>1. Secret(d) BY <1>1, <2>2, <2>3, <2>4 DEF Whole, Secret
  <3> QED BY <2>1, <3>1 DEF Whole
 <2>6. /\ j \in Jobs /\ j.ask = r /\ j.account = a /\ j.cred = job[p].cred
       /\ j.snapshot = job[p].snapshot /\ j.planned = d BY <1>1, <2>4 DEF Jobs
 <2>7. PICK e, k : e = d /\ k = j OBVIOUS
 <2> HIDE DEF j
 <2>8. /\ Frame(p) /\ pc'[p] = "write" /\ job'[p] = k /\ UNCHANGED <<runs, report>>
       /\ pc' \in [Procs -> Stages] /\ job' \in [Procs -> Jobs]
   BY <1>1, <2>1, <2>6, <2>7, StepDoes DEF Stages
 <2>9. TypeOK' BY <1>1, <1>2, <2>8 DEF TypeOK
 <2>10. Whole(e)' BY <1>3, <2>5, <2>7, WholeKept
 <2>11. /\ k.ask = r /\ k.account = a /\ k.cred = job[p].cred
        /\ k.snapshot = job[p].snapshot /\ k.planned = e BY <2>6, <2>7
 <2>12. Merges(p)'
  <3>1. /\ r.from \in e[a].aliases /\ visible[a].aliases \subseteq e[a].aliases
        /\ e[a].cred = Login(p)
        /\ e[a].hosts = IF r.hosts # NoFlags THEN r.hosts ELSE job[p].snapshot.hosts
        /\ \A b \in Accounts \ {a} : e[b] = visible[b] BY <2>3, <2>4, <2>7
  <3>2. Login(p)' = Login(p) BY <2>8, <2>11 DEF Login
  <3> QED BY <1>2, <2>8, <2>10, <2>11, <3>1, <3>2 DEF Merges
 <2>13. PerProcess(p)'
   BY <1>1, <1>2, <2>8, <2>11, <2>12
   DEF PerProcess, Real, Planned, Selecting, Resolved, Login, Held, Locked, Stored, Merging,
       Placed, Course, Before, Did, Run, Silent, Truthful
 <2> QED BY <1>1, <1>2, <1>3, <2>8, <2>9, <2>13, QuietStep DEF TypeOK
<1> QED BY <1>4, <1>5

\* A document that stays is whole as before.
LEMMA DocumentsKept ==
  ASSUME IInv, Kept
  PROVE  /\ visible' \in {visible, durable} => Whole(visible)'
         /\ durable' \in {visible, durable} => Whole(durable)'
<1>1. \A d : Whole(d) => Whole(d)' BY WholeKept
<1>2. PICK v, d : v = visible /\ d = durable OBVIOUS
<1>3. Whole(v)' /\ Whole(d)' BY <1>1, <1>2 DEF IInv
<1>4. visible' \in {visible, durable} => Whole(visible)'
 <2>1. visible' \in {visible, durable} => visible' \in {v, d} BY <1>2
 <2> QED BY <1>3, <2>1
<1>5. durable' \in {visible, durable} => Whole(durable)'
 <2>1. durable' \in {visible, durable} => durable' \in {v, d} BY <1>2
 <2> QED BY <1>3, <2>1
<1> QED BY <1>4, <1>5

\* The temporary file is there until the rename.
LEMMA WriteKeeps ==
  ASSUME IInv, NEW p \in Procs, Write(p)
  PROVE  IInv'
<1>1. TypeOK /\ PerProcess(p) /\ pc[p] = "write" /\ job[p] \in Jobs BY DEF IInv, Write, TypeOK
<1>2. UNCHANGED <<visible, durable, keychain, lock, keyed, published, granted, killed>>
  BY DEF Write, history
<1>3. Kept /\ Logged(p) /\ Passed(p) /\ Mine(p) BY <1>2 DEF Kept, Logged, Passed, Mine
<1>4. CASE UNCHANGED temps /\ Conclude(p, "partial", "none")
 <2>1. /\ Frame(p) /\ UNCHANGED <<runs, report>>
       /\ pc' \in [Procs -> Stages] /\ job' \in [Procs -> Jobs]
   BY <1>1, <1>4, ConcludeDoes DEF Says, Status
 <2>2. PerProcess(p)' BY <1>1, <1>2, <1>4, StopsUnpublished
 <2>3. TypeOK' BY <1>1, <1>2, <1>4, <2>1 DEF TypeOK
 <2> QED BY <1>1, <1>2, <1>3, <1>4, <2>1, <2>2, <2>3, QuietStep DEF TypeOK
<1>5. CASE temps' = temps \cup {Run(p)} /\ Step(p, "rename", job[p])
 <2>1. /\ Frame(p) /\ pc'[p] = "rename" /\ job'[p] = job[p] /\ UNCHANGED <<runs, report>>
       /\ pc' \in [Procs -> Stages] /\ job' \in [Procs -> Jobs]
   BY <1>1, <1>5, StepDoes DEF Stages
 <2>2. Run(p) \in Ids /\ Run(p)' = Run(p) BY <1>1, <2>1 DEF TypeOK, Run, Ids
 <2>3. TypeOK' BY <1>1, <1>2, <1>5, <2>1, <2>2 DEF TypeOK
 <2>4. PICK d : d = job[p].planned OBVIOUS
 <2>5. Whole(d)' BY <1>1, <1>3, <2>4, WholeKept DEF PerProcess, Merges, Merging
 <2>6. Merges(p)' BY <1>1, <1>2, <2>1, <2>4, <2>5 DEF PerProcess, Merges, Merging, Login
 <2>7. PerProcess(p)'
   BY <1>1, <1>2, <2>1, <2>6
   DEF PerProcess, Real, Planned, Selecting, Resolved, Login, Held, Locked, Stored, Merging,
       Placed, Course, Before, Did, Run, Silent, Truthful
 <2>8. \A q \in Procs : PerProcess(q)' BY <1>3, <2>1, <2>3, <2>7, OthersKept
 <2>9. Swept'
  <3>1. \A q \in Procs : pc[q] = "rename" => Run(q)' = Run(q) /\ pc'[q] = "rename"
    BY <1>1, <2>1 DEF Frame, Run
  <3>2. Renaming \cup {Run(p)} \subseteq Renaming' BY <2>1, <2>2, <3>1 DEF Renaming
  <3> QED BY <1>2, <1>5, <3>2 DEF Swept, IInv
 <2>10. Numbered' BY <1>1, <1>3, <2>1, <2>3, NumberedKept DEF TypeOK
 <2>11. Whole(visible)' /\ Whole(durable)' BY <1>2, <1>3, DocumentsKept
 <2>12. NothingLost' BY <1>2 DEF IInv, NothingLost
 <2> QED BY <2>3, <2>8, <2>9, <2>10, <2>11, <2>12 DEF IInv
<1> QED BY <1>4, <1>5 DEF Write

\* The rename: what was merged is what readers see.
LEMMA RenameKeeps ==
  ASSUME IInv, NEW p \in Procs, Rename(p)
  PROVE  IInv'
<1>1. /\ TypeOK /\ PerProcess(p) /\ pc[p] = "rename" /\ job[p] \in Jobs /\ lock = p
      /\ Run(p) \in Ids BY DEF IInv, Rename, TypeOK, PerProcess, Held, Locked, Run, Ids
<1>2. /\ UNCHANGED <<durable, keychain, lock, keyed, granted, killed>>
      /\ temps' = temps \ {Run(p)} BY DEF Rename
<1>3. Kept /\ Logged(p) /\ Passed(p) /\ Mine(p)
  BY <1>1, <1>2 DEF Rename, Kept, Logged, Passed, Mine
<1>4. ASSUME Frame(p), runs' = runs PROVE Swept'
 <2>1. \A q \in Procs \ {p} : pc[q] = "rename" => Run(q)' = Run(q) /\ pc'[q] = "rename"
   BY <1>4 DEF Frame, Run
 <2>2. Renaming \ {Run(p)} \subseteq Renaming' BY <2>1 DEF Renaming
 <2> QED BY <1>2, <2>2 DEF Swept, IInv
<1>5. CASE Conclude(p, "partial", "none") /\ UNCHANGED <<visible, published>>
 <2>1. /\ Frame(p) /\ UNCHANGED <<runs, report>>
       /\ pc' \in [Procs -> Stages] /\ job' \in [Procs -> Jobs]
   BY <1>1, <1>5, ConcludeDoes DEF Says, Status
 <2>2. PerProcess(p)' BY <1>1, <1>2, <1>5, StopsUnpublished
 <2>3. TypeOK' BY <1>1, <1>2, <1>5, <2>1 DEF TypeOK
 <2>4. \A q \in Procs : PerProcess(q)' BY <1>3, <2>1, <2>2, <2>3, OthersKept
 <2>5. Numbered' BY <1>1, <1>3, <2>1, <2>3, NumberedKept DEF TypeOK
 <2>6. Whole(visible)' /\ Whole(durable)' BY <1>2, <1>3, <1>5, DocumentsKept
 <2>7. NothingLost' BY <1>2, <1>5 DEF IInv, NothingLost
 <2> QED BY <1>4, <2>1, <2>3, <2>4, <2>5, <2>6, <2>7 DEF IInv
<1>6. CASE /\ visible' = job[p].planned /\ published' = published \cup {Run(p)}
           /\ Step(p, "sync", job[p])
 <2>1. /\ Frame(p) /\ pc'[p] = "sync" /\ job'[p] = job[p] /\ UNCHANGED <<runs, report>>
       /\ pc' \in [Procs -> Stages] /\ job' \in [Procs -> Jobs]
   BY <1>1, <1>6, StepDoes DEF Stages
 <2>2. TypeOK' BY <1>1, <1>2, <1>6, <2>1 DEF TypeOK, Jobs
 <2> DEFINE a == job[p].account
 <2>3. /\ job[p].ask.from \in visible'[a].aliases /\ a \in Accounts
       /\ \A b \in Accounts : visible[b].aliases \subseteq visible'[b].aliases
   BY <1>1, <1>6 DEF PerProcess, Merges, Merging, Planned, Selecting
 <2>4. PerProcess(p)'
   BY SMTT(30), <1>1, <1>2, <1>6, <2>1, <2>3
   DEF PerProcess, Real, Planned, Selecting, Resolved, Login, Held, Locked, Stored, Merging,
       Merges, Placed, Course, Before, Did, Run, Silent, Truthful, NoReport
 <2>5. \A q \in Procs : PerProcess(q)' BY <1>3, <2>1, <2>2, <2>4, OthersKept
 <2>6. Numbered' BY <1>1, <1>3, <2>1, <2>2, NumberedKept DEF TypeOK
 <2>7. Whole(durable)' BY <1>2, <1>3, DocumentsKept
 <2>8. Whole(visible)'
  <3>1. PICK d : d = job[p].planned OBVIOUS
  <3>2. Whole(d)' BY <1>1, <1>3, <3>1, WholeKept DEF PerProcess, Merges, Merging
  <3> QED BY <1>6, <3>1, <3>2
 <2>9. NothingLost'
  <3>1. \A g \in granted : g.account \in Accounts BY <1>1 DEF TypeOK, Grants
  <3> QED BY <1>2, <2>3, <3>1 DEF IInv, NothingLost
 <2> QED BY <1>4, <2>1, <2>2, <2>5, <2>6, <2>7, <2>8, <2>9 DEF IInv
<1> QED BY <1>5, <1>6 DEF Rename

\* The directory is synced, or nobody knows.
LEMMA SyncKeeps ==
  ASSUME IInv, NEW p \in Procs, Sync(p)
  PROVE  IInv'
<1>1. TypeOK /\ PerProcess(p) /\ pc[p] = "sync" /\ job[p] \in Jobs /\ lock = p
  BY DEF IInv, Sync, TypeOK, PerProcess, Held, Locked
<1>2. UNCHANGED <<visible, temps, keychain, lock, keyed, published, granted, killed>>
  BY DEF Sync, history
<1>3. Kept /\ Logged(p) /\ Passed(p) /\ Mine(p) BY <1>1, <1>2 DEF Kept, Logged, Passed, Mine
<1>4. PICK says \in {"stored", "partial"}, status \in {"complete", "unknown"} :
        /\ Conclude(p, says, status) /\ durable' \in {durable, visible}
        /\ (status = "complete" => durable' = visible)
        /\ (says = "stored" => status = "complete") BY DEF Sync
<1>5. /\ Frame(p) /\ pc'[p] = "release" /\ UNCHANGED <<runs, report>>
      /\ job'[p].ask = job[p].ask /\ job'[p].account = job[p].account
      /\ job'[p].cred = job[p].cred /\ job'[p].snapshot = job[p].snapshot
      /\ job'[p].says = says /\ job'[p].status = status
      /\ pc' \in [Procs -> Stages] /\ job' \in [Procs -> Jobs]
  BY <1>1, <1>4, ConcludeDoes DEF Says, Status
<1>6. TypeOK' BY <1>1, <1>2, <1>4, <1>5 DEF TypeOK
<1>7. PerProcess(p)'
  BY <1>1, <1>2, <1>4, <1>5
  DEF PerProcess, Real, Planned, Selecting, Resolved, Login, Held, Locked, Stored, Merging,
      Merges, Placed, Course, Before, Did, Run, Silent, Truthful, NoReport
<1>8. \A q \in Procs : PerProcess(q)' BY <1>3, <1>5, <1>6, <1>7, OthersKept
<1>9. Numbered' BY <1>1, <1>3, <1>5, <1>6, NumberedKept DEF TypeOK
<1>10. Whole(visible)' /\ Whole(durable)' BY <1>2, <1>3, <1>4, DocumentsKept
<1>11. NothingLost' BY <1>2, <1>4 DEF IInv, NothingLost
<1>12. Swept'
 <2>1. \A q \in Procs : pc[q] = "rename" => Run(q)' = Run(q) /\ pc'[q] = "rename"
   BY <1>1, <1>5 DEF Frame, Run
 <2>2. Renaming \subseteq Renaming' BY <2>1 DEF Renaming
 <2> QED BY <1>2, <2>2 DEF Swept, IInv
<1> QED BY <1>6, <1>8, <1>9, <1>10, <1>11, <1>12 DEF IInv

\* The locks are released, and what was done is told.
LEMMA ReleaseKeeps ==
  ASSUME IInv, NEW p \in Procs, Release(p)
  PROVE  IInv'
<1>1. TypeOK /\ PerProcess(p) /\ pc[p] = "release" /\ job[p] \in Jobs /\ lock = p
  BY DEF IInv, Release, TypeOK, PerProcess, Held, Locked
<1>2. UNCHANGED <<visible, durable, temps, keychain, keyed, published, killed>>
      /\ lock' = Nobody BY DEF Release, files
<1>3. Kept /\ Logged(p) /\ Passed(p) /\ Mine(p) BY <1>1, <1>2 DEF Kept, Logged, Passed, Mine
<1>4. PICK says \in {job[p].says, "partial"} : Tell(p, says, job[p].status) BY DEF Release
<1>5. /\ Frame(p) /\ pc'[p] = "idle" /\ runs' = runs
      /\ report'[p] = [says |-> says, status |-> job[p].status]
      /\ pc' \in [Procs -> Stages] /\ job' \in [Procs -> Jobs]
      /\ report' \in [Procs -> [says: Says, status: Status]]
  BY <1>1, <1>4, TellDoes DEF Says, Jobs
<1>6. granted' \subseteq Grants
      /\ \A g \in granted' : g.alias \in visible[g.account].aliases \cap durable[g.account].aliases
 <2> DEFINE g == [account |-> job[p].account, alias |-> job[p].ask.from]
 <2>1. g \in Grants /\ g.account = job[p].account /\ g.alias = job[p].ask.from
   BY <1>1 DEF PerProcess, Real, Planned, Selecting, Grants, RequestRecord
 <2>2. job[p].status = "complete" =>
         g.alias \in visible[g.account].aliases \cap durable[g.account].aliases
   BY <1>1, <2>1 DEF PerProcess, Placed
 <2>3. granted' = IF job[p].status = "complete" THEN granted \cup {g} ELSE granted
   BY DEF Release
 <2> HIDE DEF g
 <2> QED BY <1>1, <2>1, <2>2, <2>3 DEF IInv, NothingLost, TypeOK
<1>7. TypeOK' BY <1>1, <1>2, <1>5, <1>6 DEF TypeOK
<1>8. Truthful(p)' BY <1>1, <1>2, <1>4, <1>5 DEF PerProcess, Course, Run, Truthful
<1>9. PerProcess(p)' BY <1>2, <1>5, <1>8, AtRest, BindingsAssumption
<1>10. \A q \in Procs : PerProcess(q)' BY <1>3, <1>5, <1>7, <1>9, OthersKept
<1>11. Numbered' BY <1>1, <1>3, <1>5, <1>7, NumberedKept DEF TypeOK
<1>12. Whole(visible)' /\ Whole(durable)' BY <1>2, <1>3, DocumentsKept
<1>13. NothingLost' BY <1>2, <1>6 DEF NothingLost
<1>14. Swept'
 <2>1. \A q \in Procs : pc[q] = "rename" => Run(q)' = Run(q) /\ pc'[q] = "rename"
   BY <1>1, <1>5 DEF Frame, Run
 <2>2. Renaming \subseteq Renaming' BY <2>1 DEF Renaming
 <2> QED BY <1>2, <2>2 DEF Swept, IInv
<1> QED BY <1>7, <1>10, <1>11, <1>12, <1>13, <1>14 DEF IInv

\* A killed process leaves the files as they are.
LEMMA KillKeeps ==
  ASSUME IInv, NEW p \in Procs, Kill(p)
  PROVE  IInv'
<1>1. TypeOK /\ PerProcess(p) BY DEF IInv
<1>2. /\ UNCHANGED <<visible, durable, temps, keychain, keyed, published, granted>>
      /\ killed' = TRUE /\ lock' = IF lock = p THEN Nobody ELSE lock BY DEF Kill, files
<1>3. Kept /\ Logged(p) /\ Passed(p) /\ Mine(p) BY <1>2 DEF Kept, Logged, Passed, Mine
<1>4. /\ Frame(p) /\ pc'[p] = "idle" /\ runs' = runs
      /\ report'[p] = [says |-> "nothing", status |-> "none"]
      /\ pc' \in [Procs -> Stages] /\ job' \in [Procs -> Jobs]
      /\ report' \in [Procs -> [says: Says, status: Status]]
  BY <1>1, TellDoes DEF Says, Status, Kill
<1>5. TypeOK' BY <1>1, <1>2, <1>4 DEF TypeOK
<1>6. PerProcess(p)'
 <2>1. lock' # p BY <1>2, BindingsAssumption
 <2> QED BY <1>4, <2>1, AtRest DEF Truthful
<1>7. \A q \in Procs : PerProcess(q)' BY <1>3, <1>4, <1>5, <1>6, OthersKept
<1>8. Numbered' BY <1>1, <1>3, <1>4, <1>5, NumberedKept DEF TypeOK
<1>9. Whole(visible)' /\ Whole(durable)' BY <1>2, <1>3, DocumentsKept
<1>10. NothingLost' BY <1>2 DEF IInv, NothingLost
<1>11. Swept' BY <1>2 DEF Swept
<1> QED BY <1>5, <1>7, <1>8, <1>9, <1>10, <1>11 DEF IInv

\* A power loss leaves the document that was durable, or the visible one.
LEMMA PowerLossKeeps ==
  ASSUME IInv, PowerLoss
  PROVE  IInv'
<1>1. TypeOK BY DEF IInv
<1>2. Kept BY DEF PowerLoss, Kept
<1>3. NewJob(NoRequest) \in Jobs BY NewJobType
<1>4. TypeOK' BY <1>1, <1>3 DEF TypeOK, PowerLoss, Stages, NoReport, Says, Status
<1>5. \A q \in Procs : PerProcess(q)'
 <2> TAKE q \in Procs
 <2>1. pc'[q] = "idle" /\ report'[q] = NoReport /\ lock' = Nobody BY DEF PowerLoss
 <2>2. Truthful(q)' BY <2>1 DEF Truthful, NoReport
 <2> QED BY <2>1, <2>2, AtRest, BindingsAssumption
<1>6. Numbered' BY DEF IInv, Numbered, Did, PowerLoss
<1>7. Whole(visible)' /\ Whole(durable)' BY <1>2, DocumentsKept DEF PowerLoss
<1>8. NothingLost' BY DEF IInv, NothingLost, PowerLoss
<1>9. Swept' BY DEF Swept, PowerLoss
<1> QED BY <1>4, <1>5, <1>6, <1>7, <1>8, <1>9 DEF IInv

-------------------------------------------------------------------------------
(* The theorems.                                                           *)

\* A step that changes nothing.
LEMMA StutterKeeps == ASSUME IInv, UNCHANGED vars PROVE IInv'
<1>1. UNCHANGED <<visible, durable, temps, keychain, lock, pc, job, runs, report,
                  keyed, published, granted, killed>> BY DEF vars, files, worker, history
<1> QED
  BY SMTT(30), <1>1
  DEF IInv, TypeOK, Swept, Renaming, Run, Whole, Secret, ValidDocument, NothingLost, Numbered,
      Did, PerProcess, Real, Planned, Resolved, Login, Held, Stored, Merges, Placed, Course,
      Silent, Truthful

\* Every step keeps the invariant.
LEMMA NextKeeps == ASSUME IInv, [Next]_vars PROVE IInv'
<1>1. ASSUME NEW p \in Procs,
             \/ \E r \in Requests : Begin(p, r)
             \/ Plan(p) \/ Abandon(p) \/ Remove(p) \/ Add(p) \/ Update(p) \/ TakeLock(p)
             \/ Busy(p) \/ Merge(p) \/ Write(p) \/ Rename(p) \/ Sync(p) \/ Release(p) \/ Kill(p)
      PROVE  IInv'
  BY <1>1, BeginKeeps, PlanKeeps, AbandonKeeps, RemoveKeeps, AddKeeps, UpdateKeeps,
     TakeLockKeeps, BusyKeeps, MergeKeeps, WriteKeeps, RenameKeeps, SyncKeeps, ReleaseKeeps,
     KillKeeps
<1> QED BY <1>1, PowerLossKeeps, StutterKeeps DEF Next

\* The invariant holds in every behaviour.
THEOREM BindingsInvariant == Spec => []IInv
<1> QED BY InitInv, NextKeeps, PTL DEF Spec

\* The document of bindings stays valid, also after a power loss, one process
\* at a time changes it, and no alias whose setup was reported as complete is
\* ever lost from it.
THEOREM BindingsAlwaysKept == Spec => []BindingsKept
<1>1. IInv => BindingsKept
 <2> SUFFICES ASSUME IInv PROVE BindingsKept OBVIOUS
 <2>1. ValidDocument(visible) /\ ValidDocument(durable) BY DEF IInv, Whole
 <2>2. \A p \in Procs : (lock = p) <=> (pc[p] \in Locked) BY DEF IInv, PerProcess, Held
 <2>3. temps \subseteq {Run(p) : p \in {q \in Procs : pc[q] = "rename"}} \/ killed
   BY DEF IInv, Swept, Renaming
 <2>4. \A c \in Addresses : keychain[c] \in {"absent", "stored", "removed"}
   BY DEF IInv, TypeOK
 <2> QED BY <2>1, <2>2, <2>3, <2>4 DEF IInv, BindingsKept, BindingsInv
<1> QED BY <1>1, BindingsInvariant, PTL

\* Every binding names a login whose password was stored, and setup reports
\* exactly what it did.
THEOREM SetupAlwaysTrue == Spec => []SetupTrue
<1>1. IInv => SetupTrue
 <2> SUFFICES ASSUME IInv PROVE SetupTrue OBVIOUS
 <2>1. BoundHasPassword BY DEF IInv, Whole, Secret, BoundHasPassword
 <2>2. EffectsTruthful BY DEF IInv, PerProcess, Truthful, EffectsTruthful
 <2> QED BY <2>1, <2>2 DEF SetupTrue
<1> QED BY <1>1, BindingsInvariant, PTL

\* Only the rename of a process leads from its temporary file to the sync.
LEMMA OnlyRename ==
  ASSUME TypeOK, NEW p \in Procs, [Next]_vars, pc[p] = "rename", pc'[p] = "sync"
  PROVE  visible' = job[p].planned
<1>1. pc \in [Procs -> Stages] BY DEF TypeOK
<1>2. ~UNCHANGED vars BY DEF vars, worker
<1>3. ~PowerLoss BY DEF PowerLoss
<1>4. PICK q \in Procs :
        \/ \E r \in Requests : Begin(q, r)
        \/ Plan(q) \/ Abandon(q) \/ Remove(q) \/ Add(q) \/ Update(q) \/ TakeLock(q)
        \/ Busy(q) \/ Merge(q) \/ Write(q) \/ Rename(q) \/ Sync(q) \/ Release(q) \/ Kill(q)
  BY <1>2, <1>3 DEF Next
<1>5. \E step : pc' = [pc EXCEPT ![q] = step]
 <2>1. CASE \/ \E r \in Requests : Begin(q, r)
            \/ Plan(q) \/ Abandon(q) \/ Remove(q) \/ Add(q) \/ Update(q) \/ TakeLock(q)
   BY <2>1 DEF Begin, Plan, Abandon, Refuse, Remove, Add, Update, TakeLock, Step, Tell
 <2>2. CASE Busy(q) \/ Merge(q) \/ Write(q) \/ Rename(q) \/ Sync(q) \/ Release(q) \/ Kill(q)
   BY <2>2 DEF Busy, Merge, Write, Rename, Sync, Release, Kill, Conclude, Step, Tell
 <2> QED BY <1>4, <2>1, <2>2
<1>6. q = p BY <1>1, <1>5
<1>7. ~Kill(p) BY <1>1 DEF Kill, Tell
<1>8. Rename(p)
  BY <1>4, <1>6, <1>7
  DEF Begin, Plan, Abandon, Remove, Add, Update, TakeLock, Busy, Merge, Write, Sync, Release
<1>9. ~Conclude(p, "partial", "none") BY <1>1 DEF Conclude, Step
<1> QED BY <1>8, <1>9 DEF Rename

\* A publication sets login and hosts only to what was asked for or read
\* before the prompt, and leaves the other accounts alone.
THEOREM SeenOrAskedAlways == Spec => SeenOrAsked
<1> DEFINE SoundRun(p) ==
      LET a == job[p].account
          r == job[p].ask
          seen == job[p].snapshot
      IN /\ visible'[a].cred = IF r.cred # NoAddress THEN r.cred
                               ELSE IF Bound(seen) THEN seen.cred ELSE r.from
         /\ visible'[a].hosts = IF r.hosts # NoFlags THEN r.hosts ELSE seen.hosts
         /\ \A b \in Accounts \ {a} : visible'[b] = visible[b]
<1>1. ASSUME IInv, [Next]_vars, NEW p \in Procs, pc[p] = "rename", pc'[p] = "sync"
      PROVE  SoundRun(p)
 <2>1. TypeOK /\ Merges(p) BY <1>1 DEF IInv, PerProcess
 <2>2. visible' = job[p].planned BY <1>1, <2>1, OnlyRename
 <2> QED BY <1>1, <2>1, <2>2 DEF Merges, Merging, Login
<1>2. IInv /\ [Next]_vars => \A p \in Procs : pc[p] = "rename" /\ pc'[p] = "sync" => SoundRun(p)
  BY <1>1
<1>3. IInv /\ [Next]_vars
        => [\A p \in Procs : pc[p] = "rename" /\ pc'[p] = "sync" => SoundRun(p)]_vars BY <1>2
<1> QED BY <1>3, BindingsInvariant, PTL DEF Spec, SeenOrAsked
----------------------------------------------------------------------------
(* The drafts directory. *)

DocVers == {"none", "first", "adopted", "edited"}
FileBytes == {None, "part", Bytes, "edited"}
ShelfDocs == [ver : DocVers, old : BOOLEAN, fp : [Files -> FileBytes]]
ShelfEntries ==
  [doc : ShelfDocs, dir : BOOLEAN, files : [Files -> FileBytes],
   claim : {None, "save", "send", "handoff", "saved"}, temp : {None, "old", "young"}, lock : BOOLEAN]
RemovalSteps == {"idle", "doc", "sync", "claims", "dir", "lock", "done"}
AdoptSteps == {"off", "stage", "lease", "mkdir", "copy", "temp", "rename", "sync", "finish", "done"}
EditSteps == {"off", "lease", "read", "rename", "sync", "written", "refused", "remove", "done"}
PruneSteps == {"off", "look", "orphans", "drafts", "sweep", "locks", "done"}
ShelfEnds == {None, "ok", "error", "killed"}
PruneEnds == {None, "ok", "failed", "killed", "stable", "unstable"}
Traces == {"candidate", "artifact", "temp", "lock"}

RemovalRuns == [at : RemovalSteps, sweep : BOOLEAN, err : BOOLEAN]
AdoptRuns == [pc : AdoptSteps, made : BOOLEAN, started : BOOLEAN, retained : BOOLEAN, result : ShelfEnds]
EditRuns == [pc : EditSteps, kind : Edits \cup {None}, ref : {New, Target}, result : ShelfEnds]
PruneRuns ==
  [pc : PruneSteps, kind : {None, "prune", "dryrun"}, ref : Refs \cup {None},
   seen : [Refs -> SUBSET Traces], todo : SUBSET Refs, orphans : SUBSET Refs,
   runs : Nat, quiet : BOOLEAN, truth : BOOLEAN, result : PruneEnds]
Holders == {None, "adopt", "edit", "prune"}

ShelfTyped ==
  /\ shelf \in [Refs -> ShelfEntries] /\ disk \in [Refs -> ShelfEntries]
  /\ noted \subseteq {"prune", "list"}
  /\ stage \in [Files -> FileBytes] /\ fp \in [Files -> FileBytes]
RunsTyped ==
  /\ holder \in [Refs -> Holders] /\ rm \in [Refs -> RemovalRuns]
  /\ ad \in AdoptRuns /\ ed \in EditRuns /\ pr \in PruneRuns
  /\ left \in Nat

\* Who has a lease: the command at a step between taking it and giving it
\* back. A removal runs under the lease of an edit or of a prune.
AdoptLeased == {"mkdir", "copy", "temp", "rename", "sync"}
EditLeased == {"read", "rename", "sync", "written", "refused", "remove"}
ShelfLeases ==
  /\ ad.pc \in AdoptLeased => holder[New] = "adopt"
  /\ ed.pc \in EditLeased => holder[ed.ref] = "edit"
  /\ pr.ref # None => pr.pc \in {"drafts", "sweep"} /\ holder[pr.ref] = "prune"
  /\ pr.pc \notin {"off", "done"} => pr.kind # None /\ pr.result # "killed"
  /\ \A r \in Refs :
      /\ holder[r] = "adopt" => r = New /\ ad.pc \in AdoptLeased \cup {"finish"}
      /\ holder[r] = "edit" => r = ed.ref /\ ed.pc \in EditLeased
      /\ holder[r] = "prune" => r = pr.ref
      /\ rm[r].at # "idle" => (holder[r] = "edit" /\ ed.pc = "remove") \/ holder[r] = "prune"

\* The fingerprints of a document d, if there is one, are those of files that
\* stand under their names, now and after a power failure.
Stands(d, x, y) ==
  d.ver # "none" => \A f \in Files : d.fp[f] # None =>
    x.dir /\ y.dir /\ x.files[f] = d.fp[f] /\ y.files[f] = d.fp[f]
DocsStand == \A r \in Refs : Stands(shelf[r].doc, shelf[r], disk[r]) /\ Stands(disk[r].doc, shelf[r], disk[r])
NoDirNoFiles == \A r \in Refs : ~shelf[r].dir => shelf[r].files = NoFiles

\* Before its document is there, an adoption has its files written and synced.
BeforeDoc == {"off", "stage", "lease", "mkdir", "copy", "temp", "rename"}
Copied ==
  /\ ad.pc \in BeforeDoc => shelf[New].doc.ver = "none" /\ disk[New].doc.ver = "none"
  /\ ad.pc \in {"off", "stage"} => \A f \in Files : stage[f] # "part"
  /\ ad.pc \in {"lease", "mkdir", "copy"} => \A f \in Files : fp[f] \notin {None, "part"}
  /\ ad.pc = "copy" =>
       shelf[New].dir /\ \A f \in Files : shelf[New].files[f] \in {None, "part", fp[f]}
  /\ ad.pc \in {"temp", "rename"} =>
       shelf[New].dir /\ disk[New].dir /\ shelf[New].files = fp /\ disk[New].files = fp

\* A removal takes files only after the document is gone from the disk.
DocsGo ==
  /\ ed.pc \in {"rename", "sync"} => HasDoc(ed.ref)
  /\ \A r \in Refs :
      /\ rm[r].at \in {"sync", "claims", "dir"} => ~HasDoc(r)
      /\ rm[r].at = "dir" \/ (rm[r].at = "claims" /\ ~rm[r].sweep) => disk[r].doc.ver = "none"

\* Whose document may be removed.
MayGo ==
  /\ ~shelf[New].doc.old /\ ~disk[New].doc.old
  /\ \A r \in Refs : rm[r].at = "doc" =>
      /\ holder[r] = "prune" => PruneEligible(r)
      /\ holder[r] = "edit" => ed.kind \in {"discard", "save"}
  /\ ed.kind = None <=> ed.pc = "off"
  /\ ed.pc = "remove" /\ ed.kind \in {"update", "claim"} => rm[ed.ref].err
  /\ ed.result = "ok" => ed.pc = "done"
  /\ ad.result = "ok" => ad.pc \in {"finish", "done"}

\* What was reported, or will be, stands on the disk too.
Written == ed.pc = "written" \/ ed.result = "ok"
Acknowledged ==
  /\ ad.pc = "sync" => HasDoc(New)
  /\ ad.result = "ok" /\ ~Discards(New) => HasDoc(New) /\ disk[New].doc.ver # "none"
  /\ ed.kind = "update" =>
      /\ ed.pc = "sync" \/ Written => shelf[ed.ref].doc.ver = "edited" /\ ~shelf[ed.ref].doc.old
      /\ Written => disk[ed.ref].doc.ver = "edited" /\ ~disk[ed.ref].doc.old
  /\ ed.kind = "claim" =>
      /\ ed.pc = "sync" \/ Written => HasDoc(ed.ref) /\ Claimed(ed.ref)
      /\ Written => disk[ed.ref].doc.ver # "none" /\ disk[ed.ref].claim # None

DraftsInv ==
  /\ ShelfTyped /\ RunsTyped /\ ShelfLeases /\ DocsStand /\ NoDirNoFiles /\ Copied /\ DocsGo
  /\ MayGo /\ Acknowledged
----------------------------------------------------------------------------
(* What the file calls do to an entry of the shelf, and the leases to their  *)
(* holders.                                                                 *)

\* The parts of a draft that readers of it see.
SameDraft(x, y) == x.doc = y.doc /\ x.dir = y.dir /\ x.files = y.files /\ x.claim = y.claim
OthersStand(r) == \A q \in Refs \ {r} : shelf'[q] = shelf[q]
NothingEnters == shelf' = shelf /\ noted' = noted
DiskStands == disk' = disk

\* The names of this module's constants.
LEMMA Names ==
  /\ New \in Refs /\ Target \in Refs /\ New # Target /\ None \notin Refs
  /\ None \notin {"adopt", "edit", "prune", "save", "send", "handoff", "saved", "young", "old",
                  "update", "claim", "discard", "dryrun", "list",
                  "part", "bytes", "edited", "ok", "error", "killed", "failed", "stable", "unstable"}
  BY ShelfAssumption DEF Commands, Edits

\* What an empty place holds.
LEMMA NothingThere ==
  /\ NoFiles \in [Files -> FileBytes] /\ NoDoc \in ShelfDocs /\ NoDoc.ver = "none" /\ NoDoc.old = FALSE
  /\ NoDoc.fp = NoFiles /\ \A f \in Files : NoFiles[f] = None
  BY DEF NoFiles, NoDoc, ShelfDocs, FileBytes, DocVers

\* An entry with one of its parts changed.
LEMMA DocChanged ==
  ASSUME NEW x \in ShelfEntries, NEW d \in ShelfDocs
  PROVE  /\ [x EXCEPT !.doc = d] \in ShelfEntries /\ [x EXCEPT !.doc = d].doc = d
         /\ [x EXCEPT !.doc = d].dir = x.dir /\ [x EXCEPT !.doc = d].files = x.files
         /\ [x EXCEPT !.doc = d].claim = x.claim /\ [x EXCEPT !.doc = d].temp = x.temp
         /\ [x EXCEPT !.doc = d].lock = x.lock BY DEF ShelfEntries

\* The same of its directory.
LEMMA DirChanged ==
  ASSUME NEW x \in ShelfEntries, NEW d \in BOOLEAN
  PROVE  /\ [x EXCEPT !.dir = d] \in ShelfEntries /\ [x EXCEPT !.dir = d].dir = d
         /\ [x EXCEPT !.dir = d].doc = x.doc /\ [x EXCEPT !.dir = d].files = x.files
         /\ [x EXCEPT !.dir = d].claim = x.claim /\ [x EXCEPT !.dir = d].temp = x.temp
         /\ [x EXCEPT !.dir = d].lock = x.lock BY DEF ShelfEntries

\* The same of its files.
LEMMA FilesChanged ==
  ASSUME NEW x \in ShelfEntries, NEW g \in [Files -> FileBytes]
  PROVE  /\ [x EXCEPT !.files = g] \in ShelfEntries /\ [x EXCEPT !.files = g].files = g
         /\ [x EXCEPT !.files = g].doc = x.doc /\ [x EXCEPT !.files = g].dir = x.dir
         /\ [x EXCEPT !.files = g].claim = x.claim /\ [x EXCEPT !.files = g].temp = x.temp
         /\ [x EXCEPT !.files = g].lock = x.lock BY DEF ShelfEntries

\* The same of its claim.
LEMMA ClaimChanged ==
  ASSUME NEW x \in ShelfEntries, NEW c \in {None, "save", "send", "handoff", "saved"}
  PROVE  /\ [x EXCEPT !.claim = c] \in ShelfEntries /\ [x EXCEPT !.claim = c].claim = c
         /\ [x EXCEPT !.claim = c].doc = x.doc /\ [x EXCEPT !.claim = c].files = x.files
         /\ [x EXCEPT !.claim = c].dir = x.dir /\ [x EXCEPT !.claim = c].temp = x.temp
         /\ [x EXCEPT !.claim = c].lock = x.lock BY DEF ShelfEntries

\* The same of its temporary file.
LEMMA TempChanged ==
  ASSUME NEW x \in ShelfEntries, NEW t \in {None, "old", "young"}
  PROVE  /\ [x EXCEPT !.temp = t] \in ShelfEntries /\ [x EXCEPT !.temp = t].temp = t
         /\ [x EXCEPT !.temp = t].doc = x.doc /\ [x EXCEPT !.temp = t].files = x.files
         /\ [x EXCEPT !.temp = t].dir = x.dir /\ [x EXCEPT !.temp = t].claim = x.claim
         /\ [x EXCEPT !.temp = t].lock = x.lock BY DEF ShelfEntries

\* The same of its lock.
LEMMA LockChanged ==
  ASSUME NEW x \in ShelfEntries, NEW d \in BOOLEAN
  PROVE  /\ [x EXCEPT !.lock = d] \in ShelfEntries /\ [x EXCEPT !.lock = d].lock = d
         /\ [x EXCEPT !.lock = d].doc = x.doc /\ [x EXCEPT !.lock = d].files = x.files
         /\ [x EXCEPT !.lock = d].dir = x.dir /\ [x EXCEPT !.lock = d].claim = x.claim
         /\ [x EXCEPT !.lock = d].temp = x.temp BY DEF ShelfEntries

\* An entry that changes leaves the others and the directory's time is new (Enters).
LEMMA EntersDoes ==
  ASSUME ShelfTyped, NEW r \in Refs, NEW e \in ShelfEntries, Enters(r, e)
  PROVE  /\ shelf' \in [Refs -> ShelfEntries] /\ noted' = {}
         /\ shelf'[r] = e /\ OthersStand(r) BY DEF ShelfTyped, Enters, OthersStand

\* The disk after a sync of the shelf.
LEMMA SyncedDoes ==
  ASSUME ShelfTyped
  PROVE  /\ Synced(disk) \in [Refs -> ShelfEntries]
         /\ \A q \in Refs :
              /\ Synced(disk)[q].doc = shelf[q].doc /\ Synced(disk)[q].dir = shelf[q].dir
              /\ Synced(disk)[q].claim = shelf[q].claim /\ Synced(disk)[q].temp = shelf[q].temp
              /\ Synced(disk)[q].lock = shelf[q].lock
              /\ shelf[q].dir => Synced(disk)[q].files = disk[q].files
<1> DEFINE g(q) == IF shelf[q].dir THEN disk[q].files ELSE NoFiles
<1>1. \A q \in Refs : g(q) \in [Files -> FileBytes]
  BY NothingThere DEF ShelfTyped, ShelfEntries
<1>2. \A q \in Refs : shelf[q] \in ShelfEntries BY DEF ShelfTyped
<1>3. Synced(disk) = [q \in Refs |-> [shelf[q] EXCEPT !.files = g(q)]] BY DEF Synced
<1>4. \A q \in Refs : Synced(disk)[q] = [shelf[q] EXCEPT !.files = g(q)] BY <1>3
<1>5. \A q \in Refs : shelf[q].dir => g(q) = disk[q].files OBVIOUS
<1> HIDE DEF g
<1>6. ASSUME NEW q \in Refs
      PROVE  /\ Synced(disk)[q] \in ShelfEntries
             /\ Synced(disk)[q].doc = shelf[q].doc /\ Synced(disk)[q].dir = shelf[q].dir
             /\ Synced(disk)[q].claim = shelf[q].claim /\ Synced(disk)[q].temp = shelf[q].temp
             /\ Synced(disk)[q].lock = shelf[q].lock /\ Synced(disk)[q].files = g(q)
 <2>1. shelf[q] \in ShelfEntries /\ g(q) \in [Files -> FileBytes] BY <1>1, <1>2
 <2>2. Synced(disk)[q] = [shelf[q] EXCEPT !.files = g(q)] BY <1>4
 <2> QED BY <2>1, <2>2, FilesChanged
<1>7. Synced(disk) \in [Refs -> ShelfEntries]
 <2>1. \A q \in Refs : [shelf[q] EXCEPT !.files = g(q)] \in ShelfEntries BY <1>4, <1>6
 <2> QED BY <1>3, <2>1
<1> QED BY <1>5, <1>6, <1>7

\* A removal goes to its next step.
LEMMA RemovalAtDoes ==
  ASSUME RunsTyped, NEW r \in Refs, NEW at \in RemovalSteps, RemovalAt(r, at)
  PROVE  /\ rm' \in [Refs -> RemovalRuns] /\ \A q \in Refs \ {r} : rm'[q] = rm[q]
         /\ rm'[r].at = at /\ rm'[r].sweep = rm[r].sweep /\ rm'[r].err = rm[r].err
  BY DEF RunsTyped, RemovalAt, RemovalRuns

\* A removal begins: of a draft, or of what a sweep found.
LEMMA RemovesDoes ==
  ASSUME RunsTyped, NEW r \in Refs, NEW sweep \in BOOLEAN, Removes(r, sweep)
  PROVE  /\ rm' \in [Refs -> RemovalRuns] /\ \A q \in Refs \ {r} : rm'[q] = rm[q]
         /\ rm'[r].at = (IF sweep THEN "claims" ELSE "doc") /\ rm'[r].sweep = sweep /\ ~rm'[r].err
  BY DEF RunsTyped, Removes, RemovalRuns, Idle, RemovalSteps

\* No removal is under way.
LEMMA IdleIs == Idle \in RemovalRuns /\ Idle.at = "idle" /\ ~Idle.sweep /\ ~Idle.err
  BY DEF Idle, RemovalRuns, RemovalSteps

\* A lease that is taken was free; at most the lock file is new (acquireDraftLease).
LEMMA LeasesDoes ==
  ASSUME ShelfTyped, RunsTyped, NEW r \in Refs, NEW p \in Holders, Leases(p, r)
  PROVE  /\ holder[r] = None /\ holder'[r] = p /\ holder' \in [Refs -> Holders]
         /\ \A q \in Refs \ {r} : holder'[q] = holder[q]
         /\ shelf' \in [Refs -> ShelfEntries] /\ OthersStand(r) /\ shelf'[r].lock
         /\ SameDraft(shelf'[r], shelf[r]) /\ shelf'[r].temp = shelf[r].temp
         /\ noted' = {} \/ NothingEnters
<1>1. shelf[r] \in ShelfEntries /\ shelf[r].lock \in BOOLEAN BY DEF ShelfTyped, ShelfEntries
<1>2. /\ holder[r] = None /\ holder'[r] = p /\ holder' \in [Refs -> Holders]
      /\ \A q \in Refs \ {r} : holder'[q] = holder[q] BY DEF Leases, RunsTyped
<1>3. CASE shelf[r].lock
  BY <1>1, <1>2, <1>3 DEF Leases, SameShelf, SameDraft, OthersStand, NothingEnters, ShelfTyped
<1>4. CASE ~shelf[r].lock
 <2>1. Enters(r, [shelf[r] EXCEPT !.lock = TRUE]) BY <1>4 DEF Leases
 <2>2. [shelf[r] EXCEPT !.lock = TRUE] \in ShelfEntries BY <1>1, LockChanged
 <2>3. /\ shelf' \in [Refs -> ShelfEntries] /\ noted' = {}
       /\ shelf'[r] = [shelf[r] EXCEPT !.lock = TRUE] /\ OthersStand(r)
   BY <2>1, <2>2, EntersDoes
 <2>4. /\ [shelf[r] EXCEPT !.lock = TRUE].lock
       /\ [shelf[r] EXCEPT !.lock = TRUE].temp = shelf[r].temp
       /\ SameDraft([shelf[r] EXCEPT !.lock = TRUE], shelf[r])
   BY <1>1, LockChanged DEF SameDraft
 <2> QED BY <1>2, <2>3, <2>4
<1> QED BY <1>1, <1>3, <1>4

\* A lease is given back with the removal under it.
LEMMA ReleasesDoes ==
  ASSUME RunsTyped, NEW r \in Refs, Releases(r)
  PROVE  /\ holder' \in [Refs -> Holders] /\ rm' \in [Refs -> RemovalRuns]
         /\ holder'[r] = None /\ rm'[r] = Idle
         /\ \A q \in Refs \ {r} : holder'[q] = holder[q] /\ rm'[q] = rm[q]
  BY IdleIs DEF Releases, RunsTyped, Holders

\* The leases of stopped commands are free.
LEMMA FreedDoes ==
  ASSUME RunsTyped, NEW S, Freed(S)
  PROVE  /\ holder' \in [Refs -> Holders] /\ rm' \in [Refs -> RemovalRuns]
         /\ \A r \in Refs : IF holder[r] \in S THEN holder'[r] = None /\ rm'[r] = Idle
                            ELSE holder'[r] = holder[r] /\ rm'[r] = rm[r]
  BY IdleIs DEF Freed, RunsTyped, Holders

\* A temporary file is written or removed.
LEMMA TempDoes ==
  ASSUME ShelfTyped, NEW r \in Refs, NEW t \in {None, "young"}, Enters(r, [shelf[r] EXCEPT !.temp = t])
  PROVE  /\ shelf' \in [Refs -> ShelfEntries] /\ noted' = {} /\ OthersStand(r)
         /\ SameDraft(shelf'[r], shelf[r]) /\ shelf'[r].temp = t /\ shelf'[r].lock = shelf[r].lock
<1>1. shelf[r] \in ShelfEntries BY DEF ShelfTyped
<1>2. /\ [shelf[r] EXCEPT !.temp = t] \in ShelfEntries
      /\ [shelf[r] EXCEPT !.temp = t].temp = t /\ [shelf[r] EXCEPT !.temp = t].lock = shelf[r].lock
      /\ SameDraft([shelf[r] EXCEPT !.temp = t], shelf[r])
 <2>1. t \in {None, "old", "young"} OBVIOUS
 <2> QED BY <1>1, <2>1, TempChanged DEF SameDraft
<1>3. shelf' \in [Refs -> ShelfEntries] /\ noted' = {} /\ shelf'[r] = [shelf[r] EXCEPT !.temp = t] /\ OthersStand(r)
  BY <1>2, EntersDoes
<1> QED BY <1>2, <1>3

\* The steps of the runs.
LEMMA AdoptToDoes ==
  ASSUME RunsTyped, NEW step \in AdoptSteps, AdoptTo(step)
  PROVE  /\ ad' \in AdoptRuns /\ ad'.pc = step /\ ad'.made = ad.made /\ ad'.started = ad.started
         /\ ad'.retained = ad.retained /\ ad'.result = ad.result
  BY DEF RunsTyped, AdoptTo, AdoptRuns

\* An adoption that fails goes to its end.
LEMMA AdoptFailsDoes ==
  ASSUME RunsTyped, AdoptFails
  PROVE  /\ ad' \in AdoptRuns /\ ad'.pc = "finish" /\ ad'.made = ad.made /\ ad'.started = ad.started
         /\ ad'.retained = ad.retained /\ ad'.result = "error"
  BY DEF RunsTyped, AdoptFails, AdoptRuns, AdoptSteps, ShelfEnds

\* The other command goes to its next step.
LEMMA EditToDoes ==
  ASSUME RunsTyped, NEW step \in EditSteps, EditTo(step)
  PROVE  /\ ed' \in EditRuns /\ ed'.pc = step /\ ed'.kind = ed.kind /\ ed'.ref = ed.ref
         /\ ed'.result = ed.result BY DEF RunsTyped, EditTo, EditRuns

\* The other command ends.
LEMMA EditEndsDoes ==
  ASSUME RunsTyped, NEW result \in ShelfEnds, EditEnds(result)
  PROVE  /\ ed' \in EditRuns /\ ed'.pc = "done" /\ ed'.kind = ed.kind /\ ed'.ref = ed.ref
         /\ ed'.result = result BY DEF RunsTyped, EditEnds, EditRuns, EditSteps

\* A step that leaves what readers of a draft see, on the shelf and the disk.
KeepsDrafts ==
  /\ shelf' \in [Refs -> ShelfEntries] /\ disk' \in [Refs -> ShelfEntries]
  /\ noted' \subseteq {"prune", "list"}
  /\ \A q \in Refs : SameDraft(shelf'[q], shelf[q]) /\ SameDraft(disk'[q], disk[q])

\* Attachments stand when no draft changes.
LEMMA StandsStay ==
  ASSUME DocsStand, NoDirNoFiles, KeepsDrafts
  PROVE  DocsStand' /\ NoDirNoFiles'
  BY DEF DocsStand, Stands, NoDirNoFiles, KeepsDrafts, SameDraft

\* What an adoption has copied stays when no draft changes.
LEMMA CopiedStays ==
  ASSUME Copied, KeepsDrafts, ad' = ad, stage' = stage, fp' = fp
  PROVE  Copied' BY Names DEF Copied, KeepsDrafts, SameDraft

\* A step that leaves at least the documents and the claims, which it may sync.
KeepsDocs ==
  /\ shelf' \in [Refs -> ShelfEntries] /\ disk' \in [Refs -> ShelfEntries]
  /\ noted' \subseteq {"prune", "list"}
  /\ \A q \in Refs :
      /\ shelf'[q].doc = shelf[q].doc /\ disk'[q].doc \in {disk[q].doc, shelf[q].doc}
      /\ shelf'[q].claim = shelf[q].claim /\ disk'[q].claim \in {disk[q].claim, shelf[q].claim}

\* A step that leaves drafts leaves documents.
LEMMA DraftsAndDocs == ASSUME KeepsDrafts PROVE KeepsDocs
  BY DEF KeepsDrafts, KeepsDocs, SameDraft

\* How far removals are stays when documents do.
LEMMA GoneStays ==
  ASSUME DocsGo, RunsTyped, KeepsDocs, ed' = ed, \A r \in Refs : rm'[r] = rm[r] \/ rm'[r].at \in {"idle", "doc", "lock", "done"}
  PROVE  DocsGo' BY Names DEF DocsGo, KeepsDocs, HasDoc, RunsTyped, EditRuns

\* What was reported stays when documents do.
LEMMA AcknowledgedStays ==
  ASSUME Acknowledged, RunsTyped, KeepsDocs, ed' = ed,
         ad'.pc = "sync" => ad.pc = "sync", ad'.result = "ok" => ad.result = "ok"
  PROVE  Acknowledged'
  BY Names DEF Acknowledged, KeepsDocs, HasDoc, Claimed, Written, Discards, RunsTyped, EditRuns

\* Whose document may go stays when documents do.
LEMMA MayGoStays ==
  ASSUME MayGo, RunsTyped, KeepsDocs, ed' = ed,
         (ad'.result = ad.result /\ ad'.pc = ad.pc) \/ (ad'.result = "ok" => ad'.pc \in {"finish", "done"}),
         \A r \in Refs : rm'[r].at = "doc" => rm[r].at = "doc" /\ holder'[r] = holder[r],
         ed.pc = "remove" /\ rm[ed.ref].err => rm'[ed.ref].err
  PROVE  MayGo'
<1>1. ed.ref \in Refs BY Names DEF RunsTyped, EditRuns
<1>2. \A r \in Refs : PruneEligible(r) => PruneEligible(r)'
  BY DEF KeepsDocs, HasDoc, Claimed, PruneEligible
<1>3. ~shelf'[New].doc.old /\ ~disk'[New].doc.old BY Names DEF MayGo, KeepsDocs
<1>4. \A r \in Refs : rm'[r].at = "doc" =>
        /\ holder'[r] = "prune" => PruneEligible(r)'
        /\ holder'[r] = "edit" => ed'.kind \in {"discard", "save"} BY <1>2 DEF MayGo
<1> QED BY <1>1, <1>3, <1>4 DEF MayGo

\* What DraftsInv says, by name.
LEMMA Parts ==
  ASSUME DraftsInv
  PROVE  /\ ShelfTyped /\ RunsTyped /\ ShelfLeases /\ DocsStand /\ NoDirNoFiles /\ Copied /\ DocsGo
         /\ MayGo /\ Acknowledged
         /\ ed.ref \in Refs /\ pr.ref \in Refs \cup {None}
  BY Names DEF DraftsInv, RunsTyped, EditRuns, PruneRuns

\* Nothing on the shelf changes.
LEMMA SameKeeps ==
  ASSUME ShelfTyped, shelf' = shelf, disk' = disk, noted' \subseteq {"prune", "list"}
  PROVE  KeepsDrafts BY DEF ShelfTyped, KeepsDrafts, SameDraft

\* Faults are counted down to none.
LEMMA LeftTyped == ASSUME RunsTyped, Sound \/ Faulty PROVE left' \in Nat
  BY DEF RunsTyped, Sound, Faulty

\* Steps of a listing, of a dry run and of a prune that holds no lease.
LEMMA AsideKeeps ==
  ASSUME DraftsInv, shelf' = shelf, disk' = disk, noted' \subseteq {"prune", "list"}, left' \in Nat,
         holder' = holder, rm' = rm, stage' = stage, fp' = fp, ad' = ad, ed' = ed,
         pr' \in PruneRuns, pr'.ref = pr.ref, pr'.ref # None => pr'.pc = pr.pc,
         pr'.pc \notin {"off", "done"} => pr'.kind # None /\ pr'.result # "killed"
  PROVE  DraftsInv'
<1>1. KeepsDrafts BY SameKeeps, Parts
<1>2. DocsStand' /\ NoDirNoFiles' BY <1>1, Parts, StandsStay
<1>3. Copied' BY <1>1, Parts, CopiedStays
<1>4. DocsGo' BY <1>1, Parts, DraftsAndDocs, GoneStays
<1>5. MayGo' BY <1>1, Parts, DraftsAndDocs, MayGoStays
<1>6. Acknowledged' BY <1>1, Parts, DraftsAndDocs, AcknowledgedStays
<1>7. ShelfTyped' BY Parts DEF ShelfTyped
<1>8. RunsTyped' BY Parts DEF RunsTyped
<1>9. ShelfLeases' BY Parts DEF ShelfLeases
<1> QED BY <1>2, <1>3, <1>4, <1>5, <1>6, <1>7, <1>8, <1>9 DEF DraftsInv
----------------------------------------------------------------------------
(* The adoption's steps. *)

\* A new adoption: staging is still empty.
LEMMA AdoptStartKept ==
  ASSUME DraftsInv, AdoptStart
  PROVE  DraftsInv'
<1>1. shelf' = shelf /\ disk' = disk /\ noted' = noted /\ holder' = holder /\ rm' = rm /\ stage' = stage /\ fp' = fp /\ ed' = ed /\ pr' = pr /\ ad.pc = "off"
  BY DEF AdoptStart, Adopting, Beside, Aside, Unleased, SameShelf
<1>2. ad' \in AdoptRuns /\ ad'.pc = "stage" /\ ad'.result = ad.result
  BY Parts DEF AdoptStart, RunsTyped, AdoptRuns, AdoptSteps
<1>3. left' \in Nat BY Parts, LeftTyped DEF AdoptStart
<1>4. KeepsDrafts BY Parts, <1>1, SameKeeps DEF ShelfTyped
<1>5. KeepsDocs BY <1>4, DraftsAndDocs
<1> USE Parts, <1>1, <1>2, <1>3, <1>4, <1>5
<1>6. ShelfTyped' BY DEF ShelfTyped, KeepsDocs
<1>7. RunsTyped' BY DEF RunsTyped
<1>8. ShelfLeases' BY Names DEF ShelfLeases, AdoptLeased, EditLeased, RunsTyped, EditRuns
<1>9. DocsStand' /\ NoDirNoFiles' BY Parts, <1>4, StandsStay
<1>10. Copied' BY Names DEF Copied, BeforeDoc, KeepsDrafts, SameDraft
<1>11. DocsGo' BY Parts, <1>1, <1>2, <1>3, <1>5, GoneStays
<1>12. MayGo'
  BY Names, Parts, <1>1, <1>2, <1>3, <1>5 DEF MayGo, HasDoc, Claimed, PruneEligible, RunsTyped, EditRuns, KeepsDocs
<1>13. Acknowledged'
  BY Names, Parts, <1>1, <1>2, <1>3, <1>5 DEF Acknowledged, HasDoc, Claimed, Written, Discards, RunsTyped, EditRuns, KeepsDocs
<1> QED BY <1>6, <1>7, <1>8, <1>9, <1>10, <1>11, <1>12, <1>13 DEF DraftsInv

\* Files are downloaded into staging, or one download fails.
LEMMA AdoptStageKept ==
  ASSUME DraftsInv, AdoptStage
  PROVE  DraftsInv'
<1>1. shelf' = shelf /\ disk' = disk /\ noted' = noted /\ holder' = holder /\ rm' = rm /\ fp' = fp /\ ed' = ed /\ pr' = pr /\ ad.pc = "stage"
  BY DEF AdoptStage, Adopting, Beside, Aside, Unleased, SameShelf
<1>2. /\ ad' \in AdoptRuns /\ ad'.result \in {ad.result, "error"}
      /\ (ad'.pc = "stage" /\ stage' = AllFiles) \/ ad'.pc = "finish"
  BY Parts, <1>1, AdoptFailsDoes DEF AdoptStage, RunsTyped
<1>3. stage' \in [Files -> FileBytes] BY DEF AdoptStage, AllFiles, FileBytes
<1>4. left' \in Nat BY Parts, LeftTyped DEF AdoptStage
<1>5. KeepsDrafts BY Parts, <1>1, SameKeeps DEF ShelfTyped
<1>6. KeepsDocs BY <1>5, DraftsAndDocs
<1> USE Parts, <1>1, <1>2, <1>3, <1>4, <1>5, <1>6
<1>7. ShelfTyped' BY DEF ShelfTyped, KeepsDocs
<1>8. RunsTyped' BY DEF RunsTyped
<1>9. ShelfLeases' BY Names DEF ShelfLeases, AdoptLeased, EditLeased, RunsTyped, EditRuns
<1>10. DocsStand' /\ NoDirNoFiles' BY Parts, <1>5, StandsStay
<1>11. Copied'
  BY Names, Parts, <1>1, <1>2, <1>3, <1>5, <1>6 DEF Copied, BeforeDoc, KeepsDrafts, SameDraft, AllFiles, Bytes
<1>12. DocsGo' BY Parts, <1>1, <1>2, <1>3, <1>4, <1>6, GoneStays
<1>13. MayGo'
  BY Names, Parts, <1>1, <1>2, <1>3, <1>4, <1>6 DEF MayGo, HasDoc, Claimed, PruneEligible, RunsTyped, EditRuns, KeepsDocs
<1>14. Acknowledged'
  BY Names, Parts, <1>1, <1>2, <1>3, <1>4, <1>6 DEF Acknowledged, HasDoc, Claimed, Written, Discards, RunsTyped, EditRuns, KeepsDocs
<1> QED BY <1>7, <1>8, <1>9, <1>10, <1>11, <1>12, <1>13, <1>14 DEF DraftsInv

\* The staged files are fingerprinted.
LEMMA AdoptPrepareKept ==
  ASSUME DraftsInv, AdoptPrepare
  PROVE  DraftsInv'
<1>1. shelf' = shelf /\ disk' = disk /\ noted' = noted /\ holder' = holder /\ rm' = rm /\ stage' = stage /\ ed' = ed /\ pr' = pr /\ ad.pc = "stage"
  BY DEF AdoptPrepare, Adopting, Beside, Aside, Unleased, SameShelf
<1>2. /\ ad' \in AdoptRuns /\ ad'.result \in {ad.result, "error"}
      /\ (ad'.pc = "lease" /\ fp' = stage /\ \A f \in Files : stage[f] # None) \/ (ad'.pc = "finish" /\ fp' = fp)
  BY Parts, AdoptFailsDoes, AdoptToDoes DEF AdoptPrepare, AdoptSteps
<1>3. left' \in Nat BY Parts, LeftTyped DEF AdoptPrepare
<1>4. KeepsDrafts BY Parts, <1>1, SameKeeps DEF ShelfTyped
<1>5. KeepsDocs BY <1>4, DraftsAndDocs
<1> USE Parts, <1>1, <1>2, <1>3, <1>4, <1>5
<1>6. ShelfTyped' BY DEF ShelfTyped, KeepsDocs
<1>7. RunsTyped' BY DEF RunsTyped
<1>8. ShelfLeases' BY Names DEF ShelfLeases, AdoptLeased, EditLeased, RunsTyped, EditRuns
<1>9. DocsStand' /\ NoDirNoFiles' BY Parts, <1>4, StandsStay
<1>10. Copied' BY Names DEF Copied, BeforeDoc, KeepsDrafts, SameDraft
<1>11. DocsGo' BY Parts, <1>1, <1>2, <1>3, <1>5, GoneStays
<1>12. MayGo'
  BY Names, Parts, <1>1, <1>2, <1>3, <1>5 DEF MayGo, HasDoc, Claimed, PruneEligible, RunsTyped, EditRuns, KeepsDocs
<1>13. Acknowledged'
  BY Names, Parts, <1>1, <1>2, <1>3, <1>5 DEF Acknowledged, HasDoc, Claimed, Written, Discards, RunsTyped, EditRuns, KeepsDocs
<1> QED BY <1>6, <1>7, <1>8, <1>9, <1>10, <1>11, <1>12, <1>13 DEF DraftsInv

\* The lease of the new draft, or the adoption is refused.
LEMMA AdoptLeaseKept ==
  ASSUME DraftsInv, AdoptLease
  PROVE  DraftsInv'
<1>1. disk' = disk /\ rm' = rm /\ stage' = stage /\ fp' = fp /\ ed' = ed /\ pr' = pr /\ ad.pc = "lease"
  BY DEF AdoptLease, Adopting, Beside, Aside, Unleased, SameShelf
<1>2. \/ Leases("adopt", New) /\ AdoptTo("mkdir")
      \/ AdoptFails /\ shelf' = shelf /\ noted' = noted /\ holder' = holder
  BY DEF AdoptLease, InUse, SameShelf
<1>3. ad' \in AdoptRuns /\ ad'.result \in {ad.result, "error"} /\ ad'.pc \in {"mkdir", "finish"}
  BY Parts, <1>2, AdoptFailsDoes, AdoptToDoes DEF AdoptSteps
<1>4. /\ holder' \in [Refs -> Holders] /\ \A q \in Refs \ {New} : holder'[q] = holder[q]
      /\ holder'[New] = holder[New] \/ (holder[New] = None /\ holder'[New] = "adopt")
      /\ ad'.pc = "mkdir" => holder'[New] = "adopt"
      /\ holder'[New] # holder[New] => ad'.pc = "mkdir"
  BY Names, Parts, <1>2, LeasesDoes, AdoptFailsDoes, AdoptToDoes DEF RunsTyped, Holders, AdoptSteps
<1>5. left' \in Nat BY Parts, LeftTyped DEF AdoptLease
<1>6. KeepsDrafts
  BY Names, Parts, <1>1, <1>2, LeasesDoes DEF KeepsDrafts, SameDraft, OthersStand, NothingEnters, ShelfTyped, Holders
<1>7. KeepsDocs BY <1>6, DraftsAndDocs
<1> USE Parts, <1>1, <1>2, <1>3, <1>4, <1>5, <1>6, <1>7
<1>8. ShelfTyped' BY DEF ShelfTyped, KeepsDocs
<1>9. RunsTyped' BY DEF RunsTyped
<1>10. ShelfLeases'
 <2>1. CASE holder'[New] = holder[New]
   BY Names, Parts, <1>1, <1>3, <1>4, <2>1 DEF ShelfLeases, AdoptLeased, EditLeased, RunsTyped, EditRuns
 <2>2. CASE holder[New] = None /\ holder'[New] = "adopt" /\ ad'.pc = "mkdir"
  <3>1. rm[New].at = "idle" BY Names, Parts, <2>2 DEF ShelfLeases
  <3>2. (ed.pc \in EditLeased => ed.ref # New) /\ pr.ref # New BY Names, Parts, <2>2 DEF ShelfLeases
  <3> QED BY Names, Parts, <1>1, <1>4, <2>2, <3>1, <3>2 DEF ShelfLeases, AdoptLeased, EditLeased
 <2> QED BY <1>4, <2>1, <2>2
<1>11. DocsStand' /\ NoDirNoFiles' BY Parts, <1>6, StandsStay
<1>12. Copied' BY Names DEF Copied, BeforeDoc, KeepsDrafts, SameDraft
<1>13. DocsGo' BY Parts, <1>1, <1>2, <1>3, <1>4, <1>5, <1>7, GoneStays
<1>14. MayGo'
  BY Names, Parts, <1>1, <1>2, <1>3, <1>4, <1>5, <1>7 DEF MayGo, HasDoc, Claimed, PruneEligible, RunsTyped, EditRuns, KeepsDocs
<1>15. Acknowledged'
  BY Names, Parts, <1>1, <1>2, <1>3, <1>4, <1>5, <1>7 DEF Acknowledged, HasDoc, Claimed, Written, Discards, RunsTyped, EditRuns, KeepsDocs
<1> QED BY <1>8, <1>9, <1>10, <1>11, <1>12, <1>13, <1>14, <1>15 DEF DraftsInv

\* The attachment directory is made, where nothing stood.
LEMMA AdoptMkdirKept ==
  ASSUME DraftsInv, AdoptMkdir
  PROVE  DraftsInv'
<1>1. disk' = disk /\ holder' = holder /\ rm' = rm /\ stage' = stage /\ fp' = fp /\ ed' = ed /\ pr' = pr /\ ad.pc = "mkdir"
  BY DEF AdoptMkdir, Adopting, Beside, Aside, Unleased, SameShelf
<1>2. \/ /\ Enters(New, [shelf[New] EXCEPT !.dir = TRUE]) /\ ~shelf[New].dir
         /\ ad' = [ad EXCEPT !.pc = "copy", !.started = TRUE]
      \/ shelf' = shelf /\ noted' = noted /\ AdoptFails BY DEF AdoptMkdir, SameShelf
<1>3. /\ ad' \in AdoptRuns /\ ad'.result \in {ad.result, "error"} /\ ad'.pc \in {"copy", "finish"}
      /\ ad'.pc = "copy" => shelf[New].files = NoFiles
  BY Names, Parts, <1>2, AdoptFailsDoes DEF RunsTyped, AdoptRuns, AdoptSteps, NoDirNoFiles
<1>4. [shelf[New] EXCEPT !.dir = TRUE] \in ShelfEntries /\ shelf[New] \in ShelfEntries
  BY Names, Parts, DirChanged DEF ShelfTyped
<1>5. /\ shelf' \in [Refs -> ShelfEntries] /\ noted' \subseteq {"prune", "list"}
      /\ \A q \in Refs \ {New} : shelf'[q] = shelf[q]
      /\ SameDraft(shelf'[New], [shelf[New] EXCEPT !.dir = TRUE]) \/ (ad'.pc = "finish" /\ shelf'[New] = shelf[New])
  BY Names, Parts, <1>2, <1>4, EntersDoes, AdoptFailsDoes DEF OthersStand, ShelfTyped, SameDraft
<1>6. /\ shelf'[New].doc = shelf[New].doc /\ shelf'[New].files = shelf[New].files
      /\ shelf'[New].claim = shelf[New].claim
      /\ (ad'.pc = "copy" \/ shelf[New].dir => shelf'[New].dir)
      /\ shelf'[New].dir \/ ~shelf[New].dir
  BY Names, <1>3, <1>4, <1>5, DirChanged DEF SameDraft
<1>7. left' \in Nat BY Parts, LeftTyped DEF AdoptMkdir
<1>8. KeepsDocs BY Names, Parts, <1>1, <1>5, <1>6 DEF KeepsDocs, ShelfTyped
<1> USE Parts, <1>1, <1>2, <1>3, <1>4, <1>5, <1>6, <1>7, <1>8
<1>9. ShelfTyped' BY DEF ShelfTyped, KeepsDocs
<1>10. RunsTyped' BY DEF RunsTyped
<1>11. ShelfLeases' BY Names DEF ShelfLeases, AdoptLeased, EditLeased, RunsTyped, EditRuns
<1>12. DocsStand' BY Names DEF DocsStand, Stands
<1>13. NoDirNoFiles' BY Names DEF NoDirNoFiles
<1>14. Copied' BY Names, NothingThere, Parts, <1>1, <1>3, <1>5, <1>6 DEF Copied, BeforeDoc
<1>15. DocsGo' BY GoneStays
<1>16. MayGo'
  BY Names DEF MayGo, HasDoc, Claimed, PruneEligible, RunsTyped, EditRuns, KeepsDocs
<1>17. Acknowledged'
  BY Names DEF Acknowledged, HasDoc, Claimed, Written, Discards, RunsTyped, EditRuns, KeepsDocs
<1> QED BY <1>9, <1>10, <1>11, <1>12, <1>13, <1>14, <1>15, <1>16, <1>17 DEF DraftsInv

\* An attachment is created, or its staged file was changed.
LEMMA CopyOpenKept ==
  ASSUME DraftsInv, NEW f \in Files, CopyOpen(f)
  PROVE  DraftsInv'
<1>1. disk' = disk /\ noted' = noted /\ holder' = holder /\ rm' = rm /\ stage' = stage /\ fp' = fp /\ ed' = ed /\ pr' = pr /\ ad.pc = "copy"
  BY DEF CopyOpen, Adopting, Beside, Aside, Unleased, SameShelf
<1>2. \/ \E b \in FileBytes \ {None} : /\ b \in {"part", fp[f]} /\ ad' = ad
                 /\ shelf' = [shelf EXCEPT ![New].files[f] = b]
      \/ shelf' = shelf /\ AdoptFails
  BY Names, Parts, <1>1 DEF CopyOpen, FileBytes, Copied, ShelfTyped
<1>3. /\ ad' \in AdoptRuns /\ ad'.result \in {ad.result, "error"}
      /\ ad'.pc = "copy" \/ (ad'.pc = "finish" /\ shelf' = shelf)
  BY Names, Parts, <1>1, <1>2, AdoptFailsDoes DEF RunsTyped
<1>4. shelf[New] \in ShelfEntries /\ shelf[New].files \in [Files -> FileBytes] /\ shelf[New].dir
  BY Names, Parts, <1>1 DEF ShelfTyped, Copied, ShelfEntries
<1>5. \E g \in [Files -> FileBytes] :
        /\ shelf' = [shelf EXCEPT ![New] = [shelf[New] EXCEPT !.files = g]]
        /\ \A h \in Files : g[h] \in {shelf[New].files[h], "part", fp[h]}
 <2>1. ASSUME NEW b \in FileBytes, b \in {"part", fp[f]}, shelf' = [shelf EXCEPT ![New].files[f] = b]
       PROVE  shelf' = [shelf EXCEPT ![New] = [shelf[New] EXCEPT !.files = [shelf[New].files EXCEPT ![f] = b]]]
   BY Names, <2>1, <1>4 DEF ShelfEntries
 <2>2. ASSUME shelf' = shelf
       PROVE  shelf' = [shelf EXCEPT ![New] = [shelf[New] EXCEPT !.files = shelf[New].files]]
   BY Names, Parts, <1>4, <2>2 DEF ShelfTyped, ShelfEntries
 <2> QED BY <1>2, <1>4, <2>1, <2>2
<1>6. /\ shelf' \in [Refs -> ShelfEntries] /\ \A q \in Refs \ {New} : shelf'[q] = shelf[q]
      /\ shelf'[New].doc = shelf[New].doc /\ shelf'[New].claim = shelf[New].claim /\ shelf'[New].dir
      /\ \A h \in Files : shelf'[New].files[h] \in {shelf[New].files[h], "part", fp[h]}
 <2>1. PICK g \in [Files -> FileBytes] :
         /\ shelf' = [shelf EXCEPT ![New] = [shelf[New] EXCEPT !.files = g]]
         /\ \A h \in Files : g[h] \in {shelf[New].files[h], "part", fp[h]} BY <1>5
 <2>2. /\ [shelf[New] EXCEPT !.files = g] \in ShelfEntries /\ [shelf[New] EXCEPT !.files = g].files = g
       /\ [shelf[New] EXCEPT !.files = g].doc = shelf[New].doc /\ [shelf[New] EXCEPT !.files = g].dir
       /\ [shelf[New] EXCEPT !.files = g].claim = shelf[New].claim BY <1>4, FilesChanged
 <2>3. shelf' \in [Refs -> ShelfEntries] /\ shelf'[New] = [shelf[New] EXCEPT !.files = g]
       /\ \A q \in Refs \ {New} : shelf'[q] = shelf[q]
   BY Names, Parts, <2>1, <2>2 DEF ShelfTyped
 <2> QED BY <2>1, <2>2, <2>3
<1>7. left' \in Nat BY Parts, LeftTyped DEF CopyOpen
<1>8. KeepsDocs BY Names, Parts, <1>1, <1>6 DEF KeepsDocs, ShelfTyped
<1> USE Parts, <1>1, <1>2, <1>3, <1>4, <1>5, <1>6, <1>7, <1>8
<1>9. ShelfTyped' BY DEF ShelfTyped, KeepsDocs
<1>10. RunsTyped' BY DEF RunsTyped
<1>11. ShelfLeases' BY Names DEF ShelfLeases, AdoptLeased, EditLeased, RunsTyped, EditRuns
<1>12. DocsStand'
  BY SMTT(30), Names, Parts, <1>1, <1>6 DEF DocsStand, Stands, Copied, BeforeDoc
<1>13. NoDirNoFiles' BY Names, Parts, <1>6 DEF NoDirNoFiles
<1>14. Copied' BY Names, NothingThere, Parts, <1>1, <1>3, <1>6 DEF Copied, BeforeDoc
<1>15. DocsGo' BY GoneStays
<1>16. MayGo'
  BY Names DEF MayGo, HasDoc, Claimed, PruneEligible, RunsTyped, EditRuns, KeepsDocs
<1>17. Acknowledged'
  BY Names DEF Acknowledged, HasDoc, Claimed, Written, Discards, RunsTyped, EditRuns, KeepsDocs
<1> QED BY <1>9, <1>10, <1>11, <1>12, <1>13, <1>14, <1>15, <1>16, <1>17 DEF DraftsInv

\* An attachment is written, or was changed, or fails.
LEMMA CopyWriteKept ==
  ASSUME DraftsInv, NEW f \in Files, CopyWrite(f)
  PROVE  DraftsInv'
<1>1. disk' = disk /\ noted' = noted /\ holder' = holder /\ rm' = rm /\ stage' = stage /\ fp' = fp /\ ed' = ed /\ pr' = pr /\ ad.pc = "copy"
  BY DEF CopyWrite, Adopting, Beside, Aside, Unleased, SameShelf
<1>2. \/ \E b \in FileBytes \ {None} : /\ b \in {"part", fp[f]} /\ ad' = ad
                 /\ shelf' = [shelf EXCEPT ![New].files[f] = b]
      \/ shelf' = shelf /\ AdoptFails
  BY Names, Parts, <1>1 DEF CopyWrite, FileBytes, Copied, ShelfTyped
<1>3. /\ ad' \in AdoptRuns /\ ad'.result \in {ad.result, "error"}
      /\ ad'.pc = "copy" \/ (ad'.pc = "finish" /\ shelf' = shelf)
  BY Names, Parts, <1>1, <1>2, AdoptFailsDoes DEF RunsTyped
<1>4. shelf[New] \in ShelfEntries /\ shelf[New].files \in [Files -> FileBytes] /\ shelf[New].dir
  BY Names, Parts, <1>1 DEF ShelfTyped, Copied, ShelfEntries
<1>5. \E g \in [Files -> FileBytes] :
        /\ shelf' = [shelf EXCEPT ![New] = [shelf[New] EXCEPT !.files = g]]
        /\ \A h \in Files : g[h] \in {shelf[New].files[h], "part", fp[h]}
 <2>1. ASSUME NEW b \in FileBytes, b \in {"part", fp[f]}, shelf' = [shelf EXCEPT ![New].files[f] = b]
       PROVE  shelf' = [shelf EXCEPT ![New] = [shelf[New] EXCEPT !.files = [shelf[New].files EXCEPT ![f] = b]]]
   BY Names, <2>1, <1>4 DEF ShelfEntries
 <2>2. ASSUME shelf' = shelf
       PROVE  shelf' = [shelf EXCEPT ![New] = [shelf[New] EXCEPT !.files = shelf[New].files]]
   BY Names, Parts, <1>4, <2>2 DEF ShelfTyped, ShelfEntries
 <2> QED BY <1>2, <1>4, <2>1, <2>2
<1>6. /\ shelf' \in [Refs -> ShelfEntries] /\ \A q \in Refs \ {New} : shelf'[q] = shelf[q]
      /\ shelf'[New].doc = shelf[New].doc /\ shelf'[New].claim = shelf[New].claim /\ shelf'[New].dir
      /\ \A h \in Files : shelf'[New].files[h] \in {shelf[New].files[h], "part", fp[h]}
 <2>1. PICK g \in [Files -> FileBytes] :
         /\ shelf' = [shelf EXCEPT ![New] = [shelf[New] EXCEPT !.files = g]]
         /\ \A h \in Files : g[h] \in {shelf[New].files[h], "part", fp[h]} BY <1>5
 <2>2. /\ [shelf[New] EXCEPT !.files = g] \in ShelfEntries /\ [shelf[New] EXCEPT !.files = g].files = g
       /\ [shelf[New] EXCEPT !.files = g].doc = shelf[New].doc /\ [shelf[New] EXCEPT !.files = g].dir
       /\ [shelf[New] EXCEPT !.files = g].claim = shelf[New].claim BY <1>4, FilesChanged
 <2>3. shelf' \in [Refs -> ShelfEntries] /\ shelf'[New] = [shelf[New] EXCEPT !.files = g]
       /\ \A q \in Refs \ {New} : shelf'[q] = shelf[q]
   BY Names, Parts, <2>1, <2>2 DEF ShelfTyped
 <2> QED BY <2>1, <2>2, <2>3
<1>7. left' \in Nat BY Parts, LeftTyped DEF CopyWrite
<1>8. KeepsDocs BY Names, Parts, <1>1, <1>6 DEF KeepsDocs, ShelfTyped
<1> USE Parts, <1>1, <1>2, <1>3, <1>4, <1>5, <1>6, <1>7, <1>8
<1>9. ShelfTyped' BY DEF ShelfTyped, KeepsDocs
<1>10. RunsTyped' BY DEF RunsTyped
<1>11. ShelfLeases' BY Names DEF ShelfLeases, AdoptLeased, EditLeased, RunsTyped, EditRuns
<1>12. DocsStand'
  BY SMTT(30), Names, Parts, <1>1, <1>6 DEF DocsStand, Stands, Copied, BeforeDoc
<1>13. NoDirNoFiles' BY Names, Parts, <1>6 DEF NoDirNoFiles
<1>14. Copied' BY Names, NothingThere, Parts, <1>1, <1>3, <1>6 DEF Copied, BeforeDoc
<1>15. DocsGo' BY GoneStays
<1>16. MayGo'
  BY Names DEF MayGo, HasDoc, Claimed, PruneEligible, RunsTyped, EditRuns, KeepsDocs
<1>17. Acknowledged'
  BY Names DEF Acknowledged, HasDoc, Claimed, Written, Discards, RunsTyped, EditRuns, KeepsDocs
<1> QED BY <1>9, <1>10, <1>11, <1>12, <1>13, <1>14, <1>15, <1>16, <1>17 DEF DraftsInv

\* The files and the shelf are synced.
LEMMA CopySyncedKept ==
  ASSUME DraftsInv, CopySynced
  PROVE  DraftsInv'
<1>1. shelf' = shelf /\ noted' = noted /\ holder' = holder /\ rm' = rm /\ stage' = stage /\ fp' = fp /\ ed' = ed /\ pr' = pr /\ ad.pc = "copy"
  BY DEF CopySynced, Adopting, Beside, Aside, Unleased, SameShelf
<1>2. ad' \in AdoptRuns /\ ad'.pc = "temp" /\ ad'.result = ad.result
  BY Parts, AdoptToDoes DEF CopySynced, AdoptSteps
<1>3. disk' = [Synced(disk) EXCEPT ![New].files = shelf[New].files] BY DEF CopySynced
<1>4. /\ shelf[New].files \in [Files -> FileBytes] /\ shelf[New].files = fp /\ shelf[New].dir
      /\ shelf[New].doc.ver = "none"
 <2>1. /\ shelf[New].files \in [Files -> FileBytes] /\ fp \in [Files -> FileBytes] /\ shelf[New].dir
       /\ shelf[New].doc.ver = "none"
   BY Names, Parts, <1>1 DEF ShelfTyped, ShelfEntries, Copied, BeforeDoc
 <2>2. \A f \in Files : shelf[New].files[f] = fp[f]
   BY Names, Parts, <1>1 DEF CopySynced, Copied
 <2> QED BY <2>1, <2>2
<1>5. /\ disk' \in [Refs -> ShelfEntries] /\ disk'[New].files = fp
      /\ \A q \in Refs : /\ disk'[q].doc = shelf[q].doc /\ disk'[q].dir = shelf[q].dir
                         /\ disk'[q].claim = shelf[q].claim
                         /\ q # New /\ shelf[q].dir => disk'[q].files = disk[q].files
 <2>1. Synced(disk) \in [Refs -> ShelfEntries] /\ Synced(disk)[New] \in ShelfEntries BY Names, Parts, SyncedDoes
 <2>2. disk' = [Synced(disk) EXCEPT ![New] = [Synced(disk)[New] EXCEPT !.files = fp]]
   BY <1>3, <1>4, <2>1 DEF ShelfEntries
 <2>3. /\ [Synced(disk)[New] EXCEPT !.files = fp] \in ShelfEntries
       /\ [Synced(disk)[New] EXCEPT !.files = fp].files = fp
       /\ [Synced(disk)[New] EXCEPT !.files = fp].doc = Synced(disk)[New].doc
       /\ [Synced(disk)[New] EXCEPT !.files = fp].dir = Synced(disk)[New].dir
       /\ [Synced(disk)[New] EXCEPT !.files = fp].claim = Synced(disk)[New].claim
   BY <2>1, <1>4, FilesChanged
 <2>4. /\ disk' \in [Refs -> ShelfEntries] /\ disk'[New] = [Synced(disk)[New] EXCEPT !.files = fp]
       /\ \A q \in Refs \ {New} : disk'[q] = Synced(disk)[q] BY Names, <2>1, <2>2, <2>3
 <2>5. \A q \in Refs :
          /\ Synced(disk)[q].doc = shelf[q].doc /\ Synced(disk)[q].dir = shelf[q].dir
          /\ Synced(disk)[q].claim = shelf[q].claim
          /\ shelf[q].dir => Synced(disk)[q].files = disk[q].files BY Parts, SyncedDoes
 <2>6. disk'[New].files = fp BY <2>3, <2>4
 <2>7. \A q \in Refs : /\ disk'[q].doc = Synced(disk)[q].doc /\ disk'[q].dir = Synced(disk)[q].dir
                      /\ disk'[q].claim = Synced(disk)[q].claim
  <3> SUFFICES ASSUME NEW q \in Refs
               PROVE  /\ disk'[q].doc = Synced(disk)[q].doc /\ disk'[q].dir = Synced(disk)[q].dir
                      /\ disk'[q].claim = Synced(disk)[q].claim OBVIOUS
  <3>1. CASE q = New BY <3>1, <2>3, <2>4
  <3>2. CASE q # New BY <3>2, <2>4
  <3> QED BY <3>1, <3>2
 <2>8. \A q \in Refs \ {New} : disk'[q].files = Synced(disk)[q].files BY <2>4
 <2>9. \A q \in Refs : q # New /\ shelf[q].dir => disk'[q].files = disk[q].files BY <2>5, <2>8
 <2> QED BY <2>4, <2>5, <2>6, <2>7, <2>9
<1>6. left' \in Nat BY Parts, LeftTyped DEF CopySynced
<1>7. KeepsDocs BY Names, Parts, <1>1, <1>5 DEF KeepsDocs, ShelfTyped
<1> USE Parts, <1>1, <1>2, <1>3, <1>4, <1>5, <1>6, <1>7
<1>8. ShelfTyped' BY DEF ShelfTyped, KeepsDocs
<1>9. RunsTyped' BY DEF RunsTyped
<1>10. ShelfLeases' BY Names DEF ShelfLeases, AdoptLeased, EditLeased, RunsTyped, EditRuns
<1>11. DocsStand' BY SMTT(30), Names, Parts, <1>1, <1>4, <1>5 DEF DocsStand, Stands
<1>12. NoDirNoFiles' BY Names DEF NoDirNoFiles
<1>13. Copied' BY Names, Parts, <1>1, <1>2, <1>4, <1>5 DEF Copied, BeforeDoc
<1>14. DocsGo' BY GoneStays
<1>15. MayGo'
  BY Names DEF MayGo, HasDoc, Claimed, PruneEligible, RunsTyped, EditRuns, KeepsDocs
<1>16. Acknowledged' BY AcknowledgedStays
<1> QED BY <1>8, <1>9, <1>10, <1>11, <1>12, <1>13, <1>14, <1>15, <1>16 DEF DraftsInv

\* The document's temporary file is written.
LEMMA AdoptTempKept ==
  ASSUME DraftsInv, AdoptTemp
  PROVE  DraftsInv'
<1>1. disk' = disk /\ holder' = holder /\ rm' = rm /\ stage' = stage /\ fp' = fp /\ ed' = ed /\ pr' = pr /\ ad.pc = "temp"
  BY DEF AdoptTemp, WriteTemp, Adopting, Beside, Aside, Unleased, SameShelf
<1>2. ad' \in AdoptRuns /\ ad'.pc = "rename" /\ ad'.result = ad.result
  BY Parts, AdoptToDoes DEF AdoptTemp, AdoptSteps
<1>3. Enters(New, [shelf[New] EXCEPT !.temp = "young"]) BY DEF AdoptTemp, WriteTemp
<1>4. left' \in Nat BY Parts, LeftTyped DEF AdoptTemp
<1>5. KeepsDrafts
  BY Names, Parts, <1>1, <1>3, TempDoes DEF KeepsDrafts, SameDraft, OthersStand, ShelfTyped
<1>6. KeepsDocs BY <1>5, DraftsAndDocs
<1> USE Parts, <1>1, <1>2, <1>3, <1>4, <1>5, <1>6
<1>7. ShelfTyped' BY DEF ShelfTyped, KeepsDocs
<1>8. RunsTyped' BY DEF RunsTyped
<1>9. ShelfLeases' BY Names DEF ShelfLeases, AdoptLeased, EditLeased, RunsTyped, EditRuns
<1>10. DocsStand' /\ NoDirNoFiles' BY Parts, <1>5, StandsStay
<1>11. Copied' BY Names DEF Copied, BeforeDoc, KeepsDrafts, SameDraft
<1>12. DocsGo' BY Parts, <1>1, <1>2, <1>3, <1>4, <1>6, GoneStays
<1>13. MayGo'
  BY Names, Parts, <1>1, <1>2, <1>3, <1>4, <1>6 DEF MayGo, HasDoc, Claimed, PruneEligible, RunsTyped, EditRuns, KeepsDocs
<1>14. Acknowledged'
  BY Names, Parts, <1>1, <1>2, <1>3, <1>4, <1>6 DEF Acknowledged, HasDoc, Claimed, Written, Discards, RunsTyped, EditRuns, KeepsDocs
<1> QED BY <1>7, <1>8, <1>9, <1>10, <1>11, <1>12, <1>13, <1>14 DEF DraftsInv

\* The document gets its name, or the rename fails.
LEMMA AdoptRenameKept ==
  ASSUME DraftsInv, AdoptRename
  PROVE  DraftsInv'
<1>1. disk' = disk /\ holder' = holder /\ rm' = rm /\ stage' = stage /\ fp' = fp /\ ed' = ed /\ pr' = pr /\ ad.pc = "rename"
  BY DEF AdoptRename, Publish, Unpublished, Adopting, Beside, Aside, Unleased, SameShelf
<1>2. \/ /\ AdoptTo("sync")
         /\ Enters(New, [[shelf[New] EXCEPT !.doc = [ver |-> "adopted", old |-> FALSE, fp |-> fp]] EXCEPT !.temp = None])
      \/ AdoptFails /\ Enters(New, [shelf[New] EXCEPT !.temp = None])
  BY DEF AdoptRename, Publish, Unpublished
<1>3. /\ ad' \in AdoptRuns /\ ad'.pc \in {"sync", "finish"} /\ ad'.result \in {ad.result, "error"}
  BY Parts, <1>2, AdoptToDoes, AdoptFailsDoes DEF AdoptSteps
<1>4. /\ shelf' \in [Refs -> ShelfEntries] /\ noted' = {} /\ \A q \in Refs \ {New} : shelf'[q] = shelf[q]
      /\ shelf'[New].dir = shelf[New].dir /\ shelf'[New].files = shelf[New].files
      /\ shelf'[New].claim = shelf[New].claim
      /\ \/ ad'.pc = "sync" /\ shelf'[New].doc.ver = "adopted" /\ shelf'[New].doc.old = FALSE /\ shelf'[New].doc.fp = fp
         \/ ad'.pc = "finish" /\ shelf'[New].doc = shelf[New].doc
 <2> DEFINE d == [ver |-> "adopted", old |-> FALSE, fp |-> fp]
 <2>1. shelf[New] \in ShelfEntries /\ d \in ShelfDocs
   BY Names, Parts DEF ShelfTyped, ShelfDocs, DocVers
 <2>2. CASE /\ AdoptTo("sync") /\ Enters(New, [[shelf[New] EXCEPT !.doc = d] EXCEPT !.temp = None])
  <3> DEFINE x == [shelf[New] EXCEPT !.doc = d]
             y == [x EXCEPT !.temp = None]
  <3>1. /\ x \in ShelfEntries /\ x.doc = d /\ x.dir = shelf[New].dir /\ x.files = shelf[New].files
        /\ x.claim = shelf[New].claim BY <2>1, DocChanged
  <3>2. Enters(New, y) BY <2>2
  <3> HIDE DEF x
  <3>3. None \in {None, "old", "young"} OBVIOUS
  <3>4. y \in ShelfEntries /\ y.doc = x.doc /\ y.dir = x.dir /\ y.files = x.files /\ y.claim = x.claim
    BY <3>1, <3>3, TempChanged
  <3> HIDE DEF y
  <3>5. shelf' \in [Refs -> ShelfEntries] /\ noted' = {} /\ shelf'[New] = y /\ OthersStand(New)
    BY Names, Parts, <3>2, <3>4, EntersDoes
  <3>6. ad'.pc = "sync" BY Parts, <2>2, AdoptToDoes DEF AdoptSteps
  <3>7. d.ver = "adopted" /\ d.old = FALSE /\ d.fp = fp OBVIOUS
  <3> HIDE DEF d
  <3> QED BY <3>1, <3>4, <3>5, <3>6, <3>7 DEF OthersStand
 <2>3. CASE AdoptFails /\ Enters(New, [shelf[New] EXCEPT !.temp = None])
   BY Names, Parts, <2>3, TempDoes, AdoptFailsDoes DEF OthersStand, SameDraft
 <2> QED BY <1>2, <2>2, <2>3
<1>5. /\ rm[New].at = "idle" /\ shelf[New].doc.ver = "none" /\ disk[New].doc.ver = "none"
      /\ ed.pc \in EditLeased => ed.ref # New
  BY Names, Parts, <1>1 DEF ShelfLeases, AdoptLeased, Copied, BeforeDoc
<1>6. left' \in Nat BY Parts, LeftTyped DEF AdoptRename
<1> USE Parts, <1>1, <1>2, <1>3, <1>4, <1>5, <1>6
<1>7. ShelfTyped' BY DEF ShelfTyped
<1>8. RunsTyped' BY DEF RunsTyped
<1>9. ShelfLeases' BY Names DEF ShelfLeases, AdoptLeased, EditLeased, RunsTyped, EditRuns
<1>10. DocsStand'
  BY SMTT(30), Names, Parts, <1>1, <1>4 DEF DocsStand, Stands, Copied, BeforeDoc
<1>11. NoDirNoFiles' BY Names DEF NoDirNoFiles
<1>12. Copied' BY Names DEF Copied, BeforeDoc
<1>13. DocsGo' BY Names DEF DocsGo, HasDoc, RunsTyped, EditRuns
<1>14. MayGo' BY Names DEF MayGo, HasDoc, Claimed, PruneEligible, RunsTyped, EditRuns
<1>15. Acknowledged'
 <2>1. \A q \in Refs : shelf'[q].doc = shelf[q].doc \/ (q = New /\ shelf'[q].doc.ver # "none")
   BY <1>4
 <2>2. ed'.kind = "update" /\ (ed'.pc = "sync" \/ Written') => ed.ref # New
   BY Names, Parts, <1>1, <1>5 DEF Acknowledged, Written, EditLeased
 <2>3. \A q \in Refs : shelf'[q].claim = shelf[q].claim BY <1>4
 <2> QED BY Names, Parts, <1>1, <1>3, <1>4, <1>5, <2>1, <2>2, <2>3 DEF Acknowledged, HasDoc, Claimed, Written, Discards
<1> QED BY <1>7, <1>8, <1>9, <1>10, <1>11, <1>12, <1>13, <1>14, <1>15 DEF DraftsInv

\* The directory is synced, or the sync fails.
LEMMA AdoptSyncKept ==
  ASSUME DraftsInv, AdoptSync
  PROVE  DraftsInv'
<1>1. shelf' = shelf /\ noted' = noted /\ holder' = holder /\ rm' = rm /\ stage' = stage /\ fp' = fp /\ ed' = ed /\ pr' = pr /\ ad.pc = "sync"
  BY DEF AdoptSync, Adopting, Beside, Aside, Unleased, SameShelf
<1>2. \/ /\ disk' = Synced(disk) /\ ad'.result = "ok" /\ ad' = [ad EXCEPT !.pc = "finish", !.result = "ok"]
      \/ disk' = disk /\ AdoptFails /\ ad'.result = "error"
  BY Parts, AdoptFailsDoes DEF AdoptSync, SyncShelf, RunsTyped, AdoptRuns
<1>3. ad' \in AdoptRuns /\ ad'.pc = "finish" /\ ad'.result \in {"ok", "error"}
  BY Parts, <1>2, AdoptFailsDoes DEF RunsTyped, AdoptRuns, AdoptSteps, ShelfEnds
<1>4. /\ disk' \in [Refs -> ShelfEntries]
      /\ \A q \in Refs : \/ /\ disk'[q].doc = shelf[q].doc /\ disk'[q].dir = shelf[q].dir
                            /\ disk'[q].claim = shelf[q].claim
                            /\ shelf[q].dir => disk'[q].files = disk[q].files
                         \/ disk'[q] = disk[q] /\ ad'.result = "error"
  BY Parts, <1>2, SyncedDoes DEF ShelfTyped
<1>5. left' \in Nat BY Parts, LeftTyped DEF AdoptSync
<1>6. KeepsDocs BY Parts, <1>1, <1>4 DEF KeepsDocs, ShelfTyped
<1> USE Parts, <1>1, <1>2, <1>3, <1>4, <1>5, <1>6
<1>7. ShelfTyped' BY DEF ShelfTyped, KeepsDocs
<1>8. RunsTyped' BY DEF RunsTyped
<1>9. ShelfLeases' BY Names DEF ShelfLeases, AdoptLeased, EditLeased, RunsTyped, EditRuns
<1>10. DocsStand' BY Names DEF DocsStand, Stands
<1>11. NoDirNoFiles' BY Names DEF NoDirNoFiles
<1>12. Copied' BY Names DEF Copied, BeforeDoc
<1>13. DocsGo' BY GoneStays
<1>14. MayGo' BY MayGoStays
<1>15. Acknowledged'
  BY Names DEF Acknowledged, HasDoc, Claimed, Written, Discards, RunsTyped, EditRuns, KeepsDocs
<1> QED BY <1>7, <1>8, <1>9, <1>10, <1>11, <1>12, <1>13, <1>14, <1>15 DEF DraftsInv

\* The lease is given back and staging is cleaned up.
LEMMA AdoptFinishKept ==
  ASSUME DraftsInv, AdoptFinish
  PROVE  DraftsInv'
<1>1. shelf' = shelf /\ disk' = disk /\ noted' = noted /\ fp' = NoFiles /\ ed' = ed /\ pr' = pr /\ ad.pc = "finish"
  BY DEF AdoptFinish, Adopting, Beside, Aside, Unleased, SameShelf
<1>2. ad' \in AdoptRuns /\ ad'.pc = "done" /\ ad'.result = ad.result
  BY ZenonT(60), Parts DEF AdoptFinish, RunsTyped, AdoptRuns, AdoptSteps
<1>3. stage' \in [Files -> FileBytes] /\ fp' \in [Files -> FileBytes]
  BY Parts, <1>1, NothingThere DEF AdoptFinish, ShelfTyped
<1>4. /\ holder' \in [Refs -> Holders] /\ rm' \in [Refs -> RemovalRuns]
      /\ ed.pc = "remove" => rm'[ed.ref] = rm[ed.ref]
      /\ \A q \in Refs : \/ holder[q] = "adopt" /\ q = New /\ holder'[q] = None /\ rm'[q].at = "idle" /\ ~rm'[q].sweep /\ ~rm'[q].err
                         \/ holder[q] # "adopt" /\ holder'[q] = holder[q] /\ rm'[q] = rm[q]
  BY Names, Parts, ReleasesDoes, IdleIs DEF AdoptFinish, RunsTyped, ShelfLeases, EditLeased
<1>5. left' \in Nat BY Parts, LeftTyped DEF AdoptFinish
<1>6. KeepsDrafts BY Parts, <1>1, SameKeeps DEF ShelfTyped
<1>7. KeepsDocs BY <1>6, DraftsAndDocs
<1> USE Parts, <1>1, <1>2, <1>3, <1>4, <1>5, <1>6, <1>7
<1>8. ShelfTyped' BY DEF ShelfTyped, KeepsDocs
<1>9. RunsTyped' BY DEF RunsTyped
<1>10. ShelfLeases' BY Names DEF ShelfLeases, AdoptLeased, EditLeased, RunsTyped, EditRuns
<1>11. DocsStand' /\ NoDirNoFiles' BY Parts, <1>6, StandsStay
<1>12. Copied' BY Names DEF Copied, BeforeDoc, KeepsDrafts, SameDraft
<1>13. DocsGo' BY Parts, <1>1, <1>2, <1>3, <1>4, <1>5, <1>7, GoneStays
<1>14. MayGo' BY Parts, <1>1, <1>2, <1>3, <1>4, <1>5, <1>7, MayGoStays
<1>15. Acknowledged' BY Parts, <1>1, <1>2, <1>3, <1>4, <1>5, <1>7, AcknowledgedStays
<1> QED BY <1>8, <1>9, <1>10, <1>11, <1>12, <1>13, <1>14, <1>15 DEF DraftsInv

\* Somebody writes into a staged file.
LEMMA EditStagedKept ==
  ASSUME DraftsInv, NEW f \in Files, EditStaged(f)
  PROVE  DraftsInv'
<1>1. shelf' = shelf /\ disk' = disk /\ noted' = noted /\ holder' = holder /\ rm' = rm /\ fp' = fp /\ ad' = ad /\ ed' = ed /\ pr' = pr
  BY DEF EditStaged, Adopting, Beside, Aside, Unleased, SameShelf
<1>2. stage' \in [Files -> FileBytes] /\ \A g \in Files : stage'[g] = stage[g] \/ stage'[g] = "edited"
  BY Parts DEF EditStaged, ShelfTyped, FileBytes
<1>3. left' \in Nat BY Parts, LeftTyped DEF EditStaged
<1>4. KeepsDrafts BY Parts, <1>1, SameKeeps DEF ShelfTyped
<1>5. KeepsDocs BY <1>4, DraftsAndDocs
<1> USE Parts, <1>1, <1>2, <1>3, <1>4, <1>5
<1>6. ShelfTyped' BY DEF ShelfTyped, KeepsDocs
<1>7. RunsTyped' BY DEF RunsTyped
<1>8. ShelfLeases' BY Names DEF ShelfLeases, AdoptLeased, EditLeased, RunsTyped, EditRuns
<1>9. DocsStand' /\ NoDirNoFiles' BY Parts, <1>4, StandsStay
<1>10. Copied' BY Names DEF Copied, BeforeDoc, KeepsDrafts, SameDraft
<1>11. DocsGo' BY Parts, <1>1, <1>2, <1>3, <1>5, GoneStays
<1>12. MayGo' BY Parts, <1>1, <1>2, <1>3, <1>5, MayGoStays
<1>13. Acknowledged' BY Parts, <1>1, <1>2, <1>3, <1>5, AcknowledgedStays
<1> QED BY <1>6, <1>7, <1>8, <1>9, <1>10, <1>11, <1>12, <1>13 DEF DraftsInv

----------------------------------------------------------------------------
(* A removal's steps, under the lease of an edit or of a prune. *)

\* Whose removal it is.
LEMMA RemovalOf ==
  ASSUME DraftsInv, NEW r \in Refs, rm[r].at # "idle"
  PROVE  /\ (holder[r] = "edit" /\ r = ed.ref /\ ed.pc = "remove") \/ (holder[r] = "prune" /\ r = pr.ref)
         /\ r = New => ad.pc \notin AdoptLeased
         /\ r = ed.ref => ed.pc \notin EditLeased \ {"remove"}
  BY Names, Parts DEF ShelfLeases, AdoptLeased, EditLeased

\* The document goes first; one that is gone already ends the removal.
LEMMA RemoveDocKept ==
  ASSUME DraftsInv, NEW r \in Refs, RemoveDoc(r)
  PROVE  DraftsInv'
<1>1. /\ holder' = holder /\ stage' = stage /\ fp' = fp /\ ad' = ad /\ ed' = ed /\ pr' = pr /\ disk' = disk
      /\ rm[r].at = "doc" BY DEF RemoveDoc, Removal, SameShelf
<1>2. /\ (holder[r] = "edit" /\ r = ed.ref /\ ed.pc = "remove") \/ (holder[r] = "prune" /\ r = pr.ref)
      /\ r = New => ad.pc \notin AdoptLeased
      /\ r = ed.ref => ed.pc \notin EditLeased \ {"remove"} BY <1>1, RemovalOf
<1>3. \/ Enters(r, [shelf[r] EXCEPT !.doc = NoDoc]) /\ RemovalAt(r, "sync")
      \/ ~HasDoc(r) /\ shelf' = shelf /\ noted' = noted /\ rm' = [rm EXCEPT ![r] = [@ EXCEPT !.at = "lock", !.err = TRUE]]
  BY DEF RemoveDoc, Removal, SameShelf
<1>4. /\ rm' \in [Refs -> RemovalRuns] /\ \A q \in Refs \ {r} : rm'[q] = rm[q]
      /\ rm'[r].at \in {"sync", "lock"} /\ (rm[r].err => rm'[r].err)
  BY ZenonT(60), Parts, <1>3, RemovalAtDoes DEF RunsTyped, RemovalRuns, RemovalSteps
<1>5. /\ shelf' \in [Refs -> ShelfEntries] /\ noted' \subseteq {"prune", "list"}
      /\ \A q \in Refs \ {r} : shelf'[q] = shelf[q]
      /\ shelf'[r].dir = shelf[r].dir /\ shelf'[r].files = shelf[r].files /\ shelf'[r].claim = shelf[r].claim
      /\ shelf'[r].doc.ver = "none" /\ (shelf'[r].doc = shelf[r].doc \/ shelf'[r].doc.old = FALSE)
 <2>1. shelf[r] \in ShelfEntries BY Parts DEF ShelfTyped
 <2>2. CASE Enters(r, [shelf[r] EXCEPT !.doc = NoDoc])
  <3>1. NoDoc \in ShelfDocs BY NothingThere
  <3>2. /\ [shelf[r] EXCEPT !.doc = NoDoc] \in ShelfEntries
        /\ [shelf[r] EXCEPT !.doc = NoDoc].doc = NoDoc
        /\ [shelf[r] EXCEPT !.doc = NoDoc].dir = shelf[r].dir
        /\ [shelf[r] EXCEPT !.doc = NoDoc].files = shelf[r].files
        /\ [shelf[r] EXCEPT !.doc = NoDoc].claim = shelf[r].claim BY <2>1, <3>1, DocChanged
  <3>3. shelf' \in [Refs -> ShelfEntries] /\ noted' = {} /\ OthersStand(r)
        /\ shelf'[r] = [shelf[r] EXCEPT !.doc = NoDoc] BY Parts, <2>2, <3>2, EntersDoes
  <3> QED BY <3>2, <3>3, NothingThere DEF OthersStand
 <2>3. CASE ~HasDoc(r) /\ shelf' = shelf /\ noted' = noted
   BY Parts, <2>3 DEF ShelfTyped, HasDoc
 <2> QED BY <1>3, <2>2, <2>3
<1>6. left' \in Nat BY Parts, LeftTyped DEF RemoveDoc
<1> USE Parts, <1>1, <1>2, <1>3, <1>4, <1>5, <1>6
<1>7. ShelfTyped' BY DEF ShelfTyped
<1>8. RunsTyped' BY DEF RunsTyped
<1>9. ShelfLeases' BY Names DEF ShelfLeases, AdoptLeased, EditLeased, RunsTyped, EditRuns
<1>10. DocsStand' BY Names DEF DocsStand, Stands
<1>11. NoDirNoFiles' BY Names DEF NoDirNoFiles
<1>12. Copied' BY Names, Parts, <1>1, <1>5 DEF Copied, BeforeDoc
<1>13. DocsGo'
 <2>1. ed.pc \in {"rename", "sync"} => r # ed.ref BY <1>2 DEF EditLeased
 <2>2. ed'.pc \in {"rename", "sync"} => HasDoc(ed.ref)' BY Parts, <1>1, <1>5, <2>1 DEF DocsGo, HasDoc
 <2>3. ~HasDoc(r)' BY <1>5 DEF HasDoc
 <2>4. \A q \in Refs \ {r} : HasDoc(q)' <=> HasDoc(q) BY <1>5 DEF HasDoc
 <2> QED BY Parts, <1>1, <1>4, <2>2, <2>3, <2>4 DEF DocsGo
<1>14. MayGo' BY Names DEF MayGo, HasDoc, Claimed, PruneEligible, RunsTyped, EditRuns
<1>15. Acknowledged'
 <2>1. ad.pc = "sync" => r # New BY <1>2 DEF AdoptLeased
 <2>2. ed.pc \in {"sync", "written"} => r # ed.ref BY <1>2 DEF EditLeased
 <2>3. holder[r] = "prune" => PruneEligible(r) BY Parts, <1>1 DEF MayGo
 <2>4. holder[r] = "edit" => ed.kind \in {"discard", "save"} BY Parts, <1>1 DEF MayGo
 <2>5. r = New /\ ad.result = "ok" => Discards(New) BY Parts, <1>2, <2>3, <2>4 DEF Discards, MayGo, PruneEligible
 <2>6. ed.kind \in {"update", "claim"} /\ Written => r # ed.ref
   BY Parts, <1>2, <2>3, <2>4 DEF Acknowledged, PruneEligible, Written
 <2> QED BY Names, Parts, <1>1, <1>5, <2>1, <2>2, <2>5, <2>6 DEF Acknowledged, HasDoc, Claimed, Written, Discards
<1> QED BY <1>7, <1>8, <1>9, <1>10, <1>11, <1>12, <1>13, <1>14, <1>15 DEF DraftsInv

\* The removal of the document is synced.
LEMMA SyncGoneKept ==
  ASSUME DraftsInv, NEW r \in Refs, SyncGone(r)
  PROVE  DraftsInv'
<1>1. /\ holder' = holder /\ stage' = stage /\ fp' = fp /\ ad' = ad /\ ed' = ed /\ pr' = pr /\ shelf' = shelf /\ noted' = noted
      /\ rm[r].at = "sync" /\ disk' = Synced(disk)
  BY DEF SyncGone, SyncShelf, Removal, SameShelf
<1>2. /\ (holder[r] = "edit" /\ r = ed.ref /\ ed.pc = "remove") \/ (holder[r] = "prune" /\ r = pr.ref)
      /\ r = New => ad.pc \notin AdoptLeased
      /\ r = ed.ref => ed.pc \notin EditLeased \ {"remove"} BY <1>1, RemovalOf
<1>3. /\ rm' \in [Refs -> RemovalRuns] /\ \A q \in Refs \ {r} : rm'[q] = rm[q]
      /\ rm'[r].at = "claims" /\ rm'[r].sweep = rm[r].sweep /\ rm'[r].err = rm[r].err
  BY Parts, RemovalAtDoes DEF SyncGone, RemovalSteps
<1>4. /\ disk' \in [Refs -> ShelfEntries]
      /\ \A q \in Refs : /\ disk'[q].doc = shelf[q].doc /\ disk'[q].dir = shelf[q].dir
                         /\ disk'[q].claim = shelf[q].claim
                         /\ shelf[q].dir => disk'[q].files = disk[q].files
  BY Parts, <1>1, SyncedDoes
<1>5. left' \in Nat BY Parts, LeftTyped DEF SyncGone
<1>6. KeepsDocs BY Parts, <1>1, <1>4 DEF KeepsDocs, ShelfTyped
<1> USE Parts, <1>1, <1>2, <1>3, <1>4, <1>5, <1>6
<1>7. ShelfTyped' BY DEF ShelfTyped, KeepsDocs
<1>8. RunsTyped' BY DEF RunsTyped
<1>9. ShelfLeases' BY Names DEF ShelfLeases, AdoptLeased, EditLeased, RunsTyped, EditRuns
<1>10. DocsStand' BY Names DEF DocsStand, Stands
<1>11. NoDirNoFiles' BY Names DEF NoDirNoFiles
<1>12. Copied' BY Names DEF Copied, BeforeDoc
<1>13. DocsGo' BY Names DEF DocsGo, HasDoc, RunsTyped, EditRuns, KeepsDocs
<1>14. MayGo' BY MayGoStays
<1>15. Acknowledged' BY AcknowledgedStays
<1> QED BY <1>7, <1>8, <1>9, <1>10, <1>11, <1>12, <1>13, <1>14, <1>15 DEF DraftsInv

\* The claim goes, and the directory is synced in any case.
LEMMA DropClaimsKept ==
  ASSUME DraftsInv, NEW r \in Refs, DropClaims(r)
  PROVE  DraftsInv'
<1>1. /\ holder' = holder /\ stage' = stage /\ fp' = fp /\ ad' = ad /\ ed' = ed /\ pr' = pr
      /\ rm[r].at = "claims" /\ disk' = [q \in Refs |-> [Synced(disk)[q] EXCEPT !.claim = IF q = r THEN None ELSE @]]
  BY DEF DropClaims, Removal, SameShelf
<1>2. /\ (holder[r] = "edit" /\ r = ed.ref /\ ed.pc = "remove") \/ (holder[r] = "prune" /\ r = pr.ref)
      /\ r = New => ad.pc \notin AdoptLeased
      /\ r = ed.ref => ed.pc \notin EditLeased \ {"remove"} BY <1>1, RemovalOf
<1>3. /\ rm' \in [Refs -> RemovalRuns] /\ \A q \in Refs \ {r} : rm'[q] = rm[q]
      /\ rm'[r].at = "dir" /\ rm'[r].sweep = rm[r].sweep /\ rm'[r].err = rm[r].err
  BY Parts, RemovalAtDoes DEF DropClaims, RemovalSteps
<1>4. /\ shelf' \in [Refs -> ShelfEntries] /\ noted' \subseteq {"prune", "list"}
      /\ \A q \in Refs \ {r} : shelf'[q] = shelf[q]
      /\ shelf'[r].doc = shelf[r].doc /\ shelf'[r].dir = shelf[r].dir /\ shelf'[r].files = shelf[r].files
 <2>1. shelf[r] \in ShelfEntries BY Parts DEF ShelfTyped
 <2>2. CASE Enters(r, [shelf[r] EXCEPT !.claim = None])
  <3>1. None \in {None, "save", "send", "handoff", "saved"} OBVIOUS
  <3>2. /\ [shelf[r] EXCEPT !.claim = None] \in ShelfEntries
        /\ [shelf[r] EXCEPT !.claim = None].doc = shelf[r].doc
        /\ [shelf[r] EXCEPT !.claim = None].dir = shelf[r].dir
        /\ [shelf[r] EXCEPT !.claim = None].files = shelf[r].files BY <2>1, <3>1, ClaimChanged
  <3>3. shelf' \in [Refs -> ShelfEntries] /\ noted' = {} /\ OthersStand(r)
        /\ shelf'[r] = [shelf[r] EXCEPT !.claim = None] BY Parts, <2>2, <3>2, EntersDoes
  <3> QED BY <3>2, <3>3 DEF OthersStand
 <2>3. CASE shelf' = shelf /\ noted' = noted BY Parts, <2>3 DEF ShelfTyped
 <2> QED BY <2>2, <2>3 DEF DropClaims, SameShelf
<1>5. /\ disk' \in [Refs -> ShelfEntries]
      /\ \A q \in Refs : /\ disk'[q].doc = shelf[q].doc /\ disk'[q].dir = shelf[q].dir
                         /\ q # r => disk'[q].claim = shelf[q].claim
                         /\ shelf[q].dir => disk'[q].files = disk[q].files
 <2> DEFINE c(q) == IF q = r THEN None ELSE Synced(disk)[q].claim
 <2>1. Synced(disk) \in [Refs -> ShelfEntries] BY Parts, SyncedDoes
 <2>2. \A q \in Refs : Synced(disk)[q] \in ShelfEntries /\ c(q) \in {None, "save", "send", "handoff", "saved"}
   BY <2>1 DEF ShelfEntries
 <2>3. disk' = [q \in Refs |-> [Synced(disk)[q] EXCEPT !.claim = c(q)]] BY <1>1
 <2>4. \A q \in Refs : q # r => c(q) = Synced(disk)[q].claim OBVIOUS
 <2> HIDE DEF c
 <2>5. ASSUME NEW q \in Refs
       PROVE  /\ disk'[q] \in ShelfEntries /\ disk'[q] = [Synced(disk)[q] EXCEPT !.claim = c(q)]
              /\ disk'[q].doc = Synced(disk)[q].doc /\ disk'[q].dir = Synced(disk)[q].dir
              /\ disk'[q].claim = c(q) /\ disk'[q].files = Synced(disk)[q].files
  <3>1. disk'[q] = [Synced(disk)[q] EXCEPT !.claim = c(q)] BY <2>3
  <3>2. Synced(disk)[q] \in ShelfEntries /\ c(q) \in {None, "save", "send", "handoff", "saved"} BY <2>2
  <3>3. LET x == [Synced(disk)[q] EXCEPT !.claim = c(q)] IN
        /\ x \in ShelfEntries /\ x.doc = Synced(disk)[q].doc /\ x.dir = Synced(disk)[q].dir
        /\ x.claim = c(q) /\ x.files = Synced(disk)[q].files BY <3>2, ClaimChanged
  <3> QED BY <3>1, <3>3
 <2>6. disk' \in [Refs -> ShelfEntries]
  <3>1. \A q \in Refs : [Synced(disk)[q] EXCEPT !.claim = c(q)] \in ShelfEntries BY <2>5
  <3> QED BY <2>3, <3>1
 <2> QED BY Parts, <2>4, <2>5, <2>6, SyncedDoes
<1>6. left' \in Nat BY Parts, LeftTyped DEF DropClaims
<1> USE Parts, <1>1, <1>2, <1>3, <1>4, <1>5, <1>6
<1>7. ShelfTyped' BY DEF ShelfTyped
<1>8. RunsTyped' BY DEF RunsTyped
<1>9. ShelfLeases' BY Names DEF ShelfLeases, AdoptLeased, EditLeased, RunsTyped, EditRuns
<1>10. DocsStand' BY SMTT(30), Names DEF DocsStand, Stands
<1>11. NoDirNoFiles' BY Names DEF NoDirNoFiles
<1>12. Copied' BY Names DEF Copied, BeforeDoc
<1>13. DocsGo'
 <2>1. \A q \in Refs : shelf'[q].doc = shelf[q].doc /\ disk'[q].doc = shelf[q].doc BY <1>4, <1>5
 <2>2. ~HasDoc(r) BY Parts, <1>1 DEF DocsGo
 <2>3. \A q \in Refs : HasDoc(q)' <=> HasDoc(q) BY <2>1 DEF HasDoc
 <2>4. \A q \in Refs : ~HasDoc(q) => disk'[q].doc.ver = "none" BY <2>1 DEF HasDoc
 <2>5. \A q \in Refs : rm'[q].at \in {"sync", "claims", "dir"} => ~HasDoc(q)
   BY Parts, <1>3, <2>2 DEF DocsGo
 <2>6. \A q \in Refs : rm'[q].at = "dir" \/ (rm'[q].at = "claims" /\ ~rm'[q].sweep) => ~HasDoc(q)
   BY <2>5
 <2> QED BY Parts, <1>1, <2>3, <2>4, <2>5, <2>6 DEF DocsGo
<1>14. MayGo'
  BY SMTT(30), Names DEF MayGo, HasDoc, Claimed, PruneEligible, RunsTyped, EditRuns
<1>15. Acknowledged'
 <2>1. ed.pc \in {"sync", "written"} => r # ed.ref BY <1>2 DEF EditLeased
 <2>2. shelf[r].doc.ver = "none" BY Parts, <1>1 DEF DocsGo, HasDoc
 <2>3. ed.kind \in {"update", "claim"} /\ (ed.pc = "sync" \/ Written) => r # ed.ref
   BY Parts, <2>1, <2>2 DEF Acknowledged, HasDoc, Written
 <2>4. \A q \in Refs : shelf'[q].doc = shelf[q].doc /\ disk'[q].doc = shelf[q].doc BY <1>4, <1>5
 <2>5. ed.kind = "claim" /\ (ed.pc = "sync" \/ Written) =>
         shelf'[ed.ref] = shelf[ed.ref] /\ disk'[ed.ref].claim = shelf[ed.ref].claim
   BY Parts, <1>4, <1>5, <2>3
 <2>6. Written' <=> Written BY <1>1 DEF Written
 <2>7. Discards(New)' <=> Discards(New) BY <1>1 DEF Discards
 <2>8. HasDoc(New)' <=> HasDoc(New) BY Names, <2>4 DEF HasDoc
 <2>9. disk'[New].doc = shelf[New].doc /\ disk'[ed.ref].doc = shelf[ed.ref].doc
       /\ shelf'[ed.ref].doc = shelf[ed.ref].doc BY Names, Parts, <2>4
 <2>10. ad' = ad /\ ed' = ed BY <1>1
 <2>11. (ad.pc = "sync" => HasDoc(New))' BY Parts, <2>8, <2>10 DEF Acknowledged
 <2>12. (ad.result = "ok" /\ ~Discards(New) => HasDoc(New) /\ disk[New].doc.ver # "none")'
   BY Parts, <2>7, <2>8, <2>9, <2>10 DEF Acknowledged, HasDoc
 <2>13. (ed.kind = "update" =>
          /\ ed.pc = "sync" \/ Written => shelf[ed.ref].doc.ver = "edited" /\ ~shelf[ed.ref].doc.old
          /\ Written => disk[ed.ref].doc.ver = "edited" /\ ~disk[ed.ref].doc.old)'
   BY Parts, <2>6, <2>9, <2>10 DEF Acknowledged
 <2>14. (ed.kind = "claim" =>
          /\ ed.pc = "sync" \/ Written => HasDoc(ed.ref) /\ Claimed(ed.ref)
          /\ Written => disk[ed.ref].doc.ver # "none" /\ disk[ed.ref].claim # None)'
   BY Parts, <2>5, <2>6, <2>9, <2>10 DEF Acknowledged, HasDoc, Claimed
 <2> QED BY <2>11, <2>12, <2>13, <2>14 DEF Acknowledged
<1> QED BY <1>7, <1>8, <1>9, <1>10, <1>11, <1>12, <1>13, <1>14, <1>15 DEF DraftsInv

\* One attachment file goes.
LEMMA DropFileKept ==
  ASSUME DraftsInv, NEW r \in Refs, NEW f \in Files, DropFile(r, f)
  PROVE  DraftsInv'
<1>1. /\ holder' = holder /\ stage' = stage /\ fp' = fp /\ ad' = ad /\ ed' = ed /\ pr' = pr /\ disk' = disk /\ noted' = noted /\ rm' = rm
      /\ rm[r].at = "dir" /\ shelf' = [shelf EXCEPT ![r].files[f] = None]
  BY DEF DropFile, Removal, SameShelf
<1>2. /\ (holder[r] = "edit" /\ r = ed.ref /\ ed.pc = "remove") \/ (holder[r] = "prune" /\ r = pr.ref)
      /\ r = New => ad.pc \notin AdoptLeased
      /\ r = ed.ref => ed.pc \notin EditLeased \ {"remove"} BY <1>1, RemovalOf
<1>3. /\ shelf' \in [Refs -> ShelfEntries]
      /\ \A q \in Refs \ {r} : shelf'[q] = shelf[q]
      /\ shelf'[r].doc = shelf[r].doc /\ shelf'[r].dir = shelf[r].dir /\ shelf'[r].claim = shelf[r].claim
      /\ ~shelf[r].dir => shelf'[r].files = shelf[r].files
 <2> DEFINE g == [shelf[r].files EXCEPT ![f] = None]
 <2>1. shelf[r] \in ShelfEntries /\ g \in [Files -> FileBytes]
   BY Parts DEF ShelfTyped, ShelfEntries, FileBytes
 <2>2. shelf' = [shelf EXCEPT ![r] = [shelf[r] EXCEPT !.files = g]]
   BY <1>1, <2>1 DEF ShelfEntries
 <2>3. ~shelf[r].dir => g = shelf[r].files
   BY Parts, <2>1, NothingThere DEF NoDirNoFiles, ShelfEntries
 <2> HIDE DEF g
 <2>4. /\ [shelf[r] EXCEPT !.files = g] \in ShelfEntries /\ [shelf[r] EXCEPT !.files = g].files = g
       /\ [shelf[r] EXCEPT !.files = g].doc = shelf[r].doc /\ [shelf[r] EXCEPT !.files = g].dir = shelf[r].dir
       /\ [shelf[r] EXCEPT !.files = g].claim = shelf[r].claim BY <2>1, FilesChanged
 <2>5. shelf' \in [Refs -> ShelfEntries] /\ shelf'[r] = [shelf[r] EXCEPT !.files = g]
       /\ \A q \in Refs \ {r} : shelf'[q] = shelf[q] BY Parts, <2>2, <2>4 DEF ShelfTyped
 <2> QED BY <2>3, <2>4, <2>5
<1>4. left' \in Nat BY Parts, LeftTyped DEF DropFile
<1>5. KeepsDocs BY Parts, <1>1, <1>3 DEF KeepsDocs, ShelfTyped
<1> USE Parts, <1>1, <1>2, <1>3, <1>4, <1>5
<1>6. ShelfTyped' BY DEF ShelfTyped, KeepsDocs
<1>7. RunsTyped' BY DEF RunsTyped
<1>8. ShelfLeases' BY Names DEF ShelfLeases, AdoptLeased, EditLeased, RunsTyped, EditRuns
<1>9. DocsStand' BY SMTT(30), Parts, <1>1, <1>3 DEF DocsStand, Stands, DocsGo, HasDoc
<1>10. NoDirNoFiles' BY Names DEF NoDirNoFiles
<1>11. Copied' BY Names, Parts, <1>1, <1>2, <1>3 DEF Copied, BeforeDoc, AdoptLeased
<1>12. DocsGo' BY GoneStays
<1>13. MayGo' BY MayGoStays
<1>14. Acknowledged' BY AcknowledgedStays
<1> QED BY <1>6, <1>7, <1>8, <1>9, <1>10, <1>11, <1>12, <1>13, <1>14 DEF DraftsInv

\* The empty attachment directory goes.
LEMMA DropDirKept ==
  ASSUME DraftsInv, NEW r \in Refs, DropDir(r)
  PROVE  DraftsInv'
<1>1. /\ holder' = holder /\ stage' = stage /\ fp' = fp /\ ad' = ad /\ ed' = ed /\ pr' = pr
      /\ rm[r].at = "dir" /\ shelf[r].files = NoFiles BY DEF DropDir, Removal, SameShelf
<1>2. /\ (holder[r] = "edit" /\ r = ed.ref /\ ed.pc = "remove") \/ (holder[r] = "prune" /\ r = pr.ref)
      /\ r = New => ad.pc \notin AdoptLeased
      /\ r = ed.ref => ed.pc \notin EditLeased \ {"remove"} BY <1>1, RemovalOf
<1>3. /\ rm' \in [Refs -> RemovalRuns] /\ \A q \in Refs \ {r} : rm'[q] = rm[q]
      /\ rm'[r].at = "lock" /\ rm'[r].sweep = rm[r].sweep /\ rm'[r].err = rm[r].err
  BY Parts, RemovalAtDoes DEF DropDir, RemovalSteps
<1>4. /\ shelf' \in [Refs -> ShelfEntries] /\ noted' \subseteq {"prune", "list"}
      /\ \A q \in Refs \ {r} : shelf'[q] = shelf[q]
      /\ shelf'[r].doc = shelf[r].doc /\ shelf'[r].claim = shelf[r].claim /\ shelf'[r].files = NoFiles
 <2>1. shelf[r] \in ShelfEntries BY Parts DEF ShelfTyped
 <2>2. CASE Enters(r, [shelf[r] EXCEPT !.dir = FALSE])
  <3>2. /\ [shelf[r] EXCEPT !.dir = FALSE] \in ShelfEntries
        /\ [shelf[r] EXCEPT !.dir = FALSE].doc = shelf[r].doc
        /\ [shelf[r] EXCEPT !.dir = FALSE].claim = shelf[r].claim
        /\ [shelf[r] EXCEPT !.dir = FALSE].files = shelf[r].files BY <2>1, DirChanged
  <3>3. shelf' \in [Refs -> ShelfEntries] /\ noted' = {} /\ OthersStand(r)
        /\ shelf'[r] = [shelf[r] EXCEPT !.dir = FALSE] BY Parts, <2>2, <3>2, EntersDoes
  <3> QED BY <1>1, <3>2, <3>3 DEF OthersStand
 <2>3. CASE shelf' = shelf /\ noted' = noted BY Parts, <1>1, <2>3 DEF ShelfTyped
 <2> QED BY <2>2, <2>3 DEF DropDir, SameShelf
<1>5. /\ disk' \in [Refs -> ShelfEntries]
      /\ \/ disk' = disk
         \/ \A q \in Refs : /\ disk'[q].doc = shelf[q].doc /\ disk'[q].claim = shelf[q].claim
                            /\ q # r => disk'[q].dir = shelf[q].dir
                            /\ shelf[q].dir => disk'[q].files = disk[q].files
 <2>1. CASE disk' = [q \in Refs |-> [Synced(disk)[q] EXCEPT !.dir = IF q = r THEN FALSE ELSE @]]
  <3> DEFINE c(q) == IF q = r THEN FALSE ELSE Synced(disk)[q].dir
  <3>1. Synced(disk) \in [Refs -> ShelfEntries] BY Parts, SyncedDoes
  <3>2. \A q \in Refs : Synced(disk)[q] \in ShelfEntries /\ c(q) \in BOOLEAN
    BY <3>1 DEF ShelfEntries
  <3>3. disk' = [q \in Refs |-> [Synced(disk)[q] EXCEPT !.dir = c(q)]] BY <2>1
  <3>4. \A q \in Refs : q # r => c(q) = Synced(disk)[q].dir OBVIOUS
  <3> HIDE DEF c
  <3>5. ASSUME NEW q \in Refs
        PROVE  /\ disk'[q] \in ShelfEntries /\ disk'[q] = [Synced(disk)[q] EXCEPT !.dir = c(q)]
               /\ disk'[q].doc = Synced(disk)[q].doc /\ disk'[q].dir = c(q)
               /\ disk'[q].claim = Synced(disk)[q].claim /\ disk'[q].files = Synced(disk)[q].files
   <4>1. disk'[q] = [Synced(disk)[q] EXCEPT !.dir = c(q)] BY <3>3
   <4>2. Synced(disk)[q] \in ShelfEntries /\ c(q) \in BOOLEAN BY <3>2
   <4> QED BY <4>1, <4>2, DirChanged
  <3>6. disk' \in [Refs -> ShelfEntries]
   <4>1. \A q \in Refs : [Synced(disk)[q] EXCEPT !.dir = c(q)] \in ShelfEntries BY <3>5
   <4> QED BY <3>3, <4>1
  <3> QED BY Parts, <3>4, <3>5, <3>6, SyncedDoes
 <2>2. CASE disk' = disk BY Parts, <2>2 DEF ShelfTyped
 <2> QED BY <2>1, <2>2 DEF DropDir
<1>6. left' \in Nat BY Parts, LeftTyped DEF DropDir
<1>7. KeepsDocs BY Parts, <1>1, <1>4, <1>5 DEF KeepsDocs, ShelfTyped
<1> USE Parts, <1>1, <1>2, <1>3, <1>4, <1>5, <1>6, <1>7
<1>8. ShelfTyped' BY DEF ShelfTyped, KeepsDocs
<1>9. RunsTyped' BY DEF RunsTyped
<1>10. ShelfLeases' BY Names DEF ShelfLeases, AdoptLeased, EditLeased, RunsTyped, EditRuns
<1>11. DocsStand' BY SMTT(30), Parts, <1>1, <1>4, <1>5 DEF DocsStand, Stands, DocsGo, HasDoc
<1>12. NoDirNoFiles' BY Names DEF NoDirNoFiles
<1>13. Copied' BY Names, Parts, <1>1, <1>2, <1>4, <1>5 DEF Copied, BeforeDoc, AdoptLeased
<1>14. DocsGo' BY GoneStays
<1>15. MayGo' BY MayGoStays
<1>16. Acknowledged' BY AcknowledgedStays
<1> QED BY <1>8, <1>9, <1>10, <1>11, <1>12, <1>13, <1>14, <1>15, <1>16 DEF DraftsInv

\* The lock file goes last.
LEMMA DropLockKept ==
  ASSUME DraftsInv, NEW r \in Refs, DropLock(r)
  PROVE  DraftsInv'
<1>1. /\ holder' = holder /\ stage' = stage /\ fp' = fp /\ ad' = ad /\ ed' = ed /\ pr' = pr /\ disk' = disk
      /\ rm[r].at = "lock" BY DEF DropLock, Removal, SameShelf
<1>2. /\ (holder[r] = "edit" /\ r = ed.ref /\ ed.pc = "remove") \/ (holder[r] = "prune" /\ r = pr.ref)
      /\ r = New => ad.pc \notin AdoptLeased
      /\ r = ed.ref => ed.pc \notin EditLeased \ {"remove"} BY <1>1, RemovalOf
<1>3. /\ rm' \in [Refs -> RemovalRuns] /\ \A q \in Refs \ {r} : rm'[q] = rm[q]
      /\ rm'[r].at = "done" /\ rm'[r].sweep = rm[r].sweep /\ rm'[r].err = rm[r].err
  BY Parts, RemovalAtDoes DEF DropLock, RemovalSteps
<1>4. /\ shelf' \in [Refs -> ShelfEntries] /\ noted' \subseteq {"prune", "list"}
      /\ \A q \in Refs \ {r} : shelf'[q] = shelf[q]
      /\ SameDraft(shelf'[r], shelf[r])
 <2>1. shelf[r] \in ShelfEntries BY Parts DEF ShelfTyped
 <2>2. CASE Enters(r, [shelf[r] EXCEPT !.lock = FALSE])
  <3>2. /\ [shelf[r] EXCEPT !.lock = FALSE] \in ShelfEntries
        /\ SameDraft([shelf[r] EXCEPT !.lock = FALSE], shelf[r])
    BY <2>1, LockChanged DEF SameDraft
  <3>3. shelf' \in [Refs -> ShelfEntries] /\ noted' = {} /\ OthersStand(r)
        /\ shelf'[r] = [shelf[r] EXCEPT !.lock = FALSE] BY Parts, <2>2, <3>2, EntersDoes
  <3> QED BY <3>2, <3>3 DEF OthersStand
 <2>3. CASE shelf' = shelf /\ noted' = noted BY Parts, <2>3 DEF ShelfTyped, SameDraft
 <2> QED BY <2>2, <2>3 DEF DropLock, SameShelf
<1>5. left' \in Nat BY Parts, LeftTyped DEF DropLock
<1>6. KeepsDrafts BY Parts, <1>1, <1>4 DEF KeepsDrafts, SameDraft, ShelfTyped
<1>7. KeepsDocs BY <1>6, DraftsAndDocs
<1> USE Parts, <1>1, <1>2, <1>3, <1>4, <1>5, <1>6, <1>7
<1>8. ShelfTyped' BY DEF ShelfTyped, KeepsDocs
<1>9. RunsTyped' BY DEF RunsTyped
<1>10. ShelfLeases' BY Names DEF ShelfLeases, AdoptLeased, EditLeased, RunsTyped, EditRuns
<1>11. DocsStand' /\ NoDirNoFiles' BY Parts, <1>6, StandsStay
<1>12. Copied' BY CopiedStays
<1>13. DocsGo' BY Parts, <1>1, <1>2, <1>3, <1>4, <1>5, <1>7, GoneStays
<1>14. MayGo' BY Parts, <1>1, <1>2, <1>3, <1>4, <1>5, <1>7, MayGoStays
<1>15. Acknowledged' BY Parts, <1>1, <1>2, <1>3, <1>4, <1>5, <1>7, AcknowledgedStays
<1> QED BY <1>8, <1>9, <1>10, <1>11, <1>12, <1>13, <1>14, <1>15 DEF DraftsInv

\* A call of the removal fails.
LEMMA RemovalFailsKept ==
  ASSUME DraftsInv, NEW r \in Refs, RemovalFails(r)
  PROVE  DraftsInv'
<1>1. /\ holder' = holder /\ stage' = stage /\ fp' = fp /\ ad' = ad /\ ed' = ed /\ pr' = pr /\ shelf' = shelf /\ noted' = noted /\ disk' = disk
      /\ rm[r].at \in {"doc", "sync", "claims", "dir", "lock"}
  BY DEF RemovalFails, Removal, SameShelf
<1>2. /\ (holder[r] = "edit" /\ r = ed.ref /\ ed.pc = "remove") \/ (holder[r] = "prune" /\ r = pr.ref)
      /\ r = New => ad.pc \notin AdoptLeased
      /\ r = ed.ref => ed.pc \notin EditLeased \ {"remove"} BY <1>1, RemovalOf
<1>3. /\ rm' \in [Refs -> RemovalRuns] /\ \A q \in Refs \ {r} : rm'[q] = rm[q]
      /\ rm'[r].err /\ rm'[r].sweep = rm[r].sweep
      /\ rm'[r].at \in {"done", "lock"} \/ (rm'[r].at = "dir" /\ rm[r].at = "claims" /\ ~rm[r].sweep)
  BY Parts DEF RemovalFails, RunsTyped, RemovalRuns, RemovalSteps
<1>4. left' \in Nat BY Parts, LeftTyped DEF RemovalFails
<1>5. KeepsDrafts BY Parts, <1>1, SameKeeps DEF ShelfTyped
<1>6. KeepsDocs BY <1>5, DraftsAndDocs
<1> USE Parts, <1>1, <1>2, <1>3, <1>4, <1>5, <1>6
<1>7. ShelfTyped' BY DEF ShelfTyped, KeepsDocs
<1>8. RunsTyped' BY DEF RunsTyped
<1>9. ShelfLeases' BY Names DEF ShelfLeases, AdoptLeased, EditLeased, RunsTyped, EditRuns
<1>10. DocsStand' /\ NoDirNoFiles' BY Parts, <1>5, StandsStay
<1>11. Copied' BY CopiedStays
<1>12. DocsGo'
  BY Names, Parts, <1>1, <1>2, <1>3, <1>4, <1>6 DEF DocsGo, HasDoc, RunsTyped, EditRuns, KeepsDocs
<1>13. MayGo' BY Parts, <1>1, <1>2, <1>3, <1>4, <1>6, MayGoStays
<1>14. Acknowledged' BY Parts, <1>1, <1>2, <1>3, <1>4, <1>6, AcknowledgedStays
<1> QED BY <1>7, <1>8, <1>9, <1>10, <1>11, <1>12, <1>13, <1>14 DEF DraftsInv

----------------------------------------------------------------------------
(* The steps of an edit. *)

\* A command on a draft begins.
LEMMA EditStartKept ==
  ASSUME DraftsInv, EditStart
  PROVE  DraftsInv'
<1>1. /\ ad' = ad /\ pr' = pr /\ stage' = stage /\ fp' = fp /\ holder' = holder /\ rm' = rm
      /\ shelf' = shelf /\ disk' = disk /\ noted' = noted /\ ed.pc = "off"
  BY DEF EditStart, Editing, Beside, Aside, SameShelf
<1>2. ed' \in EditRuns /\ ed'.pc = "lease" /\ ed'.kind # None /\ ed'.result = ed.result
  BY Names, Parts DEF EditStart, RunsTyped, EditRuns, EditSteps, Edits
<1>3. left' \in Nat BY Parts, LeftTyped DEF EditStart
<1>4. KeepsDrafts BY Parts, <1>1, SameKeeps DEF ShelfTyped
<1>5. KeepsDocs BY <1>4, DraftsAndDocs
<1> USE Parts, <1>1, <1>2, <1>3, <1>4, <1>5
<1>6. ShelfTyped' BY DEF ShelfTyped, KeepsDocs
<1>7. RunsTyped' BY DEF RunsTyped
<1>8. ShelfLeases' BY Names DEF ShelfLeases, AdoptLeased, EditLeased, RunsTyped, EditRuns
<1>9. DocsStand' /\ NoDirNoFiles' BY Parts, <1>4, StandsStay
<1>10. Copied' BY CopiedStays
<1>11. DocsGo'
  BY Names, Parts, <1>1, <1>2, <1>3, <1>5 DEF DocsGo, HasDoc, RunsTyped, EditRuns, KeepsDocs
<1>12. MayGo'
 <2>1. \A r \in Refs : holder[r] # "edit" BY Names, Parts, <1>1 DEF ShelfLeases, EditLeased
 <2>2. \A r \in Refs : PruneEligible(r)' <=> PruneEligible(r) BY <1>1 DEF PruneEligible, HasDoc, Claimed
 <2> QED BY Parts, <1>1, <1>2, <2>1, <2>2 DEF MayGo
<1>13. Acknowledged'
 <2>1. ed.kind = None /\ ed'.result # "ok" BY Parts, <1>1, <1>2 DEF MayGo
 <2>2. ~Discards(New) BY Names, <2>1 DEF Discards
 <2>3. ~Written' BY <1>2, <2>1 DEF Written
 <2> QED BY Parts, <1>1, <1>2, <2>1, <2>2, <2>3 DEF Acknowledged, HasDoc
<1> QED BY <1>6, <1>7, <1>8, <1>9, <1>10, <1>11, <1>12, <1>13 DEF DraftsInv

\* Its lease, or it is refused.
LEMMA EditLeaseKept ==
  ASSUME DraftsInv, EditLease
  PROVE  DraftsInv'
<1>1. /\ ad' = ad /\ pr' = pr /\ stage' = stage /\ fp' = fp /\ disk' = disk /\ rm' = rm /\ ed.pc = "lease"
  BY DEF EditLease, Editing, Beside, Aside, SameShelf
<1>2. \/ Leases("edit", ed.ref) /\ EditTo("read")
      \/ EditEnds("error") /\ shelf' = shelf /\ noted' = noted /\ holder' = holder
  BY DEF EditLease, InUse, SameShelf
<1>3. /\ ed' \in EditRuns /\ ed'.kind = ed.kind /\ ed'.ref = ed.ref /\ ed'.result \in {ed.result, "error"}
      /\ \/ ed'.pc = "read" /\ holder[ed.ref] = None /\ holder'[ed.ref] = "edit"
         \/ ed'.pc = "done" /\ holder' = holder
  BY Parts, <1>2, LeasesDoes, EditEndsDoes, EditToDoes DEF EditSteps, ShelfEnds, Holders
<1>4. holder' \in [Refs -> Holders] /\ \A q \in Refs \ {ed.ref} : holder'[q] = holder[q]
  BY Names, Parts, <1>2, LeasesDoes DEF RunsTyped, Holders
<1>5. left' \in Nat BY Parts, LeftTyped DEF EditLease
<1>6. KeepsDrafts
  BY ZenonT(60), Parts, <1>1, <1>2, LeasesDoes DEF KeepsDrafts, SameDraft, OthersStand, NothingEnters, ShelfTyped, Holders
<1>7. KeepsDocs BY <1>6, DraftsAndDocs
<1> USE Parts, <1>1, <1>2, <1>3, <1>4, <1>5, <1>6, <1>7
<1>8. ShelfTyped' BY DEF ShelfTyped, KeepsDocs
<1>9. RunsTyped' BY DEF RunsTyped
<1>10. ShelfLeases'
 <2>1. CASE ed'.pc = "done" /\ holder' = holder
   BY Names, Parts, <1>1, <1>3, <2>1 DEF ShelfLeases, AdoptLeased, EditLeased
 <2>2. CASE ed'.pc = "read" /\ holder[ed.ref] = None /\ holder'[ed.ref] = "edit"
  <3>1. rm[ed.ref].at = "idle" /\ (ad.pc \in AdoptLeased => ed.ref # New) /\ pr.ref # ed.ref
    BY Names, Parts, <2>2 DEF ShelfLeases
  <3>2. \A q \in Refs : holder[q] # "edit" BY Names, Parts, <1>1 DEF ShelfLeases, EditLeased
  <3> QED BY Names, Parts, <1>1, <1>3, <1>4, <2>2, <3>1, <3>2 DEF ShelfLeases, AdoptLeased, EditLeased
 <2> QED BY <1>3, <2>1, <2>2
<1>11. DocsStand' /\ NoDirNoFiles' BY Parts, <1>6, StandsStay
<1>12. Copied' BY CopiedStays
<1>13. DocsGo'
  BY Names, Parts, <1>1, <1>2, <1>3, <1>4, <1>5, <1>7 DEF DocsGo, HasDoc, RunsTyped, EditRuns, KeepsDocs
<1>14. MayGo'
 <2>1. rm[ed.ref].at = "doc" => holder'[ed.ref] = holder[ed.ref]
   BY Names, Parts, <1>3 DEF ShelfLeases
 <2>2. \A r \in Refs : PruneEligible(r)' <=> PruneEligible(r)
   BY <1>6 DEF PruneEligible, HasDoc, Claimed, KeepsDrafts, SameDraft
 <2>3. ~shelf'[New].doc.old /\ ~disk'[New].doc.old
   BY Names, Parts, <1>6 DEF MayGo, KeepsDrafts, SameDraft
 <2> QED BY Names, Parts, <1>1, <1>3, <1>4, <2>1, <2>2, <2>3 DEF MayGo
<1>15. Acknowledged'
 <2>1. ~Written BY Parts, <1>1 DEF Written, MayGo
 <2>2. ~Written' BY Parts, <1>1, <1>3, <2>1 DEF Written
 <2>3. Discards(New)' <=> Discards(New) BY <1>3 DEF Discards
 <2> QED BY Names, Parts, <1>1, <1>3, <1>6, <2>2, <2>3 DEF Acknowledged, HasDoc, KeepsDrafts, SameDraft
<1> QED BY <1>8, <1>9, <1>10, <1>11, <1>12, <1>13, <1>14, <1>15 DEF DraftsInv

\* The draft is read: it is missing, removed, refused or written again.
LEMMA EditReadKept ==
  ASSUME DraftsInv, EditRead
  PROVE  DraftsInv'
<1>1. /\ ad' = ad /\ pr' = pr /\ stage' = stage /\ fp' = fp /\ disk' = disk /\ holder' = holder /\ ed.pc = "read"
  BY DEF EditRead, Editing, Beside, Aside, SameShelf
<1>2. \/ /\ rm' = [rm EXCEPT ![ed.ref] = [@ EXCEPT !.at = "lock", !.err = TRUE]]
         /\ EditTo("remove") /\ shelf' = shelf /\ noted' = noted
      \/ ed.kind = "discard" /\ Removes(ed.ref, FALSE) /\ EditTo("remove") /\ shelf' = shelf /\ noted' = noted
      \/ EditTo("refused") /\ shelf' = shelf /\ noted' = noted /\ rm' = rm
      \/ HasDoc(ed.ref) /\ Enters(ed.ref, [shelf[ed.ref] EXCEPT !.temp = "young"]) /\ EditTo("rename") /\ rm' = rm
  BY DEF EditRead, SameShelf
<1>3. /\ ed' \in EditRuns /\ ed'.kind = ed.kind /\ ed'.ref = ed.ref /\ ed'.result = ed.result
      /\ ed'.pc \in {"remove", "refused", "rename"}
      /\ ed'.pc = "rename" => HasDoc(ed.ref) BY Parts, <1>2, EditToDoes DEF EditSteps
<1>4. /\ rm' \in [Refs -> RemovalRuns] /\ \A q \in Refs \ {ed.ref} : rm'[q] = rm[q]
      /\ \/ rm' = rm /\ ed'.pc # "remove"
         \/ ed'.pc = "remove" /\ rm'[ed.ref].at = "lock" /\ rm'[ed.ref].err
         \/ ed'.pc = "remove" /\ rm'[ed.ref].at = "doc" /\ ed.kind = "discard"
  BY ZenonT(60), Parts, <1>2, RemovesDoes, EditToDoes DEF RunsTyped, RemovalRuns, RemovalSteps, EditSteps
<1>5. holder[ed.ref] = "edit" BY Parts, <1>1 DEF ShelfLeases, EditLeased
<1>6. left' \in Nat BY Parts, LeftTyped DEF EditRead
<1>7. KeepsDrafts
 <2>1. CASE Enters(ed.ref, [shelf[ed.ref] EXCEPT !.temp = "young"])
   BY ZenonT(60), Parts, <1>1, <2>1, TempDoes DEF KeepsDrafts, SameDraft, OthersStand, ShelfTyped
 <2>2. CASE shelf' = shelf /\ noted' = noted BY Parts, <1>1, <2>2, SameKeeps DEF ShelfTyped
 <2> QED BY <1>2, <2>1, <2>2
<1>8. KeepsDocs BY <1>7, DraftsAndDocs
<1> USE Parts, <1>1, <1>2, <1>3, <1>4, <1>5, <1>6, <1>7, <1>8
<1>9. ShelfTyped' BY DEF ShelfTyped, KeepsDocs
<1>10. RunsTyped' BY DEF RunsTyped
<1>11. ShelfLeases' BY Names DEF ShelfLeases, AdoptLeased, EditLeased, RunsTyped, EditRuns
<1>12. DocsStand' /\ NoDirNoFiles' BY Parts, <1>7, StandsStay
<1>13. Copied' BY CopiedStays
<1>14. DocsGo'
  BY Names, Parts, <1>1, <1>2, <1>3, <1>4, <1>5, <1>6, <1>8 DEF DocsGo, HasDoc, RunsTyped, EditRuns, KeepsDocs
<1>15. MayGo'
 <2>2. \A r \in Refs : PruneEligible(r)' <=> PruneEligible(r)
   BY <1>7 DEF PruneEligible, HasDoc, Claimed, KeepsDrafts, SameDraft
 <2>3. ~shelf'[New].doc.old /\ ~disk'[New].doc.old
   BY Names, Parts, <1>7 DEF MayGo, KeepsDrafts, SameDraft
 <2> QED BY Names, Parts, <1>1, <1>3, <1>4, <1>5, <2>2, <2>3 DEF MayGo
<1>16. Acknowledged'
 <2>1. ~Written BY Parts, <1>1 DEF Written, MayGo
 <2>2. ~Written' BY Parts, <1>1, <1>3, <2>1 DEF Written
 <2>3. Discards(New)' <=> Discards(New) BY <1>3 DEF Discards
 <2> QED BY Names, Parts, <1>1, <1>3, <1>7, <2>2, <2>3 DEF Acknowledged, HasDoc, KeepsDrafts, SameDraft
<1> QED BY <1>9, <1>10, <1>11, <1>12, <1>13, <1>14, <1>15, <1>16 DEF DraftsInv

\* The new document gets its name, or the rename fails.
LEMMA EditRenameKept ==
  ASSUME DraftsInv, EditRename
  PROVE  DraftsInv'
<1>1. /\ ad' = ad /\ pr' = pr /\ stage' = stage /\ fp' = fp /\ disk' = disk /\ holder' = holder /\ rm' = rm /\ ed.pc = "rename"
  BY DEF EditRename, Publish, Unpublished, Editing, Beside, Aside, SameShelf
<1>2. \/ /\ EditTo("sync")
         /\ \/ /\ ed.kind = "update"
               /\ \E p \in {shelf[ed.ref].doc.fp, NoFiles} :
                    Enters(ed.ref, [[shelf[ed.ref] EXCEPT !.doc = [ver |-> "edited", old |-> FALSE, fp |-> p]] EXCEPT !.temp = None])
            \/ /\ ed.kind # "update"
               /\ \E c \in {"send", "handoff", "saved"} :
                    Enters(ed.ref, [[shelf[ed.ref] EXCEPT !.claim = c] EXCEPT !.temp = None])
      \/ EditTo("refused") /\ Enters(ed.ref, [shelf[ed.ref] EXCEPT !.temp = None])
  BY Names DEF EditRename, Edited, Publish, Unpublished
<1>3. /\ ed' \in EditRuns /\ ed'.pc \in {"sync", "refused"} /\ ed'.kind = ed.kind /\ ed'.ref = ed.ref /\ ed'.result = ed.result
  BY Parts, <1>2, EditToDoes DEF EditSteps
<1>4. /\ holder[ed.ref] = "edit" /\ rm[ed.ref].at = "idle" /\ HasDoc(ed.ref) /\ ed.result # "ok"
      /\ ad.pc \in AdoptLeased => ed.ref # New
  BY Names, Parts, <1>1 DEF ShelfLeases, EditLeased, DocsGo, MayGo
<1>5. /\ shelf' \in [Refs -> ShelfEntries] /\ noted' = {} /\ \A q \in Refs \ {ed.ref} : shelf'[q] = shelf[q]
      /\ shelf'[ed.ref].dir = shelf[ed.ref].dir /\ shelf'[ed.ref].files = shelf[ed.ref].files
      /\ shelf'[ed.ref].doc.ver # "none" /\ shelf'[ed.ref].doc.fp \in {shelf[ed.ref].doc.fp, NoFiles}
      /\ shelf'[ed.ref].doc.old \in {shelf[ed.ref].doc.old, FALSE}
      /\ ed'.pc = "sync" /\ ed.kind = "update" => shelf'[ed.ref].doc.ver = "edited" /\ shelf'[ed.ref].doc.old = FALSE
      /\ ed'.pc = "sync" /\ ed.kind = "claim" => shelf'[ed.ref].claim # None
      /\ shelf'[ed.ref].claim = shelf[ed.ref].claim \/ shelf'[ed.ref].claim # None
 <2>1. shelf[ed.ref] \in ShelfEntries /\ HasDoc(ed.ref) BY Parts, <1>4 DEF ShelfTyped
 <2>0. None \in {None, "old", "young"} OBVIOUS
 <2>2. ASSUME NEW p \in {shelf[ed.ref].doc.fp, NoFiles}, EditTo("sync"), ed.kind = "update",
              Enters(ed.ref, [[shelf[ed.ref] EXCEPT !.doc = [ver |-> "edited", old |-> FALSE, fp |-> p]] EXCEPT !.temp = None])
       PROVE  <1>5!:
  <3> DEFINE d == [ver |-> "edited", old |-> FALSE, fp |-> p]
             x == [shelf[ed.ref] EXCEPT !.doc = d]
             y == [x EXCEPT !.temp = None]
  <3>0. d \in ShelfDocs BY <2>1, NothingThere DEF ShelfEntries, ShelfDocs, DocVers
  <3>1. /\ x \in ShelfEntries /\ x.doc = d /\ x.dir = shelf[ed.ref].dir /\ x.files = shelf[ed.ref].files
        /\ x.claim = shelf[ed.ref].claim BY <2>1, <3>0, DocChanged
  <3>2. Enters(ed.ref, y) BY <2>2
  <3> HIDE DEF x
  <3>4. y \in ShelfEntries /\ y.doc = x.doc /\ y.dir = x.dir /\ y.files = x.files /\ y.claim = x.claim
    BY <2>0, <3>1, TempChanged
  <3> HIDE DEF y
  <3>5. shelf' \in [Refs -> ShelfEntries] /\ noted' = {} /\ shelf'[ed.ref] = y /\ OthersStand(ed.ref)
    BY Parts, <3>2, <3>4, EntersDoes
  <3>7. d.ver = "edited" /\ d.old = FALSE /\ d.fp = p OBVIOUS
  <3> HIDE DEF d
  <3> QED BY <2>2, <3>1, <3>4, <3>5, <3>7 DEF OthersStand
 <2>3. ASSUME NEW c \in {"send", "handoff", "saved"}, EditTo("sync"), ed.kind # "update",
              Enters(ed.ref, [[shelf[ed.ref] EXCEPT !.claim = c] EXCEPT !.temp = None])
       PROVE  <1>5!:
  <3> DEFINE x == [shelf[ed.ref] EXCEPT !.claim = c]
             y == [x EXCEPT !.temp = None]
  <3>0. c \in {None, "save", "send", "handoff", "saved"} /\ c # None BY Names
  <3>1. /\ x \in ShelfEntries /\ x.doc = shelf[ed.ref].doc /\ x.dir = shelf[ed.ref].dir /\ x.files = shelf[ed.ref].files
        /\ x.claim = c BY <2>1, <3>0, ClaimChanged
  <3>2. Enters(ed.ref, y) BY <2>3
  <3> HIDE DEF x
  <3>4. y \in ShelfEntries /\ y.doc = x.doc /\ y.dir = x.dir /\ y.files = x.files /\ y.claim = x.claim
    BY <2>0, <3>1, TempChanged
  <3> HIDE DEF y
  <3>5. shelf' \in [Refs -> ShelfEntries] /\ noted' = {} /\ shelf'[ed.ref] = y /\ OthersStand(ed.ref)
    BY Parts, <3>2, <3>4, EntersDoes
  <3> QED BY <2>1, <2>3, <3>0, <3>1, <3>4, <3>5 DEF OthersStand, HasDoc
 <2>4. ASSUME EditTo("refused"), Enters(ed.ref, [shelf[ed.ref] EXCEPT !.temp = None])
       PROVE  <1>5!:
  <3>1. ed'.pc = "refused" BY Parts, <2>4, EditToDoes DEF EditSteps
  <3>2. /\ shelf' \in [Refs -> ShelfEntries] /\ noted' = {} /\ OthersStand(ed.ref)
        /\ SameDraft(shelf'[ed.ref], shelf[ed.ref]) BY Parts, <2>4, TempDoes
  <3> QED BY <2>1, <3>1, <3>2 DEF OthersStand, SameDraft, HasDoc
 <2> QED BY <1>2, <2>2, <2>3, <2>4
<1>6. left' \in Nat BY Parts, LeftTyped DEF EditRename
<1> USE Parts, <1>1, <1>2, <1>3, <1>4, <1>5, <1>6
<1>7. ShelfTyped' BY DEF ShelfTyped
<1>8. RunsTyped' BY DEF RunsTyped
<1>9. ShelfLeases' BY Names DEF ShelfLeases, AdoptLeased, EditLeased, RunsTyped, EditRuns
<1>10. DocsStand'
  BY SMTT(30), NothingThere, Parts, <1>1, <1>4, <1>5 DEF DocsStand, Stands, HasDoc
<1>11. NoDirNoFiles' BY SMTT(30), Names DEF NoDirNoFiles
<1>12. Copied'
 <2>1. ad.pc \in BeforeDoc => ed.ref # New BY Names, Parts, <1>4 DEF Copied, HasDoc
 <2> QED BY SMTT(30), Names, Parts, <1>1, <1>5, <2>1 DEF Copied, BeforeDoc
<1>13. DocsGo'
 <2>1. \A q \in Refs \ {ed.ref} : HasDoc(q)' <=> HasDoc(q) BY <1>5 DEF HasDoc
 <2>2. HasDoc(ed.ref)' BY <1>3, <1>5 DEF HasDoc
 <2> QED BY Parts, <1>1, <1>3, <1>4, <2>1, <2>2 DEF DocsGo
<1>14. MayGo'
 <2>1. \A q \in Refs \ {ed.ref} : PruneEligible(q)' <=> PruneEligible(q)
   BY <1>5 DEF PruneEligible, HasDoc, Claimed
 <2>3. ~shelf'[New].doc.old /\ ~disk'[New].doc.old BY Names, Parts, <1>1, <1>5 DEF MayGo
 <2>4. \A q \in Refs : rm[q].at = "doc" => q # ed.ref BY <1>4
 <2> QED BY Names, Parts, <1>1, <1>3, <2>1, <2>3, <2>4 DEF MayGo
<1>15. Acknowledged'
 <2>1. \A q \in Refs \ {ed.ref} : HasDoc(q)' <=> HasDoc(q) BY <1>5 DEF HasDoc
 <2>2. HasDoc(ed.ref)' /\ ~Written' BY <1>3, <1>4, <1>5 DEF HasDoc, Written
 <2>3. Discards(New)' <=> Discards(New) BY <1>3 DEF Discards
 <2> QED BY Names, Parts, <1>1, <1>3, <1>5, <2>1, <2>2, <2>3 DEF Acknowledged, Claimed
<1> QED BY <1>7, <1>8, <1>9, <1>10, <1>11, <1>12, <1>13, <1>14, <1>15 DEF DraftsInv

\* The directory is synced, or the sync fails.
LEMMA EditSyncKept ==
  ASSUME DraftsInv, EditSync
  PROVE  DraftsInv'
<1>1. /\ ad' = ad /\ pr' = pr /\ stage' = stage /\ fp' = fp /\ shelf' = shelf /\ noted' = noted /\ holder' = holder /\ ed.pc = "sync"
  BY DEF EditSync, Editing, Beside, Aside, SameShelf
<1>2. \/ disk' = Synced(disk) /\ ed.kind = "save" /\ Removes(ed.ref, FALSE) /\ EditTo("remove")
      \/ disk' = Synced(disk) /\ ed.kind # "save" /\ EditTo("written") /\ rm' = rm
      \/ disk' = disk /\ rm' = rm /\ EditTo("refused") BY DEF EditSync, SyncShelf
<1>3. /\ ed' \in EditRuns /\ ed'.kind = ed.kind /\ ed'.ref = ed.ref /\ ed'.result = ed.result
      /\ rm' \in [Refs -> RemovalRuns] /\ \A q \in Refs \ {ed.ref} : rm'[q] = rm[q]
      /\ \/ ed'.pc = "remove" /\ rm'[ed.ref].at = "doc" /\ ed.kind = "save"
         \/ ed'.pc \in {"written", "refused"} /\ rm' = rm
  BY Parts, <1>2, RemovesDoes, EditToDoes DEF RunsTyped, EditSteps
<1>4. /\ disk' \in [Refs -> ShelfEntries]
      /\ \/ ed'.pc # "written" /\ disk' = disk
         \/ \A q \in Refs : /\ disk'[q].doc = shelf[q].doc /\ disk'[q].dir = shelf[q].dir
                            /\ disk'[q].claim = shelf[q].claim
                            /\ shelf[q].dir => disk'[q].files = disk[q].files
  BY ZenonT(60), Parts, <1>2, SyncedDoes, EditToDoes DEF ShelfTyped, EditSteps
<1>5. holder[ed.ref] = "edit" /\ ed.result # "ok"
  BY Parts, <1>1 DEF ShelfLeases, EditLeased, MayGo
<1>6. left' \in Nat BY Parts, LeftTyped DEF EditSync
<1>7. KeepsDocs BY Parts, <1>1, <1>4 DEF KeepsDocs, ShelfTyped
<1> USE Parts, <1>1, <1>2, <1>3, <1>4, <1>5, <1>6, <1>7
<1>8. ShelfTyped' BY DEF ShelfTyped, KeepsDocs
<1>9. RunsTyped' BY DEF RunsTyped
<1>10. ShelfLeases' BY Names DEF ShelfLeases, AdoptLeased, EditLeased, RunsTyped, EditRuns
<1>11. DocsStand' BY Names DEF DocsStand, Stands
<1>12. NoDirNoFiles' BY Names DEF NoDirNoFiles
<1>13. Copied' BY Names DEF Copied, BeforeDoc
<1>14. DocsGo'
 <2>1. \A q \in Refs : HasDoc(q)' <=> HasDoc(q) BY <1>1 DEF HasDoc
 <2>2. \A q \in Refs : disk'[q].doc \in {disk[q].doc, shelf[q].doc} BY <1>7 DEF KeepsDocs
 <2> QED BY Parts, <1>1, <1>3, <2>1, <2>2 DEF DocsGo, HasDoc
<1>15. MayGo'
 <2>2. \A r \in Refs : PruneEligible(r)' <=> PruneEligible(r)
   BY <1>1 DEF PruneEligible, HasDoc, Claimed
 <2>3. ~shelf'[New].doc.old /\ ~disk'[New].doc.old BY Names, Parts, <1>7 DEF MayGo, KeepsDocs
 <2> QED BY Names, Parts, <1>1, <1>3, <1>5, <2>2, <2>3 DEF MayGo
<1>16. Acknowledged'
 <2>1. Written' => ed'.pc = "written" BY <1>3, <1>5 DEF Written
 <2>2. ed'.pc = "written" => \A q \in Refs : disk'[q].doc = shelf[q].doc /\ disk'[q].claim = shelf[q].claim BY <1>4
 <2>3. Discards(New)' <=> Discards(New) BY <1>3 DEF Discards
 <2>4. \A q \in Refs : (HasDoc(q)' <=> HasDoc(q)) /\ (Claimed(q)' <=> Claimed(q)) BY <1>1 DEF HasDoc, Claimed
 <2>5. \A q \in Refs : disk'[q].doc \in {disk[q].doc, shelf[q].doc} BY <1>7 DEF KeepsDocs
 <2> QED BY Names, Parts, <1>1, <1>3, <2>1, <2>2, <2>3, <2>4, <2>5 DEF Acknowledged, HasDoc, Claimed
<1> QED BY <1>8, <1>9, <1>10, <1>11, <1>12, <1>13, <1>14, <1>15, <1>16 DEF DraftsInv

\* The lease is given back and the result reported.
LEMMA EditDoneKept ==
  ASSUME DraftsInv, EditDone
  PROVE  DraftsInv'
<1>1. /\ ad' = ad /\ pr' = pr /\ stage' = stage /\ fp' = fp /\ shelf' = shelf /\ noted' = noted /\ disk' = disk
      /\ ed.pc \in {"refused", "written"} \/ (ed.pc = "remove" /\ Removed(ed.ref))
      /\ Releases(ed.ref) BY DEF EditDone, Editing, Beside, Aside, SameShelf
<1>2. /\ ed' \in EditRuns /\ ed'.pc = "done" /\ ed'.kind = ed.kind /\ ed'.ref = ed.ref
      /\ ed'.result = "ok" => ed.pc = "written" \/ (ed.pc = "remove" /\ ~rm[ed.ref].err)
  BY Parts, EditEndsDoes DEF EditDone, ShelfEnds
<1>3. /\ holder' \in [Refs -> Holders] /\ rm' \in [Refs -> RemovalRuns]
      /\ holder'[ed.ref] = None /\ rm'[ed.ref].at = "idle"
      /\ \A q \in Refs \ {ed.ref} : holder'[q] = holder[q] /\ rm'[q] = rm[q]
  BY Parts, <1>1, ReleasesDoes, IdleIs
<1>4. holder[ed.ref] = "edit" BY Parts, <1>1 DEF ShelfLeases, EditLeased
<1>5. left' \in Nat BY Parts, LeftTyped DEF EditDone
<1>6. KeepsDrafts BY Parts, <1>1, SameKeeps DEF ShelfTyped
<1>7. KeepsDocs BY <1>6, DraftsAndDocs
<1> USE Parts, <1>1, <1>2, <1>3, <1>4, <1>5, <1>6, <1>7
<1>8. ShelfTyped' BY DEF ShelfTyped, KeepsDocs
<1>9. RunsTyped' BY DEF RunsTyped
<1>10. ShelfLeases' BY Names DEF ShelfLeases, AdoptLeased, EditLeased, RunsTyped, EditRuns
<1>11. DocsStand' /\ NoDirNoFiles' BY Parts, <1>6, StandsStay
<1>12. Copied' BY CopiedStays
<1>13. DocsGo'
  BY Names, Parts, <1>1, <1>2, <1>3, <1>4, <1>5, <1>7 DEF DocsGo, HasDoc, RunsTyped, EditRuns, KeepsDocs
<1>14. MayGo'
 <2>2. \A r \in Refs : PruneEligible(r)' <=> PruneEligible(r)
   BY <1>1 DEF PruneEligible, HasDoc, Claimed
 <2> QED BY Names, Parts, <1>1, <1>2, <1>3, <2>2 DEF MayGo
<1>15. Acknowledged'
 <2>1. ed.kind \in {"update", "claim"} /\ Written' => Written BY Parts, <1>2 DEF Written, MayGo
 <2>3. Discards(New)' <=> Discards(New) BY <1>2 DEF Discards
 <2>4. \A q \in Refs : (HasDoc(q)' <=> HasDoc(q)) /\ (Claimed(q)' <=> Claimed(q)) BY <1>1 DEF HasDoc, Claimed
 <2> QED BY Names, Parts, <1>1, <1>2, <2>1, <2>3, <2>4 DEF Acknowledged
<1> QED BY <1>8, <1>9, <1>10, <1>11, <1>12, <1>13, <1>14, <1>15 DEF DraftsInv

----------------------------------------------------------------------------
(* The steps of a prune and of a listing. *)

\* The inventory begins.
LEMMA PruneStartKept ==
  ASSUME DraftsInv, PruneStart
  PROVE  DraftsInv'
<1>1. /\ shelf' = shelf /\ disk' = disk /\ holder' = holder /\ rm' = rm
      /\ stage' = stage /\ fp' = fp /\ ad' = ad /\ ed' = ed
  BY DEF PruneStart, DryEnds, Pruning, Beside, Aside, SameShelf, PruneTo, PruneFailed, Listing
<1>2. noted' \subseteq {"prune", "list"}
  BY Parts DEF PruneStart, DryEnds, Pruning, Beside, Aside, SameShelf, PruneTo, PruneFailed, Listing, ShelfTyped
<1>3. left' \in Nat BY Parts, LeftTyped DEF PruneStart, DryEnds, Listing
<1>4. pr.ref = None BY Names, Parts DEF PruneStart, DryEnds, Pruning, ShelfLeases
<1>5. /\ pr' \in PruneRuns /\ pr'.ref = None
      /\ pr'.pc \notin {"off", "done"} => pr'.kind # None /\ pr'.result # "killed"
 <2> DEFINE quiet == ({ad.pc, ed.pc} = {"done"})
            seen == [r \in Refs |-> {}]
            n == pr.runs + 1
 <2>1. PICK kind \in {"prune", "dryrun"} :
         pr' = [pr EXCEPT !.pc = "look", !.kind = kind, !.seen = seen, !.todo = Refs,
                          !.runs = n, !.quiet = quiet, !.result = None] BY DEF PruneStart
 <2>2. quiet \in BOOLEAN /\ seen \in [Refs -> SUBSET Traces] OBVIOUS
 <2>3. n \in Nat BY Parts DEF RunsTyped, PruneRuns
 <2> HIDE DEF quiet, seen, n
 <2> QED BY Names, Parts, <1>4, <2>1, <2>2, <2>3 DEF RunsTyped, PruneRuns, PruneSteps, PruneEnds
<1> QED BY <1>1, <1>2, <1>3, <1>4, <1>5, AsideKeeps

\* An entry of the directory is classified.
LEMMA PruneLookKept ==
  ASSUME DraftsInv, NEW r \in Refs, PruneLook(r)
  PROVE  DraftsInv'
<1>1. /\ shelf' = shelf /\ disk' = disk /\ holder' = holder /\ rm' = rm
      /\ stage' = stage /\ fp' = fp /\ ad' = ad /\ ed' = ed
  BY DEF PruneLook, DryEnds, Pruning, Beside, Aside, SameShelf, PruneTo, PruneFailed, Listing
<1>2. noted' \subseteq {"prune", "list"}
  BY Parts DEF PruneLook, DryEnds, Pruning, Beside, Aside, SameShelf, PruneTo, PruneFailed, Listing, ShelfTyped
<1>3. left' \in Nat BY Parts, LeftTyped DEF PruneLook, DryEnds, Listing
<1>4. pr.ref = None BY Names, Parts DEF PruneLook, DryEnds, Pruning, ShelfLeases
<1>5. /\ pr' \in PruneRuns /\ pr'.ref = None
      /\ pr'.pc \notin {"off", "done"} => pr'.kind # None /\ pr'.result # "killed"
  BY Names, Parts, <1>4 DEF PruneLook, DryEnds, Pruning, Beside, Aside, SameShelf, PruneTo, PruneFailed, RunsTyped, PruneRuns, PruneSteps, PruneEnds, ShelfLeases, Classified, Traces
<1> QED BY <1>1, <1>2, <1>3, <1>4, <1>5, AsideKeeps

\* The inventory is compared with the directory.
LEMMA PruneVerifyKept ==
  ASSUME DraftsInv, PruneVerify
  PROVE  DraftsInv'
<1>1. /\ shelf' = shelf /\ disk' = disk /\ holder' = holder /\ rm' = rm
      /\ stage' = stage /\ fp' = fp /\ ad' = ad /\ ed' = ed
  BY DEF PruneVerify, DryEnds, Pruning, Beside, Aside, SameShelf, PruneTo, PruneFailed, Listing
<1>2. noted' \subseteq {"prune", "list"}
  BY Parts DEF PruneVerify, DryEnds, Pruning, Beside, Aside, SameShelf, PruneTo, PruneFailed, Listing, ShelfTyped
<1>3. left' \in Nat BY Parts, LeftTyped DEF PruneVerify, DryEnds, Listing
<1>4. pr.ref = None BY Names, Parts DEF PruneVerify, DryEnds, Pruning, ShelfLeases
<1>5. /\ pr' \in PruneRuns /\ pr'.ref = None
      /\ pr'.pc \notin {"off", "done"} => pr'.kind # None /\ pr'.result # "killed"
 <2>1. Seen("candidate") \in SUBSET Refs BY DEF Seen
 <2>2. pr.pc = "look" /\ pr.kind # None BY Parts DEF PruneVerify, Pruning, ShelfLeases
 <2>3. CASE pr' = [pr EXCEPT !.pc = "drafts", !.todo = Seen("candidate"), !.ref = None]
   BY Names, Parts, <1>4, <2>1, <2>2, <2>3 DEF RunsTyped, PruneRuns, PruneSteps, ShelfLeases
 <2>4. CASE pr' = [[pr EXCEPT !.pc = "done", !.todo = {}, !.ref = None] EXCEPT !.result = "failed"]
   BY Names, Parts, <1>4, <2>4 DEF RunsTyped, PruneRuns, PruneSteps, PruneEnds
 <2> QED BY <2>3, <2>4 DEF PruneVerify, PruneTo, PruneFailed
<1> QED BY <1>1, <1>2, <1>3, <1>4, <1>5, AsideKeeps

\* A dry run turns to the leftovers.
LEMMA DryOrphansKept ==
  ASSUME DraftsInv, DryOrphans
  PROVE  DraftsInv'
<1>1. /\ shelf' = shelf /\ disk' = disk /\ holder' = holder /\ rm' = rm
      /\ stage' = stage /\ fp' = fp /\ ad' = ad /\ ed' = ed
  BY DEF DryOrphans, DryEnds, Pruning, Beside, Aside, SameShelf, PruneTo, PruneFailed, Listing
<1>2. noted' \subseteq {"prune", "list"}
  BY Parts DEF DryOrphans, DryEnds, Pruning, Beside, Aside, SameShelf, PruneTo, PruneFailed, Listing, ShelfTyped
<1>3. left' \in Nat BY Parts, LeftTyped DEF DryOrphans, DryEnds, Listing
<1>4. pr.ref = None BY Names, Parts DEF DryOrphans, DryEnds, Pruning, ShelfLeases
<1>5. /\ pr' \in PruneRuns /\ pr'.ref = None
      /\ pr'.pc \notin {"off", "done"} => pr'.kind # None /\ pr'.result # "killed"
  BY Names, Parts, <1>4 DEF DryOrphans, DryEnds, Pruning, Beside, Aside, SameShelf, PruneTo, PruneFailed, RunsTyped, PruneRuns, PruneSteps, PruneEnds, ShelfLeases
<1> QED BY <1>1, <1>2, <1>3, <1>4, <1>5, AsideKeeps

\* A leftover of a draft that is not in use is listed.
LEMMA DryOrphanKept ==
  ASSUME DraftsInv, NEW r \in Refs, DryOrphan(r)
  PROVE  DraftsInv'
<1>1. /\ shelf' = shelf /\ disk' = disk /\ holder' = holder /\ rm' = rm
      /\ stage' = stage /\ fp' = fp /\ ad' = ad /\ ed' = ed
  BY DEF DryOrphan, DryEnds, Pruning, Beside, Aside, SameShelf, PruneTo, PruneFailed, Listing
<1>2. noted' \subseteq {"prune", "list"}
  BY Parts DEF DryOrphan, DryEnds, Pruning, Beside, Aside, SameShelf, PruneTo, PruneFailed, Listing, ShelfTyped
<1>3. left' \in Nat BY Parts, LeftTyped DEF DryOrphan, DryEnds, Listing
<1>4. pr.ref = None BY Names, Parts DEF DryOrphan, DryEnds, Pruning, ShelfLeases
<1>5. /\ pr' \in PruneRuns /\ pr'.ref = None
      /\ pr'.pc \notin {"off", "done"} => pr'.kind # None /\ pr'.result # "killed"
  BY Names, Parts, <1>4 DEF DryOrphan, DryEnds, Pruning, Beside, Aside, SameShelf, PruneTo, PruneFailed, RunsTyped, PruneRuns, PruneSteps, PruneEnds, ShelfLeases
<1> QED BY <1>1, <1>2, <1>3, <1>4, <1>5, AsideKeeps

\* A dry run ends.
LEMMA DryDoneKept ==
  ASSUME DraftsInv, DryDone
  PROVE  DraftsInv'
<1>1. /\ shelf' = shelf /\ disk' = disk /\ holder' = holder /\ rm' = rm
      /\ stage' = stage /\ fp' = fp /\ ad' = ad /\ ed' = ed
  BY DEF DryDone, DryEnds, Pruning, Beside, Aside, SameShelf, PruneTo, PruneFailed, Listing
<1>2. noted' \subseteq {"prune", "list"}
  BY Parts DEF DryDone, DryEnds, Pruning, Beside, Aside, SameShelf, PruneTo, PruneFailed, Listing, ShelfTyped
<1>3. left' \in Nat BY Parts, LeftTyped DEF DryDone, DryEnds, Listing
<1>4. pr.ref = None BY Names, Parts DEF DryDone, DryEnds, Pruning, ShelfLeases
<1>5. /\ pr' \in PruneRuns /\ pr'.ref = None
      /\ pr'.pc \notin {"off", "done"} => pr'.kind # None /\ pr'.result # "killed"
  BY ZenonT(60), Names, Parts, <1>4 DEF DryDone, DryEnds, Pruning, Beside, Aside, SameShelf, PruneTo, PruneFailed, RunsTyped, PruneRuns, PruneSteps, PruneEnds, ShelfLeases
<1> QED BY <1>1, <1>2, <1>3, <1>4, <1>5, AsideKeeps

\* A prune ends.
LEMMA PruneDoneKept ==
  ASSUME DraftsInv, PruneDone
  PROVE  DraftsInv'
<1>1. /\ shelf' = shelf /\ disk' = disk /\ holder' = holder /\ rm' = rm
      /\ stage' = stage /\ fp' = fp /\ ad' = ad /\ ed' = ed
  BY DEF PruneDone, DryEnds, Pruning, Beside, Aside, SameShelf, PruneTo, PruneFailed, Listing
<1>2. noted' \subseteq {"prune", "list"}
  BY Parts DEF PruneDone, DryEnds, Pruning, Beside, Aside, SameShelf, PruneTo, PruneFailed, Listing, ShelfTyped
<1>3. left' \in Nat BY Parts, LeftTyped DEF PruneDone, DryEnds, Listing
<1>4. pr.ref = None BY Names, Parts DEF PruneDone, DryEnds, Pruning, ShelfLeases
<1>5. /\ pr' \in PruneRuns /\ pr'.ref = None
      /\ pr'.pc \notin {"off", "done"} => pr'.kind # None /\ pr'.result # "killed"
  BY Names, Parts, <1>4 DEF PruneDone, DryEnds, Pruning, Beside, Aside, SameShelf, PruneTo, PruneFailed, RunsTyped, PruneRuns, PruneSteps, PruneEnds, ShelfLeases
<1> QED BY <1>1, <1>2, <1>3, <1>4, <1>5, AsideKeeps

\* The lease of an old draft, or it is passed over.
LEMMA PruneLeaseKept ==
  ASSUME DraftsInv, NEW r \in Refs, PruneLease(r)
  PROVE  DraftsInv'
<1>1. /\ ad' = ad /\ ed' = ed /\ stage' = stage /\ fp' = fp /\ disk' = disk /\ rm' = rm
      /\ pr.pc = "drafts" /\ pr.ref = None BY DEF PruneLease, Pruning
<1>2. \/ Leases("prune", r) /\ pr' = [pr EXCEPT !.ref = r]
      \/ /\ shelf' = shelf /\ noted' = noted /\ holder' = holder
         /\ pr' = [[pr EXCEPT !.todo = @ \ {r}] EXCEPT !.result = "failed"]
  BY DEF PruneLease, InUse, SameShelf, PruneFailed
<1>3. /\ pr' \in PruneRuns /\ pr'.pc = "drafts" /\ pr'.kind = pr.kind /\ pr'.result \in {pr.result, "failed"}
      /\ \/ pr'.ref = r /\ holder[r] = None /\ holder'[r] = "prune"
         \/ pr'.ref = None /\ holder' = holder
 <2>1. CASE Leases("prune", r) /\ pr' = [pr EXCEPT !.ref = r]
   BY Parts, <1>1, <2>1, LeasesDoes DEF RunsTyped, PruneRuns, Holders
 <2>2. CASE holder' = holder /\ pr' = [[pr EXCEPT !.todo = @ \ {r}] EXCEPT !.result = "failed"]
   BY Parts, <1>1, <2>2 DEF RunsTyped, PruneRuns, PruneEnds
 <2> QED BY <1>2, <2>1, <2>2
<1>4. holder' \in [Refs -> Holders] /\ \A q \in Refs \ {r} : holder'[q] = holder[q]
  BY Parts, <1>2, LeasesDoes DEF RunsTyped, Holders
<1>5. holder[r] = None => rm[r].at = "idle" BY Names, Parts DEF ShelfLeases
<1>6. left' \in Nat BY Parts, LeftTyped DEF PruneLease
<1>7. KeepsDrafts
  BY Parts, <1>1, <1>2, LeasesDoes DEF KeepsDrafts, SameDraft, OthersStand, NothingEnters, ShelfTyped, Holders
<1>8. KeepsDocs BY <1>7, DraftsAndDocs
<1> USE Parts, <1>1, <1>2, <1>3, <1>4, <1>5, <1>6, <1>7, <1>8
<1>9. ShelfTyped' BY DEF ShelfTyped, KeepsDocs
<1>10. RunsTyped' BY DEF RunsTyped
<1>11. ShelfLeases' BY Names DEF ShelfLeases, AdoptLeased, EditLeased, RunsTyped, EditRuns
<1>12. DocsStand' /\ NoDirNoFiles' BY Parts, <1>7, StandsStay
<1>13. Copied' BY CopiedStays
<1>14. DocsGo' BY Parts, <1>1, <1>2, <1>3, <1>4, <1>5, <1>6, <1>8, GoneStays
<1>15. MayGo'
 <2>1. rm[r].at = "doc" => holder'[r] = holder[r] BY Names, <1>3, <1>5
 <2>2. \A q \in Refs : PruneEligible(q)' <=> PruneEligible(q)
   BY <1>7 DEF PruneEligible, HasDoc, Claimed, KeepsDrafts, SameDraft
 <2>3. ~shelf'[New].doc.old /\ ~disk'[New].doc.old
   BY Names, Parts, <1>7 DEF MayGo, KeepsDrafts, SameDraft
 <2>4. \A q \in Refs : rm'[q].at = "doc" => rm[q].at = "doc" /\ holder'[q] = holder[q] BY <1>1, <1>4, <2>1
 <2> QED BY Names, Parts, <1>1, <2>2, <2>3, <2>4 DEF MayGo
<1>16. Acknowledged' BY Parts, <1>1, <1>2, <1>3, <1>4, <1>5, <1>6, <1>8, AcknowledgedStays
<1> QED BY <1>9, <1>10, <1>11, <1>12, <1>13, <1>14, <1>15, <1>16 DEF DraftsInv

\* Under the lease the draft is read again.
LEMMA PruneReadKept ==
  ASSUME DraftsInv, PruneRead
  PROVE  DraftsInv'
<1>1. /\ ad' = ad /\ ed' = ed /\ stage' = stage /\ fp' = fp /\ disk' = disk /\ shelf' = shelf /\ noted' = noted
      /\ pr.pc = "drafts" /\ pr.ref # None /\ rm[pr.ref].at = "idle" /\ holder[pr.ref] = "prune"
  BY Parts DEF PruneRead, Pruning, SameShelf, ShelfLeases
<1>2. \/ PruneEligible(pr.ref) /\ Removes(pr.ref, FALSE) /\ pr' = pr /\ holder' = holder
      \/ rm' = [rm EXCEPT ![pr.ref].at = "lock"] /\ pr' = pr /\ holder' = holder
      \/ Releases(pr.ref) /\ pr' = [[pr EXCEPT !.ref = None, !.todo = @ \ {pr.ref}] EXCEPT !.result = "failed"]
  BY DEF PruneRead, PruneFailed
<1>3. /\ pr' \in PruneRuns /\ pr'.pc = "drafts" /\ pr'.kind = pr.kind /\ pr'.result \in {pr.result, "failed"}
      /\ holder' \in [Refs -> Holders] /\ rm' \in [Refs -> RemovalRuns]
      /\ \A q \in Refs \ {pr.ref} : holder'[q] = holder[q] /\ rm'[q] = rm[q]
      /\ \/ /\ holder'[pr.ref] = "prune" /\ pr'.ref = pr.ref
            /\ rm'[pr.ref].at = "lock" \/ (rm'[pr.ref].at = "doc" /\ PruneEligible(pr.ref))
         \/ holder'[pr.ref] = None /\ pr'.ref = None /\ rm'[pr.ref].at = "idle"
 <2>1. CASE PruneEligible(pr.ref) /\ Removes(pr.ref, FALSE) /\ pr' = pr /\ holder' = holder
   BY Parts, <1>1, <2>1, RemovesDoes DEF RunsTyped
 <2>2. CASE rm' = [rm EXCEPT ![pr.ref].at = "lock"] /\ pr' = pr /\ holder' = holder
  <3>1. RemovalAt(pr.ref, "lock") /\ pr.ref \in Refs BY Parts, <1>1, <2>2 DEF RemovalAt
  <3> QED BY Parts, <1>1, <2>2, <3>1, RemovalAtDoes DEF RunsTyped, RemovalSteps
 <2>3. CASE Releases(pr.ref) /\ pr' = [[pr EXCEPT !.ref = None, !.todo = @ \ {pr.ref}] EXCEPT !.result = "failed"]
  <3>1. /\ pr' \in PruneRuns /\ pr'.pc = "drafts" /\ pr'.kind = pr.kind /\ pr'.result = "failed" /\ pr'.ref = None
    BY Parts, <1>1, <2>3 DEF RunsTyped, PruneRuns, PruneEnds
  <3> QED BY Parts, <1>1, <2>3, <3>1, ReleasesDoes, IdleIs
 <2> QED BY <1>2, <2>1, <2>2, <2>3
<1>4. left' \in Nat BY Parts, LeftTyped DEF PruneRead
<1>5. KeepsDrafts BY Parts, <1>1, SameKeeps DEF ShelfTyped
<1>6. KeepsDocs BY <1>5, DraftsAndDocs
<1> USE Parts, <1>1, <1>2, <1>3, <1>4, <1>5, <1>6
<1>7. ShelfTyped' BY DEF ShelfTyped, KeepsDocs
<1>8. RunsTyped' BY DEF RunsTyped
<1>9. ShelfLeases' BY Names DEF ShelfLeases, AdoptLeased, EditLeased, RunsTyped, EditRuns
<1>10. DocsStand' /\ NoDirNoFiles' BY Parts, <1>5, StandsStay
<1>11. Copied' BY CopiedStays
<1>12. DocsGo' BY Parts, <1>1, <1>2, <1>3, <1>4, <1>6, GoneStays
<1>13. MayGo'
 <2>1. ed.pc = "remove" => ed.ref # pr.ref BY Names, Parts, <1>1 DEF ShelfLeases, EditLeased
 <2>2. \A q \in Refs : PruneEligible(q)' <=> PruneEligible(q) BY <1>1 DEF PruneEligible, HasDoc, Claimed
 <2>3. \A q \in Refs : rm'[q].at = "doc" =>
         (rm[q].at = "doc" /\ holder'[q] = holder[q]) \/ (holder'[q] = "prune" /\ PruneEligible(q))
   BY <1>3
 <2>4. ed.pc = "remove" => rm'[ed.ref] = rm[ed.ref] BY Parts, <1>3, <2>1
 <2> QED BY Names, Parts, <1>1, <2>2, <2>3, <2>4 DEF MayGo
<1>14. Acknowledged' BY Parts, <1>1, <1>2, <1>3, <1>4, <1>6, AcknowledgedStays
<1> QED BY <1>7, <1>8, <1>9, <1>10, <1>11, <1>12, <1>13, <1>14 DEF DraftsInv

\* The lease is given back, or all drafts are done.
LEMMA PruneNextKept ==
  ASSUME DraftsInv, PruneNext
  PROVE  DraftsInv'
<1>1. /\ ad' = ad /\ ed' = ed /\ stage' = stage /\ fp' = fp /\ disk' = disk /\ shelf' = shelf /\ noted' = noted
      /\ pr.pc = "drafts" BY DEF PruneNext, SameShelf
<1>2. \/ /\ pr.ref # None /\ rm[pr.ref].at = "done" /\ Releases(pr.ref)
         /\ pr' = [pr EXCEPT !.ref = None, !.todo = @ \ {pr.ref}, !.result = IF rm[pr.ref].err THEN "failed" ELSE @]
      \/ /\ pr.ref = None /\ holder' = holder /\ rm' = rm
         /\ pr' = [pr EXCEPT !.pc = "sweep", !.todo = Refs, !.ref = None]
  BY DEF PruneNext, Removed, PruneTo
<1>3. /\ pr' \in PruneRuns /\ pr'.ref = None /\ pr'.pc \notin {"off", "done"}
      /\ pr'.kind = pr.kind /\ pr'.result \in {pr.result, "failed"}
  BY ZenonT(60), Parts, <1>1, <1>2 DEF RunsTyped, PruneRuns, PruneEnds, PruneSteps, Seen
<1>4. /\ holder' \in [Refs -> Holders] /\ rm' \in [Refs -> RemovalRuns]
      /\ \A q \in Refs : \/ holder'[q] = holder[q] /\ rm'[q] = rm[q] /\ (pr.ref # None => q # pr.ref)
                         \/ holder[q] = "prune" /\ holder'[q] = None /\ rm'[q].at = "idle"
  BY Parts, <1>2, ReleasesDoes, IdleIs DEF RunsTyped, ShelfLeases
<1>5. left' \in Nat BY Parts, LeftTyped DEF PruneNext
<1>6. KeepsDrafts BY Parts, <1>1, SameKeeps DEF ShelfTyped
<1>7. KeepsDocs BY <1>6, DraftsAndDocs
<1> USE Parts, <1>1, <1>2, <1>3, <1>4, <1>5, <1>6, <1>7
<1>8. ShelfTyped' BY DEF ShelfTyped, KeepsDocs
<1>9. RunsTyped' BY DEF RunsTyped
<1>10. ShelfLeases' BY Names DEF ShelfLeases, AdoptLeased, EditLeased, RunsTyped, EditRuns
<1>11. DocsStand' /\ NoDirNoFiles' BY Parts, <1>6, StandsStay
<1>12. Copied' BY CopiedStays
<1>13. DocsGo' BY Parts, <1>1, <1>2, <1>3, <1>4, <1>5, <1>7, GoneStays
<1>14. MayGo'
 <2>1. ed.pc = "remove" => rm'[ed.ref] = rm[ed.ref] BY Names, Parts, <1>4 DEF ShelfLeases, EditLeased
 <2>2. \A q \in Refs : rm'[q].at = "doc" => rm[q].at = "doc" /\ holder'[q] = holder[q] BY <1>4
 <2> QED BY Parts, <1>1, <1>7, <2>1, <2>2, MayGoStays
<1>15. Acknowledged' BY Parts, <1>1, <1>2, <1>3, <1>4, <1>5, <1>7, AcknowledgedStays
<1> QED BY <1>8, <1>9, <1>10, <1>11, <1>12, <1>13, <1>14, <1>15 DEF DraftsInv

\* The lease of a leftover, or it is passed over.
LEMMA SweepLeaseKept ==
  ASSUME DraftsInv, NEW r \in Refs, SweepLease(r)
  PROVE  DraftsInv'
<1>1. /\ ad' = ad /\ ed' = ed /\ stage' = stage /\ fp' = fp /\ disk' = disk /\ rm' = rm
      /\ pr.pc = "sweep" /\ pr.ref = None BY DEF SweepLease, Pruning
<1>2. \/ Leases("prune", r) /\ pr' = [pr EXCEPT !.ref = r]
      \/ shelf' = shelf /\ noted' = noted /\ holder' = holder /\ pr' = [pr EXCEPT !.todo = @ \ {r}]
  BY DEF SweepLease, InUse, SameShelf
<1>3. /\ pr' \in PruneRuns /\ pr'.pc = "sweep" /\ pr'.kind = pr.kind /\ pr'.result = pr.result
      /\ \/ pr'.ref = r /\ holder[r] = None /\ holder'[r] = "prune"
         \/ pr'.ref = None /\ holder' = holder
  BY Parts, <1>1, <1>2, LeasesDoes DEF RunsTyped, PruneRuns, PruneEnds, Holders
<1>4. holder' \in [Refs -> Holders] /\ \A q \in Refs \ {r} : holder'[q] = holder[q]
  BY Parts, <1>2, LeasesDoes DEF RunsTyped, Holders
<1>5. holder[r] = None => rm[r].at = "idle" BY Names, Parts DEF ShelfLeases
<1>6. left' \in Nat BY Parts, LeftTyped DEF SweepLease
<1>7. KeepsDrafts
  BY Parts, <1>1, <1>2, LeasesDoes DEF KeepsDrafts, SameDraft, OthersStand, NothingEnters, ShelfTyped, Holders
<1>8. KeepsDocs BY <1>7, DraftsAndDocs
<1> USE Parts, <1>1, <1>2, <1>3, <1>4, <1>5, <1>6, <1>7, <1>8
<1>9. ShelfTyped' BY DEF ShelfTyped, KeepsDocs
<1>10. RunsTyped' BY DEF RunsTyped
<1>11. ShelfLeases' BY Names DEF ShelfLeases, AdoptLeased, EditLeased, RunsTyped, EditRuns
<1>12. DocsStand' /\ NoDirNoFiles' BY Parts, <1>7, StandsStay
<1>13. Copied' BY CopiedStays
<1>14. DocsGo' BY Parts, <1>1, <1>2, <1>3, <1>4, <1>5, <1>6, <1>8, GoneStays
<1>15. MayGo'
 <2>1. rm[r].at = "doc" => holder'[r] = holder[r] BY Names, <1>3, <1>5
 <2>2. \A q \in Refs : PruneEligible(q)' <=> PruneEligible(q)
   BY <1>7 DEF PruneEligible, HasDoc, Claimed, KeepsDrafts, SameDraft
 <2>3. ~shelf'[New].doc.old /\ ~disk'[New].doc.old
   BY Names, Parts, <1>7 DEF MayGo, KeepsDrafts, SameDraft
 <2>4. \A q \in Refs : rm'[q].at = "doc" => rm[q].at = "doc" /\ holder'[q] = holder[q] BY <1>1, <1>4, <2>1
 <2> QED BY Names, Parts, <1>1, <2>2, <2>3, <2>4 DEF MayGo
<1>16. Acknowledged' BY Parts, <1>1, <1>2, <1>3, <1>4, <1>5, <1>6, <1>8, AcknowledgedStays
<1> QED BY <1>9, <1>10, <1>11, <1>12, <1>13, <1>14, <1>15, <1>16 DEF DraftsInv

\* An old temporary file goes, and everything else of a draft without document.
LEMMA SweepKept ==
  ASSUME DraftsInv, Sweep
  PROVE  DraftsInv'
<1>1. /\ ad' = ad /\ ed' = ed /\ stage' = stage /\ fp' = fp /\ disk' = disk
      /\ pr.pc = "sweep" /\ pr.ref # None /\ rm[pr.ref].at = "idle" /\ holder[pr.ref] = "prune"
  BY Parts DEF Sweep, Pruning, ShelfLeases
<1>2. \/ Enters(pr.ref, [shelf[pr.ref] EXCEPT !.temp = None])
      \/ shelf' = shelf /\ noted' = noted BY DEF Sweep, SweepTemp, SameShelf
<1>3. \/ /\ Releases(pr.ref)
         /\ pr' = [[pr EXCEPT !.ref = None, !.todo = @ \ {pr.ref}] EXCEPT !.result = "failed"]
      \/ Releases(pr.ref) /\ pr' = [pr EXCEPT !.ref = None, !.todo = @ \ {pr.ref}]
      \/ ~HasDoc(pr.ref) /\ Removes(pr.ref, TRUE) /\ pr' = pr /\ holder' = holder
  BY DEF Sweep, PruneFailed
<1>4. /\ pr' \in PruneRuns /\ pr'.pc = "sweep" /\ pr'.kind = pr.kind /\ pr'.result \in {pr.result, "failed"}
      /\ holder' \in [Refs -> Holders] /\ rm' \in [Refs -> RemovalRuns]
      /\ \A q \in Refs \ {pr.ref} : holder'[q] = holder[q] /\ rm'[q] = rm[q]
      /\ \/ /\ holder'[pr.ref] = "prune" /\ pr'.ref = pr.ref /\ ~HasDoc(pr.ref)
            /\ rm'[pr.ref].at = "claims" /\ rm'[pr.ref].sweep
         \/ holder'[pr.ref] = None /\ pr'.ref = None /\ rm'[pr.ref].at = "idle"
 <2>1. CASE ~HasDoc(pr.ref) /\ Removes(pr.ref, TRUE) /\ pr' = pr /\ holder' = holder
   BY Parts, <1>1, <2>1, RemovesDoes DEF RunsTyped
 <2>2. CASE Releases(pr.ref) /\ pr' = [pr EXCEPT !.ref = None, !.todo = @ \ {pr.ref}]
  <3>1. /\ pr' \in PruneRuns /\ pr'.pc = "sweep" /\ pr'.kind = pr.kind /\ pr'.result = pr.result /\ pr'.ref = None
    BY Parts, <1>1, <2>2 DEF RunsTyped, PruneRuns
  <3> QED BY Parts, <1>1, <2>2, <3>1, ReleasesDoes, IdleIs
 <2>3. CASE Releases(pr.ref) /\ pr' = [[pr EXCEPT !.ref = None, !.todo = @ \ {pr.ref}] EXCEPT !.result = "failed"]
  <3>1. /\ pr' \in PruneRuns /\ pr'.pc = "sweep" /\ pr'.kind = pr.kind /\ pr'.result = "failed" /\ pr'.ref = None
    BY Parts, <1>1, <2>3 DEF RunsTyped, PruneRuns, PruneEnds
  <3> QED BY Parts, <1>1, <2>3, <3>1, ReleasesDoes, IdleIs
 <2> QED BY <1>3, <2>1, <2>2, <2>3
<1>5. left' \in Nat BY Parts, LeftTyped DEF Sweep
<1>6. KeepsDrafts
 <2>1. CASE Enters(pr.ref, [shelf[pr.ref] EXCEPT !.temp = None])
   BY Parts, <1>1, <2>1, TempDoes DEF KeepsDrafts, SameDraft, OthersStand, ShelfTyped
 <2>2. CASE shelf' = shelf /\ noted' = noted BY Parts, <1>1, <2>2, SameKeeps DEF ShelfTyped
 <2> QED BY <1>2, <2>1, <2>2
<1>7. KeepsDocs BY <1>6, DraftsAndDocs
<1> USE Parts, <1>1, <1>2, <1>3, <1>4, <1>5, <1>6, <1>7
<1>8. ShelfTyped' BY DEF ShelfTyped, KeepsDocs
<1>9. RunsTyped' BY DEF RunsTyped
<1>10. ShelfLeases' BY Names DEF ShelfLeases, AdoptLeased, EditLeased, RunsTyped, EditRuns
<1>11. DocsStand' /\ NoDirNoFiles' BY Parts, <1>6, StandsStay
<1>12. Copied' BY CopiedStays
<1>13. DocsGo'
 <2>1. \A q \in Refs : (HasDoc(q)' <=> HasDoc(q)) /\ disk'[q].doc = disk[q].doc
   BY <1>1, <1>6 DEF HasDoc, KeepsDrafts, SameDraft
 <2> QED BY Parts, <1>1, <1>4, <2>1 DEF DocsGo
<1>14. MayGo'
 <2>1. ed.pc = "remove" => rm'[ed.ref] = rm[ed.ref] BY Names, Parts, <1>1, <1>4 DEF ShelfLeases, EditLeased
 <2>3. \A q \in Refs : rm'[q].at = "doc" => rm[q].at = "doc" /\ holder'[q] = holder[q]
   BY Parts, <1>1, <1>4
 <2> QED BY Parts, <1>1, <1>7, <2>1, <2>3, MayGoStays
<1>15. Acknowledged' BY Parts, <1>1, <1>2, <1>3, <1>4, <1>5, <1>7, AcknowledgedStays
<1> QED BY <1>8, <1>9, <1>10, <1>11, <1>12, <1>13, <1>14, <1>15 DEF DraftsInv

\* The lease is given back, or all drafts are done.
LEMMA SweepNextKept ==
  ASSUME DraftsInv, SweepNext
  PROVE  DraftsInv'
<1>1. /\ ad' = ad /\ ed' = ed /\ stage' = stage /\ fp' = fp /\ disk' = disk /\ shelf' = shelf /\ noted' = noted
      /\ pr.pc = "sweep" BY DEF SweepNext, SameShelf
<1>2. \/ /\ pr.ref # None /\ rm[pr.ref].at = "done" /\ Releases(pr.ref)
         /\ pr' = [pr EXCEPT !.ref = None, !.todo = @ \ {pr.ref}, !.result = IF rm[pr.ref].err THEN "failed" ELSE @]
      \/ /\ pr.ref = None /\ holder' = holder /\ rm' = rm
         /\ pr' = [pr EXCEPT !.pc = "locks", !.todo = Seen("lock"), !.ref = None]
  BY DEF SweepNext, Removed, PruneTo
<1>3. /\ pr' \in PruneRuns /\ pr'.ref = None /\ pr'.pc \notin {"off", "done"}
      /\ pr'.kind = pr.kind /\ pr'.result \in {pr.result, "failed"}
  BY ZenonT(60), Parts, <1>1, <1>2 DEF RunsTyped, PruneRuns, PruneEnds, PruneSteps, Seen
<1>4. /\ holder' \in [Refs -> Holders] /\ rm' \in [Refs -> RemovalRuns]
      /\ \A q \in Refs : \/ holder'[q] = holder[q] /\ rm'[q] = rm[q] /\ (pr.ref # None => q # pr.ref)
                         \/ holder[q] = "prune" /\ holder'[q] = None /\ rm'[q].at = "idle"
  BY Parts, <1>2, ReleasesDoes, IdleIs DEF RunsTyped, ShelfLeases
<1>5. left' \in Nat BY Parts, LeftTyped DEF SweepNext
<1>6. KeepsDrafts BY Parts, <1>1, SameKeeps DEF ShelfTyped
<1>7. KeepsDocs BY <1>6, DraftsAndDocs
<1> USE Parts, <1>1, <1>2, <1>3, <1>4, <1>5, <1>6, <1>7
<1>8. ShelfTyped' BY DEF ShelfTyped, KeepsDocs
<1>9. RunsTyped' BY DEF RunsTyped
<1>10. ShelfLeases' BY Names DEF ShelfLeases, AdoptLeased, EditLeased, RunsTyped, EditRuns
<1>11. DocsStand' /\ NoDirNoFiles' BY Parts, <1>6, StandsStay
<1>12. Copied' BY CopiedStays
<1>13. DocsGo' BY Parts, <1>1, <1>2, <1>3, <1>4, <1>5, <1>7, GoneStays
<1>14. MayGo'
 <2>1. ed.pc = "remove" => rm'[ed.ref] = rm[ed.ref] BY Names, Parts, <1>4 DEF ShelfLeases, EditLeased
 <2>2. \A q \in Refs : rm'[q].at = "doc" => rm[q].at = "doc" /\ holder'[q] = holder[q] BY <1>4
 <2> QED BY Parts, <1>1, <1>7, <2>1, <2>2, MayGoStays
<1>15. Acknowledged' BY Parts, <1>1, <1>2, <1>3, <1>4, <1>5, <1>7, AcknowledgedStays
<1> QED BY <1>8, <1>9, <1>10, <1>11, <1>12, <1>13, <1>14, <1>15 DEF DraftsInv

\* The lock of no document goes, unless it is held.
LEMMA SweepLockKept ==
  ASSUME DraftsInv, NEW r \in Refs, SweepLock(r)
  PROVE  DraftsInv'
<1>1. /\ ad' = ad /\ ed' = ed /\ stage' = stage /\ fp' = fp /\ disk' = disk /\ rm' = rm /\ holder' = holder
      /\ pr.pc = "locks" /\ pr' = [pr EXCEPT !.todo = @ \ {r}] BY DEF SweepLock, Pruning
<1>2. /\ pr' \in PruneRuns /\ pr'.pc = pr.pc /\ pr'.kind = pr.kind /\ pr'.ref = pr.ref /\ pr'.result = pr.result
  BY Parts, <1>1 DEF RunsTyped, PruneRuns
<1>3. /\ shelf' \in [Refs -> ShelfEntries] /\ noted' \subseteq {"prune", "list"}
      /\ \A q \in Refs \ {r} : shelf'[q] = shelf[q]
      /\ SameDraft(shelf'[r], shelf[r])
 <2>1. shelf[r] \in ShelfEntries BY Parts DEF ShelfTyped
 <2>2. CASE Enters(r, [shelf[r] EXCEPT !.lock = FALSE])
  <3>2. /\ [shelf[r] EXCEPT !.lock = FALSE] \in ShelfEntries
        /\ SameDraft([shelf[r] EXCEPT !.lock = FALSE], shelf[r])
    BY <2>1, LockChanged DEF SameDraft
  <3>3. shelf' \in [Refs -> ShelfEntries] /\ noted' = {} /\ OthersStand(r)
        /\ shelf'[r] = [shelf[r] EXCEPT !.lock = FALSE] BY Parts, <2>2, <3>2, EntersDoes
  <3> QED BY <3>2, <3>3 DEF OthersStand
 <2>3. CASE shelf' = shelf /\ noted' = noted BY Parts, <2>3 DEF ShelfTyped, SameDraft
 <2> QED BY <2>2, <2>3 DEF SweepLock, SameShelf
<1>4. left' \in Nat BY Parts, LeftTyped DEF SweepLock
<1>5. KeepsDrafts BY Parts, <1>1, <1>3 DEF KeepsDrafts, SameDraft, ShelfTyped
<1>6. KeepsDocs BY <1>5, DraftsAndDocs
<1> USE Parts, <1>1, <1>2, <1>3, <1>4, <1>5, <1>6
<1>7. ShelfTyped' BY DEF ShelfTyped, KeepsDocs
<1>8. RunsTyped' BY DEF RunsTyped
<1>9. ShelfLeases' BY Names DEF ShelfLeases, AdoptLeased, EditLeased, RunsTyped, EditRuns
<1>10. DocsStand' /\ NoDirNoFiles' BY Parts, <1>5, StandsStay
<1>11. Copied' BY CopiedStays
<1>12. DocsGo' BY Parts, <1>1, <1>2, <1>3, <1>4, <1>6, GoneStays
<1>13. MayGo' BY Parts, <1>1, <1>2, <1>3, <1>4, <1>6, MayGoStays
<1>14. Acknowledged' BY Parts, <1>1, <1>2, <1>3, <1>4, <1>6, AcknowledgedStays
<1> QED BY <1>7, <1>8, <1>9, <1>10, <1>11, <1>12, <1>13, <1>14 DEF DraftsInv

\* A listing reads only.
LEMMA ListKept ==
  ASSUME DraftsInv, ListStep
  PROVE  DraftsInv'
<1>1. /\ shelf' = shelf /\ disk' = disk /\ holder' = holder /\ rm' = rm
      /\ stage' = stage /\ fp' = fp /\ ad' = ad /\ ed' = ed /\ pr' = pr /\ Sound
  BY DEF ListStep, ListStart, ListContinue, ListSelect, ListRead, ListVerify, Listing, Aside
<1>2. noted' = noted \/ noted' = noted \cup {"list"}
  BY DEF ListStep, ListStart, ListContinue, ListSelect, ListRead, ListVerify
<1>3. noted' \subseteq {"prune", "list"} BY Parts, <1>2 DEF ShelfTyped
<1>4. left' \in Nat BY Parts, <1>1, LeftTyped
<1>5. pr' \in PruneRuns /\ (pr'.pc \notin {"off", "done"} => pr'.kind # None /\ pr'.result # "killed")
  BY Parts, <1>1 DEF RunsTyped, ShelfLeases
<1> QED BY <1>1, <1>3, <1>4, <1>5, AsideKeeps

----------------------------------------------------------------------------
(* Time and failures. *)

\* Ten minutes pass: temporary files become old.
LEMMA AgeKept ==
  ASSUME DraftsInv, Age
  PROVE  DraftsInv'
<1>1. /\ ad' = ad /\ ed' = ed /\ pr' = pr /\ stage' = stage /\ fp' = fp /\ noted' = noted /\ rm' = rm /\ holder' = holder
  BY DEF Age
<1>2. /\ shelf' = [r \in Refs |-> [shelf[r] EXCEPT !.temp = IF shelf[r].temp = None THEN None ELSE "old"]]
      /\ disk' = [r \in Refs |-> [disk[r] EXCEPT !.temp = IF disk[r].temp = None THEN None ELSE "old"]]
  BY DEF Age
<1>3. \A x \in ShelfEntries :
        LET y == [x EXCEPT !.temp = IF x.temp = None THEN None ELSE "old"] IN y \in ShelfEntries /\ SameDraft(y, x)
 <2> SUFFICES ASSUME NEW x \in ShelfEntries, NEW t \in {None, "old", "young"}
              PROVE [x EXCEPT !.temp = t] \in ShelfEntries /\ SameDraft([x EXCEPT !.temp = t], x)
   OBVIOUS
 <2> QED BY TempChanged DEF SameDraft
<1>4. left' \in Nat BY Parts, LeftTyped DEF Age
<1>5. KeepsDrafts
 <2>1. /\ \A r \in Refs : shelf'[r] \in ShelfEntries /\ SameDraft(shelf'[r], shelf[r])
       /\ \A r \in Refs : disk'[r] \in ShelfEntries /\ SameDraft(disk'[r], disk[r])
   BY Parts, <1>2, <1>3 DEF ShelfTyped
 <2>2. shelf' \in [Refs -> ShelfEntries] /\ disk' \in [Refs -> ShelfEntries]
  <3>1. shelf' = [r \in Refs |-> shelf'[r]] /\ disk' = [r \in Refs |-> disk'[r]] BY <1>2
  <3> QED BY <2>1, <3>1
 <2> QED BY Parts, <1>1, <2>1, <2>2 DEF KeepsDrafts, ShelfTyped
<1>6. KeepsDocs BY <1>5, DraftsAndDocs
<1> USE Parts, <1>1, <1>2, <1>3, <1>4, <1>5, <1>6
<1>7. ShelfTyped' BY DEF ShelfTyped, KeepsDocs
<1>8. RunsTyped' BY DEF RunsTyped
<1>9. ShelfLeases' BY Names DEF ShelfLeases, AdoptLeased, EditLeased, RunsTyped, EditRuns
<1>10. DocsStand' /\ NoDirNoFiles' BY Parts, <1>5, StandsStay
<1>11. Copied' BY CopiedStays
<1>12. DocsGo' BY Parts, <1>1, <1>2, <1>3, <1>4, <1>6, GoneStays
<1>13. MayGo' BY Parts, <1>1, <1>2, <1>3, <1>4, <1>6, MayGoStays
<1>14. Acknowledged' BY Parts, <1>1, <1>2, <1>3, <1>4, <1>6, AcknowledgedStays
<1> QED BY <1>7, <1>8, <1>9, <1>10, <1>11, <1>12, <1>13, <1>14 DEF DraftsInv

\* What a process that was killed gave back.
LEMMA FreedOne ==
  ASSUME RunsTyped, NEW p, Freed({p})
  PROVE  /\ holder' \in [Refs -> Holders] /\ rm' \in [Refs -> RemovalRuns]
         /\ \A r \in Refs : (holder[r] = p /\ holder'[r] = None /\ rm'[r].at = "idle")
                            \/ (holder[r] # p /\ holder'[r] = holder[r] /\ rm'[r] = rm[r])
<1>1. \A r \in Refs : holder[r] \in {p} <=> holder[r] = p OBVIOUS
<1> QED BY <1>1, FreedDoes, IdleIs

\* A command is killed.
LEMMA KilledKept ==
  ASSUME DraftsInv, Killed
  PROVE  DraftsInv'
<1>1. /\ shelf' = shelf /\ noted' = noted /\ disk' = disk /\ stage' = stage /\ fp' = fp
  BY DEF Killed, SameShelf
<1>2. \/ ad' = [ad EXCEPT !.pc = "done", !.result = "killed"] /\ ed' = ed /\ pr' = pr /\ Freed({"adopt"})
      \/ ed.pc # "done" /\ ed' = [ed EXCEPT !.pc = "done", !.result = "killed"] /\ ed.pc # "off" /\ ad' = ad /\ pr' = pr /\ Freed({"edit"})
      \/ pr' = [[pr EXCEPT !.pc = "done", !.todo = {}, !.ref = None] EXCEPT !.result = "killed"] /\ ad' = ad /\ ed' = ed /\ Freed({"prune"})
  BY DEF Killed, Stopped, PruneTo
<1>3. \E p \in {"adopt", "edit", "prune"} :
        /\ holder' \in [Refs -> Holders] /\ rm' \in [Refs -> RemovalRuns]
        /\ \A r \in Refs : (holder[r] = p /\ holder'[r] = None /\ rm'[r].at = "idle")
                           \/ (holder[r] # p /\ holder'[r] = holder[r] /\ rm'[r] = rm[r])
        /\ ad' \in AdoptRuns /\ ed' \in EditRuns /\ pr' \in PruneRuns
        /\ (p = "adopt" /\ ad'.pc = "done" /\ ad'.result = "killed") \/ (p # "adopt" /\ ad' = ad)
        /\ (p = "edit" /\ ed.pc # "off" /\ ed'.pc = "done" /\ ed'.kind = ed.kind /\ ed'.ref = ed.ref /\ ed'.result = "killed")
           \/ (p # "edit" /\ ed' = ed)
        /\ (p = "prune" /\ pr'.pc = "done" /\ pr'.ref = None) \/ (p # "prune" /\ pr' = pr)
 <2>1. CASE ad' = [ad EXCEPT !.pc = "done", !.result = "killed"] /\ ed' = ed /\ pr' = pr /\ Freed({"adopt"})
  <3>1. ad' \in AdoptRuns /\ ad'.pc = "done" /\ ad'.result = "killed"
    BY Parts, <2>1 DEF RunsTyped, AdoptRuns, AdoptSteps, ShelfEnds
  <3>2. ed' \in EditRuns /\ pr' \in PruneRuns BY Parts, <2>1 DEF RunsTyped
  <3> QED BY Parts, <2>1, <3>1, <3>2, FreedOne
 <2>2. CASE ed.pc # "off" /\ ed' = [ed EXCEPT !.pc = "done", !.result = "killed"] /\ ad' = ad /\ pr' = pr /\ Freed({"edit"})
  <3>1. /\ ed' \in EditRuns /\ ed'.pc = "done" /\ ed'.result = "killed" /\ ed'.kind = ed.kind /\ ed'.ref = ed.ref
    BY Parts, <2>2 DEF RunsTyped, EditRuns, EditSteps, ShelfEnds
  <3>2. ad' \in AdoptRuns /\ pr' \in PruneRuns BY Parts, <2>2 DEF RunsTyped
  <3> QED BY Parts, <2>2, <3>1, <3>2, FreedOne
 <2>3. CASE pr' = [[pr EXCEPT !.pc = "done", !.todo = {}, !.ref = None] EXCEPT !.result = "killed"] /\ ad' = ad /\ ed' = ed /\ Freed({"prune"})
  <3>1. pr' \in PruneRuns /\ pr'.pc = "done" /\ pr'.ref = None
    BY Parts, <2>3 DEF RunsTyped, PruneRuns, PruneSteps, PruneEnds
  <3>2. ad' \in AdoptRuns /\ ed' \in EditRuns BY Parts, <2>3 DEF RunsTyped
  <3> QED BY Parts, <2>3, <3>1, <3>2, FreedOne
 <2> QED BY <1>2, <2>1, <2>2, <2>3
<1>4. left' \in Nat BY Parts, LeftTyped DEF Killed
<1>5. KeepsDrafts BY Parts, <1>1, SameKeeps DEF ShelfTyped
<1>6. KeepsDocs BY <1>5, DraftsAndDocs
<1> USE Parts, <1>1, <1>2, <1>3, <1>4, <1>5, <1>6
<1>7. ShelfTyped' BY DEF ShelfTyped, KeepsDocs
<1>8. RunsTyped' BY DEF RunsTyped
<1>9. ShelfLeases' BY Names DEF ShelfLeases, AdoptLeased, EditLeased, RunsTyped, EditRuns
<1>10. DocsStand' /\ NoDirNoFiles' BY Parts, <1>5, StandsStay
<1>11. Copied' BY Names DEF Copied, BeforeDoc, KeepsDrafts, SameDraft
<1>12. DocsGo'
  BY Names, Parts, <1>1, <1>2, <1>3, <1>4, <1>6 DEF DocsGo, HasDoc, RunsTyped, EditRuns, KeepsDocs
<1>13. MayGo'
 <2>2. \A q \in Refs : PruneEligible(q)' <=> PruneEligible(q) BY <1>1 DEF PruneEligible, HasDoc, Claimed
 <2>3. \A q \in Refs : rm'[q].at = "doc" => rm[q].at = "doc" /\ holder'[q] = holder[q] BY <1>3
 <2>4. ed'.pc = "remove" => ed' = ed /\ rm'[ed.ref] = rm[ed.ref] BY Parts, <1>3 DEF ShelfLeases, EditLeased
 <2>5. ed'.kind = ed.kind /\ (ed'.pc = "off" <=> ed.pc = "off") BY <1>3
 <2>6. /\ ed'.result = "ok" => ed' = ed
       /\ ad'.result = "ok" => ad' = ad BY <1>3
 <2>7. ~shelf'[New].doc.old /\ ~disk'[New].doc.old BY Parts, <1>1 DEF MayGo
 <2> QED BY Parts, <2>2, <2>3, <2>4, <2>5, <2>6, <2>7 DEF MayGo
<1>14. Acknowledged'
 <2>1. Written' => Written /\ ed' = ed BY <1>3 DEF Written
 <2>2. Discards(New)' <=> Discards(New) BY <1>3 DEF Discards
 <2> QED BY Names, Parts, <1>1, <1>3, <2>1, <2>2 DEF Acknowledged, HasDoc, Claimed
<1> QED BY <1>7, <1>8, <1>9, <1>10, <1>11, <1>12, <1>13, <1>14 DEF DraftsInv

\* The power fails: every entry is as it is, or as it was last synced.
LEMMA PowerFailsKept ==
  ASSUME DraftsInv, PowerFails
  PROVE  DraftsInv'
<1>1. stage' = stage /\ fp' = fp /\ noted' = {} BY DEF PowerFails
<1>2. \E n \in Survivors(New), t \in Survivors(Target) :
        /\ shelf' = [shelf EXCEPT ![New] = n, ![Target] = t]
        /\ disk' = [shelf EXCEPT ![New] = n, ![Target] = t] BY DEF PowerFails
<1>3. \A r \in Refs : \A s \in Survivors(r) :
        /\ s \in ShelfEntries /\ (~s.dir => s.files = NoFiles)
        /\ s.doc \in {disk[r].doc, shelf[r].doc} /\ s.dir \in {disk[r].dir, shelf[r].dir}
        /\ s.claim \in {disk[r].claim, shelf[r].claim}
        /\ \A f \in Files : s.files[f] \in {disk[r].files[f], shelf[r].files[f]}
  BY Parts DEF Survivors, ShelfTyped, ShelfEntries, FileBytes
<1>4. /\ shelf' \in [Refs -> ShelfEntries] /\ disk' = shelf'
      /\ \A q \in Refs : \/ shelf'[q] = shelf[q] /\ q \notin {New, Target}
                         \/ /\ q \in {New, Target} /\ (~shelf'[q].dir => shelf'[q].files = NoFiles)
                            /\ shelf'[q].doc \in {disk[q].doc, shelf[q].doc} /\ shelf'[q].dir \in {disk[q].dir, shelf[q].dir}
                            /\ shelf'[q].claim \in {disk[q].claim, shelf[q].claim}
                            /\ \A f \in Files : shelf'[q].files[f] \in {disk[q].files[f], shelf[q].files[f]}
 <2>1. PICK n \in Survivors(New), t \in Survivors(Target) :
         /\ shelf' = [shelf EXCEPT ![New] = n, ![Target] = t]
         /\ disk' = [shelf EXCEPT ![New] = n, ![Target] = t] BY <1>2
 <2>2. n \in ShelfEntries /\ t \in ShelfEntries BY Names, <1>3
 <2>3. /\ shelf' \in [Refs -> ShelfEntries] /\ disk' = shelf' /\ shelf'[New] = n /\ shelf'[Target] = t
       /\ \A q \in Refs : q \notin {New, Target} => shelf'[q] = shelf[q]
   BY Names, Parts, <2>1, <2>2 DEF ShelfTyped
 <2> QED BY Names, <1>3, <2>3
<1>5. /\ holder' \in [Refs -> Holders] /\ rm' \in [Refs -> RemovalRuns]
      /\ \A r \in Refs : holder'[r] = None /\ rm'[r].at = "idle"
 <2>1. Freed({"adopt", "edit", "prune"}) BY DEF PowerFails
 <2>2. \A r \in Refs : holder[r] \in {"adopt", "edit", "prune"} \/ (holder[r] = None /\ rm[r].at = "idle")
   BY Names, Parts DEF RunsTyped, Holders, ShelfLeases
 <2> QED BY Names, Parts, <2>1, <2>2, FreedDoes, IdleIs
<1>6. /\ ad' \in AdoptRuns /\ ad'.pc \in Stopped /\ (ad' = ad \/ (ad'.pc = "done" /\ ad'.result = "killed"))
  BY Parts DEF PowerFails, RunsTyped, AdoptRuns, AdoptSteps, ShelfEnds, Stopped
<1>7. /\ ed' \in EditRuns /\ ed'.pc \in Stopped /\ ed'.kind = ed.kind /\ ed'.ref = ed.ref
      /\ ed' = ed \/ (ed.pc \notin Stopped /\ ed'.pc = "done" /\ ed'.result = "killed")
  BY Parts DEF PowerFails, RunsTyped, EditRuns, EditSteps, ShelfEnds, Stopped
<1>8. /\ pr' \in PruneRuns /\ pr'.pc \in Stopped /\ pr'.ref = None
 <2>1. CASE pr.pc \in Stopped /\ pr' = pr
   BY Names, Parts, <2>1 DEF RunsTyped, ShelfLeases, Stopped
 <2>2. CASE pr.pc \notin Stopped /\ pr' = [[pr EXCEPT !.pc = "done", !.todo = {}, !.ref = None] EXCEPT !.result = "killed"]
   BY Parts, <2>2 DEF RunsTyped, PruneRuns, PruneSteps, PruneEnds, Stopped
 <2> QED BY <2>1, <2>2 DEF PowerFails, PruneTo
<1>9. left' \in Nat BY Parts, LeftTyped DEF PowerFails
<1>10. ShelfTyped'
  BY Parts, <1>1, <1>2, <1>3, <1>4, <1>5, <1>6, <1>7, <1>8, <1>9 DEF ShelfTyped
<1>11. RunsTyped' BY Parts, <1>1, <1>2, <1>3, <1>4, <1>5, <1>6, <1>7, <1>8, <1>9 DEF RunsTyped
<1>12. ShelfLeases'
  BY Names, <1>5, <1>6, <1>7, <1>8 DEF ShelfLeases, AdoptLeased, EditLeased, Stopped
<1>13. DocsStand' BY NothingThere, Parts, <1>4 DEF DocsStand, Stands
<1>14. NoDirNoFiles' BY Parts, <1>4 DEF NoDirNoFiles
<1>15. Copied' BY Names, Parts, <1>1, <1>4, <1>6 DEF Copied, BeforeDoc, Stopped
<1>16. DocsGo' BY <1>5, <1>7 DEF DocsGo, Stopped
<1>17. MayGo' BY Names, Parts, <1>4, <1>5, <1>6, <1>7 DEF MayGo, Stopped
<1>18. Acknowledged'
 <2>1. Written' => Written /\ ed' = ed BY <1>7 DEF Written, Stopped
 <2>2. Discards(New)' <=> Discards(New) BY <1>7 DEF Discards
 <2>3. ad'.result = "ok" => ad' = ad BY <1>6
 <2>4. \A q \in Refs : /\ shelf'[q].doc \in {disk[q].doc, shelf[q].doc} \/ shelf'[q] = shelf[q]
                       /\ q \in {New, Target} => shelf'[q].doc \in {disk[q].doc, shelf[q].doc}
                       /\ q \in {New, Target} => shelf'[q].claim \in {disk[q].claim, shelf[q].claim}
   BY <1>4
 <2>5. ed.ref \in {New, Target} BY Parts DEF RunsTyped, EditRuns
 <2> QED BY Names, Parts, <1>4, <1>6, <1>7, <2>1, <2>2, <2>3, <2>4, <2>5 DEF Acknowledged, HasDoc, Claimed, Stopped
<1> QED BY <1>10, <1>11, <1>12, <1>13, <1>14, <1>15, <1>16, <1>17, <1>18 DEF DraftsInv

----------------------------------------------------------------------------
(* The theorem. *)

\* Nothing that stands on the shelf at first has half of its attachments.
LEMMA PastsTyped ==
  \A x \in Pasts \cup {Gone, Plain} :
    /\ x \in ShelfEntries /\ (~x.dir => x.files = NoFiles)
    /\ x.doc.ver # "none" => \A f \in Files : x.doc.fp[f] # None => x.dir /\ x.files[f] = x.doc.fp[f]
<1>1. AllFiles \in [Files -> FileBytes] BY DEF AllFiles, FileBytes
<1>2. Gone \in ShelfEntries /\ Gone.doc = NoDoc /\ ~Gone.dir /\ Gone.files = NoFiles
  BY NothingThere DEF Gone, ShelfEntries
<1>3. Plain \in ShelfEntries /\ ~Plain.dir /\ Plain.files = NoFiles /\ Plain.doc.fp = NoFiles
 <2> DEFINE d == [NoDoc EXCEPT !.ver = "first"]
            x == [Gone EXCEPT !.doc = d]
            y == [x EXCEPT !.lock = TRUE]
 <2>1. d \in ShelfDocs /\ d.fp = NoFiles BY NothingThere DEF ShelfDocs, DocVers
 <2>2. Plain = y BY <1>2 DEF Plain
 <2> HIDE DEF d
 <2>3. x \in ShelfEntries /\ x.doc = d /\ x.dir = Gone.dir /\ x.files = Gone.files BY <1>2, <2>1, DocChanged
 <2> HIDE DEF x
 <2>4. y \in ShelfEntries /\ y.doc = x.doc /\ y.dir = x.dir /\ y.files = x.files BY <2>3, LockChanged
 <2> QED BY <1>2, <2>1, <2>2, <2>3, <2>4
<1>5. ASSUME NEW f \in Files PROVE Plain.doc.fp[f] = None BY <1>3, NothingThere
<1>6. Adopted \in ShelfEntries /\ Adopted.doc.fp = AllFiles /\ Adopted.files = AllFiles /\ Adopted.dir
 <2> DEFINE d == [Plain.doc EXCEPT !.old = TRUE, !.fp = AllFiles]
            x == [Plain EXCEPT !.doc = d]
            y == [x EXCEPT !.dir = TRUE]
            z == [y EXCEPT !.files = AllFiles]
 <2>1. d \in ShelfDocs /\ d.fp = AllFiles BY <1>1, <1>3 DEF ShelfEntries, ShelfDocs
 <2>2. Adopted = z
  <3>1. Plain = [doc |-> Plain.doc, dir |-> Plain.dir, files |-> Plain.files, claim |-> Plain.claim,
                 temp |-> Plain.temp, lock |-> Plain.lock] BY <1>3 DEF ShelfEntries
  <3>2. Plain.doc = [ver |-> Plain.doc.ver, old |-> Plain.doc.old, fp |-> Plain.doc.fp]
    BY <1>3 DEF ShelfEntries, ShelfDocs
  <3> QED BY <3>1, <3>2 DEF Adopted
 <2> HIDE DEF d
 <2>3. x \in ShelfEntries /\ x.doc = d BY <1>3, <2>1, DocChanged
 <2> HIDE DEF x
 <2>4. y \in ShelfEntries /\ y.doc = d /\ y.dir BY <2>3, DirChanged
 <2> HIDE DEF y
 <2>5. z \in ShelfEntries /\ z.doc = d /\ z.dir /\ z.files = AllFiles BY <1>1, <2>4, FilesChanged
 <2> QED BY <2>1, <2>2, <2>5
<1>7. LET x == [Adopted EXCEPT !.claim = "save", !.temp = "old"] IN
      x \in ShelfEntries /\ x.doc.fp = AllFiles /\ x.files = AllFiles /\ x.dir
  BY <1>6 DEF ShelfEntries
<1>8. LET x == [Adopted EXCEPT !.doc = NoDoc, !.claim = "send", !.temp = "young"] IN
      x \in ShelfEntries /\ x.doc = NoDoc /\ x.files = AllFiles /\ x.dir
  BY <1>6, NothingThere DEF ShelfEntries
<1> QED BY ZenonT(60), <1>2, <1>3, <1>5, <1>6, <1>7, <1>8, NothingThere DEF Pasts

\* The invariant holds at first.
LEMMA DraftsAtFirst ==
  ASSUME ShelfInit
  PROVE  DraftsInv
<1>1. PICK past \in Pasts :
        shelf = [r \in Refs |-> IF r = New THEN Gone ELSE IF r = Target THEN past ELSE Plain]
  BY DEF ShelfInit
<1>2. /\ shelf \in [Refs -> ShelfEntries] /\ disk = shelf /\ shelf[New] = Gone
      /\ \A r \in Refs : /\ ~shelf[r].dir => shelf[r].files = NoFiles
                         /\ shelf[r].doc.ver # "none" => \A f \in Files : shelf[r].doc.fp[f] # None =>
                              shelf[r].dir /\ shelf[r].files[f] = shelf[r].doc.fp[f]
 <2>1. \A r \in Refs : shelf[r] \in Pasts \cup {Gone, Plain} BY <1>1
 <2>2. shelf = [r \in Refs |-> shelf[r]] BY <1>1
 <2>3. shelf[New] = Gone BY Names, <1>1
 <2> QED BY <2>1, <2>2, <2>3, PastsTyped DEF ShelfInit
<1>3. Gone.doc = NoDoc /\ NoDoc.ver = "none" /\ NoDoc.old = FALSE BY DEF Gone, NoDoc
<1>4. /\ holder = [r \in Refs |-> None] /\ rm = [r \in Refs |-> Idle] /\ stage = NoFiles /\ fp = NoFiles
      /\ noted = {} /\ left = Faults
      /\ ad = [pc |-> "off", made |-> FALSE, started |-> FALSE, retained |-> FALSE, result |-> None]
      /\ ed = [pc |-> "off", kind |-> None, ref |-> Target, result |-> None]
      /\ pr = [pc |-> "off", kind |-> None, ref |-> None, seen |-> [r \in Refs |-> {}], todo |-> {},
               orphans |-> {}, runs |-> 0, quiet |-> FALSE, truth |-> FALSE, result |-> None]
  BY DEF ShelfInit
<1>5. ShelfTyped BY <1>2, <1>4, NothingThere DEF ShelfTyped
<1>6. RunsTyped
 <2>1. rm \in [Refs -> RemovalRuns] /\ holder \in [Refs -> Holders] BY <1>4, IdleIs DEF Holders
 <2>2. ad \in AdoptRuns /\ ed \in EditRuns BY <1>4 DEF AdoptRuns, EditRuns, AdoptSteps, EditSteps, ShelfEnds
 <2>3. pr \in PruneRuns BY <1>4 DEF PruneRuns, PruneSteps, PruneEnds, Traces
 <2>4. left \in Nat BY <1>4, ShelfAssumption
 <2> QED BY <2>1, <2>2, <2>3, <2>4 DEF RunsTyped
<1>7. ShelfLeases BY Names, <1>4, IdleIs DEF ShelfLeases, AdoptLeased, EditLeased
<1>8. DocsStand /\ NoDirNoFiles BY <1>2 DEF DocsStand, Stands, NoDirNoFiles
<1>9. Copied BY Names, <1>2, <1>3, <1>4, NothingThere DEF Copied, BeforeDoc
<1>10. DocsGo BY <1>4, IdleIs DEF DocsGo
<1>11. MayGo BY Names, <1>2, <1>3, <1>4, IdleIs DEF MayGo
<1>12. Acknowledged BY Names, <1>4 DEF Acknowledged, Written
<1> QED BY <1>5, <1>6, <1>7, <1>8, <1>9, <1>10, <1>11, <1>12 DEF DraftsInv

\* Steps that change nothing.
LEMMA DraftsStutter ==
  ASSUME DraftsInv, UNCHANGED shelfVars
  PROVE  DraftsInv'
<1>1. /\ shelf' = shelf /\ disk' = disk /\ noted' = noted /\ holder' = holder /\ rm' = rm
      /\ stage' = stage /\ fp' = fp /\ ad' = ad /\ ed' = ed /\ pr' = pr /\ left' = left
  BY DEF shelfVars
<1>2. ShelfTyped /\ RunsTyped /\ ShelfLeases BY Parts
<1>3. noted' \subseteq {"prune", "list"} /\ left' \in Nat BY <1>1, <1>2 DEF ShelfTyped, RunsTyped
<1>4. pr' \in PruneRuns /\ (pr'.pc \notin {"off", "done"} => pr'.kind # None /\ pr'.result # "killed")
  BY <1>1, <1>2 DEF RunsTyped, ShelfLeases
<1> QED BY <1>1, <1>3, <1>4, AsideKeeps

\* Every step keeps the invariant.
LEMMA DraftsStep ==
  ASSUME DraftsInv, [ShelfNext]_shelfVars
  PROVE  DraftsInv'
<1>1. CASE RemovalStep
  BY <1>1, RemoveDocKept, SyncGoneKept, DropClaimsKept, DropFileKept, DropDirKept, DropLockKept,
     RemovalFailsKept DEF RemovalStep
<1>2. CASE AdoptStep
  BY <1>2, AdoptStartKept, AdoptStageKept, AdoptPrepareKept, AdoptLeaseKept, AdoptMkdirKept, CopySyncedKept,
     AdoptTempKept, AdoptRenameKept, AdoptSyncKept, AdoptFinishKept, CopyOpenKept, CopyWriteKept,
     EditStagedKept DEF AdoptStep
<1>3. CASE EditStep
  BY <1>3, EditStartKept, EditLeaseKept, EditReadKept, EditRenameKept, EditSyncKept, EditDoneKept DEF EditStep
<1>4. CASE PruneStep
  BY <1>4, PruneStartKept, PruneVerifyKept, DryOrphansKept, DryDoneKept, PruneReadKept, PruneNextKept,
     SweepKept, SweepNextKept, PruneDoneKept, PruneLookKept, DryOrphanKept, PruneLeaseKept, SweepLeaseKept,
     SweepLockKept DEF PruneStep
<1>5. CASE ListStep BY <1>5, ListKept
<1>6. CASE Age \/ Killed \/ PowerFails BY <1>6, AgeKept, KilledKept, PowerFailsKept
<1>7. CASE UNCHANGED shelfVars BY <1>7, DraftsStutter
<1> QED BY <1>1, <1>2, <1>3, <1>4, <1>5, <1>6, <1>7 DEF ShelfNext

(* Every reachable state of the shelf, whatever is stopped where and         *)
(* whenever the power fails, is one the invariant describes: attachments     *)
(* stand on the disk before their document and until it is gone from there. *)
THEOREM DraftsInvariant == ShelfSpec => []DraftsInv
<1>1. ShelfInit => DraftsInv BY DraftsAtFirst
<1>2. DraftsInv /\ [ShelfNext]_shelfVars => DraftsInv' BY DraftsStep
<1> QED BY <1>1, <1>2, PTL DEF ShelfSpec

(* A document on the shelf has its attachments whole, and what was reported *)
(* as saved stays until it is discarded, for any number of faults           *)
(* (adoptDraft, replacePrivateDraftFile, discardDraftFiles, PruneDrafts).    *)
THEOREM DraftsAlwaysKept == ShelfSpec => []DraftsKept
<1>1. DraftsInv => DraftsKept
 <2> SUFFICES ASSUME DraftsInv PROVE DraftsKept OBVIOUS
 <2>1. DocsStand /\ Acknowledged BY Parts
 <2>2. DocumentWhole BY <2>1 DEF DocsStand, Stands, DocumentWhole, HasDoc
 <2>3. AcknowledgedKept BY <2>1 DEF Acknowledged, AcknowledgedKept, Written
 <2> QED BY <2>2, <2>3 DEF DraftsKept
<1> QED BY <1>1, DraftsInvariant, PTL

----------------------------------------------------------------------------
(* What a prune that is alone has cleaned up. *)

\* It began after all other commands, and no call of it has failed.
Alone == pr.quiet /\ pr.kind = "prune" /\ pr.result \in {None, "ok"}

\* What the inventory of such a prune saw of a draft it has not yet come to.
Noticed(r) ==
  /\ shelf[r].dir \/ Claimed(r) => "artifact" \in pr.seen[r]
  /\ r # pr.ref => (~HasDoc(r) /\ shelf[r].lock => "lock" \in pr.seen[r])
\* What it leaves of a draft it has swept.
SweptOf(r) ==
  /\ ~HasDoc(r) => ~shelf[r].dir /\ ~Claimed(r)
  /\ "temp" \in pr.seen[r] => shelf[r].temp = None
\* How far a removal that has not failed has come.
Removing(r) ==
  /\ rm[r].at = "done" /\ ~rm[r].err => ~shelf[r].lock
  /\ pr.pc = "sweep" /\ rm[r].at # "idle" =>
      /\ rm[r].at \notin {"doc", "sync"} /\ rm[r].sweep /\ ~HasDoc(r)
      /\ "temp" \in pr.seen[r] => shelf[r].temp = None
      /\ ~rm[r].err =>
          /\ rm[r].at \in {"dir", "lock", "done"} => ~Claimed(r)
          /\ rm[r].at \in {"lock", "done"} => ~shelf[r].dir
Cleaned(r) ==
  /\ (pr.pc = "look" /\ r \notin pr.todo) \/ pr.pc \in {"drafts", "sweep"} => Noticed(r)
  /\ (pr.pc = "sweep" /\ r \notin pr.todo) \/ pr.pc \in {"locks", "done"} => SweptOf(r)
  /\ r = pr.ref => r \in pr.todo /\ Removing(r)
  /\ pr.pc \in {"locks", "done"} /\ r \notin pr.todo => (~HasDoc(r) => ~shelf[r].lock)
  /\ pr.pc = "done" => r \notin pr.todo
SweptInv ==
  /\ pr.quiet => ad.pc = "done" /\ ed.pc = "done"
  /\ pr.pc \in {"drafts", "sweep", "locks"} => pr.kind = "prune"
  /\ pr.pc = "orphans" => pr.kind = "dryrun"
  /\ pr.result = "ok" => pr.kind = "prune"
  /\ Alone => \A r \in Refs : Cleaned(r)

\* An adoption or an edit that still runs is not one a prune began after.
LEMMA StillRuns ==
  ASSUME SweptInv, pr' = pr, ad.pc # "done" \/ ed.pc # "done"
  PROVE  SweptInv' BY DEF SweptInv, Alone

\* A step that leaves what a prune looks at.
LEMMA SweptStays ==
  ASSUME SweptInv, pr' = pr, ad' = ad, ed' = ed, rm' = rm,
         \A r \in Refs : /\ shelf'[r].doc = shelf[r].doc /\ shelf'[r].dir = shelf[r].dir /\ shelf'[r].claim = shelf[r].claim
                         /\ shelf'[r].lock = shelf[r].lock
                         /\ shelf[r].temp = None => shelf'[r].temp = None
  PROVE  SweptInv'
<1>1. \A r \in Refs : (HasDoc(r)' <=> HasDoc(r)) /\ (Claimed(r)' <=> Claimed(r)) BY DEF HasDoc, Claimed
<1>2. \A r \in Refs : Noticed(r) => Noticed(r)' BY <1>1 DEF Noticed
<1>3. \A r \in Refs : SweptOf(r) => SweptOf(r)' BY <1>1 DEF SweptOf
<1>4. \A r \in Refs : Removing(r) => Removing(r)' BY <1>1 DEF Removing
<1>5. \A r \in Refs : Cleaned(r) => Cleaned(r)' BY <1>1, <1>2, <1>3, <1>4 DEF Cleaned
<1> QED BY <1>5 DEF SweptInv, Alone

\* The steps of an adoption and of an edit.
LEMMA AdoptSwept ==
  ASSUME SweptInv, AdoptStep
  PROVE  SweptInv'
<1> SUFFICES pr' = pr /\ ad.pc # "done" BY StillRuns
<1>1. CASE AdoptStart BY <1>1 DEF AdoptStart, Adopting
<1>2. CASE AdoptStage BY <1>2 DEF AdoptStage, Adopting
<1>3. CASE AdoptPrepare BY <1>3 DEF AdoptPrepare, Adopting
<1>4. CASE AdoptLease BY <1>4 DEF AdoptLease, Adopting
<1>5. CASE AdoptMkdir BY <1>5 DEF AdoptMkdir, Adopting
<1>6. CASE CopySynced BY <1>6 DEF CopySynced, Adopting
<1>7. CASE AdoptTemp BY <1>7 DEF AdoptTemp, Adopting
<1>8. CASE AdoptRename BY <1>8 DEF AdoptRename, Adopting
<1>9. CASE AdoptSync BY <1>9 DEF AdoptSync, Adopting
<1>10. CASE AdoptFinish BY <1>10 DEF AdoptFinish, Adopting
<1>11. CASE \E f \in Files : CopyOpen(f) BY <1>11 DEF CopyOpen, Adopting
<1>12. CASE \E f \in Files : CopyWrite(f) BY <1>12 DEF CopyWrite, Adopting
<1>13. CASE \E f \in Files : EditStaged(f) BY <1>13 DEF EditStaged, Adopting
<1> QED BY <1>1, <1>2, <1>3, <1>4, <1>5, <1>6, <1>7, <1>8, <1>9, <1>10, <1>11, <1>12, <1>13 DEF AdoptStep

\* The steps of the other command.
LEMMA EditSwept ==
  ASSUME SweptInv, EditStep
  PROVE  SweptInv'
<1> SUFFICES pr' = pr /\ ed.pc # "done" BY StillRuns
<1>1. CASE EditStart BY <1>1 DEF EditStart, Editing
<1>2. CASE EditLease BY <1>2 DEF EditLease, Editing
<1>3. CASE EditRead BY <1>3 DEF EditRead, Editing
<1>4. CASE EditRename BY <1>4 DEF EditRename, Editing
<1>5. CASE EditSync BY <1>5 DEF EditSync, Editing
<1>6. CASE EditDone BY <1>6 DEF EditDone, Editing
<1> QED BY <1>1, <1>2, <1>3, <1>4, <1>5, <1>6 DEF EditStep

\* A removal under the lease of a prune that is alone.
LEMMA RemovalSwept ==
  ASSUME DraftsInv, SweptInv, NEW r \in Refs, rm[r].at # "idle", pr' = pr, ad' = ad, ed' = ed,
         \A q \in Refs \ {r} : shelf'[q] = shelf[q] /\ rm'[q] = rm[q],
         shelf'[r].temp = shelf[r].temp, shelf'[r].dir => shelf[r].dir,
         shelf'[r].claim \in {shelf[r].claim, None},
         Alone /\ r = pr.ref /\ pr.pc \in {"drafts", "sweep"} /\ Removing(r) => Removing(r)'
  PROVE  SweptInv'
<1>1. pr.quiet => r = pr.ref BY RemovalOf DEF SweptInv
<1>2. r = pr.ref => pr.pc \in {"drafts", "sweep"} BY Names, Parts DEF ShelfLeases
<1>3. \A q \in Refs \ {r} : (HasDoc(q)' <=> HasDoc(q)) /\ (Claimed(q)' <=> Claimed(q)) BY DEF HasDoc, Claimed
<1>4. Claimed(r)' => Claimed(r) BY DEF Claimed
<1>5. ASSUME Alone, NEW q \in Refs, q # r, Cleaned(q) PROVE Cleaned(q)'
  BY <1>3, <1>5 DEF Cleaned, Noticed, SweptOf, Removing
<1>6. ASSUME Alone, Cleaned(r), r = pr.ref PROVE Cleaned(r)'
  BY <1>2, <1>4, <1>6 DEF Cleaned, Noticed
<1>7. Alone' => Alone BY DEF Alone
<1>8. ASSUME Alone' PROVE \A q \in Refs : Cleaned(q)'
 <2>1. Alone /\ r = pr.ref BY <1>1, <1>7, <1>8 DEF Alone
 <2>2. \A q \in Refs : Cleaned(q) BY <2>1 DEF SweptInv
 <2> QED BY <1>5, <1>6, <2>1, <2>2
<1> QED BY <1>8 DEF SweptInv

\* The steps of a removal.

LEMMA RemoveDocSwept ==
  ASSUME DraftsInv, SweptInv, NEW r \in Refs, RemoveDoc(r)
  PROVE  SweptInv'
<1>1. rm[r].at # "idle" /\ pr' = pr /\ ad' = ad /\ ed' = ed BY DEF RemoveDoc, Removal
<1>2. /\ \A q \in Refs \ {r} : rm'[q] = rm[q]
      /\ rm'[r].at \in {"sync", "lock"} /\ (rm'[r].at = "lock" => rm'[r].err) /\ rm[r].at = "doc"
  BY ZenonT(60), Parts, RemovalAtDoes DEF RemoveDoc, Removal, RunsTyped, RemovalRuns, RemovalSteps
<1>3. /\ \A q \in Refs \ {r} : shelf'[q] = shelf[q]
      /\ shelf'[r].dir = shelf[r].dir /\ shelf'[r].claim = shelf[r].claim /\ shelf'[r].temp = shelf[r].temp /\ shelf'[r].lock = shelf[r].lock
      /\ shelf'[r].doc.ver = "none"
 <2>1. shelf[r] \in ShelfEntries BY Parts DEF ShelfTyped
 <2>2. CASE Enters(r, [shelf[r] EXCEPT !.doc = NoDoc])
  <3>1. NoDoc \in ShelfDocs BY NothingThere
  <3>2. /\ [shelf[r] EXCEPT !.doc = NoDoc] \in ShelfEntries /\ [shelf[r] EXCEPT !.doc = NoDoc].doc = NoDoc
        /\ [shelf[r] EXCEPT !.doc = NoDoc].dir = shelf[r].dir /\ [shelf[r] EXCEPT !.doc = NoDoc].claim = shelf[r].claim /\ [shelf[r] EXCEPT !.doc = NoDoc].temp = shelf[r].temp /\ [shelf[r] EXCEPT !.doc = NoDoc].lock = shelf[r].lock
    BY <2>1, <3>1, DocChanged
  <3>3. OthersStand(r) /\ shelf'[r] = [shelf[r] EXCEPT !.doc = NoDoc]
    BY Parts, <2>2, <3>2, EntersDoes
  <3> QED BY Names, NothingThere, <3>2, <3>3 DEF OthersStand
 <2>3. CASE ~HasDoc(r) /\ shelf' = shelf BY <2>3 DEF HasDoc
 <2> QED BY <2>2, <2>3 DEF RemoveDoc, SameShelf
<1>4. Removing(r) /\ pr.pc \in {"drafts", "sweep"} => Removing(r)'
  BY <1>1, <1>2, <1>3 DEF Removing
<1> QED BY Parts, <1>1, <1>2, <1>3, <1>4, RemovalSwept

\* The sync of a removed document.
LEMMA SyncGoneSwept ==
  ASSUME DraftsInv, SweptInv, NEW r \in Refs, SyncGone(r)
  PROVE  SweptInv'
<1>1. rm[r].at # "idle" /\ pr' = pr /\ ad' = ad /\ ed' = ed BY DEF SyncGone, Removal
<1>2. /\ \A q \in Refs \ {r} : rm'[q] = rm[q]
      /\ rm'[r].at = "claims" /\ rm[r].at = "sync"
  BY Parts, RemovalAtDoes DEF SyncGone, Removal, RemovalSteps
<1>3. shelf' = shelf BY DEF SyncGone, SameShelf
<1>4. Removing(r) => Removing(r)' BY <1>1, <1>2 DEF Removing
<1> QED BY Parts, <1>1, <1>2, <1>3, <1>4, RemovalSwept

\* The claims go.
LEMMA DropClaimsSwept ==
  ASSUME DraftsInv, SweptInv, NEW r \in Refs, DropClaims(r)
  PROVE  SweptInv'
<1>1. rm[r].at # "idle" /\ pr' = pr /\ ad' = ad /\ ed' = ed BY DEF DropClaims, Removal
<1>2. /\ \A q \in Refs \ {r} : rm'[q] = rm[q]
      /\ rm'[r].at = "dir" /\ rm'[r].sweep = rm[r].sweep /\ rm'[r].err = rm[r].err /\ rm[r].at = "claims"
  BY Parts, RemovalAtDoes DEF DropClaims, Removal, RemovalSteps
<1>3. /\ \A q \in Refs \ {r} : shelf'[q] = shelf[q]
      /\ shelf'[r].doc = shelf[r].doc /\ shelf'[r].dir = shelf[r].dir /\ shelf'[r].temp = shelf[r].temp /\ shelf'[r].lock = shelf[r].lock
      /\ shelf'[r].claim = None
 <2>1. shelf[r] \in ShelfEntries BY Parts DEF ShelfTyped
 <2>2. CASE Enters(r, [shelf[r] EXCEPT !.claim = None])
  <3>1. None \in {None, "save", "send", "handoff", "saved"} BY NothingThere
  <3>2. /\ [shelf[r] EXCEPT !.claim = None] \in ShelfEntries /\ [shelf[r] EXCEPT !.claim = None].claim = None
        /\ [shelf[r] EXCEPT !.claim = None].doc = shelf[r].doc /\ [shelf[r] EXCEPT !.claim = None].dir = shelf[r].dir /\ [shelf[r] EXCEPT !.claim = None].temp = shelf[r].temp /\ [shelf[r] EXCEPT !.claim = None].lock = shelf[r].lock
    BY <2>1, <3>1, ClaimChanged
  <3>3. OthersStand(r) /\ shelf'[r] = [shelf[r] EXCEPT !.claim = None]
    BY Parts, <2>2, <3>2, EntersDoes
  <3> QED BY Names, NothingThere, <3>2, <3>3 DEF OthersStand
 <2>3. CASE shelf[r].claim = None /\ shelf' = shelf BY <2>3
 <2> QED BY <2>2, <2>3 DEF DropClaims, SameShelf
<1>4. Removing(r) => Removing(r)' BY <1>1, <1>2, <1>3 DEF Removing, HasDoc, Claimed
<1> QED BY Parts, <1>1, <1>2, <1>3, <1>4, RemovalSwept

\* An attachment goes.
LEMMA DropFileSwept ==
  ASSUME DraftsInv, SweptInv, NEW r \in Refs, NEW f \in Files, DropFile(r, f)
  PROVE  SweptInv'
<1>1. rm[r].at # "idle" /\ pr' = pr /\ ad' = ad /\ ed' = ed BY DEF DropFile, Removal
<1>2. rm' = rm BY DEF DropFile
<1>3. /\ \A q \in Refs \ {r} : shelf'[q] = shelf[q]
      /\ shelf'[r].doc = shelf[r].doc /\ shelf'[r].dir = shelf[r].dir /\ shelf'[r].claim = shelf[r].claim
      /\ shelf'[r].temp = shelf[r].temp /\ shelf'[r].lock = shelf[r].lock
 <2> DEFINE g == [shelf[r].files EXCEPT ![f] = None]
 <2>1. shelf[r] \in ShelfEntries /\ g \in [Files -> FileBytes]
   BY Parts DEF ShelfTyped, ShelfEntries, FileBytes
 <2>2. shelf' = [shelf EXCEPT ![r] = [shelf[r] EXCEPT !.files = g]]
   BY <2>1 DEF ShelfEntries, DropFile
 <2> HIDE DEF g
 <2>4. /\ [shelf[r] EXCEPT !.files = g].temp = shelf[r].temp /\ [shelf[r] EXCEPT !.files = g].lock = shelf[r].lock
       /\ [shelf[r] EXCEPT !.files = g].doc = shelf[r].doc /\ [shelf[r] EXCEPT !.files = g].dir = shelf[r].dir
       /\ [shelf[r] EXCEPT !.files = g].claim = shelf[r].claim BY <2>1, FilesChanged
 <2>5. shelf'[r] = [shelf[r] EXCEPT !.files = g] /\ \A q \in Refs \ {r} : shelf'[q] = shelf[q]
   BY Parts, <2>2 DEF ShelfTyped
 <2> QED BY <2>4, <2>5
<1>4. Removing(r) => Removing(r)' BY <1>1, <1>2, <1>3 DEF Removing, HasDoc, Claimed
<1> QED BY Parts, <1>1, <1>2, <1>3, <1>4, RemovalSwept

\* The attachment directory goes.
LEMMA DropDirSwept ==
  ASSUME DraftsInv, SweptInv, NEW r \in Refs, DropDir(r)
  PROVE  SweptInv'
<1>1. rm[r].at # "idle" /\ pr' = pr /\ ad' = ad /\ ed' = ed BY DEF DropDir, Removal
<1>2. /\ \A q \in Refs \ {r} : rm'[q] = rm[q]
      /\ rm'[r].at = "lock" /\ rm'[r].sweep = rm[r].sweep /\ rm'[r].err = rm[r].err /\ rm[r].at = "dir"
  BY Parts, RemovalAtDoes DEF DropDir, Removal, RemovalSteps
<1>3. /\ \A q \in Refs \ {r} : shelf'[q] = shelf[q]
      /\ shelf'[r].doc = shelf[r].doc /\ shelf'[r].claim = shelf[r].claim /\ shelf'[r].temp = shelf[r].temp /\ shelf'[r].lock = shelf[r].lock
      /\ shelf'[r].dir = FALSE
 <2>1. shelf[r] \in ShelfEntries BY Parts DEF ShelfTyped
 <2>2. CASE Enters(r, [shelf[r] EXCEPT !.dir = FALSE])
  <3>1. FALSE \in BOOLEAN BY NothingThere
  <3>2. /\ [shelf[r] EXCEPT !.dir = FALSE] \in ShelfEntries /\ [shelf[r] EXCEPT !.dir = FALSE].dir = FALSE
        /\ [shelf[r] EXCEPT !.dir = FALSE].doc = shelf[r].doc /\ [shelf[r] EXCEPT !.dir = FALSE].claim = shelf[r].claim /\ [shelf[r] EXCEPT !.dir = FALSE].temp = shelf[r].temp /\ [shelf[r] EXCEPT !.dir = FALSE].lock = shelf[r].lock
    BY <2>1, <3>1, DirChanged
  <3>3. OthersStand(r) /\ shelf'[r] = [shelf[r] EXCEPT !.dir = FALSE]
    BY Parts, <2>2, <3>2, EntersDoes
  <3> QED BY Names, NothingThere, <3>2, <3>3 DEF OthersStand
 <2>3. CASE ~shelf[r].dir /\ shelf' = shelf BY <2>1, <2>3 DEF ShelfEntries
 <2> QED BY <2>2, <2>3 DEF DropDir, SameShelf
<1>4. Removing(r) => Removing(r)' BY <1>1, <1>2, <1>3 DEF Removing, HasDoc, Claimed
<1> QED BY Parts, <1>1, <1>2, <1>3, <1>4, RemovalSwept

\* With its lock a draft is gone.
LEMMA DropLockSwept ==
  ASSUME DraftsInv, SweptInv, NEW r \in Refs, DropLock(r)
  PROVE  SweptInv'
<1>1. rm[r].at # "idle" /\ pr' = pr /\ ad' = ad /\ ed' = ed BY DEF DropLock, Removal
<1>2. /\ \A q \in Refs \ {r} : rm'[q] = rm[q]
      /\ rm'[r].at = "done" /\ rm'[r].sweep = rm[r].sweep /\ rm'[r].err = rm[r].err /\ rm[r].at = "lock"
  BY Parts, RemovalAtDoes DEF DropLock, Removal, RemovalSteps
<1>3. /\ \A q \in Refs \ {r} : shelf'[q] = shelf[q]
      /\ shelf'[r].doc = shelf[r].doc /\ shelf'[r].dir = shelf[r].dir /\ shelf'[r].claim = shelf[r].claim /\ shelf'[r].temp = shelf[r].temp
      /\ shelf'[r].lock = FALSE
 <2>1. shelf[r] \in ShelfEntries BY Parts DEF ShelfTyped
 <2>2. CASE Enters(r, [shelf[r] EXCEPT !.lock = FALSE])
  <3>1. FALSE \in BOOLEAN BY NothingThere
  <3>2. /\ [shelf[r] EXCEPT !.lock = FALSE] \in ShelfEntries /\ [shelf[r] EXCEPT !.lock = FALSE].lock = FALSE
        /\ [shelf[r] EXCEPT !.lock = FALSE].doc = shelf[r].doc /\ [shelf[r] EXCEPT !.lock = FALSE].dir = shelf[r].dir /\ [shelf[r] EXCEPT !.lock = FALSE].claim = shelf[r].claim /\ [shelf[r] EXCEPT !.lock = FALSE].temp = shelf[r].temp
    BY <2>1, <3>1, LockChanged
  <3>3. OthersStand(r) /\ shelf'[r] = [shelf[r] EXCEPT !.lock = FALSE]
    BY Parts, <2>2, <3>2, EntersDoes
  <3> QED BY Names, NothingThere, <3>2, <3>3 DEF OthersStand
 <2>3. CASE ~shelf[r].lock /\ shelf' = shelf BY <2>1, <2>3 DEF ShelfEntries
 <2> QED BY <2>2, <2>3 DEF DropLock, SameShelf
<1>4. Removing(r) => Removing(r)' BY <1>1, <1>2, <1>3 DEF Removing, HasDoc, Claimed
<1> QED BY Parts, <1>1, <1>2, <1>3, <1>4, RemovalSwept

\* A removal that fails has not cleaned up.
LEMMA RemovalFailsSwept ==
  ASSUME DraftsInv, SweptInv, NEW r \in Refs, RemovalFails(r)
  PROVE  SweptInv'
<1>1. rm[r].at # "idle" /\ pr' = pr /\ ad' = ad /\ ed' = ed BY DEF RemovalFails, Removal
<1>2. /\ \A q \in Refs \ {r} : rm'[q] = rm[q]
      /\ rm'[r].err /\ rm'[r].sweep = rm[r].sweep
      /\ rm'[r].at \in {"done", "lock", "dir"}
  BY Parts DEF RemovalFails, RunsTyped, RemovalRuns, RemovalSteps
<1>3. shelf' = shelf BY DEF RemovalFails, SameShelf
<1>4. Removing(r) => Removing(r)' BY <1>1, <1>2, <1>3 DEF Removing, HasDoc, Claimed
<1> QED BY Parts, <1>1, <1>2, <1>3, <1>4, RemovalSwept

\* A step of a prune.
LEMMA PruneSwept ==
  ASSUME SweptInv, ad' = ad, ed' = ed, pr'.quiet = pr.quiet, pr'.kind = pr.kind,
         pr'.result = "ok" \/ pr'.pc \in {"drafts", "sweep", "locks"} => pr.kind = "prune",
         pr'.pc = "orphans" => pr.kind = "dryrun",
         Alone' => Alone,
         Alone' /\ Alone /\ (\A q \in Refs : Cleaned(q)) => \A q \in Refs : Cleaned(q)'
  PROVE  SweptInv' BY DEF SweptInv

\* While a prune is alone, only it holds a lease.
LEMMA AloneHolds ==
  ASSUME DraftsInv, SweptInv, Alone, NEW r \in Refs, holder[r] # None
  PROVE  r = pr.ref
  BY Parts DEF SweptInv, Alone, ShelfLeases, RunsTyped, Holders, AdoptLeased, EditLeased

\* The steps of a prune.

LEMMA PruneStartSwept ==
  ASSUME DraftsInv, SweptInv, PruneStart
  PROVE  SweptInv'
<1>1. PICK kind \in {"prune", "dryrun"} :
        pr' = [pr EXCEPT !.pc = "look", !.kind = kind, !.seen = [r \in Refs |-> {}], !.todo = Refs,
                         !.runs = @ + 1, !.quiet = ({ad.pc, ed.pc} = {"done"}), !.result = None]
  BY DEF PruneStart
<1>2. pr.ref = None BY Names, Parts DEF PruneStart, Pruning, ShelfLeases, SweptInv
<1>3. ad' = ad /\ ed' = ed BY DEF PruneStart
<1>4. pr'.pc = "look" /\ pr'.todo = Refs /\ pr'.result = None /\ pr'.ref = None
  BY Parts, <1>1, <1>2 DEF RunsTyped, PruneRuns
<1>5. pr'.quiet <=> {ad.pc, ed.pc} = {"done"} BY Parts, <1>1 DEF RunsTyped, PruneRuns
<1>6. pr'.quiet => ad'.pc = "done" /\ ed'.pc = "done" BY <1>3, <1>5
<1>7. \A r \in Refs : Cleaned(r)' BY Names, <1>4 DEF Cleaned
<1> QED BY Names, <1>4, <1>6, <1>7 DEF SweptInv

\* The inventory notices what stands under a draft's names.
LEMMA PruneLookSwept ==
  ASSUME DraftsInv, SweptInv, NEW r \in Refs, PruneLook(r)
  PROVE  SweptInv'
<1>1. pr' = [pr EXCEPT !.seen[r] = Classified(r), !.todo = @ \ {r}] BY DEF PruneLook
<1>2. /\ pr.pc = "look" /\ ad' = ad /\ ed' = ed /\ shelf' = shelf /\ rm' = rm BY DEF PruneLook, Pruning, Beside
<1>3. /\ pr'.quiet = pr.quiet /\ pr'.kind = pr.kind /\ pr'.result = pr.result /\ pr'.pc = pr.pc /\ pr'.ref = pr.ref
      /\ pr'.todo = pr.todo \ {r} /\ pr'.seen[r] = Classified(r) /\ \A q \in Refs \ {r} : pr'.seen[q] = pr.seen[q]
  BY Parts, <1>1 DEF RunsTyped, PruneRuns
<1>4. pr.ref = None BY Names, Parts, <1>2 DEF ShelfLeases
<1>5. Noticed(r)' BY <1>2, <1>3 DEF Noticed, Classified, HasDoc, Claimed
<1>6. ASSUME NEW q \in Refs, Cleaned(q) PROVE Cleaned(q)'
 <2>1. CASE q = r BY Names, <1>2, <1>3, <1>4, <1>5, <2>1 DEF Cleaned
 <2>2. CASE q # r BY Names, <1>2, <1>3, <1>4, <1>6, <2>2 DEF Cleaned, Noticed, HasDoc, Claimed
 <2> QED BY <2>1, <2>2
<1>7. Alone' => Alone BY <1>3 DEF Alone
<1>8. pr'.result = "ok" \/ pr'.pc \in {"drafts", "sweep", "locks"} => pr.kind = "prune" BY <1>2, <1>3 DEF SweptInv
<1> QED BY <1>2, <1>3, <1>6, <1>7, <1>8, PruneSwept

\* A changed directory ends a prune with a failure.
LEMMA PruneVerifySwept ==
  ASSUME DraftsInv, SweptInv, PruneVerify
  PROVE  SweptInv'
<1>1. /\ pr.pc = "look" /\ pr.todo = {} /\ pr.kind = "prune" /\ ad' = ad /\ ed' = ed /\ shelf' = shelf /\ rm' = rm
  BY DEF PruneVerify, Pruning, Beside
<1>2. pr.ref = None BY Names, Parts, <1>1 DEF ShelfLeases
<1>3. CASE pr' = [pr EXCEPT !.pc = "drafts", !.todo = Seen("candidate"), !.ref = None]
 <2>1. /\ pr'.quiet = pr.quiet /\ pr'.kind = pr.kind /\ pr'.result = pr.result /\ pr'.pc = "drafts" /\ pr'.ref = None
       /\ pr'.seen = pr.seen BY Parts, <1>3 DEF RunsTyped, PruneRuns
 <2>2. ASSUME NEW q \in Refs, Cleaned(q) PROVE Cleaned(q)'
   BY Names, <1>1, <1>2, <2>1, <2>2 DEF Cleaned, Noticed, HasDoc, Claimed
 <2>3. Alone' => Alone BY <2>1 DEF Alone
 <2> QED BY <1>1, <2>1, <2>2, <2>3, PruneSwept
<1>4. CASE pr' = [[pr EXCEPT !.pc = "done", !.todo = {}, !.ref = None] EXCEPT !.result = "failed"]
 <2>1. /\ pr'.quiet = pr.quiet /\ pr'.kind = pr.kind /\ pr'.result = "failed" /\ pr'.pc \in {pr.pc, "done"}
   BY Parts, <1>4 DEF RunsTyped, PruneRuns
 <2>3. ~Alone' BY Names, <2>1 DEF Alone
 <2> QED BY <1>1, <2>1, <2>3, PruneSwept
<1> QED BY <1>3, <1>4 DEF PruneVerify, PruneTo, PruneFailed

\* A dry run cleans nothing.
LEMMA DryOrphansSwept ==
  ASSUME DraftsInv, SweptInv, DryOrphans
  PROVE  SweptInv'
<1>1. ad' = ad /\ ed' = ed /\ pr.pc \in {"look", "orphans"} BY DEF DryOrphans, DryEnds, Pruning
<1>2. pr'.quiet = pr.quiet /\ pr'.kind = pr.kind /\ pr'.pc \in {"look", "orphans", "done"}
      /\ pr'.result \in {pr.result, "stable", "unstable"}
  BY Parts, <1>1 DEF DryOrphans, DryEnds, Pruning, PruneTo, RunsTyped, PruneRuns
<1>3. pr.kind = "dryrun" BY Parts DEF DryOrphans, DryEnds, Pruning, SweptInv
<1>4. ~Alone' BY <1>2, <1>3 DEF Alone
<1> QED BY <1>1, <1>2, <1>3, <1>4, PruneSwept DEF SweptInv

\* Nor does its list of leftovers.
LEMMA DryOrphanSwept ==
  ASSUME DraftsInv, SweptInv, NEW r \in Refs, DryOrphan(r)
  PROVE  SweptInv'
<1>1. ad' = ad /\ ed' = ed /\ pr.pc \in {"look", "orphans"} BY DEF DryOrphan, DryEnds, Pruning
<1>2. pr'.quiet = pr.quiet /\ pr'.kind = pr.kind /\ pr'.pc \in {"look", "orphans", "done"}
      /\ pr'.result \in {pr.result, "stable", "unstable"}
  BY Parts, <1>1 DEF DryOrphan, DryEnds, Pruning, PruneTo, RunsTyped, PruneRuns
<1>3. pr.kind = "dryrun" BY Parts DEF DryOrphan, DryEnds, Pruning, SweptInv
<1>4. ~Alone' BY <1>2, <1>3 DEF Alone
<1> QED BY <1>1, <1>2, <1>3, <1>4, PruneSwept DEF SweptInv

\* Nor does its end.
LEMMA DryDoneSwept ==
  ASSUME DraftsInv, SweptInv, DryDone
  PROVE  SweptInv'
<1>1. ad' = ad /\ ed' = ed /\ pr.pc \in {"look", "orphans"} BY DEF DryDone, DryEnds, Pruning
<1>2. pr'.quiet = pr.quiet /\ pr'.kind = pr.kind /\ pr'.pc \in {"look", "orphans", "done"}
      /\ pr'.result \in {pr.result, "stable", "unstable"}
  BY Parts, <1>1 DEF DryDone, DryEnds, Pruning, PruneTo, RunsTyped, PruneRuns
<1>3. pr.kind = "dryrun" BY Parts DEF DryDone, DryEnds, Pruning, SweptInv
<1>4. ~Alone' BY <1>2, <1>3 DEF Alone
<1> QED BY <1>1, <1>2, <1>3, <1>4, PruneSwept DEF SweptInv

\* A prune takes the lease of a candidate.
LEMMA PruneLeaseSwept ==
  ASSUME DraftsInv, SweptInv, NEW r \in Refs, PruneLease(r)
  PROVE  SweptInv'
<1>1. /\ pr.pc = "drafts" /\ pr.ref = None /\ r \in pr.todo /\ ad' = ad /\ ed' = ed /\ rm' = rm
  BY DEF PruneLease, Pruning, Turn
<1>2. CASE Leases("prune", r) /\ pr' = [pr EXCEPT !.ref = r]
 <2>1. /\ pr'.quiet = pr.quiet /\ pr'.kind = pr.kind /\ pr'.result = pr.result /\ pr'.pc = pr.pc /\ pr'.ref = r
       /\ pr'.todo = pr.todo /\ pr'.seen = pr.seen BY Parts, <1>2 DEF RunsTyped, PruneRuns
 <2>2. "prune" \in Holders BY DEF Holders
 <2>3. /\ holder[r] = None /\ \A q \in Refs \ {r} : shelf'[q] = shelf[q]
       /\ SameDraft(shelf'[r], shelf[r]) /\ shelf'[r].temp = shelf[r].temp
   BY Parts, <1>2, <2>2, LeasesDoes DEF OthersStand
 <2>4. rm[r].at = "idle" BY Names, Parts, <2>3 DEF ShelfLeases
 <2>5. ASSUME NEW q \in Refs, Cleaned(q) PROVE Cleaned(q)'
  <3>1. CASE q = r BY Names, <1>1, <2>1, <2>3, <2>4, <2>5, <3>1 DEF Cleaned, Noticed, SweptOf, Removing, HasDoc, Claimed, SameDraft
  <3>2. CASE q # r BY Names, <1>1, <2>1, <2>3, <2>5, <3>2 DEF Cleaned, Noticed, SweptOf, Removing, HasDoc, Claimed
  <3> QED BY <3>1, <3>2
 <2>6. Alone' => Alone BY <2>1 DEF Alone
 <2>7. pr'.result = "ok" \/ pr'.pc \in {"drafts", "sweep", "locks"} => pr.kind = "prune" BY <1>1, <2>1 DEF SweptInv
 <2> QED BY <1>1, <2>1, <2>5, <2>6, <2>7, PruneSwept
<1>3. CASE pr' = [[pr EXCEPT !.todo = @ \ {r}] EXCEPT !.result = "failed"]
 <2>1. /\ pr'.quiet = pr.quiet /\ pr'.kind = pr.kind /\ pr'.result = "failed" /\ pr'.pc \in {pr.pc, "done"}
   BY Parts, <1>3 DEF RunsTyped, PruneRuns
 <2>3. ~Alone' BY Names, <2>1 DEF Alone
 <2>4. pr.kind = "prune" BY <1>1 DEF SweptInv
 <2> QED BY <1>1, <2>1, <2>3, <2>4, PruneSwept
<1> QED BY <1>2, <1>3 DEF PruneLease, PruneFailed

\* A sweep takes the lease of a leftover; alone it finds none in use.
LEMMA SweepLeaseSwept ==
  ASSUME DraftsInv, SweptInv, NEW r \in Refs, SweepLease(r)
  PROVE  SweptInv'
<1>1. /\ pr.pc = "sweep" /\ pr.ref = None /\ r \in pr.todo /\ ad' = ad /\ ed' = ed /\ rm' = rm
  BY DEF SweepLease, Pruning, Turn
<1>2. CASE Leases("prune", r) /\ pr' = [pr EXCEPT !.ref = r]
 <2>1. /\ pr'.quiet = pr.quiet /\ pr'.kind = pr.kind /\ pr'.result = pr.result /\ pr'.pc = pr.pc /\ pr'.ref = r
       /\ pr'.todo = pr.todo /\ pr'.seen = pr.seen BY Parts, <1>2 DEF RunsTyped, PruneRuns
 <2>2. "prune" \in Holders BY DEF Holders
 <2>3. /\ holder[r] = None /\ \A q \in Refs \ {r} : shelf'[q] = shelf[q]
       /\ SameDraft(shelf'[r], shelf[r]) /\ shelf'[r].temp = shelf[r].temp
   BY Parts, <1>2, <2>2, LeasesDoes DEF OthersStand
 <2>4. rm[r].at = "idle" BY Names, Parts, <2>3 DEF ShelfLeases
 <2>5. ASSUME NEW q \in Refs, Cleaned(q) PROVE Cleaned(q)'
  <3>1. CASE q = r BY Names, <1>1, <2>1, <2>3, <2>4, <2>5, <3>1 DEF Cleaned, Noticed, SweptOf, Removing, HasDoc, Claimed, SameDraft
  <3>2. CASE q # r BY Names, <1>1, <2>1, <2>3, <2>5, <3>2 DEF Cleaned, Noticed, SweptOf, Removing, HasDoc, Claimed
  <3> QED BY <3>1, <3>2
 <2>6. Alone' => Alone BY <2>1 DEF Alone
 <2>7. pr'.result = "ok" \/ pr'.pc \in {"drafts", "sweep", "locks"} => pr.kind = "prune" BY <1>1, <2>1 DEF SweptInv
 <2> QED BY <1>1, <2>1, <2>5, <2>6, <2>7, PruneSwept
<1>3. CASE /\ pr' = [pr EXCEPT !.todo = @ \ {r}] /\ shelf' = shelf
           /\ ~ShouldSweep(r) \/ holder[r] # None
 <2>1. /\ pr'.quiet = pr.quiet /\ pr'.kind = pr.kind /\ pr'.result = pr.result /\ pr'.pc = pr.pc /\ pr'.ref = None
       /\ pr'.todo = pr.todo \ {r} /\ pr'.seen = pr.seen
   BY Parts, <1>1, <1>3 DEF RunsTyped, PruneRuns
 <2>2. Alone => ~ShouldSweep(r) BY Names, <1>1, <1>3, AloneHolds
 <2>5. ASSUME Alone, NEW q \in Refs, Cleaned(q) PROVE Cleaned(q)'
  <3>1. CASE q = r BY Names, <1>1, <1>3, <2>1, <2>2, <2>5, <3>1 DEF Cleaned, Noticed, SweptOf, HasDoc, Claimed, ShouldSweep
  <3>2. CASE q # r BY Names, <1>1, <1>3, <2>1, <2>5, <3>2 DEF Cleaned, Noticed, SweptOf, HasDoc, Claimed
  <3> QED BY <3>1, <3>2
 <2>6. Alone' => Alone BY <2>1 DEF Alone
 <2>7. pr'.result = "ok" \/ pr'.pc \in {"drafts", "sweep", "locks"} => pr.kind = "prune" BY <1>1, <2>1 DEF SweptInv
 <2> QED BY <1>1, <2>1, <2>5, <2>6, <2>7, PruneSwept
<1> QED BY <1>2, <1>3 DEF SweepLease, InUse, SameShelf

\* A candidate is read again under its lease.
LEMMA PruneReadSwept ==
  ASSUME DraftsInv, SweptInv, PruneRead
  PROVE  SweptInv'
<1>1. /\ pr.pc = "drafts" /\ pr.ref # None /\ ad' = ad /\ ed' = ed /\ shelf' = shelf
  BY DEF PruneRead, Pruning, SameShelf
<1>2. pr.kind = "prune" BY <1>1 DEF SweptInv
<1>3. CASE pr' = pr /\ \A q \in Refs : rm'[q] = rm[q] \/ rm'[q].at # "done"
 <2>1. ASSUME NEW q \in Refs, Cleaned(q) PROVE Cleaned(q)'
   BY <1>1, <1>3, <2>1 DEF Cleaned, Noticed, SweptOf, Removing, HasDoc, Claimed
 <2>2. Alone' => Alone BY <1>3 DEF Alone
 <2> QED BY <1>1, <1>2, <1>3, <2>1, <2>2, PruneSwept
<1>4. CASE pr' = [[pr EXCEPT !.ref = None, !.todo = @ \ {pr.ref}] EXCEPT !.result = "failed"]
 <2>1. /\ pr'.quiet = pr.quiet /\ pr'.kind = pr.kind /\ pr'.result = "failed" /\ pr'.pc \in {pr.pc, "done"}
   BY Parts, <1>4 DEF RunsTyped, PruneRuns
 <2>3. ~Alone' BY Names, <2>1 DEF Alone
 <2> QED BY <1>1, <1>2, <2>1, <2>3, PruneSwept
<1>5. ASSUME Removes(pr.ref, FALSE) PROVE \A q \in Refs : rm'[q] = rm[q] \/ rm'[q].at # "done"
  BY Parts, <1>1, <1>5, RemovesDoes
<1>6. ASSUME rm' = [rm EXCEPT ![pr.ref].at = "lock"] PROVE \A q \in Refs : rm'[q] = rm[q] \/ rm'[q].at # "done"
 <2>1. RemovalAt(pr.ref, "lock") /\ pr.ref \in Refs BY Parts, <1>1, <1>6 DEF RemovalAt
 <2> QED BY Parts, <2>1, RemovalAtDoes DEF RemovalSteps
<1> QED BY <1>3, <1>4, <1>5, <1>6 DEF PruneRead, PruneFailed

\* A prune goes on after a candidate.
LEMMA PruneNextSwept ==
  ASSUME DraftsInv, SweptInv, PruneNext
  PROVE  SweptInv'
<1>1. /\ pr.pc = "drafts" /\ ad' = ad /\ ed' = ed /\ shelf' = shelf
  BY DEF PruneNext, SameShelf
<1>2. pr.kind = "prune" BY <1>1 DEF SweptInv
<1>3. CASE /\ pr.ref # None /\ rm[pr.ref].at = "done"
           /\ pr' = [pr EXCEPT !.ref = None, !.todo = @ \ {pr.ref}, !.result = IF rm[pr.ref].err THEN "failed" ELSE @]
 <2>1. /\ pr'.quiet = pr.quiet /\ pr'.kind = pr.kind /\ pr'.pc = pr.pc /\ pr'.ref = None
       /\ pr'.todo = pr.todo \ {pr.ref} /\ pr'.seen = pr.seen
       /\ pr'.result = IF rm[pr.ref].err THEN "failed" ELSE pr.result
   BY Parts, <1>3 DEF RunsTyped, PruneRuns
 <2>2. Alone' => Alone /\ ~rm[pr.ref].err BY Names, <2>1 DEF Alone
 <2>3. ASSUME ~rm[pr.ref].err, NEW q \in Refs, Cleaned(q) PROVE Cleaned(q)'
  <3>1. CASE q = pr.ref BY Names, <1>1, <1>3, <2>1, <2>3, <3>1 DEF Cleaned, Noticed, SweptOf, Removing, HasDoc, Claimed
  <3>2. CASE q # pr.ref BY Names, <1>1, <1>3, <2>1, <2>3, <3>2 DEF Cleaned, Noticed, SweptOf, HasDoc, Claimed
  <3> QED BY <3>1, <3>2
 <2>4. Alone' /\ (\A q \in Refs : Cleaned(q)) => \A q \in Refs : Cleaned(q)' BY <2>2, <2>3
 <2> QED BY <1>1, <1>2, <2>1, <2>2, <2>4, PruneSwept
<1>4. CASE pr.ref = None /\ pr.todo = {} /\ pr' = [pr EXCEPT !.pc = "sweep", !.todo = Refs, !.ref = None]
 <2>1. /\ pr'.quiet = pr.quiet /\ pr'.kind = pr.kind /\ pr'.result = pr.result /\ pr'.pc = "sweep" /\ pr'.ref = None
       /\ pr'.seen = pr.seen /\ pr'.todo = Refs BY Parts, <1>4 DEF RunsTyped, PruneRuns
 <2>2. ASSUME NEW q \in Refs, Cleaned(q) PROVE Cleaned(q)'
   BY Names, <1>1, <1>4, <2>1, <2>2 DEF Cleaned, Noticed, SweptOf, HasDoc, Claimed, Seen
 <2>3. Alone' => Alone BY <2>1 DEF Alone
 <2> QED BY <1>1, <1>2, <2>1, <2>2, <2>3, PruneSwept
<1> QED BY <1>3, <1>4 DEF PruneNext, PruneTo, Removed

\* A sweep goes on after a leftover.
LEMMA SweepNextSwept ==
  ASSUME DraftsInv, SweptInv, SweepNext
  PROVE  SweptInv'
<1>1. /\ pr.pc = "sweep" /\ ad' = ad /\ ed' = ed /\ shelf' = shelf BY DEF SweepNext, SameShelf
<1>2. pr.kind = "prune" BY <1>1 DEF SweptInv
<1>3. CASE /\ pr.ref # None /\ rm[pr.ref].at = "done"
           /\ pr' = [pr EXCEPT !.ref = None, !.todo = @ \ {pr.ref}, !.result = IF rm[pr.ref].err THEN "failed" ELSE @]
 <2>1. /\ pr'.quiet = pr.quiet /\ pr'.kind = pr.kind /\ pr'.pc = pr.pc /\ pr'.ref = None
       /\ pr'.todo = pr.todo \ {pr.ref} /\ pr'.seen = pr.seen
       /\ pr'.result = IF rm[pr.ref].err THEN "failed" ELSE pr.result
   BY Parts, <1>3 DEF RunsTyped, PruneRuns
 <2>2. Alone' => Alone /\ ~rm[pr.ref].err BY Names, <2>1 DEF Alone
 <2>3. ASSUME ~rm[pr.ref].err, NEW q \in Refs, Cleaned(q) PROVE Cleaned(q)'
  <3>1. CASE q = pr.ref BY Names, <1>1, <1>3, <2>1, <2>3, <3>1 DEF Cleaned, Noticed, SweptOf, Removing, HasDoc, Claimed
  <3>2. CASE q # pr.ref BY Names, <1>1, <1>3, <2>1, <2>3, <3>2 DEF Cleaned, Noticed, SweptOf, HasDoc, Claimed
  <3> QED BY <3>1, <3>2
 <2>4. Alone' /\ (\A q \in Refs : Cleaned(q)) => \A q \in Refs : Cleaned(q)' BY <2>2, <2>3
 <2> QED BY <1>1, <1>2, <2>1, <2>2, <2>4, PruneSwept
<1>4. CASE pr.ref = None /\ pr.todo = {} /\ pr' = [pr EXCEPT !.pc = "locks", !.todo = Seen("lock"), !.ref = None]
 <2>1. /\ pr'.quiet = pr.quiet /\ pr'.kind = pr.kind /\ pr'.result = pr.result /\ pr'.pc = "locks" /\ pr'.ref = None
       /\ pr'.seen = pr.seen /\ pr'.todo = Seen("lock")
   BY Parts, <1>4 DEF RunsTyped, PruneRuns
 <2>2. ASSUME NEW q \in Refs, Cleaned(q) PROVE Cleaned(q)'
   BY Names, <1>1, <1>4, <2>1, <2>2 DEF Cleaned, Noticed, SweptOf, HasDoc, Claimed, Seen
 <2>3. Alone' => Alone BY <2>1 DEF Alone
 <2> QED BY <1>1, <1>2, <2>1, <2>2, <2>3, PruneSwept
<1> QED BY <1>3, <1>4 DEF SweepNext, PruneTo, Removed

\* A sweep removes what the inventory saw.
LEMMA SweepSwept ==
  ASSUME DraftsInv, SweptInv, Sweep
  PROVE  SweptInv'
<1>1. /\ pr.pc = "sweep" /\ pr.ref # None /\ ad' = ad /\ ed' = ed /\ rm[pr.ref].at = "idle" BY DEF Sweep, Pruning
<1>2. pr.kind = "prune" BY <1>1 DEF SweptInv
<1>3. /\ \A q \in Refs \ {pr.ref} : shelf'[q] = shelf[q]
      /\ SameDraft(shelf'[pr.ref], shelf[pr.ref]) /\ shelf'[pr.ref].lock = shelf[pr.ref].lock
      /\ "temp" \in pr.seen[pr.ref] /\ shelf[pr.ref].temp = "old" => shelf'[pr.ref].temp = None
 <2>1. CASE "temp" \in pr.seen[pr.ref] /\ shelf[pr.ref].temp = "old"
   BY Parts, <1>1, <2>1, TempDoes DEF Sweep, SweepTemp, OthersStand
 <2>2. CASE ~("temp" \in pr.seen[pr.ref] /\ shelf[pr.ref].temp = "old")
   BY <2>2 DEF Sweep, SweepTemp, SameShelf, SameDraft
 <2> QED BY <2>1, <2>2
<1>4. CASE pr' = [[pr EXCEPT !.ref = None, !.todo = @ \ {pr.ref}] EXCEPT !.result = "failed"]
 <2>1. /\ pr'.quiet = pr.quiet /\ pr'.kind = pr.kind /\ pr'.result = "failed" /\ pr'.pc \in {pr.pc, "done"}
   BY Parts, <1>4 DEF RunsTyped, PruneRuns
 <2>3. ~Alone' BY Names, <2>1 DEF Alone
 <2> QED BY <1>1, <1>2, <2>1, <2>3, PruneSwept
<1>5. CASE /\ HasDoc(pr.ref) /\ pr' = [pr EXCEPT !.ref = None, !.todo = @ \ {pr.ref}]
           /\ ~("temp" \in pr.seen[pr.ref] /\ shelf[pr.ref].temp # "old")
 <2>1. /\ pr'.quiet = pr.quiet /\ pr'.kind = pr.kind /\ pr'.result = pr.result /\ pr'.pc = pr.pc /\ pr'.ref = None
       /\ pr'.todo = pr.todo \ {pr.ref} /\ pr'.seen = pr.seen
   BY Parts, <1>5 DEF RunsTyped, PruneRuns
 <2>2. ASSUME NEW q \in Refs, Cleaned(q) PROVE Cleaned(q)'
  <3>1. CASE q = pr.ref BY Names, <1>1, <1>3, <1>5, <2>1, <2>2, <3>1 DEF Cleaned, Noticed, SweptOf, HasDoc, Claimed, SameDraft
  <3>2. CASE q # pr.ref BY Names, <1>1, <1>3, <2>1, <2>2, <3>2 DEF Cleaned, Noticed, SweptOf, HasDoc, Claimed
  <3> QED BY <3>1, <3>2
 <2>3. Alone' => Alone BY <2>1 DEF Alone
 <2> QED BY <1>1, <1>2, <2>1, <2>2, <2>3, PruneSwept
<1>6. CASE /\ ~HasDoc(pr.ref) /\ Removes(pr.ref, TRUE) /\ pr' = pr
           /\ ~("temp" \in pr.seen[pr.ref] /\ shelf[pr.ref].temp # "old")
 <2>1. /\ \A q \in Refs \ {pr.ref} : rm'[q] = rm[q]
       /\ rm'[pr.ref].at = "claims" /\ rm'[pr.ref].sweep BY Parts, <1>1, <1>6, RemovesDoes
 <2>2. ASSUME NEW q \in Refs, Cleaned(q) PROVE Cleaned(q)'
  <3>1. CASE q = pr.ref
    BY Names, <1>1, <1>3, <1>6, <2>1, <2>2, <3>1 DEF Cleaned, Noticed, SweptOf, Removing, HasDoc, Claimed, SameDraft
  <3>2. CASE q # pr.ref BY Names, <1>1, <1>3, <1>6, <2>1, <2>2, <3>2 DEF Cleaned, Noticed, SweptOf, HasDoc, Claimed
  <3> QED BY <3>1, <3>2
 <2>3. Alone' => Alone BY <1>6 DEF Alone
 <2>4. pr'.quiet = pr.quiet /\ pr'.kind = pr.kind /\ pr'.pc = pr.pc BY <1>6
 <2> QED BY <1>1, <1>2, <2>2, <2>3, <2>4, PruneSwept
<1> QED BY <1>4, <1>5, <1>6 DEF Sweep, PruneFailed

\* A lock without a document goes; alone a prune finds none held.
LEMMA SweepLockSwept ==
  ASSUME DraftsInv, SweptInv, NEW r \in Refs, SweepLock(r)
  PROVE  SweptInv'
<1>1. /\ pr.pc = "locks" /\ ad' = ad /\ ed' = ed /\ rm' = rm /\ pr' = [pr EXCEPT !.todo = @ \ {r}]
  BY DEF SweepLock, Pruning
<1>2. pr.kind = "prune" /\ pr.ref = None BY Names, Parts, <1>1 DEF SweptInv, ShelfLeases
<1>3. /\ \A q \in Refs \ {r} : shelf'[q] = shelf[q]
      /\ SameDraft(shelf'[r], shelf[r]) /\ shelf'[r].temp = shelf[r].temp
      /\ holder[r] = None /\ ~HasDoc(r) => ~shelf'[r].lock
 <2>1. shelf[r] \in ShelfEntries /\ FALSE \in BOOLEAN BY Parts DEF ShelfTyped
 <2>2. CASE Enters(r, [shelf[r] EXCEPT !.lock = FALSE])
  <3>2. /\ [shelf[r] EXCEPT !.lock = FALSE] \in ShelfEntries /\ ~[shelf[r] EXCEPT !.lock = FALSE].lock
        /\ [shelf[r] EXCEPT !.lock = FALSE].temp = shelf[r].temp
        /\ SameDraft([shelf[r] EXCEPT !.lock = FALSE], shelf[r])
    BY <2>1, LockChanged DEF SameDraft
  <3>3. OthersStand(r) /\ shelf'[r] = [shelf[r] EXCEPT !.lock = FALSE]
    BY Parts, <2>2, <3>2, EntersDoes
  <3> QED BY <3>2, <3>3 DEF OthersStand
 <2>3. CASE shelf' = shelf /\ ~(~HasDoc(r) /\ shelf[r].lock /\ holder[r] = None)
   BY <2>1, <2>3 DEF SameDraft, ShelfEntries
 <2> QED BY <2>2, <2>3 DEF SweepLock, SameShelf
<1>4. Alone => holder[r] = None BY Names, <1>2, AloneHolds
<1>5. /\ pr'.quiet = pr.quiet /\ pr'.kind = pr.kind /\ pr'.result = pr.result /\ pr'.pc = pr.pc /\ pr'.ref = None
      /\ pr'.todo = pr.todo \ {r} /\ pr'.seen = pr.seen
  BY Parts, <1>1, <1>2 DEF RunsTyped, PruneRuns
<1>6. ASSUME Alone, NEW q \in Refs, Cleaned(q) PROVE Cleaned(q)'
 <2>1. CASE q = r BY Names, <1>1, <1>2, <1>3, <1>4, <1>5, <1>6, <2>1 DEF Cleaned, SweptOf, HasDoc, Claimed, SameDraft
 <2>2. CASE q # r BY Names, <1>1, <1>2, <1>3, <1>5, <1>6, <2>2 DEF Cleaned, SweptOf, HasDoc, Claimed
 <2> QED BY <2>1, <2>2
<1>7. Alone' => Alone BY <1>5 DEF Alone
<1> QED BY <1>1, <1>2, <1>5, <1>6, <1>7, PruneSwept

\* A prune reports success if no call of it failed.
LEMMA PruneDoneSwept ==
  ASSUME DraftsInv, SweptInv, PruneDone
  PROVE  SweptInv'
<1>1. /\ pr.pc = "locks" /\ pr.todo = {} /\ ad' = ad /\ ed' = ed /\ shelf' = shelf
  BY DEF PruneDone, Pruning, Beside
<1>2. pr.kind = "prune" /\ pr.ref = None BY Names, Parts, <1>1 DEF SweptInv, ShelfLeases
<1>3. pr' = [[pr EXCEPT !.pc = "done", !.todo = {}, !.ref = None] EXCEPT !.result = IF pr.result = None THEN "ok" ELSE pr.result]
 <2>1. [pr EXCEPT !.pc = "done", !.todo = {}, !.ref = None].result = pr.result BY Parts DEF RunsTyped, PruneRuns
 <2> QED BY <2>1 DEF PruneDone, PruneTo
<1>4. /\ pr'.quiet = pr.quiet /\ pr'.kind = pr.kind /\ pr'.pc = "done" /\ pr'.ref = None /\ pr'.todo = {} /\ pr'.seen = pr.seen
      /\ pr'.result = IF pr.result = None THEN "ok" ELSE pr.result
  BY Parts, <1>3 DEF RunsTyped, PruneRuns
<1>5. ASSUME NEW q \in Refs, Cleaned(q) PROVE Cleaned(q)'
  BY Names, <1>1, <1>2, <1>4, <1>5 DEF Cleaned, SweptOf, HasDoc, Claimed
<1>6. Alone' => Alone BY <1>4 DEF Alone
<1> QED BY <1>1, <1>2, <1>4, <1>5, <1>6, PruneSwept

\* Time, a listing and failures.
LEMMA AgeSwept ==
  ASSUME DraftsInv, SweptInv, Age
  PROVE  SweptInv'
<1>1. /\ pr' = pr /\ ad' = ad /\ ed' = ed /\ rm' = rm
      /\ shelf' = [r \in Refs |-> [shelf[r] EXCEPT !.temp = IF shelf[r].temp = None THEN None ELSE "old"]]
  BY DEF Age
<1>2. ASSUME NEW r \in Refs
      PROVE  /\ shelf'[r].doc = shelf[r].doc /\ shelf'[r].dir = shelf[r].dir /\ shelf'[r].claim = shelf[r].claim
             /\ shelf'[r].lock = shelf[r].lock /\ (shelf[r].temp = None => shelf'[r].temp = None)
 <2> DEFINE t == IF shelf[r].temp = None THEN None ELSE "old"
 <2>1. shelf[r] \in ShelfEntries /\ t \in {None, "old", "young"} BY Parts DEF ShelfTyped
 <2>2. shelf'[r] = [shelf[r] EXCEPT !.temp = t] /\ (shelf[r].temp = None => t = None) BY <1>1
 <2> HIDE DEF t
 <2> QED BY <2>1, <2>2, TempChanged
<1> QED BY <1>1, <1>2, SweptStays

\* A listing changes nothing.
LEMMA ListSwept ==
  ASSUME SweptInv, ListStep
  PROVE  SweptInv'
<1>1. shelf' = shelf /\ rm' = rm /\ ad' = ad /\ ed' = ed /\ pr' = pr
  BY DEF ListStep, ListStart, ListContinue, ListSelect, ListRead, ListVerify, Listing, Aside
<1> QED BY <1>1, SweptStays

\* A prune that is stopped has not succeeded.
LEMMA StoppedSwept ==
  ASSUME DraftsInv, SweptInv, ad' = ad, ed' = ed,
         pr' = [[pr EXCEPT !.pc = "done", !.todo = {}, !.ref = None] EXCEPT !.result = "killed"]
  PROVE  SweptInv'
<1>1. /\ pr'.quiet = pr.quiet /\ pr'.kind = pr.kind /\ pr'.result = "killed" /\ pr'.pc = "done"
  BY Parts DEF RunsTyped, PruneRuns
<1>2. ~Alone' BY Names, <1>1 DEF Alone
<1> QED BY <1>1, <1>2, PruneSwept

\* A command is killed.
LEMMA KilledSwept ==
  ASSUME DraftsInv, SweptInv, Killed
  PROVE  SweptInv'
<1>1. CASE pr' = pr /\ (ad.pc # "done" \/ ed.pc # "done") BY <1>1, StillRuns
<1>2. CASE /\ ad' = ad /\ ed' = ed
           /\ pr' = [[pr EXCEPT !.pc = "done", !.todo = {}, !.ref = None] EXCEPT !.result = "killed"]
  BY <1>2, StoppedSwept
<1> QED BY <1>1, <1>2 DEF Killed, Stopped, PruneTo

\* The power fails.
LEMMA PowerFailsSwept ==
  ASSUME DraftsInv, SweptInv, PowerFails
  PROVE  SweptInv'
<1>1. CASE pr.pc \notin Stopped
 <2>1. pr' = [[pr EXCEPT !.pc = "done", !.todo = {}, !.ref = None] EXCEPT !.result = "killed"]
   BY <1>1 DEF PowerFails, PruneTo
 <2>2. pr'.quiet = pr.quiet /\ pr'.kind = pr.kind /\ pr'.result = "killed" /\ pr'.pc = "done"
   BY <2>1, Parts DEF RunsTyped, PruneRuns
 <2>3. pr.quiet => ad' = ad /\ ed' = ed BY DEF PowerFails, Stopped, SweptInv
 <2>4. ~Alone' BY Names, <2>2 DEF Alone
 <2> QED BY <2>2, <2>3, <2>4 DEF SweptInv
<1>2. CASE pr.pc \in Stopped
 <2>1. pr' = pr BY <1>2 DEF PowerFails
 <2>2. ad.pc \notin Stopped \/ ed.pc \notin Stopped BY <1>2 DEF PowerFails
 <2>3. ad.pc # "done" \/ ed.pc # "done" BY <2>2 DEF Stopped
 <2> QED BY <2>1, <2>3, StillRuns
<1> QED BY <1>1, <1>2

\* Every step keeps what a prune cleans up.
LEMMA SweptStep ==
  ASSUME DraftsInv, SweptInv, [ShelfNext]_shelfVars
  PROVE  SweptInv'
<1>1. CASE RemovalStep
  BY <1>1, RemoveDocSwept, SyncGoneSwept, DropClaimsSwept, DropFileSwept, DropDirSwept, DropLockSwept,
     RemovalFailsSwept DEF RemovalStep
<1>2. CASE AdoptStep \/ EditStep BY <1>2, AdoptSwept, EditSwept
<1>4. CASE PruneStep
  BY <1>4, PruneStartSwept, PruneVerifySwept, DryOrphansSwept, DryDoneSwept, PruneReadSwept, PruneNextSwept,
     SweepSwept, SweepNextSwept, PruneDoneSwept, PruneLookSwept, DryOrphanSwept, PruneLeaseSwept,
     SweepLeaseSwept, SweepLockSwept DEF PruneStep
<1>5. CASE ListStep BY <1>5, ListSwept
<1>6. CASE Age \/ Killed \/ PowerFails BY <1>6, AgeSwept, KilledSwept, PowerFailsSwept
<1>7. CASE UNCHANGED shelfVars BY <1>7, SweptStays DEF shelfVars
<1> QED BY <1>1, <1>2, <1>4, <1>5, <1>6, <1>7 DEF ShelfNext

(* A prune that began after all other commands and reports success leaves   *)
(* nothing of a draft that has no document: no attachments, claims, old     *)
(* temporary files or locks, whatever was stopped before it                 *)
(* (PruneDrafts, sweepOrphanDraftArtifacts, sweepOrphanDraftLocks).          *)
THEOREM LeftoversAlwaysSwept == ShelfSpec => []LeftoversSwept
<1>1. ShelfInit => SweptInv
 <2> SUFFICES ASSUME ShelfInit PROVE SweptInv OBVIOUS
 <2>1. pr.pc = "off" /\ ~pr.quiet /\ pr.result = None BY DEF ShelfInit
 <2> QED BY Names, <2>1 DEF SweptInv, Alone
<1>2. DraftsInv /\ SweptInv /\ [ShelfNext]_shelfVars => SweptInv' BY SweptStep
<1>3. SweptInv => LeftoversSwept
 <2> SUFFICES ASSUME SweptInv, pr.pc = "done", pr.result = "ok", pr.quiet, NEW r \in Refs, ~HasDoc(r)
              PROVE  /\ ~shelf[r].dir /\ ~Claimed(r) /\ ~shelf[r].lock
                     /\ "temp" \in pr.seen[r] => shelf[r].temp = None BY DEF LeftoversSwept
 <2>1. Alone BY DEF SweptInv, Alone
 <2>2. Cleaned(r) BY <2>1 DEF SweptInv
 <2> QED BY <2>2 DEF Cleaned, SweptOf
<1> QED BY <1>1, <1>2, <1>3, DraftsInvariant, PTL DEF ShelfSpec

----------------------------------------------------------------------------
(* What reports, dry runs and listings show. *)

\* A set of references that is not empty has a least one.
LEMMA LeastRef ==
  ASSUME NEW S \in SUBSET Refs, S # {}
  PROVE  \E r \in S : \A q \in S : r <= q
<1> DEFINE Lower(r) == {q \in S : q < r}
<1> DEFINE Lowers == {Lower(r) : r \in S}
<1>1. S \subseteq Nat /\ IsFiniteSet(S) BY ShelfAssumption, FS_Subset
<1>2. \A r \in S : Lower(r) \subseteq S /\ IsFiniteSet(Lower(r)) BY <1>1, FS_Subset
<1>3. Lowers \subseteq FiniteSubsetsOf(S) /\ Lowers # {} BY <1>2 DEF FiniteSubsetsOf
<1>4. PICK L \in Lowers : \A M \in Lowers : <<M, L>> \notin StrictSubsetOrdering(S)
  BY <1>3, FS_StrictSubsetOrderingWellFounded, WFMin, Zenon
<1>5. PICK r \in S : L = Lower(r) BY <1>4
<1>6. ASSUME NEW q \in S, q < r PROVE FALSE
 <2>1. Lower(q) \subseteq Lower(r) /\ q \in Lower(r) /\ q \notin Lower(q)
  <3>1. q \in Nat /\ r \in Nat BY <1>1
  <3>2. ASSUME NEW y \in S, y < q PROVE y < r
   <4>1. y \in Nat BY <1>1
   <4> QED BY <1>6, <3>1, <3>2, <4>1
  <3>3. ~(q < q) BY <3>1
  <3> HIDE DEF Lowers
  <3> QED BY <1>6, <3>2, <3>3
 <2>2. <<Lower(q), Lower(r)>> \in StrictSubsetOrdering(S)
   BY <1>2, <2>1 DEF StrictSubsetOrdering
 <2> QED BY <1>4, <1>5, <2>2
<1> QED BY <1>1, <1>6

\* No two references of a set have the same rank in it.
LEMMA OneOfRank ==
  ASSUME NEW S \in SUBSET Refs, NEW n, NEW r \in Ranked(S, n), NEW q \in Ranked(S, n)
  PROVE  r = q
<1> DEFINE Lower(x) == {y \in S : y < x}
<1>1. S \subseteq Nat /\ IsFiniteSet(S) BY ShelfAssumption, FS_Subset
<1>2. r \in S /\ q \in S /\ Cardinality(Lower(r)) = n /\ Cardinality(Lower(q)) = n BY DEF Ranked
<1>3. \A x \in S : IsFiniteSet(Lower(x)) BY <1>1, FS_Subset
<1>4. ASSUME NEW x \in S, NEW y \in S, x < y, Cardinality(Lower(x)) = Cardinality(Lower(y)) PROVE FALSE
 <2>1. Lower(x) \in SUBSET Lower(y) /\ x \in Lower(y) /\ x \notin Lower(x)
  <3>1. x \in Nat /\ y \in Nat BY <1>1
  <3>2. ASSUME NEW z \in S, z < x PROVE z < y
   <4>1. z \in Nat BY <1>1
   <4> QED BY <1>4, <3>1, <3>2, <4>1
  <3>3. ~(x < x) BY <3>1
  <3> QED BY <1>4, <3>2, <3>3
 <2>2. Lower(x) = Lower(y) BY <1>3, <1>4, <2>1, FS_Subset
 <2> QED BY <2>1, <2>2
<1>5. ~(r < q) /\ ~(q < r)
 <2> HIDE DEF Lower
 <2> QED BY <1>2, <1>4
<1> QED BY <1>1, <1>2, <1>5

\* A draft's place in the order of all, and the drafts up to a reference.
Place(r) == Cardinality({q \in Drafts : q < r}) + 1
Upto(a) == {r \in Drafts : r <= a}

\* A function from 1..n is a sequence of length n.
LEMMA AList ==
  ASSUME NEW S, NEW n \in Nat, NEW f \in [1..n -> S]
  PROVE  f \in Seq(S) /\ Len(f) = n
OBVIOUS

\* The first draft after a reference a is the least of them, and in the order
\* of all drafts it comes after as many as there are up to a.
LEMMA NextDraft ==
  ASSUME NEW a \in Nat, After(a) # {}, NEW h, h = Ordered(After(a))[1]
  PROVE  /\ h \in After(a) /\ h \in Refs /\ h \in Nat
         /\ After(h) = After(a) \ {h} /\ Upto(h) = Upto(a) \cup {h} /\ h \notin Upto(a)
         /\ Cardinality(Upto(a)) + 1 \in 1..Cardinality(Drafts) /\ Place(h) = Cardinality(Upto(a)) + 1
<1> DEFINE A == After(a)
<1>1. /\ A \in SUBSET Refs /\ Drafts \in SUBSET Refs /\ Refs \subseteq Nat
      /\ IsFiniteSet(A) /\ IsFiniteSet(Drafts) /\ Upto(a) \in SUBSET Drafts /\ A \in SUBSET Drafts
      /\ IsFiniteSet(Upto(a))
 <2>1. A \in SUBSET Drafts /\ Upto(a) \in SUBSET Drafts /\ Drafts \in SUBSET Refs BY DEF After, Drafts, Upto
 <2>2. IsFiniteSet(Drafts) BY <2>1, ShelfAssumption, FS_Subset
 <2> QED BY <2>1, <2>2, ShelfAssumption, FS_Subset
<1>2. Cardinality(A) \in Nat /\ Cardinality(A) # 0 /\ Cardinality(Upto(a)) \in Nat /\ Cardinality(Drafts) \in Nat
  BY <1>1, FS_CardinalityType, FS_EmptySet
<1>3. PICK m \in A : \A q \in A : m <= q BY <1>1, LeastRef
<1>4. m \in Ranked(A, 0)
 <2>1. ASSUME NEW q \in A PROVE ~(q < m)
  <3>1. q \in Nat /\ m \in Nat /\ m <= q BY <1>1, <1>3
  <3> QED BY <3>1
 <2>2. {q \in A : q < m} = {} BY <2>1
 <2> QED BY <2>2, FS_EmptySet DEF Ranked
<1>5. h = m
 <2>1. h = CHOOSE r \in Ranked(A, 0) : TRUE BY <1>2 DEF Ordered
 <2>2. h \in Ranked(A, 0) BY <1>4, <2>1
 <2> QED BY <1>1, <1>4, <2>2, OneOfRank
<1>6. h \in A /\ h \in Drafts /\ h \in Nat /\ a < h /\ \A q \in A : h <= q
  BY <1>1, <1>3, <1>5 DEF After
<1>11. ASSUME NEW q \in Drafts
       PROVE  /\ (q > h) <=> (q > a /\ q # h)
              /\ (q <= h) <=> (q <= a \/ q = h)
              /\ (q < h) <=> (q <= a)
 <2>1. q \in Nat BY <1>1
 <2>2. q > a => h <= q BY <1>6 DEF After
 <2> QED BY <1>6, <2>1, <2>2
<1>7. After(h) = A \ {h} /\ Upto(h) = Upto(a) \cup {h} /\ h \notin Upto(a)
  BY <1>6, <1>11 DEF After, Upto
<1>8. {q \in Drafts : q < h} = Upto(a) BY <1>11 DEF Upto
<1>9. Cardinality(Upto(a)) < Cardinality(Drafts)
 <2>1. Cardinality(Upto(a)) <= Cardinality(Drafts) BY <1>1, FS_Subset
 <2>2. Cardinality(Upto(a)) # Cardinality(Drafts) BY <1>1, <1>6, <1>7, FS_Subset
 <2> QED BY <1>2, <2>1, <2>2
<1>10. Place(h) = Cardinality(Upto(a)) + 1 BY <1>8 DEF Place
<1>12. h \in Drafts BY <1>6
<1>13. Cardinality(Upto(a)) + 1 \in 1..Cardinality(Drafts) BY <1>2, <1>9
<1> QED BY <1>1, <1>6, <1>7, <1>10, <1>12, <1>13

\* In the list of all drafts a draft stands at its place.
LEMMA AtItsPlace ==
  ASSUME NEW r \in Drafts
  PROVE  Place(r) \in 1..Cardinality(Drafts) /\ Ordered(Drafts)[Place(r)] = r
<1> DEFINE Lower == {q \in Drafts : q < r}
<1>1. Drafts \in SUBSET Refs /\ IsFiniteSet(Drafts) /\ Lower \in SUBSET Drafts /\ r \in Nat
 <2>1. Drafts \in SUBSET Refs BY DEF Drafts
 <2> QED BY <2>1, ShelfAssumption, FS_Subset
<1>2. IsFiniteSet(Lower) /\ Cardinality(Lower) \in Nat /\ Cardinality(Drafts) \in Nat
      /\ Cardinality(Lower) <= Cardinality(Drafts) BY <1>1, FS_Subset, FS_CardinalityType
<1>3. r \notin Lower BY <1>1
<1>4. Cardinality(Lower) # Cardinality(Drafts) BY <1>1, <1>2, <1>3, FS_Subset
<1> DEFINE k == Cardinality(Lower)
<1>5. Place(r) = k + 1 /\ k + 1 \in 1..Cardinality(Drafts) /\ (k + 1) - 1 = k BY <1>2, <1>4 DEF Place
<1>6. Ordered(Drafts)[k + 1] = CHOOSE q \in Ranked(Drafts, (k + 1) - 1) : TRUE BY <1>5 DEF Ordered
<1>7. r \in Ranked(Drafts, k) BY DEF Ranked
<1>8. Ordered(Drafts)[k + 1] \in Ranked(Drafts, k) BY <1>5, <1>6, <1>7
<1>9. Ordered(Drafts)[k + 1] = r BY <1>1, <1>7, <1>8, OneOfRank
<1> QED BY <1>5, <1>9

\* What an adoption has done, and reports when it fails.
AdoptReports ==
  /\ ~ad.started =>
      /\ ad.pc \notin {"copy", "temp", "rename", "sync"}
      /\ ~HasDoc(New) /\ ~shelf[New].dir /\ disk[New].doc.ver = "none" /\ ~disk[New].dir
  /\ ad.pc \notin {"off", "done"} => ad.made /\ ~ad.retained
  /\ ad.pc = "off" => ~ad.made /\ ~ad.started /\ ~ad.retained /\ ad.result = None
  /\ ad.pc \notin {"finish", "done"} => ad.result = None
  /\ ad.pc = "done" /\ ad.result = "error" =>
      (ad.retained <=> stage # NoFiles \/ ad.made) /\ (ad.started => ad.retained)

\* As long as the directory did not change, a dry run has seen what is there.
SawIt(r) ==
  /\ "candidate" \in pr.seen[r] <=> PruneEligible(r)
  /\ "artifact" \in pr.seen[r] <=> shelf[r].dir \/ Claimed(r)
  /\ "temp" \in pr.seen[r] => shelf[r].temp # None
Inventory ==
  /\ "prune" \in noted =>
      /\ pr.pc = "look" => \A r \in Refs \ pr.todo : SawIt(r)
      /\ pr.pc = "orphans" => (\A r \in Refs : SawIt(r)) /\ \A r \in pr.orphans : Leftover(r)
  /\ pr.pc \in {"off", "look"} => pr.orphans = {}
  /\ pr.pc = "orphans" => \A r \in pr.todo : pr.seen[r] \cap {"artifact", "temp"} # {}
  /\ pr.kind # "dryrun" => pr.orphans = {}
  /\ pr.result = "stable" => pr.truth

\* As long as the directory did not change, a listing has shown the drafts up
\* to the last one shown, and goes on with those after it.
Listed ==
  /\ li.was = [i \in 1..Cardinality(Drafts) |-> li.was[i]]
  /\ \A r \in Drafts : li.was[Place(r)] = Summary(r)
Summaries == [ref : Refs, ver : DocVers, claim : {None, "save", "send", "handoff", "saved"}]
Paging ==
  /\ li = [pc |-> li.pc, after |-> li.after, refs |-> li.refs, shown |-> li.shown, was |-> li.was]
  /\ li.pc = "off" => li.after = 0 /\ li.shown = <<>>
  /\ li.pc \in {"select", "read", "verify", "next"} /\ "list" \in noted =>
      /\ li.after \in Nat /\ li.shown \in Seq(Summaries) /\ Listed
      /\ Len(li.shown) = Cardinality(Upto(li.after))
      /\ \A i \in 1..Len(li.shown) : li.shown[i] = li.was[i]
      /\ li.pc = "read" => li.refs = Ordered(After(li.after))
      /\ li.pc = "verify" /\ Len(li.refs) <= 1 => After(li.after) = {}
  /\ ListingTrue
ShownInv == AdoptReports /\ Inventory /\ Paging

\* What a step that is not the adoption's leaves: no document and no directory
\* appears, and what the inventory or a listing looks at stays or the time of
\* the directory changes.
NothingNew ==
  \A q \in Refs :
    /\ HasDoc(q)' => HasDoc(q)
    /\ shelf'[q].dir => shelf[q].dir
    /\ disk'[q].doc.ver = "none" \/ disk[q].doc.ver # "none" \/ HasDoc(q)
    /\ disk'[q].dir => disk[q].dir \/ shelf[q].dir
SameView(q) ==
  /\ shelf'[q].doc = shelf[q].doc /\ shelf'[q].dir = shelf[q].dir /\ shelf'[q].claim = shelf[q].claim
  /\ shelf'[q].temp = None <=> shelf[q].temp = None
Unnoticed == noted' = {} \/ \A q \in Refs : SameView(q)

\* What an adoption reports stays when nothing appears.
LEMMA AdoptStays ==
  ASSUME AdoptReports, NothingNew, ad' = ad, stage' = stage
  PROVE  AdoptReports' BY Names DEF AdoptReports, NothingNew, HasDoc

\* What an inventory saw stays when nothing it looks at changes unnoticed.
LEMMA InventoryStays ==
  ASSUME Inventory, RunsTyped, Unnoticed, noted' \subseteq noted \cup {"list"}, pr' = pr
  PROVE  Inventory'
<1>1. CASE noted' = {} BY <1>1 DEF Inventory
<1>2. CASE \A q \in Refs : SameView(q)
 <2>1. \A q \in Refs : (SawIt(q) => SawIt(q)') /\ (Leftover(q) => Leftover(q)')
   BY <1>2 DEF SameView, SawIt, Leftover, PruneEligible, HasDoc, Claimed
 <2>2. pr.orphans \subseteq Refs BY DEF RunsTyped, PruneRuns
 <2> QED BY <1>2, <2>1, <2>2 DEF Inventory
<1> QED BY <1>1, <1>2 DEF Unnoticed

\* So does what a listing has shown.
LEMMA PagingStays ==
  ASSUME Paging, Unnoticed, noted' \subseteq noted \cup {"prune"}, li' = li
  PROVE  Paging'
<1>1. CASE noted' = {} BY <1>1 DEF Paging, ListingTrue
<1>2. CASE \A q \in Refs : SameView(q)
 <2>1. Drafts' = Drafts BY <1>2 DEF Drafts, HasDoc, SameView
 <2>2. Upto(li.after)' = Upto(li.after) /\ After(li.after)' = After(li.after) BY <2>1 DEF Upto, After
 <2>3. \A q \in Drafts : Summary(q)' = Summary(q) BY <1>2 DEF Summary, SameView, Drafts
 <2>4. \A q : Place(q)' = Place(q) BY <2>1 DEF Place
 <2>5. Listed => Listed' BY <2>1, <2>3, <2>4 DEF Listed
 <2> QED BY <2>2, <2>5 DEF Paging, ListingTrue
<1> QED BY <1>1, <1>2 DEF Unnoticed

\* A step whose shelf and disk stand.
LEMMA SameQuiet ==
  ASSUME shelf' = shelf, disk' = disk
  PROVE  NothingNew /\ Unnoticed BY DEF NothingNew, Unnoticed, SameView, HasDoc

\* An entry that is made of another: nothing new in it.
LEMMA EnteredQuiet ==
  ASSUME NEW r \in Refs, OthersStand(r), noted' = {}, disk' = disk,
         shelf'[r].doc = shelf[r].doc, shelf'[r].dir = shelf[r].dir
  PROVE  NothingNew /\ Unnoticed BY DEF OthersStand, NothingNew, Unnoticed, HasDoc

\* A lease that is taken or found in use.
LEMMA LeasesQuiet ==
  ASSUME ShelfTyped, RunsTyped, NEW r \in Refs, NEW p \in Holders, disk' = disk,
         Leases(p, r) \/ InUse(r)
  PROVE  NothingNew /\ Unnoticed
<1>1. CASE InUse(r) BY <1>1, SameQuiet DEF InUse, SameShelf
<1>2. CASE Leases(p, r)
 <2>1. /\ OthersStand(r) /\ SameDraft(shelf'[r], shelf[r]) /\ shelf'[r].temp = shelf[r].temp
       /\ noted' = {} \/ NothingEnters BY <1>2, LeasesDoes
 <2> QED BY <2>1 DEF OthersStand, SameDraft, NothingEnters, NothingNew, Unnoticed, SameView, HasDoc
<1> QED BY <1>1, <1>2

\* A document goes.
LEMMA RemoveDocQuiet ==
  ASSUME DraftsInv, NEW r \in Refs, RemoveDoc(r)
  PROVE  NothingNew /\ Unnoticed
<1>1. shelf[r] \in ShelfEntries BY Parts DEF ShelfTyped
<1>2. (shelf' = shelf) \/ (OthersStand(r) /\ noted' = {} /\ shelf'[r] = [shelf[r] EXCEPT !.doc = NoDoc])
 <2>1. CASE Enters(r, [shelf[r] EXCEPT !.doc = NoDoc])
  <3>1. NoDoc \in ShelfDocs BY NothingThere
  <3>2. [shelf[r] EXCEPT !.doc = NoDoc] \in ShelfEntries BY <1>1, <3>1, DocChanged
  <3> QED BY Parts, <2>1, <3>2, EntersDoes
 <2> QED BY <2>1 DEF RemoveDoc, SameShelf
<1>3. /\ [shelf[r] EXCEPT !.doc = NoDoc].doc = NoDoc
      /\ [shelf[r] EXCEPT !.doc = NoDoc].dir = shelf[r].dir
 <2>1. NoDoc \in ShelfDocs BY NothingThere
 <2> QED BY <1>1, <2>1, DocChanged
<1>4. \A q \in Refs : disk'[q].doc \in {disk[q].doc, shelf[q].doc} /\ (disk'[q].dir => disk[q].dir \/ shelf[q].dir)
  BY DEF RemoveDoc
<1> QED BY NothingThere, <1>2, <1>3, <1>4 DEF OthersStand, NothingNew, Unnoticed, SameView, HasDoc

\* Claims go.
LEMMA DropClaimsQuiet ==
  ASSUME DraftsInv, NEW r \in Refs, DropClaims(r)
  PROVE  NothingNew /\ Unnoticed
<1>1. shelf[r] \in ShelfEntries BY Parts DEF ShelfTyped
<1>2. (shelf' = shelf) \/ (OthersStand(r) /\ noted' = {} /\ shelf'[r] = [shelf[r] EXCEPT !.claim = None])
 <2>1. CASE Enters(r, [shelf[r] EXCEPT !.claim = None])
  <3>1. None \in {None, "save", "send", "handoff", "saved"} BY NothingThere
  <3>2. [shelf[r] EXCEPT !.claim = None] \in ShelfEntries BY <1>1, <3>1, ClaimChanged
  <3> QED BY Parts, <2>1, <3>2, EntersDoes
 <2> QED BY <2>1 DEF DropClaims, SameShelf
<1>3. /\ [shelf[r] EXCEPT !.claim = None].claim = None
      /\ [shelf[r] EXCEPT !.claim = None].doc = shelf[r].doc /\ [shelf[r] EXCEPT !.claim = None].dir = shelf[r].dir
 <2>1. None \in {None, "save", "send", "handoff", "saved"} BY NothingThere
 <2> QED BY <1>1, <2>1, ClaimChanged
<1>4. \A q \in Refs : disk'[q].doc \in {disk[q].doc, shelf[q].doc} /\ (disk'[q].dir => disk[q].dir \/ shelf[q].dir)
 <2>1. /\ Synced(disk) \in [Refs -> ShelfEntries]
       /\ \A q \in Refs : Synced(disk)[q].doc = shelf[q].doc /\ Synced(disk)[q].dir = shelf[q].dir
   BY Parts, SyncedDoes
 <2> DEFINE m(q) == IF q = r THEN None ELSE Synced(disk)[q].claim
 <2>2. \A q \in Refs : disk' = disk \/ disk'[q] = [Synced(disk)[q] EXCEPT !.claim = m(q)]
   BY DEF DropClaims
 <2>3. \A q \in Refs : Synced(disk)[q] \in ShelfEntries /\ m(q) \in {None, "save", "send", "handoff", "saved"}
   BY <2>1 DEF ShelfEntries
 <2>4. \A q \in Refs : m(q) = None \/ m(q) = Synced(disk)[q].claim OBVIOUS
 <2> HIDE DEF m
 <2>5. ASSUME NEW q \in Refs, disk'[q] = [Synced(disk)[q] EXCEPT !.claim = m(q)]
       PROVE  disk'[q].doc = shelf[q].doc /\ (disk'[q].dir => shelf[q].dir)
   BY <2>1, <2>3, <2>4, <2>5, ClaimChanged
 <2> QED BY <2>2, <2>5
<1> QED BY NothingThere, <1>2, <1>3, <1>4 DEF OthersStand, NothingNew, Unnoticed, SameView, HasDoc

\* An attachment directory goes.
LEMMA DropDirQuiet ==
  ASSUME DraftsInv, NEW r \in Refs, DropDir(r)
  PROVE  NothingNew /\ Unnoticed
<1>1. shelf[r] \in ShelfEntries BY Parts DEF ShelfTyped
<1>2. (shelf' = shelf) \/ (OthersStand(r) /\ noted' = {} /\ shelf'[r] = [shelf[r] EXCEPT !.dir = FALSE])
 <2>1. CASE Enters(r, [shelf[r] EXCEPT !.dir = FALSE])
  <3>1. FALSE \in BOOLEAN BY NothingThere
  <3>2. [shelf[r] EXCEPT !.dir = FALSE] \in ShelfEntries BY <1>1, <3>1, DirChanged
  <3> QED BY Parts, <2>1, <3>2, EntersDoes
 <2> QED BY <2>1 DEF DropDir, SameShelf
<1>3. /\ [shelf[r] EXCEPT !.dir = FALSE].dir = FALSE
      /\ [shelf[r] EXCEPT !.dir = FALSE].doc = shelf[r].doc
 <2>1. FALSE \in BOOLEAN BY NothingThere
 <2> QED BY <1>1, <2>1, DirChanged
<1>4. \A q \in Refs : disk'[q].doc \in {disk[q].doc, shelf[q].doc} /\ (disk'[q].dir => disk[q].dir \/ shelf[q].dir)
 <2>1. /\ Synced(disk) \in [Refs -> ShelfEntries]
       /\ \A q \in Refs : Synced(disk)[q].doc = shelf[q].doc /\ Synced(disk)[q].dir = shelf[q].dir
   BY Parts, SyncedDoes
 <2> DEFINE m(q) == IF q = r THEN FALSE ELSE Synced(disk)[q].dir
 <2>2. \A q \in Refs : disk' = disk \/ disk'[q] = [Synced(disk)[q] EXCEPT !.dir = m(q)]
   BY DEF DropDir
 <2>3. \A q \in Refs : Synced(disk)[q] \in ShelfEntries /\ m(q) \in BOOLEAN
   BY <2>1 DEF ShelfEntries
 <2>4. \A q \in Refs : m(q) = FALSE \/ m(q) = Synced(disk)[q].dir OBVIOUS
 <2> HIDE DEF m
 <2>5. ASSUME NEW q \in Refs, disk'[q] = [Synced(disk)[q] EXCEPT !.dir = m(q)]
       PROVE  disk'[q].doc = shelf[q].doc /\ (disk'[q].dir => shelf[q].dir)
   BY <2>1, <2>3, <2>4, <2>5, DirChanged
 <2> QED BY <2>2, <2>5
<1> QED BY NothingThere, <1>2, <1>3, <1>4 DEF OthersStand, NothingNew, Unnoticed, SameView, HasDoc

\* A lock goes.
LEMMA DropLockQuiet ==
  ASSUME DraftsInv, NEW r \in Refs, DropLock(r)
  PROVE  NothingNew /\ Unnoticed
<1>1. shelf[r] \in ShelfEntries BY Parts DEF ShelfTyped
<1>2. (shelf' = shelf) \/ (OthersStand(r) /\ noted' = {} /\ shelf'[r] = [shelf[r] EXCEPT !.lock = FALSE])
 <2>1. CASE Enters(r, [shelf[r] EXCEPT !.lock = FALSE])
  <3>1. FALSE \in BOOLEAN BY NothingThere
  <3>2. [shelf[r] EXCEPT !.lock = FALSE] \in ShelfEntries BY <1>1, <3>1, LockChanged
  <3> QED BY Parts, <2>1, <3>2, EntersDoes
 <2> QED BY <2>1 DEF DropLock, SameShelf
<1>3. /\ [shelf[r] EXCEPT !.lock = FALSE].lock = FALSE
      /\ [shelf[r] EXCEPT !.lock = FALSE].doc = shelf[r].doc /\ [shelf[r] EXCEPT !.lock = FALSE].dir = shelf[r].dir
 <2>1. FALSE \in BOOLEAN BY NothingThere
 <2> QED BY <1>1, <2>1, LockChanged
<1>4. \A q \in Refs : disk'[q].doc \in {disk[q].doc, shelf[q].doc} /\ (disk'[q].dir => disk[q].dir \/ shelf[q].dir)
  BY DEF DropLock
<1> QED BY NothingThere, <1>2, <1>3, <1>4 DEF OthersStand, NothingNew, Unnoticed, SameView, HasDoc

\* A lock without a document goes.
LEMMA SweepLockQuiet ==
  ASSUME DraftsInv, NEW r \in Refs, SweepLock(r)
  PROVE  NothingNew /\ Unnoticed
<1>1. shelf[r] \in ShelfEntries BY Parts DEF ShelfTyped
<1>2. (shelf' = shelf) \/ (OthersStand(r) /\ noted' = {} /\ shelf'[r] = [shelf[r] EXCEPT !.lock = FALSE])
 <2>1. CASE Enters(r, [shelf[r] EXCEPT !.lock = FALSE])
  <3>1. FALSE \in BOOLEAN BY NothingThere
  <3>2. [shelf[r] EXCEPT !.lock = FALSE] \in ShelfEntries BY <1>1, <3>1, LockChanged
  <3> QED BY Parts, <2>1, <3>2, EntersDoes
 <2> QED BY <2>1 DEF SweepLock, SameShelf
<1>3. /\ [shelf[r] EXCEPT !.lock = FALSE].lock = FALSE
      /\ [shelf[r] EXCEPT !.lock = FALSE].doc = shelf[r].doc /\ [shelf[r] EXCEPT !.lock = FALSE].dir = shelf[r].dir
 <2>1. FALSE \in BOOLEAN BY NothingThere
 <2> QED BY <1>1, <2>1, LockChanged
<1>4. \A q \in Refs : disk'[q].doc \in {disk[q].doc, shelf[q].doc} /\ (disk'[q].dir => disk[q].dir \/ shelf[q].dir)
  BY DEF SweepLock
<1> QED BY NothingThere, <1>2, <1>3, <1>4 DEF OthersStand, NothingNew, Unnoticed, SameView, HasDoc

\* A file that is removed, created or written does not change the directory.
LEMMA FilesQuiet ==
  ASSUME ShelfTyped, NEW r \in Refs, NEW g \in [Files -> FileBytes],
         shelf' = [shelf EXCEPT ![r] = [shelf[r] EXCEPT !.files = g]], disk' = disk
  PROVE  NothingNew /\ Unnoticed
<1>1. shelf[r] \in ShelfEntries BY DEF ShelfTyped
<1>2. /\ [shelf[r] EXCEPT !.files = g].doc = shelf[r].doc /\ [shelf[r] EXCEPT !.files = g].dir = shelf[r].dir
      /\ [shelf[r] EXCEPT !.files = g].claim = shelf[r].claim /\ [shelf[r] EXCEPT !.files = g].temp = shelf[r].temp
  BY <1>1, FilesChanged
<1>3. shelf'[r] = [shelf[r] EXCEPT !.files = g] /\ \A q \in Refs \ {r} : shelf'[q] = shelf[q]
  BY DEF ShelfTyped
<1> QED BY <1>2, <1>3 DEF NothingNew, Unnoticed, SameView, HasDoc

\* The steps of a removal bring nothing new.
LEMMA RemovalQuiet ==
  ASSUME DraftsInv, RemovalStep
  PROVE  NothingNew /\ Unnoticed
<1>1. ASSUME NEW r \in Refs, SyncGone(r) PROVE NothingNew /\ Unnoticed
 <2>1. shelf' = shelf /\ \A q \in Refs : disk'[q].doc = shelf[q].doc /\ disk'[q].dir = shelf[q].dir
   BY Parts, <1>1, SyncedDoes DEF SyncGone, SyncShelf, SameShelf
 <2> QED BY <2>1 DEF NothingNew, Unnoticed, SameView, HasDoc
<1>2. ASSUME NEW r \in Refs, RemovalFails(r) PROVE NothingNew /\ Unnoticed
  BY <1>2, SameQuiet DEF RemovalFails, SameShelf
<1>3. ASSUME NEW r \in Refs, NEW f \in Files, DropFile(r, f) PROVE NothingNew /\ Unnoticed
 <2> DEFINE g == [shelf[r].files EXCEPT ![f] = None]
 <2>1. shelf[r] \in ShelfEntries /\ g \in [Files -> FileBytes]
   BY Parts DEF ShelfTyped, ShelfEntries, FileBytes
 <2>2. shelf' = [shelf EXCEPT ![r] = [shelf[r] EXCEPT !.files = g]] /\ disk' = disk
   BY <1>3, <2>1 DEF ShelfEntries, DropFile
 <2> HIDE DEF g
 <2> QED BY Parts, <2>1, <2>2, FilesQuiet
<1> QED BY <1>1, <1>2, <1>3, RemoveDocQuiet, DropClaimsQuiet, DropDirQuiet, DropLockQuiet DEF RemovalStep

\* The steps of the other command.
LEMMA EditQuiet ==
  ASSUME DraftsInv, EditStep
  PROVE  NothingNew /\ Unnoticed
<1>1. shelf[ed.ref] \in ShelfEntries BY Parts DEF ShelfTyped
<1>2. CASE EditStart \/ EditDone BY <1>2, SameQuiet DEF EditStart, EditDone, Beside, SameShelf
<1>3. CASE EditLease
 <2>1. "edit" \in Holders /\ disk' = disk BY <1>3 DEF Holders, EditLease
 <2> QED BY Parts, <1>3, <2>1, LeasesQuiet DEF EditLease
<1>4. CASE EditRead
 <2>1. CASE Enters(ed.ref, [shelf[ed.ref] EXCEPT !.temp = "young"])
  <3>1. disk' = disk BY <1>4 DEF EditRead
  <3>2. /\ OthersStand(ed.ref) /\ noted' = {}
        /\ shelf'[ed.ref].doc = shelf[ed.ref].doc /\ shelf'[ed.ref].dir = shelf[ed.ref].dir
    BY Parts, <2>1, TempDoes DEF SameDraft
  <3> QED BY Parts, <3>1, <3>2, EnteredQuiet
 <2> QED BY <1>4, <2>1, SameQuiet DEF EditRead, SameShelf
<1>5. CASE EditRename
 <2>1. HasDoc(ed.ref) /\ disk' = disk BY Parts, <1>5 DEF DocsGo, EditRename, Editing, Publish, Unpublished
 <2>2. \E s \in Edited(shelf[ed.ref]) \cup {shelf[ed.ref]} : Enters(ed.ref, [s EXCEPT !.temp = None])
   BY <1>5 DEF EditRename, Publish, Unpublished
 <2>3. \A s \in Edited(shelf[ed.ref]) \cup {shelf[ed.ref]} : [s EXCEPT !.temp = None].dir = shelf[ed.ref].dir
   BY <1>1 DEF Edited, ShelfEntries
 <2>4. noted' = {} /\ shelf'[ed.ref].dir = shelf[ed.ref].dir /\ \A q \in Refs \ {ed.ref} : shelf'[q] = shelf[q]
   BY Parts, <2>2, <2>3 DEF Enters, ShelfTyped
 <2> QED BY <2>1, <2>4 DEF NothingNew, Unnoticed, HasDoc
<1>6. CASE EditSync
 <2>1. /\ shelf' = shelf
       /\ disk' = disk \/ \A q \in Refs : disk'[q].doc = shelf[q].doc /\ disk'[q].dir = shelf[q].dir
   BY Parts, <1>6, SyncedDoes DEF EditSync, SyncShelf, SameShelf
 <2> QED BY <2>1 DEF NothingNew, Unnoticed, SameView, HasDoc
<1> QED BY <1>2, <1>3, <1>4, <1>5, <1>6 DEF EditStep, EditStart, EditDone

\* The steps of a prune.
LEMMA PruneQuiet ==
  ASSUME DraftsInv, PruneStep
  PROVE  NothingNew /\ Unnoticed
<1>0. ShelfTyped /\ RunsTyped /\ pr.ref \in Refs \cup {None} /\ "prune" \in Holders BY Parts DEF Holders
<1>1. CASE PruneStart \/ PruneVerify \/ DryOrphans \/ DryDone \/ PruneDone \/ \E r \in Refs : PruneLook(r) \/ DryOrphan(r)
  BY <1>1, SameQuiet
     DEF PruneStart, PruneVerify, DryOrphans, DryDone, DryEnds, PruneDone, PruneLook, DryOrphan, Beside, Aside
<1>2. CASE PruneRead \/ PruneNext \/ SweepNext
  BY <1>2, SameQuiet DEF PruneRead, PruneNext, SweepNext, SameShelf
<1>3. ASSUME NEW r \in Refs, PruneLease(r) PROVE NothingNew /\ Unnoticed
  BY <1>0, <1>3, LeasesQuiet DEF PruneLease
<1>4. ASSUME NEW r \in Refs, SweepLease(r) PROVE NothingNew /\ Unnoticed
  BY <1>0, <1>4, LeasesQuiet, SameQuiet DEF SweepLease, SameShelf
<1>5. CASE Sweep
 <2>1. disk' = disk /\ pr.ref \in Refs BY <1>0, <1>5 DEF Sweep
 <2>2. CASE Enters(pr.ref, [shelf[pr.ref] EXCEPT !.temp = None])
  <3>1. /\ OthersStand(pr.ref) /\ noted' = {}
        /\ shelf'[pr.ref].doc = shelf[pr.ref].doc /\ shelf'[pr.ref].dir = shelf[pr.ref].dir
    BY <1>0, <2>1, <2>2, TempDoes DEF SameDraft
  <3> QED BY <2>1, <3>1, EnteredQuiet
 <2> QED BY <1>5, <2>1, <2>2, SameQuiet DEF Sweep, SweepTemp, SameShelf
<1> QED BY <1>1, <1>2, <1>3, <1>4, <1>5, SweepLockQuiet DEF PruneStep

\* Time passes.
LEMMA AgeQuiet ==
  ASSUME DraftsInv, Age
  PROVE  NothingNew /\ Unnoticed
<1>1. /\ shelf' = [r \in Refs |-> [shelf[r] EXCEPT !.temp = IF shelf[r].temp = None THEN None ELSE "old"]]
      /\ disk' = [r \in Refs |-> [disk[r] EXCEPT !.temp = IF disk[r].temp = None THEN None ELSE "old"]]
  BY DEF Age
<1>2. ASSUME NEW r \in Refs
      PROVE  SameView(r) /\ disk'[r].doc = disk[r].doc /\ disk'[r].dir = disk[r].dir
 <2> DEFINE t == IF shelf[r].temp = None THEN None ELSE "old"
            u == IF disk[r].temp = None THEN None ELSE "old"
 <2>1. /\ shelf[r] \in ShelfEntries /\ t \in {None, "old", "young"} /\ disk[r] \in ShelfEntries
       /\ u \in {None, "old", "young"} BY Parts DEF ShelfTyped
 <2>2. /\ shelf'[r] = [shelf[r] EXCEPT !.temp = t] /\ (shelf[r].temp = None <=> t = None)
       /\ disk'[r] = [disk[r] EXCEPT !.temp = u] BY Names, <1>1
 <2> HIDE DEF t, u
 <2> QED BY <2>1, <2>2, TempChanged DEF SameView
<1> QED BY <1>2 DEF NothingNew, Unnoticed, SameView, HasDoc

\* A power failure brings no document and no directory that neither the shelf
\* nor the disk had.
LEMMA PowerQuiet ==
  ASSUME DraftsInv, PowerFails
  PROVE  /\ noted' = {} /\ disk' = shelf'
         /\ HasDoc(New)' => HasDoc(New) \/ disk[New].doc.ver # "none"
         /\ shelf'[New].dir => shelf[New].dir \/ disk[New].dir
<1>1. PICK n \in Survivors(New), t \in Survivors(Target) :
        /\ shelf' = [shelf EXCEPT ![New] = n, ![Target] = t]
        /\ disk' = [shelf EXCEPT ![New] = n, ![Target] = t] BY DEF PowerFails
<1>2. n.doc \in {disk[New].doc, shelf[New].doc} /\ n.dir \in {disk[New].dir, shelf[New].dir}
  BY <1>1 DEF Survivors
<1>3. shelf'[New] = n BY Names, Parts, <1>1 DEF ShelfTyped
<1>4. noted' = {} BY DEF PowerFails
<1> QED BY <1>1, <1>2, <1>3, <1>4 DEF HasDoc

\* No step but the start of a prune or of a listing learns the time of the
\* directory.
LEMMA LearnsNothing ==
  ASSUME RemovalStep \/ AdoptStep \/ EditStep \/ Age \/ Killed
  PROVE  noted' \subseteq noted
<1>1. CASE RemovalStep
  BY <1>1 DEF RemovalStep, RemoveDoc, SyncGone, DropClaims, DropFile, DropDir, DropLock, RemovalFails, Enters, SameShelf
<1>2. CASE AdoptStep
  BY <1>2 DEF AdoptStep, AdoptStart, AdoptStage, AdoptPrepare, AdoptLease, AdoptMkdir, CopySynced, AdoptTemp, AdoptRename,
     AdoptSync, AdoptFinish, CopyOpen, CopyWrite, EditStaged, Beside, Leases, InUse, Enters, SameShelf, WriteTemp, Publish,
     Unpublished
<1>3. CASE EditStep
  BY <1>3 DEF EditStep, EditStart, EditLease, EditRead, EditRename, EditSync, EditDone, Beside, Leases, InUse, Enters,
     SameShelf, Publish, Unpublished
<1>4. CASE Age \/ Killed BY <1>4 DEF Age, Killed, SameShelf
<1> QED BY <1>1, <1>2, <1>3, <1>4

\* A prune learns the time of the directory only at its start.
LEMMA PruneLearns ==
  ASSUME PruneStep
  PROVE  noted' \subseteq noted \cup {"prune"} /\ (~PruneStart => noted' \subseteq noted)
  BY DEF PruneStep, PruneStart, PruneVerify, DryOrphans, DryDone, DryEnds, PruneDone, PruneLook, DryOrphan, Beside, Aside,
     PruneRead, PruneNext, SweepNext, PruneLease, SweepLease, Sweep, SweepTemp, SweepLock, Leases, InUse, Enters, SameShelf

\* The adoption's own steps leave what the inventory or a listing looks at, or
\* change the time of the directory.
LEMMA AdoptUnnoticed ==
  ASSUME DraftsInv, AdoptStep
  PROVE  Unnoticed
<1>0. ShelfTyped /\ RunsTyped /\ "adopt" \in Holders /\ New \in Refs BY Parts, Names DEF Holders
<1>1. CASE AdoptStart \/ AdoptStage \/ AdoptPrepare \/ AdoptSync \/ AdoptFinish \/ CopySynced \/ \E f \in Files : EditStaged(f)
 <2>1. shelf' = shelf
   BY <1>1 DEF AdoptStart, AdoptStage, AdoptPrepare, AdoptSync, AdoptFinish, CopySynced, EditStaged, Beside, SameShelf
 <2> QED BY <2>1 DEF Unnoticed, SameView
<1>2. CASE AdoptLease BY <1>0, <1>2, LeasesQuiet DEF AdoptLease
<1>3. CASE AdoptMkdir \/ AdoptTemp \/ AdoptRename
 <2>1. noted' = {} \/ shelf' = shelf
   BY <1>3 DEF AdoptMkdir, AdoptTemp, AdoptRename, WriteTemp, Publish, Unpublished, Enters, SameShelf
 <2> QED BY <2>1 DEF Unnoticed, SameView
<1>4. ASSUME NEW f \in Files, CopyOpen(f) \/ CopyWrite(f) PROVE Unnoticed
 <2>1. CASE shelf' = shelf BY <2>1 DEF Unnoticed, SameView
 <2>2. CASE \E b : shelf' = [shelf EXCEPT ![New].files[f] = b]
  <3>1. PICK b : shelf' = [shelf EXCEPT ![New].files[f] = b] BY <2>2
  <3>2. shelf[New] \in ShelfEntries BY <1>0 DEF ShelfTyped
  <3>3. /\ \A q \in Refs \ {New} : shelf'[q] = shelf[q]
        /\ shelf'[New].doc = shelf[New].doc /\ shelf'[New].dir = shelf[New].dir
        /\ shelf'[New].claim = shelf[New].claim /\ shelf'[New].temp = shelf[New].temp
    BY <1>0, <3>1, <3>2 DEF ShelfTyped, ShelfEntries
  <3> QED BY <3>3 DEF Unnoticed, SameView
 <2> QED BY <1>4, <2>1, <2>2 DEF CopyOpen, CopyWrite
<1> QED BY <1>1, <1>2, <1>3, <1>4 DEF AdoptStep

\* The adoption's steps and its report.
LEMMA AdoptReported ==
  ASSUME DraftsInv, AdoptReports, AdoptStep
  PROVE  AdoptReports'
<1>0. ShelfTyped /\ RunsTyped /\ New \in Refs /\ "adopt" \in Holders /\ ad.pc \in AdoptSteps
  BY Parts, Names DEF Holders, RunsTyped, AdoptRuns
<1>1. ad = [pc |-> ad.pc, made |-> ad.made, started |-> ad.started, retained |-> ad.retained, result |-> ad.result]
  BY <1>0 DEF RunsTyped, AdoptRuns
<1>2. CASE ad.started /\ ad'.started
 <2>1. CASE AdoptFinish
  <3>1. stage' = NoFiles \/ stage' = stage BY <2>1 DEF AdoptFinish
  <3>2. ad.result \in {"ok", "error"} => (Cleans <=> ad.made /\ (ad.result = "ok" \/ ~ad.started)) BY DEF Cleans
  <3>3. ad.pc = "finish" /\ ad.made /\ ~ad.retained BY Names, <2>1 DEF AdoptReports, AdoptFinish, Adopting
  <3>4. ad'.pc = "done" /\ ad'.result = ad.result /\ ad'.started
        /\ (ad.result = "error" => ad'.made /\ ad'.retained)
    BY <1>1, <1>2, <2>1, <3>3 DEF AdoptFinish, Cleans, AdoptReports
  <3> QED BY Names, <3>4 DEF AdoptReports
 <2>2. CASE ~AdoptFinish
  <3>1. ad'.pc \notin {"off", "done"} /\ (ad'.pc # "finish" => ad'.result = None) /\ ad'.made = ad.made /\ ad'.retained = ad.retained
        /\ ad.pc \notin {"off", "done"}
   <4>1. ~AdoptStart BY <1>2 DEF AdoptReports, AdoptStart, Adopting
   <4>2. CASE AdoptStage \/ AdoptPrepare \/ AdoptLease \/ AdoptMkdir \/ CopySynced
     BY <1>1, <1>2, <4>2
        DEF AdoptReports, AdoptStage, AdoptPrepare, AdoptLease, AdoptMkdir, CopySynced, Adopting, AdoptTo, AdoptFails
   <4>3. CASE AdoptTemp \/ AdoptRename \/ AdoptSync
     BY <1>1, <1>2, <4>3 DEF AdoptReports, AdoptTemp, AdoptRename, AdoptSync, Adopting, AdoptTo, AdoptFails
   <4>4. ASSUME NEW f \in Files, CopyOpen(f) \/ CopyWrite(f) \/ EditStaged(f)
         PROVE  <3>1!:
     BY <1>1, <1>2, <4>4 DEF AdoptReports, CopyOpen, CopyWrite, EditStaged, Adopting, AdoptFails
   <4> QED BY <2>2, <4>1, <4>2, <4>3, <4>4 DEF AdoptStep
  <3> QED BY Names, <1>2, <3>1 DEF AdoptReports
 <2> QED BY <2>1, <2>2
<1>3. CASE ~ad.started /\ ad'.started
 <2>1. AdoptMkdir
   BY <1>1, <1>3 DEF AdoptStep, AdoptReports, AdoptStart, AdoptStage, AdoptPrepare, AdoptLease,
        CopySynced, AdoptTemp, AdoptRename, AdoptSync, AdoptFinish, CopyOpen, CopyWrite, EditStaged, Adopting, AdoptTo, AdoptFails
 <2>2. ad' = [ad EXCEPT !.pc = "copy", !.started = TRUE] /\ ad.pc = "mkdir"
   BY <1>1, <1>3, <2>1 DEF AdoptMkdir, AdoptFails, Adopting
 <2>3. ad'.pc = "copy" /\ ad'.started /\ ad'.made = ad.made /\ ad'.retained = ad.retained /\ ad'.result = ad.result
   BY <1>1, <2>2
 <2> QED BY Names, <2>2, <2>3 DEF AdoptReports
<1>4. CASE ~ad.started
 <2>1. CASE AdoptStart
  <3>1. ad'.pc = "stage" /\ ad'.made /\ ad'.started = ad.started /\ ad'.retained = ad.retained /\ ad'.result = ad.result
        /\ ad.pc = "off" /\ shelf' = shelf /\ disk' = disk
    BY <1>1, <2>1 DEF AdoptStart, Adopting, Beside
  <3> QED BY Names, <1>4, <3>1 DEF AdoptReports, HasDoc
 <2>2. CASE AdoptFinish
  <3>1. ad.pc = "finish" /\ ad.made /\ ~ad.retained BY Names, <2>2 DEF AdoptReports, AdoptFinish, Adopting
  <3>2. shelf' = shelf /\ disk' = disk BY <2>2 DEF AdoptFinish, SameShelf
  <3>3. CASE stage' = NoFiles /\ ad' = [ad EXCEPT !.pc = "done", !.made = FALSE]
    BY Names, <1>1, <1>4, <3>1, <3>2, <3>3 DEF AdoptReports, HasDoc
  <3>4. CASE stage' = stage /\ ad' = [ad EXCEPT !.pc = "done", !.retained = ad.made]
    BY Names, <1>1, <1>4, <3>1, <3>2, <3>4 DEF AdoptReports, HasDoc
  <3> QED BY <2>2, <3>3, <3>4 DEF AdoptFinish
 <2>3. CASE AdoptStage \/ AdoptPrepare \/ \E f \in Files : EditStaged(f)
  <3>1. /\ ad' = ad \/ AdoptTo("lease") \/ AdoptFails
        /\ ad.pc \in {"stage", "lease", "mkdir", "copy"} /\ shelf' = shelf /\ disk' = disk
    BY <2>3 DEF AdoptStage, AdoptPrepare, EditStaged, Adopting, Beside
  <3>2. /\ ad'.pc \in {ad.pc, "lease", "finish"} /\ ad'.made = ad.made /\ ad'.started = ad.started /\ ad'.retained = ad.retained
        /\ ad'.pc # "finish" => ad'.result = ad.result BY <1>1, <3>1 DEF AdoptTo, AdoptFails
  <3> QED BY Names, <1>4, <3>1, <3>2 DEF AdoptReports, HasDoc
 <2>4. CASE AdoptLease
  <3>1. NothingNew BY <1>0, <2>4, LeasesQuiet DEF AdoptLease
  <3>2. AdoptTo("mkdir") \/ AdoptFails BY <2>4 DEF AdoptLease
  <3>3. /\ ad'.pc \in {"mkdir", "finish"} /\ ad'.made = ad.made /\ ad'.started = ad.started /\ ad'.retained = ad.retained
        /\ ad'.pc # "finish" => ad'.result = ad.result BY <1>1, <3>2 DEF AdoptTo, AdoptFails
  <3>4. ad.pc = "lease" BY <2>4 DEF AdoptLease, Adopting
  <3> QED BY Names, <1>0, <1>4, <3>1, <3>3, <3>4 DEF AdoptReports, NothingNew, HasDoc
 <2>5. CASE AdoptMkdir /\ ~ad'.started
  <3>1. AdoptFails /\ shelf' = shelf /\ disk' = disk /\ ad.pc = "mkdir"
    BY <1>1, <2>5 DEF AdoptMkdir, SameShelf, Adopting
  <3>2. ad'.pc = "finish" /\ ad'.made = ad.made /\ ad'.started = ad.started /\ ad'.retained = ad.retained
    BY <1>1, <3>1 DEF AdoptFails
  <3> QED BY Names, <1>4, <3>1, <3>2 DEF AdoptReports, HasDoc
 <2> QED BY <1>3, <1>4, <2>1, <2>2, <2>3, <2>4, <2>5
    DEF AdoptReports, AdoptStep, CopySynced, AdoptTemp, AdoptRename, AdoptSync, CopyOpen, CopyWrite, Adopting
<1>5. ad.started \in BOOLEAN /\ ad'.started \in BOOLEAN /\ (ad.started => ad'.started)
 <2>1. ad.started \in BOOLEAN BY <1>0 DEF RunsTyped, AdoptRuns
 <2>2. ad'.started \in {ad.started, TRUE}
   BY <1>1 DEF AdoptStep, AdoptStart, AdoptStage, AdoptPrepare, AdoptLease, AdoptMkdir,
        CopySynced, AdoptTemp, AdoptRename, AdoptSync, AdoptFinish, CopyOpen, CopyWrite, EditStaged, AdoptTo, AdoptFails
 <2> QED BY <2>1, <2>2
<1> QED BY <1>2, <1>3, <1>4, <1>5

\* The steps of a prune and of its dry run.
LEMMA PruneInventory ==
  ASSUME DraftsInv, SweptInv, Inventory, PruneStep
  PROVE  Inventory'
<1>1. pr \in PruneRuns BY Parts DEF RunsTyped
<1>2. CASE PruneStart
 <2>1. PICK kind \in {"prune", "dryrun"} :
       pr' = [pr EXCEPT !.pc = "look", !.kind = kind, !.seen = [r \in Refs |-> {}], !.todo = Refs,
                        !.runs = @ + 1, !.quiet = ({ad.pc, ed.pc} = {"done"}), !.result = None]
   BY <1>2 DEF PruneStart
 <2>2. pr'.pc = "look" /\ pr'.todo = Refs /\ pr'.result = None /\ pr'.orphans = pr.orphans /\ pr'.truth = pr.truth
   BY <1>1, <2>1 DEF PruneRuns
 <2>3. pr.orphans = {} BY Names, <1>2 DEF PruneStart, Inventory
 <2> QED BY Names, <2>2, <2>3 DEF Inventory
<1>3. ASSUME NEW r \in Refs, PruneLook(r) PROVE Inventory'
 <2>1. pr' = [pr EXCEPT !.seen[r] = Classified(r), !.todo = @ \ {r}] /\ pr.pc = "look" /\ shelf' = shelf /\ noted' = noted
   BY <1>3 DEF PruneLook, Pruning, Beside
 <2>2. /\ pr'.pc = "look" /\ pr'.kind = pr.kind /\ pr'.orphans = pr.orphans /\ pr'.truth = pr.truth /\ pr'.result = pr.result
       /\ pr'.todo = pr.todo \ {r} /\ pr'.seen[r] = Classified(r) /\ \A q \in Refs \ {r} : pr'.seen[q] = pr.seen[q]
   BY <1>1, <2>1 DEF PruneRuns
 <2>3. SawIt(r)' BY Names, <2>1, <2>2 DEF SawIt, Classified, PruneEligible, HasDoc, Claimed
 <2>4. \A q \in Refs \ {r} : SawIt(q) => SawIt(q)'
   BY <2>1, <2>2 DEF SawIt, PruneEligible, HasDoc, Claimed
 <2> QED BY <2>1, <2>2, <2>3, <2>4 DEF Inventory
<1>4. CASE DryOrphans
 <2>1. pr' = [pr EXCEPT !.pc = "orphans", !.todo = {r \in Refs : pr.seen[r] \cap {"artifact", "temp"} # {}}, !.ref = None]
       /\ shelf' = shelf /\ noted' = noted /\ pr.pc = "look" /\ pr.todo = {} /\ pr.kind = "dryrun"
   BY <1>4 DEF DryOrphans, Pruning, Beside, PruneTo
 <2>2. /\ pr'.pc = "orphans" /\ pr'.kind = pr.kind /\ pr'.orphans = pr.orphans /\ pr'.truth = pr.truth /\ pr'.result = pr.result
       /\ pr'.todo = {r \in Refs : pr.seen[r] \cap {"artifact", "temp"} # {}} /\ pr'.seen = pr.seen
   BY <1>1, <2>1 DEF PruneRuns
 <2>3. \A q \in Refs : SawIt(q) => SawIt(q)' BY <2>1, <2>2 DEF SawIt, PruneEligible, HasDoc, Claimed
 <2> QED BY <2>1, <2>2, <2>3 DEF Inventory
<1>5. ASSUME NEW r \in Refs, DryOrphan(r) PROVE Inventory'
 <2> DEFINE o == IF HasDoc(r) \/ holder[r] # None THEN pr.orphans ELSE pr.orphans \cup {r}
 <2>1. pr' = [pr EXCEPT !.todo = pr.todo \ {r}, !.orphans = o] /\ pr.pc = "orphans" /\ shelf' = shelf /\ noted' = noted
       /\ r \in pr.todo BY <1>1, <1>5 DEF DryOrphan, Pruning, Beside, Turn, PruneRuns
 <2>2. /\ pr'.pc = "orphans" /\ pr'.kind = pr.kind /\ pr'.orphans = o /\ pr'.truth = pr.truth /\ pr'.result = pr.result
       /\ pr'.todo = pr.todo \ {r} /\ pr'.seen = pr.seen BY <1>1, <2>1 DEF PruneRuns
 <2>3. \A q \in Refs : (SawIt(q) => SawIt(q)') /\ (Leftover(q) => Leftover(q)')
   BY <2>1, <2>2 DEF SawIt, Leftover, PruneEligible, HasDoc, Claimed
 <2>4. "prune" \in noted => \A q \in o : Leftover(q) BY <2>1 DEF Inventory, SawIt, Leftover
 <2>5. pr.kind = "dryrun" /\ o \subseteq Refs BY <1>1, <2>1 DEF SweptInv, PruneRuns
 <2> HIDE DEF o
 <2> QED BY <2>1, <2>2, <2>3, <2>4, <2>5 DEF Inventory
<1>6. CASE DryDone
 <2> DEFINE truth == Seen("candidate") = {r \in Refs : PruneEligible(r)} /\ \A r \in pr.orphans : Leftover(r)
 <2>1. pr' = [[pr EXCEPT !.pc = "done", !.todo = {}, !.ref = None]
                EXCEPT !.result = IF "prune" \in noted THEN "stable" ELSE "unstable", !.truth = truth]
       /\ pr.pc = "orphans" BY <1>6 DEF DryDone, DryEnds, Pruning, PruneTo
 <2>2. "prune" \in noted => truth BY <2>1 DEF Inventory, SawIt, Seen
 <2> HIDE DEF truth
 <2>3. pr'.pc = "done" /\ pr'.kind = pr.kind /\ pr'.orphans = pr.orphans /\ pr'.truth = truth
       /\ pr'.result = IF "prune" \in noted THEN "stable" ELSE "unstable"
   BY <1>1, <2>1 DEF PruneRuns
 <2> QED BY <2>2, <2>3 DEF Inventory
<1>7. ASSUME ~PruneStart, ~DryOrphans, ~DryDone, \A r \in Refs : ~PruneLook(r) /\ ~DryOrphan(r) PROVE Inventory'
 <2>1. /\ pr'.pc \notin {"off", "look", "orphans"} /\ pr'.kind = pr.kind /\ pr'.orphans = pr.orphans /\ pr'.truth = pr.truth
       /\ pr'.result \in {pr.result, "failed", "ok"}
  <3>1. CASE PruneVerify \/ PruneDone
    BY ZenonT(60), <1>1, <3>1 DEF PruneVerify, PruneDone, PruneTo, PruneFailed, PruneRuns
  <3>2. CASE PruneRead \/ PruneNext
    BY ZenonT(60), <1>1, <3>2 DEF PruneRead, PruneNext, Pruning, PruneTo, PruneFailed, PruneRuns
  <3>3. CASE Sweep \/ SweepNext
    BY <1>1, <3>3 DEF Sweep, SweepNext, Pruning, PruneTo, PruneFailed, PruneRuns
  <3>4. ASSUME NEW r \in Refs, PruneLease(r) \/ SweepLease(r) \/ SweepLock(r)
        PROVE  /\ pr'.pc \notin {"off", "look", "orphans"} /\ pr'.kind = pr.kind /\ pr'.orphans = pr.orphans
               /\ pr'.truth = pr.truth /\ pr'.result \in {pr.result, "failed", "ok"}
    BY <1>1, <3>4 DEF PruneLease, SweepLease, SweepLock, Pruning, PruneFailed, PruneRuns
  <3> QED BY <1>7, <3>1, <3>2, <3>3, <3>4 DEF PruneStep
 <2> QED BY <2>1 DEF Inventory
<1> QED BY <1>2, <1>3, <1>4, <1>5, <1>6, <1>7

\* The steps of a listing.
LEMMA ListPaging ==
  ASSUME DraftsInv, Paging, ListStep
  PROVE  Paging'
<1>0. shelf' = shelf /\ noted' \subseteq noted \cup {"list"}
  BY DEF ListStep, ListStart, ListContinue, ListSelect, ListRead, ListVerify, Listing, Aside
<1>1. /\ Drafts' = Drafts /\ (\A a : Upto(a)' = Upto(a) /\ After(a)' = After(a)) /\ \A r : Summary(r)' = Summary(r)
      /\ \A r : Place(r)' = Place(r) BY <1>0 DEF Drafts, Upto, After, Summary, HasDoc, Place
<1>2. /\ Drafts \in SUBSET Refs /\ IsFiniteSet(Drafts) /\ Refs \subseteq Nat /\ Cardinality(Drafts) \in Nat
 <2>1. Drafts \in SUBSET Refs BY DEF Drafts
 <2> QED BY <2>1, ShelfAssumption, FS_Subset, FS_CardinalityType
<1>3. \A r \in Drafts : Summary(r) \in Summaries
  BY Parts DEF Summary, Summaries, Drafts, ShelfTyped, ShelfEntries, ShelfDocs
<1>4. \A a \in Nat : IsFiniteSet(After(a)) /\ Cardinality(After(a)) \in Nat /\ IsFiniteSet(Upto(a)) /\ Cardinality(Upto(a)) \in Nat
  BY <1>2, FS_Subset, FS_CardinalityType DEF After, Upto
<1>5. CASE ListStart
 <2> DEFINE was == [i \in 1..Cardinality(Drafts) |-> Summary(Ordered(Drafts)[i])]
 <2>1. li' = [li EXCEPT !.pc = "select", !.was = was] /\ li.pc = "off"
   BY <1>5 DEF ListStart, Listing
 <2>2. li' = [pc |-> "select", after |-> li.after, refs |-> li.refs, shown |-> li.shown, was |-> was]
       /\ li.after = 0 /\ li.shown = <<>> BY <2>1 DEF Paging
 <2>3. was = [i \in 1..Cardinality(Drafts) |-> was[i]] OBVIOUS
 <2>4. ASSUME NEW r \in Drafts PROVE was[Place(r)] = Summary(r) BY <2>4, AtItsPlace
 <2>5. Listed'
  <3>1. li'.was = was BY <2>2
  <3> HIDE DEF was
  <3> QED BY <1>1, <2>3, <2>4, <3>1 DEF Listed
 <2>6. Upto(li.after)' = {}
  <3>1. li'.after = 0 BY <2>2
  <3>2. \A r \in Drafts' : r \in Nat \ {0} BY <1>1, <1>2, ShelfAssumption
  <3>3. \A r \in Nat \ {0} : ~(r <= 0) OBVIOUS
  <3> QED BY <3>1, <3>2, <3>3 DEF Upto
 <2>7. Cardinality(Upto(li.after)') = 0 /\ Len(li'.shown) = 0 /\ li'.pc = "select" /\ li'.after \in Nat /\ li'.shown \in Seq(Summaries)
  <3>1. <<>> \in Seq(Summaries) /\ Len(<<>>) = 0 OBVIOUS
  <3>2. li'.shown = <<>> /\ li'.after = 0 /\ li'.pc = "select" BY <2>2
  <3> QED BY <2>6, <3>1, <3>2, FS_EmptySet
 <2>8. li' = [pc |-> li'.pc, after |-> li'.after, refs |-> li'.refs, shown |-> li'.shown, was |-> li'.was] BY <2>2
 <2> HIDE DEF was
 <2>9. \A i \in 1..Len(li'.shown) : li'.shown[i] = li'.was[i] BY <2>7
 <2> QED BY <2>5, <2>7, <2>8, <2>9 DEF Paging, ListingTrue
<1>6. CASE ListContinue
 <2>1. li' = [li EXCEPT !.pc = IF Touched THEN "changed" ELSE "select"] /\ li.pc = "next" /\ noted' = noted
   BY <1>6 DEF ListContinue, Listing
 <2>2. li' = [pc |-> IF Touched THEN "changed" ELSE "select", after |-> li.after, refs |-> li.refs, shown |-> li.shown, was |-> li.was]
   BY <2>1 DEF Paging
 <2>3. Listed => Listed' BY <1>1, <2>2 DEF Listed
 <2> QED BY <1>1, <2>1, <2>2, <2>3 DEF Paging, ListingTrue, Touched
<1>7. CASE ListSelect
 <2>1. li' = [li EXCEPT !.pc = "read", !.refs = Ordered(After(li.after))] /\ li.pc = "select" /\ noted' = noted
   BY <1>7 DEF ListSelect, Listing
 <2>2. li' = [pc |-> "read", after |-> li.after, refs |-> Ordered(After(li.after)), shown |-> li.shown, was |-> li.was]
   BY <2>1 DEF Paging
 <2>3. Listed => Listed' BY <1>1, <2>2 DEF Listed
 <2>4. After(li.after)' = After(li.after) /\ Upto(li.after)' = Upto(li.after)
   BY <1>1, <2>2 DEF After, Upto
 <2>5. /\ li'.pc = "read" /\ li'.after = li.after /\ li'.shown = li.shown /\ li'.was = li.was
       /\ li'.refs = Ordered(After(li.after))
       /\ li' = [pc |-> li'.pc, after |-> li'.after, refs |-> li'.refs, shown |-> li'.shown, was |-> li'.was]
   BY <2>2
 <2>6. Ordered(After(li.after))' = Ordered(After(li.after)) BY <2>4 DEF Ordered, Ranked
 <2> QED BY <2>1, <2>3, <2>4, <2>5, <2>6 DEF Paging, ListingTrue
<1>8. CASE ListRead
 <2>1. /\ li.pc = "read" /\ noted' = noted
       /\ li' = [li EXCEPT !.pc = "verify",
                       !.shown = IF li.refs = <<>> THEN li.shown ELSE Append(li.shown, Summary(Head(li.refs))),
                       !.after = IF li.refs = <<>> THEN li.after ELSE Head(li.refs)]
   BY <1>8 DEF ListRead, Listing
 <2>2. li' = [pc |-> "verify", after |-> IF li.refs = <<>> THEN li.after ELSE Head(li.refs), refs |-> li.refs,
              shown |-> IF li.refs = <<>> THEN li.shown ELSE Append(li.shown, Summary(Head(li.refs))), was |-> li.was]
   BY <2>1 DEF Paging
 <2>3. Listed => Listed' BY <1>1, <2>2 DEF Listed
 <2>4. /\ li'.pc = "verify" /\ li'.refs = li.refs /\ li'.was = li.was
       /\ li' = [pc |-> li'.pc, after |-> li'.after, refs |-> li'.refs, shown |-> li'.shown, was |-> li'.was]
       /\ li'.after = (IF li.refs = <<>> THEN li.after ELSE Head(li.refs))
       /\ li'.shown = (IF li.refs = <<>> THEN li.shown ELSE Append(li.shown, Summary(Head(li.refs))))
   BY <2>2
 <2>5. CASE "list" \notin noted BY <2>1, <2>4, <2>5 DEF Paging, ListingTrue
 <2>6. ASSUME "list" \in noted PROVE Paging'
  <3> DEFINE a == li.after
             h == Head(li.refs)
  <3>1. /\ a \in Nat /\ li.shown \in Seq(Summaries) /\ Listed /\ Len(li.shown) = Cardinality(Upto(a))
        /\ \A i \in 1..Len(li.shown) : li.shown[i] = li.was[i]
        /\ li.refs = Ordered(After(a)) BY <2>1, <2>6 DEF Paging
  <3>2. li.refs \in Seq({li.refs[i] : i \in 1..Cardinality(After(a))}) /\ Len(li.refs) = Cardinality(After(a))
   <4> DEFINE n == Cardinality(After(a))
   <4>1. n \in Nat BY <1>4, <3>1
   <4>2. li.refs = [i \in 1..n |-> CHOOSE r \in Ranked(After(a), i - 1) : TRUE] BY <3>1 DEF Ordered
   <4>3. li.refs = [i \in 1..n |-> li.refs[i]] BY <4>2
   <4>4. li.refs \in [1..n -> {li.refs[i] : i \in 1..n}] BY <4>3
   <4> HIDE DEF n
   <4>5. li.refs \in Seq({li.refs[i] : i \in 1..n}) /\ Len(li.refs) = n BY <4>1, <4>4, AList
   <4> QED BY <4>5 DEF n
  <3>3. CASE li.refs = <<>>
   <4>1. Cardinality(After(a)) = 0 BY <3>2, <3>3
   <4>2. After(a) = {} BY <1>4, <3>1, <4>1, FS_EmptySet
   <4>3. After(li.after)' = {} /\ Upto(li.after)' = Upto(a) BY <1>1, <2>4, <3>3, <4>2 DEF After, Upto
   <4>4. li'.after = a /\ li'.shown = li.shown BY <2>4, <3>3
   <4> QED BY <2>3, <2>4, <3>1, <4>3, <4>4 DEF Paging, ListingTrue
  <3>4. CASE li.refs # <<>>
   <4>1. Cardinality(After(a)) # 0 /\ h = li.refs[1] BY <3>2, <3>4
   <4>2. After(a) # {} /\ h = Ordered(After(a))[1] BY <3>1, <4>1, FS_EmptySet
   <4>3. /\ h \in After(a) /\ h \in Refs /\ h \in Nat
         /\ After(h) = After(a) \ {h} /\ Upto(h) = Upto(a) \cup {h} /\ h \notin Upto(a)
         /\ Cardinality(Upto(a)) + 1 \in 1..Cardinality(Drafts) /\ Place(h) = Cardinality(Upto(a)) + 1
     BY <3>1, <4>2, NextDraft
   <4>4. h \in Drafts BY <4>3 DEF After
   <4>5. Cardinality(Upto(h)) = Cardinality(Upto(a)) + 1 BY <1>4, <3>1, <4>3, FS_AddElement
   <4>6. li'.after = h /\ li'.shown = Append(li.shown, Summary(h)) BY <2>4, <3>4
   <4>7. After(li.after)' = After(h) /\ Upto(li.after)' = Upto(h) BY <1>1, <4>6 DEF After, Upto
   <4>8. li.was[Len(li.shown) + 1] = Summary(h) BY <3>1, <4>3, <4>4 DEF Listed
   <4>9. Summary(h) \in Summaries BY <1>3, <4>4
   <4> HIDE DEF h
   <4>10. /\ li'.shown \in Seq(Summaries) /\ Len(li'.shown) = Len(li.shown) + 1
          /\ \A i \in 1..Len(li'.shown) : li'.shown[i] = li.was[i] BY <3>1, <4>6, <4>8, <4>9
   <4>11. Len(li.refs) <= 1 => After(h) = {}
    <5> SUFFICES ASSUME Len(li.refs) <= 1 PROVE After(h) = {} OBVIOUS
    <5>0. Cardinality(After(a)) \in Nat /\ IsFiniteSet(After(a)) BY <1>4, <3>1
    <5>1. Cardinality(After(a)) = 1 BY <3>2, <4>1, <5>0
    <5>2. IsFiniteSet(After(h)) /\ Cardinality(After(h)) = 0
     <6>1. IsFiniteSet(After(a) \ {h}) /\ Cardinality(After(a) \ {h}) = Cardinality(After(a)) - 1
       BY <4>3, <5>0, FS_RemoveElement
     <6> QED BY <4>3, <5>1, <6>1
    <5> QED BY <5>2, FS_EmptySet
   <4> QED BY <2>3, <2>4, <3>1, <4>3, <4>5, <4>6, <4>7, <4>10, <4>11 DEF Paging, ListingTrue
  <3> QED BY <3>3, <3>4
 <2> QED BY <2>5, <2>6
<1>9. CASE ListVerify
 <2>1. /\ li.pc = "verify" /\ noted' = noted
       /\ li' = [li EXCEPT !.pc = IF Touched THEN "changed" ELSE IF Len(li.refs) > 1 THEN "next" ELSE "done"]
   BY <1>9 DEF ListVerify, Listing
 <2>2. li' = [pc |-> IF Touched THEN "changed" ELSE IF Len(li.refs) > 1 THEN "next" ELSE "done",
              after |-> li.after, refs |-> li.refs, shown |-> li.shown, was |-> li.was]
   BY <2>1 DEF Paging
 <2>3. Listed => Listed' BY <1>1, <2>2 DEF Listed
 <2>4. After(li.after)' = After(li.after) /\ Upto(li.after)' = Upto(li.after)
   BY <1>1, <2>2 DEF After, Upto
 <2>5. /\ li'.after = li.after /\ li'.shown = li.shown /\ li'.was = li.was /\ li'.refs = li.refs
       /\ li'.pc = IF Touched THEN "changed" ELSE IF Len(li.refs) > 1 THEN "next" ELSE "done"
       /\ li' = [pc |-> li'.pc, after |-> li'.after, refs |-> li'.refs, shown |-> li'.shown, was |-> li'.was]
   BY <2>2
 <2>6. ASSUME li'.pc = "done" PROVE li'.shown = li'.was
  <3>1. "list" \in noted /\ After(li.after) = {} BY <2>1, <2>5, <2>6 DEF Paging, Touched
  <3>2. Upto(li.after) = Drafts
   <4>1. li.after \in Nat BY <2>1, <3>1 DEF Paging
   <4>2. \A r \in Drafts : r <= li.after BY <1>2, <3>1, <4>1 DEF After
   <4> QED BY <4>2 DEF Upto
  <3>3. Listed /\ Len(li.shown) = Cardinality(Drafts) /\ (\A i \in 1..Len(li.shown) : li.shown[i] = li.was[i])
        /\ li.shown \in Seq(Summaries) BY <2>1, <3>1, <3>2 DEF Paging
  <3>4. li.shown = [i \in 1..Len(li.shown) |-> li.shown[i]] BY <3>3
  <3>5. li.shown = li.was BY <3>3, <3>4 DEF Listed
  <3> QED BY <2>5, <3>5
 <2>7. "list" \in noted => li'.after \in Nat /\ li'.shown \in Seq(Summaries) BY <2>1, <2>5 DEF Paging
 <2>8. li'.pc = "next" => li.pc = "verify" BY <2>1
 <2>9. li'.pc \notin {"off", "select", "read", "verify"} BY <2>5
 <2> QED BY <2>1, <2>3, <2>4, <2>5, <2>6, <2>7, <2>9 DEF Paging, ListingTrue
<1> QED BY <1>5, <1>6, <1>7, <1>8, <1>9 DEF ListStep

\* A command is killed.
LEMMA KilledShown ==
  ASSUME DraftsInv, SweptInv, ShownInv, Killed
  PROVE  ShownInv'
<1>0. shelf' = shelf /\ disk' = disk /\ noted' = noted /\ li' = li /\ stage' = stage BY DEF Killed, SameShelf
<1>1. NothingNew /\ Unnoticed BY <1>0, SameQuiet
<1>2. Paging' BY <1>0, <1>1, PagingStays DEF ShownInv
<1>3. AdoptReports'
 <2>1. CASE ad' = ad BY <1>0, <1>1, <2>1, AdoptStays DEF ShownInv
 <2>2. CASE ad.pc \notin Stopped /\ ad' = [ad EXCEPT !.pc = "done", !.result = "killed"]
  <3>1. ad \in AdoptRuns BY Parts DEF RunsTyped
  <3>2. ad'.pc = "done" /\ ad'.result = "killed" /\ ad'.started = ad.started BY <2>2, <3>1 DEF AdoptRuns
  <3> QED BY <1>0, <3>2 DEF ShownInv, AdoptReports, HasDoc
 <2> QED BY <2>1, <2>2 DEF Killed
<1>4. Inventory'
 <2>1. CASE pr' = pr BY Parts, <1>0, <1>1, <2>1, InventoryStays DEF ShownInv
 <2>2. CASE pr' = [[pr EXCEPT !.pc = "done", !.todo = {}, !.ref = None] EXCEPT !.result = "killed"]
  <3>1. pr \in PruneRuns BY Parts DEF RunsTyped
  <3>2. pr'.pc = "done" /\ pr'.result = "killed" /\ pr'.kind = pr.kind /\ pr'.orphans = pr.orphans BY <2>2, <3>1 DEF PruneRuns
  <3> QED BY <3>2 DEF ShownInv, Inventory
 <2> QED BY <2>1, <2>2 DEF Killed, PruneTo
<1> QED BY <1>2, <1>3, <1>4 DEF ShownInv

\* The power fails.
LEMMA PowerShown ==
  ASSUME DraftsInv, ShownInv, PowerFails
  PROVE  ShownInv'
<1>0. /\ noted' = {} /\ disk' = shelf' /\ stage' = stage
      /\ HasDoc(New)' => HasDoc(New) \/ disk[New].doc.ver # "none"
      /\ shelf'[New].dir => shelf[New].dir \/ disk[New].dir BY PowerQuiet DEF PowerFails
<1>1. Paging'
 <2>1. li' = li \/ li' = [li EXCEPT !.pc = "changed"] BY DEF PowerFails
 <2>2. /\ li'.pc \in {li.pc, "changed"} /\ li'.after = li.after /\ li'.shown = li.shown /\ li'.was = li.was
       /\ li' = [pc |-> li'.pc, after |-> li'.after, refs |-> li'.refs, shown |-> li'.shown, was |-> li'.was]
   BY <2>1 DEF ShownInv, Paging
 <2> QED BY <1>0, <2>2 DEF ShownInv, Paging, ListingTrue
<1>2. AdoptReports'
 <2>1. CASE ad' = ad BY <1>0, <2>1 DEF ShownInv, AdoptReports, HasDoc
 <2>2. CASE ad' = [ad EXCEPT !.pc = "done", !.result = "killed"]
  <3>1. ad \in AdoptRuns BY Parts DEF RunsTyped
  <3>2. ad'.pc = "done" /\ ad'.result = "killed" /\ ad'.started = ad.started BY <2>2, <3>1 DEF AdoptRuns
  <3> QED BY <1>0, <3>2 DEF ShownInv, AdoptReports, HasDoc
 <2> QED BY <2>1, <2>2 DEF PowerFails
<1>3. Inventory'
 <2>1. CASE pr' = pr BY <1>0, <2>1 DEF ShownInv, Inventory
 <2>2. CASE pr' = [[pr EXCEPT !.pc = "done", !.todo = {}, !.ref = None] EXCEPT !.result = "killed"]
  <3>1. pr \in PruneRuns BY Parts DEF RunsTyped
  <3>2. pr'.pc = "done" /\ pr'.result = "killed" /\ pr'.kind = pr.kind /\ pr'.orphans = pr.orphans BY <2>2, <3>1 DEF PruneRuns
  <3> QED BY <3>2 DEF ShownInv, Inventory
 <2> QED BY <2>1, <2>2 DEF PowerFails, PruneTo
<1> QED BY <1>1, <1>2, <1>3 DEF ShownInv

\* Who moves in a step.
LEMMA OneMoves ==
  /\ RemovalStep => ad' = ad /\ stage' = stage /\ pr' = pr /\ li' = li
  /\ AdoptStep => pr' = pr /\ li' = li
  /\ EditStep => ad' = ad /\ stage' = stage /\ pr' = pr /\ li' = li
  /\ PruneStep => ad' = ad /\ stage' = stage /\ li' = li
  /\ ListStep => shelf' = shelf /\ disk' = disk /\ ad' = ad /\ stage' = stage /\ pr' = pr /\ noted' \subseteq noted \cup {"list"}
  /\ Age => ad' = ad /\ stage' = stage /\ pr' = pr /\ li' = li
<1>1. RemovalStep => ad' = ad /\ stage' = stage /\ pr' = pr /\ li' = li
  BY DEF RemovalStep, RemoveDoc, SyncGone, DropClaims, DropFile, DropDir, DropLock, RemovalFails, Removal
<1>2. AdoptStep => pr' = pr /\ li' = li
  BY DEF AdoptStep, AdoptStart, AdoptStage, AdoptPrepare, AdoptLease, AdoptMkdir, CopySynced, AdoptTemp, AdoptRename,
     AdoptSync, AdoptFinish, CopyOpen, CopyWrite, EditStaged, Adopting
<1>3. EditStep => ad' = ad /\ stage' = stage /\ pr' = pr /\ li' = li
  BY DEF EditStep, EditStart, EditLease, EditRead, EditRename, EditSync, EditDone, Editing
<1>4. PruneStep => ad' = ad /\ stage' = stage /\ li' = li
  BY DEF PruneStep, PruneStart, PruneVerify, DryOrphans, DryDone, DryEnds, PruneDone, PruneLook, DryOrphan,
     PruneRead, PruneNext, SweepNext, PruneLease, SweepLease, Sweep, SweepLock, Pruning
<1>5. ListStep => shelf' = shelf /\ disk' = disk /\ ad' = ad /\ stage' = stage /\ pr' = pr /\ noted' \subseteq noted \cup {"list"}
  BY DEF ListStep, ListStart, ListContinue, ListSelect, ListRead, ListVerify, Listing, Aside
<1>6. Age => ad' = ad /\ stage' = stage /\ pr' = pr /\ li' = li BY DEF Age
<1> QED BY <1>1, <1>2, <1>3, <1>4, <1>5, <1>6

\* Every step keeps what reports and listings show.
LEMMA ShownStep ==
  ASSUME DraftsInv, SweptInv, ShownInv, [ShelfNext]_shelfVars
  PROVE  ShownInv'
<1>0. AdoptReports /\ Inventory /\ Paging /\ RunsTyped BY Parts DEF ShownInv
<1>1. CASE RemovalStep \/ EditStep \/ Age
 <2>1. NothingNew /\ Unnoticed BY <1>1, RemovalQuiet, EditQuiet, AgeQuiet
 <2>2. noted' \subseteq noted BY <1>1, LearnsNothing
 <2> QED BY <1>0, <1>1, <2>1, <2>2, OneMoves, AdoptStays, InventoryStays, PagingStays DEF ShownInv
<1>2. CASE AdoptStep
 <2>1. Unnoticed /\ noted' \subseteq noted BY <1>2, AdoptUnnoticed, LearnsNothing
 <2> QED BY <1>0, <1>2, <2>1, OneMoves, AdoptReported, InventoryStays, PagingStays DEF ShownInv
<1>3. CASE PruneStep
 <2>1. NothingNew /\ Unnoticed /\ noted' \subseteq noted \cup {"prune"} BY <1>3, PruneQuiet, PruneLearns
 <2> QED BY <1>0, <1>3, <2>1, OneMoves, AdoptStays, PruneInventory, PagingStays DEF ShownInv
<1>4. CASE ListStep
 <2>1. NothingNew /\ Unnoticed BY <1>4, OneMoves, SameQuiet
 <2> QED BY <1>0, <1>4, <2>1, OneMoves, AdoptStays, InventoryStays, ListPaging DEF ShownInv
<1>5. CASE Killed \/ PowerFails BY <1>5, KilledShown, PowerShown
<1>6. CASE UNCHANGED shelfVars
 <2>1. /\ shelf' = shelf /\ disk' = disk /\ noted' = noted /\ ad' = ad /\ stage' = stage /\ pr' = pr /\ li' = li
   BY <1>6 DEF shelfVars
 <2>2. NothingNew /\ Unnoticed BY <2>1, SameQuiet
 <2> QED BY <1>0, <2>1, <2>2, AdoptStays, InventoryStays, PagingStays DEF ShownInv
<1> QED BY <1>1, <1>2, <1>3, <1>4, <1>5, <1>6 DEF ShelfNext

(* What an adoption, a dry run and a listing report is so: an adoption that  *)
(* failed names what it left, a dry run that calls itself stable names what  *)
(* a prune would take, and pages put together are the shelf at the moment    *)
(* the listing began (finishDraftAdoption, finalizeDraftPruneDryRun,         *)
(* ListDrafts).                                                              *)
THEOREM ShelfAlwaysShown == ShelfSpec => []ShelfShown
<1>1. ShelfInit => SweptInv
 <2> SUFFICES ASSUME ShelfInit PROVE SweptInv OBVIOUS
 <2>1. pr.pc = "off" /\ ~pr.quiet /\ pr.result = None BY DEF ShelfInit
 <2> QED BY Names, <2>1 DEF SweptInv, Alone
<1>2. ShelfInit => ShownInv
 <2> SUFFICES ASSUME ShelfInit PROVE ShownInv OBVIOUS
 <2>1. /\ noted = {} /\ disk = shelf /\ pr.pc = "off" /\ pr.orphans = {} /\ pr.result = None
       /\ ad = [pc |-> "off", made |-> FALSE, started |-> FALSE, retained |-> FALSE, result |-> None]
       /\ li = [pc |-> "off", after |-> 0, refs |-> <<>>, shown |-> <<>>, was |-> <<>>]
   BY DEF ShelfInit
 <2>2. shelf[New] = Gone BY Names DEF ShelfInit
 <2>3. ~HasDoc(New) /\ ~shelf[New].dir BY <2>2 DEF HasDoc, Gone, NoDoc
 <2>4. AdoptReports BY Names, <2>1, <2>3 DEF AdoptReports, HasDoc
 <2>5. Inventory BY Names, <2>1 DEF Inventory
 <2>6. Paging BY <2>1 DEF Paging, ListingTrue
 <2> QED BY <2>4, <2>5, <2>6 DEF ShownInv
<1>3. DraftsInv /\ SweptInv /\ [ShelfNext]_shelfVars => SweptInv' BY SweptStep
<1>4. DraftsInv /\ SweptInv /\ ShownInv /\ [ShelfNext]_shelfVars => ShownInv' BY ShownStep
<1>5. DraftsInv /\ ShownInv => ShelfShown
 <2> SUFFICES ASSUME DraftsInv, ShownInv PROVE ReportsTrue /\ ListingTrue BY DEF ShelfShown
 <2>1. ad.retained \in BOOLEAN /\ ad.started \in BOOLEAN BY Parts DEF RunsTyped, AdoptRuns
 <2> QED BY <2>1 DEF ShownInv, AdoptReports, Inventory, Paging, ReportsTrue
<1> QED BY <1>1, <1>2, <1>3, <1>4, <1>5, DraftsInvariant, PTL DEF ShelfSpec
=============================================================================
