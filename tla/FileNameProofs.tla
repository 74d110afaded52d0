-------------------------- MODULE FileNameProofs --------------------------
(***************************************************************************)
(* Proofs about the two protocols that act on file names which belong to   *)
(* nobody, for any number of processes and any supply of messages' chunks, *)
(* changes and faults.                                                     *)
(*                                                                         *)
(* The attachment save (AttachmentSave) looks at the file under a name     *)
(* before it publishes or removes it, while other processes unlink,        *)
(* replace and write what stands there; what it saves it reads by the      *)
(* steps of MessageSource.  The draft lease (DraftLease) compares inodes   *)
(* after the flock and before the unlink.  Each part states its inductive  *)
(* invariant, one lemma per action, and the theorems that follow.          *)
(***************************************************************************)
EXTENDS DraftLease, AttachmentSave, FiniteSetTheorems, TLAPS

USE SourceAssumption
----------------------------------------------------------------------------
(* Names and places. *)

(* The Message-ID header of m in a session with ids of kind id (RfcId). *)
Rfc(id, m) ==
  CASE id = "shared" /\ m \in {"a", "b"} -> "shared"
    [] id = "none" /\ m = "a" -> None
    [] OTHER -> m
Alike(id, m, n) == m = n \/ (Rfc(id, m) # None /\ Rfc(id, m) = Rfc(id, n))

(* No message, name or key is None. *)
LEMMA NoneIsNone == /\ None \notin Msg /\ None \notin Keys
                    /\ \A n \in {"shared", "full", "partial", "local", "imap", "cache"} : n # None
  BY DEF Msg

(* The message that has UID u while UIDVALIDITY is v. *)
Placed(v, u) == IF v = 1 THEN Mail(u) ELSE Mail((u % 3) + 1)

(* Before a renumbering a UID names the message first numbered so, after it
   the next one (Rotated). *)
LEMMA PlacedIs ==
  /\ Mail(1) = "a" /\ Mail(2) = "b" /\ Mail(3) = "c"
  /\ Placed(1, 1) = "a" /\ Placed(1, 2) = "b" /\ Placed(1, 3) = "c"
  /\ Placed(2, 1) = "b" /\ Placed(2, 2) = "c" /\ Placed(2, 3) = "a"
<1>1. Mail(1) = "a" /\ Mail(2) = "b" /\ Mail(3) = "c" BY DEF Mail, Msg, First
<1> QED BY <1>1 DEF Placed

(* The model's comparison of messages, for the session at hand. *)
LEMMA SameIsAlike ==
  ASSUME NEW m, NEW n PROVE RfcId(m) = Rfc(q.id, m) /\ (Same(m, n) <=> Alike(q.id, m, n))
  BY DEF RfcId, Rfc, Same, Alike

(* Being alike is symmetric and transitive. *)
LEMMA AlikeIs ==
  ASSUME NEW id, NEW m, NEW n, NEW o
  PROVE  /\ Alike(id, m, m)
         /\ Alike(id, m, n) => Alike(id, n, m)
         /\ Alike(id, m, n) /\ Alike(id, n, o) => Alike(id, m, o)
         /\ Rfc(id, m) = Rfc(id, n) /\ Rfc(id, m) # None => Alike(id, m, n) BY DEF Alike

(* Chunks of a page are numbered from one. *)
LEMMA ChunkIs ==
  /\ Chunks \in Int
  /\ \A m \in Msg : ChunkOf(m) \in Nat \ {0}
<1>1. Cardinality(Msg) \in Int
 <2>1. IsFiniteSet({}) /\ IsFiniteSet({} \cup {"a"}) /\ IsFiniteSet(({} \cup {"a"}) \cup {"b"})
       /\ IsFiniteSet((({} \cup {"a"}) \cup {"b"}) \cup {"c"}) BY FS_EmptySet, FS_AddElement
 <2>2. Msg = (({} \cup {"a"}) \cup {"b"}) \cup {"c"} BY DEF Msg
 <2> QED BY <2>1, <2>2, FS_CardinalityType
<1>2. Chunks \in Int BY <1>1 DEF Chunks
<1>3. \A i \in Nat : i \div Chunk \in Nat OBVIOUS
<1>4. \A m \in Msg : First[m] - 1 \in Nat BY DEF First, Msg
<1> QED BY <1>2, <1>3, <1>4 DEF ChunkOf
----------------------------------------------------------------------------
(* The inductive invariant of the reading. *)

Ids == Msg \cup {"shared", None}
RefType == [m : Msg, uid : Uid, v : {0, 1}, id : Ids]
ReaderSteps ==
  {"idle", "resolve", "open", "check", "use", "again", "target", "validity", "identify",
   "search", "planned", "fetch", "membership", "localrow", "flags", "write", "done"}
Reader ==
  [pc : ReaderSteps, ref : RefType, try : {1, 2}, open : {None, "full", "partial"},
   key : Keys \cup {None}, uid : 0..3, v : 0..2, id : Ids, read : 0..2, remote : BOOLEAN,
   got : Msg \cup {None}, complete : BOOLEAN, err : BOOLEAN,
   from : {None, "local", "imap", "cache"}, local : Msg \cup {None},
   flags : {None, "unverified", "missing", "observed"}]
Session ==
  [kind : {"read", "server", "page", "save"}, want : {"full", "raw", "headers"},
   imap : BOOLEAN, layout : {"physical", "label"}, id : {"own", "none", "shared"}]

\* A page has a reader for every row, any other session has one.
SessionTyped ==
  /\ q \in Session
  /\ r \in [IF q.kind = "page" THEN Msg ELSE {"a"} -> Reader]
StoreTyped ==
  /\ srv \in [v : {1, 2}, at : [Uid -> Msg \cup {None}]]
  /\ idx \in [at : [Msg -> {"here", "moved", "gone"}], uid : [Msg -> Uid], v : {1, 2}]
  /\ torn \in BOOLEAN
PageTyped ==
  /\ page \in [chunk : Nat, spent : Nat, round : {0, 1, 2}]
  /\ page.chunk = 0 \/ page.chunk <= Chunks
  /\ q.kind # "page" => page.round = 0

\* What is where.
ServerPlaced == \A u \in Uid : srv.at[u] \in {None, Placed(srv.v, u)}
IndexPlaced == \A m \in Msg : idx.at[m] # "gone" => Placed(idx.v, idx.uid[m]) = m

\* The reference and the Message-ID a reader goes by are of the message asked for.
RefRight(x, s) ==
  /\ x.ref.v = 1 => Placed(1, x.ref.uid) = x.ref.m
  /\ x.ref.id \in {None, Rfc(s.id, x.ref.m)} /\ x.id \in {None, Rfc(s.id, x.ref.m)}
  /\ x.key # None => x.key[1] = x.ref.m
  /\ s.kind = "server" => x.ref.v = 1 /\ x.ref.uid = 1

Answered == {"membership", "localrow", "flags"}

\* Nothing is answered before the end.
Untouched(x) ==
  x.pc \notin Answered \cup {"write", "done"} =>
    x.got = None /\ ~x.complete /\ ~x.err /\ x.from = None /\ x.local = None

\* The steps a session of a kind takes, and what they rely on.
StepRight(x, s) ==
  /\ x.pc = "check" => x.open # None
  /\ x.pc = "use" /\ s.kind = "read" => x.open # None
  /\ x.pc \in Answered => s.kind = "server" /\ x.got # None /\ x.complete /\ ~x.err /\ x.from = "imap"
  /\ x.pc \in {"membership", "localrow"} => x.local = None
  /\ x.pc = "write" => s.kind = "save" /\ x.got # None
  /\ x.pc = "again" => s.kind = "save"
  /\ x.pc = "planned" => s.kind = "page"
  /\ x.pc = "idle" => s.kind \in {"page", "save"}
  /\ s.kind = "server" => x.pc \in Answered \cup {"fetch", "done"}
  /\ s.kind = "page" => x.pc # "fetch"

\* A reader that is done has an answer or an error, and a whole one if it can.
AnswerWhole(x, s) ==
  x.pc = "done" =>
    /\ x.got = None => x.err
    /\ x.complete => x.got # None /\ (x.from = "local" => x.open = "full")
    /\ s.imap /\ s.kind \in {"read", "server"} /\ s.want # "headers" /\ ~x.err => x.complete

\* A UID goes with a UIDVALIDITY under which it names the message.
TargetRight(x, s, v, t) ==
  /\ x.pc \in {"idle", "resolve", "open", "check", "use", "again", "target"} => x.uid = 0 /\ x.v = 0
  /\ x.pc = "validity" =>
       x.uid = 0 /\ (x.ref.v = 0 => t \/ Placed(v, x.ref.uid) = x.ref.m)
  /\ x.pc = "identify" => x.v = 0
  /\ x.pc = "search" => x.uid = 0 /\ x.id # None
  /\ x.pc \in {"fetch", "planned"} =>
       /\ x.uid # 0
       /\ x.v # 0 => t \/ Alike(s.id, Placed(x.v, x.uid), x.ref.m)
       /\ x.v = 0 => x.id # None
  /\ x.pc = "localrow" /\ s.layout = "physical" => t \/ v = 1

\* What was found is the message asked for.
AnswerRight(x, s, t) ==
  t \/ /\ x.got # None => Alike(s.id, x.got, x.ref.m)
       /\ x.local # None => Alike(s.id, x.local, x.got)

\* What is true of a reader x, in session s, when the index has UIDVALIDITY v.
Known(x, s, t) ==
  /\ RefRight(x, s) /\ Untouched(x) /\ StepRight(x, s) /\ AnswerWhole(x, s) /\ AnswerRight(x, s, t)
Sound(x, s, v, t) == Known(x, s, t) /\ TargetRight(x, s, v, t)

ReadersSound == \A p \in DOMAIN r : Sound(r[p], q, idx.v, torn) /\ r[p].ref.m = p

CacheSound ==
  \A e \in cache : e.key \in Keys /\ e.got \in Msg /\ (torn \/ Alike(q.id, e.got, e.key[1]))

\* What rows took of the readers f of a page, and the rows of the chunks before c.
TookOf(f, rows) ==
  LET part(m) == IF m \in rows THEN Charge(f[m]) ELSE 0
  IN  part("a") + part("b") + part("c")
UpTo(c) == {n \in Msg : ChunkOf(n) < c}

\* Rows before chunk c are through, rows after it have not begun; a row begins,
\* and takes something, only while the rows before it left some of the budget.
RowPaid(f, m, c) ==
  /\ f[m].pc = "idle" => Charge(f[m]) = 0
  /\ ChunkOf(m) < c => f[m].pc \in {"planned", "done"}
  /\ ChunkOf(m) > c => f[m].pc = "idle" \/ (f[m].pc = "done" /\ Charge(f[m]) = 0)
  /\ Charge(f[m]) > 0 \/ f[m].pc \notin {"idle", "done"} => TookOf(f, UpTo(ChunkOf(m))) < Budget
PageSound(f, pg) ==
  /\ pg.chunk < Chunks => pg.spent = TookOf(f, UpTo(pg.chunk))
  /\ \A m \in Msg : RowPaid(f, m, pg.chunk)
BudgetInv == q.kind = "page" => PageSound(r, page)

ReadInv ==
  /\ SessionTyped /\ StoreTyped /\ PageTyped /\ ServerPlaced /\ IndexPlaced
  /\ ReadersSound /\ CacheSound /\ BudgetInv
----------------------------------------------------------------------------
(* The values a reader takes. *)

Silent(x) == x.pc \notin Answered \cup {"write", "done"}

(* A reader that gives up without an answer is sound (Refuse). *)
LEMMA RefuseSound ==
  ASSUME NEW x \in Reader, NEW s, NEW v, NEW t, Known(x, s, t), Silent(x)
  PROVE  /\ Refuse(x) \in Reader /\ Sound(Refuse(x), s, v, t) /\ Refuse(x).ref = x.ref
         /\ Refuse(x).pc = "done" /\ Charge(Refuse(x)) = Charge(x)
<1> DEFINE y == Refuse(x)
<1>1. /\ y \in Reader /\ y.pc = "done" /\ y.err = TRUE
      /\ \A f \in {"ref", "id", "key", "got", "local", "read", "remote", "complete", "from"} : y[f] = x[f]
  BY DEF Refuse, Reader, ReaderSteps
<1>2. y.ref = x.ref /\ Charge(y) = Charge(x) BY <1>1 DEF Charge
<1>3. RefRight(y, s) BY <1>1 DEF Sound, Known, RefRight
<1>4. Untouched(y) /\ StepRight(y, s) BY <1>1 DEF Sound, Known, Untouched, StepRight, Answered
<1>5. AnswerWhole(y, s) BY <1>1 DEF Sound, Known, AnswerWhole, Untouched, Silent
<1>6. TargetRight(y, s, v, t) /\ AnswerRight(y, s, t)
  BY <1>1 DEF Sound, Known, TargetRight, AnswerRight
<1> QED BY <1>1, <1>2, <1>3, <1>4, <1>5, <1>6 DEF Sound, Known

(* A reader that goes on keeps what it knows; only its step and its target
   have to be looked at. *)
LEMMA AdvanceSound ==
  ASSUME NEW x \in Reader, NEW y \in Reader, NEW s, NEW v, NEW t,
         Known(x, s, t), Silent(x), Silent(y), y.pc # "done",
         \A f \in {"ref", "got", "complete", "err", "from", "local"} : y[f] = x[f],
         y.key # None => y.key[1] = x.ref.m,
         y.id \in {None, Rfc(s.id, x.ref.m)},
         StepRight(y, s), TargetRight(y, s, v, t)
  PROVE  Sound(y, s, v, t)
<1>1. RefRight(y, s) BY DEF Sound, Known, RefRight
<1>2. Untouched(y) BY DEF Sound, Known, Untouched, Silent
<1>3. AnswerWhole(y, s) /\ AnswerRight(y, s, t) BY DEF AnswerWhole, Sound, Known, AnswerRight
<1> QED BY <1>1, <1>2, <1>3 DEF Sound, Known

(* A reader that looks up an identity knows as much as before. *)
LEMMA KnownKept ==
  ASSUME NEW x \in Reader, NEW y \in Reader, NEW s, NEW t, Known(x, s, t),
         \A f \in {"pc", "ref", "open", "got", "complete", "err", "from", "local"} : y[f] = x[f],
         y.key # None => y.key[1] = x.ref.m,
         y.id \in {None, Rfc(s.id, x.ref.m)}
  PROVE  Known(y, s, t)
<1>1. RefRight(y, s) /\ Untouched(y) BY DEF Known, RefRight, Untouched
<1>2. StepRight(y, s) BY DEF Known, StepRight
<1>3. AnswerWhole(y, s) /\ AnswerRight(y, s, t) BY DEF Known, AnswerWhole, AnswerRight
<1> QED BY <1>1, <1>2, <1>3 DEF Known

(* A reader may always take the local message, whole or not, when it reports
   an error or nothing better was asked for (Locally). *)
LEMMA LocallySound ==
  ASSUME NEW x \in Reader, NEW s, NEW v, NEW t, Known(x, s, t), Silent(x),
         x.ref.m \in Msg, x.open # None, NEW e \in BOOLEAN,
         e \/ x.open = "full" \/ ~s.imap \/ s.want = "headers" \/ s.kind = "page",
         s.kind # "server"
  PROVE  LET y == [Locally(x) EXCEPT !.err = e]
         IN  y \in Reader /\ Sound(y, s, v, t) /\ y.ref = x.ref /\ y.pc = "done" /\ Charge(y) = Charge(x)
<1> DEFINE y == [Locally(x) EXCEPT !.err = e]
<1>1. /\ y \in Reader /\ y.pc = "done" /\ y.err = e /\ y.from = "local" /\ y.got = x.ref.m
      /\ y.complete = (x.open = "full")
      /\ \A f \in {"ref", "id", "key", "local", "read", "remote", "open"} : y[f] = x[f]
 <2> DEFINE b == x.open = "full"
            w == [x EXCEPT !.pc = "done", !.got = x.ref.m, !.from = "local", !.complete = b]
 <2>1. b \in BOOLEAN OBVIOUS
 <2> HIDE DEF b
 <2>2. /\ w \in Reader /\ w.pc = "done" /\ w.from = "local" /\ w.got = x.ref.m /\ w.complete = b
       /\ \A f \in {"ref", "id", "key", "local", "read", "remote", "open"} : w[f] = x[f]
   BY <2>1 DEF Reader, ReaderSteps
 <2>3. y = [w EXCEPT !.err = e] BY DEF Locally, b
 <2> HIDE DEF w, y
 <2> QED BY <2>2, <2>3 DEF Reader, b
<1> HIDE DEF y
<1>2. y.ref = x.ref /\ Charge(y) = Charge(x) /\ y.got # None BY <1>1, NoneIsNone DEF Charge
<1>3. RefRight(y, s) BY <1>1 DEF Sound, Known, RefRight
<1>4. Untouched(y) /\ StepRight(y, s) BY <1>1 DEF Sound, Known, Untouched, StepRight, Answered
<1>5. AnswerWhole(y, s) BY <1>1, <1>2 DEF Sound, Known, AnswerWhole
<1>6. TargetRight(y, s, v, t) BY <1>1 DEF Sound, Known, TargetRight
<1>7. AnswerRight(y, s, t) BY <1>1, AlikeIs DEF Sound, Known, AnswerRight, Untouched, Silent
<1>8. Sound(y, s, v, t) BY <1>3, <1>4, <1>5, <1>6, <1>7 DEF Sound, Known
<1> QED BY <1>1, <1>2, <1>8 DEF y

\* What a step of one reader x may make of it.
Follows(x, y) ==
  y \in Reader /\ Sound(y, q, idx.v, torn) /\ y.ref = x.ref /\ y.pc # "idle"

(* A read that has no local source asks the server or ends (Hydrate, Lost). *)
LEMMA LostFollows ==
  ASSUME q \in Session, NEW x \in Reader, Sound(x, q, idx.v, torn), x.pc \in {"resolve", "open", "use", "again"}
  PROVE  Follows(x, Hydrate(x)) /\ (x.pc \in {"resolve", "open"} => Follows(x, Lost(x)))
<1>1. Silent(x) BY DEF Silent, Answered
<1>2. \A p \in {"target", "use", "again"} :
        (p = "use" => q.kind = "page") /\ (p = "again" => q.kind = "save") /\ q.kind # "server" =>
          Follows(x, [x EXCEPT !.pc = p])
 <2> SUFFICES ASSUME NEW p \in {"target", "use", "again"}, p = "use" => q.kind = "page",
                     p = "again" => q.kind = "save", q.kind # "server"
              PROVE  Follows(x, [x EXCEPT !.pc = p]) OBVIOUS
 <2> DEFINE y == [x EXCEPT !.pc = p]
 <2>1. y \in Reader /\ y.pc = p /\ \A f \in DOMAIN x \ {"pc"} : y[f] = x[f]
   BY DEF Reader, ReaderSteps
 <2>2. DOMAIN x = {"pc", "ref", "try", "open", "key", "uid", "v", "id", "read", "remote", "got",
                   "complete", "err", "from", "local", "flags"} BY DEF Reader
 <2> HIDE DEF y
 <2>3. StepRight(y, q) BY <2>1, <2>2 DEF StepRight, Sound, Known, Answered
 <2>4. TargetRight(y, q, idx.v, torn) BY <2>1, <2>2 DEF TargetRight, Sound, Known
 <2>5. Silent(y) /\ y.pc # "done" BY <2>1 DEF Silent, Answered
 <2>6. Sound(y, q, idx.v, torn) /\ y.ref = x.ref
   BY <1>1, <2>1, <2>2, <2>3, <2>4, <2>5, AdvanceSound DEF Sound, Known, RefRight
 <2> QED BY <2>1, <2>6 DEF Follows, y
<1>3. Follows(x, Refuse(x)) BY <1>1, RefuseSound DEF Follows, Sound
<1>4. q.kind # "server" /\ q.imap \in BOOLEAN
  BY DEF Sound, Known, StepRight, Answered, Session
<1>5. Follows(x, Hydrate(x)) BY <1>2, <1>3, <1>4 DEF Hydrate
<1>6. Lost(x) \in {Hydrate(x), [x EXCEPT !.pc = "use"], [x EXCEPT !.pc = "again"]}
      /\ (q.kind = "page" => Lost(x) = [x EXCEPT !.pc = "use"])
      /\ (q.kind # "page" /\ q.kind = "save" => Lost(x) = [x EXCEPT !.pc = "again"])
      /\ (q.kind # "page" /\ q.kind # "save" => Lost(x) = Hydrate(x)) BY Zenon DEF Lost
<1> QED BY <1>2, <1>4, <1>5, <1>6

(* What is left when the server does not help (Unhydrated). *)
LEMMA UnhydratedFollows ==
  ASSUME q \in Session, NEW x \in Reader, Known(x, q, torn), x.ref.m \in Msg,
         Silent(x), x.pc # "done"
  PROVE  Follows(x, Unhydrated(x)) /\ Unhydrated(x).pc = "done" /\ Charge(Unhydrated(x)) = Charge(x)
<1>1. Follows(x, Refuse(x)) /\ Refuse(x).pc = "done" /\ Charge(Refuse(x)) = Charge(x)
  BY RefuseSound DEF Follows
<1>2. ASSUME x.open # None, q.kind # "server"
      PROVE  LET y == [Locally(x) EXCEPT !.err = TRUE]
             IN  Follows(x, y) /\ y.pc = "done" /\ Charge(y) = Charge(x)
  BY <1>2, LocallySound DEF Follows
<1>3. x.open # None /\ (q.kind = "page" \/ (q.kind = "read" /\ q.want = "full")) => q.kind # "server"
  OBVIOUS
<1> QED BY <1>1, <1>2, <1>3 DEF Unhydrated
----------------------------------------------------------------------------
(* One step of one reader. *)

Moves(p) ==
  /\ q.kind = "page" => r[p].pc \notin {"idle", "planned", "done"}
  /\ \E y : Follows(r[p], y) /\ r' = [r EXCEPT ![p] = y]

\* The fields of a reader but its step.
Kept == {"ref", "try", "open", "key", "uid", "v", "id", "read", "remote", "got", "complete", "err",
         "from", "local", "flags"}

(* What the invariant says of one reader. *)
LEMMA ReaderIs ==
  ASSUME ReadInv, NEW p \in DOMAIN r
  PROVE  /\ q \in Session /\ p \in Msg /\ r[p] \in Reader /\ r[p].ref.m = p /\ r[p].ref \in RefType
         /\ Sound(r[p], q, idx.v, torn) /\ idx.v \in {1, 2} /\ torn \in BOOLEAN
<1>1. q \in Session /\ p \in Msg /\ r[p] \in Reader BY DEF ReadInv, SessionTyped, Msg
<1>2. r[p].ref \in RefType /\ idx.v \in {1, 2} /\ torn \in BOOLEAN
  BY <1>1 DEF Reader, ReadInv, StoreTyped
<1> QED BY <1>1, <1>2 DEF ReadInv, ReadersSound

(* A step that changes only the step, or also the file that was opened and the
   number of the attempt, is an advance. *)
LEMMA OnlyStepFollows ==
  ASSUME NEW x \in Reader, NEW y \in Reader, Sound(x, q, idx.v, torn), Silent(x), Silent(y),
         y.pc \notin {"idle", "done"}, \A f \in Kept \ {"try", "open"} : y[f] = x[f],
         StepRight(y, q), TargetRight(y, q, idx.v, torn)
  PROVE  Follows(x, y)
<1>1. Sound(y, q, idx.v, torn) BY AdvanceSound DEF Sound, Known, RefRight, Kept
<1> QED BY <1>1 DEF Follows, Kept

(* resolveMessage finds the row, or it is gone, or somewhere else. *)
LEMMA ResolveMoves ==
  ASSUME ReadInv, NEW p \in DOMAIN r, Resolve(p) PROVE Moves(p)
<1> DEFINE x == r[p]
           y == [x EXCEPT !.pc = "open"]
<1>1. x.pc = "resolve" /\ r' = [r EXCEPT ![p] = IF Resolves(x.ref) THEN y ELSE
                                  IF RowLost(x.ref) THEN Lost(x) ELSE Refuse(x)]
  BY DEF Resolve, At, Goes
<1>2. q \in Session /\ x \in Reader /\ Sound(x, q, idx.v, torn) BY ReaderIs
<1>3. y \in Reader /\ y.pc = "open" /\ \A f \in Kept : y[f] = x[f]
  BY <1>2 DEF Reader, ReaderSteps, Kept
<1> HIDE DEF y
<1>4. StepRight(y, q) /\ TargetRight(y, q, idx.v, torn)
  BY <1>1, <1>2, <1>3 DEF Sound, Known, StepRight, TargetRight, Kept, Answered
<1>5. Silent(x) /\ Silent(y) BY <1>1, <1>3 DEF Silent, Answered
<1>6. Follows(x, y) BY <1>2, <1>3, <1>4, <1>5, OnlyStepFollows
<1>7. Follows(x, Lost(x)) /\ Follows(x, Refuse(x))
  BY <1>1, <1>2, <1>5, LostFollows, RefuseSound DEF Follows, Sound
<1> QED BY <1>1, <1>6, <1>7 DEF Moves

(* openResolvedSource opens the one file there is. *)
LEMMA OpenFileMoves ==
  ASSUME ReadInv, NEW p \in DOMAIN r, OpenFile(p) PROVE Moves(p)
<1> DEFINE x == r[p]
           f == file[x.ref.m]
           y == [x EXCEPT !.pc = "check", !.open = f]
<1>1. x.pc = "open" /\ \E z \in {Lost(x), Refuse(x)} \cup (IF f \in {"full", "partial"} THEN {y} ELSE {}) :
                          r' = [r EXCEPT ![p] = z] BY Zenon DEF OpenFile, At, Goes
<1>2. q \in Session /\ x \in Reader /\ Sound(x, q, idx.v, torn) BY ReaderIs
<1>3. Silent(x) BY <1>1 DEF Silent, Answered
<1>4. ASSUME f \in {"full", "partial"} PROVE Follows(x, y)
 <2>1. y \in Reader /\ y.pc = "check" /\ y.open # None /\ \A g \in Kept \ {"open"} : y[g] = x[g]
   BY ZenonT(60), <1>2, <1>4, NoneIsNone DEF Reader, ReaderSteps, Kept
 <2> HIDE DEF y
 <2>2. StepRight(y, q) /\ TargetRight(y, q, idx.v, torn)
   BY <1>1, <1>2, <2>1 DEF Sound, Known, StepRight, TargetRight, Kept, Answered
 <2>3. Silent(y) BY <2>1 DEF Silent, Answered
 <2> QED BY <1>2, <1>3, <2>1, <2>2, <2>3, OnlyStepFollows
<1>5. Follows(x, Lost(x)) /\ Follows(x, Refuse(x))
  BY <1>1, <1>2, <1>3, LostFollows, RefuseSound DEF Follows, Sound
<1> QED BY <1>1, <1>4, <1>5 DEF Moves

(* messageStillMatches: use it, try once more, or give up. *)
LEMMA CheckRowMoves ==
  ASSUME ReadInv, NEW p \in DOMAIN r, CheckRow(p) PROVE Moves(p)
<1> DEFINE x == r[p]
           y == [x EXCEPT !.pc = "use"]
           z == [x EXCEPT !.pc = "resolve", !.try = 2, !.open = None]
<1>1. x.pc = "check" /\ \E w \in {y, z, Refuse(x)} : r' = [r EXCEPT ![p] = w]
  BY DEF CheckRow, At, Goes
<1>2. q \in Session /\ x \in Reader /\ Sound(x, q, idx.v, torn) BY ReaderIs
<1>3. y \in Reader /\ y.pc = "use" /\ \A f \in Kept : y[f] = x[f]
  BY <1>2 DEF Reader, ReaderSteps, Kept
<1>4. z \in Reader /\ z.pc = "resolve" /\ \A f \in Kept \ {"try", "open"} : z[f] = x[f]
  BY ZenonT(60), <1>2 DEF Reader, ReaderSteps, Kept
<1> HIDE DEF y, z
<1>5. StepRight(y, q) /\ TargetRight(y, q, idx.v, torn)
  BY <1>1, <1>2, <1>3 DEF Sound, Known, StepRight, TargetRight, Kept, Answered
<1>6. StepRight(z, q) /\ TargetRight(z, q, idx.v, torn)
  BY <1>1, <1>2, <1>4 DEF Sound, Known, StepRight, TargetRight, Kept, Answered
<1>7. Silent(x) /\ Silent(y) /\ Silent(z) BY <1>1, <1>3, <1>4 DEF Silent, Answered
<1>8. Follows(x, y) /\ Follows(x, z) BY <1>2, <1>3, <1>4, <1>5, <1>6, <1>7, OnlyStepFollows
<1>9. Follows(x, Refuse(x)) BY <1>2, <1>7, RefuseSound DEF Follows, Sound
<1> QED BY <1>1, <1>8, <1>9 DEF Moves

(* A source that is whole enough is the answer. *)
LEMMA UseSourceMoves ==
  ASSUME ReadInv, NEW p \in DOMAIN r, UseSource(p) PROVE Moves(p)
<1> DEFINE x == r[p]
<1>1. x.pc = "use" /\ q.kind = "read" /\
      \E w \in {Hydrate(x)} \cup
               (IF x.open = "full" \/ q.want = "headers" \/ (q.want = "full" /\ ~q.imap) THEN {Locally(x)} ELSE {}) :
         r' = [r EXCEPT ![p] = w] BY Zenon DEF UseSource, At, Goes
<1>2. q \in Session /\ x \in Reader /\ Sound(x, q, idx.v, torn) /\ x.ref.m \in Msg BY ReaderIs
<1>3. Silent(x) /\ x.open # None /\ ~x.err /\ Follows(x, Hydrate(x))
  BY <1>1, <1>2, LostFollows DEF Silent, Answered, Sound, Known, StepRight, Untouched
<1>4. ASSUME x.open = "full" \/ q.want = "headers" \/ (q.want = "full" /\ ~q.imap)
      PROVE  Follows(x, Locally(x))
 <2> DEFINE b == x.open = "full"
 <2>1. [Locally(x) EXCEPT !.err = FALSE] = Locally(x) BY <1>2, <1>3 DEF Locally, Reader
 <2>2. Follows(x, [Locally(x) EXCEPT !.err = FALSE])
   BY <1>1, <1>2, <1>3, <1>4, LocallySound DEF Follows, Sound
 <2> QED BY <2>1, <2>2
<1> QED BY <1>1, <1>3, <1>4 DEF Moves

(* With a UID, or a Message-ID where there is none, the server can be asked
   for the message (Located). *)
LEMMA LocatedFollows ==
  ASSUME q \in Session, NEW x \in Reader, Known(x, q, torn), Silent(x), x.pc # "done", q.kind # "server",
         x.uid = 0 => x.id # None,
         x.uid # 0 => /\ x.v # 0 => torn \/ Alike(q.id, Placed(x.v, x.uid), x.ref.m)
                      /\ x.v = 0 => x.id # None
  PROVE  Follows(x, Located(x))
<1> DEFINE y == Located(x)
<1>1. /\ y \in Reader
      /\ y.pc = IF x.uid = 0 THEN "search" ELSE IF q.kind = "page" THEN "planned" ELSE "fetch"
      /\ \A f \in Kept \ {"remote"} : y[f] = x[f]
  BY ZenonT(60) DEF Located, Reader, ReaderSteps, Kept
<1> HIDE DEF y
<1>2. Silent(y) /\ y.pc \notin {"idle", "done"} BY <1>1 DEF Silent, Answered
<1>3. StepRight(y, q) BY <1>1, <1>2 DEF StepRight, Answered
<1>4. TargetRight(y, q, idx.v, torn) BY <1>1 DEF TargetRight, Kept
<1>5. Sound(y, q, idx.v, torn)
  BY <1>1, <1>2, <1>3, <1>4, AdvanceSound DEF Known, RefRight, Kept
<1> QED BY <1>1, <1>2, <1>5 DEF Follows, Kept, y

(* An excerpt is taken from the local source, from the cache or the server. *)
LEMMA UseExcerptMoves ==
  ASSUME ReadInv, NEW p \in DOMAIN r, UseExcerpt(p) PROVE Moves(p)
<1> DEFINE x == r[p]
           key == CacheKey(x.ref)
           hits == Hits(key)
           n == CASE x.open = "full" -> 2 [] x.open = "partial" -> 1 [] OTHER -> 0
           k == [x EXCEPT !.key = key, !.read = n]
           hit == (CHOOSE e \in hits : TRUE).got
           c == [x EXCEPT !.pc = "done", !.from = "cache", !.got = hit]
           y == [k EXCEPT !.pc = "target"]
<1>1. k.open = x.open OBVIOUS
<1>2. /\ x.pc = "use" /\ q.kind = "page"
      /\ \E w \in {Refuse(k), y} \cup (IF k.open \in {"full", "partial"} \/ (~q.imap /\ k.open # None) THEN {Locally(k)} ELSE {})
                  \cup (IF hits # {} THEN {c} ELSE {}) :
            r' = [r EXCEPT ![p] = w] BY Zenon, <1>1 DEF UseExcerpt, At, Goes
<1>3. q \in Session /\ x \in Reader /\ Sound(x, q, idx.v, torn) /\ x.ref.m \in Msg /\ x.ref \in RefType
  BY ReaderIs
<1>4. key \in Keys \cup {None} /\ (key # None => key[1] = x.ref.m)
  BY <1>3 DEF CacheKey, Keys, RefType
<1>5. n \in 0..2
 <2>1. n \in {0, 1, 2} BY Zenon
 <2> QED BY <2>1
<1> HIDE DEF key, n, hits
<1>6. /\ k \in Reader /\ k.pc = "use" /\ k.key = key
      /\ \A f \in Kept \ {"key", "read"} : k[f] = x[f]
  BY <1>2, <1>3, <1>4, <1>5 DEF Reader, Kept
<1>7. y \in Reader /\ y.pc = "target" /\ \A f \in Kept : y[f] = k[f]
  BY ZenonT(60), <1>6 DEF Reader, ReaderSteps, Kept
<1> HIDE DEF k, y
<1>8. Silent(x) /\ Silent(k) /\ Silent(y) /\ k.pc # "done" /\ ~k.err
  BY <1>2, <1>3, <1>6, <1>7 DEF Silent, Answered, Sound, Known, Untouched, Kept
<1>9. Known(k, q, torn) BY <1>2, <1>3, <1>4, <1>6, KnownKept DEF Sound, Known, RefRight, Kept
<1>10. Follows(x, y)
 <2>1. StepRight(y, q) /\ TargetRight(y, q, idx.v, torn)
   BY <1>2, <1>3, <1>6, <1>7 DEF Sound, StepRight, TargetRight, Kept, Answered
 <2>2. Sound(y, q, idx.v, torn)
   BY <1>4, <1>6, <1>7, <1>8, <1>9, <2>1, AdvanceSound DEF Known, RefRight, Kept
 <2> QED BY <1>6, <1>7, <2>2 DEF Follows, Kept
<1>11. Follows(x, Refuse(k)) BY <1>6, <1>8, <1>9, RefuseSound DEF Follows, Kept
<1>12. ASSUME k.open \in {"full", "partial"} \/ (~q.imap /\ k.open # None) PROVE Follows(x, Locally(k))
 <2>1. [Locally(k) EXCEPT !.err = FALSE] = Locally(k) BY <1>6, <1>8 DEF Locally, Reader
 <2>2. Follows(x, [Locally(k) EXCEPT !.err = FALSE])
   BY ZenonT(60), <1>2, <1>3, <1>6, <1>8, <1>9, <1>12, LocallySound, NoneIsNone DEF Follows, Kept
 <2> QED BY <2>1, <2>2
<1>13. ASSUME hits # {} PROVE Follows(x, c)
 <2>1. PICK e \in hits : hit = e.got BY <1>13
 <2>2. e \in cache /\ e.key = key BY <2>1 DEF hits, Hits
 <2>3. e.key \in Keys /\ e.got \in Msg /\ (torn \/ Alike(q.id, e.got, x.ref.m))
   BY <1>4, <2>2, NoneIsNone DEF ReadInv, CacheSound
 <2> HIDE DEF hit
 <2>4. /\ c \in Reader /\ c.pc = "done" /\ c.from = "cache" /\ c.got = hit
       /\ \A f \in Kept \ {"from", "got"} : c[f] = x[f]
   BY <1>3, <2>1, <2>3 DEF Reader, ReaderSteps, Kept
 <2> HIDE DEF c
 <2>5. RefRight(c, q) /\ Untouched(c) /\ StepRight(c, q)
   BY <1>2, <1>3, <2>4 DEF Sound, Known, RefRight, Untouched, StepRight, Kept, Answered
 <2>6. AnswerWhole(c, q) /\ TargetRight(c, q, idx.v, torn)
   BY <1>2, <1>3, <1>8, <2>1, <2>3, <2>4, NoneIsNone
      DEF Sound, Known, AnswerWhole, TargetRight, Kept, Untouched, Silent
 <2>7. AnswerRight(c, q, torn)
   BY <1>3, <1>8, <2>1, <2>3, <2>4 DEF Sound, Known, AnswerRight, Untouched, Silent, Kept
 <2>8. Sound(c, q, idx.v, torn) BY <2>5, <2>6, <2>7 DEF Sound, Known
 <2> QED BY <2>4, <2>8 DEF Follows, Kept
<1> QED BY <1>2, <1>10, <1>11, <1>12, <1>13 DEF Moves

\* A reader that looks for its target knows what it knew.
Looks(x, y) ==
  /\ y \in Reader /\ y.pc = x.pc /\ Known(y, q, torn) /\ y.ref = x.ref /\ Silent(y) /\ y.pc # "done"

(* Only the identity it goes by may differ (resolveImapTarget). *)
LEMMA LooksIs ==
  ASSUME NEW x \in Reader, NEW y \in Reader, Known(x, q, torn), Silent(x), x.pc # "done",
         \A f \in {"pc"} \cup (Kept \ {"id", "uid", "v"}) : y[f] = x[f],
         y.id \in {None, Rfc(q.id, x.ref.m)}
  PROVE  Looks(x, y)
<1>1. Known(y, q, torn) BY KnownKept DEF Kept, Known, RefRight
<1>2. Silent(y) BY DEF Silent
<1> QED BY <1>1, <1>2 DEF Looks, Kept

(* What the reader would follow, it follows from where it was. *)
LEMMA LooksFollows ==
  ASSUME q \in Session, NEW x \in Reader, NEW y, Looks(x, y), x.ref.m \in Msg
  PROVE  /\ Follows(x, Unhydrated(y))
         /\ q.kind # "server" /\ (y.uid = 0 => y.id # None)
              /\ (y.uid # 0 => /\ y.v # 0 => torn \/ Alike(q.id, Placed(y.v, y.uid), y.ref.m)
                               /\ y.v = 0 => y.id # None)
            => Follows(x, Located(y))
<1>1. Follows(y, Unhydrated(y)) BY UnhydratedFollows DEF Looks
<1>2. ASSUME q.kind # "server", y.uid = 0 => y.id # None,
             y.uid # 0 => /\ y.v # 0 => torn \/ Alike(q.id, Placed(y.v, y.uid), y.ref.m)
                          /\ y.v = 0 => y.id # None
      PROVE  Follows(y, Located(y)) BY <1>2, LocatedFollows DEF Looks
<1> QED BY <1>1, <1>2 DEF Follows, Looks

(* A reader that goes on looking is sound where it arrives. *)
LEMMA LooksOn ==
  ASSUME NEW x, NEW y, NEW z \in Reader, Looks(x, y), Silent(z), z.pc \notin {"idle", "done"},
         \A f \in Kept : z[f] = y[f], StepRight(z, q), TargetRight(z, q, idx.v, torn)
  PROVE  Follows(x, z)
<1>1. Sound(z, q, idx.v, torn) BY AdvanceSound DEF Looks, Known, RefRight, Kept
<1> QED BY <1>1 DEF Follows, Looks, Kept

(* The row is resolved again before the server is asked. *)
LEMMA TargetRowMoves ==
  ASSUME ReadInv, NEW p \in DOMAIN r, TargetRow(p) PROVE Moves(p)
<1> DEFINE x == r[p]
           y == [x EXCEPT !.id = x.ref.id]
           z == [y EXCEPT !.pc = "validity"]
           w == [y EXCEPT !.pc = "identify"]
<1>1. /\ x.pc = "target"
      /\ \E u \in {Unhydrated(y)} \cup (IF Resolves(y.ref) /\ q.layout = "physical" THEN {z} ELSE {})
                  \cup (IF y.id = None THEN {w} ELSE {Located(y)}) : r' = [r EXCEPT ![p] = u]
  BY Zenon DEF TargetRow, At, Goes
<1>2. /\ q \in Session /\ x \in Reader /\ Sound(x, q, idx.v, torn) /\ x.ref.m \in Msg
      /\ x.ref \in RefType BY ReaderIs
<1>3. y \in Reader /\ y.id = x.ref.id /\ \A f \in {"pc"} \cup (Kept \ {"id"}) : y[f] = x[f]
  BY <1>2 DEF Reader, Kept, RefType
<1>4. z \in Reader /\ z.pc = "validity" /\ \A f \in Kept : z[f] = y[f]
  BY <1>3 DEF Reader, ReaderSteps, Kept
<1>5. w \in Reader /\ w.pc = "identify" /\ \A f \in Kept : w[f] = y[f]
  BY <1>3 DEF Reader, ReaderSteps, Kept
<1> HIDE DEF y, z, w
<1>6. Silent(x) /\ Silent(z) /\ Silent(w) /\ q.kind # "server"
  BY <1>1, <1>2, <1>4, <1>5 DEF Silent, Answered, Sound, Known, StepRight
<1>7. Looks(x, y) /\ y.uid = 0 /\ y.v = 0
 <2>1. y.id \in {None, Rfc(q.id, x.ref.m)} BY <1>2, <1>3 DEF Sound, Known, RefRight
 <2>2. Looks(x, y) BY <1>1, <1>2, <1>3, <1>6, <2>1, LooksIs DEF Sound, Kept
 <2> QED BY <1>1, <1>2, <1>3, <2>2 DEF Sound, TargetRight, Kept
<1>8. ASSUME Resolves(y.ref), q.layout = "physical" PROVE Follows(x, z)
 <2>1. Placed(idx.v, x.ref.uid) = x.ref.m
   BY <1>2, <1>3, <1>8 DEF Resolves, ReadInv, IndexPlaced, Kept
 <2>2. TargetRight(z, q, idx.v, torn) BY <1>3, <1>4, <1>7, <2>1 DEF TargetRight, Kept
 <2>3. StepRight(z, q) BY <1>4, <1>6 DEF StepRight, Answered
 <2> QED BY <1>4, <1>6, <1>7, <2>2, <2>3, LooksOn
<1>9. Follows(x, w)
 <2>1. StepRight(w, q) /\ TargetRight(w, q, idx.v, torn)
   BY <1>5, <1>6, <1>7 DEF StepRight, TargetRight, Answered, Kept
 <2> QED BY <1>5, <1>6, <1>7, <2>1, LooksOn
<1>10. Follows(x, Unhydrated(y)) /\ (y.id # None => Follows(x, Located(y)))
  BY <1>2, <1>6, <1>7, LooksFollows
<1> QED BY <1>1, <1>8, <1>9, <1>10 DEF Moves

(* directIMAPIdentity: the UID goes with the UIDVALIDITY of the reference, or
   with the one Mail knows while it still knows the row by that UID. *)
LEMMA ValidityMoves ==
  ASSUME ReadInv, NEW p \in DOMAIN r, Validity(p) PROVE Moves(p)
<1> DEFINE x == r[p]
           n == IF x.ref.v # 0 THEN x.ref.v ELSE KnownValidity
           y == [x EXCEPT !.v = n]
           z == IF Usable(y) THEN [y EXCEPT !.uid = x.ref.uid] ELSE y
           w == [z EXCEPT !.pc = "identify"]
           blind == z.id = None /\ (z.uid = 0 \/ z.v = 0)
<1>1. /\ x.pc = "validity"
      /\ \E u \in {Unhydrated(y)} \cup (IF blind THEN {w} ELSE {Located(z)}) : r' = [r EXCEPT ![p] = u]
  BY Zenon DEF Validity, At, Goes
<1>2. /\ q \in Session /\ x \in Reader /\ Sound(x, q, idx.v, torn) /\ x.ref.m \in Msg
      /\ x.ref \in RefType /\ idx.v \in {1, 2} BY ReaderIs
<1>3. n \in 0..2 /\ n \in {0, x.ref.v, idx.v} /\ (n = 0 \/ n = x.ref.v \/ (x.ref.v = 0 /\ n = idx.v))
  BY <1>2 DEF KnownValidity, RefType
<1> HIDE DEF n
<1>4. y \in Reader /\ y.v = n /\ \A f \in {"pc"} \cup (Kept \ {"v"}) : y[f] = x[f]
  BY <1>2, <1>3 DEF Reader, Kept
<1> HIDE DEF y
<1>5. x.ref.uid \in 1..3 /\ x.uid = 0 BY <1>1, <1>2 DEF RefType, Uid, Sound, TargetRight
<1>6. /\ z \in Reader /\ z.v = n /\ \A f \in {"pc"} \cup (Kept \ {"uid", "v"}) : z[f] = x[f]
      /\ z.uid = (IF Usable(y) THEN x.ref.uid ELSE 0) BY <1>4, <1>5 DEF Reader, Kept
<1>7. z.uid = 0 => n = 0 BY <1>4, <1>5, <1>6 DEF Usable
<1> HIDE DEF z
<1>8. Silent(x) /\ q.kind # "server" /\ x.id \in {None, Rfc(q.id, x.ref.m)}
  BY <1>1, <1>2 DEF Silent, Answered, Sound, Known, StepRight, RefRight
<1>9. Looks(x, y) /\ Looks(x, z) BY <1>1, <1>2, <1>4, <1>6, <1>8, LooksIs DEF Sound, Kept
<1>10. ASSUME n # 0 PROVE torn \/ Alike(q.id, Placed(n, x.ref.uid), x.ref.m)
 <2>1. CASE x.ref.v = 1 BY <1>2, <1>3, <1>10, <2>1, AlikeIs DEF Sound, Known, RefRight
 <2>2. CASE x.ref.v = 0 BY <1>1, <1>2, <1>3, <1>10, <2>2, AlikeIs DEF Sound, TargetRight
 <2> QED BY <1>2, <2>1, <2>2 DEF RefType
<1>11. ~blind => Follows(x, Located(z))
  BY <1>2, <1>5, <1>6, <1>7, <1>8, <1>9, <1>10, LooksFollows DEF Kept
<1>12. ASSUME blind PROVE Follows(x, w)
 <2>1. w \in Reader /\ w.pc = "identify" /\ \A f \in Kept : w[f] = z[f]
   BY <1>6 DEF Reader, ReaderSteps, Kept
 <2> HIDE DEF w
 <2>2. StepRight(w, q) /\ TargetRight(w, q, idx.v, torn) /\ Silent(w)
   BY <1>6, <1>7, <1>8, <1>12, <2>1 DEF StepRight, TargetRight, Answered, Kept, Silent
 <2> QED BY <1>9, <2>1, <2>2, LooksOn
<1>13. Follows(x, Unhydrated(y)) BY <1>2, <1>9, LooksFollows
<1> HIDE DEF blind, w
<1> QED BY <1>1, <1>11, <1>12, <1>13 DEF Moves

(* Every message has a Message-ID, or none. *)
LEMMA RfcType == ASSUME NEW id, NEW m \in Msg PROVE Rfc(id, m) \in Ids
<1>1. Rfc(id, m) \in {"shared", None, m} BY Zenon DEF Rfc
<1> QED BY <1>1 DEF Ids

(* readLocalMessageID: the Message-ID of the local source is the message's. *)
LEMMA IdentifyMoves ==
  ASSUME ReadInv, NEW p \in DOMAIN r, Identify(p) PROVE Moves(p)
<1> DEFINE x == r[p]
           ref == r[p].ref
           open == Resolves(ref) /\ file[ref.m] \in {"full", "partial"}
           hard == ~open /\ ~RowLost(ref) /\ ~(Resolves(ref) /\ Recoverable(file[ref.m]))
           id == IF open THEN RfcId(ref.m) ELSE None
           uid == IF x.v = 0 /\ id = None THEN 0 ELSE x.uid
           y == [x EXCEPT !.id = id, !.uid = uid]
<1>1. /\ x.pc = "identify"
      /\ \E u \in {Unhydrated(y)} \cup (IF y.uid = 0 /\ id = None THEN {} ELSE {Located(y)}) :
            r' = [r EXCEPT ![p] = u] BY Zenon DEF Identify, At, Goes
<1>2. q \in Session /\ x \in Reader /\ Sound(x, q, idx.v, torn) /\ x.ref.m \in Msg BY ReaderIs
<1>3. id \in {None, Rfc(q.id, x.ref.m)} /\ id \in Ids BY <1>2, SameIsAlike, RfcType DEF Ids
<1> HIDE DEF id
<1>4. uid \in 0..3 /\ (uid # 0 => x.v # 0 \/ id # None) BY <1>2 DEF Reader
<1> HIDE DEF uid
<1>5. /\ y \in Reader /\ y.id = id /\ (y.uid # 0 => x.v # 0 \/ id # None)
      /\ \A f \in {"pc"} \cup (Kept \ {"id", "uid"}) : y[f] = x[f]
  BY <1>2, <1>3, <1>4 DEF Reader, Kept
<1> HIDE DEF y
<1>6. Silent(x) /\ q.kind # "server" /\ x.v = 0
  BY <1>1, <1>2 DEF Silent, Answered, Sound, Known, StepRight, TargetRight
<1>7. Looks(x, y) BY <1>1, <1>2, <1>3, <1>5, <1>6, LooksIs DEF Sound, Kept
<1>8. Follows(x, Unhydrated(y)) /\ (~(y.uid = 0 /\ id = None) => Follows(x, Located(y)))
  BY <1>2, <1>5, <1>6, <1>7, LooksFollows DEF Kept
<1> QED BY <1>1, <1>8 DEF Moves

(* SearchUID: the one message with the Message-ID is the message, or a copy. *)
LEMMA SearchMoves ==
  ASSUME ReadInv, NEW p \in DOMAIN r, Search(p) PROVE Moves(p)
<1> DEFINE x == r[p]
           us == {u \in Uid : srv.at[u] # None /\ RfcId(srv.at[u]) = x.id}
           y(u) == [x EXCEPT !.uid = u, !.v = srv.v]
<1>1. /\ x.pc = "search"
      /\ \/ r' = [r EXCEPT ![p] = Unhydrated(x)]
         \/ \E u \in us : r' = [r EXCEPT ![p] = Located(y(u))] BY Zenon DEF Search, At, Goes
<1>2. q \in Session /\ x \in Reader /\ Sound(x, q, idx.v, torn) /\ x.ref.m \in Msg BY ReaderIs
<1>3. Silent(x) /\ q.kind # "server" /\ x.id # None /\ x.id \in {None, Rfc(q.id, x.ref.m)}
  BY <1>1, <1>2 DEF Silent, Answered, Sound, Known, StepRight, RefRight, TargetRight
<1>4. Looks(x, x) BY <1>1, <1>2, <1>3, LooksIs DEF Sound
<1>5. ASSUME NEW u \in us PROVE Follows(x, Located(y(u)))
 <2>1. u \in Uid /\ srv.at[u] # None /\ Rfc(q.id, srv.at[u]) = x.id BY SameIsAlike
 <2> HIDE DEF us
 <2>2. srv.v \in {1, 2} /\ srv.at[u] = Placed(srv.v, u)
   BY <2>1 DEF ReadInv, StoreTyped, ServerPlaced
 <2>3. Alike(q.id, Placed(srv.v, u), x.ref.m) BY <1>3, <2>1, <2>2, AlikeIs
 <2> DEFINE z == y(u)
            v == srv.v
 <2>4. z = [x EXCEPT !.uid = u, !.v = v] /\ v \in 0..2 /\ u \in 0..3 BY <2>1, <2>2 DEF Uid
 <2> HIDE DEF z, v
 <2>5. z \in Reader /\ z.uid = u /\ z.v = v /\ \A f \in {"pc"} \cup (Kept \ {"uid", "v"}) : z[f] = x[f]
   BY <1>2, <2>4 DEF Reader, Kept
 <2>6. z \in Reader /\ z.uid = u /\ z.v = srv.v /\ \A f \in {"pc"} \cup (Kept \ {"uid", "v"}) : z[f] = x[f]
   BY <2>5 DEF v
 <2>7. Looks(x, z) BY ZenonT(60), <1>1, <1>2, <1>3, <2>6, LooksIs DEF Sound, Kept
 <2>8. z.uid # 0 /\ z.v # 0 /\ z.ref = x.ref BY <2>1, <2>2, <2>6 DEF Uid, Kept
 <2>9. Follows(x, Located(z)) BY <1>2, <1>3, <2>3, <2>6, <2>7, <2>8, LooksFollows
 <2> QED BY <2>9 DEF z
<1>6. Follows(x, Unhydrated(x)) BY <1>2, <1>4, LooksFollows
<1> HIDE DEF us, y
<1> QED BY <1>1, <1>5, <1>6 DEF Moves

(* FETCH under the UIDVALIDITY, or with the Message-ID, that was expected
   brings the message, or nothing (Fetched). *)
LEMMA FetchedFollows ==
  ASSUME ReadInv, NEW x \in Reader, Sound(x, q, idx.v, torn), x.ref.m \in Msg,
         x.pc \in {"fetch", "planned"}
  PROVE  /\ Follows(x, Fetched(x)) /\ Charge(Fetched(x)) = Charge(x)
         /\ q.kind = "page" => Fetched(x).pc = "done"
         /\ Fetched(x).from = "imap" => Fetched(x).got \in Msg
         /\ Fetched(x).key = x.key
<1> DEFINE step == CASE q.kind = "server" -> "membership" [] q.kind = "save" -> "write" [] OTHER -> "done"
           got == srv.at[x.uid]
           y == [x EXCEPT !.pc = step, !.got = got, !.complete = TRUE, !.from = "imap"]
<1>1. Silent(x) /\ x.pc # "done" /\ q \in Session /\ Known(x, q, torn)
  BY DEF Silent, Answered, ReadInv, SessionTyped, Sound
<1>2. /\ Follows(x, Unhydrated(x)) /\ Unhydrated(x).pc = "done" /\ Charge(Unhydrated(x)) = Charge(x)
      /\ Unhydrated(x).from # "imap" /\ Unhydrated(x).key = x.key
 <2>1. x.from = None BY <1>1 DEF Known, Untouched, Silent
 <2>2. Refuse(x).from = None /\ Refuse(x).key = x.key BY <2>1 DEF Refuse, Reader
 <2>3. LET z == [Locally(x) EXCEPT !.err = TRUE] IN z.from = "local" /\ z.key = x.key
   BY DEF Locally, Reader
 <2>4. Unhydrated(x).from \in {None, "local"} /\ Unhydrated(x).key = x.key
   BY <2>2, <2>3 DEF Unhydrated
 <2> QED BY <1>1, <2>4, UnhydratedFollows, NoneIsNone
<1>3. ASSUME Selected(x), got # None
      PROVE  Follows(x, y) /\ Charge(y) = Charge(x) /\ (q.kind = "page" => y.pc = "done")
             /\ y.got \in Msg /\ y.key = x.key
 <2>1. /\ step \in {"membership", "write", "done"} /\ (step = "membership" <=> q.kind = "server")
       /\ (step = "write" <=> q.kind = "save")
  <3>1. /\ q.kind = "server" => step = "membership"
        /\ q.kind = "save" => step = "write"
        /\ q.kind \notin {"server", "save"} => step = "done" BY Zenon
  <3> HIDE DEF step
  <3> QED BY <3>1
 <2>2. x.uid \in Uid BY DEF Reader, Sound, TargetRight, Uid
 <2>3. got \in Msg /\ got = Placed(srv.v, x.uid)
   BY <1>3, <2>2 DEF ReadInv, StoreTyped, ServerPlaced
 <2>4. torn \/ Alike(q.id, got, x.ref.m)
  <3>1. CASE x.v # 0
   <4>1. srv.v = x.v BY <1>3, <3>1 DEF Selected
   <4> QED BY <2>3, <3>1, <4>1 DEF Sound, TargetRight
  <3>2. CASE x.v = 0
   <4>1. RfcId(got) = x.id /\ x.id # None BY <1>3, <3>2 DEF Selected, Sound, TargetRight
   <4>2. Rfc(q.id, got) = x.id /\ x.id = Rfc(q.id, x.ref.m)
     BY <1>1, <4>1, SameIsAlike DEF Known, RefRight
   <4> QED BY <4>1, <4>2, AlikeIs
  <3> QED BY <3>1, <3>2
 <2> HIDE DEF step, got
 <2>5. /\ y \in Reader /\ y.pc = step /\ y.got = got /\ y.complete = TRUE /\ y.from = "imap"
       /\ \A f \in Kept \ {"got", "complete", "from"} : y[f] = x[f]
   BY ZenonT(60), <2>1, <2>3 DEF Reader, ReaderSteps, Kept
 <2> HIDE DEF y
 <2>6. got # None /\ x.local = None /\ ~x.err /\ x.got = None
   BY <1>1, <2>3, NoneIsNone DEF Known, Untouched, Silent
 <2>7. RefRight(y, q) /\ Untouched(y)
   BY <1>1, <2>1, <2>5 DEF Known, RefRight, Kept, Untouched, Answered
 <2>8. StepRight(y, q) BY <1>1, <2>1, <2>5, <2>6 DEF StepRight, Answered, Kept
 <2>9. AnswerWhole(y, q) /\ TargetRight(y, q, idx.v, torn)
   BY <2>1, <2>5, <2>6, NoneIsNone DEF AnswerWhole, TargetRight
 <2>10. AnswerRight(y, q, torn) BY <2>4, <2>5, <2>6 DEF AnswerRight, Kept
 <2>11. Sound(y, q, idx.v, torn) BY <2>7, <2>8, <2>9, <2>10 DEF Sound, Known
 <2> QED BY <2>1, <2>3, <2>5, <2>11 DEF Follows, Kept, Charge
<1>4. Fetched(x) \in {y, Unhydrated(x)} /\ (Fetched(x) = Unhydrated(x) \/ (Selected(x) /\ got # None /\ Fetched(x) = y))
  BY Zenon DEF Fetched
<1> HIDE DEF y, got
<1> QED BY <1>2, <1>3, <1>4

(* FETCH for one message; any call to the server may fail. *)
LEMMA FetchMoves ==
  ASSUME ReadInv, NEW p \in DOMAIN r, Fetch(p) \/ ServerFails(p) PROVE Moves(p)
<1> DEFINE x == r[p]
<1>1. /\ x.pc \in {"fetch", "search"}
      /\ \/ x.pc = "fetch" /\ r' = [r EXCEPT ![p] = Fetched(x)]
         \/ r' = [r EXCEPT ![p] = Unhydrated(x)] BY DEF Fetch, ServerFails, At, Goes
<1>2. q \in Session /\ x \in Reader /\ Sound(x, q, idx.v, torn) /\ x.ref.m \in Msg BY ReaderIs
<1>3. Silent(x) /\ Known(x, q, torn) BY <1>1, <1>2 DEF Silent, Answered, Sound
<1>4. Follows(x, Unhydrated(x)) BY <1>1, <1>2, <1>3, UnhydratedFollows
<1>5. x.pc = "fetch" => Follows(x, Fetched(x)) BY <1>2, FetchedFollows
<1> QED BY <1>1, <1>4, <1>5 DEF Moves

(* An answered reader that looks for the local row and the flags keeps its
   answer. *)
LEMMA AnsweredFollows ==
  ASSUME NEW x \in Reader, NEW y \in Reader, Sound(x, q, idx.v, torn), x.pc \in Answered,
         y.pc \in Answered \cup {"done"},
         \A f \in Kept \ {"local", "flags"} : y[f] = x[f],
         y.pc \in {"membership", "localrow"} => y.local = None,
         y.pc = "localrow" /\ q.layout = "physical" => torn \/ idx.v = 1,
         torn \/ y.local = None \/ Alike(q.id, y.local, x.got)
  PROVE  Follows(x, y)
<1>1. /\ q.kind = "server" /\ x.got # None /\ x.complete /\ ~x.err /\ x.from = "imap"
  BY DEF Sound, Known, StepRight
<1>2. RefRight(y, q) /\ Untouched(y) /\ StepRight(y, q)
  BY <1>1, NoneIsNone DEF Sound, Known, RefRight, Untouched, StepRight, Kept, Answered
<1>3. AnswerWhole(y, q) /\ TargetRight(y, q, idx.v, torn)
  BY <1>1, NoneIsNone DEF AnswerWhole, TargetRight, Kept, Answered
<1>4. AnswerRight(y, q, torn) BY DEF Sound, Known, AnswerRight, Kept
<1>5. Sound(y, q, idx.v, torn) BY <1>2, <1>3, <1>4 DEF Sound, Known
<1> QED BY <1>5 DEF Follows, Kept, Answered

(* finishServerMessage looks for the row only under the same UIDVALIDITY. *)
LEMMA MembershipMoves ==
  ASSUME ReadInv, NEW p \in DOMAIN r, Membership(p) PROVE Moves(p)
<1> DEFINE x == r[p]
           same == q.layout = "label" \/ KnownValidity = x.ref.v
           y == [x EXCEPT !.pc = "localrow"]
           z == [x EXCEPT !.pc = "flags"]
<1>1. /\ x.pc = "membership"
      /\ \/ r' = [r EXCEPT ![p] = z]
         \/ same /\ r' = [r EXCEPT ![p] = y] BY DEF Membership, At, Goes
<1>2. q \in Session /\ x \in Reader /\ Sound(x, q, idx.v, torn) /\ x.ref.m \in Msg BY ReaderIs
<1>3. x.local = None /\ x.ref.v = 1 /\ x.pc \in Answered
  BY <1>1, <1>2 DEF Sound, Known, StepRight, RefRight, Answered
<1>4. y \in Reader /\ y.pc = "localrow" /\ \A f \in Kept : y[f] = x[f]
  BY <1>2 DEF Reader, ReaderSteps, Kept
<1>5. z \in Reader /\ z.pc = "flags" /\ \A f \in Kept : z[f] = x[f]
  BY <1>2 DEF Reader, ReaderSteps, Kept
<1> HIDE DEF y, z
<1>6. Follows(x, z) BY <1>2, <1>3, <1>5, AnsweredFollows DEF Answered, Kept
<1>7. same /\ q.layout = "physical" => idx.v = 1 BY <1>3 DEF KnownValidity
<1>8. same => Follows(x, y) BY <1>2, <1>3, <1>4, <1>7, AnsweredFollows DEF Answered, Kept
<1> QED BY <1>1, <1>3, <1>6, <1>8 DEF Moves, Answered

(* The one row with the UID, or with the Message-ID, is the message's. *)
LEMMA LocalRowMoves ==
  ASSUME ReadInv, NEW p \in DOMAIN r, LocalRow(p) PROVE Moves(p)
<1> DEFINE x == r[p]
           ms == Candidates(x)
           m == CHOOSE n \in ms : TRUE
           y(l) == [x EXCEPT !.pc = "flags", !.local = l]
<1>1. /\ x.pc = "localrow"
      /\ \/ r' = [r EXCEPT ![p] = y(None)]
         \/ Cardinality(ms) = 1 /\ r' = [r EXCEPT ![p] = y(m)] BY DEF LocalRow, At, Goes
<1>2. q \in Session /\ x \in Reader /\ Sound(x, q, idx.v, torn) /\ x.ref.m \in Msg BY ReaderIs
<1>3. q.kind = "server" /\ x.got # None /\ x.ref.v = 1 /\ x.pc \in Answered
  BY <1>1, <1>2 DEF Sound, Known, StepRight, RefRight, Answered
<1>4. \A l \in Msg \cup {None} :
        torn \/ l = None \/ Alike(q.id, l, x.got) => Follows(x, y(l))
 <2> TAKE l \in Msg \cup {None}
 <2> DEFINE z == y(l)
 <2>1. z \in Reader /\ z.pc = "flags" /\ z.local = l /\ \A f \in Kept \ {"local"} : z[f] = x[f]
   BY ZenonT(60), <1>2 DEF Reader, ReaderSteps, Kept
 <2> HIDE DEF z
 <2>2. torn \/ l = None \/ Alike(q.id, l, x.got) => Follows(x, z)
   BY <1>2, <1>3, <2>1, AnsweredFollows DEF Answered
 <2> QED BY <2>2 DEF z
<1>5. ASSUME Cardinality(ms) = 1 PROVE m \in Msg /\ (torn \/ Alike(q.id, m, x.got))
 <2>1. m \in ms
  <3>1. ms # {} BY <1>5, FS_EmptySet
  <3> QED BY <3>1
 <2>2. CASE q.layout = "physical"
  <3>1. m \in Msg /\ idx.at[m] = "here" /\ idx.uid[m] = x.ref.uid BY <2>1, <2>2 DEF Candidates
  <3>2. torn \/ idx.v = 1 BY <1>1, <1>2, <2>2 DEF Sound, TargetRight
  <3>3. torn \/ m = x.ref.m
    BY <1>2, <1>3, <3>1, <3>2 DEF ReadInv, IndexPlaced, Sound, Known, RefRight
  <3>4. torn \/ Alike(q.id, x.got, x.ref.m) BY <1>2, <1>3 DEF Sound, Known, AnswerRight
  <3>5. Alike(q.id, x.got, x.ref.m) => Alike(q.id, x.ref.m, x.got) BY AlikeIs
  <3> HIDE DEF m, ms, x
  <3> QED BY <3>1, <3>3, <3>4, <3>5
 <2>3. CASE q.layout # "physical"
  <3>1. m \in Msg /\ RfcId(x.got) # None /\ RfcId(m) = RfcId(x.got)
    BY <2>1, <2>3 DEF Candidates
  <3>2. Same(m, x.got) BY <3>1 DEF Same
  <3> QED BY <3>1, <3>2, SameIsAlike
 <2> QED BY <2>2, <2>3
<1> HIDE DEF ms, m
<1>6. Follows(x, y(None)) /\ (Cardinality(ms) = 1 => Follows(x, y(m))) BY <1>4, <1>5
<1> QED BY <1>1, <1>6 DEF Moves

(* The flags end the read of a server message. *)
LEMMA ReadFlagsMoves ==
  ASSUME ReadInv, NEW p \in DOMAIN r, ReadFlags(p) PROVE Moves(p)
<1> DEFINE x == r[p]
           y(l) == [x EXCEPT !.pc = "done", !.flags = l]
<1>1. x.pc = "flags" /\ \E l \in {"unverified", "missing", "observed"} : r' = [r EXCEPT ![p] = y(l)]
  BY DEF ReadFlags, At, Goes
<1>2. q \in Session /\ x \in Reader /\ Sound(x, q, idx.v, torn) /\ x.ref.m \in Msg BY ReaderIs
<1>3. ASSUME NEW l \in {"unverified", "missing", "observed"} PROVE Follows(x, y(l))
 <2> DEFINE z == y(l)
 <2>1. z \in Reader /\ z.pc = "done" /\ \A f \in Kept \ {"flags"} : z[f] = x[f]
   BY ZenonT(60), <1>2 DEF Reader, ReaderSteps, Kept
 <2> HIDE DEF z
 <2>2. torn \/ x.local = None \/ Alike(q.id, x.local, x.got)
   BY <1>2 DEF Sound, Known, AnswerRight
 <2>3. Follows(x, z) BY <1>1, <1>2, <2>1, <2>2, AnsweredFollows DEF Answered, Kept
 <2> QED BY <2>3 DEF z
<1> HIDE DEF y
<1> QED BY <1>1, <1>3 DEF Moves
----------------------------------------------------------------------------
(* The budget. *)

(* What rows took depends only on the charges of these rows; it adds up over
   the chunks. *)
LEMMA TookIs ==
  /\ \A S : Took(S) = TookOf(r, S)
  /\ \A f, g, S : (\A n \in Msg \cap S : Charge(g[n]) = Charge(f[n])) => TookOf(g, S) = TookOf(f, S)
  /\ \A f \in [Msg -> Reader] : \A S : TookOf(f, S) \in Nat
  /\ \A f \in [Msg -> Reader], c \in Nat : TookOf(f, UpTo(c + 1)) = TookOf(f, UpTo(c)) + TookOf(f, Rows(c))
<1>1. \A x \in Reader : Charge(x) \in Nat BY DEF Charge, Reader
<1>2. \A S : Took(S) = TookOf(r, S) BY DEF Took, TookOf
<1>3. \A f, g, S : (\A n \in Msg \cap S : Charge(g[n]) = Charge(f[n])) => TookOf(g, S) = TookOf(f, S)
  BY DEF TookOf, Msg
<1>4. ASSUME NEW f \in [Msg -> Reader] PROVE Charge(f["a"]) \in Nat /\ Charge(f["b"]) \in Nat /\ Charge(f["c"]) \in Nat
  BY <1>1 DEF Msg
<1>5. ASSUME NEW f \in [Msg -> Reader], NEW S PROVE TookOf(f, S) \in Nat BY <1>4 DEF TookOf
<1>6. ASSUME NEW f \in [Msg -> Reader], NEW c \in Nat
      PROVE  TookOf(f, UpTo(c + 1)) = TookOf(f, UpTo(c)) + TookOf(f, Rows(c))
 <2>1. \A m \in Msg : /\ m \in UpTo(c + 1) <=> m \in UpTo(c) \/ m \in Rows(c)
                      /\ ~(m \in UpTo(c) /\ m \in Rows(c)) BY ChunkIs DEF UpTo, Rows
 <2> QED BY <1>4, <2>1 DEF TookOf, Msg
<1> QED BY <1>2, <1>3, <1>5, <1>6

(* A reader that moves does not disturb the others. *)
LEMMA MovesKeep ==
  ASSUME ReadInv, NEW p \in DOMAIN r, Moves(p), UNCHANGED <<srv, idx, q, cache, page, torn>>
  PROVE  ReadInv'
<1>1. PICK y : Follows(r[p], y) /\ r' = [r EXCEPT ![p] = y]
                  /\ (q.kind = "page" => r[p].pc \notin {"idle", "planned", "done"})
  BY DEF Moves
<1>2. y \in Reader /\ Sound(y, q, idx.v, torn) /\ y.ref = r[p].ref /\ y.pc # "idle"
  BY <1>1 DEF Follows
<1>3. SessionTyped' /\ StoreTyped' /\ PageTyped' /\ ServerPlaced' /\ IndexPlaced' /\ CacheSound'
  BY <1>1, <1>2 DEF ReadInv, SessionTyped, StoreTyped, PageTyped, ServerPlaced, IndexPlaced, CacheSound
<1>4. ReadersSound' BY <1>1, <1>2 DEF ReadInv, ReadersSound
<1>5. BudgetInv'
 <2> SUFFICES ASSUME q.kind = "page" PROVE PageSound(r', page) BY DEF BudgetInv
 <2> DEFINE c == page.chunk
            f == r
            g == r'
 <2>1. f \in [Msg -> Reader] /\ p \in Msg /\ g = [f EXCEPT ![p] = y] /\ c \in Nat /\ PageSound(f, page)
   BY <1>1 DEF ReadInv, SessionTyped, PageTyped, BudgetInv
 <2> HIDE DEF f, g
 <2>2. ChunkOf(p) = c BY <1>1, <2>1, ChunkIs DEF PageSound, RowPaid, f
 <2>3. \A n \in Nat : n <= c => TookOf(g, UpTo(n)) = TookOf(f, UpTo(n))
  <3> SUFFICES ASSUME NEW n \in Nat, n <= c PROVE TookOf(g, UpTo(n)) = TookOf(f, UpTo(n))
    OBVIOUS
  <3>1. \A m \in Msg \cap UpTo(n) : Charge(g[m]) = Charge(f[m])
    BY <2>1, <2>2, ChunkIs DEF UpTo
  <3> QED BY <3>1, TookIs
 <2>4. TookOf(g, UpTo(c)) = TookOf(f, UpTo(c))
  <3>1. c \in Nat /\ c <= c BY <2>1
  <3> QED BY <2>3, <3>1
 <2>5. ASSUME NEW m \in Msg PROVE RowPaid(g, m, c)
  <3>1. CASE m = p
   <4>1. RowPaid(f, p, c) /\ f[p].pc \notin {"idle", "done"} BY <1>1, <2>1 DEF PageSound, f
   <4>2. TookOf(g, UpTo(ChunkOf(p))) < Budget BY <2>2, <2>4, <4>1 DEF RowPaid
   <4> HIDE DEF c
   <4> QED BY <1>2, <2>1, <2>2, <3>1, <4>2 DEF RowPaid
  <3>2. CASE m # p
   <4>1. g[m] = f[m] /\ RowPaid(f, m, c) /\ ChunkOf(m) \in Nat
     BY <2>1, <3>2, ChunkIs DEF PageSound
   <4>2. ChunkOf(m) <= c => TookOf(g, UpTo(ChunkOf(m))) = TookOf(f, UpTo(ChunkOf(m)))
     BY <2>3, <4>1
   <4> HIDE DEF c
   <4> QED BY <2>1, <4>1, <4>2 DEF RowPaid
  <3> QED BY <3>1, <3>2
 <2>6. PageSound(g, page) BY <2>1, <2>5, <2>4 DEF PageSound
 <2> QED BY <2>6 DEF g
<1> QED BY <1>3, <1>4, <1>5 DEF ReadInv

\* The readers of a page, all at once.
AllFollow(g) ==
  \A m \in Msg : g[m] \in Reader /\ Sound(g[m], q, idx.v, torn) /\ g[m].ref.m = m

(* When the readers of a page move together, the budget is what has to be
   looked at. *)
LEMMA PageMovesKeep ==
  ASSUME ReadInv, q.kind = "page", UNCHANGED <<srv, idx, q, torn>>,
         NEW g, r' = [m \in Msg |-> g[m]], AllFollow(g), PageTyped', CacheSound', PageSound(g, page')
  PROVE  ReadInv'
<1>1. DOMAIN r = Msg /\ r' \in [Msg -> Reader] /\ \A m \in Msg : r'[m] = g[m]
  BY DEF ReadInv, SessionTyped, AllFollow
<1>2. SessionTyped' /\ StoreTyped' /\ ServerPlaced' /\ IndexPlaced'
  BY <1>1 DEF ReadInv, SessionTyped, StoreTyped, ServerPlaced, IndexPlaced
<1>3. ReadersSound' BY <1>1 DEF ReadInv, ReadersSound, AllFollow
<1>4. BudgetInv'
 <2>1. \A S : TookOf(r', S) = TookOf(g, S) BY <1>1, TookIs
 <2>2. PageSound(r', page') BY <1>1, <2>1 DEF PageSound, RowPaid
 <2> QED BY <2>2 DEF BudgetInv
<1> QED BY <1>2, <1>3, <1>4 DEF ReadInv

(* The next rows start only while the budget is not used up. *)
LEMMA NextChunkKeeps ==
  ASSUME ReadInv, NextChunk PROVE ReadInv'
<1> DEFINE c == page.chunk
           spent == page.spent + Spent(c)
           go(m) == [r[m] EXCEPT !.pc = "resolve"]
           g == [m \in Msg |-> IF m \notin Rows(c + 1) \/ r[m].pc # "idle" THEN r[m]
                               ELSE IF spent >= Budget THEN Refuse(r[m]) ELSE go(m)]
<1>1. /\ q.kind = "page" /\ c < Chunks /\ r' = g /\ UNCHANGED <<srv, idx, q, torn, cache>>
      /\ page' = [page EXCEPT !.chunk = c + 1, !.spent = spent]
      /\ \A m \in Rows(c) : r[m].pc \in {"planned", "done"} BY DEF NextChunk, Store
<1>2. /\ q \in Session /\ r \in [Msg -> Reader] /\ c \in Nat /\ page.spent \in Nat /\ Chunks \in Int
      /\ PageSound(r, page) /\ DOMAIN r = Msg
  BY <1>1, ChunkIs DEF ReadInv, SessionTyped, PageTyped, BudgetInv
<1>3. Spent(c) = TookOf(r, Rows(c)) /\ spent = TookOf(r, UpTo(c + 1)) /\ spent \in Nat
 <2>1. Spent(c) = TookOf(r, Rows(c)) /\ TookOf(r, Rows(c)) \in Nat BY <1>2, TookIs DEF Spent
 <2>2. page.spent = TookOf(r, UpTo(c)) BY <1>1, <1>2 DEF PageSound
 <2> QED BY <1>2, <2>1, <2>2, TookIs
<1> HIDE DEF spent
<1>4. ASSUME NEW m \in Msg
      PROVE  /\ r[m] \in Reader /\ Sound(r[m], q, idx.v, torn)
             /\ r[m].pc = "idle" => /\ Silent(r[m]) /\ Sound(go(m), q, idx.v, torn) /\ go(m) \in Reader
                                    /\ go(m).pc = "resolve" /\ go(m).ref = r[m].ref
                                    /\ Charge(go(m)) = Charge(r[m])
 <2> DEFINE x == r[m]
            y == go(m)
 <2>1. x \in Reader /\ Sound(x, q, idx.v, torn) BY <1>2, ReaderIs
 <2>2. ASSUME x.pc = "idle"
       PROVE  /\ Silent(x) /\ Sound(y, q, idx.v, torn) /\ y \in Reader /\ y.pc = "resolve"
              /\ y.ref = x.ref /\ Charge(y) = Charge(x)
  <3>1. y \in Reader /\ y.pc = "resolve" /\ \A f \in Kept : y[f] = x[f]
    BY <2>1 DEF Reader, ReaderSteps, Kept
  <3> HIDE DEF y, x
  <3>2. StepRight(y, q) /\ TargetRight(y, q, idx.v, torn) /\ Silent(x) /\ Silent(y)
    BY <2>1, <2>2, <3>1 DEF StepRight, TargetRight, Sound, Known, Kept, Silent, Answered
  <3>3. Follows(x, y) BY <2>1, <3>1, <3>2, OnlyStepFollows
  <3> QED BY <3>1, <3>2, <3>3 DEF Follows, Kept, Charge
 <2> QED BY <2>1, <2>2
<1>5. \A m \in Msg :
        /\ g[m] \in Reader /\ Sound(g[m], q, idx.v, torn) /\ g[m].ref = r[m].ref
        /\ Charge(g[m]) = Charge(r[m])
        /\ g[m].pc = r[m].pc \/ (r[m].pc = "idle" /\ g[m].pc = "done")
             \/ (r[m].pc = "idle" /\ g[m].pc = "resolve" /\ m \in Rows(c + 1) /\ ~(spent >= Budget))
        /\ m \notin Rows(c + 1) => g[m] = r[m]
 <2> TAKE m \in Msg
 <2> DEFINE y == go(m)
 <2>1. g[m] = r[m] \/ (r[m].pc = "idle" /\ m \in Rows(c + 1) /\ (g[m] = Refuse(r[m]) \/ (g[m] = y /\ ~(spent >= Budget))))
   OBVIOUS
 <2>2. r[m].pc = "idle" => /\ Refuse(r[m]) \in Reader /\ Sound(Refuse(r[m]), q, idx.v, torn)
                           /\ Refuse(r[m]).ref = r[m].ref
                           /\ Refuse(r[m]).pc = "done" /\ Charge(Refuse(r[m])) = Charge(r[m])
   BY <1>4, RefuseSound DEF Sound
 <2>3. r[m].pc = "idle" => /\ Sound(y, q, idx.v, torn) /\ y \in Reader
                           /\ y.pc = "resolve" /\ y.ref = r[m].ref /\ Charge(y) = Charge(r[m])
   BY <1>4
 <2>4. r[m] \in Reader /\ Sound(r[m], q, idx.v, torn) BY <1>4
 <2>5. m \notin Rows(c + 1) => g[m] = r[m] OBVIOUS
 <2> HIDE DEF g, y, go
 <2> QED BY <2>1, <2>2, <2>3, <2>4, <2>5
<1> HIDE DEF g
<1>6. \A S : TookOf(g, S) = TookOf(r, S) BY <1>5, TookIs
<1>7. /\ page' \in [chunk : Nat, spent : Nat, round : {0, 1, 2}] /\ page'.chunk = c + 1 /\ page'.spent = spent
      /\ page'.round = page.round
 <2>1. page \in [chunk : Nat, spent : Nat, round : {0, 1, 2}] /\ c + 1 \in Nat
   BY <1>2 DEF ReadInv, PageTyped
 <2>2. page' = [page EXCEPT !.chunk = c + 1, !.spent = spent] BY <1>1
 <2> HIDE DEF c
 <2> QED BY <1>3, <2>1, <2>2
<1>8. PageTyped' /\ CacheSound' BY <1>1, <1>2, <1>7 DEF PageTyped, ReadInv, CacheSound
<1>9. ASSUME NEW m \in Msg PROVE RowPaid(g, m, c + 1)
 <2>1. RowPaid(r, m, c) /\ ChunkOf(m) \in Nat BY <1>2, ChunkIs DEF PageSound
 <2>2. g[m].pc = "idle" => Charge(g[m]) = 0 BY <1>5, <2>1 DEF RowPaid
 <2>3. ChunkOf(m) < c + 1 => g[m].pc \in {"planned", "done"}
  <3>1. ChunkOf(m) < c + 1 => (ChunkOf(m) < c \/ ChunkOf(m) = c) /\ ChunkOf(m) # c + 1
    BY <1>2, <2>1
  <3>2. (m \in Rows(c) <=> ChunkOf(m) = c) /\ (m \in Rows(c + 1) <=> ChunkOf(m) = c + 1)
    BY DEF Rows
  <3> HIDE DEF c
  <3> QED BY <1>1, <1>5, <2>1, <3>1, <3>2 DEF RowPaid
 <2>4. ChunkOf(m) > c + 1 => g[m].pc = "idle" \/ (g[m].pc = "done" /\ Charge(g[m]) = 0)
  <3>1. ChunkOf(m) > c + 1 => ChunkOf(m) > c /\ m \notin Rows(c + 1) BY <1>2, <2>1 DEF Rows
  <3> HIDE DEF c
  <3> QED BY <1>5, <2>1, <3>1 DEF RowPaid
 <2>5. Charge(g[m]) > 0 \/ g[m].pc \notin {"idle", "done"} => TookOf(g, UpTo(ChunkOf(m))) < Budget
  <3>1. ~(spent >= Budget) => spent < Budget BY <1>3
  <3>2. m \in Rows(c + 1) => ChunkOf(m) = c + 1 BY DEF Rows
  <3> HIDE DEF c
  <3>3. CASE r[m].pc = "idle" /\ g[m].pc = "resolve" /\ m \in Rows(c + 1) /\ ~(spent >= Budget)
    BY <1>3, <1>6, <3>1, <3>2, <3>3
  <3>4. CASE g[m].pc = r[m].pc \/ (r[m].pc = "idle" /\ g[m].pc = "done")
    BY <1>5, <1>6, <2>1, <3>4 DEF RowPaid
  <3> QED BY <1>5, <3>3, <3>4
 <2> QED BY <2>2, <2>3, <2>4, <2>5 DEF RowPaid
<1>10. PageSound(g, page') BY <1>3, <1>6, <1>7, <1>9 DEF PageSound
<1>11. r' = [m \in Msg |-> g[m]] /\ AllFollow(g)
  BY <1>1, <1>2, <1>5, ReaderIs DEF g, AllFollow
<1> QED BY <1>1, <1>8, <1>10, <1>11, PageMovesKeep

(* The planned rows are fetched together; what came over IMAP is cached under
   the key it was planned with. *)
LEMMA FetchGroupKeeps ==
  ASSUME ReadInv, NEW v \in 0..2, FetchGroup(v) PROVE ReadInv'
<1> DEFINE rows == {m \in DOMAIN r : r[m].pc = "planned" /\ r[m].v = v}
           new == {m \in rows : r'[m].from = "imap" /\ r'[m].key # None}
<1>1. /\ rows # {} /\ UNCHANGED <<srv, idx, q, torn, page>>
      /\ cache' = CacheWith(new, r')
      /\ \/ r' = [m \in Msg |-> IF m \in rows THEN Fetched(r[m]) ELSE r[m]]
         \/ r' = [m \in Msg |-> IF m \in rows THEN Unhydrated(r[m]) ELSE r[m]]
  BY DEF FetchGroup, Store
<1>2. q.kind = "page" /\ q \in Session /\ r \in [Msg -> Reader] /\ DOMAIN r = Msg
 <2>1. PICK m \in rows : TRUE BY <1>1
 <2>2. q.kind = "page" BY <2>1 DEF ReadInv, ReadersSound, Sound, Known, StepRight
 <2> QED BY <2>2 DEF ReadInv, SessionTyped
<1>3. ASSUME NEW m \in Msg, m \in rows, NEW y \in {Fetched(r[m]), Unhydrated(r[m])}
      PROVE  /\ Follows(r[m], y) /\ y.pc = "done" /\ Charge(y) = Charge(r[m])
             /\ y.from = "imap" => y.got \in Msg /\ y.key = r[m].key
 <2> DEFINE x == r[m]
 <2>1. x \in Reader /\ Sound(x, q, idx.v, torn) /\ x.ref.m \in Msg /\ x.pc = "planned"
   BY <1>2, <1>3, ReaderIs
 <2>2. Silent(x) /\ Known(x, q, torn) /\ x.from = None
   BY <2>1 DEF Silent, Answered, Sound, Known, Untouched
 <2>3. /\ Follows(x, Fetched(x)) /\ Fetched(x).pc = "done" /\ Charge(Fetched(x)) = Charge(x)
       /\ Fetched(x).from = "imap" => Fetched(x).got \in Msg
       /\ Fetched(x).key = x.key BY <1>2, <2>1, FetchedFollows
 <2>4. Follows(x, Unhydrated(x)) /\ Unhydrated(x).pc = "done" /\ Charge(Unhydrated(x)) = Charge(x)
   BY <1>2, <2>1, <2>2, UnhydratedFollows
 <2>5. Unhydrated(x).from # "imap"
  <3>1. Refuse(x).from = None BY <2>1, <2>2 DEF Refuse, Reader
  <3>2. LET z == [Locally(x) EXCEPT !.err = TRUE] IN z.from = "local"
    BY <2>1 DEF Locally, Reader
  <3>3. Unhydrated(x).from \in {None, "local"} BY <3>1, <3>2 DEF Unhydrated
  <3> QED BY <3>3, NoneIsNone
 <2> QED BY <1>3, <2>3, <2>4, <2>5
<1>4. r' = [m \in Msg |-> r'[m]] BY <1>1
<1>5. \A m \in Msg :
        /\ r'[m] \in Reader /\ Sound(r'[m], q, idx.v, torn) /\ r'[m].ref = r[m].ref
        /\ Charge(r'[m]) = Charge(r[m])
        /\ r'[m] = r[m] \/ (r'[m].pc = "done" /\ m \in rows)
        /\ m \in new => r'[m].got \in Msg /\ r'[m].key = r[m].key /\ r[m].key # None
 <2> TAKE m \in Msg
 <2>1. CASE m \in rows
  <3>1. r'[m] \in {Fetched(r[m]), Unhydrated(r[m])} BY <1>1, <2>1
  <3> DEFINE y == r'[m]
  <3> HIDE DEF y, rows
  <3>2. /\ Follows(r[m], y) /\ y.pc = "done" /\ Charge(y) = Charge(r[m])
        /\ y.from = "imap" => y.got \in Msg /\ y.key = r[m].key BY <1>3, <2>1, <3>1 DEF y
  <3> QED BY <2>1, <3>2 DEF Follows, y
 <2>2. CASE m \notin rows
  <3>1. r'[m] = r[m] BY <1>1, <2>2
  <3>2. m \notin new BY <2>2
  <3>3. r[m] \in Reader /\ Sound(r[m], q, idx.v, torn) BY <1>2, ReaderIs
  <3> HIDE DEF new, rows
  <3> QED BY <3>1, <3>2, <3>3
 <2> QED BY <2>1, <2>2
<1>6. CacheSound'
 <2>1. ASSUME NEW e \in cache'
       PROVE  e \in cache \/ \E m \in new : e = [key |-> r[m].key, got |-> r'[m].got]
   BY <1>1, <2>1 DEF CacheWith
 <2>2. ASSUME NEW m \in new
       PROVE  r[m].key \in Keys /\ r'[m].got \in Msg /\ (torn \/ Alike(q.id, r'[m].got, r[m].key[1]))
  <3>1. m \in Msg BY <1>2
  <3>2. r[m] \in Reader /\ Sound(r[m], q, idx.v, torn) /\ r[m].key # None
        /\ r'[m].ref = r[m].ref /\ r'[m].got \in Msg /\ Sound(r'[m], q, idx.v, torn)
    BY <1>2, <1>5, <3>1, <2>2, ReaderIs
  <3>3. r[m].key \in Keys /\ r[m].key[1] = r[m].ref.m
    BY <3>2 DEF Reader, Sound, Known, RefRight
  <3>4. torn \/ Alike(q.id, r'[m].got, r[m].ref.m)
    BY <3>2, NoneIsNone DEF Sound, Known, AnswerRight
  <3> QED BY <3>2, <3>3, <3>4
 <2> HIDE DEF new
 <2>3. \A e \in cache : e.key \in Keys /\ e.got \in Msg /\ (torn \/ Alike(q.id, e.got, e.key[1]))
   BY DEF ReadInv, CacheSound
 <2>4. ASSUME NEW e \in cache'
       PROVE  e.key \in Keys /\ e.got \in Msg /\ (torn \/ Alike(q.id, e.got, e.key[1]))
   BY <2>1, <2>2, <2>3, <2>4
 <2> QED BY <1>1, <2>4 DEF CacheSound
<1>7. \A S : TookOf(r', S) = TookOf(r, S) BY <1>5, TookIs
<1>8. PageTyped' BY <1>1 DEF ReadInv, PageTyped
<1>9. PageSound(r', page')
 <2>1. PageSound(r, page) /\ page' = page BY <1>1, <1>2 DEF ReadInv, BudgetInv
 <2>2. ASSUME NEW m \in Msg PROVE RowPaid(r', m, page.chunk)
  <3>1. RowPaid(r, m, page.chunk) BY <2>1 DEF PageSound
  <3>2. m \in rows => r[m].pc = "planned" OBVIOUS
  <3> HIDE DEF rows, new
  <3>3. r'[m].pc = r[m].pc \/ (r[m].pc = "planned" /\ r'[m].pc = "done") BY <1>5, <3>2
  <3> QED BY <1>5, <1>7, <3>1, <3>3 DEF RowPaid
 <2> QED BY <1>7, <2>1, <2>2 DEF PageSound
<1> HIDE DEF rows, new
<1>10. AllFollow(r') BY <1>2, <1>5, ReaderIs DEF AllFollow
<1> QED BY <1>1, <1>2, <1>4, <1>6, <1>8, <1>9, <1>10, PageMovesKeep

(* The deadline ends the rows that have not ended. *)
LEMMA DeadlineKeeps ==
  ASSUME ReadInv, Deadline PROVE ReadInv'
<1> DEFINE g == [m \in Msg |-> IF r[m].pc = "done" THEN r[m] ELSE Refuse(r[m])]
<1>1. /\ q.kind = "page" /\ page.chunk > 0 /\ r' = g /\ UNCHANGED <<srv, idx, q, torn, cache>>
      /\ page' = [page EXCEPT !.chunk = Chunks] BY DEF Deadline, Store
<1>2. /\ r \in [Msg -> Reader] /\ DOMAIN r = Msg /\ PageSound(r, page) /\ Chunks \in Int /\ page.chunk \in Nat
  BY <1>1, ChunkIs DEF ReadInv, SessionTyped, BudgetInv, PageTyped
<1>3. ASSUME NEW m \in Msg
      PROVE  /\ g[m] \in Reader /\ Sound(g[m], q, idx.v, torn) /\ g[m].ref = r[m].ref
             /\ Charge(g[m]) = Charge(r[m]) /\ g[m].pc = "done"
 <2> DEFINE x == r[m]
 <2>1. x \in Reader /\ Sound(x, q, idx.v, torn) /\ x.pc \notin {"write"} \cup Answered
   BY <1>1, <1>2, ReaderIs DEF Sound, Known, StepRight
 <2>2. Known(x, q, torn) /\ (x.pc # "done" => Silent(x)) BY <2>1 DEF Sound, Silent
 <2>3. x.pc # "done" => /\ Refuse(x) \in Reader /\ Sound(Refuse(x), q, idx.v, torn) /\ Refuse(x).ref = x.ref
                        /\ Charge(Refuse(x)) = Charge(x) /\ Refuse(x).pc = "done"
   BY <2>1, <2>2, RefuseSound
 <2> QED BY <2>1, <2>3
<1>4. r' = [m \in Msg |-> g[m]] BY <1>1
<1> HIDE DEF g
<1>5. \A S : TookOf(g, S) = TookOf(r, S) BY <1>3, TookIs
<1>6. PageTyped' /\ CacheSound' /\ page'.chunk = Chunks
 <2>1. /\ page \in [chunk : Nat, spent : Nat, round : {0, 1, 2}]
       /\ page.chunk <= Chunks BY <1>1, <1>2 DEF ReadInv, PageTyped
 <2>2. Chunks \in Nat BY <1>2, <2>1
 <2> QED BY <1>1, <2>1, <2>2 DEF ReadInv, PageTyped, CacheSound
<1>7. ASSUME NEW m \in Msg PROVE RowPaid(g, m, Chunks)
 <2>1. RowPaid(r, m, page.chunk) /\ ChunkOf(m) \in Nat /\ page.chunk <= Chunks
   BY <1>1, <1>2, ChunkIs DEF PageSound, ReadInv, PageTyped
 <2>2. ChunkOf(m) > Chunks => Charge(r[m]) = 0 BY <1>2, <2>1 DEF RowPaid
 <2>3. Charge(r[m]) > 0 => TookOf(g, UpTo(ChunkOf(m))) < Budget BY <1>5, <2>1 DEF RowPaid
 <2> QED BY <1>3, <2>2, <2>3 DEF RowPaid
<1>8. PageSound(g, page')
 <2>1. ~(page'.chunk < Chunks) BY <1>2, <1>6
 <2> QED BY <1>6, <1>7, <2>1 DEF PageSound
<1>9. AllFollow(g) BY <1>2, <1>3, ReaderIs DEF AllFollow
<1> QED BY <1>1, <1>4, <1>6, <1>8, <1>9, PageMovesKeep

(* A reader that was not started (NewReader). *)
LEMMA NewReaderIs ==
  ASSUME NEW ref \in RefType
  PROVE  LET x == NewReader(ref)
         IN  /\ x \in Reader /\ x.ref = ref /\ x.pc = "idle" /\ x.key = None /\ x.id = None
             /\ x.uid = 0 /\ x.v = 0 /\ x.got = None /\ x.complete = FALSE /\ x.err = FALSE
             /\ x.from = None /\ x.local = None /\ x.read = 0 /\ x.remote = FALSE /\ Charge(x) = 0
  BY DEF NewReader, Reader, ReaderSteps, Ids, Charge

(* A reader that was not started is sound where sessions start readers. *)
LEMMA NewReaderSound ==
  ASSUME NEW x \in Reader, NEW s, NEW v, NEW t,
         (x.pc = "idle" /\ s.kind \in {"page", "save"}) \/ (x.pc = "resolve" /\ s.kind = "read"),
         x.ref.v = 1 => Placed(1, x.ref.uid) = x.ref.m, x.ref.id \in {None, Rfc(s.id, x.ref.m)},
         x.key = None, x.id = None, x.uid = 0, x.v = 0, x.got = None, x.complete = FALSE, x.err = FALSE,
         x.from = None, x.local = None
  PROVE  Sound(x, s, v, t)
<1>1. RefRight(x, s) /\ Untouched(x) /\ StepRight(x, s)
  BY DEF RefRight, Untouched, StepRight, Answered
<1>2. AnswerWhole(x, s) /\ TargetRight(x, s, v, t) /\ AnswerRight(x, s, t)
  BY DEF AnswerWhole, TargetRight, AnswerRight
<1> QED BY <1>1, <1>2 DEF Sound, Known

(* The page is listed again from the index as it is now. *)
LEMMA ListAgainKeeps ==
  ASSUME ReadInv, ListAgain PROVE ReadInv'
<1> DEFINE ref(m) == [m |-> m, uid |-> idx.uid[m], v |-> 0, id |-> None]
           x(m) == NewReader(ref(m))
           g == [m \in Msg |-> IF idx.at[m] = "here" THEN x(m) ELSE Refuse(x(m))]
<1>1. /\ page.round = 1 /\ PageDone /\ r' = g /\ UNCHANGED <<srv, idx, q, torn, cache>>
      /\ page' = [chunk |-> 0, spent |-> 0, round |-> 2] BY DEF ListAgain, Store
<1>2. q.kind = "page" /\ DOMAIN r = Msg /\ q \in Session
  BY <1>1 DEF ReadInv, PageTyped, SessionTyped
<1>3. ASSUME NEW m \in Msg
      PROVE  /\ g[m] \in Reader /\ Sound(g[m], q, idx.v, torn) /\ g[m].ref.m = m
             /\ Charge(g[m]) = 0 /\ g[m].pc \in {"idle", "done"}
 <2> DEFINE id == ref(m)
            y == NewReader(id)
 <2>1. id \in RefType /\ id.m = m /\ id.v = 0 /\ id.id = None
   BY DEF RefType, Ids, ReadInv, StoreTyped
 <2>2. /\ y \in Reader /\ y.ref = id /\ y.pc = "idle" /\ y.key = None /\ y.id = None
       /\ y.uid = 0 /\ y.v = 0 /\ y.got = None /\ y.complete = FALSE /\ y.err = FALSE
       /\ y.from = None /\ y.local = None /\ Charge(y) = 0
  <3> HIDE DEF id
  <3> QED BY <2>1, NewReaderIs
 <2> HIDE DEF y, id
 <2>3. Sound(y, q, idx.v, torn)
  <3>1. /\ y.ref.v = 1 => Placed(1, y.ref.uid) = y.ref.m
        /\ y.ref.id \in {None, Rfc(q.id, y.ref.m)}
        /\ y.pc = "idle" /\ q.kind \in {"page", "save"} BY <1>2, <2>1, <2>2
  <3> QED BY <2>2, <3>1, NewReaderSound
 <2>4. Silent(y) /\ Known(y, q, torn) BY <2>2, <2>3 DEF Silent, Answered, Sound
 <2>5. /\ Refuse(y) \in Reader /\ Sound(Refuse(y), q, idx.v, torn) /\ Refuse(y).ref = y.ref
       /\ Charge(Refuse(y)) = 0 /\ Refuse(y).pc = "done" BY <2>2, <2>4, RefuseSound
 <2>6. g[m] \in {y, Refuse(y)} BY DEF y, id
 <2> HIDE DEF g
 <2> QED BY <2>1, <2>2, <2>3, <2>5, <2>6
<1>4. r' = [m \in Msg |-> g[m]] /\ AllFollow(g) BY <1>1, <1>3 DEF AllFollow
<1> HIDE DEF g
<1>5. \A S : TookOf(g, S) = 0 BY <1>3 DEF TookOf, Msg
<1>6. PageTyped' /\ CacheSound' /\ page'.chunk = 0 /\ page'.spent = 0
  BY <1>1, <1>2 DEF ReadInv, PageTyped, CacheSound
<1>7. ASSUME NEW m \in Msg PROVE RowPaid(g, m, 0)
 <2>1. ChunkOf(m) \in Nat BY ChunkIs
 <2> QED BY <1>3, <2>1 DEF RowPaid
<1>8. PageSound(g, page') BY <1>5, <1>6, <1>7 DEF PageSound
<1> QED BY <1>1, <1>2, <1>4, <1>6, <1>8, PageMovesKeep

(* Every step of the reading preserves the invariant. *)
LEMMA ReadStepKeeps ==
  ASSUME ReadInv, ReadStep PROVE ReadInv'
<1>1. ASSUME NEW p \in DOMAIN r,
             \/ Resolve(p) \/ OpenFile(p) \/ CheckRow(p) \/ UseSource(p) \/ UseExcerpt(p)
             \/ TargetRow(p) \/ Validity(p) \/ Identify(p) \/ Search(p) \/ Fetch(p) \/ ServerFails(p)
             \/ Membership(p) \/ LocalRow(p) \/ ReadFlags(p)
      PROVE  ReadInv'
 <2>1. Moves(p)
   BY <1>1, ResolveMoves, OpenFileMoves, CheckRowMoves, UseSourceMoves, UseExcerptMoves, TargetRowMoves,
      ValidityMoves, IdentifyMoves, SearchMoves, FetchMoves, MembershipMoves, LocalRowMoves, ReadFlagsMoves
 <2>2. UNCHANGED <<srv, idx, q, cache, page, torn>>
   BY <1>1 DEF Resolve, OpenFile, CheckRow, UseSource, UseExcerpt, TargetRow, Validity, Identify, Search,
      Fetch, ServerFails, Membership, LocalRow, ReadFlags, Quiet, Store
 <2> QED BY <2>1, <2>2, MovesKeep
<1> QED BY <1>1, NextChunkKeeps, FetchGroupKeeps, DeadlineKeeps, ListAgainKeeps DEF ReadStep
----------------------------------------------------------------------------
(* Mail and the server. *)

(* The server renumbers and expunges; every UID still names its message. *)
LEMMA ServerKeeps ==
  ASSUME ReadInv, Renumber \/ \E u \in Uid : ServerExpunges(u) PROVE ReadInv'
<1>1. UNCHANGED <<q, idx, r, cache, page, torn>> BY DEF Renumber, ServerExpunges
<1>2. srv' \in [v : {1, 2}, at : [Uid -> Msg \cup {None}]] /\ ServerPlaced'
 <2>1. CASE Renumber
  <3> DEFINE at == Rotated(srv.at)
  <3>1. srv.v = 1 /\ srv' = [v |-> 2, at |-> at] BY <2>1 DEF Renumber
  <3>2. ASSUME NEW u \in Uid PROVE at[u] \in Msg \cup {None} /\ at[u] \in {None, Placed(2, u)}
   <4>1. (u % 3) + 1 \in Uid /\ at[u] = srv.at[(u % 3) + 1] BY DEF Uid, Rotated
   <4>2. Placed(2, u) = Placed(1, (u % 3) + 1) BY DEF Placed
   <4> QED BY <3>1, <4>1, <4>2 DEF ReadInv, StoreTyped, ServerPlaced
  <3>3. DOMAIN at = Uid /\ at = [u \in Uid |-> at[u]] BY DEF Rotated
  <3> HIDE DEF at
  <3>4. at \in [Uid -> Msg \cup {None}] BY <3>2, <3>3
  <3> QED BY <3>1, <3>2, <3>4 DEF ServerPlaced
 <2>2. ASSUME NEW u \in Uid, ServerExpunges(u) PROVE srv' \in [v : {1, 2}, at : [Uid -> Msg \cup {None}]] /\ ServerPlaced'
  <3>1. srv' = [srv EXCEPT !.at[u] = None] /\ srv \in [v : {1, 2}, at : [Uid -> Msg \cup {None}]]
    BY <2>2 DEF ServerExpunges, ReadInv, StoreTyped
  <3>2. srv' \in [v : {1, 2}, at : [Uid -> Msg \cup {None}]] /\ srv'.v = srv.v
        /\ \A w \in Uid : srv'.at[w] \in {None, srv.at[w]} BY <3>1
  <3> QED BY <3>2 DEF ReadInv, ServerPlaced
 <2> QED BY <2>1, <2>2
<1> QED BY <1>1, <1>2 DEF ReadInv, SessionTyped, StoreTyped, PageTyped, IndexPlaced, ReadersSound, CacheSound, BudgetInv

(* When Mail takes over another UIDVALIDITY, every row it keeps gets the UID
   its message has; a reader in between is torn. *)
LEMMA ResyncKeeps ==
  ASSUME ReadInv, Resync PROVE ReadInv'
<1> DEFINE on(m) == \E u \in Uid : srv.at[u] = m
           at == [m \in Msg |-> IF on(m) THEN idx.at[m] ELSE "gone"]
           uid == [m \in Msg |-> IF on(m) THEN CHOOSE u \in Uid : srv.at[u] = m ELSE idx.uid[m]]
           tear == \E p \in DOMAIN r : r[p].pc = "localrow" \/ (r[p].pc = "validity" /\ r[p].ref.v = 0)
<1>1. /\ UNCHANGED <<q, srv, r, cache, page>> /\ torn' = (torn \/ tear)
      /\ idx' = [v |-> srv.v, at |-> at, uid |-> uid] BY DEF Resync
<1>2. srv.v \in {1, 2} /\ idx \in [at : [Msg -> {"here", "moved", "gone"}], uid : [Msg -> Uid], v : {1, 2}]
      /\ torn \in BOOLEAN BY DEF ReadInv, StoreTyped
<1>3. ASSUME NEW m \in Msg
      PROVE  at[m] \in {"here", "moved", "gone"} /\ uid[m] \in Uid /\ (at[m] # "gone" => Placed(srv.v, uid[m]) = m)
 <2>1. CASE on(m)
  <3>1. uid[m] \in Uid /\ srv.at[uid[m]] = m BY <2>1
  <3> HIDE DEF uid
  <3> QED BY <1>2, <2>1, <3>1, NoneIsNone DEF ReadInv, ServerPlaced
 <2>2. CASE ~on(m) BY <1>2, <2>2
 <2> QED BY <2>1, <2>2
<1>4. at \in [Msg -> {"here", "moved", "gone"}] /\ uid \in [Msg -> Uid] BY <1>3
<1> HIDE DEF at, uid, tear
<1>5. /\ idx' \in [at : [Msg -> {"here", "moved", "gone"}], uid : [Msg -> Uid], v : {1, 2}]
      /\ \A m \in Msg : idx'.at[m] # "gone" => Placed(idx'.v, idx'.uid[m]) = m
  BY <1>1, <1>2, <1>3, <1>4
<1>6. torn' \in BOOLEAN /\ (torn => torn') BY <1>1, <1>2 DEF tear
<1>7. ASSUME NEW p \in DOMAIN r PROVE Sound(r[p], q, idx'.v, torn')
 <2> DEFINE x == r[p]
 <2>1. Sound(x, q, idx.v, torn) BY DEF ReadInv, ReadersSound
 <2>2. x.pc = "localrow" \/ (x.pc = "validity" /\ x.ref.v = 0) => torn' BY <1>1 DEF tear
 <2> HIDE DEF x
 <2>3. TargetRight(x, q, idx'.v, torn') BY <1>6, <2>1, <2>2 DEF Sound, TargetRight
 <2>4. AnswerRight(x, q, torn') BY <1>6, <2>1 DEF Sound, Known, AnswerRight
 <2> QED BY <2>1, <2>3, <2>4 DEF Sound, Known, x
<1>8. ReadersSound' BY <1>1, <1>7 DEF ReadInv, ReadersSound
<1>9. CacheSound' BY <1>1, <1>6 DEF ReadInv, CacheSound
<1>10. SessionTyped' /\ StoreTyped' /\ PageTyped' /\ ServerPlaced' /\ IndexPlaced' /\ BudgetInv'
  BY <1>1, <1>5, <1>6 DEF ReadInv, SessionTyped, StoreTyped, PageTyped, ServerPlaced, IndexPlaced, BudgetInv
<1> QED BY <1>8, <1>9, <1>10 DEF ReadInv

(* Mail moves and deletes rows, and changes files. *)
LEMMA MailKeeps ==
  ASSUME ReadInv, InfoChanges \/ \E m \in DOMAIN r : RowChanges(m) \/ FileChanges(m) PROVE ReadInv'
<1>1. UNCHANGED <<q, srv, r, cache, page, torn>> BY DEF InfoChanges, RowChanges, FileChanges
<1>2. /\ idx' \in [at : [Msg -> {"here", "moved", "gone"}], uid : [Msg -> Uid], v : {1, 2}]
      /\ idx'.v = idx.v /\ idx'.uid = idx.uid /\ \A m \in Msg : idx'.at[m] # "gone" => idx.at[m] # "gone"
 <2>1. idx \in [at : [Msg -> {"here", "moved", "gone"}], uid : [Msg -> Uid], v : {1, 2}]
   BY DEF ReadInv, StoreTyped
 <2>2. \/ idx' = idx
       \/ \E m \in DOMAIN r : idx.at[m] = "here" /\ \E s \in {"moved", "gone"} : idx' = [idx EXCEPT !.at[m] = s]
   BY DEF InfoChanges, RowChanges, FileChanges
 <2>3. CASE idx' = idx BY <2>1, <2>3
 <2>4. ASSUME NEW m \in DOMAIN r, idx.at[m] = "here", NEW s \in {"moved", "gone"}, idx' = [idx EXCEPT !.at[m] = s]
       PROVE  /\ idx' \in [at : [Msg -> {"here", "moved", "gone"}], uid : [Msg -> Uid], v : {1, 2}]
              /\ idx'.v = idx.v /\ idx'.uid = idx.uid /\ \A n \in Msg : idx'.at[n] # "gone" => idx.at[n] # "gone"
  <3>1. m \in Msg BY ReaderIs
  <3> QED BY <2>1, <2>4, <3>1
 <2> QED BY <2>2, <2>3, <2>4
<1> QED BY <1>1, <1>2 DEF ReadInv, SessionTyped, StoreTyped, PageTyped, ServerPlaced, IndexPlaced, ReadersSound,
                          CacheSound, BudgetInv

(* Nothing that happens meanwhile disturbs the reading. *)
LEMMA EnvironmentKeeps ==
  ASSUME ReadInv, Environment PROVE ReadInv'
  BY ServerKeeps, ResyncKeeps, MailKeeps DEF Environment
----------------------------------------------------------------------------
(* The inductive invariant of the saving. *)

SaverSteps ==
  {"idle", "source", "hash", "create", "write", "verify", "evidence", "recheck", "unwrite", "capture",
   "publish", "link", "openout", "copycreate", "copy", "copystat", "restrict", "chmod", "restricted",
   "checktemp", "inspect", "inspected", "cleanup", "cleantemp", "drop", "outcome", "close", "done"}
Attachments == [st : {"norow", "none", "one", "many"}, ino : Nat, mtime : Nat]
Contents == [data : {"none", "good", "bad"}, private : BOOLEAN, touched : BOOLEAN]
SaverRecord ==
  [pc : SaverSteps, from : {None, "file", "local", "imap"}, pin : Attachments \cup {None},
   dirty : BOOLEAN, rm : {None, "tmp", "out"}, captured : BOOLEAN, out : Ours \cup {None},
   owned : BOOLEAN, published : BOOLEAN, retain : BOOLEAN, err : BOOLEAN,
   certainty : {None, "complete", "none", "unknown"}]
SaverTyped == d \in SaverRecord
DirectoryTyped ==
  /\ fs \in [tmp : {None, "temp", "other"}, out : Ours \cup {None, "other"}, moved : BOOLEAN, links : BOOLEAN]
  /\ con \in [Ours -> Contents]
  /\ ext \in Attachments
  /\ seen \in [others : Nat, blind : BOOLEAN, harmed : BOOLEAN, kept : BOOLEAN]

\* What is removed was looked at, and is another's only if it took the name since.
LookedAt ==
  /\ seen.harmed => seen.blind
  /\ d.pc = "drop" => d.rm \in {"tmp", "out"} /\ (fs[d.rm] = "other" => seen.blind)

\* As long as nobody disturbs, the files are as they were made.
Undisturbed == seen.others = 0
Still ==
  Undisturbed =>
    ~fs.moved /\ fs.tmp # "other" /\ \A o \in Ours : ~con[o].touched /\ con[o].private

\* What the saver holds at its steps.
BeforeCapture ==
  {"idle", "source", "hash", "create", "write", "verify", "evidence", "recheck", "unwrite", "capture"}
WithOutput ==
  {"copy", "copystat", "restrict", "chmod", "restricted", "checktemp", "inspect", "inspected"}
Controlled ==
  /\ d.pc \in BeforeCapture => ~d.captured
  /\ d.published => d.captured
  /\ d.pc \in BeforeCapture \cup {"publish", "link", "copycreate"} => ~d.published
  /\ ~d.published => d.out = None /\ ~d.owned
  /\ d.pc = "openout" => d.published /\ d.owned /\ d.out = None
  /\ d.pc \in {"copy", "copystat"} => d.out = "copy"
  /\ d.pc \in WithOutput => d.published /\ d.owned /\ d.out # None
  /\ d.retain => /\ d.published /\ d.out # None
                 /\ d.pc \in {"inspect", "inspected", "cleanup", "cleantemp", "drop", "outcome", "close", "done"}
  /\ d.pc = "drop" /\ ~d.captured => d.rm = "tmp"
  /\ d.pc = "drop" /\ d.rm = "out" => d.published
  /\ d.certainty # None => d.pc \in {"close", "done"}
  /\ d.pc = "close" => d.certainty # None
  /\ d.pc \in {"publish", "link", "copycreate"} => d.captured

\* The temporary file stands under its name until it is removed.
TempTracked ==
  Undisturbed /\ ~seen.kept =>
    /\ d.pc \in {"idle", "source", "hash", "create"} => fs.tmp = None
    /\ d.pc \in {"write", "verify", "evidence", "recheck", "capture"} => fs.tmp = "temp"
    /\ ~d.captured /\ d.pc \in {"cleanup", "cleantemp"} => fs.tmp = None
    /\ d.pc \in {"outcome", "close"} \/ (d.pc = "done" /\ d.certainty # None) => fs.tmp = None

\* The output stands under its name from the publication until the cleanup,
\* and beyond it only if it is retained.
Cleaned ==
  d.pc \in {"cleantemp", "outcome", "close", "done"} \/ (d.pc = "drop" /\ d.rm = "tmp" /\ d.captured)
NotSaving == d.pc = "idle" \/ (d.pc = "done" /\ d.certainty = None)
OutputTracked ==
  Undisturbed /\ ~NotSaving =>
    /\ ~d.published => fs.out = None
    /\ d.pc = "openout" => fs.out = "temp"
    /\ d.published /\ d.pc # "openout" => d.owned /\ d.out # None /\ (Cleaned \/ fs.out = d.out)
    /\ Cleaned => fs.out = None \/ (d.retain /\ fs.out = d.out) \/ seen.kept

\* What is answered is so.
OutcomeTrue ==
  /\ d.certainty = "complete" =>
       /\ d.published /\ d.out # None /\ fs.out = d.out /\ ~fs.moved
       /\ con[d.out].private /\ (con[d.out].data = "good" \/ seen.blind)
  /\ d.certainty = "none" => fs.out = None
  /\ d.certainty \in {"none", "unknown"} => d.err /\ (Undisturbed /\ ~seen.kept => fs.out = None)

\* Bytes that were read back are good unless they were touched since.
Good(o) == con[o].touched \/ con[o].data = "good" \/ seen.blind
Bytes ==
  /\ d.pc = "evidence" => con["temp"].data = "good" \/ seen.blind
  /\ d.pc \in {"recheck", "capture"} \/ d.captured => Good("temp")
  /\ d.pc = "copy" /\ con["copy"].touched => seen.blind
  /\ d.pc = "copystat" => con["copy"].data = "good" \/ seen.blind
  /\ d.out = "copy" /\ (d.retain \/ d.pc \in {"restrict", "chmod", "restricted", "checktemp"}) => Good("copy")

\* Bytes are written of a message, or its file, that was read.
Writing ==
  {"hash", "create", "write", "verify", "evidence", "recheck", "unwrite", "capture", "publish", "link",
   "openout", "copycreate"}
Provenance ==
  /\ d.pc # "idle" => q.kind = "save"
  /\ d.pc = "idle" /\ q.kind = "save" => r["a"].pc = "idle"
  /\ d.published \/ d.pc \in Writing => r["a"].pc = "write"

SaveInv ==
  /\ SaverTyped /\ DirectoryTyped /\ LookedAt /\ Still /\ Controlled /\ TempTracked /\ OutputTracked
  /\ OutcomeTrue /\ Bytes /\ Provenance
----------------------------------------------------------------------------
(* Steps of the saver. *)

(* Nothing of the saver's is None. *)
LEMMA NoneElse == None \notin {"temp", "copy", "other", "tmp", "out", "complete", "none", "unknown"}
  BY SaveAssumption DEF Ours

\* The fields of the saver but its step, and those a step leaves alone.
Held == {"from", "pin", "dirty", "rm", "captured", "out", "owned", "published", "retain", "err", "certainty"}
Stays(changed) == \A f \in Held \ changed : d'[f] = d[f]

(* The saver goes on to its next step, or to the cleanup (Then, Fails). *)

(* With the cleanup comes an error. *)

(* The bytes of a message, or of Mail's file for it, are at hand. *)
LEMMA WrittenFollows ==
  ASSUME NEW x \in Reader, NEW y \in Reader, Sound(x, q, idx.v, torn), Silent(x), q.kind = "save", x.ref.m = "a",
         y.pc = "write", y.got = "a", y.ref = x.ref, y.id = x.id, y.key = x.key, y.local = x.local
  PROVE  Follows(x, y)
<1>1. RefRight(y, q) /\ Untouched(y) /\ AnswerWhole(y, q) /\ TargetRight(y, q, idx.v, torn)
  BY DEF Sound, Known, RefRight, Untouched, AnswerWhole, TargetRight
<1>2. StepRight(y, q) BY NoneIsNone DEF StepRight, Answered, Msg
<1>3. AnswerRight(y, q, torn) BY AlikeIs DEF Sound, Known, Untouched, AnswerRight, Silent, Msg
<1> QED BY <1>1, <1>2, <1>3 DEF Follows, Sound, Known

(* The one reader of a save. *)
LEMMA SaveReader ==
  ASSUME ReadInv, q.kind = "save"
  PROVE  /\ DOMAIN r = {"a"} /\ "a" \in Msg /\ r["a"] \in Reader /\ r["a"].ref.m = "a"
         /\ Sound(r["a"], q, idx.v, torn) /\ q \in Session
<1>1. DOMAIN r = {"a"} /\ "a" \in Msg BY DEF ReadInv, SessionTyped, Msg
<1> QED BY <1>1, ReaderIs

(* The saver moves its reader. *)
LEMMA SaveMoves ==
  ASSUME ReadInv, q.kind = "save", NEW y, Follows(r["a"], y), r' = [r EXCEPT !["a"] = y],
         UNCHANGED <<srv, idx, q, cache, page, torn>>
  PROVE  ReadInv' /\ r'["a"] = y
<1>1. "a" \in DOMAIN r BY SaveReader
<1>2. Moves("a") BY DEF Moves
<1>3. ReadInv' BY <1>1, <1>2, MovesKeep
<1> QED BY <1>1, <1>3

(* A step that does not touch the reading. *)
LEMMA ReadInvStays ==
  ASSUME ReadInv, UNCHANGED <<q, srv, idx, r, cache, page, torn>> PROVE ReadInv'
  BY DEF ReadInv, SessionTyped, StoreTyped, PageTyped, ServerPlaced, IndexPlaced, ReadersSound, CacheSound, BudgetInv

(* The reading begins with the save. *)
LEMMA OpenPublicationReads ==
  ASSUME ReadInv, SaveInv, OpenPublication PROVE ReadInv'
<1> DEFINE x == r["a"]
           y == [x EXCEPT !.pc = "resolve"]
<1>1. /\ UNCHANGED <<q, srv, idx, cache, page, torn>> /\ q.kind = "save" /\ x.pc = "idle"
      /\ UNCHANGED r \/ r' = [r EXCEPT !["a"] = y]
  BY DEF OpenPublication, Saver, Goes, SaveInv, Provenance
<1>2. x \in Reader /\ Sound(x, q, idx.v, torn) BY <1>1, SaveReader
<1>3. CASE UNCHANGED r BY <1>1, <1>3, ReadInvStays
<1>4. CASE r' = [r EXCEPT !["a"] = y]
 <2>1. y \in Reader /\ y.pc = "resolve" /\ \A f \in Kept : y[f] = x[f]
   BY <1>2 DEF Reader, ReaderSteps, Kept
 <2> HIDE DEF x, y
 <2>2. Silent(x) /\ Silent(y) /\ StepRight(y, q) /\ TargetRight(y, q, idx.v, torn)
   BY <1>1, <1>2, <1>4, <2>1 DEF Silent, Answered, StepRight, TargetRight, Sound, Kept
 <2>3. Follows(x, y) BY <1>2, <2>1, <2>2, OnlyStepFollows
 <2> QED BY <1>1, <1>4, <2>3, SaveMoves DEF x
<1> QED BY <1>1, <1>3, <1>4

(* From the message's own source, or Mail's file, the bytes are written; without
   either the message is looked for again. *)
LEMMA UseStoredDoes ==
  ASSUME ReadInv, q.kind = "save", UseStored
  PROVE  /\ d.pc = "source" /\ UNCHANGED <<q, fs, con, ext, seen>> /\ ReadInv'
         /\ \/ (d' = [Then(d, "hash") EXCEPT !.from = "file", !.pin = ext]) /\ r'["a"].pc = "write"
            \/ d' = Fails(d)
            \/ (d' = [Then(d, "create") EXCEPT !.from = "local"]) /\ r'["a"].pc = "write"
            \/ d' = d
<1> DEFINE x == r["a"]
           w == [x EXCEPT !.pc = "write", !.got = "a"]
           l == [Locally(x) EXCEPT !.pc = "write"]
           y == [x EXCEPT !.pc = "again"]
<1>1. /\ d.pc = "source" /\ UNCHANGED <<q, srv, idx, cache, page, torn, fs, con, ext, seen>> /\ x.pc = "use"
      /\ \/ d' \in {[Then(d, "hash") EXCEPT !.from = "file", !.pin = ext], Fails(d)} /\ r' = [r EXCEPT !["a"] = w]
         \/ (d' = [Then(d, "create") EXCEPT !.from = "local"]) /\ r' = [r EXCEPT !["a"] = l]
         \/ d' = d /\ r' = [r EXCEPT !["a"] = y] BY DEF UseStored, Saver, Goes, Pinned
<1>2. x \in Reader /\ x.ref.m = "a" /\ Sound(x, q, idx.v, torn) /\ Silent(x) /\ "a" \in Msg
  BY <1>1, SaveReader DEF Silent, Answered
<1>3. Follows(x, w) /\ w.pc = "write"
 <2>1. w \in Reader /\ w.pc = "write" /\ w.got = "a" /\ \A f \in Kept \ {"got"} : w[f] = x[f]
   BY <1>2 DEF Reader, ReaderSteps, Kept
 <2> HIDE DEF x, w
 <2> QED BY <1>2, <2>1, WrittenFollows DEF Kept
<1>4. Follows(x, l) /\ l.pc = "write"
 <2> DEFINE b == x.open = "full"
 <2>1. b \in BOOLEAN OBVIOUS
 <2>2. l = [[x EXCEPT !.pc = "done", !.got = x.ref.m, !.from = "local", !.complete = b] EXCEPT !.pc = "write"]
   BY DEF Locally
 <2> HIDE DEF b, l
 <2>3. l \in Reader /\ l.pc = "write" /\ l.got = "a" /\ \A f \in {"ref", "id", "key", "local"} : l[f] = x[f]
   BY ZenonT(60), <1>2, <2>1, <2>2 DEF Reader, ReaderSteps
 <2> HIDE DEF x
 <2> QED BY <1>2, <2>3, WrittenFollows
<1>5. Follows(x, y)
 <2>1. y \in Reader /\ y.pc = "again" /\ \A f \in Kept : y[f] = x[f]
   BY <1>2 DEF Reader, ReaderSteps, Kept
 <2> HIDE DEF x, y
 <2>2. Silent(y) /\ StepRight(y, q) /\ TargetRight(y, q, idx.v, torn)
   BY <1>1, <1>2, <2>1 DEF Silent, Answered, StepRight, TargetRight, Sound, Known, Kept
 <2> QED BY <1>2, <2>1, <2>2, OnlyStepFollows
<1> HIDE DEF w, l, y
<1> QED BY <1>1, <1>3, <1>4, <1>5, SaveMoves

(* Without its message Mail's file may still be there; otherwise the server is
   asked, or the save fails. *)
LEMMA UseMaterializedDoes ==
  ASSUME ReadInv, q.kind = "save", UseMaterialized
  PROVE  /\ d.pc = "source" /\ UNCHANGED <<q, fs, con, ext, seen>> /\ ReadInv'
         /\ \/ (d' = [Then(d, "hash") EXCEPT !.from = "file", !.pin = ext]) /\ r'["a"].pc = "write"
            \/ d' = Fails(d)
            \/ d' = d
<1> DEFINE x == r["a"]
           w == [x EXCEPT !.pc = "write", !.got = "a"]
<1>1. /\ d.pc = "source" /\ UNCHANGED <<q, srv, idx, cache, page, torn, fs, con, ext, seen>> /\ x.pc = "again"
      /\ \/ d' = d /\ r' = [r EXCEPT !["a"] = Hydrate(x)]
         \/ d' \in {[Then(d, "hash") EXCEPT !.from = "file", !.pin = ext], Fails(d)} /\ r' = [r EXCEPT !["a"] = w]
         \/ d' = Fails(d) /\ r' = [r EXCEPT !["a"] = Refuse(x)]
  BY DEF UseMaterialized, Saver, Goes, Pinned
<1>2. x \in Reader /\ x.ref.m = "a" /\ Sound(x, q, idx.v, torn) /\ Silent(x) /\ "a" \in Msg /\ q \in Session
  BY <1>1, SaveReader DEF Silent, Answered
<1>3. Follows(x, w) /\ w.pc = "write"
 <2>1. w \in Reader /\ w.pc = "write" /\ w.got = "a" /\ \A f \in Kept \ {"got"} : w[f] = x[f]
   BY <1>2 DEF Reader, ReaderSteps, Kept
 <2> HIDE DEF x, w
 <2> QED BY <1>2, <2>1, WrittenFollows DEF Kept
<1>4. Follows(x, Hydrate(x)) BY <1>1, <1>2, LostFollows
<1>5. Follows(x, Refuse(x)) BY <1>2, RefuseSound DEF Follows, Sound
<1> HIDE DEF w
<1> QED BY <1>1, <1>3, <1>4, <1>5, SaveMoves

(* The save is refused, or its source is looked for. *)
LEMMA OpenPublicationKeeps ==
  ASSUME SaveInv, OpenPublication PROVE SaveInv'
<1>1. SaverTyped /\ DirectoryTyped /\ Controlled BY DEF SaveInv
<1>2. /\ d.pc = "idle" /\ q' = q /\ q.kind = "save" /\ UNCHANGED <<fs, con, ext, seen>>
      /\ \/ /\ fs.out # None /\ d' = [Then(d, "done") EXCEPT !.err = TRUE]
         \/ /\ fs.out = None /\ d' = Then(d, "source") BY DEF OpenPublication, Saver
<1>3. /\ SaverTyped' /\ DirectoryTyped' /\ Stays({"err"})
      /\ \/ /\ d'.pc = "done" /\ d'.err = TRUE
         \/ /\ fs.out = None /\ d'.pc = "source" /\ d'.err = d.err
 <2>1. CASE /\ fs.out # None /\ d' = [Then(d, "done") EXCEPT !.err = TRUE]
  <3>1. /\ SaverTyped' /\ Stays({"err"}) /\ d'.pc = "done" /\ d'.err = TRUE
    BY <1>1, <2>1 DEF SaverTyped, SaverRecord, SaverSteps, Then, Fails, Stays, Held
  <3> QED BY <1>1, <1>2, <2>1, <3>1 DEF DirectoryTyped
 <2>2. CASE /\ fs.out = None /\ d' = Then(d, "source")
  <3>1. /\ SaverTyped' /\ Stays({"err"}) /\ d'.pc = "source" /\ d'.err = d.err
    BY <1>1, <2>2 DEF SaverTyped, SaverRecord, SaverSteps, Then, Fails, Stays, Held
  <3> QED BY <1>1, <1>2, <2>2, <3>1 DEF DirectoryTyped
 <2> QED BY <1>2, <2>1, <2>2
<1> USE <1>1, <1>2, <1>3, NoneElse DEF SaveInv, SaverTyped, SaverRecord, DirectoryTyped, Stays, Held
<1>4. LookedAt' BY DEF LookedAt
<1>5. Still' BY DEF Still, Undisturbed, NewFile
<1>6. Controlled' BY DEF Controlled, BeforeCapture, WithOutput
<1>7. TempTracked'
  BY DEF TempTracked, Still, Undisturbed, Controlled, BeforeCapture, WithOutput
<1>8. OutputTracked'
  BY DEF OutputTracked, Still, Undisturbed, Controlled, Cleaned, NotSaving, BeforeCapture, WithOutput
<1>9. OutcomeTrue' BY DEF OutcomeTrue, Controlled, Undisturbed
<1>10. Bytes' BY DEF Bytes, Good, Controlled, BeforeCapture, WithOutput, NewFile
<1>11. Provenance' BY DEF Provenance, Writing, Controlled, BeforeCapture
<1> QED BY <1>4, <1>5, <1>6, <1>7, <1>8, <1>9, <1>10, <1>11

(* The saver's part of taking the bytes from the store. *)
LEMMA UseStoredKeeps ==
  ASSUME ReadInv, SaveInv, UseStored PROVE SaveInv'
<1>1. SaverTyped /\ DirectoryTyped /\ Controlled BY DEF SaveInv
<1>2. /\ d.pc = "source" /\ UNCHANGED <<q, fs, con, ext, seen>>
      /\ \/ /\ d' = [Then(d, "hash") EXCEPT !.from = "file", !.pin = ext] /\ r'["a"].pc = "write"
         \/ /\ d' = Fails(d)
         \/ /\ d' = [Then(d, "create") EXCEPT !.from = "local"] /\ r'["a"].pc = "write"
         \/ /\ d' = d BY UseStoredDoes DEF SaveInv, Provenance, UseStored, Saver
<1>3. /\ SaverTyped' /\ DirectoryTyped' /\ Stays({"from", "pin", "err"})
      /\ \/ /\ r'["a"].pc = "write" /\ d'.pc = "hash" /\ d'.err = d.err
         \/ /\ d'.pc = "cleanup" /\ d'.err = TRUE
         \/ /\ r'["a"].pc = "write" /\ d'.pc = "create" /\ d'.err = d.err
         \/ /\ d'.pc = d.pc /\ d'.err = d.err
 <2>1. CASE /\ d' = [Then(d, "hash") EXCEPT !.from = "file", !.pin = ext] /\ r'["a"].pc = "write"
  <3>1. /\ SaverTyped' /\ Stays({"from", "pin", "err"}) /\ d'.pc = "hash" /\ d'.err = d.err
    BY <1>1, <2>1 DEF SaverTyped, SaverRecord, SaverSteps, Then, Fails, Stays, Held, DirectoryTyped
  <3> QED BY <1>1, <1>2, <2>1, <3>1 DEF DirectoryTyped
 <2>2. CASE d' = Fails(d)
  <3>1. /\ SaverTyped' /\ Stays({"from", "pin", "err"}) /\ d'.pc = "cleanup" /\ d'.err = TRUE
    BY <1>1, <2>2 DEF SaverTyped, SaverRecord, SaverSteps, Then, Fails, Stays, Held, DirectoryTyped
  <3> QED BY <1>1, <1>2, <2>2, <3>1 DEF DirectoryTyped
 <2>3. CASE /\ d' = [Then(d, "create") EXCEPT !.from = "local"] /\ r'["a"].pc = "write"
  <3>1. /\ SaverTyped' /\ Stays({"from", "pin", "err"}) /\ d'.pc = "create" /\ d'.err = d.err
    BY <1>1, <2>3 DEF SaverTyped, SaverRecord, SaverSteps, Then, Fails, Stays, Held, DirectoryTyped
  <3> QED BY <1>1, <1>2, <2>3, <3>1 DEF DirectoryTyped
 <2>4. CASE d' = d
  <3>1. /\ SaverTyped' /\ Stays({"from", "pin", "err"}) /\ d'.pc = d.pc /\ d'.err = d.err
    BY <1>1, <2>4 DEF SaverTyped, SaverRecord, SaverSteps, Then, Fails, Stays, Held, DirectoryTyped
  <3> QED BY <1>1, <1>2, <2>4, <3>1 DEF DirectoryTyped
 <2> QED BY <1>2, <2>1, <2>2, <2>3, <2>4
<1> USE <1>1, <1>2, <1>3, NoneElse DEF SaveInv, SaverTyped, SaverRecord, DirectoryTyped, Stays, Held
<1>4. LookedAt' BY DEF LookedAt
<1>5. Still' BY DEF Still, Undisturbed, NewFile
<1>6. Controlled' BY DEF Controlled, BeforeCapture, WithOutput
<1>7. TempTracked'
  BY DEF TempTracked, Still, Undisturbed, Controlled, BeforeCapture, WithOutput
<1>8. OutputTracked'
  BY DEF OutputTracked, Still, Undisturbed, Controlled, Cleaned, NotSaving, BeforeCapture, WithOutput
<1>9. OutcomeTrue' BY DEF OutcomeTrue, Controlled, Undisturbed
<1>10. Bytes' BY DEF Bytes, Good, Controlled, BeforeCapture, WithOutput, NewFile
<1>11. Provenance' BY DEF Provenance, Writing, Controlled, BeforeCapture
<1> QED BY <1>4, <1>5, <1>6, <1>7, <1>8, <1>9, <1>10, <1>11

(* The saver's part of taking the bytes without the message. *)
LEMMA UseMaterializedKeeps ==
  ASSUME ReadInv, SaveInv, UseMaterialized PROVE SaveInv'
<1>1. SaverTyped /\ DirectoryTyped /\ Controlled BY DEF SaveInv
<1>2. /\ d.pc = "source" /\ UNCHANGED <<q, fs, con, ext, seen>>
      /\ \/ /\ d' = [Then(d, "hash") EXCEPT !.from = "file", !.pin = ext] /\ r'["a"].pc = "write"
         \/ /\ d' = Fails(d)
         \/ /\ d' = d BY UseMaterializedDoes DEF SaveInv, Provenance, UseMaterialized, Saver
<1>3. /\ SaverTyped' /\ DirectoryTyped' /\ Stays({"from", "pin", "err"})
      /\ \/ /\ r'["a"].pc = "write" /\ d'.pc = "hash" /\ d'.err = d.err
         \/ /\ d'.pc = "cleanup" /\ d'.err = TRUE
         \/ /\ d'.pc = d.pc /\ d'.err = d.err
 <2>1. CASE /\ d' = [Then(d, "hash") EXCEPT !.from = "file", !.pin = ext] /\ r'["a"].pc = "write"
  <3>1. /\ SaverTyped' /\ Stays({"from", "pin", "err"}) /\ d'.pc = "hash" /\ d'.err = d.err
    BY <1>1, <2>1 DEF SaverTyped, SaverRecord, SaverSteps, Then, Fails, Stays, Held, DirectoryTyped
  <3> QED BY <1>1, <1>2, <2>1, <3>1 DEF DirectoryTyped
 <2>2. CASE d' = Fails(d)
  <3>1. /\ SaverTyped' /\ Stays({"from", "pin", "err"}) /\ d'.pc = "cleanup" /\ d'.err = TRUE
    BY <1>1, <2>2 DEF SaverTyped, SaverRecord, SaverSteps, Then, Fails, Stays, Held, DirectoryTyped
  <3> QED BY <1>1, <1>2, <2>2, <3>1 DEF DirectoryTyped
 <2>3. CASE d' = d
  <3>1. /\ SaverTyped' /\ Stays({"from", "pin", "err"}) /\ d'.pc = d.pc /\ d'.err = d.err
    BY <1>1, <2>3 DEF SaverTyped, SaverRecord, SaverSteps, Then, Fails, Stays, Held, DirectoryTyped
  <3> QED BY <1>1, <1>2, <2>3, <3>1 DEF DirectoryTyped
 <2> QED BY <1>2, <2>1, <2>2, <2>3
<1> USE <1>1, <1>2, <1>3, NoneElse DEF SaveInv, SaverTyped, SaverRecord, DirectoryTyped, Stays, Held
<1>4. LookedAt' BY DEF LookedAt
<1>5. Still' BY DEF Still, Undisturbed, NewFile
<1>6. Controlled' BY DEF Controlled, BeforeCapture, WithOutput
<1>7. TempTracked'
  BY DEF TempTracked, Still, Undisturbed, Controlled, BeforeCapture, WithOutput
<1>8. OutputTracked'
  BY DEF OutputTracked, Still, Undisturbed, Controlled, Cleaned, NotSaving, BeforeCapture, WithOutput
<1>9. OutcomeTrue' BY DEF OutcomeTrue, Controlled, Undisturbed
<1>10. Bytes' BY DEF Bytes, Good, Controlled, BeforeCapture, WithOutput, NewFile
<1>11. Provenance' BY DEF Provenance, Writing, Controlled, BeforeCapture
<1> QED BY <1>4, <1>5, <1>6, <1>7, <1>8, <1>9, <1>10, <1>11

(* The server's bytes are there, or the reading was refused. *)
LEMMA SourceEndsKeeps ==
  ASSUME SaveInv, SourceEnds PROVE SaveInv'
<1>1. SaverTyped /\ DirectoryTyped /\ Controlled BY DEF SaveInv
<1>2. /\ d.pc = "source" /\ UNCHANGED <<q, r, fs, con, ext, seen>>
      /\ \/ /\ d' = Fails(d)
         \/ /\ r["a"].pc = "write" /\ d' = [Then(d, "create") EXCEPT !.from = "imap"]
  BY DEF SourceEnds, Saver, Keeps
<1>3. /\ SaverTyped' /\ DirectoryTyped' /\ Stays({"from", "err"})
      /\ \/ /\ d'.pc = "cleanup" /\ d'.err = TRUE /\ d'.from = d.from
         \/ /\ r["a"].pc = "write" /\ d'.pc = "create" /\ d'.from = "imap" /\ d'.err = d.err
 <2>1. CASE d' = Fails(d)
  <3>1. /\ SaverTyped' /\ Stays({"from", "err"}) /\ d'.pc = "cleanup" /\ d'.err = TRUE
        /\ d'.from = d.from
    BY <1>1, <2>1 DEF SaverTyped, SaverRecord, SaverSteps, Then, Fails, Stays, Held
  <3> QED BY <1>1, <1>2, <2>1, <3>1 DEF DirectoryTyped
 <2>2. CASE /\ r["a"].pc = "write" /\ d' = [Then(d, "create") EXCEPT !.from = "imap"]
  <3>1. /\ SaverTyped' /\ Stays({"from", "err"}) /\ d'.pc = "create" /\ d'.from = "imap"
        /\ d'.err = d.err
    BY <1>1, <2>2 DEF SaverTyped, SaverRecord, SaverSteps, Then, Fails, Stays, Held
  <3> QED BY <1>1, <1>2, <2>2, <3>1 DEF DirectoryTyped
 <2> QED BY <1>2, <2>1, <2>2
<1> USE <1>1, <1>2, <1>3, NoneElse DEF SaveInv, SaverTyped, SaverRecord, DirectoryTyped, Stays, Held
<1>4. LookedAt' BY DEF LookedAt
<1>5. Still' BY DEF Still, Undisturbed, NewFile
<1>6. Controlled' BY DEF Controlled, BeforeCapture, WithOutput
<1>7. TempTracked'
  BY DEF TempTracked, Still, Undisturbed, Controlled, BeforeCapture, WithOutput
<1>8. OutputTracked'
  BY DEF OutputTracked, Still, Undisturbed, Controlled, Cleaned, NotSaving, BeforeCapture, WithOutput
<1>9. OutcomeTrue' BY DEF OutcomeTrue, Controlled, Undisturbed
<1>10. Bytes' BY DEF Bytes, Good, Controlled, BeforeCapture, WithOutput, NewFile
<1>11. Provenance' BY DEF Provenance, Writing, Controlled, BeforeCapture
<1> QED BY <1>4, <1>5, <1>6, <1>7, <1>8, <1>9, <1>10, <1>11

(* The pinned file is read. *)
LEMMA HashFileKeeps ==
  ASSUME SaveInv, HashFile PROVE SaveInv'
<1>1. SaverTyped /\ DirectoryTyped /\ Controlled BY DEF SaveInv
<1>2. /\ d.pc = "hash" /\ UNCHANGED <<q, r, fs, con, ext, seen>>
      /\ \/ /\ d' = Then(d, "create")
         \/ /\ d' = Fails(d) BY DEF HashFile, Saver, Keeps
<1>3. /\ SaverTyped' /\ DirectoryTyped' /\ Stays({"err"})
      /\ \/ /\ d'.pc = "create" /\ d'.err = d.err
         \/ /\ d'.pc = "cleanup" /\ d'.err = TRUE
 <2>1. CASE d' = Then(d, "create")
  <3>1. /\ SaverTyped' /\ Stays({"err"}) /\ d'.pc = "create" /\ d'.err = d.err
    BY <1>1, <2>1 DEF SaverTyped, SaverRecord, SaverSteps, Then, Fails, Stays, Held
  <3> QED BY <1>1, <1>2, <2>1, <3>1 DEF DirectoryTyped
 <2>2. CASE d' = Fails(d)
  <3>1. /\ SaverTyped' /\ Stays({"err"}) /\ d'.pc = "cleanup" /\ d'.err = TRUE
    BY <1>1, <2>2 DEF SaverTyped, SaverRecord, SaverSteps, Then, Fails, Stays, Held
  <3> QED BY <1>1, <1>2, <2>2, <3>1 DEF DirectoryTyped
 <2> QED BY <1>2, <2>1, <2>2
<1> USE <1>1, <1>2, <1>3, NoneElse DEF SaveInv, SaverTyped, SaverRecord, DirectoryTyped, Stays, Held
<1>4. LookedAt' BY DEF LookedAt
<1>5. Still' BY DEF Still, Undisturbed, NewFile
<1>6. Controlled' BY DEF Controlled, BeforeCapture, WithOutput
<1>7. TempTracked'
  BY DEF TempTracked, Still, Undisturbed, Controlled, BeforeCapture, WithOutput
<1>8. OutputTracked'
  BY DEF OutputTracked, Still, Undisturbed, Controlled, Cleaned, NotSaving, BeforeCapture, WithOutput
<1>9. OutcomeTrue' BY DEF OutcomeTrue, Controlled, Undisturbed
<1>10. Bytes' BY DEF Bytes, Good, Controlled, BeforeCapture, WithOutput, NewFile
<1>11. Provenance' BY DEF Provenance, Writing, Controlled, BeforeCapture
<1> QED BY <1>4, <1>5, <1>6, <1>7, <1>8, <1>9, <1>10, <1>11

(* The temporary file is created under a free name. *)
LEMMA CreateTempKeeps ==
  ASSUME SaveInv, CreateTemp PROVE SaveInv'
<1>1. SaverTyped /\ DirectoryTyped /\ Controlled BY DEF SaveInv
<1>2. /\ d.pc = "create" /\ UNCHANGED <<q, r, ext, seen>>
      /\ \/ /\ d' = Fails(d) /\ UNCHANGED <<fs, con>>
         \/ /\ fs.tmp = None /\ d' = Then(d, "write") /\ fs' = [fs EXCEPT !.tmp = "temp"]
            /\ con' = [con EXCEPT !["temp"] = NewFile] BY DEF CreateTemp, Saver, Keeps
<1>3. /\ SaverTyped' /\ DirectoryTyped' /\ Stays({"err"})
      /\ \/ /\ d'.pc = "cleanup" /\ d'.err = TRUE /\ UNCHANGED <<fs, con>>
         \/ /\ fs.tmp = None /\ d'.pc = "write" /\ d'.err = d.err /\ fs'.tmp = "temp"
            /\ fs'.out = fs.out /\ fs'.moved = fs.moved /\ con'["temp"] = NewFile
            /\ con'["copy"] = con["copy"]
 <2>1. CASE /\ d' = Fails(d) /\ UNCHANGED <<fs, con>>
  <3>1. /\ SaverTyped' /\ Stays({"err"}) /\ d'.pc = "cleanup" /\ d'.err = TRUE
    BY <1>1, <2>1 DEF SaverTyped, SaverRecord, SaverSteps, Then, Fails, Stays, Held
  <3>2. /\ DirectoryTyped' /\ UNCHANGED <<fs, con>>
    BY <1>1, <1>2, <2>1 DEF DirectoryTyped, Contents, Ours, NewFile
  <3> QED BY <1>1, <1>2, <2>1, <3>1, <3>2 DEF TempIntact
 <2>2. CASE /\ fs.tmp = None /\ d' = Then(d, "write") /\ fs' = [fs EXCEPT !.tmp = "temp"]
           /\ con' = [con EXCEPT !["temp"] = NewFile]
  <3>1. /\ SaverTyped' /\ Stays({"err"}) /\ d'.pc = "write" /\ d'.err = d.err
    BY <1>1, <2>2 DEF SaverTyped, SaverRecord, SaverSteps, Then, Fails, Stays, Held
  <3>2. /\ DirectoryTyped' /\ fs'.tmp = "temp" /\ fs'.out = fs.out /\ fs'.moved = fs.moved
        /\ con'["temp"] = NewFile /\ con'["copy"] = con["copy"]
    BY <1>1, <1>2, <2>2 DEF DirectoryTyped, Contents, Ours, NewFile
  <3> QED BY <1>1, <1>2, <2>2, <3>1, <3>2 DEF TempIntact
 <2> QED BY <1>2, <2>1, <2>2
<1> USE <1>1, <1>2, <1>3, NoneElse DEF SaveInv, SaverTyped, SaverRecord, DirectoryTyped, Stays, Held
<1>4. LookedAt' BY DEF LookedAt
<1>5. Still' BY DEF Still, Undisturbed, NewFile
<1>6. Controlled' BY DEF Controlled, BeforeCapture, WithOutput
<1>7. TempTracked'
  BY DEF TempTracked, Still, Undisturbed, Controlled, BeforeCapture, WithOutput
<1>8. OutputTracked'
  BY DEF OutputTracked, Still, Undisturbed, Controlled, Cleaned, NotSaving, BeforeCapture, WithOutput
<1>9. OutcomeTrue' BY DEF OutcomeTrue, Controlled, Undisturbed
<1>10. Bytes' BY DEF Bytes, Good, Controlled, BeforeCapture, WithOutput, NewFile
<1>11. Provenance' BY DEF Provenance, Writing, Controlled, BeforeCapture
<1> QED BY <1>4, <1>5, <1>6, <1>7, <1>8, <1>9, <1>10, <1>11

(* The bytes are written, and checked against the file they are of. *)
LEMMA WriteTempKeeps ==
  ASSUME SaveInv, WriteTemp PROVE SaveInv'
<1>1. SaverTyped /\ DirectoryTyped /\ Controlled BY DEF SaveInv
<1>2. /\ d.pc = "write" /\ UNCHANGED <<q, r, fs, ext, seen>>
      /\ con' = [con EXCEPT !["temp"].data = IF con["temp"].touched \/ d.dirty THEN "bad" ELSE "good"]
      /\ \/ /\ d' = Then(d, "unwrite")
         \/ /\ d' = Then(d, "verify") BY DEF WriteTemp, Saver, Keeps
<1>3. /\ SaverTyped' /\ DirectoryTyped' /\ Stays({})
      /\ \/ /\ d'.pc = "unwrite" /\ con'["temp"].private = con["temp"].private
            /\ con'["temp"].touched = con["temp"].touched /\ con'["copy"] = con["copy"]
         \/ /\ d'.pc = "verify" /\ con'["temp"].private = con["temp"].private
            /\ con'["temp"].touched = con["temp"].touched /\ con'["copy"] = con["copy"]
 <2>1. CASE d' = Then(d, "unwrite")
  <3>1. /\ SaverTyped' /\ Stays({}) /\ d'.pc = "unwrite"
    BY <1>1, <2>1 DEF SaverTyped, SaverRecord, SaverSteps, Then, Fails, Stays, Held
  <3>2. /\ DirectoryTyped' /\ con'["temp"].private = con["temp"].private
        /\ con'["temp"].touched = con["temp"].touched /\ con'["copy"] = con["copy"]
    BY <1>1, <1>2, <2>1 DEF DirectoryTyped, Contents, Ours, NewFile
  <3> QED BY <1>1, <1>2, <2>1, <3>1, <3>2 DEF TempIntact
 <2>2. CASE d' = Then(d, "verify")
  <3>1. /\ SaverTyped' /\ Stays({}) /\ d'.pc = "verify"
    BY <1>1, <2>2 DEF SaverTyped, SaverRecord, SaverSteps, Then, Fails, Stays, Held
  <3>2. /\ DirectoryTyped' /\ con'["temp"].private = con["temp"].private
        /\ con'["temp"].touched = con["temp"].touched /\ con'["copy"] = con["copy"]
    BY <1>1, <1>2, <2>2 DEF DirectoryTyped, Contents, Ours, NewFile
  <3> QED BY <1>1, <1>2, <2>2, <3>1, <3>2 DEF TempIntact
 <2> QED BY <1>2, <2>1, <2>2
<1> USE <1>1, <1>2, <1>3, NoneElse DEF SaveInv, SaverTyped, SaverRecord, DirectoryTyped, Stays, Held
<1>4. LookedAt' BY DEF LookedAt
<1>5. Still' BY DEF Still, Undisturbed, NewFile
<1>6. Controlled' BY DEF Controlled, BeforeCapture, WithOutput
<1>7. TempTracked'
  BY DEF TempTracked, Still, Undisturbed, Controlled, BeforeCapture, WithOutput
<1>8. OutputTracked'
  BY DEF OutputTracked, Still, Undisturbed, Controlled, Cleaned, NotSaving, BeforeCapture, WithOutput
<1>9. OutcomeTrue' BY DEF OutcomeTrue, Controlled, Undisturbed
<1>10. Bytes' BY DEF Bytes, Good, Controlled, BeforeCapture, WithOutput, NewFile
<1>11. Provenance' BY DEF Provenance, Writing, Controlled, BeforeCapture
<1> QED BY <1>4, <1>5, <1>6, <1>7, <1>8, <1>9, <1>10, <1>11

(* The bytes are read back. *)
LEMMA VerifyTempKeeps ==
  ASSUME SaveInv, VerifyTemp PROVE SaveInv'
<1>1. SaverTyped /\ DirectoryTyped /\ Controlled BY DEF SaveInv
<1>2. /\ d.pc = "verify" /\ UNCHANGED <<q, r, fs, con, ext, seen>>
      /\ \/ /\ con["temp"].data = "good" /\ d' = Then(d, "evidence")
         \/ /\ d' = Then(d, "unwrite") BY DEF VerifyTemp, Saver, Keeps
<1>3. /\ SaverTyped' /\ DirectoryTyped' /\ Stays({})
      /\ \/ /\ con["temp"].data = "good" /\ d'.pc = "evidence"
         \/ /\ d'.pc = "unwrite"
 <2>1. CASE /\ con["temp"].data = "good" /\ d' = Then(d, "evidence")
  <3>1. /\ SaverTyped' /\ Stays({}) /\ d'.pc = "evidence"
    BY <1>1, <2>1 DEF SaverTyped, SaverRecord, SaverSteps, Then, Fails, Stays, Held
  <3> QED BY <1>1, <1>2, <2>1, <3>1 DEF DirectoryTyped
 <2>2. CASE d' = Then(d, "unwrite")
  <3>1. /\ SaverTyped' /\ Stays({}) /\ d'.pc = "unwrite"
    BY <1>1, <2>2 DEF SaverTyped, SaverRecord, SaverSteps, Then, Fails, Stays, Held
  <3> QED BY <1>1, <1>2, <2>2, <3>1 DEF DirectoryTyped
 <2> QED BY <1>2, <2>1, <2>2
<1> USE <1>1, <1>2, <1>3, NoneElse DEF SaveInv, SaverTyped, SaverRecord, DirectoryTyped, Stays, Held
<1>4. LookedAt' BY DEF LookedAt
<1>5. Still' BY DEF Still, Undisturbed, NewFile
<1>6. Controlled' BY DEF Controlled, BeforeCapture, WithOutput
<1>7. TempTracked'
  BY DEF TempTracked, Still, Undisturbed, Controlled, BeforeCapture, WithOutput
<1>8. OutputTracked'
  BY DEF OutputTracked, Still, Undisturbed, Controlled, Cleaned, NotSaving, BeforeCapture, WithOutput
<1>9. OutcomeTrue' BY DEF OutcomeTrue, Controlled, Undisturbed
<1>10. Bytes' BY DEF Bytes, Good, Controlled, BeforeCapture, WithOutput, NewFile
<1>11. Provenance' BY DEF Provenance, Writing, Controlled, BeforeCapture
<1> QED BY <1>4, <1>5, <1>6, <1>7, <1>8, <1>9, <1>10, <1>11

(* What the file is now becomes the evidence. *)
LEMMA TakeEvidenceKeeps ==
  ASSUME SaveInv, TakeEvidence PROVE SaveInv'
<1>1. SaverTyped /\ DirectoryTyped /\ Controlled BY DEF SaveInv
<1>2. /\ d.pc = "evidence" /\ UNCHANGED <<q, r, fs, ext, seen>>
      /\ con' = [con EXCEPT !["temp"].touched = FALSE]
      /\ \/ /\ d' = Then(d, "recheck")
         \/ /\ d' = Then(d, "capture") BY DEF TakeEvidence, Saver, Keeps
<1>3. /\ SaverTyped' /\ DirectoryTyped' /\ Stays({})
      /\ \/ /\ d'.pc = "recheck" /\ con'["temp"].data = con["temp"].data
            /\ con'["temp"].private = con["temp"].private /\ con'["temp"].touched = FALSE
            /\ con'["copy"] = con["copy"]
         \/ /\ d'.pc = "capture" /\ con'["temp"].data = con["temp"].data
            /\ con'["temp"].private = con["temp"].private /\ con'["temp"].touched = FALSE
            /\ con'["copy"] = con["copy"]
 <2>1. CASE d' = Then(d, "recheck")
  <3>1. /\ SaverTyped' /\ Stays({}) /\ d'.pc = "recheck"
    BY <1>1, <2>1 DEF SaverTyped, SaverRecord, SaverSteps, Then, Fails, Stays, Held
  <3>2. /\ DirectoryTyped' /\ con'["temp"].data = con["temp"].data
        /\ con'["temp"].private = con["temp"].private /\ con'["temp"].touched = FALSE
        /\ con'["copy"] = con["copy"]
    BY ZenonT(60), <1>1, <1>2, <2>1 DEF DirectoryTyped, Contents, Ours, NewFile
  <3> QED BY <1>1, <1>2, <2>1, <3>1, <3>2 DEF TempIntact
 <2>2. CASE d' = Then(d, "capture")
  <3>1. /\ SaverTyped' /\ Stays({}) /\ d'.pc = "capture"
    BY <1>1, <2>2 DEF SaverTyped, SaverRecord, SaverSteps, Then, Fails, Stays, Held
  <3>2. /\ DirectoryTyped' /\ con'["temp"].data = con["temp"].data
        /\ con'["temp"].private = con["temp"].private /\ con'["temp"].touched = FALSE
        /\ con'["copy"] = con["copy"]
    BY ZenonT(60), <1>1, <1>2, <2>2 DEF DirectoryTyped, Contents, Ours, NewFile
  <3> QED BY <1>1, <1>2, <2>2, <3>1, <3>2 DEF TempIntact
 <2> QED BY <1>2, <2>1, <2>2
<1> USE <1>1, <1>2, <1>3, NoneElse DEF SaveInv, SaverTyped, SaverRecord, DirectoryTyped, Stays, Held
<1>4. LookedAt' BY DEF LookedAt
<1>5. Still' BY DEF Still, Undisturbed, NewFile
<1>6. Controlled' BY DEF Controlled, BeforeCapture, WithOutput
<1>7. TempTracked'
  BY DEF TempTracked, Still, Undisturbed, Controlled, BeforeCapture, WithOutput
<1>8. OutputTracked'
  BY DEF OutputTracked, Still, Undisturbed, Controlled, Cleaned, NotSaving, BeforeCapture, WithOutput
<1>9. OutcomeTrue' BY DEF OutcomeTrue, Controlled, Undisturbed
<1>10. Bytes' BY DEF Bytes, Good, Controlled, BeforeCapture, WithOutput, NewFile
<1>11. Provenance' BY DEF Provenance, Writing, Controlled, BeforeCapture
<1> QED BY <1>4, <1>5, <1>6, <1>7, <1>8, <1>9, <1>10, <1>11

(* Mail's file is looked at again; if it changed the temporary file stays. *)
LEMMA RecheckFileKeeps ==
  ASSUME SaveInv, RecheckFile PROVE SaveInv'
<1>1. SaverTyped /\ DirectoryTyped /\ Controlled BY DEF SaveInv
<1>2. /\ d.pc = "recheck" /\ UNCHANGED <<q, r, fs, con, ext>>
      /\ seen' = [seen EXCEPT !.kept = @ \/ ext # d.pin]
      /\ \/ /\ ext = d.pin /\ d' = Then(d, "capture")
         \/ /\ ext # d.pin /\ d' = Fails(d) BY DEF RecheckFile, Saver, Keeps
<1>3. /\ SaverTyped' /\ DirectoryTyped' /\ Stays({"err"})
      /\ \/ /\ ext = d.pin /\ d'.pc = "capture" /\ d'.err = d.err /\ seen'.kept = seen.kept
            /\ seen'.others = seen.others /\ seen'.blind = seen.blind /\ seen'.harmed = seen.harmed
         \/ /\ d'.pc = "cleanup" /\ d'.err = TRUE /\ seen'.kept = TRUE /\ seen'.others = seen.others
            /\ seen'.blind = seen.blind /\ seen'.harmed = seen.harmed
 <2>1. CASE /\ ext = d.pin /\ d' = Then(d, "capture")
  <3>1. /\ SaverTyped' /\ Stays({"err"}) /\ d'.pc = "capture" /\ d'.err = d.err
    BY <1>1, <2>1 DEF SaverTyped, SaverRecord, SaverSteps, Then, Fails, Stays, Held
  <3>2. /\ DirectoryTyped' /\ seen'.kept = seen.kept /\ seen'.others = seen.others
        /\ seen'.blind = seen.blind /\ seen'.harmed = seen.harmed
    BY <1>1, <1>2, <2>1 DEF DirectoryTyped, Contents, Ours, NewFile
  <3> QED BY <1>1, <1>2, <2>1, <3>1, <3>2 DEF TempIntact
 <2>2. CASE /\ ext # d.pin /\ d' = Fails(d)
  <3>1. /\ SaverTyped' /\ Stays({"err"}) /\ d'.pc = "cleanup" /\ d'.err = TRUE
    BY <1>1, <2>2 DEF SaverTyped, SaverRecord, SaverSteps, Then, Fails, Stays, Held
  <3>2. /\ DirectoryTyped' /\ seen'.kept = TRUE /\ seen'.others = seen.others
        /\ seen'.blind = seen.blind /\ seen'.harmed = seen.harmed
    BY <1>1, <1>2, <2>2 DEF DirectoryTyped, Contents, Ours, NewFile
  <3> QED BY <1>1, <1>2, <2>2, <3>1, <3>2 DEF TempIntact
 <2> QED BY <1>2, <2>1, <2>2
<1> USE <1>1, <1>2, <1>3, NoneElse DEF SaveInv, SaverTyped, SaverRecord, DirectoryTyped, Stays, Held
<1>4. LookedAt' BY DEF LookedAt
<1>5. Still' BY DEF Still, Undisturbed, NewFile
<1>6. Controlled' BY DEF Controlled, BeforeCapture, WithOutput
<1>7. TempTracked'
  BY DEF TempTracked, Still, Undisturbed, Controlled, BeforeCapture, WithOutput
<1>8. OutputTracked'
  BY DEF OutputTracked, Still, Undisturbed, Controlled, Cleaned, NotSaving, BeforeCapture, WithOutput
<1>9. OutcomeTrue' BY DEF OutcomeTrue, Controlled, Undisturbed
<1>10. Bytes' BY DEF Bytes, Good, Controlled, BeforeCapture, WithOutput, NewFile
<1>11. Provenance' BY DEF Provenance, Writing, Controlled, BeforeCapture
<1> QED BY <1>4, <1>5, <1>6, <1>7, <1>8, <1>9, <1>10, <1>11

(* A write that failed is undone if the name is still the file's. *)
LEMMA UndoWriteKeeps ==
  ASSUME SaveInv, UndoWrite PROVE SaveInv'
<1>1. SaverTyped /\ DirectoryTyped /\ Controlled BY DEF SaveInv
<1>2. /\ d.pc = "unwrite" /\ UNCHANGED <<q, r, fs, con, ext, seen>>
      /\ \/ /\ fs["tmp"] = "temp" /\ d' = [Then(d, "drop") EXCEPT !.rm = "tmp", !.err = TRUE]
         \/ /\ (fs.tmp = None \/ fs["tmp"] # "temp") /\ d' = Fails(d)
  BY DEF UndoWrite, Saver, Keeps, OwnedName
<1>3. /\ SaverTyped' /\ DirectoryTyped' /\ Stays({"rm", "err"})
      /\ \/ /\ fs.tmp = "temp" /\ d'.pc = "drop" /\ d'.rm = "tmp" /\ d'.err = TRUE
         \/ /\ fs.tmp # "temp" /\ d'.pc = "cleanup" /\ d'.err = TRUE /\ d'.rm = d.rm
 <2>1. CASE /\ fs["tmp"] = "temp" /\ d' = [Then(d, "drop") EXCEPT !.rm = "tmp", !.err = TRUE]
  <3>1. /\ SaverTyped' /\ Stays({"rm", "err"}) /\ d'.pc = "drop" /\ d'.rm = "tmp" /\ d'.err = TRUE
    BY <1>1, <2>1, NoneElse DEF SaverTyped, SaverRecord, SaverSteps, Then, Fails, Stays, Held
  <3> QED BY <1>1, <1>2, <2>1, <3>1, NoneElse DEF DirectoryTyped
 <2>2. CASE /\ (fs.tmp = None \/ fs["tmp"] # "temp") /\ d' = Fails(d)
  <3>1. /\ SaverTyped' /\ Stays({"rm", "err"}) /\ d'.pc = "cleanup" /\ d'.err = TRUE /\ d'.rm = d.rm
    BY <1>1, <2>2, NoneElse DEF SaverTyped, SaverRecord, SaverSteps, Then, Fails, Stays, Held
  <3> QED BY <1>1, <1>2, <2>2, <3>1, NoneElse DEF DirectoryTyped
 <2> QED BY <1>2, <2>1, <2>2
<1> USE <1>1, <1>2, <1>3, NoneElse DEF SaveInv, SaverTyped, SaverRecord, DirectoryTyped, Stays, Held
<1>4. LookedAt' BY DEF LookedAt
<1>5. Still' BY DEF Still, Undisturbed, NewFile
<1>6. Controlled' BY DEF Controlled, BeforeCapture, WithOutput
<1>7. TempTracked'
  BY DEF TempTracked, Still, Undisturbed, Controlled, BeforeCapture, WithOutput
<1>8. OutputTracked'
  BY DEF OutputTracked, Still, Undisturbed, Controlled, Cleaned, NotSaving, BeforeCapture, WithOutput
<1>9. OutcomeTrue' BY DEF OutcomeTrue, Controlled, Undisturbed
<1>10. Bytes' BY DEF Bytes, Good, Controlled, BeforeCapture, WithOutput, NewFile
<1>11. Provenance' BY DEF Provenance, Writing, Controlled, BeforeCapture
<1> QED BY <1>4, <1>5, <1>6, <1>7, <1>8, <1>9, <1>10, <1>11

(* From here the temporary file is the saver's own. *)
LEMMA CaptureTempKeeps ==
  ASSUME SaveInv, CaptureTemp PROVE SaveInv'
<1>1. SaverTyped /\ DirectoryTyped /\ Controlled BY DEF SaveInv
<1>2. /\ d.pc = "capture" /\ UNCHANGED <<q, r, fs, con, ext, seen>>
      /\ \/ /\ ~fs.moved /\ fs.tmp = "temp" /\ d' = Then([d EXCEPT !.captured = TRUE], "publish")
         \/ /\ ~fs.moved /\ fs.tmp = "temp" /\ d' = Fails([d EXCEPT !.captured = TRUE])
         \/ /\ ~(~fs.moved /\ fs.tmp = "temp") /\ d' = Fails([d EXCEPT !.captured = FALSE])
  BY DEF CaptureTemp, Saver, Keeps
<1>3. /\ SaverTyped' /\ DirectoryTyped' /\ Stays({"captured", "err"})
      /\ \/ /\ ~fs.moved /\ fs.tmp = "temp" /\ d'.pc = "publish" /\ d'.captured = TRUE
            /\ d'.err = d.err
         \/ /\ ~fs.moved /\ fs.tmp = "temp" /\ d'.pc = "cleanup" /\ d'.captured = TRUE
            /\ d'.err = TRUE
         \/ /\ ~(~fs.moved /\ fs.tmp = "temp") /\ d'.pc = "cleanup" /\ d'.captured = FALSE
            /\ d'.err = TRUE
 <2>1. CASE /\ ~fs.moved /\ fs.tmp = "temp" /\ d' = Then([d EXCEPT !.captured = TRUE], "publish")
  <3>1. /\ SaverTyped' /\ Stays({"captured", "err"}) /\ d'.pc = "publish" /\ d'.captured = TRUE
        /\ d'.err = d.err
    BY <1>1, <2>1 DEF SaverTyped, SaverRecord, SaverSteps, Then, Fails, Stays, Held
  <3> QED BY <1>1, <1>2, <2>1, <3>1 DEF DirectoryTyped
 <2>2. CASE /\ ~fs.moved /\ fs.tmp = "temp" /\ d' = Fails([d EXCEPT !.captured = TRUE])
  <3>1. /\ SaverTyped' /\ Stays({"captured", "err"}) /\ d'.pc = "cleanup" /\ d'.captured = TRUE
        /\ d'.err = TRUE
    BY <1>1, <2>2 DEF SaverTyped, SaverRecord, SaverSteps, Then, Fails, Stays, Held
  <3> QED BY <1>1, <1>2, <2>2, <3>1 DEF DirectoryTyped
 <2>3. CASE /\ ~(~fs.moved /\ fs.tmp = "temp") /\ d' = Fails([d EXCEPT !.captured = FALSE])
  <3>1. /\ SaverTyped' /\ Stays({"captured", "err"}) /\ d'.pc = "cleanup" /\ d'.captured = FALSE
        /\ d'.err = TRUE
    BY <1>1, <2>3 DEF SaverTyped, SaverRecord, SaverSteps, Then, Fails, Stays, Held
  <3> QED BY <1>1, <1>2, <2>3, <3>1 DEF DirectoryTyped
 <2> QED BY <1>2, <2>1, <2>2, <2>3
<1> USE <1>1, <1>2, <1>3, NoneElse DEF SaveInv, SaverTyped, SaverRecord, DirectoryTyped, Stays, Held
<1>4. LookedAt' BY DEF LookedAt
<1>5. Still' BY DEF Still, Undisturbed, NewFile
<1>6. Controlled' BY DEF Controlled, BeforeCapture, WithOutput
<1>7. TempTracked'
  BY DEF TempTracked, Still, Undisturbed, Controlled, BeforeCapture, WithOutput
<1>8. OutputTracked'
  BY DEF OutputTracked, Still, Undisturbed, Controlled, Cleaned, NotSaving, BeforeCapture, WithOutput
<1>9. OutcomeTrue' BY DEF OutcomeTrue, Controlled, Undisturbed
<1>10. Bytes' BY DEF Bytes, Good, Controlled, BeforeCapture, WithOutput, NewFile
<1>11. Provenance' BY DEF Provenance, Writing, Controlled, BeforeCapture
<1> QED BY <1>4, <1>5, <1>6, <1>7, <1>8, <1>9, <1>10, <1>11

(* The temporary file is verified before it is published. *)
LEMMA CheckTempKeeps ==
  ASSUME SaveInv, CheckTemp PROVE SaveInv'
<1>1. SaverTyped /\ DirectoryTyped /\ Controlled BY DEF SaveInv
<1>2. /\ d.pc = "publish" /\ UNCHANGED <<q, r, fs, con, ext, seen>>
      /\ \/ /\ d' = Then(d, "link")
         \/ /\ d' = Fails(d) BY DEF CheckTemp, Saver, Keeps
<1>3. /\ SaverTyped' /\ DirectoryTyped' /\ Stays({"err"})
      /\ \/ /\ d'.pc = "link" /\ d'.err = d.err
         \/ /\ d'.pc = "cleanup" /\ d'.err = TRUE
 <2>1. CASE d' = Then(d, "link")
  <3>1. /\ SaverTyped' /\ Stays({"err"}) /\ d'.pc = "link" /\ d'.err = d.err
    BY <1>1, <2>1 DEF SaverTyped, SaverRecord, SaverSteps, Then, Fails, Stays, Held
  <3> QED BY <1>1, <1>2, <2>1, <3>1 DEF DirectoryTyped
 <2>2. CASE d' = Fails(d)
  <3>1. /\ SaverTyped' /\ Stays({"err"}) /\ d'.pc = "cleanup" /\ d'.err = TRUE
    BY <1>1, <2>2 DEF SaverTyped, SaverRecord, SaverSteps, Then, Fails, Stays, Held
  <3> QED BY <1>1, <1>2, <2>2, <3>1 DEF DirectoryTyped
 <2> QED BY <1>2, <2>1, <2>2
<1> USE <1>1, <1>2, <1>3, NoneElse DEF SaveInv, SaverTyped, SaverRecord, DirectoryTyped, Stays, Held
<1>4. LookedAt' BY DEF LookedAt
<1>5. Still' BY DEF Still, Undisturbed, NewFile
<1>6. Controlled' BY DEF Controlled, BeforeCapture, WithOutput
<1>7. TempTracked'
  BY DEF TempTracked, Still, Undisturbed, Controlled, BeforeCapture, WithOutput
<1>8. OutputTracked'
  BY DEF OutputTracked, Still, Undisturbed, Controlled, Cleaned, NotSaving, BeforeCapture, WithOutput
<1>9. OutcomeTrue' BY DEF OutcomeTrue, Controlled, Undisturbed
<1>10. Bytes' BY DEF Bytes, Good, Controlled, BeforeCapture, WithOutput, NewFile
<1>11. Provenance' BY DEF Provenance, Writing, Controlled, BeforeCapture
<1> QED BY <1>4, <1>5, <1>6, <1>7, <1>8, <1>9, <1>10, <1>11

(* The link takes a free name only. *)
LEMMA LinkOutputKeeps ==
  ASSUME SaveInv, LinkOutput PROVE SaveInv'
<1>1. SaverTyped /\ DirectoryTyped /\ Controlled BY DEF SaveInv
<1>2. /\ d.pc = "link" /\ UNCHANGED <<q, r, con, ext>>
      /\ \/ /\ d' = Then(d, "copycreate") /\ UNCHANGED <<fs, seen>>
         \/ /\ d' = Fails(d) /\ UNCHANGED <<fs, seen>>
         \/ /\ fs.out = None /\ fs.tmp # None
            /\ d' = [Then(d, "openout") EXCEPT !.published = TRUE, !.owned = TRUE]
            /\ fs' = [fs EXCEPT !.out = fs.tmp]
            /\ (seen' = [seen EXCEPT !.harmed = @ \/ fs.out = "other"])
  BY DEF LinkOutput, Saver, Keeps, Free
<1>3. /\ SaverTyped' /\ DirectoryTyped' /\ Stays({"owned", "published", "err"})
      /\ \/ /\ d'.pc = "copycreate" /\ d'.owned = d.owned /\ d'.published = d.published
            /\ d'.err = d.err /\ UNCHANGED <<fs, seen>>
         \/ /\ d'.pc = "cleanup" /\ d'.err = TRUE /\ d'.owned = d.owned /\ d'.published = d.published
            /\ UNCHANGED <<fs, seen>>
         \/ /\ fs.out = None /\ fs.tmp # None /\ d'.pc = "openout" /\ d'.published = TRUE
            /\ d'.owned = TRUE /\ d'.err = d.err /\ fs'.out = fs.tmp /\ fs'.tmp = fs.tmp
            /\ fs'.moved = fs.moved /\ seen'.kept = seen.kept /\ seen'.others = seen.others
            /\ seen'.blind = seen.blind /\ (seen'.harmed => seen.harmed \/ fs.out = "other")
 <2>1. CASE /\ d' = Then(d, "copycreate") /\ UNCHANGED <<fs, seen>>
  <3>1. /\ SaverTyped' /\ Stays({"owned", "published", "err"}) /\ d'.pc = "copycreate"
        /\ d'.owned = d.owned /\ d'.published = d.published /\ d'.err = d.err
    BY <1>1, <2>1, NoneElse DEF SaverTyped, SaverRecord, SaverSteps, Then, Fails, Stays, Held
  <3>2. /\ DirectoryTyped' /\ UNCHANGED <<fs, seen>>
    BY <1>1, <1>2, <2>1, NoneElse DEF DirectoryTyped, Contents, Ours, NewFile
  <3> QED BY <1>1, <1>2, <2>1, <3>1, <3>2 DEF TempIntact
 <2>2. CASE /\ d' = Fails(d) /\ UNCHANGED <<fs, seen>>
  <3>1. /\ SaverTyped' /\ Stays({"owned", "published", "err"}) /\ d'.pc = "cleanup" /\ d'.err = TRUE
        /\ d'.owned = d.owned /\ d'.published = d.published
    BY <1>1, <2>2, NoneElse DEF SaverTyped, SaverRecord, SaverSteps, Then, Fails, Stays, Held
  <3>2. /\ DirectoryTyped' /\ UNCHANGED <<fs, seen>>
    BY <1>1, <1>2, <2>2, NoneElse DEF DirectoryTyped, Contents, Ours, NewFile
  <3> QED BY <1>1, <1>2, <2>2, <3>1, <3>2 DEF TempIntact
 <2>3. CASE /\ fs.out = None /\ fs.tmp # None
           /\ d' = [Then(d, "openout") EXCEPT !.published = TRUE, !.owned = TRUE]
           /\ fs' = [fs EXCEPT !.out = fs.tmp]
           /\ (seen' = [seen EXCEPT !.harmed = @ \/ fs.out = "other"])
  <3>1. /\ SaverTyped' /\ Stays({"owned", "published", "err"}) /\ d'.pc = "openout"
        /\ d'.published = TRUE /\ d'.owned = TRUE /\ d'.err = d.err
    BY ZenonT(60), <1>1, <2>3, NoneElse DEF SaverTyped, SaverRecord, SaverSteps, Then, Fails, Stays, Held
  <3>2. /\ DirectoryTyped' /\ fs'.out = fs.tmp /\ fs'.tmp = fs.tmp /\ fs'.moved = fs.moved
        /\ seen'.kept = seen.kept /\ seen'.others = seen.others /\ seen'.blind = seen.blind
        /\ (seen'.harmed => seen.harmed \/ fs.out = "other")
    BY <1>1, <1>2, <2>3, NoneElse DEF DirectoryTyped, Contents, Ours, NewFile
  <3> QED BY <1>1, <1>2, <2>3, <3>1, <3>2 DEF TempIntact
 <2> QED BY <1>2, <2>1, <2>2, <2>3
<1> USE <1>1, <1>2, <1>3, NoneElse DEF SaveInv, SaverTyped, SaverRecord, DirectoryTyped, Stays, Held
<1>4. LookedAt' BY DEF LookedAt
<1>5. Still' BY DEF Still, Undisturbed, NewFile
<1>6. Controlled' BY DEF Controlled, BeforeCapture, WithOutput
<1>7. TempTracked'
  BY DEF TempTracked, Still, Undisturbed, Controlled, BeforeCapture, WithOutput
<1>8. OutputTracked'
  BY DEF OutputTracked, Still, Undisturbed, Controlled, Cleaned, NotSaving, BeforeCapture, WithOutput
<1>9. OutcomeTrue' BY DEF OutcomeTrue, Controlled, Undisturbed
<1>10. Bytes' BY DEF Bytes, Good, Controlled, BeforeCapture, WithOutput, NewFile
<1>11. Provenance' BY DEF Provenance, Writing, Controlled, BeforeCapture
<1> QED BY <1>4, <1>5, <1>6, <1>7, <1>8, <1>9, <1>10, <1>11

(* What stands under the output name now is the file, or is disowned. *)
LEMMA OpenOutputKeeps ==
  ASSUME SaveInv, OpenOutput PROVE SaveInv'
<1>1. SaverTyped /\ DirectoryTyped /\ Controlled BY DEF SaveInv
<1>2. /\ d.pc = "openout" /\ UNCHANGED <<q, r, fs, con, ext, seen>>
      /\ \/ /\ fs.out = "temp" /\ d' = [Then(d, "restrict") EXCEPT !.out = "temp"]
         \/ /\ fs.out = None /\ d' = Fails(d)
         \/ /\ fs.out # "temp" /\ d' = Fails([d EXCEPT !.owned = FALSE])
 <2>1. CASE fs.out = "temp" BY <2>1, NoneElse DEF OpenOutput, Saver, Keeps
 <2>2. CASE fs.out = None BY <2>2, NoneElse DEF OpenOutput, Saver, Keeps
 <2>3. CASE fs.out # None /\ fs.out # "temp" BY <2>3 DEF OpenOutput, Saver, Keeps
 <2> QED BY <2>1, <2>2, <2>3
<1>3. /\ SaverTyped' /\ DirectoryTyped' /\ Stays({"out", "owned", "err"})
      /\ \/ /\ fs.out = "temp" /\ d'.pc = "restrict" /\ d'.out = "temp" /\ d'.owned = d.owned
            /\ d'.err = d.err
         \/ /\ fs.out = None /\ d'.pc = "cleanup" /\ d'.err = TRUE /\ d'.out = d.out
            /\ d'.owned = d.owned
         \/ /\ fs.out # "temp" /\ d'.pc = "cleanup" /\ d'.err = TRUE /\ d'.owned = FALSE
            /\ d'.out = d.out
 <2>1. CASE /\ fs.out = "temp" /\ d' = [Then(d, "restrict") EXCEPT !.out = "temp"]
  <3>1. /\ SaverTyped' /\ Stays({"out", "owned", "err"}) /\ d'.pc = "restrict" /\ d'.out = "temp"
        /\ d'.owned = d.owned /\ d'.err = d.err
    BY <1>1, <2>1 DEF SaverTyped, SaverRecord, SaverSteps, Then, Fails, Stays, Held, Ours
  <3> QED BY <1>1, <1>2, <2>1, <3>1 DEF DirectoryTyped
 <2>2. CASE /\ fs.out = None /\ d' = Fails(d)
  <3>1. /\ SaverTyped' /\ Stays({"out", "owned", "err"}) /\ d'.pc = "cleanup" /\ d'.err = TRUE
        /\ d'.out = d.out /\ d'.owned = d.owned
    BY ZenonT(60), <1>1, <2>2 DEF SaverTyped, SaverRecord, SaverSteps, Then, Fails, Stays, Held, Ours
  <3> QED BY <1>1, <1>2, <2>2, <3>1 DEF DirectoryTyped
 <2>3. CASE /\ fs.out # "temp" /\ d' = Fails([d EXCEPT !.owned = FALSE])
  <3>1. /\ SaverTyped' /\ Stays({"out", "owned", "err"}) /\ d'.pc = "cleanup" /\ d'.err = TRUE
        /\ d'.owned = FALSE /\ d'.out = d.out
    BY <1>1, <2>3 DEF SaverTyped, SaverRecord, SaverSteps, Then, Fails, Stays, Held, Ours
  <3> QED BY <1>1, <1>2, <2>3, <3>1 DEF DirectoryTyped
 <2> QED BY <1>2, <2>1, <2>2, <2>3
<1> USE <1>1, <1>2, <1>3, NoneElse DEF SaveInv, SaverTyped, SaverRecord, DirectoryTyped, Stays, Held
<1>4. LookedAt' BY DEF LookedAt, Ours
<1>5. Still' BY DEF Still, Undisturbed, NewFile, Ours
<1>6. Controlled' BY DEF Controlled, BeforeCapture, WithOutput, Ours
<1>7. TempTracked'
  BY DEF TempTracked, Still, Undisturbed, Controlled, BeforeCapture, WithOutput, Ours
<1>8. OutputTracked'
  BY DEF OutputTracked, Still, Undisturbed, Controlled, Cleaned, NotSaving, BeforeCapture, WithOutput,
      Ours
<1>9. OutcomeTrue' BY DEF OutcomeTrue, Controlled, Undisturbed, Ours
<1>10. Bytes' BY DEF Bytes, Good, Controlled, BeforeCapture, WithOutput, NewFile, Ours
<1>11. Provenance' BY DEF Provenance, Writing, Controlled, BeforeCapture, Ours
<1> QED BY <1>4, <1>5, <1>6, <1>7, <1>8, <1>9, <1>10, <1>11

(* Where there are no links a copy is created under the free name. *)
LEMMA CreateCopyKeeps ==
  ASSUME SaveInv, CreateCopy PROVE SaveInv'
<1>1. SaverTyped /\ DirectoryTyped /\ Controlled BY DEF SaveInv
<1>2. /\ d.pc = "copycreate" /\ UNCHANGED <<q, r, ext, seen>>
      /\ \/ /\ d' = Fails(d) /\ UNCHANGED <<fs, con>>
         \/ /\ fs.out = None
            /\ d' = [Then(d, "copy") EXCEPT !.published = TRUE, !.owned = TRUE, !.out = "copy"]
            /\ fs' = [fs EXCEPT !.out = "copy"] /\ con' = [con EXCEPT !["copy"] = NewFile]
  BY DEF CreateCopy, Saver, Keeps
<1>3. /\ SaverTyped' /\ DirectoryTyped' /\ Stays({"out", "owned", "published", "err"})
      /\ \/ /\ d'.pc = "cleanup" /\ d'.err = TRUE /\ d'.out = d.out /\ d'.owned = d.owned
            /\ d'.published = d.published /\ UNCHANGED <<fs, con>>
         \/ /\ d'.pc = "copy" /\ d'.published = TRUE /\ d'.owned = TRUE /\ d'.out = "copy"
            /\ d'.err = d.err /\ fs'.out = "copy" /\ fs'.tmp = fs.tmp /\ fs'.moved = fs.moved
            /\ con'["copy"] = NewFile /\ con'["temp"] = con["temp"]
 <2>1. CASE /\ d' = Fails(d) /\ UNCHANGED <<fs, con>>
  <3>1. /\ SaverTyped' /\ Stays({"out", "owned", "published", "err"}) /\ d'.pc = "cleanup"
        /\ d'.err = TRUE /\ d'.out = d.out /\ d'.owned = d.owned /\ d'.published = d.published
    BY <1>1, <2>1 DEF SaverTyped, SaverRecord, SaverSteps, Then, Fails, Stays, Held, Ours
  <3>2. /\ DirectoryTyped' /\ UNCHANGED <<fs, con>>
    BY <1>1, <1>2, <2>1 DEF DirectoryTyped, Contents, Ours, NewFile
  <3> QED BY <1>1, <1>2, <2>1, <3>1, <3>2 DEF TempIntact
 <2>2. CASE /\ fs.out = None
           /\ d' = [Then(d, "copy") EXCEPT !.published = TRUE, !.owned = TRUE, !.out = "copy"]
           /\ fs' = [fs EXCEPT !.out = "copy"] /\ con' = [con EXCEPT !["copy"] = NewFile]
  <3>1. /\ SaverTyped' /\ Stays({"out", "owned", "published", "err"}) /\ d'.pc = "copy"
        /\ d'.published = TRUE /\ d'.owned = TRUE /\ d'.out = "copy" /\ d'.err = d.err
    BY ZenonT(60), <1>1, <2>2 DEF SaverTyped, SaverRecord, SaverSteps, Then, Fails, Stays, Held, Ours
  <3>2. /\ DirectoryTyped' /\ fs'.out = "copy" /\ fs'.tmp = fs.tmp /\ fs'.moved = fs.moved
        /\ con'["copy"] = NewFile /\ con'["temp"] = con["temp"]
    BY <1>1, <1>2, <2>2 DEF DirectoryTyped, Contents, Ours, NewFile
  <3> QED BY <1>1, <1>2, <2>2, <3>1, <3>2 DEF TempIntact
 <2> QED BY <1>2, <2>1, <2>2
<1> USE <1>1, <1>2, <1>3, NoneElse DEF SaveInv, SaverTyped, SaverRecord, DirectoryTyped, Stays, Held
<1>4. LookedAt' BY DEF LookedAt
<1>5. Still' BY DEF Still, Undisturbed, NewFile
<1>6. Controlled' BY DEF Controlled, BeforeCapture, WithOutput
<1>7. TempTracked'
  BY DEF TempTracked, Still, Undisturbed, Controlled, BeforeCapture, WithOutput
<1>8. OutputTracked'
  BY DEF OutputTracked, Still, Undisturbed, Controlled, Cleaned, NotSaving, BeforeCapture, WithOutput
<1>9. OutcomeTrue' BY DEF OutcomeTrue, Controlled, Undisturbed
<1>10. Bytes' BY DEF Bytes, Good, Controlled, BeforeCapture, WithOutput, NewFile
<1>11. Provenance' BY DEF Provenance, Writing, Controlled, BeforeCapture
<1> QED BY <1>4, <1>5, <1>6, <1>7, <1>8, <1>9, <1>10, <1>11

(* The bytes are copied, and compared with the evidence. *)
LEMMA CopyBytesKeeps ==
  ASSUME SaveInv, CopyBytes PROVE SaveInv'
<1>1. SaverTyped /\ DirectoryTyped /\ Controlled BY DEF SaveInv
<1>2. /\ d.pc = "copy" /\ UNCHANGED <<q, r, fs, ext, seen>>
      /\ con' = [con EXCEPT !["copy"].data = IF con["copy"].touched THEN "bad" ELSE con["temp"].data]
      /\ \/ /\ con["temp"].data = "good" /\ d' = Then(d, "copystat")
         \/ /\ d' = Fails(d) BY DEF CopyBytes, Saver, Keeps
<1>3. /\ SaverTyped' /\ DirectoryTyped' /\ Stays({"err"})
      /\ \/ /\ con["temp"].data = "good" /\ d'.pc = "copystat" /\ d'.err = d.err
            /\ con'["copy"].private = con["copy"].private
            /\ con'["copy"].touched = con["copy"].touched /\ con'["temp"] = con["temp"]
            /\ (con["copy"].touched \/ con'["copy"].data = con["temp"].data)
         \/ /\ d'.pc = "cleanup" /\ d'.err = TRUE /\ con'["copy"].private = con["copy"].private
            /\ con'["copy"].touched = con["copy"].touched /\ con'["temp"] = con["temp"]
 <2>1. CASE /\ con["temp"].data = "good" /\ d' = Then(d, "copystat")
  <3>1. /\ SaverTyped' /\ Stays({"err"}) /\ d'.pc = "copystat" /\ d'.err = d.err
    BY <1>1, <2>1 DEF SaverTyped, SaverRecord, SaverSteps, Then, Fails, Stays, Held
  <3>2. /\ DirectoryTyped' /\ con'["copy"].private = con["copy"].private
        /\ con'["copy"].touched = con["copy"].touched /\ con'["temp"] = con["temp"]
        /\ (con["copy"].touched \/ con'["copy"].data = con["temp"].data)
    BY <1>1, <1>2, <2>1 DEF DirectoryTyped, Contents, Ours, NewFile
  <3> QED BY <1>1, <1>2, <2>1, <3>1, <3>2 DEF TempIntact
 <2>2. CASE d' = Fails(d)
  <3>1. /\ SaverTyped' /\ Stays({"err"}) /\ d'.pc = "cleanup" /\ d'.err = TRUE
    BY <1>1, <2>2 DEF SaverTyped, SaverRecord, SaverSteps, Then, Fails, Stays, Held
  <3>2. /\ DirectoryTyped' /\ con'["copy"].private = con["copy"].private
        /\ con'["copy"].touched = con["copy"].touched /\ con'["temp"] = con["temp"]
    BY <1>1, <1>2, <2>2 DEF DirectoryTyped, Contents, Ours, NewFile
  <3> QED BY <1>1, <1>2, <2>2, <3>1, <3>2 DEF TempIntact
 <2> QED BY <1>2, <2>1, <2>2
<1> USE <1>1, <1>2, <1>3, NoneElse DEF SaveInv, SaverTyped, SaverRecord, DirectoryTyped, Stays, Held
<1>4. LookedAt' BY DEF LookedAt
<1>5. Still' BY DEF Still, Undisturbed, NewFile
<1>6. Controlled' BY DEF Controlled, BeforeCapture, WithOutput
<1>7. TempTracked'
  BY DEF TempTracked, Still, Undisturbed, Controlled, BeforeCapture, WithOutput
<1>8. OutputTracked'
  BY DEF OutputTracked, Still, Undisturbed, Controlled, Cleaned, NotSaving, BeforeCapture, WithOutput
<1>9. OutcomeTrue' BY DEF OutcomeTrue, Controlled, Undisturbed
<1>10. Bytes' BY DEF Bytes, Good, Controlled, BeforeCapture, WithOutput, NewFile
<1>11. Provenance' BY DEF Provenance, Writing, Controlled, BeforeCapture
<1> QED BY <1>4, <1>5, <1>6, <1>7, <1>8, <1>9, <1>10, <1>11

(* What the copy is now becomes its evidence. *)
LEMMA StatCopyKeeps ==
  ASSUME SaveInv, StatCopy PROVE SaveInv'
<1>1. SaverTyped /\ DirectoryTyped /\ Controlled BY DEF SaveInv
<1>2. /\ d.pc = "copystat" /\ UNCHANGED <<q, r, fs, ext, seen>>
      /\ con' = [con EXCEPT !["copy"].touched = FALSE]
      /\ d' = Then(d, "restrict") BY DEF StatCopy, Saver, Keeps
<1>3. /\ SaverTyped' /\ DirectoryTyped' /\ Stays({})
      /\ d'.pc = "restrict" /\ con'["copy"].data = con["copy"].data
      /\ con'["copy"].private = con["copy"].private /\ con'["copy"].touched = FALSE
      /\ con'["temp"] = con["temp"]
 <2>1. CASE d' = Then(d, "restrict")
  <3>1. /\ SaverTyped' /\ Stays({}) /\ d'.pc = "restrict"
    BY <1>1, <2>1 DEF SaverTyped, SaverRecord, SaverSteps, Then, Fails, Stays, Held
  <3>2. /\ DirectoryTyped' /\ con'["copy"].data = con["copy"].data
        /\ con'["copy"].private = con["copy"].private /\ con'["copy"].touched = FALSE
        /\ con'["temp"] = con["temp"]
    BY ZenonT(60), <1>1, <1>2, <2>1 DEF DirectoryTyped, Contents, Ours, NewFile
  <3> QED BY <1>1, <1>2, <2>1, <3>1, <3>2 DEF TempIntact
 <2> QED BY <1>2, <2>1
<1> USE <1>1, <1>2, <1>3, NoneElse DEF SaveInv, SaverTyped, SaverRecord, DirectoryTyped, Stays, Held
<1>4. LookedAt' BY DEF LookedAt
<1>5. Still' BY DEF Still, Undisturbed, NewFile
<1>6. Controlled' BY DEF Controlled, BeforeCapture, WithOutput
<1>7. TempTracked'
  BY DEF TempTracked, Still, Undisturbed, Controlled, BeforeCapture, WithOutput
<1>8. OutputTracked'
  BY DEF OutputTracked, Still, Undisturbed, Controlled, Cleaned, NotSaving, BeforeCapture, WithOutput
<1>9. OutcomeTrue' BY DEF OutcomeTrue, Controlled, Undisturbed
<1>10. Bytes' BY DEF Bytes, Good, Controlled, BeforeCapture, WithOutput, NewFile
<1>11. Provenance' BY DEF Provenance, Writing, Controlled, BeforeCapture
<1> QED BY <1>4, <1>5, <1>6, <1>7, <1>8, <1>9, <1>10, <1>11

(* The output is verified before and after its mode is set, and twice more. *)
LEMMA CheckOutputKeeps ==
  ASSUME SaveInv, CheckOutput PROVE SaveInv'
<1>1. SaverTyped /\ DirectoryTyped /\ Controlled BY DEF SaveInv
<1>2. /\ d.pc \in {"restrict", "restricted", "inspect", "inspected"}
      /\ UNCHANGED <<q, r, fs, con, ext, seen>>
      /\ \/ /\ d.pc = "restrict" /\ d' = Then(d, "chmod")
         \/ /\ d.pc = "restricted" /\ d.out = "temp" /\ d' = Then(d, "checktemp")
         \/ /\ d.pc = "restricted" /\ d' = [Then(d, "inspect") EXCEPT !.retain = TRUE]
         \/ /\ d.pc = "inspect" /\ d' = Then(d, "inspected")
         \/ /\ d.pc = "inspected" /\ d' = Then(d, "cleanup")
         \/ /\ ~OutputSame /\ d' = Fails([d EXCEPT !.owned = FALSE])
         \/ /\ ~con[d.out].private /\ d' = Fails(d)
  BY Zenon DEF CheckOutput, Saver, Keeps, Checked
<1>3. /\ SaverTyped' /\ DirectoryTyped' /\ Stays({"owned", "retain", "err"})
      /\ \/ /\ d.pc = "restrict" /\ d'.pc = "chmod" /\ d'.owned = d.owned /\ d'.retain = d.retain
            /\ d'.err = d.err
         \/ /\ d.pc = "restricted" /\ d.out = "temp" /\ d'.pc = "checktemp" /\ d'.owned = d.owned
            /\ d'.retain = d.retain /\ d'.err = d.err
         \/ /\ d.pc = "restricted" /\ d'.pc = "inspect" /\ d'.retain = TRUE /\ d'.owned = d.owned
            /\ d'.err = d.err
         \/ /\ d.pc = "inspect" /\ d'.pc = "inspected" /\ d'.owned = d.owned /\ d'.retain = d.retain
            /\ d'.err = d.err
         \/ /\ d.pc = "inspected" /\ d'.pc = "cleanup" /\ d'.owned = d.owned /\ d'.retain = d.retain
            /\ d'.err = d.err
         \/ /\ ~OutputSame /\ d'.pc = "cleanup" /\ d'.err = TRUE /\ d'.owned = FALSE
            /\ d'.retain = d.retain
         \/ /\ ~con[d.out].private /\ d'.pc = "cleanup" /\ d'.err = TRUE /\ d'.owned = d.owned
            /\ d'.retain = d.retain
 <2>1. CASE /\ d.pc = "restrict" /\ d' = Then(d, "chmod")
  <3>1. /\ SaverTyped' /\ Stays({"owned", "retain", "err"}) /\ d'.pc = "chmod" /\ d'.owned = d.owned
        /\ d'.retain = d.retain /\ d'.err = d.err
    BY <1>1, <2>1 DEF SaverTyped, SaverRecord, SaverSteps, Then, Fails, Stays, Held
  <3> QED BY <1>1, <1>2, <2>1, <3>1 DEF DirectoryTyped
 <2>2. CASE /\ d.pc = "restricted" /\ d.out = "temp" /\ d' = Then(d, "checktemp")
  <3>1. /\ SaverTyped' /\ Stays({"owned", "retain", "err"}) /\ d'.pc = "checktemp"
        /\ d'.owned = d.owned /\ d'.retain = d.retain /\ d'.err = d.err
    BY <1>1, <2>2 DEF SaverTyped, SaverRecord, SaverSteps, Then, Fails, Stays, Held
  <3> QED BY <1>1, <1>2, <2>2, <3>1 DEF DirectoryTyped
 <2>3. CASE /\ d.pc = "restricted" /\ d' = [Then(d, "inspect") EXCEPT !.retain = TRUE]
  <3>1. /\ SaverTyped' /\ Stays({"owned", "retain", "err"}) /\ d'.pc = "inspect" /\ d'.retain = TRUE
        /\ d'.owned = d.owned /\ d'.err = d.err
    BY <1>1, <2>3 DEF SaverTyped, SaverRecord, SaverSteps, Then, Fails, Stays, Held
  <3> QED BY <1>1, <1>2, <2>3, <3>1 DEF DirectoryTyped
 <2>4. CASE /\ d.pc = "inspect" /\ d' = Then(d, "inspected")
  <3>1. /\ SaverTyped' /\ Stays({"owned", "retain", "err"}) /\ d'.pc = "inspected"
        /\ d'.owned = d.owned /\ d'.retain = d.retain /\ d'.err = d.err
    BY <1>1, <2>4 DEF SaverTyped, SaverRecord, SaverSteps, Then, Fails, Stays, Held
  <3> QED BY <1>1, <1>2, <2>4, <3>1 DEF DirectoryTyped
 <2>5. CASE /\ d.pc = "inspected" /\ d' = Then(d, "cleanup")
  <3>1. /\ SaverTyped' /\ Stays({"owned", "retain", "err"}) /\ d'.pc = "cleanup"
        /\ d'.owned = d.owned /\ d'.retain = d.retain /\ d'.err = d.err
    BY <1>1, <2>5 DEF SaverTyped, SaverRecord, SaverSteps, Then, Fails, Stays, Held
  <3> QED BY <1>1, <1>2, <2>5, <3>1 DEF DirectoryTyped
 <2>6. CASE /\ ~OutputSame /\ d' = Fails([d EXCEPT !.owned = FALSE])
  <3>1. /\ SaverTyped' /\ Stays({"owned", "retain", "err"}) /\ d'.pc = "cleanup" /\ d'.err = TRUE
        /\ d'.owned = FALSE /\ d'.retain = d.retain
    BY <1>1, <2>6 DEF SaverTyped, SaverRecord, SaverSteps, Then, Fails, Stays, Held
  <3> QED BY <1>1, <1>2, <2>6, <3>1 DEF DirectoryTyped
 <2>7. CASE /\ ~con[d.out].private /\ d' = Fails(d)
  <3>1. /\ SaverTyped' /\ Stays({"owned", "retain", "err"}) /\ d'.pc = "cleanup" /\ d'.err = TRUE
        /\ d'.owned = d.owned /\ d'.retain = d.retain
    BY <1>1, <2>7 DEF SaverTyped, SaverRecord, SaverSteps, Then, Fails, Stays, Held
  <3> QED BY <1>1, <1>2, <2>7, <3>1 DEF DirectoryTyped
 <2> QED BY <1>2, <2>1, <2>2, <2>3, <2>4, <2>5, <2>6, <2>7
<1> USE <1>1, <1>2, <1>3, NoneElse DEF SaveInv, SaverTyped, SaverRecord, DirectoryTyped, Stays, Held
<1>4. LookedAt' BY DEF LookedAt, OutputSame, Ours
<1>5. Still' BY DEF Still, Undisturbed, NewFile, OutputSame, Ours
<1>6. Controlled' BY DEF Controlled, BeforeCapture, WithOutput, OutputSame, Ours
<1>7. TempTracked'
  BY DEF TempTracked, Still, Undisturbed, Controlled, BeforeCapture, WithOutput, OutputSame, Ours
<1>8. OutputTracked'
  BY DEF OutputTracked, Still, Undisturbed, Controlled, Cleaned, NotSaving, BeforeCapture, WithOutput,
      OutputSame, Ours
<1>9. OutcomeTrue' BY DEF OutcomeTrue, Controlled, Undisturbed, OutputSame, Ours
<1>10. Bytes'
  BY DEF Bytes, Good, Controlled, BeforeCapture, WithOutput, NewFile, OutputSame, Ours
<1>11. Provenance' BY DEF Provenance, Writing, Controlled, BeforeCapture, OutputSame, Ours
<1> QED BY <1>4, <1>5, <1>6, <1>7, <1>8, <1>9, <1>10, <1>11

(* The output becomes private. *)
LEMMA ChmodKeeps ==
  ASSUME SaveInv, Chmod PROVE SaveInv'
<1>1. SaverTyped /\ DirectoryTyped /\ Controlled BY DEF SaveInv
<1>2. /\ d.pc = "chmod" /\ UNCHANGED <<q, r, fs, ext, seen>>
      /\ con' = [con EXCEPT ![d.out].private = TRUE]
      /\ d' = Then(d, "restricted") BY DEF Chmod, Saver, Keeps
<1>3. /\ SaverTyped' /\ DirectoryTyped' /\ Stays({})
      /\ d'.pc = "restricted"
      /\ \A o \in Ours : con'[o].data = con[o].data /\ con'[o].touched = con[o].touched /\ (con[o].private => con'[o].private)
 <2>1. CASE d' = Then(d, "restricted")
  <3>1. /\ SaverTyped' /\ Stays({}) /\ d'.pc = "restricted"
    BY <1>1, <2>1 DEF SaverTyped, SaverRecord, SaverSteps, Then, Fails, Stays, Held
  <3>2. /\ DirectoryTyped'
        /\ \A o \in Ours : con'[o].data = con[o].data /\ con'[o].touched = con[o].touched /\ (con[o].private => con'[o].private)
   <4> DEFINE o == d.out
              y == [con[o] EXCEPT !.private = TRUE]
   <4>1. o \in Ours BY <1>1, <1>2 DEF Controlled, WithOutput, SaverTyped, SaverRecord
   <4>2. con \in [Ours -> Contents] /\ con[o] \in Contents /\ con' = [con EXCEPT ![o] = y]
     BY <1>1, <1>2, <4>1 DEF DirectoryTyped
   <4>3. y \in Contents /\ y.data = con[o].data /\ y.touched = con[o].touched /\ y.private
     BY <4>2 DEF Contents
   <4> HIDE DEF y, o
   <4>4. con' \in [Ours -> Contents] /\ \A w \in Ours : con'[w] = (IF w = o THEN y ELSE con[w])
     BY <4>1, <4>2, <4>3
   <4>5. DirectoryTyped' BY <1>1, <1>2, <4>4 DEF DirectoryTyped
   <4> QED BY <4>3, <4>4, <4>5
  <3> QED BY <1>1, <1>2, <2>1, <3>1, <3>2 DEF TempIntact
 <2> QED BY <1>2, <2>1
<1> USE <1>1, <1>2, <1>3, NoneElse DEF SaveInv, SaverTyped, SaverRecord, DirectoryTyped, Stays, Held
<1>4. LookedAt' BY DEF LookedAt, Ours
<1>5. Still' BY DEF Still, Undisturbed, NewFile, Ours
<1>6. Controlled' BY DEF Controlled, BeforeCapture, WithOutput, Ours
<1>7. TempTracked'
  BY DEF TempTracked, Still, Undisturbed, Controlled, BeforeCapture, WithOutput, Ours
<1>8. OutputTracked'
  BY DEF OutputTracked, Still, Undisturbed, Controlled, Cleaned, NotSaving, BeforeCapture, WithOutput,
      Ours
<1>9. OutcomeTrue' BY DEF OutcomeTrue, Controlled, Undisturbed, Ours
<1>10. Bytes' BY DEF Bytes, Good, Controlled, BeforeCapture, WithOutput, NewFile, Ours
<1>11. Provenance' BY DEF Provenance, Writing, Controlled, BeforeCapture, Ours
<1> QED BY <1>4, <1>5, <1>6, <1>7, <1>8, <1>9, <1>10, <1>11

(* The temporary file, linked, is verified once more. *)
LEMMA RecheckTempKeeps ==
  ASSUME SaveInv, RecheckTemp PROVE SaveInv'
<1>1. SaverTyped /\ DirectoryTyped /\ Controlled BY DEF SaveInv
<1>2. /\ d.pc = "checktemp" /\ UNCHANGED <<q, r, fs, con, ext, seen>>
      /\ \/ /\ d' = [Then(d, "inspect") EXCEPT !.retain = TRUE]
         \/ /\ d' = Fails(d) BY DEF RecheckTemp, Saver, Keeps
<1>3. /\ SaverTyped' /\ DirectoryTyped' /\ Stays({"retain", "err"})
      /\ \/ /\ d'.pc = "inspect" /\ d'.retain = TRUE /\ d'.err = d.err
         \/ /\ d'.pc = "cleanup" /\ d'.err = TRUE /\ d'.retain = d.retain
 <2>1. CASE d' = [Then(d, "inspect") EXCEPT !.retain = TRUE]
  <3>1. /\ SaverTyped' /\ Stays({"retain", "err"}) /\ d'.pc = "inspect" /\ d'.retain = TRUE
        /\ d'.err = d.err
    BY <1>1, <2>1 DEF SaverTyped, SaverRecord, SaverSteps, Then, Fails, Stays, Held
  <3> QED BY <1>1, <1>2, <2>1, <3>1 DEF DirectoryTyped
 <2>2. CASE d' = Fails(d)
  <3>1. /\ SaverTyped' /\ Stays({"retain", "err"}) /\ d'.pc = "cleanup" /\ d'.err = TRUE
        /\ d'.retain = d.retain
    BY <1>1, <2>2 DEF SaverTyped, SaverRecord, SaverSteps, Then, Fails, Stays, Held
  <3> QED BY <1>1, <1>2, <2>2, <3>1 DEF DirectoryTyped
 <2> QED BY <1>2, <2>1, <2>2
<1> USE <1>1, <1>2, <1>3, NoneElse DEF SaveInv, SaverTyped, SaverRecord, DirectoryTyped, Stays, Held
<1>4. LookedAt' BY DEF LookedAt
<1>5. Still' BY DEF Still, Undisturbed, NewFile
<1>6. Controlled' BY DEF Controlled, BeforeCapture, WithOutput
<1>7. TempTracked'
  BY DEF TempTracked, Still, Undisturbed, Controlled, BeforeCapture, WithOutput
<1>8. OutputTracked'
  BY DEF OutputTracked, Still, Undisturbed, Controlled, Cleaned, NotSaving, BeforeCapture, WithOutput
<1>9. OutcomeTrue' BY DEF OutcomeTrue, Controlled, Undisturbed
<1>10. Bytes' BY DEF Bytes, Good, Controlled, BeforeCapture, WithOutput, NewFile
<1>11. Provenance' BY DEF Provenance, Writing, Controlled, BeforeCapture
<1> QED BY <1>4, <1>5, <1>6, <1>7, <1>8, <1>9, <1>10, <1>11

(* An output that is not retained is looked at before it is removed. *)
LEMMA CleanOutputKeeps ==
  ASSUME SaveInv, CleanOutput PROVE SaveInv'
<1>1. SaverTyped /\ DirectoryTyped /\ Controlled BY DEF SaveInv
<1>2. /\ d.pc = "cleanup" /\ UNCHANGED <<q, r, fs, con, ext, seen>>
      /\ \/ /\ ~(d.owned /\ d.out # None) /\ d' = Then(d, "cleantemp")
         \/ /\ d.owned /\ d.out # None /\ d.retain /\ ~OutputSame
            /\ d' = [Fails([d EXCEPT !.owned = FALSE]) EXCEPT !.pc = "cleantemp"]
         \/ /\ d.owned /\ d.out # None /\ d.retain /\ OutputSame
            /\ d' = [Fails(d) EXCEPT !.pc = "cleantemp"]
         \/ /\ d.owned /\ d.out # None /\ d.retain /\ OutputSame /\ d' = [d EXCEPT !.pc = "cleantemp"]
         \/ /\ d.owned /\ d.out # None /\ ~d.retain /\ fs["out"] = d.out
            /\ d' = [Then(d, "drop") EXCEPT !.rm = "out"]
         \/ /\ d.owned /\ d.out # None /\ ~d.retain /\ fs["out"] = None /\ d' = Then(d, "cleantemp")
         \/ /\ d.owned /\ d.out # None /\ ~d.retain /\ (fs.moved \/ fs["out"] # d.out)
            /\ d' = [Then(d, "cleantemp") EXCEPT !.err = TRUE]
  BY Zenon DEF CleanOutput, Saver, Keeps, Checked, RemoveOwned, OwnedName
<1>3. /\ SaverTyped' /\ DirectoryTyped' /\ Stays({"rm", "owned", "err"})
      /\ \/ /\ (d.owned => d.out = None) /\ d'.pc = "cleantemp" /\ d'.rm = d.rm /\ d'.owned = d.owned
            /\ d'.err = d.err
         \/ /\ d.owned /\ d.out # None /\ d.retain /\ ~OutputSame /\ d'.pc = "cleantemp"
            /\ d'.owned = FALSE /\ d'.err = TRUE /\ d'.rm = d.rm
         \/ /\ d.owned /\ d.out # None /\ d.retain /\ OutputSame /\ d'.pc = "cleantemp"
            /\ d'.err = TRUE /\ d'.rm = d.rm /\ d'.owned = d.owned
         \/ /\ d.owned /\ d.out # None /\ d.retain /\ OutputSame /\ d'.pc = "cleantemp"
            /\ d'.rm = d.rm /\ d'.owned = d.owned /\ d'.err = d.err
         \/ /\ d.owned /\ d.out # None /\ ~d.retain /\ fs.out = d.out /\ d'.pc = "drop"
            /\ d'.rm = "out" /\ d'.owned = d.owned /\ d'.err = d.err
         \/ /\ d.owned /\ d.out # None /\ ~d.retain /\ fs.out = None /\ d'.pc = "cleantemp"
            /\ d'.rm = d.rm /\ d'.owned = d.owned /\ d'.err = d.err
         \/ /\ d.owned /\ d.out # None /\ ~d.retain /\ (fs.moved \/ fs.out # d.out)
            /\ d'.pc = "cleantemp" /\ d'.err = TRUE /\ d'.rm = d.rm /\ d'.owned = d.owned
 <2>1. CASE /\ ~(d.owned /\ d.out # None) /\ d' = Then(d, "cleantemp")
  <3>1. /\ SaverTyped' /\ Stays({"rm", "owned", "err"}) /\ d'.pc = "cleantemp" /\ d'.rm = d.rm
        /\ d'.owned = d.owned /\ d'.err = d.err
    BY <1>1, <2>1 DEF SaverTyped, SaverRecord, SaverSteps, Then, Fails, Stays, Held
  <3> QED BY <1>1, <1>2, <2>1, <3>1 DEF DirectoryTyped
 <2>2. CASE /\ d.owned /\ d.out # None /\ d.retain /\ ~OutputSame
           /\ d' = [Fails([d EXCEPT !.owned = FALSE]) EXCEPT !.pc = "cleantemp"]
  <3>1. /\ SaverTyped' /\ Stays({"rm", "owned", "err"}) /\ d'.pc = "cleantemp" /\ d'.owned = FALSE
        /\ d'.err = TRUE /\ d'.rm = d.rm
    BY <1>1, <2>2 DEF SaverTyped, SaverRecord, SaverSteps, Then, Fails, Stays, Held
  <3> QED BY <1>1, <1>2, <2>2, <3>1 DEF DirectoryTyped
 <2>3. CASE /\ d.owned /\ d.out # None /\ d.retain /\ OutputSame
           /\ d' = [Fails(d) EXCEPT !.pc = "cleantemp"]
  <3>1. /\ SaverTyped' /\ Stays({"rm", "owned", "err"}) /\ d'.pc = "cleantemp" /\ d'.err = TRUE
        /\ d'.rm = d.rm /\ d'.owned = d.owned
    BY <1>1, <2>3 DEF SaverTyped, SaverRecord, SaverSteps, Then, Fails, Stays, Held
  <3> QED BY <1>1, <1>2, <2>3, <3>1 DEF DirectoryTyped
 <2>4. CASE /\ d.owned /\ d.out # None /\ d.retain /\ OutputSame
           /\ d' = [d EXCEPT !.pc = "cleantemp"]
  <3>1. /\ SaverTyped' /\ Stays({"rm", "owned", "err"}) /\ d'.pc = "cleantemp" /\ d'.rm = d.rm
        /\ d'.owned = d.owned /\ d'.err = d.err
    BY <1>1, <2>4 DEF SaverTyped, SaverRecord, SaverSteps, Then, Fails, Stays, Held
  <3> QED BY <1>1, <1>2, <2>4, <3>1 DEF DirectoryTyped
 <2>5. CASE /\ d.owned /\ d.out # None /\ ~d.retain /\ fs["out"] = d.out
           /\ d' = [Then(d, "drop") EXCEPT !.rm = "out"]
  <3>1. /\ SaverTyped' /\ Stays({"rm", "owned", "err"}) /\ d'.pc = "drop" /\ d'.rm = "out"
        /\ d'.owned = d.owned /\ d'.err = d.err
    BY <1>1, <2>5 DEF SaverTyped, SaverRecord, SaverSteps, Then, Fails, Stays, Held
  <3> QED BY <1>1, <1>2, <2>5, <3>1 DEF DirectoryTyped
 <2>6. CASE /\ d.owned /\ d.out # None /\ ~d.retain /\ fs["out"] = None /\ d' = Then(d, "cleantemp")
  <3>1. /\ SaverTyped' /\ Stays({"rm", "owned", "err"}) /\ d'.pc = "cleantemp" /\ d'.rm = d.rm
        /\ d'.owned = d.owned /\ d'.err = d.err
    BY ZenonT(60), <1>1, <2>6 DEF SaverTyped, SaverRecord, SaverSteps, Then, Fails, Stays, Held
  <3> QED BY <1>1, <1>2, <2>6, <3>1 DEF DirectoryTyped
 <2>7. CASE /\ d.owned /\ d.out # None /\ ~d.retain /\ (fs.moved \/ fs["out"] # d.out)
           /\ d' = [Then(d, "cleantemp") EXCEPT !.err = TRUE]
  <3>1. /\ SaverTyped' /\ Stays({"rm", "owned", "err"}) /\ d'.pc = "cleantemp" /\ d'.err = TRUE
        /\ d'.rm = d.rm /\ d'.owned = d.owned
    BY <1>1, <2>7 DEF SaverTyped, SaverRecord, SaverSteps, Then, Fails, Stays, Held
  <3> QED BY <1>1, <1>2, <2>7, <3>1 DEF DirectoryTyped
 <2> QED BY <1>2, <2>1, <2>2, <2>3, <2>4, <2>5, <2>6, <2>7
<1> USE <1>1, <1>2, <1>3, NoneElse DEF SaveInv, SaverTyped, SaverRecord, DirectoryTyped, Stays, Held
<1>4. LookedAt' BY DEF LookedAt, OutputSame, Ours
<1>5. Still' BY DEF Still, Undisturbed, NewFile, OutputSame, Ours
<1>6. Controlled' BY DEF Controlled, BeforeCapture, WithOutput, OutputSame, Ours
<1>7. TempTracked'
  BY DEF TempTracked, Still, Undisturbed, Controlled, BeforeCapture, WithOutput, OutputSame, Ours
<1>8. OutputTracked'
  BY DEF OutputTracked, Still, Undisturbed, Controlled, Cleaned, NotSaving, BeforeCapture, WithOutput,
      OutputSame, Ours
<1>9. OutcomeTrue' BY DEF OutcomeTrue, Controlled, Undisturbed, OutputSame, Ours
<1>10. Bytes'
  BY DEF Bytes, Good, Controlled, BeforeCapture, WithOutput, NewFile, OutputSame, Ours
<1>11. Provenance' BY DEF Provenance, Writing, Controlled, BeforeCapture, OutputSame, Ours
<1> QED BY <1>4, <1>5, <1>6, <1>7, <1>8, <1>9, <1>10, <1>11

(* The temporary file is looked at before it is removed. *)
LEMMA CleanTempKeeps ==
  ASSUME SaveInv, CleanTemp PROVE SaveInv'
<1>1. SaverTyped /\ DirectoryTyped /\ Controlled BY DEF SaveInv
<1>2. /\ d.pc = "cleantemp" /\ UNCHANGED <<q, r, fs, con, ext, seen>>
      /\ \/ /\ ~d.captured /\ d' = Then(d, "outcome")
         \/ /\ fs["tmp"] = "temp" /\ d' = [Then(d, "drop") EXCEPT !.rm = "tmp"] /\ d.captured
         \/ /\ fs["tmp"] = None /\ d' = Then(d, "outcome")
         \/ /\ (fs.moved \/ (fs["tmp"] # None /\ fs["tmp"] # "temp"))
            /\ d' = [Then(d, "outcome") EXCEPT !.err = TRUE]
  BY Zenon DEF CleanTemp, Saver, Keeps, RemoveOwned, OwnedName
<1>3. /\ SaverTyped' /\ DirectoryTyped' /\ Stays({"rm", "err"})
      /\ \/ /\ ~d.captured /\ d'.pc = "outcome" /\ d'.rm = d.rm /\ d'.err = d.err
         \/ /\ d.captured /\ fs.tmp = "temp" /\ d'.pc = "drop" /\ d'.rm = "tmp" /\ d'.err = d.err
         \/ /\ fs.tmp = None /\ d'.pc = "outcome" /\ d'.rm = d.rm /\ d'.err = d.err
         \/ /\ (fs.moved \/ (fs.tmp # None /\ fs.tmp # "temp")) /\ d'.pc = "outcome" /\ d'.err = TRUE
            /\ d'.rm = d.rm
 <2>1. CASE /\ ~d.captured /\ d' = Then(d, "outcome")
  <3>1. /\ SaverTyped' /\ Stays({"rm", "err"}) /\ d'.pc = "outcome" /\ d'.rm = d.rm
        /\ d'.err = d.err
    BY <1>1, <2>1 DEF SaverTyped, SaverRecord, SaverSteps, Then, Fails, Stays, Held
  <3> QED BY <1>1, <1>2, <2>1, <3>1 DEF DirectoryTyped
 <2>2. CASE /\ fs["tmp"] = "temp" /\ d' = [Then(d, "drop") EXCEPT !.rm = "tmp"] /\ d.captured
  <3>1. /\ SaverTyped' /\ Stays({"rm", "err"}) /\ d'.pc = "drop" /\ d'.rm = "tmp" /\ d'.err = d.err
    BY <1>1, <2>2 DEF SaverTyped, SaverRecord, SaverSteps, Then, Fails, Stays, Held
  <3> QED BY <1>1, <1>2, <2>2, <3>1 DEF DirectoryTyped
 <2>3. CASE /\ fs["tmp"] = None /\ d' = Then(d, "outcome")
  <3>1. /\ SaverTyped' /\ Stays({"rm", "err"}) /\ d'.pc = "outcome" /\ d'.rm = d.rm
        /\ d'.err = d.err
    BY <1>1, <2>3 DEF SaverTyped, SaverRecord, SaverSteps, Then, Fails, Stays, Held
  <3> QED BY <1>1, <1>2, <2>3, <3>1 DEF DirectoryTyped
 <2>4. CASE /\ (fs.moved \/ (fs["tmp"] # None /\ fs["tmp"] # "temp"))
           /\ d' = [Then(d, "outcome") EXCEPT !.err = TRUE]
  <3>1. /\ SaverTyped' /\ Stays({"rm", "err"}) /\ d'.pc = "outcome" /\ d'.err = TRUE /\ d'.rm = d.rm
    BY <1>1, <2>4 DEF SaverTyped, SaverRecord, SaverSteps, Then, Fails, Stays, Held
  <3> QED BY <1>1, <1>2, <2>4, <3>1 DEF DirectoryTyped
 <2> QED BY <1>2, <2>1, <2>2, <2>3, <2>4
<1> USE <1>1, <1>2, <1>3, NoneElse DEF SaveInv, SaverTyped, SaverRecord, DirectoryTyped, Stays, Held
<1>4. LookedAt' BY DEF LookedAt
<1>5. Still' BY DEF Still, Undisturbed, NewFile
<1>6. Controlled' BY DEF Controlled, BeforeCapture, WithOutput
<1>7. TempTracked'
  BY DEF TempTracked, Still, Undisturbed, Controlled, BeforeCapture, WithOutput
<1>8. OutputTracked'
  BY DEF OutputTracked, Still, Undisturbed, Controlled, Cleaned, NotSaving, BeforeCapture, WithOutput
<1>9. OutcomeTrue' BY DEF OutcomeTrue, Controlled, Undisturbed
<1>10. Bytes' BY DEF Bytes, Good, Controlled, BeforeCapture, WithOutput, NewFile
<1>11. Provenance' BY DEF Provenance, Writing, Controlled, BeforeCapture
<1> QED BY <1>4, <1>5, <1>6, <1>7, <1>8, <1>9, <1>10, <1>11

(* What stands under the name is removed. *)
LEMMA DropKeeps ==
  ASSUME SaveInv, Drop PROVE SaveInv'
<1>1. SaverTyped /\ DirectoryTyped /\ Controlled BY DEF SaveInv
<1>2. /\ d.pc = "drop" /\ d.rm \in {"tmp", "out"} /\ UNCHANGED <<q, r, con, ext>>
      /\ fs' = [fs EXCEPT ![d.rm] = None]
      /\ seen' = [seen EXCEPT !.harmed = @ \/ (fs[d.rm] = "other")]
      /\ \/ /\ d.rm = "out" /\ d' = [Then(d, "cleantemp") EXCEPT !.rm = None]
         \/ /\ d.rm # "out" /\ d.captured /\ d' = [Then(d, "outcome") EXCEPT !.rm = None]
         \/ /\ d.rm # "out" /\ ~d.captured /\ d' = [Then(d, "cleanup") EXCEPT !.rm = None]
  BY <1>1, Zenon DEF Drop, Saver, Keeps, AfterDrop, SaveInv, LookedAt
<1>3. /\ SaverTyped' /\ DirectoryTyped' /\ Stays({"rm"})
      /\ \/ /\ d.rm = "out" /\ d'.pc = "cleantemp" /\ d'.rm = None /\ fs'.out = None
            /\ fs'.tmp = fs.tmp /\ fs'.moved = fs.moved /\ seen'.kept = seen.kept
            /\ seen'.others = seen.others /\ seen'.blind = seen.blind
            /\ (seen'.harmed => seen.harmed \/ fs[d.rm] = "other")
         \/ /\ d.rm # "out" /\ d.captured /\ d'.pc = "outcome" /\ d'.rm = None /\ fs'.tmp = None
            /\ fs'.out = fs.out /\ fs'.moved = fs.moved /\ seen'.kept = seen.kept
            /\ seen'.others = seen.others /\ seen'.blind = seen.blind
            /\ (seen'.harmed => seen.harmed \/ fs[d.rm] = "other")
         \/ /\ d.rm # "out" /\ ~d.captured /\ d'.pc = "cleanup" /\ d'.rm = None /\ fs'.tmp = None
            /\ fs'.out = fs.out /\ fs'.moved = fs.moved /\ seen'.kept = seen.kept
            /\ seen'.others = seen.others /\ seen'.blind = seen.blind
            /\ (seen'.harmed => seen.harmed \/ fs[d.rm] = "other")
 <2>1. CASE /\ d.rm = "out" /\ d' = [Then(d, "cleantemp") EXCEPT !.rm = None]
  <3>1. /\ SaverTyped' /\ Stays({"rm"}) /\ d'.pc = "cleantemp" /\ d'.rm = None
    BY <1>1, <2>1 DEF SaverTyped, SaverRecord, SaverSteps, Then, Fails, Stays, Held
  <3>2. /\ DirectoryTyped' /\ fs'.out = None /\ fs'.tmp = fs.tmp /\ fs'.moved = fs.moved
        /\ seen'.kept = seen.kept /\ seen'.others = seen.others /\ seen'.blind = seen.blind
        /\ (seen'.harmed => seen.harmed \/ fs[d.rm] = "other")
    BY <1>1, <1>2, <2>1 DEF DirectoryTyped, Contents, Ours, NewFile
  <3> QED BY <1>1, <1>2, <2>1, <3>1, <3>2 DEF TempIntact
 <2>2. CASE /\ d.rm # "out" /\ d.captured /\ d' = [Then(d, "outcome") EXCEPT !.rm = None]
  <3>1. /\ SaverTyped' /\ Stays({"rm"}) /\ d'.pc = "outcome" /\ d'.rm = None
    BY <1>1, <2>2 DEF SaverTyped, SaverRecord, SaverSteps, Then, Fails, Stays, Held
  <3>2. /\ DirectoryTyped' /\ fs'.tmp = None /\ fs'.out = fs.out /\ fs'.moved = fs.moved
        /\ seen'.kept = seen.kept /\ seen'.others = seen.others /\ seen'.blind = seen.blind
        /\ (seen'.harmed => seen.harmed \/ fs[d.rm] = "other")
    BY <1>1, <1>2, <2>2 DEF DirectoryTyped, Contents, Ours, NewFile
  <3> QED BY <1>1, <1>2, <2>2, <3>1, <3>2 DEF TempIntact
 <2>3. CASE /\ d.rm # "out" /\ ~d.captured /\ d' = [Then(d, "cleanup") EXCEPT !.rm = None]
  <3>1. /\ SaverTyped' /\ Stays({"rm"}) /\ d'.pc = "cleanup" /\ d'.rm = None
    BY <1>1, <2>3 DEF SaverTyped, SaverRecord, SaverSteps, Then, Fails, Stays, Held
  <3>2. /\ DirectoryTyped' /\ fs'.tmp = None /\ fs'.out = fs.out /\ fs'.moved = fs.moved
        /\ seen'.kept = seen.kept /\ seen'.others = seen.others /\ seen'.blind = seen.blind
        /\ (seen'.harmed => seen.harmed \/ fs[d.rm] = "other")
    BY <1>1, <1>2, <2>3 DEF DirectoryTyped, Contents, Ours, NewFile
  <3> QED BY <1>1, <1>2, <2>3, <3>1, <3>2 DEF TempIntact
 <2> QED BY <1>2, <2>1, <2>2, <2>3
<1> USE <1>1, <1>2, <1>3, NoneElse DEF SaveInv, SaverTyped, SaverRecord, DirectoryTyped, Stays, Held
<1>4. LookedAt' BY DEF LookedAt
<1>5. Still' BY DEF Still, Undisturbed, NewFile
<1>6. Controlled' BY DEF Controlled, BeforeCapture, WithOutput
<1>7. TempTracked'
  BY DEF TempTracked, Still, Undisturbed, Controlled, BeforeCapture, WithOutput
<1>8. OutputTracked'
  BY DEF OutputTracked, Still, Undisturbed, Controlled, Cleaned, NotSaving, BeforeCapture, WithOutput
<1>9. OutcomeTrue' BY DEF OutcomeTrue, Controlled, Undisturbed
<1>10. Bytes' BY DEF Bytes, Good, Controlled, BeforeCapture, WithOutput, NewFile
<1>11. Provenance' BY DEF Provenance, Writing, Controlled, BeforeCapture
<1> QED BY <1>4, <1>5, <1>6, <1>7, <1>8, <1>9, <1>10, <1>11

(* What is answered about the effect. *)
LEMMA OutcomeKeeps ==
  ASSUME SaveInv, Outcome PROVE SaveInv'
<1>1. SaverTyped /\ DirectoryTyped /\ Controlled BY DEF SaveInv
<1>2. /\ d.pc = "outcome" /\ UNCHANGED <<q, r, fs, con, ext, seen>>
      /\ \/ /\ Complete
            /\ (d' = [Then(d, "close") EXCEPT !.certainty = "complete", !.err = @ \/ "complete" # "complete"])
         \/ /\ ~Complete /\ fs.out = None
            /\ (d' = [Then(d, "close") EXCEPT !.certainty = "none", !.err = @ \/ "none" # "complete"])
         \/ /\ ~Complete
            /\ (d' = [Then(d, "close") EXCEPT !.certainty = "unknown", !.err = @ \/ "unknown" # "complete"])
  BY Zenon DEF Outcome, Saver, Keeps
<1>3. /\ SaverTyped' /\ DirectoryTyped' /\ Stays({"err", "certainty"})
      /\ \/ /\ Complete /\ d'.pc = "close" /\ d'.certainty = "complete" /\ d'.err = d.err
         \/ /\ ~Complete /\ fs.out = None /\ d'.pc = "close" /\ d'.certainty = "none" /\ d'.err = TRUE
         \/ /\ ~Complete /\ d'.pc = "close" /\ d'.certainty = "unknown" /\ d'.err = TRUE
 <2>1. CASE /\ Complete
           /\ (d' = [Then(d, "close") EXCEPT !.certainty = "complete", !.err = @ \/ "complete" # "complete"])
  <3>1. d' = [Then(d, "close") EXCEPT !.certainty = "complete", !.err = d.err]
   <4>1. Then(d, "close").err = d.err /\ d.err \in BOOLEAN
     BY <1>1 DEF Then, SaverTyped, SaverRecord
   <4>2. (Then(d, "close").err \/ "complete" # "complete") = d.err BY <4>1
   <4> QED BY <2>1, <4>2, Zenon
  <3>2. SaverTyped' BY <1>1, <3>1 DEF SaverTyped, SaverRecord, SaverSteps, Then
  <3>3. Stays({"err", "certainty"}) /\ d'.pc = "close" /\ d'.certainty = "complete" /\ d'.err = d.err
    BY <1>1, <3>1 DEF SaverTyped, SaverRecord, SaverSteps, Then, Stays, Held
  <3> QED BY <1>1, <1>2, <2>1, <3>2, <3>3 DEF DirectoryTyped
 <2>2. CASE /\ ~Complete /\ fs.out = None
           /\ (d' = [Then(d, "close") EXCEPT !.certainty = "none", !.err = @ \/ "none" # "complete"])
  <3>1. d' = [Then(d, "close") EXCEPT !.certainty = "none", !.err = TRUE]
   <4>1. (Then(d, "close").err \/ "none" # "complete") = TRUE OBVIOUS
   <4> QED BY <2>2, <4>1, Zenon
  <3>2. SaverTyped' BY <1>1, <3>1 DEF SaverTyped, SaverRecord, SaverSteps, Then
  <3>3. Stays({"err", "certainty"}) /\ d'.pc = "close" /\ d'.certainty = "none" /\ d'.err = TRUE
    BY <1>1, <3>1 DEF SaverTyped, SaverRecord, SaverSteps, Then, Stays, Held
  <3> QED BY <1>1, <1>2, <2>2, <3>2, <3>3 DEF DirectoryTyped
 <2>3. CASE /\ ~Complete
           /\ (d' = [Then(d, "close") EXCEPT !.certainty = "unknown", !.err = @ \/ "unknown" # "complete"])
  <3>1. d' = [Then(d, "close") EXCEPT !.certainty = "unknown", !.err = TRUE]
   <4>1. (Then(d, "close").err \/ "unknown" # "complete") = TRUE OBVIOUS
   <4> QED BY <2>3, <4>1, Zenon
  <3>2. SaverTyped' BY <1>1, <3>1 DEF SaverTyped, SaverRecord, SaverSteps, Then
  <3>3. Stays({"err", "certainty"}) /\ d'.pc = "close" /\ d'.certainty = "unknown" /\ d'.err = TRUE
    BY <1>1, <3>1 DEF SaverTyped, SaverRecord, SaverSteps, Then, Stays, Held
  <3> QED BY <1>1, <1>2, <2>3, <3>2, <3>3 DEF DirectoryTyped
 <2> QED BY <1>2, <2>1, <2>2, <2>3
<1> USE <1>1, <1>2, <1>3, NoneElse DEF SaveInv, SaverTyped, SaverRecord, DirectoryTyped, Stays, Held
<1>4. LookedAt' BY DEF LookedAt, Complete, OutputSame, Ours
<1>5. Still' BY DEF Still, Undisturbed, NewFile, Complete, OutputSame, Ours
<1>6. Controlled' BY DEF Controlled, BeforeCapture, WithOutput, Complete, OutputSame, Ours
<1>7. TempTracked'
  BY DEF TempTracked, Still, Undisturbed, Controlled, BeforeCapture, WithOutput, Complete, OutputSame,
      Ours
<1>8. OutputTracked'
  BY DEF OutputTracked, Still, Undisturbed, Controlled, Cleaned, NotSaving, BeforeCapture, WithOutput,
      Complete, OutputSame, Ours
<1>9. OutcomeTrue'
  BY DEF OutcomeTrue, Controlled, OutputTracked, Still, Bytes, Good, Cleaned, NotSaving, Undisturbed,
      Complete, OutputSame, Ours
<1>10. Bytes'
  BY DEF Bytes, Good, Controlled, BeforeCapture, WithOutput, NewFile, Complete, OutputSame, Ours
<1>11. Provenance'
  BY DEF Provenance, Writing, Controlled, BeforeCapture, Complete, OutputSame, Ours
<1> QED BY <1>4, <1>5, <1>6, <1>7, <1>8, <1>9, <1>10, <1>11

(* The files are closed. *)
LEMMA CloseFilesKeeps ==
  ASSUME SaveInv, CloseFiles PROVE SaveInv'
<1>1. SaverTyped /\ DirectoryTyped /\ Controlled BY DEF SaveInv
<1>2. /\ d.pc = "close" /\ UNCHANGED <<q, r, fs, con, ext, seen>>
      /\ d' = Then(d, "done") BY DEF CloseFiles, Saver, Keeps
<1>3. /\ SaverTyped' /\ DirectoryTyped' /\ Stays({})
      /\ d'.pc = "done"
  BY <1>1, <1>2 DEF SaverTyped, SaverRecord, SaverSteps, Then, Fails, Stays, Held, DirectoryTyped
<1> USE <1>1, <1>2, <1>3, NoneElse DEF SaveInv, SaverTyped, SaverRecord, DirectoryTyped, Stays, Held
<1>4. LookedAt' BY DEF LookedAt
<1>5. Still' BY DEF Still, Undisturbed, NewFile
<1>6. Controlled' BY DEF Controlled, BeforeCapture, WithOutput
<1>7. TempTracked'
  BY DEF TempTracked, Still, Undisturbed, Controlled, BeforeCapture, WithOutput
<1>8. OutputTracked'
  BY DEF OutputTracked, Still, Undisturbed, Controlled, Cleaned, NotSaving, BeforeCapture, WithOutput
<1>9. OutcomeTrue' BY DEF OutcomeTrue, Controlled, Undisturbed
<1>10. Bytes' BY DEF Bytes, Good, Controlled, BeforeCapture, WithOutput, NewFile
<1>11. Provenance' BY DEF Provenance, Writing, Controlled, BeforeCapture
<1> QED BY <1>4, <1>5, <1>6, <1>7, <1>8, <1>9, <1>10, <1>11

(* A call of the saver fails. *)
LEMMA CallFailsKeeps ==
  ASSUME SaveInv, CallFails PROVE SaveInv'
<1>1. SaverTyped /\ DirectoryTyped /\ Controlled BY DEF SaveInv
<1>2. /\ d.pc \in {"hash", "create", "write", "verify", "evidence", "copy", "chmod", "drop", "close"}
      /\ UNCHANGED <<q, r, fs, con, ext>> /\ seen' = [seen EXCEPT !.kept = @ \/ d.pc = "drop"]
      /\ \/ /\ d.pc \in {"write", "verify", "evidence"} /\ d' = Then(d, "unwrite")
         \/ /\ d.pc = "drop" /\ d.rm = "out"
            /\ d' = [Then(d, "cleantemp") EXCEPT !.rm = None, !.err = TRUE]
         \/ /\ d.pc = "drop" /\ d.rm # "out" /\ d.captured
            /\ d' = [Then(d, "outcome") EXCEPT !.rm = None, !.err = TRUE]
         \/ /\ d.pc = "drop" /\ d.rm # "out" /\ ~d.captured
            /\ d' = [Then(d, "cleanup") EXCEPT !.rm = None, !.err = TRUE]
         \/ /\ d.pc = "close" /\ d' = [Then(d, "done") EXCEPT !.err = TRUE]
         \/ /\ d.pc \in {"hash", "create", "copy", "chmod"} /\ d' = Fails(d)
  BY Zenon DEF CallFails, Saver, AfterDrop
<1>3. /\ SaverTyped' /\ DirectoryTyped' /\ Stays({"rm", "err"})
      /\ \/ /\ d.pc \in {"write", "verify", "evidence"} /\ d'.pc = "unwrite" /\ d'.rm = d.rm
            /\ d'.err = d.err /\ seen'.kept = seen.kept /\ seen'.others = seen.others
            /\ seen'.blind = seen.blind /\ seen'.harmed = seen.harmed
         \/ /\ d.pc = "drop" /\ d.rm = "out" /\ d'.pc = "cleantemp" /\ d'.rm = None /\ d'.err = TRUE
            /\ seen'.kept = TRUE /\ seen'.others = seen.others /\ seen'.blind = seen.blind
            /\ seen'.harmed = seen.harmed
         \/ /\ d.pc = "drop" /\ d.rm # "out" /\ d.captured /\ d'.pc = "outcome" /\ d'.rm = None
            /\ d'.err = TRUE /\ seen'.kept = TRUE /\ seen'.others = seen.others
            /\ seen'.blind = seen.blind /\ seen'.harmed = seen.harmed
         \/ /\ d.pc = "drop" /\ d.rm # "out" /\ ~d.captured /\ d'.pc = "cleanup" /\ d'.rm = None
            /\ d'.err = TRUE /\ seen'.kept = TRUE /\ seen'.others = seen.others
            /\ seen'.blind = seen.blind /\ seen'.harmed = seen.harmed
         \/ /\ d.pc = "close" /\ d'.pc = "done" /\ d'.err = TRUE /\ d'.rm = d.rm
            /\ seen'.kept = seen.kept /\ seen'.others = seen.others /\ seen'.blind = seen.blind
            /\ seen'.harmed = seen.harmed
         \/ /\ d.pc \in {"hash", "create", "copy", "chmod"} /\ d'.pc = "cleanup" /\ d'.err = TRUE
            /\ d'.rm = d.rm /\ seen'.kept = seen.kept /\ seen'.others = seen.others
            /\ seen'.blind = seen.blind /\ seen'.harmed = seen.harmed
 <2>1. CASE /\ d.pc \in {"write", "verify", "evidence"} /\ d' = Then(d, "unwrite")
  <3>1. /\ SaverTyped' /\ Stays({"rm", "err"}) /\ d'.pc = "unwrite" /\ d'.rm = d.rm
        /\ d'.err = d.err
    BY <1>1, <2>1 DEF SaverTyped, SaverRecord, SaverSteps, Then, Fails, Stays, Held
  <3>2. /\ DirectoryTyped' /\ seen'.kept = seen.kept /\ seen'.others = seen.others
        /\ seen'.blind = seen.blind /\ seen'.harmed = seen.harmed
    BY <1>1, <1>2, <2>1 DEF DirectoryTyped, Contents, Ours, NewFile
  <3> QED BY <1>1, <1>2, <2>1, <3>1, <3>2 DEF TempIntact
 <2>2. CASE /\ d.pc = "drop" /\ d.rm = "out"
           /\ d' = [Then(d, "cleantemp") EXCEPT !.rm = None, !.err = TRUE]
  <3>1. /\ SaverTyped' /\ Stays({"rm", "err"}) /\ d'.pc = "cleantemp" /\ d'.rm = None
        /\ d'.err = TRUE
    BY <1>1, <2>2 DEF SaverTyped, SaverRecord, SaverSteps, Then, Fails, Stays, Held
  <3>2. /\ DirectoryTyped' /\ seen'.kept = TRUE /\ seen'.others = seen.others
        /\ seen'.blind = seen.blind /\ seen'.harmed = seen.harmed
    BY <1>1, <1>2, <2>2 DEF DirectoryTyped, Contents, Ours, NewFile
  <3> QED BY <1>1, <1>2, <2>2, <3>1, <3>2 DEF TempIntact
 <2>3. CASE /\ d.pc = "drop" /\ d.rm # "out" /\ d.captured
           /\ d' = [Then(d, "outcome") EXCEPT !.rm = None, !.err = TRUE]
  <3>1. /\ SaverTyped' /\ Stays({"rm", "err"}) /\ d'.pc = "outcome" /\ d'.rm = None /\ d'.err = TRUE
    BY <1>1, <2>3 DEF SaverTyped, SaverRecord, SaverSteps, Then, Fails, Stays, Held
  <3>2. /\ DirectoryTyped' /\ seen'.kept = TRUE /\ seen'.others = seen.others
        /\ seen'.blind = seen.blind /\ seen'.harmed = seen.harmed
    BY <1>1, <1>2, <2>3 DEF DirectoryTyped, Contents, Ours, NewFile
  <3> QED BY <1>1, <1>2, <2>3, <3>1, <3>2 DEF TempIntact
 <2>4. CASE /\ d.pc = "drop" /\ d.rm # "out" /\ ~d.captured
           /\ d' = [Then(d, "cleanup") EXCEPT !.rm = None, !.err = TRUE]
  <3>1. /\ SaverTyped' /\ Stays({"rm", "err"}) /\ d'.pc = "cleanup" /\ d'.rm = None /\ d'.err = TRUE
    BY <1>1, <2>4 DEF SaverTyped, SaverRecord, SaverSteps, Then, Fails, Stays, Held
  <3>2. /\ DirectoryTyped' /\ seen'.kept = TRUE /\ seen'.others = seen.others
        /\ seen'.blind = seen.blind /\ seen'.harmed = seen.harmed
    BY <1>1, <1>2, <2>4 DEF DirectoryTyped, Contents, Ours, NewFile
  <3> QED BY <1>1, <1>2, <2>4, <3>1, <3>2 DEF TempIntact
 <2>5. CASE /\ d.pc = "close" /\ d' = [Then(d, "done") EXCEPT !.err = TRUE]
  <3>1. /\ SaverTyped' /\ Stays({"rm", "err"}) /\ d'.pc = "done" /\ d'.err = TRUE /\ d'.rm = d.rm
    BY <1>1, <2>5 DEF SaverTyped, SaverRecord, SaverSteps, Then, Fails, Stays, Held
  <3>2. /\ DirectoryTyped' /\ seen'.kept = seen.kept /\ seen'.others = seen.others
        /\ seen'.blind = seen.blind /\ seen'.harmed = seen.harmed
    BY <1>1, <1>2, <2>5 DEF DirectoryTyped, Contents, Ours, NewFile
  <3> QED BY <1>1, <1>2, <2>5, <3>1, <3>2 DEF TempIntact
 <2>6. CASE /\ d.pc \in {"hash", "create", "copy", "chmod"} /\ d' = Fails(d)
  <3>1. /\ SaverTyped' /\ Stays({"rm", "err"}) /\ d'.pc = "cleanup" /\ d'.err = TRUE /\ d'.rm = d.rm
    BY <1>1, <2>6 DEF SaverTyped, SaverRecord, SaverSteps, Then, Fails, Stays, Held
  <3>2. /\ DirectoryTyped' /\ seen'.kept = seen.kept /\ seen'.others = seen.others
        /\ seen'.blind = seen.blind /\ seen'.harmed = seen.harmed
    BY <1>1, <1>2, <2>6 DEF DirectoryTyped, Contents, Ours, NewFile
  <3> QED BY <1>1, <1>2, <2>6, <3>1, <3>2 DEF TempIntact
 <2> QED BY <1>2, <2>1, <2>2, <2>3, <2>4, <2>5, <2>6
<1> USE <1>1, <1>2, <1>3, NoneElse DEF SaveInv, SaverTyped, SaverRecord, DirectoryTyped, Stays, Held
<1>4. LookedAt' BY DEF LookedAt
<1>5. Still' BY DEF Still, Undisturbed, NewFile
<1>6. Controlled' BY DEF Controlled, BeforeCapture, WithOutput
<1>7. TempTracked'
  BY DEF TempTracked, Still, Undisturbed, Controlled, BeforeCapture, WithOutput
<1>8. OutputTracked'
  BY DEF OutputTracked, Still, Undisturbed, Controlled, Cleaned, NotSaving, BeforeCapture, WithOutput
<1>9. OutcomeTrue' BY DEF OutcomeTrue, Controlled, Undisturbed
<1>10. Bytes' BY DEF Bytes, Good, Controlled, BeforeCapture, WithOutput, NewFile
<1>11. Provenance' BY DEF Provenance, Writing, Controlled, BeforeCapture
<1> QED BY <1>4, <1>5, <1>6, <1>7, <1>8, <1>9, <1>10, <1>11

----------------------------------------------------------------------------
(* Others, and the whole. *)

(* What other processes do in the directory disturbs, and is not held against
   the saver. *)
LEMMA OthersKeep ==
  ASSUME SaveInv, Others PROVE SaveInv'
<1>1. SaverTyped /\ DirectoryTyped /\ Controlled /\ d.pc \notin {"idle", "source", "hash", "close", "done"}
  BY DEF SaveInv, Others, OtherUnlinks, OtherReplaces, OtherWrites, OtherOpensUp, OtherReplacesDirectory, Other
<1>2. UNCHANGED <<q, r, d, ext>> /\ \E b \in BOOLEAN :
        /\ seen' = [seen EXCEPT !.others = @ + 1, !.blind = @ \/ b]
        /\ \/ UNCHANGED con /\ \E n \in {"tmp", "out"} :
                \/ fs' = [fs EXCEPT ![n] = None]
                \/ (fs' = [fs EXCEPT ![n] = "other"]) /\ b = (d.pc = "drop" /\ d.rm = n)
           \/ UNCHANGED fs /\ \E o \in Ours :
                \/ (con' = [con EXCEPT ![o].data = "bad", ![o].touched = TRUE])
                   /\ b = (d.pc = "evidence" \/ (o = "copy" /\ d.pc \in {"copy", "copystat"}))
                \/ con' = [con EXCEPT ![o].private = FALSE]
           \/ UNCHANGED con /\ fs' = [fs EXCEPT !.moved = TRUE]
  BY Zenon DEF Others, OtherUnlinks, OtherReplaces, OtherWrites, OtherOpensUp, OtherReplacesDirectory, Other, source
<1>3. PICK b \in BOOLEAN :
        /\ seen' = [seen EXCEPT !.others = @ + 1, !.blind = @ \/ b]
        /\ \/ UNCHANGED con /\ \E n \in {"tmp", "out"} :
                \/ fs' = [fs EXCEPT ![n] = None]
                \/ (fs' = [fs EXCEPT ![n] = "other"]) /\ b = (d.pc = "drop" /\ d.rm = n)
           \/ UNCHANGED fs /\ \E o \in Ours :
                \/ (con' = [con EXCEPT ![o].data = "bad", ![o].touched = TRUE])
                   /\ b = (d.pc = "evidence" \/ (o = "copy" /\ d.pc \in {"copy", "copystat"}))
                \/ con' = [con EXCEPT ![o].private = FALSE]
           \/ UNCHANGED con /\ fs' = [fs EXCEPT !.moved = TRUE] BY <1>2
<1>4. /\ seen' \in [others : Nat, blind : BOOLEAN, harmed : BOOLEAN, kept : BOOLEAN]
      /\ seen'.others = seen.others + 1 /\ seen'.harmed = seen.harmed /\ (seen.blind \/ b => seen'.blind)
 <2> DEFINE c == seen.blind \/ b
 <2>1. c \in BOOLEAN /\ (seen.blind \/ b => c) /\ seen' = [seen EXCEPT !.others = @ + 1, !.blind = c]
   BY <1>3
 <2> HIDE DEF c
 <2>2. seen \in [others : Nat, blind : BOOLEAN, harmed : BOOLEAN, kept : BOOLEAN]
   BY <1>1 DEF DirectoryTyped
 <2>3. seen.others \in Nat /\ seen.others + 1 \in Nat BY <2>2
 <2>4. seen'.others = seen.others + 1 /\ seen'.harmed = seen.harmed /\ seen'.blind = c
   BY <2>1, <2>2
 <2>5. seen' \in [others : Nat, blind : BOOLEAN, harmed : BOOLEAN, kept : BOOLEAN]
   BY <2>1, <2>2, <2>3
 <2> QED BY <2>1, <2>4, <2>5
<1>5. /\ fs' \in [tmp : {None, "temp", "other"}, out : Ours \cup {None, "other"}, moved : BOOLEAN, links : BOOLEAN]
      /\ con' \in [Ours -> Contents]
      /\ \A n \in {"tmp", "out"} : fs'[n] = "other" => fs[n] = "other" \/ (d.pc = "drop" /\ d.rm = n => b)
      /\ \A o \in Ours :
           \/ con'[o].data = con[o].data /\ con'[o].touched = con[o].touched
           \/ con'[o].touched /\ (d.pc = "evidence" \/ (o = "copy" /\ d.pc \in {"copy", "copystat"}) => b)
 <2>1. CASE UNCHANGED con /\ \E n \in {"tmp", "out"} :
               \/ fs' = [fs EXCEPT ![n] = None]
               \/ (fs' = [fs EXCEPT ![n] = "other"]) /\ b = (d.pc = "drop" /\ d.rm = n)
   BY <1>1, <2>1, NoneElse DEF DirectoryTyped, Contents
 <2>2. CASE UNCHANGED fs /\ \E o \in Ours :
               \/ (con' = [con EXCEPT ![o].data = "bad", ![o].touched = TRUE])
                  /\ b = (d.pc = "evidence" \/ (o = "copy" /\ d.pc \in {"copy", "copystat"}))
               \/ con' = [con EXCEPT ![o].private = FALSE]
  <3>1. ASSUME NEW o \in Ours, con' = [con EXCEPT ![o].data = "bad", ![o].touched = TRUE],
               b = (d.pc = "evidence" \/ (o = "copy" /\ d.pc \in {"copy", "copystat"}))
        PROVE  /\ con' \in [Ours -> Contents]
               /\ \A w \in Ours :
                    \/ con'[w].data = con[w].data /\ con'[w].touched = con[w].touched
                    \/ con'[w].touched /\ (d.pc = "evidence" \/ (w = "copy" /\ d.pc \in {"copy", "copystat"}) => b)
   <4> DEFINE y == [con[o] EXCEPT !.data = "bad", !.touched = TRUE]
   <4>1. con \in [Ours -> Contents] /\ con[o] \in Contents BY <1>1 DEF DirectoryTyped
   <4>2. y \in Contents /\ y.touched BY <4>1 DEF Contents
   <4>3. con' = [con EXCEPT ![o] = y] BY <3>1
   <4> HIDE DEF y
   <4> QED BY <3>1, <4>1, <4>2, <4>3
  <3>2. ASSUME NEW o \in Ours, con' = [con EXCEPT ![o].private = FALSE]
        PROVE  /\ con' \in [Ours -> Contents]
               /\ \A w \in Ours : con'[w].data = con[w].data /\ con'[w].touched = con[w].touched
   <4> DEFINE y == [con[o] EXCEPT !.private = FALSE]
   <4>1. con \in [Ours -> Contents] /\ con[o] \in Contents BY <1>1 DEF DirectoryTyped
   <4>2. y \in Contents /\ y.data = con[o].data /\ y.touched = con[o].touched
     BY <4>1 DEF Contents
   <4>3. con' = [con EXCEPT ![o] = y] BY <3>2
   <4> HIDE DEF y
   <4> QED BY <3>2, <4>1, <4>2, <4>3
  <3> QED BY <1>1, <2>2, <3>1, <3>2 DEF DirectoryTyped
 <2>3. CASE UNCHANGED con /\ fs' = [fs EXCEPT !.moved = TRUE] BY <1>1, <2>3 DEF DirectoryTyped
 <2> QED BY <1>3, <2>1, <2>2, <2>3
<1>6. SaverTyped' /\ DirectoryTyped' BY <1>1, <1>2, <1>4, <1>5 DEF SaverTyped, DirectoryTyped
<1>7. Still' /\ TempTracked' /\ OutputTracked'
  BY <1>1, <1>4 DEF Still, TempTracked, OutputTracked, Undisturbed, DirectoryTyped
<1>8. Controlled' /\ Provenance' BY <1>2 DEF SaveInv, Controlled, Provenance
<1>9. LookedAt' BY <1>2, <1>4, <1>5 DEF SaveInv, LookedAt
<1>10. OutcomeTrue' BY <1>1, <1>2, NoneElse DEF Controlled, OutcomeTrue
<1>11. Bytes' BY <1>1, <1>2, <1>4, <1>5 DEF SaveInv, Bytes, Good, Ours
<1> QED BY <1>6, <1>7, <1>8, <1>9, <1>10, <1>11 DEF SaveInv

(* What Mail does with its file shows in the saver only as bytes that differ. *)
LEMMA MailChangesFileKeeps ==
  ASSUME SaveInv, MailChangesFile PROVE SaveInv'
<1>1. SaverTyped /\ DirectoryTyped BY DEF SaveInv
<1>2. UNCHANGED <<q, r, fs, con, seen>> BY DEF MailChangesFile
<1>3. \/ (ext' = [ext EXCEPT !.mtime = @ + 1])
         /\ d' = [d EXCEPT !.dirty = (d.pc = "write" /\ ext.ino = d.pin.ino)]
      \/ UNCHANGED d /\ \E st \in {"none", "one", "many"} : ext' = [ext EXCEPT !.st = st, !.ino = @ + 1]
  BY DEF MailChangesFile
<1>4. /\ d' \in SaverRecord /\ d'.pc = d.pc /\ Stays({"dirty"})
      /\ ext' \in Attachments
 <2>1. CASE (ext' = [ext EXCEPT !.mtime = @ + 1])
            /\ d' = [d EXCEPT !.dirty = (d.pc = "write" /\ ext.ino = d.pin.ino)]
  <3> DEFINE b == d.pc = "write" /\ ext.ino = d.pin.ino
  <3>1. b \in BOOLEAN /\ d' = [d EXCEPT !.dirty = b] BY <2>1
  <3> HIDE DEF b
  <3>2. d' \in SaverRecord /\ d'.pc = d.pc /\ Stays({"dirty"})
    BY <1>1, <3>1 DEF SaverTyped, SaverRecord, Stays, Held
  <3>3. ext' \in Attachments BY <1>1, <2>1 DEF DirectoryTyped, Attachments
  <3> QED BY <3>2, <3>3
 <2>2. CASE UNCHANGED d /\ \E st \in {"none", "one", "many"} : ext' = [ext EXCEPT !.st = st, !.ino = @ + 1]
  <3>1. d' \in SaverRecord /\ d'.pc = d.pc /\ Stays({"dirty"})
    BY <1>1, <2>2 DEF SaverTyped, Stays, Held
  <3>2. PICK st \in {"none", "one", "many"} : ext' = [ext EXCEPT !.st = st, !.ino = @ + 1]
    BY <2>2
  <3>3. ext \in Attachments /\ ext.ino + 1 \in Nat BY <1>1 DEF DirectoryTyped, Attachments
  <3>4. ext' \in Attachments BY <3>2, <3>3 DEF Attachments
  <3> QED BY <3>1, <3>4
 <2> QED BY <1>3, <2>1, <2>2
<1>5. SaverTyped' /\ DirectoryTyped' BY <1>1, <1>2, <1>4 DEF SaverTyped, DirectoryTyped
<1>6. LookedAt' /\ Still' /\ Controlled'
  BY <1>2, <1>4 DEF SaveInv, LookedAt, Still, Undisturbed, Controlled, Stays, Held
<1>7. TempTracked' /\ OutputTracked'
  BY <1>2, <1>4 DEF SaveInv, TempTracked, OutputTracked, Undisturbed, Cleaned, NotSaving, Stays, Held
<1>8. OutcomeTrue' /\ Bytes' /\ Provenance'
  BY <1>2, <1>4 DEF SaveInv, OutcomeTrue, Undisturbed, Bytes, Good, Provenance, Stays, Held
<1> QED BY <1>5, <1>6, <1>7, <1>8 DEF SaveInv

(* A reader that has not begun, or whose bytes are being written, does not
   move by itself. *)
LEMMA ReaderWaits ==
  ASSUME ReadInv, q.kind = "save", ReadStep PROVE r["a"].pc \notin {"idle", "write"}
<1>1. DOMAIN r = {"a"} BY SaveReader
<1>2. CASE NextChunk \/ Deadline \/ ListAgain \/ \E v \in 0..2 : FetchGroup(v)
  BY <1>1, <1>2 DEF NextChunk, Deadline, ListAgain, PageDone, FetchGroup
<1>3. ASSUME NEW p \in DOMAIN r,
             \/ Resolve(p) \/ OpenFile(p) \/ CheckRow(p) \/ UseSource(p) \/ UseExcerpt(p)
             \/ TargetRow(p) \/ Validity(p) \/ Identify(p) \/ Search(p) \/ Fetch(p) \/ ServerFails(p)
             \/ Membership(p) \/ LocalRow(p) \/ ReadFlags(p)
      PROVE  r["a"].pc \notin {"idle", "write"}
  BY <1>1, <1>3 DEF Resolve, OpenFile, CheckRow, UseSource, UseExcerpt, TargetRow, Validity, Identify, Search,
     Fetch, ServerFails, Membership, LocalRow, ReadFlags, At
<1> QED BY <1>2, <1>3 DEF ReadStep

(* What happens to the reading does not disturb the saver. *)
LEMMA ReadingKeepsSave ==
  ASSUME ReadInv, SaveInv, UNCHANGED saving, UNCHANGED q, UNCHANGED r \/ ReadStep PROVE SaveInv'
<1>1. UNCHANGED <<d, fs, con, ext, seen>> BY DEF saving
<1>2. /\ SaverTyped' /\ DirectoryTyped' /\ LookedAt' /\ Still' /\ Controlled' /\ TempTracked' /\ OutputTracked'
      /\ OutcomeTrue' /\ Bytes'
  BY <1>1 DEF SaveInv, SaverTyped, DirectoryTyped, LookedAt, Still, Undisturbed, Controlled, TempTracked,
              OutputTracked, Cleaned, NotSaving, OutcomeTrue, Bytes, Good
<1>3. Provenance'
  BY <1>1, ReaderWaits DEF SaveInv, Provenance, Controlled, BeforeCapture, Writing
<1> QED BY <1>2, <1>3 DEF SaveInv

(* A step of the saver preserves both invariants. *)
LEMMA SaveKeeps ==
  ASSUME ReadInv, SaveInv, Save PROVE ReadInv' /\ SaveInv'
<1>1. CASE UseStored \/ UseMaterialized
 <2>1. q.kind = "save" BY <1>1 DEF UseStored, UseMaterialized, Saver, SaveInv, Provenance
 <2> QED BY <1>1, <2>1, UseStoredDoes, UseMaterializedDoes, UseStoredKeeps, UseMaterializedKeeps
<1>2. CASE OpenPublication BY <1>2, OpenPublicationReads, OpenPublicationKeeps
<1>3. CASE \/ SourceEnds \/ HashFile \/ CreateTemp \/ WriteTemp \/ VerifyTemp \/ TakeEvidence \/ RecheckFile
           \/ UndoWrite \/ CaptureTemp \/ CheckTemp \/ LinkOutput \/ OpenOutput \/ CreateCopy
           \/ CopyBytes \/ StatCopy \/ CheckOutput \/ Chmod \/ RecheckTemp \/ CleanOutput \/ CleanTemp
           \/ Drop \/ Outcome \/ CloseFiles \/ CallFails
 <2>1. UNCHANGED <<q, srv, idx, r, cache, page, torn>>
   BY <1>3 DEF SourceEnds, HashFile, CreateTemp, WriteTemp, VerifyTemp, TakeEvidence, RecheckFile,
      UndoWrite, CaptureTemp, CheckTemp, LinkOutput, OpenOutput, CreateCopy, CopyBytes, StatCopy,
      CheckOutput, Chmod, RecheckTemp, CleanOutput, CleanTemp, Drop, Outcome, CloseFiles, CallFails, Saver, Keeps
 <2>2. SaveInv'
   BY <1>3, SourceEndsKeeps, HashFileKeeps, CreateTempKeeps, WriteTempKeeps, VerifyTempKeeps,
      TakeEvidenceKeeps, RecheckFileKeeps, UndoWriteKeeps, CaptureTempKeeps, CheckTempKeeps, LinkOutputKeeps,
      OpenOutputKeeps, CreateCopyKeeps, CopyBytesKeeps, StatCopyKeeps, CheckOutputKeeps, ChmodKeeps,
      RecheckTempKeeps, CleanOutputKeeps, CleanTempKeeps, DropKeeps, OutcomeKeeps, CloseFilesKeeps, CallFailsKeeps
 <2> QED BY <2>1, <2>2, ReadInvStays
<1> QED BY <1>1, <1>2, <1>3 DEF Save

(* Every step preserves both invariants. *)
LEMMA SaveStepKeeps ==
  ASSUME ReadInv, SaveInv, [SaveNext]_<<source, saving>> PROVE ReadInv' /\ SaveInv'
<1>1. CASE ReadStep /\ UNCHANGED saving
 <2>1. UNCHANGED q
   BY <1>1 DEF ReadStep, Resolve, OpenFile, CheckRow, UseSource, UseExcerpt, TargetRow, Validity, Identify, Search,
      Fetch, ServerFails, Membership, LocalRow, ReadFlags, Quiet, NextChunk, FetchGroup, Deadline, ListAgain
 <2> QED BY <1>1, <2>1, ReadStepKeeps, ReadingKeepsSave
<1>2. CASE Environment /\ UNCHANGED saving
 <2>1. UNCHANGED <<q, r>>
   BY <1>2 DEF Environment, Renumber, Resync, InfoChanges, ServerExpunges, RowChanges, FileChanges
 <2> QED BY <1>2, <2>1, EnvironmentKeeps, ReadingKeepsSave
<1>3. CASE Others
 <2>1. UNCHANGED <<q, srv, idx, r, cache, page, torn>>
   BY <1>3 DEF Others, OtherUnlinks, OtherReplaces, OtherWrites, OtherOpensUp, OtherReplacesDirectory, Other, source
 <2> QED BY <1>3, <2>1, OthersKeep, ReadInvStays
<1>4. CASE MailChangesFile
 <2>1. UNCHANGED <<q, srv, idx, r, cache, page, torn>> BY <1>4 DEF MailChangesFile
 <2> QED BY <1>4, <2>1, MailChangesFileKeeps, ReadInvStays
<1>5. CASE UNCHANGED <<source, saving>>
  BY <1>5, ReadInvStays, ReadingKeepsSave DEF source, saving
<1> QED BY <1>1, <1>2, <1>3, <1>4, <1>5, SaveKeeps DEF SaveNext

(* A reader of one message as a session starts it: nothing is read, or the
   FETCH of a server reference is next. *)
LEMMA FirstReaderSound ==
  ASSUME NEW s \in Session, Sensible(s), s.kind # "page", NEW v \in {0, 1}, NEW i \in {None, Rfc(s.id, "a")}
  PROVE  LET x == IF s.kind = "server"
                  THEN [NewReader(Ref("a", 1, None)) EXCEPT !.pc = "fetch", !.uid = 1, !.v = 1]
                  ELSE [NewReader(Ref("a", v, i)) EXCEPT !.pc = IF s.kind = "save" THEN "idle" ELSE "resolve"]
         IN  /\ x \in Reader /\ x.ref.m = "a" /\ Sound(x, s, 1, FALSE)
             /\ s.kind = "save" => x.pc = "idle"
<1> DEFINE w == Ref("a", 1, None)
           u == Ref("a", v, i)
<1>1. /\ w \in RefType /\ w.m = "a" /\ w.uid = 1 /\ w.v = 1 /\ w.id = None
      /\ u \in RefType /\ u.m = "a" /\ u.uid = 1 /\ u.v = v /\ u.id = i
  BY DEF Ref, RefType, Ids, Rfc, First, Msg, Uid
<1> HIDE DEF w, u
<1>2. CASE s.kind = "server"
 <2> DEFINE n == NewReader(w)
            x == [n EXCEPT !.pc = "fetch", !.uid = 1, !.v = 1]
 <2>1. /\ n \in Reader /\ n.ref = w /\ n.key = None /\ n.id = None /\ n.got = None /\ n.complete = FALSE
       /\ n.err = FALSE /\ n.from = None /\ n.local = None BY <1>1, NewReaderIs
 <2> HIDE DEF n
 <2>2. x \in Reader
  <3> DEFINE y == [n EXCEPT !.pc = "fetch"]
             z == [y EXCEPT !.uid = 1]
  <3>1. y \in Reader BY <2>1 DEF Reader, ReaderSteps
  <3>2. x = [z EXCEPT !.v = 1] OBVIOUS
  <3> HIDE DEF y, x
  <3>3. z \in Reader BY <3>1 DEF Reader
  <3> HIDE DEF z
  <3> QED BY <3>2, <3>3 DEF Reader
 <2>3. x.pc = "fetch" /\ x.uid = 1 /\ x.v = 1 BY <2>1 DEF Reader
 <2>4. \A f \in {"ref", "key", "id", "got", "complete", "err", "from", "local"} : x[f] = n[f]
   BY <2>1 DEF Reader
 <2> HIDE DEF x
 <2>5. /\ x.ref = w /\ x.key = None /\ x.id = None /\ x.got = None /\ x.complete = FALSE
       /\ x.err = FALSE /\ x.from = None /\ x.local = None BY <2>1, <2>4
 <2>6. RefRight(x, s) /\ Untouched(x) /\ StepRight(x, s) /\ AnswerWhole(x, s)
   BY <1>1, <1>2, <2>3, <2>5, PlacedIs DEF RefRight, Untouched, StepRight, AnswerWhole, Answered
 <2>7. AnswerRight(x, s, FALSE) /\ TargetRight(x, s, 1, FALSE)
   BY <1>1, <2>3, <2>5, PlacedIs, AlikeIs DEF AnswerRight, TargetRight
 <2>8. x \in Reader /\ x.ref.m = "a" /\ Sound(x, s, 1, FALSE)
   BY <1>1, <2>2, <2>5, <2>6, <2>7 DEF Sound, Known
 <2> QED BY <1>2, <2>8 DEF x, n, w
<1>3. CASE s.kind # "server"
 <2> DEFINE n == NewReader(u)
            p == IF s.kind = "save" THEN "idle" ELSE "resolve"
            x == [n EXCEPT !.pc = p]
 <2>1. /\ n \in Reader /\ n.ref = u /\ n.key = None /\ n.id = None /\ n.got = None /\ n.complete = FALSE
       /\ n.err = FALSE /\ n.from = None /\ n.local = None /\ n.uid = 0 /\ n.v = 0
   BY <1>1, NewReaderIs
 <2>2. (p = "idle" /\ s.kind = "save") \/ (p = "resolve" /\ s.kind = "read")
   BY <1>3 DEF Session
 <2> HIDE DEF n, p
 <2>3. /\ x \in Reader /\ x.ref = u /\ x.key = None /\ x.id = None /\ x.got = None /\ x.complete = FALSE
       /\ x.err = FALSE /\ x.from = None /\ x.local = None /\ x.uid = 0 /\ x.v = 0 /\ x.pc = p
   BY <2>1, <2>2 DEF Reader, ReaderSteps
 <2> HIDE DEF x
 <2>4. x.ref.v = 1 => Placed(1, x.ref.uid) = x.ref.m BY <1>1, <2>3, PlacedIs
 <2>5. x.ref.id \in {None, Rfc(s.id, x.ref.m)} BY <1>1, <2>3
 <2>6. Sound(x, s, 1, FALSE) BY <2>2, <2>3, <2>4, <2>5, NewReaderSound
 <2> QED BY <1>1, <1>3, <2>2, <2>3, <2>6 DEF x, n, u, p
<1> QED BY <1>2, <1>3

(* A session starts with the invariant of the reading. *)
LEMMA ReadInitInv == ReadInit => ReadInv
<1> SUFFICES ASSUME ReadInit PROVE ReadInv OBVIOUS
<1>1. /\ q \in Session /\ Sensible(q) /\ torn = FALSE /\ cache = {}
      /\ srv = [v |-> 1, at |-> [u \in Uid |-> Mail(u)]]
      /\ idx = [at |-> [m \in Msg |-> "here"], uid |-> First, v |-> 1]
  BY DEF ReadInit, Sessions, Session
<1>2. \A u \in Uid : Mail(u) \in Msg /\ Mail(u) = Placed(1, u)
  BY PlacedIs DEF Uid, Msg, Placed
<1>3. First \in [Msg -> Uid] /\ \A m \in Msg : Placed(1, First[m]) = m
  BY PlacedIs DEF First, Msg, Uid
<1>4. StoreTyped /\ ServerPlaced /\ IndexPlaced /\ CacheSound
  BY <1>1, <1>2, <1>3 DEF StoreTyped, ServerPlaced, IndexPlaced, CacheSound
<1>5. CASE q.kind = "page"
 <2> DEFINE x(m) == NewReader(Ref(m, 0, None))
 <2>1. r = [m \in Msg |-> x(m)] /\ page = [chunk |-> 0, spent |-> 0, round |-> 1]
   BY <1>5 DEF ReadInit
 <2>2. ASSUME NEW m \in Msg
       PROVE  /\ r[m] \in Reader /\ r[m].ref.m = m /\ r[m].pc = "idle" /\ Charge(r[m]) = 0
              /\ Sound(r[m], q, idx.v, torn)
  <3> DEFINE w == Ref(m, 0, None)
             n == NewReader(w)
  <3>1. w \in RefType /\ w.m = m /\ w.v = 0 /\ w.id = None BY <1>3 DEF Ref, RefType, Ids
  <3> HIDE DEF w
  <3>2. /\ n \in Reader /\ n.ref = w /\ n.pc = "idle" /\ n.key = None /\ n.id = None /\ n.uid = 0 /\ n.v = 0
        /\ n.got = None /\ n.complete = FALSE /\ n.err = FALSE /\ n.from = None /\ n.local = None /\ Charge(n) = 0
    BY <3>1, NewReaderIs
  <3> HIDE DEF n
  <3>3. /\ n.pc = "idle" /\ q.kind \in {"page", "save"}
        /\ n.ref.v = 1 => Placed(1, n.ref.uid) = n.ref.m
        /\ n.ref.id \in {None, Rfc(q.id, n.ref.m)} BY <1>5, <3>1, <3>2
  <3>4. Sound(n, q, idx.v, torn) BY <3>2, <3>3, NewReaderSound
  <3>5. r[m] = n BY <2>1 DEF n, w
  <3> QED BY <3>1, <3>2, <3>4, <3>5
 <2>3. SessionTyped /\ ReadersSound BY <1>1, <1>5, <2>1, <2>2 DEF SessionTyped, ReadersSound
 <2>4. \A S : TookOf(r, S) = 0 BY <2>2 DEF TookOf, Msg
 <2>5. \A m \in Msg : RowPaid(r, m, 0) BY <2>2, ChunkIs DEF RowPaid
 <2>6. PageTyped /\ BudgetInv BY <1>5, <2>1, <2>4, <2>5 DEF PageTyped, BudgetInv, PageSound
 <2> QED BY <1>4, <2>3, <2>6 DEF ReadInv
<1>6. CASE q.kind # "page"
 <2>1. page = [chunk |-> 0, spent |-> 0, round |-> 0] BY <1>6 DEF ReadInit
 <2>2. PICK v \in {0, 1}, i \in {None, RfcId("a")} :
         r = [m \in {"a"} |->
                IF q.kind = "server"
                THEN [NewReader(Ref("a", 1, None)) EXCEPT !.pc = "fetch", !.uid = 1, !.v = 1]
                ELSE [NewReader(Ref("a", v, i)) EXCEPT !.pc = IF q.kind = "save" THEN "idle" ELSE "resolve"]]
   BY <1>6 DEF ReadInit
 <2>3. i \in {None, Rfc(q.id, "a")} BY SameIsAlike
 <2>4. DOMAIN r = {"a"} /\ r["a"] \in Reader /\ r["a"].ref.m = "a" /\ Sound(r["a"], q, 1, FALSE)
   BY ZenonT(60), <1>1, <1>6, <2>2, <2>3, FirstReaderSound
 <2>5. r = [m \in {"a"} |-> r["a"]] BY <2>2
 <2>6. SessionTyped BY <1>1, <1>6, <2>4, <2>5 DEF SessionTyped
 <2>7. ReadersSound BY <1>1, <2>4 DEF ReadersSound
 <2>8. PageTyped /\ BudgetInv BY <1>6, <2>1 DEF PageTyped, BudgetInv
 <2> QED BY <1>4, <2>6, <2>7, <2>8 DEF ReadInv
<1> QED BY <1>5, <1>6

(* A save starts with the invariant of the saving. *)
LEMMA SaveInitInv == SaveInit => SaveInv
<1> SUFFICES ASSUME SaveInit PROVE SaveInv OBVIOUS
<1>1. /\ d = [pc |-> "idle", from |-> None, pin |-> None, dirty |-> FALSE, rm |-> None,
              captured |-> FALSE, out |-> None, owned |-> FALSE, published |-> FALSE,
              retain |-> FALSE, err |-> FALSE, certainty |-> None]
      /\ con = [o \in Ours |-> NewFile]
      /\ seen = [others |-> 0, blind |-> FALSE, harmed |-> FALSE, kept |-> FALSE]
  BY DEF SaveInit
<1>2. SaverTyped BY <1>1 DEF SaverTyped, SaverRecord, SaverSteps
<1>3. \E o \in {None, "other"}, l \in BOOLEAN : fs = [tmp |-> None, out |-> o, moved |-> FALSE, links |-> l]
  BY DEF SaveInit
<1>4. ext \in Attachments BY DEF SaveInit, Attachments
<1>5. NewFile \in Contents /\ ~NewFile.touched /\ NewFile.private BY DEF NewFile, Contents
<1>6. /\ fs \in [tmp : {None, "temp", "other"}, out : Ours \cup {None, "other"}, moved : BOOLEAN, links : BOOLEAN]
      /\ fs.tmp = None /\ ~fs.moved BY <1>3
<1>7. DirectoryTyped BY <1>1, <1>4, <1>5, <1>6 DEF DirectoryTyped
<1>8. LookedAt /\ Still /\ Controlled
  BY <1>1, <1>5, <1>6, NoneElse DEF LookedAt, Still, Controlled, BeforeCapture, WithOutput
<1>9. TempTracked /\ OutputTracked /\ OutcomeTrue /\ Bytes
  BY <1>1, <1>6, NoneElse DEF TempTracked, OutputTracked, NotSaving, OutcomeTrue, Bytes
<1>10. Provenance
 <2>1. CASE q.kind = "save"
  <3>1. PICK v \in {0, 1}, i \in {None, RfcId("a")} :
          r = [m \in {"a"} |->
                 IF q.kind = "server"
                 THEN [NewReader(Ref("a", 1, None)) EXCEPT !.pc = "fetch", !.uid = 1, !.v = 1]
                 ELSE [NewReader(Ref("a", v, i)) EXCEPT !.pc = IF q.kind = "save" THEN "idle" ELSE "resolve"]]
    BY <2>1 DEF SaveInit, ReadInit
  <3>2. q \in Session /\ Sensible(q) /\ i \in {None, Rfc(q.id, "a")} /\ q.kind # "page"
    BY SMTT(30), <2>1, SameIsAlike DEF SaveInit, ReadInit, Sessions, Session
  <3>3. r["a"].pc = "idle" BY ZenonT(60), <2>1, <3>1, <3>2, FirstReaderSound
  <3> QED BY <1>1, <3>3 DEF Provenance, Writing
 <2>2. CASE q.kind # "save" BY <1>1, <2>2 DEF Provenance, Writing
 <2> QED BY <2>1, <2>2
<1> QED BY <1>2, <1>7, <1>8, <1>9, <1>10 DEF SaveInv
----------------------------------------------------------------------------
(* What the invariants say of the run's properties. *)

(* What is read is right, whole and paid for. *)
LEMMA ReadInvSound == ReadInv => ReadSound
<1> SUFFICES ASSUME ReadInv PROVE ReadSound OBVIOUS
<1>1. ASSUME NEW p \in DOMAIN r PROVE AnswerRight(r[p], q, torn) /\ AnswerWhole(r[p], q)
  BY ReaderIs DEF Sound, Known
<1>2. RightMessage
 <2>1. torn \/ SourceRight BY <1>1, SameIsAlike DEF SourceRight, AnswerRight
 <2>2. torn \/ LocalRefRight BY <1>1, SameIsAlike DEF LocalRefRight, AnswerRight
 <2>3. torn \/ ExcerptRight BY SameIsAlike DEF ReadInv, CacheSound, ExcerptRight
 <2> QED BY <2>1, <2>2, <2>3 DEF RightMessage
<1>3. NothingHalf BY <1>1 DEF NothingHalf, AnswerWhole
<1>4. BudgetHeld
 <2> SUFFICES ASSUME q.kind = "page", NEW m \in Msg, Charge(r[m]) > 0
              PROVE  Took({n \in Msg : ChunkOf(n) < ChunkOf(m)}) < Budget BY DEF BudgetHeld
 <2>1. TookOf(r, UpTo(ChunkOf(m))) < Budget BY DEF ReadInv, BudgetInv, PageSound, RowPaid
 <2>2. Took(UpTo(ChunkOf(m))) = TookOf(r, UpTo(ChunkOf(m))) BY TookIs
 <2> QED BY <2>1, <2>2 DEF UpTo
<1> QED BY <1>2, <1>3, <1>4 DEF ReadSound

(* What is reported as saved is. *)
LEMMA SaveInvTrue == ReadInv /\ SaveInv => SavedTrue
<1> SUFFICES ASSUME ReadInv, SaveInv, Saved PROVE SavedTrue BY DEF SavedTrue
<1>1. d.pc = "done" /\ d.certainty # None /\ d.certainty \in {"complete", "none", "unknown"}
  BY DEF Saved, SaveInv, SaverTyped, SaverRecord
<1>2. d.published => q.kind = "save" /\ r["a"].got # None /\ (torn \/ Same(r["a"].got, "a"))
 <2> SUFFICES ASSUME d.published PROVE q.kind = "save" /\ r["a"].got # None /\ (torn \/ Same(r["a"].got, "a"))
   OBVIOUS
 <2>1. q.kind = "save" /\ r["a"].pc = "write" BY <1>1 DEF SaveInv, Provenance
 <2>2. StepRight(r["a"], q) /\ AnswerRight(r["a"], q, torn) /\ r["a"].ref.m = "a"
   BY <2>1, SaveReader DEF Sound, Known
 <2>3. r["a"].got # None BY <2>1, <2>2 DEF StepRight
 <2> QED BY <2>1, <2>2, <2>3, SameIsAlike DEF AnswerRight
<1>3. d.certainty = "complete" =>
        /\ d.published /\ fs.out \in Ours /\ fs.out = d.out /\ ~fs.moved
        /\ con[d.out].private /\ (con[d.out].data = "good" \/ seen.blind)
  BY DEF SaveInv, OutcomeTrue, SaverTyped, SaverRecord
<1>4. d.certainty = "none" => fs.out = None BY DEF SaveInv, OutcomeTrue
<1>5. ~d.err => d.certainty = "complete" BY <1>1 DEF SaveInv, OutcomeTrue
<1> QED BY <1>2, <1>3, <1>4, <1>5 DEF SavedTrue

(* A save takes back what it made, and nothing else. *)
LEMMA SaveInvClean == SaveInv => CleanupSound
<1> SUFFICES ASSUME SaveInv PROVE CleanupSound OBVIOUS
<1>1. ForeignKept BY DEF SaveInv, LookedAt, ForeignKept
<1>2. NothingLeft
 <2> SUFFICES ASSUME Saved, seen.others = 0, ~seen.kept
              PROVE  fs.tmp = None /\ (d.certainty # "complete" => fs.out = None)
   BY DEF NothingLeft
 <2>1. d.pc = "done" /\ d.certainty # None /\ d.certainty \in {"complete", "none", "unknown"}
   BY DEF Saved, SaveInv, SaverTyped, SaverRecord
 <2>2. fs.tmp = None BY <2>1 DEF SaveInv, TempTracked, Undisturbed
 <2>3. d.certainty # "complete" => fs.out = None BY <2>1 DEF SaveInv, OutcomeTrue, Undisturbed
 <2> QED BY <2>2, <2>3
<1> QED BY <1>1, <1>2 DEF CleanupSound
----------------------------------------------------------------------------
(* Every value the variables take is of its type, every reader goes by the
   identity of its message, and the saver knows what it owns and what is left
   of it (MessageSource, AttachmentSave: the inductive invariants). *)
THEOREM SavingInvariant == SaveSpec => [](ReadInv /\ SaveInv)
<1>1. SaveInit => ReadInv /\ SaveInv BY ReadInitInv, SaveInitInv DEF SaveInit
<1>2. ReadInv /\ SaveInv /\ [SaveNext]_<<source, saving>> => (ReadInv /\ SaveInv)'
  BY SaveStepKeeps
<1> QED BY <1>1, <1>2, PTL DEF SaveSpec

(* What Client.GetMessage, Client.EnrichMessages and a save read is of the
   message asked for, whole if it is said to be, and within the page's budget. *)
THEOREM ReadIsSound == SaveSpec => []ReadSound
<1>1. ReadInv /\ SaveInv => ReadSound BY ReadInvSound
<1> QED BY <1>1, SavingInvariant, PTL

(* What SaveAttachment reports as complete is the private, verified file of the
   right message; an effect reported as none left nothing. *)
THEOREM SavedIsTrue == SaveSpec => []SavedTrue
<1>1. ReadInv /\ SaveInv => SavedTrue BY SaveInvTrue
<1> QED BY <1>1, SavingInvariant, PTL

(* The cleanup of a save removes no file of another process but one that takes
   the name after it was looked at, and an undisturbed save leaves nothing. *)
THEOREM CleanupIsSound == SaveSpec => []CleanupSound
<1>1. ReadInv /\ SaveInv => CleanupSound BY SaveInvClean
<1> QED BY <1>1, SavingInvariant, PTL
----------------------------------------------------------------------------
(* The lock-file protocol of the draft lease: the inductive invariant       *)
(* LeaseInv, the exclusivity it implies, and the two action-level facts     *)
(* that follow from it.                                                     *)
HIDE SourceAssumption
USE LeaseAssumption

(* Closing a descriptor preserves everything but the closed process. *)
LEMMA ClosePreserves ==
  ASSUME LeaseInv, NEW p \in Procs, Close(p), doc' = doc,
         path' = path \/ (path' = NoInode /\ pc[p] = "sweepUnlink")
  PROVE  LeaseInv'
<1> USE DEF LeaseInv, TypeOK, FlockOnDescriptor, DescriptorOpen, HoldersLocked,
            ComparedNamed, Close, Goto, Holding, States
<1>1. TypeOK' OBVIOUS
<1>2. FlockOnDescriptor' OBVIOUS
<1>3. DescriptorOpen' OBVIOUS
<1>4. HoldersLocked' OBVIOUS
<1>5. ComparedNamed' OBVIOUS
<1> QED BY <1>1, <1>2, <1>3, <1>4, <1>5

(* Taking a free flock through the open descriptor preserves the invariant. *)
LEMMA TryLockPreserves ==
  ASSUME LeaseInv, NEW p \in Procs, NEW from, NEW to,
         <<from, to>> \in {<<"poll", "pin">>, <<"sweepTry", "sweepCheck">>,
                           <<"probeTry", "probeHeld">>},
         TryLock(p, from, to)
  PROVE  LeaseInv'
<1> USE DEF LeaseInv, TypeOK, FlockOnDescriptor, DescriptorOpen, HoldersLocked,
            ComparedNamed, TryLock, Goto, Holding, States
<1>1. /\ from \in {"poll", "sweepTry", "probeTry"}
      /\ to \in {"pin", "sweepCheck", "probeHeld"} OBVIOUS
<1>2. fd[p] \in Inodes BY <1>1
<1>3. TypeOK' BY <1>1, <1>2
<1>4. FlockOnDescriptor' BY <1>1, <1>2
<1>5. DescriptorOpen' BY <1>1, <1>2
<1>6. HoldersLocked' BY <1>1, <1>2
<1>7. ComparedNamed' BY <1>1, <1>2
<1> QED BY <1>3, <1>4, <1>5, <1>6, <1>7

(* Opening the file under the name gives a descriptor and no flock. *)
LEMMA OpenPreserves ==
  ASSUME LeaseInv, NEW p \in Procs, pc[p] \in {"idle", "reopen", "sweepOpen"},
         NEW to \in {"poll", "sweepTry", "probeTry"},
         OpenNamed(p, to) \/ OpenMissing(p)
  PROVE  LeaseInv'
<1>1. \A i \in Inodes : flock[i] # p BY DEF LeaseInv, FlockOnDescriptor, DescriptorOpen
<1> QED
  BY <1>1 DEF LeaseInv, TypeOK, FlockOnDescriptor, DescriptorOpen, HoldersLocked,
              ComparedNamed, OpenNamed, OpenMissing, Goto, Holding, States

(* Without lock files and descriptors nobody has the lease. *)
LEMMA InitInv == Init => LeaseInv
BY DEF Init, LeaseInv, TypeOK, FlockOnDescriptor, DescriptorOpen, HoldersLocked,
       ComparedNamed, Holding, States

(* The system calls that start an operation. *)
LEMMA StartPreserves ==
  ASSUME LeaseInv, NEW p \in Procs, Start(p)
  PROVE  LeaseInv'
<1>1. CASE OpenCreate(p)
 <2> PICK i \in Inodes : Unused(i) /\ path' = i /\ fd' = [fd EXCEPT ![p] = i]
   BY <1>1 DEF OpenCreate
 <2>1. /\ \A j \in Inodes : flock[j] # p
       /\ flock[i] = NoProc
   BY <1>1 DEF LeaseInv, TypeOK, FlockOnDescriptor, DescriptorOpen, OpenCreate, Unused
 <2> QED
   BY <1>1, <2>1 DEF LeaseInv, TypeOK, FlockOnDescriptor, DescriptorOpen, HoldersLocked,
      ComparedNamed, OpenCreate, Unused, Goto, Holding, States
<1>2. CASE OpenExists(p) \/ SweepBegin(p)
  BY <1>2 DEF LeaseInv, TypeOK, FlockOnDescriptor, DescriptorOpen, HoldersLocked,
     ComparedNamed, OpenExists, SweepBegin, Goto, Holding, States
<1>3. CASE ProbeOpen(p) BY <1>3, OpenPreserves DEF ProbeOpen
<1> QED BY <1>1, <1>2, <1>3 DEF Start

(* Unlinking takes the name away from nobody but the unlinking process:    *)
(* whoever compared inodes successfully has the flock of that inode.       *)
LEMMA UnlinkPreserves ==
  ASSUME LeaseInv, NEW p \in Procs, Unlink(p)
  PROVE  LeaseInv'
<1>1. \A o \in Procs \ {p} : pc[o] \notin {"leased", "unlink", "sweepUnlink"}
  BY DEF LeaseInv, TypeOK, HoldersLocked, ComparedNamed, Unlink, Holding
<1> QED
  BY <1>1 DEF LeaseInv, TypeOK, FlockOnDescriptor, DescriptorOpen, HoldersLocked,
     ComparedNamed, Unlink, Goto, Holding, States

(* A sweeper unlinks only the file it has locked. *)
LEMMA SweepUnlinkPreserves ==
  ASSUME LeaseInv, NEW p \in Procs, SweepUnlink(p)
  PROVE  LeaseInv'
<1>1. \A o \in Procs \ {p} : pc[o] \notin {"leased", "unlink", "sweepUnlink"}
  BY DEF LeaseInv, TypeOK, HoldersLocked, ComparedNamed, SweepUnlink, Holding
<1> QED
  BY <1>1 DEF LeaseInv, TypeOK, FlockOnDescriptor, DescriptorOpen, HoldersLocked,
     ComparedNamed, SweepUnlink, Close, Goto, Holding, States

(* The system calls of a running operation. *)
LEMMA StepPreserves ==
  ASSUME LeaseInv, NEW p \in Procs, Step(p)
  PROVE  LeaseInv'
<1>1. CASE Reopen(p) \/ SweepOpen(p) BY <1>1, OpenPreserves DEF Reopen, SweepOpen
<1>2. CASE Lock(p) \/ SweepLock(p) \/ ProbeLock(p)
  BY <1>2, TryLockPreserves DEF Lock, SweepLock, ProbeLock
<1>3. CASE Pin(p) \/ RemoveCheck(p) \/ SweepCheck(p)
  BY <1>3 DEF LeaseInv, TypeOK, FlockOnDescriptor, DescriptorOpen, HoldersLocked,
     ComparedNamed, Pin, RemoveCheck, SweepCheck, Goto, Holding, States
<1>4. CASE PinChanged(p) \/ Release(p) \/ SweepChanged(p) \/ TryBusy(p) \/ ProbeDone(p)
  BY <1>4, ClosePreserves DEF PinChanged, Release, SweepChanged, TryBusy, ProbeDone
<1>5. CASE Unlink(p) BY <1>5, UnlinkPreserves
<1>6. CASE SweepUnlink(p) BY <1>6, SweepUnlinkPreserves
<1> QED BY <1>1, <1>2, <1>3, <1>4, <1>5, <1>6 DEF Step

(* The lease invariant is inductive. *)
LEMMA NextPreserves == LeaseInv /\ [Next]_vars => LeaseInv'
<1> SUFFICES ASSUME LeaseInv, [Next]_vars PROVE LeaseInv' OBVIOUS
<1>1. CASE UNCHANGED vars
  BY <1>1 DEF vars, LeaseInv, TypeOK, FlockOnDescriptor, DescriptorOpen, HoldersLocked,
     ComparedNamed
<1>2. ASSUME NEW p \in Procs, Start(p) PROVE LeaseInv' BY <1>2, StartPreserves
<1>3. ASSUME NEW p \in Procs, Step(p) PROVE LeaseInv' BY <1>3, StepPreserves
<1>4. ASSUME NEW p \in Procs, Publish(p) \/ Consume(p) PROVE LeaseInv'
  BY <1>4 DEF LeaseInv, TypeOK, FlockOnDescriptor, DescriptorOpen, HoldersLocked,
     ComparedNamed, Publish, Consume
<1>5. ASSUME NEW p \in Procs, Abandon(p) PROVE LeaseInv' BY <1>5, ClosePreserves DEF Abandon
<1> QED BY <1>1, <1>2, <1>3, <1>4, <1>5 DEF Next

-----------------------------------------------------------------------------
(* The lock-file protocol keeps its inductive invariant. *)
THEOREM LeaseInvariant == Spec => []LeaseInv
<1>1. Init => LeaseInv BY InitInv
<1>2. LeaseInv /\ [Next]_vars => LeaseInv' BY NextPreserves
<1> QED BY <1>1, <1>2, PTL DEF Spec

(* acquireDraftLease never lets two operations own one draft, however many *)
(* processes there are and however often the lock file is replaced.        *)
THEOREM LeaseIsExclusive == Spec => []LeaseExclusive
<1>1. LeaseInv => LeaseExclusive
  BY DEF LeaseInv, TypeOK, HoldersLocked, ComparedNamed, LeaseExclusive, Owns, Holding
<1> QED BY <1>1, LeaseInvariant, PTL

(* The owner's lock file keeps its name and its flock until the owner      *)
(* unlinks it.                                                             *)
THEOREM OwnerKeepsName == Spec => []OwnerNamed
<1>1. LeaseInv => OwnerNamed
  BY DEF LeaseInv, TypeOK, HoldersLocked, ComparedNamed, OwnerNamed, Owns, Holding
<1> QED BY <1>1, LeaseInvariant, PTL

(* remove() and the orphan sweep unlink a lock file only while they hold   *)
(* the flock on exactly that file.                                         *)
THEOREM UnlinkIsOwn == Spec => UnlinkOwnOnly
<1>1. ASSUME LeaseInv, [Next]_vars
      PROVE  [path # NoInode /\ path' = NoInode
                => \E p \in Procs : flock[path] = p /\ pc[p] \in {"unlink", "sweepUnlink"}]_vars
 <2> SUFFICES ASSUME path # NoInode, path' = NoInode
              PROVE  \E p \in Procs : flock[path] = p /\ pc[p] \in {"unlink", "sweepUnlink"}
   OBVIOUS
 <2>1. PICK p \in Procs : Unlink(p) \/ SweepUnlink(p)
   BY <1>1 DEF LeaseInv, TypeOK, Next, Start, Step, vars, OpenCreate, OpenExists, SweepBegin,
      ProbeOpen, Reopen, OpenNamed, OpenMissing, Lock, TryLock, Pin, PinChanged, RemoveCheck,
      Release, SweepOpen, SweepLock, SweepCheck, SweepChanged, TryBusy, ProbeLock, ProbeDone,
      Publish, Consume, Abandon
 <2> QED
   BY <1>1, <2>1 DEF LeaseInv, HoldersLocked, ComparedNamed, Unlink, SweepUnlink, Holding
<1> QED BY <1>1, LeaseInvariant, PTL DEF Spec, UnlinkOwnOnly
-----------------------------------------------------------------------------
(* The refinement: Pin obtains the abstract lease, and losing the name or  *)
(* the descriptor gives it up.                                             *)

(* The abstract owner is the process whose pinned file is linked. *)
LEMMA OwnerIs ==
  ASSUME LeaseInv
  PROVE  /\ \A p \in Procs : Owns(p) => Owner = p
         /\ (\A p \in Procs : ~Owns(p)) => Owner = NoProc
<1>1. \A p, o \in Procs : Owns(p) /\ Owns(o) => p = o
  BY DEF LeaseInv, TypeOK, HoldersLocked, ComparedNamed, Owns, Holding
<1> QED BY <1>1 DEF Owner

(* The same in the next state. *)
LEMMA OwnerIsNext ==
  ASSUME LeaseInv'
  PROVE  /\ \A p \in Procs : Owns(p)' => Owner' = p
         /\ (\A p \in Procs : ~Owns(p)') => Owner' = NoProc
<1>1. \A p, o \in Procs : Owns(p)' /\ Owns(o)' => p = o
  BY DEF LeaseInv, TypeOK, HoldersLocked, ComparedNamed, Owns, Holding
<1> QED BY <1>1 DEF Owner

(* A step that changes nobody's ownership is invisible to the abstract lease. *)
LEMMA SameOwner ==
  ASSUME LeaseInv, LeaseInv', \A p \in Procs : Owns(p)' <=> Owns(p)
  PROVE  Owner' = Owner
<1>1. CASE \E p \in Procs : Owns(p) BY <1>1, OwnerIs, OwnerIsNext
<1>2. CASE \A p \in Procs : ~Owns(p) BY <1>2, OwnerIs, OwnerIsNext
<1> QED BY <1>1, <1>2

(* A step by which the owner p alone loses ownership is GiveUp(p). *)
LEMMA OwnerLeaves ==
  ASSUME LeaseInv, LeaseInv', NEW p \in Procs, Owns(p), ~Owns(p)',
         \A o \in Procs \ {p} : Owns(o)' <=> Owns(o)
  PROVE  Mutex!GiveUp(p)
<1>1. Owner = p BY OwnerIs
<1>2. \A o \in Procs \ {p} : ~Owns(o)
  BY DEF LeaseInv, TypeOK, HoldersLocked, ComparedNamed, Owns, Holding
<1>3. Owner' = NoProc BY <1>2, OwnerIsNext
<1> QED BY <1>1, <1>3 DEF Mutex!GiveUp

(* A successful pin is the abstract Obtain. *)
LEMMA PinObtains ==
  ASSUME LeaseInv, LeaseInv', NEW p \in Procs, Pin(p)
  PROVE  Mutex!Obtain(p)
<1>1. \A o \in Procs : ~Owns(o)
  BY DEF LeaseInv, TypeOK, HoldersLocked, ComparedNamed, Owns, Holding, Pin
<1>2. Owner = NoProc BY <1>1, OwnerIs
<1>3. Owns(p)' BY DEF Pin, Goto, Owns, LeaseInv, TypeOK
<1>4. Owner' = p BY <1>3, OwnerIsNext
<1> QED BY <1>2, <1>4 DEF Mutex!Obtain

(* A process that closes its descriptor stops owning the draft, if it did. *)
LEMMA CloseGivesUp ==
  ASSUME LeaseInv, LeaseInv', NEW p \in Procs, Close(p)
  PROVE  Mutex!GiveUp(p) \/ Owner' = Owner
<1>1. /\ ~Owns(p)'
      /\ \A o \in Procs \ {p} : Owns(o)' <=> Owns(o)
  BY DEF LeaseInv, TypeOK, Close, Goto, Owns
<1>2. CASE Owns(p) BY <1>1, <1>2, OwnerLeaves
<1>3. CASE ~Owns(p) BY <1>1, <1>3, SameOwner
<1> QED BY <1>2, <1>3

(* Every step obtains the abstract lease, gives it up, or leaves it. *)
LEMMA StepRefines ==
  ASSUME LeaseInv, LeaseInv', NEW p \in Procs,
         Start(p) \/ Step(p) \/ Publish(p) \/ Consume(p) \/ Abandon(p)
  PROVE  Mutex!Obtain(p) \/ Mutex!GiveUp(p) \/ Owner' = Owner
<1>1. CASE Pin(p) BY <1>1, PinObtains
<1>2. CASE Unlink(p)
 <2>1. /\ Owns(p) /\ ~Owns(p)'
       /\ \A o \in Procs \ {p} : Owns(o)' <=> Owns(o)
   BY <1>2 DEF LeaseInv, TypeOK, Unlink, Goto, Owns
 <2> QED BY <2>1, OwnerLeaves
<1>3. CASE \/ PinChanged(p) \/ Release(p) \/ SweepChanged(p) \/ TryBusy(p)
           \/ ProbeDone(p) \/ SweepUnlink(p) \/ Abandon(p)
  BY <1>3, CloseGivesUp DEF PinChanged, Release, SweepChanged, TryBusy, ProbeDone,
     SweepUnlink, Abandon
<1>4. CASE \/ Start(p) \/ Reopen(p) \/ Lock(p) \/ RemoveCheck(p) \/ SweepOpen(p)
           \/ SweepLock(p) \/ SweepCheck(p) \/ ProbeLock(p) \/ Publish(p) \/ Consume(p)
 <2>1. \A o \in Procs : Owns(o)' <=> Owns(o)
   BY <1>4 DEF LeaseInv, TypeOK, Owns, Start, OpenCreate, OpenExists, SweepBegin, ProbeOpen,
      Reopen, OpenNamed, OpenMissing, Lock, TryLock, RemoveCheck, SweepOpen, SweepLock,
      SweepCheck, ProbeLock, Publish, Consume, Goto
 <2> QED BY <2>1, SameOwner
<1> QED BY <1>1, <1>2, <1>3, <1>4 DEF Step

(* Every behaviour of the lock-file protocol is a behaviour of the         *)
(* exclusive lease that the draft operations are written against.          *)
THEOREM LeaseImplementsMutex == Spec => ImplementsMutex
<1>1. Init => Mutex!MutexInit BY DEF Init, Mutex!MutexInit, Owner, Owns
<1>2. LeaseInv /\ LeaseInv' /\ [Next]_vars => [Mutex!MutexNext]_Owner
 <2> SUFFICES ASSUME LeaseInv, LeaseInv', [Next]_vars PROVE [Mutex!MutexNext]_Owner OBVIOUS
 <2>1. CASE UNCHANGED vars BY <2>1 DEF vars, Owner, Owns
 <2>2. CASE Next BY <2>2, StepRefines DEF Next, Mutex!MutexNext
 <2> QED BY <2>1, <2>2
<1> QED BY <1>1, <1>2, LeaseInvariant, PTL DEF Spec, ImplementsMutex, Mutex!MutexSpec
=============================================================================
