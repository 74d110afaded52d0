--------------------------- MODULE ImapMutationProofs ---------------------------
(***************************************************************************)
(* Proofs for the IMAP mutations: for any number of processes, requests,   *)
(* rebuilds, late commands, kills and steps of other clients, only the     *)
(* named message is changed, what a report says is so, the message is      *)
(* never lost, and no request makes a second copy of it.                   *)
(*                                                                         *)
(* A UID is never given twice in one generation of a mailbox, so an        *)
(* identity that named the message once names it or nothing for ever after.*)
(* Who sends a command holds the mutation lock, so what it has seen of the *)
(* two mailboxes is changed by the environment only; and a message that is *)
(* about to be expunged has a copy that no command sent so far names.      *)
(***************************************************************************)
EXTENDS ImapMutation, FiniteSetTheorems, SequenceTheorems, TLAPS

-------------------------------------------------------------------------------
(* Types and shape.                                                        *)

Phase == [add: SUBSET Flags, remove: SUBSET Flags]
MessageIds == {"named", "other"}
Messages == [uid: Nat, id: MessageIds, flags: SUBSET Flags]
Targets == [uid: Nat, validity: Nat]
Kinds == {"copy", "move", "store", "expunge"}
Commands == [by: Procs, run: Nat, named: BOOLEAN, kind: Kinds, from: Boxes, to: Boxes,
             uid: Nat, validity: Nat, add: SUBSET Flags, remove: SUBSET Flags]
Effects == {"copy", "gone", "source_flag"}
Outcomes == {"not_started", "completed", "unknown", "partial"}
Jobs == [ask: RequestRecord \cup {NoRequest}, target: Targets, retried: BOOLEAN, selected: Nat,
         guarded: Nat, plan: Seq(Phase), outcome: Outcomes, effects: SUBSET Effects,
         copyuid: Nat \X Nat]
Says == {"nothing", "refused", "unknown", "completed", "mismatch", "partial"}
Told == {"copy", "gone", "move", "source_flag", "uid_expunge", "cleanup_deferred"}
Reports == [says: Says, effects: SUBSET Told, run: Nat]
Keys == [from: Boxes, to: Boxes, id: Targets]
Felt == [by: Procs, run: Nat, kind: Kinds, named: BOOLEAN]
SentKeys == [by: Procs, key: Keys]

\* The types.
TypeOK ==
  /\ validity \in [Boxes -> Nat \ {0}] /\ next \in [Boxes -> Nat \ {0}]
  /\ box \in [Boxes -> SUBSET Messages]
  /\ known \in [Boxes -> Targets]
  /\ late \subseteq Commands /\ lock \in Procs \cup {Nobody}
  /\ pc \in [Procs -> Steps] /\ job \in [Procs -> Jobs]
  /\ attempts \in [Procs -> SUBSET Keys]
  /\ report \in [Procs -> Reports] /\ runs \in [Procs -> Nat]
  /\ felt \subseteq Felt /\ sent \subseteq SentKeys
  /\ lateRan \in BOOLEAN /\ removed \in BOOLEAN /\ added \in BOOLEAN

\* A mailbox is finite, and its UIDs are its own and below the next one.
Numbered ==
  \A b \in Boxes : /\ IsFiniteSet(box[b])
                   /\ \A m \in box[b] : m.uid < next[b]
                   /\ \A m, n \in box[b] : m.uid = n.uid => m = n

Critical == Steps \ {"idle", "resolve", "attempt", "lock", "verify"}
After == {"dispatch", "verify", "absent", "arrived", "again", "store", "fetch",
          "expunge", "expunged"}

Early == {"resolve", "attempt", "lock", "guard", "source", "dispatch"}

\* Which requests are where, and what they carry.
Shape(p) ==
  /\ pc[p] # "idle" => Asked(p) \in Requests
  /\ pc[p] \in {"attempt", "verify"} => Copy(p)
  /\ pc[p] \in {"absent", "arrived", "again", "expunge", "expunged"} => Move(p)
  /\ pc[p] = "absent" => "MOVE" \in offers
  /\ pc[p] \in {"absent", "arrived"} /\ "MOVE" \in offers =>
       job[p].outcome \in {"completed", "unknown"}
  /\ pc[p] = "dispatch" => ~Mark(p)
  /\ pc[p] \in {"store", "fetch"} => ~Copy(p)
  /\ pc[p] = "guard" => ~Mark(p)
  /\ pc[p] \in {"again", "expunge", "expunged"} => "MOVE" \notin offers
  /\ pc[p] \in {"store", "fetch"} /\ Move(p) => "MOVE" \notin offers
  /\ pc[p] \in {"store", "fetch"} => job[p].plan # <<>>
  /\ pc[p] \in After => job[p].selected = job[p].target.validity
  /\ pc[p] \in Early => job[p].copyuid = <<0, 0>> /\ job[p].effects = {}
  /\ pc[p] = "arrived" /\ "MOVE" \notin offers => job[p].copyuid = <<0, 0>>
Named(p) ==
  /\ pc[p] = "guard" => Asked(p).named
  /\ Copy(p) /\ (pc[p] \in Critical \cup {"lock", "verify"} \/ job[p].retried) => Asked(p).named
  /\ Move(p) /\ pc[p] \in Critical /\ "MOVE" \notin offers => Asked(p).named
Holder(p) == (pc[p] \in Critical) <=> (lock = p)

\* Of a late command the two mailboxes differ, if it carries something there.
Apart == \A c \in late : Arrives(c) => c.from # c.to

Base ==
  /\ TypeOK /\ Numbered /\ Apart
  /\ \A p \in Procs : Shape(p) /\ Named(p) /\ Holder(p)

-------------------------------------------------------------------------------
(* Whose message it is.                                                     *)

\* In this generation the identity names the message, or nothing; it has been
\* given, so that no other message will ever get it.
Names(b, t) ==
  /\ t.validity <= validity[b]
  /\ t.validity = validity[b] =>
       /\ t.uid < next[b]
       /\ \A m \in box[b] : m.uid = t.uid => m.id = "named"
Identity(c) == [uid |-> c.uid, validity |-> c.validity]
Identities ==
  /\ \A b \in Boxes : Names(b, known[b])
  /\ \A p \in Procs : Names(Asked(p).from, job[p].target)
  /\ \A c \in late : Names(c.from, Identity(c))
  /\ touched \subseteq {"named"}

-------------------------------------------------------------------------------
(* What was sent for which request.                                        *)

Of(p) == [by |-> p, run |-> runs[p]]
By(f) == [by |-> f.by, run |-> f.run]
Before(p) ==
  \/ pc[p] \in Early
  \/ pc[p] = "store" /\ Mark(p) /\ job[p].outcome # "partial"
Ran(p, kinds) == \E f \in felt : By(f) = Of(p) /\ f.kind \in kinds
Requested ==
  /\ \A f \in felt \cup late : f.run <= runs[f.by]
  /\ \A p \in Procs :
       /\ report[p].run <= runs[p]
       /\ pc[p] # "idle" => report[p] = NoReport
       /\ Before(p) => \A f \in felt \cup late : By(f) # Of(p)
  /\ RefusedMeansUntouched

-------------------------------------------------------------------------------
(* How many copies, as long as nobody else copies.                         *)

Alone == ~added /\ ~lateRan
Arrival(f) == f.kind \in {"copy", "move"}
One(b) == \A m, n \in Holds(b) : m = n

\* What the holder of the lock knows of the mailbox it copies to.
Guarded(p) == /\ pc[p] \in Critical \ {"guard"} /\ ~Mark(p) /\ Asked(p).named
Copied(p) == Ran(p, {"copy", "move"})
Arriving(p) ==
  /\ Guarded(p) /\ pc[p] \in {"source", "dispatch"} => Holds(Asked(p).to) = {}
  /\ Guarded(p) /\ ~Copied(p) => Holds(Asked(p).to) = {}
  /\ pc[p] \in After \ {"dispatch", "verify"} /\ job[p].copyuid # <<0, 0>> => Copied(p)
  /\ Copy(p) /\ pc[p] \in {"dispatch", "verify"} /\ Holds(Asked(p).to) # {}
       => \E f \in felt : Arrival(f)
Effective(p) ==
  /\ "copy" \in job[p].effects => Copied(p)
  /\ "source_flag" \in job[p].effects => Ran(p, {"store"})
  /\ pc[p] \notin {"again", "store", "fetch", "expunge", "expunged"} =>
       job[p].effects \subseteq {"gone"}
  /\ job[p].effects = {"gone"} => pc[p] = "arrived" /\ "MOVE" \in offers
  /\ pc[p] = "fetch" /\ Move(p) =>
       \/ Ran(p, {"store"})
       \/ validity[Asked(p).from] = job[p].selected =>
            At(Asked(p).from, job[p].target.uid) = {}
  /\ pc[p] \in {"absent", "arrived"} /\ "MOVE" \in offers =>
       Ran(p, {"copy"}) = FALSE
Honest(p) ==
  LET of(f) == f.by = p /\ f.run = report[p].run
  IN /\ "copy" \in report[p].effects =>
          \E f \in felt : f.kind \in {"copy", "move"} /\ (FoundThere(p) \/ of(f))
     /\ "move" \in report[p].effects => \E f \in felt : f.kind = "move" /\ of(f)
     /\ "source_flag" \in report[p].effects => \E f \in felt : f.kind = "store" /\ of(f)
Copies ==
  Alone => /\ \A p \in Procs : Arriving(p) /\ Effective(p) /\ Honest(p)
           /\ (\A f \in felt : f.named) => \A b \in Boxes : One(b)

-------------------------------------------------------------------------------
(* The message is always somewhere.                                        *)

\* The UIDs that commands are about to expunge, or may still expunge.
Expunging(p) == Move(p) /\ pc[p] \in {"again", "store", "fetch", "expunge"}
Condemned(b, uid) ==
  \/ \E c \in late : /\ c.kind = "expunge" /\ c.from = b
                     /\ c.uid = uid /\ c.validity = validity[b]
  \/ \E p \in Procs : /\ Expunging(p) /\ Asked(p).from = b
                      /\ job[p].target.uid = uid /\ job[p].target.validity = validity[b]
Spared(b) == \A m \in Holds(b) : ~Condemned(b, m.uid)
Fresh(p) == Guarded(p) => Spared(Asked(p).to)
Safe ==
  /\ \A p \in Procs : Fresh(p)
  /\ removed \/ \E b \in Boxes : \E m \in Holds(b) : ~Condemned(b, m.uid)

-------------------------------------------------------------------------------
(* $Junk and $NotJunk.                                                      *)

Junk == {"Junk", "NotJunk"}
Mine(p) == IF validity[Asked(p).from] = job[p].selected
           THEN At(Asked(p).from, job[p].target.uid) ELSE {}
\* A mark that concerns them: a removal, before which no other flag is to go,
\* or an addition, when nothing is left to remove.
Junked(r, plan, mine) ==
  LET head == Head(plan)
  IN /\ head.add \subseteq r.add /\ head.remove \subseteq r.remove
     /\ \/ head.add = {} /\ \A m \in mine : m.flags \cap r.remove \subseteq head.remove
        \/ head.remove = {} /\ \A m \in mine : m.flags \cap r.remove = {}
     /\ Tail(plan) # <<>> =>
          /\ head.add = {}
          /\ \E a \in SUBSET r.add : Tail(plan) = <<[add |-> a, remove |-> {}]>>
Plain(plan) == \A i \in DOMAIN plan : plan[i].add \cap Junk = {}
Planned(p) ==
  pc[p] \in {"store", "fetch"} =>
    /\ Move(p) => job[p].plan = <<[add |-> {"Deleted"}, remove |-> {}]>>
    /\ Mark(p) /\ TouchesJunk(Asked(p)) => Junked(Asked(p), job[p].plan, Mine(p))
    /\ Mark(p) /\ ~TouchesJunk(Asked(p)) => Plain(job[p].plan)
Clear == \A b \in Boxes : \A m \in box[b] : ~(Junk \subseteq m.flags)
Unambiguous == ~lateRan => Clear /\ \A p \in Procs : Planned(p)

-------------------------------------------------------------------------------
(* Unresolved COPYs.                                                       *)

Sent(p) == [by |-> p, key |-> Key(p)]
Resolving(p) ==
  Copy(p) /\ pc[p] = "resolve" /\ job[p].retried =>
    IF Asked(p).pinned
    THEN [by |-> p, key |-> [from |-> Asked(p).from, to |-> Asked(p).to, id |-> Pinned]] \notin sent
    ELSE \A s \in sent : s.by = p /\ s.key.from = Asked(p).from =>
           s.key.id.validity < validity[Asked(p).from]
Looked(p) ==
  /\ Copy(p) /\ pc[p] \in {"lock", "guard", "source", "dispatch"} => Sent(p) \notin sent
  /\ pc[p] = "verify" /\ job[p].outcome = "completed" => Sent(p) \notin sent
  /\ Copy(p) /\ pc[p] \in Critical \cup {"lock"} => Key(p) \in attempts[p]
  /\ Copy(p) /\ pc[p] \in Critical \cup {"attempt", "lock", "verify"} =>
       IF Asked(p).pinned THEN job[p].target = Pinned
       ELSE \A s \in sent : s.by = p /\ s.key.from = Asked(p).from =>
              s.key.id.validity <= job[p].target.validity
Kept ==
  /\ \A s \in sent : s.key \in attempts[s.by] /\ s.key.id.validity <= validity[s.key.from]
  /\ \A p \in Procs : Resolving(p) /\ Looked(p)

-------------------------------------------------------------------------------
(* What a step of the server does to the mailboxes.                        *)

Stored(c, m) == Message(m.uid, m.id, (m.flags \cup c.add) \ c.remove)
Carried(c, m) == Message(next[c.to], m.id, m.flags)

\* A mailbox is rebuilt, or keeps its messages, loses some and gets new ones.
Evolves(b) ==
  \/ validity'[b] > validity[b]
  \/ /\ validity'[b] = validity[b] /\ next'[b] >= next[b]
     /\ \A n \in box'[b] : \/ n.uid >= next[b]
                           \/ \E m \in box[b] : m.uid = n.uid /\ m.id = n.id

\* The four things a command that finds its message can do.
Swap(b, m, n) == /\ box' = [box EXCEPT ![b] = (@ \ {m}) \cup {n}]
                 /\ n \in Messages /\ m.uid = n.uid /\ m.id = n.id /\ next' = next
Drop(b, m) == box' = [box EXCEPT ![b] = @ \ {m}] /\ next' = next
Put(b, n) == /\ box' = [box EXCEPT ![b] = @ \cup {n}]
             /\ n \in Messages /\ n.uid = next[b] /\ next' = [next EXCEPT ![b] = @ + 1]
Result(c, m) ==
  \/ c.kind = "store" /\ Swap(c.from, m, Stored(c, m))
  \/ c.kind = "expunge" /\ Drop(c.from, m)
  \/ c.kind = "copy" /\ Put(c.to, Carried(c, m))
  \/ /\ c.kind = "move"
     /\ box' = [box EXCEPT ![c.from] = @ \ {m}, ![c.to] = @ \cup {Carried(c, m)}]
     /\ next' = [next EXCEPT ![c.to] = @ + 1]
Subject(c, m) ==
  /\ Subjects(c) = {m} /\ m \in box[c.from] /\ m.uid = c.uid
  /\ validity[c.from] = c.validity /\ (c.kind = "expunge" => "Deleted" \in m.flags)
FeltOf(c) == [by |-> c.by, run |-> c.run, kind |-> c.kind, named |-> c.named]

\* The types of the mailboxes, and their numbers.
Mailboxes == /\ validity \in [Boxes -> Nat \ {0}] /\ next \in [Boxes -> Nat \ {0}]
             /\ box \in [Boxes -> SUBSET Messages]
Sound == Mailboxes /\ Numbered

\* A message is a record with its three fields.
LEMMA MessageFields ==
  ASSUME NEW u, NEW i, NEW f
  PROVE  /\ Message(u, i, f).uid = u /\ Message(u, i, f).id = i /\ Message(u, i, f).flags = f
         /\ (u \in Nat /\ i \in MessageIds /\ f \in SUBSET Flags => Message(u, i, f) \in Messages)
  BY DEF Message, Messages

\* A mailbox whose messages are a part of it and one more is finite.
LEMMA FiniteWith ==
  ASSUME NEW S, IsFiniteSet(S), NEW x, NEW T, T \subseteq S \cup {x}
  PROVE  IsFiniteSet(T) BY FS_AddElement, FS_Subset

\* One message changes its flags.
LEMMA SwapSound ==
  ASSUME Sound, NEW b \in Boxes, NEW m \in box[b], NEW n, Swap(b, m, n), validity' = validity
  PROVE  Sound' /\ \A d \in Boxes : Evolves(d)
<1>1. /\ box'[b] = (box[b] \ {m}) \cup {n} /\ \A d \in Boxes \ {b} : box'[d] = box[d]
      /\ box' \in [Boxes -> SUBSET Messages] BY DEF Sound, Mailboxes, Swap
<1>2. IsFiniteSet(box'[b]) BY <1>1, FiniteWith DEF Sound, Numbered
<1>3. Numbered' BY <1>1, <1>2 DEF Sound, Numbered, Swap
<1>4. \A d \in Boxes : Evolves(d) BY <1>1 DEF Evolves, Swap, Sound, Mailboxes
<1> QED BY <1>1, <1>3, <1>4 DEF Sound, Mailboxes, Swap

\* One message goes.
LEMMA DropSound ==
  ASSUME Sound, NEW b \in Boxes, NEW m, Drop(b, m), validity' = validity
  PROVE  Sound' /\ \A d \in Boxes : Evolves(d)
<1>1. /\ box'[b] = box[b] \ {m} /\ \A d \in Boxes \ {b} : box'[d] = box[d]
      /\ box' \in [Boxes -> SUBSET Messages] BY DEF Sound, Mailboxes, Drop
<1>2. IsFiniteSet(box'[b]) BY <1>1, FiniteWith DEF Sound, Numbered
<1>3. Numbered' BY <1>1, <1>2 DEF Sound, Numbered, Drop
<1>4. \A d \in Boxes : Evolves(d) BY <1>1 DEF Evolves, Drop, Sound, Mailboxes
<1> QED BY <1>1, <1>3, <1>4 DEF Sound, Mailboxes, Drop

\* One message comes, with the next UID.
LEMMA PutSound ==
  ASSUME Sound, NEW b \in Boxes, NEW n, Put(b, n), validity' = validity
  PROVE  Sound' /\ \A d \in Boxes : Evolves(d)
<1>1. /\ box'[b] = box[b] \cup {n} /\ \A d \in Boxes \ {b} : box'[d] = box[d]
      /\ box' \in [Boxes -> SUBSET Messages] /\ next' \in [Boxes -> Nat \ {0}]
      /\ next'[b] = next[b] + 1 /\ \A d \in Boxes \ {b} : next'[d] = next[d]
      /\ n \in Messages /\ n.uid = next[b] /\ next[b] \in Nat BY DEF Sound, Mailboxes, Put
<1>2. IsFiniteSet(box'[b]) BY <1>1, FiniteWith DEF Sound, Numbered
<1>3. Numbered'
 <2>1. \A m \in box[b] : m.uid < next[b] /\ m.uid \in Nat
   BY DEF Sound, Mailboxes, Numbered, Messages
 <2>2. \A m \in box'[b] : m.uid < next'[b] BY <1>1, <2>1
 <2>3. \A m \in box[b] : m.uid # n.uid BY <1>1, <2>1
 <2>4. \A x, y \in box'[b] : x.uid = y.uid => x = y BY <1>1, <2>3 DEF Sound, Numbered
 <2> QED BY <1>1, <1>2, <2>2, <2>4 DEF Sound, Numbered
<1>4. \A d \in Boxes : Evolves(d)
 <2> TAKE d \in Boxes
 <2>1. next'[d] >= next[d] BY <1>1 DEF Sound, Mailboxes
 <2>2. \A x \in box'[d] : x.uid >= next[d] \/ x \in box[d] BY <1>1
 <2> QED BY <2>1, <2>2 DEF Evolves
<1> QED BY <1>1, <1>3, <1>4 DEF Sound, Mailboxes

\* One message goes here and comes there.
LEMMA CarrySound ==
  ASSUME Sound, NEW a \in Boxes, NEW b \in Boxes, a # b, NEW m, NEW n \in Messages,
         n.uid = next[b], box' = [box EXCEPT ![a] = @ \ {m}, ![b] = @ \cup {n}],
         next' = [next EXCEPT ![b] = @ + 1], validity' = validity
  PROVE  Sound' /\ \A d \in Boxes : Evolves(d)
<1>1. /\ box'[a] = box[a] \ {m} /\ box'[b] = box[b] \cup {n}
      /\ \A d \in Boxes \ {a, b} : box'[d] = box[d]
      /\ box' \in [Boxes -> SUBSET Messages] /\ next' \in [Boxes -> Nat \ {0}]
      /\ next'[b] = next[b] + 1 /\ \A d \in Boxes \ {b} : next'[d] = next[d]
      /\ next[b] \in Nat BY DEF Sound, Mailboxes
<1>2. IsFiniteSet(box'[a]) /\ IsFiniteSet(box'[b]) BY <1>1, FiniteWith DEF Sound, Numbered
<1>3. Numbered'
 <2>1. \A x \in box[b] : x.uid < next[b] /\ x.uid \in Nat
   BY DEF Sound, Mailboxes, Numbered, Messages
 <2>2. \A x \in box'[b] : x.uid < next'[b] BY <1>1, <2>1
 <2>3. \A x \in box[b] : x.uid # n.uid BY <1>1, <2>1
 <2>4. \A x, y \in box'[b] : x.uid = y.uid => x = y BY <1>1, <2>3 DEF Sound, Numbered
 <2> QED BY <1>1, <1>2, <2>2, <2>4 DEF Sound, Numbered
<1>4. \A d \in Boxes : Evolves(d)
 <2> TAKE d \in Boxes
 <2>1. next'[d] >= next[d] BY <1>1 DEF Sound, Mailboxes
 <2>2. \A x \in box'[d] : x.uid >= next[d] \/ x \in box[d] BY <1>1
 <2> QED BY <2>1, <2>2 DEF Evolves
<1> QED BY <1>1, <1>3, <1>4 DEF Sound, Mailboxes

\* A command changes one message, or nothing.
LEMMA ExecuteDoes ==
  ASSUME Sound, NEW c \in Commands, Arrives(c) => c.from # c.to, Execute(c)
  PROVE  \/ Subjects(c) = {} /\ UNCHANGED <<box, next, felt, touched>>
         \/ \E m \in Messages : /\ Subject(c, m) /\ Result(c, m)
                                /\ felt' = felt \cup {FeltOf(c)}
                                /\ touched' = touched \cup {m.id}
<1>1. /\ c.from \in Boxes /\ c.to \in Boxes /\ c.kind \in Kinds
      /\ c.add \subseteq Flags /\ c.remove \subseteq Flags BY DEF Commands
<1>2. CASE Subjects(c) = {}
 <2>1. next' = next /\ touched' = touched /\ felt' = felt BY <1>2 DEF Execute
 <2>2. \A b \in Boxes : box'[b] = box[b] BY <1>2 DEF Execute
 <2>3. box' = [b \in Boxes |-> box'[b]] BY DEF Execute
 <2>4. box = [b \in Boxes |-> box[b]] BY DEF Sound, Mailboxes
 <2>5. box' = box BY <2>2, <2>3, <2>4
 <2> QED BY <1>2, <2>1, <2>5
<1>3. CASE Subjects(c) # {}
 <2>1. PICK m : m \in Subjects(c) BY <1>3
 <2>2. /\ validity[c.from] = c.validity /\ m \in box[c.from] /\ m.uid = c.uid
       /\ (c.kind = "expunge" => "Deleted" \in m.flags)
       /\ Subjects(c) \subseteq At(c.from, c.uid) BY <2>1 DEF Subjects, At
 <2>3. m \in Messages BY <1>1, <2>2 DEF Sound, Mailboxes
 <2>4. Subjects(c) = {m}
  <3>1. \A n \in Subjects(c) : n \in box[c.from] /\ n.uid = m.uid BY <2>2 DEF At
  <3> QED BY <1>1, <2>1, <2>2, <3>1 DEF Sound, Numbered
 <2>5. felt' = felt \cup {FeltOf(c)} /\ touched' = touched \cup {m.id}
   BY <2>4 DEF Execute, FeltOf
 <2>6. next' = IF Arrives(c) THEN [next EXCEPT ![c.to] = @ + 1] ELSE next BY <1>3 DEF Execute
 <2>7. /\ Stored(c, m) \in Messages /\ Stored(c, m).uid = m.uid /\ Stored(c, m).id = m.id
   BY <1>1, <2>3, MessageFields DEF Stored, Messages
 <2>8. /\ Carried(c, m) \in Messages /\ Carried(c, m).uid = next[c.to]
   BY <1>1, <2>3, MessageFields DEF Carried, Messages, Sound, Mailboxes
 <2>9. box' = [b \in Boxes |->
         ((IF b = c.from
           THEN (box[b] \ IF Leaves(c) \/ c.kind = "store" THEN {m} ELSE {})
                \cup (IF c.kind = "store" THEN {Stored(c, m)} ELSE {})
           ELSE box[b])
          \cup (IF b = c.to /\ Arrives(c) THEN {Carried(c, m)} ELSE {}))]
  <3>1. {Message(x.uid, x.id, (x.flags \cup c.add) \ c.remove) :
           x \in IF c.kind = "store" THEN Subjects(c) ELSE {}}
          = IF c.kind = "store" THEN {Stored(c, m)} ELSE {} BY <2>4 DEF Stored
  <3>2. \A b \in Boxes :
          {Message(next[b], x.id, x.flags) :
             x \in IF b = c.to /\ Arrives(c) THEN Subjects(c) ELSE {}}
            = IF b = c.to /\ Arrives(c) THEN {Carried(c, m)} ELSE {} BY <2>4 DEF Carried
  <3> QED BY <2>4, <3>1, <3>2 DEF Execute
 <2>10. box \in [Boxes -> SUBSET Messages] BY DEF Sound, Mailboxes
 <2>11. Result(c, m)
  <3>1. CASE c.kind = "store"
   <4>1. box' = [box EXCEPT ![c.from] = (@ \ {m}) \cup {Stored(c, m)}]
     BY <1>1, <2>9, <2>10, <3>1 DEF Leaves, Arrives
   <4> QED BY <2>6, <2>7, <3>1, <4>1 DEF Result, Swap, Arrives
  <3>2. CASE c.kind = "expunge"
   <4>1. box' = [box EXCEPT ![c.from] = @ \ {m}]
     BY <1>1, <2>9, <2>10, <3>2 DEF Leaves, Arrives
   <4> QED BY <2>6, <3>2, <4>1 DEF Result, Drop, Arrives
  <3>3. CASE c.kind = "copy"
   <4>1. box' = [box EXCEPT ![c.to] = @ \cup {Carried(c, m)}]
     BY <1>1, <2>9, <2>10, <3>3 DEF Leaves, Arrives
   <4> QED BY <2>6, <2>8, <3>3, <4>1 DEF Result, Put, Arrives
  <3>4. CASE c.kind = "move"
   <4>1. box' = [box EXCEPT ![c.from] = @ \ {m}, ![c.to] = @ \cup {Carried(c, m)}]
     BY <1>1, <2>9, <2>10, <3>4 DEF Leaves, Arrives
   <4> QED BY <2>6, <3>4, <4>1 DEF Result, Arrives
  <3> QED BY <1>1, <3>1, <3>2, <3>3, <3>4 DEF Kinds
 <2> QED BY <2>2, <2>3, <2>4, <2>5, <2>11 DEF Subject
<1> QED BY <1>2, <1>3

\* What a command does leaves the mailboxes in order.
LEMMA ExecuteSound ==
  ASSUME Sound, NEW c \in Commands, Arrives(c) => c.from # c.to, Execute(c)
  PROVE  Sound' /\ \A d \in Boxes : Evolves(d)
<1>1. c.from \in Boxes /\ c.to \in Boxes BY DEF Commands
<1>2. validity' = validity BY DEF Execute
<1>3. CASE UNCHANGED <<box, next>> BY <1>2, <1>3 DEF Sound, Mailboxes, Numbered, Evolves
<1>4. ASSUME NEW m \in Messages, Subject(c, m), Result(c, m)
      PROVE  Sound' /\ \A d \in Boxes : Evolves(d)
 <2>1. m \in box[c.from] BY <1>4 DEF Subject
 <2>2. /\ Carried(c, m) \in Messages /\ Carried(c, m).uid = next[c.to]
   BY <1>1, MessageFields DEF Carried, Messages, Sound, Mailboxes
 <2>3. CASE c.kind = "store" BY <1>1, <1>2, <1>4, <2>1, <2>3, SwapSound DEF Result
 <2>4. CASE c.kind = "expunge" BY <1>1, <1>2, <1>4, <2>4, DropSound DEF Result
 <2>5. CASE c.kind = "copy" BY <1>1, <1>2, <1>4, <2>5, PutSound DEF Result
 <2>6. CASE c.kind = "move"
  <3>1. /\ box' = [box EXCEPT ![c.from] = @ \ {m}, ![c.to] = @ \cup {Carried(c, m)}]
        /\ next' = [next EXCEPT ![c.to] = @ + 1] /\ c.from # c.to
    BY <1>4, <2>6 DEF Result, Arrives
  <3> QED BY <1>1, <1>2, <2>2, <3>1, CarrySound
 <2> QED BY <2>3, <2>4, <2>5, <2>6 DEF Commands, Kinds
<1> QED BY <1>3, <1>4, ExecuteDoes

-------------------------------------------------------------------------------
(* What a step of a process does to its own state.                         *)

Workers == /\ pc \in [Procs -> Steps] /\ job \in [Procs -> Jobs]
           /\ attempts \in [Procs -> SUBSET Keys]
           /\ report \in [Procs -> Reports] /\ runs \in [Procs -> Nat]

\* The others stay as they are.
Frame(p) ==
  /\ Workers'
  /\ \A q \in Procs \ {p} :
       /\ pc'[q] = pc[q] /\ job'[q] = job[q] /\ attempts'[q] = attempts[q]
       /\ report'[q] = report[q] /\ runs'[q] = runs[q]

\* What a step that continues a request leaves of its job.
KeepsRequest(p) == /\ job'[p].ask = job[p].ask /\ job'[p].target = job[p].target
                   /\ job'[p].retried = job[p].retried
KeepsPlan(p) == job'[p].selected = job[p].selected /\ job'[p].plan = job[p].plan
KeepsEvidence(p) == /\ job'[p].outcome = job[p].outcome /\ job'[p].effects = job[p].effects
                    /\ job'[p].copyuid = job[p].copyuid
Goes(p, step) == /\ pc'[p] = step /\ report' = report /\ runs' = runs
Ends(p, says, effects) ==
  /\ pc'[p] = "idle" /\ job'[p] = NewJob(NoRequest) /\ runs' = runs
  /\ report'[p] = [says |-> says, effects |-> effects, run |-> runs[p]]
  /\ lock' = IF lock = p THEN Nobody ELSE lock
Noted(p) == attempts'[p] = attempts[p] \cup {Key(p)}
Dropped(p) == attempts'[p] = IF Copy(p) THEN attempts[p] \ {Key(p)} ELSE attempts[p]
Refused(p) == Ends(p, "refused", {}) /\ Dropped(p)

\* A request that has not begun.
LEMMA NewJobType ==
  ASSUME NEW r \in RequestRecord \cup {NoRequest}
  PROVE  /\ NewJob(r) \in Jobs /\ NewJob(r).ask = r /\ NewJob(r).target = NoTarget
         /\ NewJob(r).retried = FALSE /\ NewJob(r).selected = 0 /\ NewJob(r).plan = <<>>
         /\ NewJob(r).outcome = "not_started" /\ NewJob(r).effects = {}
         /\ NewJob(r).copyuid = <<0, 0>>
<1>1. NoTarget \in Targets BY DEF NoTarget, Targets, NoUid
<1>2. <<>> \in Seq(Phase) /\ <<0, 0>> \in Nat \X Nat OBVIOUS
<1> QED BY <1>1, <1>2 DEF NewJob, Jobs, Effects, Outcomes

\* A request goes on, with what it has learned.
LEMMA ContinueDoes ==
  ASSUME TypeOK, NEW p \in Procs, NEW step \in Steps, NEW j \in Jobs, Continue(p, step, j)
  PROVE  /\ Goes(p, step) /\ job'[p] = j
         /\ \A q \in Procs \ {p} : /\ pc'[q] = pc[q] /\ job'[q] = job[q]
                                   /\ report'[q] = report[q] /\ runs'[q] = runs[q]
         /\ pc' \in [Procs -> Steps] /\ job' \in [Procs -> Jobs]
         /\ report' \in [Procs -> Reports] /\ runs' \in [Procs -> Nat]
  BY DEF TypeOK, Continue, Goes

\* A request ends with a report.
LEMMA FinishDoes ==
  ASSUME TypeOK, NEW p \in Procs, NEW says \in Says, NEW effects \in SUBSET Told,
         Finish(p, says, effects)
  PROVE  /\ Ends(p, says, effects)
         /\ \A q \in Procs \ {p} : /\ pc'[q] = pc[q] /\ job'[q] = job[q]
                                   /\ report'[q] = report[q] /\ runs'[q] = runs[q]
         /\ pc' \in [Procs -> Steps] /\ job' \in [Procs -> Jobs]
         /\ report' \in [Procs -> Reports] /\ runs' \in [Procs -> Nat]
<1>1. NewJob(NoRequest) \in Jobs BY NewJobType
<1>2. [says |-> says, effects |-> effects, run |-> runs[p]] \in Reports BY DEF TypeOK, Reports
<1> QED BY <1>1, <1>2 DEF TypeOK, Finish, Ends, Steps, Unlock

\* The attempts of COPYs.
LEMMA KeyType == ASSUME TypeOK, NEW p \in Procs, Asked(p) \in RequestRecord
                 PROVE  Key(p) \in Keys BY DEF TypeOK, Key, Keys, Asked, Jobs, RequestRecord

\* Forgetting drops the attempt of a COPY only.
LEMMA ForgetDoes ==
  ASSUME TypeOK, NEW p \in Procs, Forget(p)
  PROVE  /\ Dropped(p) /\ attempts' \in [Procs -> SUBSET Keys]
         /\ \A q \in Procs \ {p} : attempts'[q] = attempts[q] BY DEF TypeOK, Forget, Dropped

\* Remembering notes the attempt.
LEMMA RememberDoes ==
  ASSUME TypeOK, NEW p \in Procs, Asked(p) \in RequestRecord, Remember(p)
  PROVE  /\ Noted(p) /\ attempts' \in [Procs -> SUBSET Keys]
         /\ \A q \in Procs \ {p} : attempts'[q] = attempts[q]
  BY KeyType DEF TypeOK, Remember, Noted

\* A request that is refused.
LEMMA RefuseDoes ==
  ASSUME TypeOK, NEW p \in Procs, Refuse(p)
  PROVE  Frame(p) /\ Refused(p)
<1>1. Finish(p, "refused", {}) /\ Forget(p) BY DEF Refuse
<1> QED BY <1>1, FinishDoes, ForgetDoes DEF Frame, Refused, Workers, Says

\* A request that ends and keeps its attempts.
LEMMA EndDoes ==
  ASSUME TypeOK, NEW p \in Procs, NEW says \in Says, NEW effects \in SUBSET Told,
         Finish(p, says, effects), UNCHANGED attempts
  PROVE  Frame(p) /\ Ends(p, says, effects) BY FinishDoes DEF Frame, Workers, TypeOK

\* A request that goes on and keeps its attempts.
LEMMA GoDoes ==
  ASSUME TypeOK, NEW p \in Procs, NEW step \in Steps, NEW j \in Jobs, Continue(p, step, j),
         UNCHANGED attempts
  PROVE  Frame(p) /\ Goes(p, step) /\ job'[p] = j BY ContinueDoes DEF Frame, Workers, TypeOK

\* The request of a process that runs one is a real one.
LEMMA RealRequest ==
  ASSUME Base, NEW p \in Procs, pc[p] # "idle"
  PROVE  Asked(p) \in RequestRecord /\ job[p] \in Jobs /\ job[p].ask = Asked(p)
  BY MutationAssumption DEF Base, Shape, TypeOK, Asked

\* Begin, pointwise: a new request, nothing else.
LEMMA BeginDoes ==
  ASSUME Base, NEW p \in Procs, NEW r \in Requests, Begin(p, r)
  PROVE  /\ Frame(p) /\ ReadOnly /\ UNCHANGED <<lock, attempts>> /\ pc[p] = "idle"
         /\ pc'[p] = "resolve" /\ job'[p] = NewJob(r) /\ runs'[p] = runs[p] + 1
         /\ report'[p] = NoReport
<1>1. TypeOK BY DEF Base
<1>2. NewJob(r) \in Jobs BY NewJobType, MutationAssumption
<1>3. NoReport \in Reports BY DEF NoReport, Reports, Says
<1>4. /\ pc[p] = "idle" /\ runs' = [runs EXCEPT ![p] = @ + 1]
      /\ job' = [job EXCEPT ![p] = NewJob(r)] /\ report' = [report EXCEPT ![p] = NoReport]
      /\ pc' = [pc EXCEPT ![p] = "resolve"] /\ ReadOnly /\ UNCHANGED <<lock, attempts>>
  BY DEF Begin
<1>5. /\ runs' \in [Procs -> Nat] /\ runs'[p] = runs[p] + 1
      /\ \A q \in Procs \ {p} : runs'[q] = runs[q] BY <1>1, <1>4 DEF TypeOK
<1>6. /\ pc' \in [Procs -> Steps] /\ pc'[p] = "resolve"
      /\ \A q \in Procs \ {p} : pc'[q] = pc[q] BY <1>1, <1>4 DEF TypeOK, Steps
<1>7. /\ job' \in [Procs -> Jobs] /\ job'[p] = NewJob(r)
      /\ \A q \in Procs \ {p} : job'[q] = job[q] BY <1>1, <1>2, <1>4 DEF TypeOK
<1>8. /\ report' \in [Procs -> Reports] /\ report'[p] = NoReport
      /\ \A q \in Procs \ {p} : report'[q] = report[q] BY <1>1, <1>3, <1>4 DEF TypeOK
<1> QED BY <1>1, <1>4, <1>5, <1>6, <1>7, <1>8 DEF Frame, Workers, TypeOK

\* Resolve, pointwise: a target goes to the next step, or the request ends.
LEMMA ResolveDoes ==
  ASSUME Base, NEW p \in Procs, Resolve(p)
  PROVE  /\ Frame(p) /\ ReadOnly /\ pc[p] = "resolve"
         /\ \/ /\ \E t \in Resolved(p) : /\ job'[p].target = t /\ t \in Targets
                                         /\ attempts'[p] = IF Copy(p) /\ job[p].retried
                                              THEN attempts[p] \cup {[Key(p) EXCEPT !.id = t]}
                                              ELSE attempts[p]
               /\ job'[p].ask = job[p].ask /\ job'[p].retried = job[p].retried
               /\ KeepsPlan(p) /\ KeepsEvidence(p) /\ lock' = lock
               /\ Goes(p, IF Copy(p) /\ ~job[p].retried THEN "attempt" ELSE "lock")
            \/ Ends(p, "refused", {}) /\ attempts' = attempts
<1>1. TypeOK /\ pc[p] = "resolve" /\ ReadOnly BY DEF Base, Resolve
<1>2. Asked(p) \in RequestRecord /\ job[p] \in Jobs BY <1>1, RealRequest
<1>3. CASE Finish(p, "refused", {}) /\ UNCHANGED attempts BY <1>1, <1>3, EndDoes DEF Says
<1>4. ASSUME NEW t \in Resolved(p),
             Continue(p, IF Copy(p) /\ ~job[p].retried THEN "attempt" ELSE "lock",
                      [job[p] EXCEPT !.target = t]),
             attempts' = IF Copy(p) /\ job[p].retried
                         THEN [attempts EXCEPT ![p] = @ \cup {[Key(p) EXCEPT !.id = t]}]
                         ELSE attempts,
             UNCHANGED lock
      PROVE  /\ Frame(p) /\ job'[p].target = t /\ t \in Targets
             /\ attempts'[p] = IF Copy(p) /\ job[p].retried
                               THEN attempts[p] \cup {[Key(p) EXCEPT !.id = t]} ELSE attempts[p]
             /\ job'[p].ask = job[p].ask /\ job'[p].retried = job[p].retried
             /\ KeepsPlan(p) /\ KeepsEvidence(p) /\ lock' = lock
             /\ Goes(p, IF Copy(p) /\ ~job[p].retried THEN "attempt" ELSE "lock")
 <2>1. t \in Targets
  <3>1. CASE Asked(p).pinned BY <1>4, <3>1 DEF Resolved, Pinned, Targets
  <3>2. CASE ~Asked(p).pinned
   <4>1. Asked(p).from \in Boxes BY <1>2 DEF RequestRecord
   <4>2. PICK m \in Holds(Asked(p).from) :
           t = [uid |-> m.uid, validity |-> validity[Asked(p).from]]
     BY <1>4, <3>2 DEF Resolved
   <4>3. m.uid \in Nat /\ validity[Asked(p).from] \in Nat
     BY <1>1, <4>1 DEF TypeOK, Holds, Messages
   <4> QED BY <4>2, <4>3 DEF Targets
  <3> QED BY <3>1, <3>2
 <2> DEFINE j == [job[p] EXCEPT !.target = t]
            k == [Key(p) EXCEPT !.id = t]
 <2>2. /\ j \in Jobs /\ j.target = t /\ j.ask = job[p].ask /\ j.retried = job[p].retried
       /\ j.selected = job[p].selected /\ j.plan = job[p].plan /\ j.outcome = job[p].outcome
       /\ j.effects = job[p].effects /\ j.copyuid = job[p].copyuid BY <1>2, <2>1 DEF Jobs
 <2>3. k \in Keys BY <1>1, <1>2, <2>1, KeyType DEF Keys
 <2>4. Continue(p, IF Copy(p) /\ ~job[p].retried THEN "attempt" ELSE "lock", j) BY <1>4
 <2> HIDE DEF j, k
 <2>5. /\ Goes(p, IF Copy(p) /\ ~job[p].retried THEN "attempt" ELSE "lock") /\ job'[p] = j
       /\ \A q \in Procs \ {p} : /\ pc'[q] = pc[q] /\ job'[q] = job[q]
                                 /\ report'[q] = report[q] /\ runs'[q] = runs[q]
       /\ pc' \in [Procs -> Steps] /\ job' \in [Procs -> Jobs]
       /\ report' \in [Procs -> Reports] /\ runs' \in [Procs -> Nat]
   BY <1>1, <2>2, <2>4, ContinueDoes DEF Steps
 <2>6. attempts' = IF Copy(p) /\ job[p].retried
                   THEN [attempts EXCEPT ![p] = @ \cup {k}] ELSE attempts BY <1>4 DEF k
 <2>7. /\ attempts' \in [Procs -> SUBSET Keys]
       /\ \A q \in Procs \ {p} : attempts'[q] = attempts[q]
       /\ attempts'[p] = IF Copy(p) /\ job[p].retried THEN attempts[p] \cup {k} ELSE attempts[p]
   BY <1>1, <2>3, <2>6 DEF TypeOK
 <2> QED BY <1>4, <2>1, <2>2, <2>5, <2>7 DEF Frame, Workers, KeepsPlan, KeepsEvidence, k
<1> QED BY <1>1, <1>3, <1>4 DEF Resolve

\* Attempt, pointwise: an attempt is noted unless it is there already.
LEMMA AttemptDoes ==
  ASSUME Base, NEW p \in Procs, Attempt(p)
  PROVE  /\ Frame(p) /\ ReadOnly /\ pc[p] = "attempt"
         /\ \/ /\ Goes(p, "lock") /\ job'[p] = job[p] /\ lock' = lock /\ Noted(p)
               /\ Key(p) \notin attempts[p] /\ Asked(p).named
            \/ Ends(p, "unknown", {}) /\ attempts' = attempts
<1>1. TypeOK /\ pc[p] = "attempt" /\ ReadOnly BY DEF Base, Attempt
<1>2. Asked(p) \in RequestRecord /\ job[p] \in Jobs BY <1>1, RealRequest
<1>3. CASE Finish(p, "unknown", {}) /\ UNCHANGED attempts BY <1>1, <1>3, EndDoes DEF Says
<1>4. CASE Remember(p) /\ Continue(p, "lock", job[p]) /\ UNCHANGED lock
           /\ Key(p) \notin attempts[p] /\ Asked(p).named
  BY <1>1, <1>2, <1>4, RememberDoes, ContinueDoes DEF Frame, Workers, Steps
<1> QED BY <1>1, <1>3, <1>4 DEF Attempt

\* Acquire, pointwise: the lock is taken, or the request is refused.
LEMMA AcquireDoes ==
  ASSUME Base, NEW p \in Procs, Acquire(p)
  PROVE  /\ Frame(p) /\ ReadOnly /\ pc[p] = "lock"
         /\ \/ /\ Goes(p, IF ~Mark(p) /\ Asked(p).named THEN "guard" ELSE "source")
               /\ job'[p] = job[p] /\ lock = Nobody /\ lock' = p /\ attempts' = attempts
               /\ ~(Move(p) /\ "MOVE" \notin offers /\ ~Asked(p).named)
            \/ Refused(p)
<1>1. TypeOK /\ pc[p] = "lock" /\ ReadOnly BY DEF Base, Acquire
<1>2. Asked(p) \in RequestRecord /\ job[p] \in Jobs BY <1>1, RealRequest
<1>3. CASE Refuse(p) BY <1>1, <1>3, RefuseDoes
<1>4. CASE ~Refuse(p) BY <1>1, <1>2, <1>4, GoDoes DEF Acquire, Steps
<1> QED BY <1>3, <1>4

\* Guard, pointwise: it passes only where the destination holds no copy.
LEMMA GuardDoes ==
  ASSUME Base, NEW p \in Procs, Guard(p)
  PROVE  /\ Frame(p) /\ ReadOnly /\ pc[p] = "guard"
         /\ \/ /\ Goes(p, "source") /\ KeepsRequest(p) /\ KeepsPlan(p) /\ KeepsEvidence(p)
               /\ lock' = lock /\ attempts' = attempts /\ Holds(Asked(p).to) = {}
            \/ Ends(p, "unknown", {}) /\ Dropped(p)
<1>1. TypeOK /\ pc[p] = "guard" /\ ReadOnly BY DEF Base, Guard
<1>2. Asked(p) \in RequestRecord /\ job[p] \in Jobs BY <1>1, RealRequest
<1>3. CASE Finish(p, "unknown", {}) /\ Forget(p)
  BY <1>1, <1>3, FinishDoes, ForgetDoes DEF Frame, Workers, Says
<1>4. CASE /\ Holds(Asked(p).to) = {}
           /\ Continue(p, "source", [job[p] EXCEPT !.guarded = validity[Asked(p).to]])
           /\ UNCHANGED <<lock, attempts>>
 <2> DEFINE j == [job[p] EXCEPT !.guarded = validity[Asked(p).to]]
 <2>1. validity[Asked(p).to] \in Nat BY <1>1, <1>2 DEF TypeOK, RequestRecord
 <2>2. /\ j \in Jobs /\ j.target = job[p].target /\ j.ask = job[p].ask
       /\ j.retried = job[p].retried
       /\ j.selected = job[p].selected /\ j.plan = job[p].plan /\ j.outcome = job[p].outcome
       /\ j.effects = job[p].effects /\ j.copyuid = job[p].copyuid BY <1>2, <2>1 DEF Jobs
 <2>3. Continue(p, "source", j) BY <1>4
 <2> HIDE DEF j
 <2> QED BY <1>1, <1>4, <2>2, <2>3, GoDoes DEF Steps, KeepsRequest, KeepsPlan, KeepsEvidence
<1> QED BY <1>1, <1>3, <1>4 DEF Guard

\* A sequence of two.
LEMMA TwoOf == ASSUME NEW a, NEW b PROVE <<a>> \o <<b>> = <<a, b>>
<1>1. <<a>> \in Seq({a, b}) /\ b \in {a, b} OBVIOUS
<1>2. /\ Append(<<a>>, b) \in Seq({a, b}) /\ Len(Append(<<a>>, b)) = 2
      /\ Append(<<a>>, b)[1] = a /\ Append(<<a>>, b)[2] = b BY <1>1
<1>3. <<a, b>> \in Seq({a, b}) /\ Len(<<a, b>>) = 2 /\ <<a, b>>[1] = a /\ <<a, b>>[2] = b
  OBVIOUS
<1>4. \A i \in 1 .. 2 : Append(<<a>>, b)[i] = <<a, b>>[i] BY <1>2, <1>3
<1>5. Append(<<a>>, b) = <<a, b>> BY <1>2, <1>3, <1>4, SeqEqual
<1> QED BY <1>1, <1>5, AppendIsConcat

\* The phases of a request are the two parts of what is needed, where not empty,
\* and the removal comes first when it concerns the junk flags.
LEMMA PhasesAre ==
  ASSUME NEW r, NEW n, n.add \in SUBSET Flags, n.remove \in SUBSET Flags
  PROVE  LET add == [add |-> n.add, remove |-> {}]
             remove == [add |-> {}, remove |-> n.remove]
         IN /\ add \in Phase /\ remove \in Phase
            /\ \/ Phases(r, n) = <<>> /\ n.add = {} /\ n.remove = {}
               \/ Phases(r, n) = <<add>> /\ n.add # {} /\ n.remove = {}
               \/ Phases(r, n) = <<remove>> /\ n.add = {} /\ n.remove # {}
               \/ Phases(r, n) = <<add, remove>> /\ ~TouchesJunk(r) /\ n.add # {} /\ n.remove # {}
               \/ Phases(r, n) = <<remove, add>> /\ TouchesJunk(r) /\ n.add # {} /\ n.remove # {}
<1> DEFINE add == [add |-> n.add, remove |-> {}]
           remove == [add |-> {}, remove |-> n.remove]
           adds == IF n.add = {} THEN <<>> ELSE <<add>>
           removes == IF n.remove = {} THEN <<>> ELSE <<remove>>
<1>1. add = [NoPhase EXCEPT !.add = n.add] /\ remove = [NoPhase EXCEPT !.remove = n.remove]
  BY DEF NoPhase
<1>2. Phases(r, n) = IF TouchesJunk(r) THEN removes \o adds ELSE adds \o removes
  BY <1>1 DEF Phases
<1>3. add \in Phase /\ remove \in Phase BY DEF Phase
<1> HIDE DEF add, remove
<1>5. /\ <<>> \o <<>> = <<>> /\ <<>> \o <<add>> = <<add>> /\ <<add>> \o <<>> = <<add>>
      /\ <<>> \o <<remove>> = <<remove>> /\ <<remove>> \o <<>> = <<remove>>
      /\ <<add>> \o <<remove>> = <<add, remove>> /\ <<remove>> \o <<add>> = <<remove, add>>
 <2>1. <<>> \o <<>> = <<>> OBVIOUS
 <2>2. <<>> \o <<add>> = <<add>> OBVIOUS
 <2>3. <<add>> \o <<>> = <<add>> OBVIOUS
 <2>4. <<>> \o <<remove>> = <<remove>> OBVIOUS
 <2>5. <<remove>> \o <<>> = <<remove>> OBVIOUS
 <2>6. <<add>> \o <<remove>> = <<add, remove>> BY TwoOf
 <2>7. <<remove>> \o <<add>> = <<remove, add>> BY TwoOf
 <2> QED BY <2>1, <2>2, <2>3, <2>4, <2>5, <2>6, <2>7
<1>6. \/ Phases(r, n) = <<>> /\ n.add = {} /\ n.remove = {}
      \/ Phases(r, n) = <<add>> /\ n.add # {} /\ n.remove = {}
      \/ Phases(r, n) = <<remove>> /\ n.add = {} /\ n.remove # {}
      \/ Phases(r, n) = <<add, remove>> /\ ~TouchesJunk(r) /\ n.add # {} /\ n.remove # {}
      \/ Phases(r, n) = <<remove, add>> /\ TouchesJunk(r) /\ n.add # {} /\ n.remove # {}
  BY <1>2, <1>5
<1> QED BY <1>3, <1>6 DEF add, remove

\* Phases are a sequence of phases.
LEMMA PhasesType ==
  ASSUME NEW r, NEW n, n.add \in SUBSET Flags, n.remove \in SUBSET Flags
  PROVE  Phases(r, n) \in Seq(Phase)
<1> DEFINE add == [add |-> n.add, remove |-> {}]
           remove == [add |-> {}, remove |-> n.remove]
<1>1. add \in Phase /\ remove \in Phase BY DEF Phase
<1>2. Phases(r, n) \in {<<>>, <<add>>, <<remove>>, <<add, remove>>, <<remove, add>>}
  BY PhasesAre
<1> HIDE DEF add, remove
<1>3. /\ <<>> \in Seq(Phase) /\ <<add>> \in Seq(Phase) /\ <<remove>> \in Seq(Phase)
      /\ <<add, remove>> \in Seq(Phase) /\ <<remove, add>> \in Seq(Phase) BY <1>1
<1> QED BY <1>2, <1>3

\* Source, pointwise: it goes on in the generation of the target, or retries.
LEMMA SourceDoes ==
  ASSUME Base, NEW p \in Procs, Source(p)
  PROVE  /\ Frame(p) /\ ReadOnly /\ pc[p] = "source"
         /\ \/ /\ Goes(p, "dispatch") /\ KeepsRequest(p) /\ KeepsEvidence(p)
               /\ job'[p].selected = validity[Asked(p).from]
               /\ job[p].target.validity = validity[Asked(p).from]
               /\ lock' = lock /\ attempts' = attempts /\ (Copy(p) \/ Move(p))
            \/ /\ Goes(p, "store") /\ KeepsRequest(p) /\ KeepsEvidence(p)
               /\ job'[p].selected = validity[Asked(p).from]
               /\ job[p].target.validity = validity[Asked(p).from]
               /\ lock' = lock /\ attempts' = attempts /\ Mark(p)
               /\ \E m \in At(Asked(p).from, job[p].target.uid) :
                    /\ job'[p].plan = Phases(Asked(p), Needed(Asked(p), m.flags))
                    /\ job'[p].plan # <<>>
            \/ Ends(p, "completed", {}) /\ attempts' = attempts
            \/ /\ Goes(p, "resolve") /\ Dropped(p)
               /\ lock' = (IF lock = p THEN Nobody ELSE lock)
               /\ job'[p] = [NewJob(Asked(p)) EXCEPT !.retried = TRUE]
               /\ ~job[p].retried
               /\ (job[p].target.validity = 0 \/ job[p].target.validity # validity[Asked(p).from])
            \/ Refused(p)
<1> DEFINE b == Asked(p).from
           selected == [job[p] EXCEPT !.selected = validity[b]]
           plan(m) == Phases(Asked(p), Needed(Asked(p), m.flags))
<1>1. TypeOK /\ pc[p] = "source" /\ ReadOnly BY DEF Base, Source
<1>2. Asked(p) \in RequestRecord /\ job[p] \in Jobs BY <1>1, RealRequest
<1>3. b \in Boxes /\ validity[b] \in Nat BY <1>1, <1>2 DEF TypeOK, RequestRecord
<1>4. /\ selected \in Jobs /\ selected.target = job[p].target /\ selected.ask = job[p].ask
      /\ selected.retried = job[p].retried /\ selected.selected = validity[b]
      /\ selected.outcome = job[p].outcome
      /\ selected.effects = job[p].effects /\ selected.copyuid = job[p].copyuid
  BY <1>2, <1>3 DEF Jobs
<1>5. CASE Refuse(p) BY <1>1, <1>5, RefuseDoes
<1>6. CASE /\ CheckUIDValidity(job[p].target.validity, validity[b]) /\ (Copy(p) \/ Move(p))
           /\ Continue(p, "dispatch", selected) /\ UNCHANGED <<lock, attempts>>
 <2> HIDE DEF selected
 <2> QED BY <1>1, <1>4, <1>6, GoDoes DEF Steps, KeepsRequest, KeepsEvidence, CheckUIDValidity
<1>7. ASSUME CheckUIDValidity(job[p].target.validity, validity[b]), Mark(p),
             NEW m \in At(b, job[p].target.uid), plan(m) # <<>>,
             Continue(p, "store", [selected EXCEPT !.plan = plan(m)]), UNCHANGED <<lock, attempts>>
      PROVE  /\ Goes(p, "store") /\ KeepsRequest(p) /\ KeepsEvidence(p) /\ Frame(p)
             /\ job'[p].selected = validity[Asked(p).from]
             /\ job[p].target.validity = validity[Asked(p).from]
             /\ lock' = lock /\ attempts' = attempts /\ Mark(p)
             /\ job'[p].plan = plan(m) /\ job'[p].plan # <<>>
 <2> DEFINE j == [selected EXCEPT !.plan = plan(m)]
 <2>1. plan(m) \in Seq(Phase)
  <3>1. m \in Messages BY <1>1, <1>3, <1>7 DEF TypeOK, At
  <3>2. /\ Needed(Asked(p), m.flags).add \in SUBSET Flags
        /\ Needed(Asked(p), m.flags).remove \in SUBSET Flags
    BY <1>2, <3>1 DEF Needed, RequestRecord, Messages
  <3> QED BY <3>2, PhasesType
 <2>2. /\ j \in Jobs /\ j.target = job[p].target /\ j.ask = job[p].ask
       /\ j.retried = job[p].retried /\ j.selected = validity[b] /\ j.plan = plan(m)
       /\ j.outcome = job[p].outcome /\ j.effects = job[p].effects
       /\ j.copyuid = job[p].copyuid
  <3> HIDE DEF plan, selected
  <3> QED BY <1>4, <2>1 DEF Jobs
 <2>3. Continue(p, "store", j) BY <1>7
 <2> HIDE DEF j, plan, selected
 <2> QED
   BY <1>1, <1>7, <2>2, <2>3, GoDoes DEF Steps, KeepsRequest, KeepsEvidence, CheckUIDValidity
<1>8. CASE Finish(p, "completed", {}) /\ UNCHANGED attempts BY <1>1, <1>8, EndDoes DEF Says
<1>9. CASE /\ ~CheckUIDValidity(job[p].target.validity, validity[b]) /\ ~job[p].retried
           /\ Continue(p, "resolve", [NewJob(Asked(p)) EXCEPT !.retried = TRUE])
           /\ Forget(p) /\ Unlock(p)
 <2> DEFINE j == [NewJob(Asked(p)) EXCEPT !.retried = TRUE]
 <2>1. j \in Jobs
  <3>1. NewJob(Asked(p)) \in Jobs BY <1>2, NewJobType
  <3> QED BY <3>1 DEF Jobs
 <2>2. Continue(p, "resolve", j) BY <1>9
 <2>3. /\ Goes(p, "resolve") /\ job'[p] = j
       /\ \A q \in Procs \ {p} : /\ pc'[q] = pc[q] /\ job'[q] = job[q]
                                 /\ report'[q] = report[q] /\ runs'[q] = runs[q]
       /\ pc' \in [Procs -> Steps] /\ job' \in [Procs -> Jobs]
       /\ report' \in [Procs -> Reports] /\ runs' \in [Procs -> Nat]
  <3> HIDE DEF j
  <3> QED BY <1>1, <2>1, <2>2, ContinueDoes DEF Steps
 <2>4. /\ Dropped(p) /\ attempts' \in [Procs -> SUBSET Keys]
       /\ \A q \in Procs \ {p} : attempts'[q] = attempts[q] BY <1>1, <1>9, ForgetDoes
 <2> HIDE DEF j
 <2>5. Frame(p) BY <2>3, <2>4 DEF Frame, Workers
 <2>6. job[p].target.validity = 0 \/ job[p].target.validity # validity[b]
   BY <1>9 DEF CheckUIDValidity
 <2>7. lock' = IF lock = p THEN Nobody ELSE lock BY <1>9 DEF Unlock
 <2> QED BY <1>1, <1>9, <2>3, <2>4, <2>5, <2>6, <2>7 DEF j
<1> HIDE DEF selected, plan
<1>10. \/ Refuse(p)
       \/ /\ CheckUIDValidity(job[p].target.validity, validity[b]) /\ (Copy(p) \/ Move(p))
          /\ Continue(p, "dispatch", selected) /\ UNCHANGED <<lock, attempts>>
       \/ /\ CheckUIDValidity(job[p].target.validity, validity[b]) /\ Mark(p)
          /\ \E m \in At(b, job[p].target.uid) :
               /\ plan(m) # <<>>
               /\ Continue(p, "store", [selected EXCEPT !.plan = plan(m)])
               /\ UNCHANGED <<lock, attempts>>
       \/ Finish(p, "completed", {}) /\ UNCHANGED attempts
       \/ /\ ~CheckUIDValidity(job[p].target.validity, validity[b]) /\ ~job[p].retried
          /\ Continue(p, "resolve", [NewJob(Asked(p)) EXCEPT !.retried = TRUE])
          /\ Forget(p) /\ Unlock(p) BY DEF Source, selected, plan
<1>11. CASE /\ CheckUIDValidity(job[p].target.validity, validity[b]) /\ Mark(p)
            /\ \E m \in At(b, job[p].target.uid) :
                 /\ plan(m) # <<>>
                 /\ Continue(p, "store", [selected EXCEPT !.plan = plan(m)])
                 /\ UNCHANGED <<lock, attempts>>
 <2>1. PICK m \in At(b, job[p].target.uid) :
         /\ plan(m) # <<>>
         /\ Continue(p, "store", [selected EXCEPT !.plan = plan(m)])
         /\ UNCHANGED <<lock, attempts>> BY <1>11
 <2>2. /\ Goes(p, "store") /\ KeepsRequest(p) /\ KeepsEvidence(p) /\ Frame(p)
       /\ job'[p].selected = validity[Asked(p).from]
       /\ job[p].target.validity = validity[Asked(p).from]
       /\ lock' = lock /\ attempts' = attempts /\ Mark(p)
       /\ job'[p].plan = plan(m) /\ job'[p].plan # <<>> BY <1>7, <1>11, <2>1
 <2>3. job'[p].plan = Phases(Asked(p), Needed(Asked(p), m.flags)) BY <2>2 DEF plan
 <2> QED BY <1>1, <2>2, <2>3
<1> QED BY <1>1, <1>5, <1>6, <1>8, <1>9, <1>10, <1>11

\* The command a process is about to send.
Cmd(p) ==
  Command(p, CASE pc[p] = "store" -> "store" [] pc[p] = "expunge" -> "expunge"
               [] OTHER -> IF Copy(p) \/ "MOVE" \notin offers THEN "copy" ELSE "move",
             IF pc[p] = "store" THEN Head(job[p].plan) ELSE NoPhase)
Sending == {"dispatch", "store", "expunge"}

\* Its reply is lost: it runs now, later, or never.
Lost(c) == \/ Execute(c) /\ late' = late
           \/ Ignore /\ late' = late \cup {c}
           \/ Ignore /\ late' = late
Asks == UNCHANGED <<known, lateRan, removed, added, offers>>

\* What a process sends is a command, for its request.
LEMMA CmdIs ==
  ASSUME Base, NEW p \in Procs, pc[p] \in Sending
  PROVE  /\ Cmd(p) \in Commands /\ Cmd(p).by = p /\ Cmd(p).run = runs[p]
         /\ Cmd(p).named = Asked(p).named /\ Cmd(p).from = Asked(p).from
         /\ Cmd(p).to = Asked(p).to /\ Cmd(p).uid = job[p].target.uid
         /\ Cmd(p).validity = job[p].selected
         /\ Cmd(p).kind = (CASE pc[p] = "store" -> "store" [] pc[p] = "expunge" -> "expunge"
                             [] OTHER -> IF Copy(p) \/ "MOVE" \notin offers
                                         THEN "copy" ELSE "move")
         /\ Cmd(p).add = (IF pc[p] = "store" THEN Head(job[p].plan).add ELSE {})
         /\ Cmd(p).remove = (IF pc[p] = "store" THEN Head(job[p].plan).remove ELSE {})
         /\ (Arrives(Cmd(p)) => Cmd(p).from # Cmd(p).to) /\ lock = p
         /\ (pc[p] = "store" => Head(job[p].plan) \in Phase)
<1>1. Asked(p) \in RequestRecord /\ job[p] \in Jobs /\ job[p].ask = Asked(p)
  BY RealRequest DEF Sending
<1>2. pc[p] = "store" => Head(job[p].plan) \in Phase
 <2>1. job[p].plan \in Seq(Phase) BY <1>1 DEF Jobs
 <2>2. pc[p] = "store" => job[p].plan # <<>> BY DEF Base, Shape
 <2> QED BY <2>1, <2>2
<1>3. NoPhase \in Phase /\ NoPhase.add = {} /\ NoPhase.remove = {} BY DEF NoPhase, Phase
<1>4. runs[p] \in Nat BY DEF Base, TypeOK
<1>5. lock = p BY DEF Base, Holder, Critical, Sending, Steps
<1>6. Asked(p) \in Requests BY DEF Base, Shape, Sending
<1>7. pc[p] = "dispatch" => Asked(p).from # Asked(p).to
  BY <1>6, MutationAssumption DEF Base, Shape, Mark
<1> DEFINE kind == CASE pc[p] = "store" -> "store" [] pc[p] = "expunge" -> "expunge"
                     [] OTHER -> IF Copy(p) \/ "MOVE" \notin offers THEN "copy" ELSE "move"
           phase == IF pc[p] = "store" THEN Head(job[p].plan) ELSE NoPhase
<1>8. kind \in Kinds /\ phase \in Phase BY <1>2, <1>3 DEF Kinds
<1>9. Cmd(p) = Command(p, kind, phase) BY DEF Cmd
<1>10. /\ phase.add = IF pc[p] = "store" THEN Head(job[p].plan).add ELSE {}
       /\ phase.remove = IF pc[p] = "store" THEN Head(job[p].plan).remove ELSE {} BY <1>3
<1>11. kind \in {"copy", "move"} => pc[p] = "dispatch" BY DEF Sending
<1> HIDE DEF phase
<1>12. /\ Cmd(p).by = p /\ Cmd(p).run = runs[p] /\ Cmd(p).named = Asked(p).named
       /\ Cmd(p).kind = kind /\ Cmd(p).from = Asked(p).from /\ Cmd(p).to = Asked(p).to
       /\ Cmd(p).uid = job[p].target.uid /\ Cmd(p).validity = job[p].selected
       /\ Cmd(p).add = phase.add /\ Cmd(p).remove = phase.remove BY <1>9 DEF Command, Asked
<1>13. Cmd(p) \in Commands
 <2> HIDE DEF kind
 <2> QED BY <1>1, <1>4, <1>8, <1>9 DEF Command, Asked, Commands, RequestRecord, Jobs, Targets,
            Phase
<1>14. Arrives(Cmd(p)) => Cmd(p).from # Cmd(p).to BY <1>7, <1>11, <1>12 DEF Arrives
<1> QED BY <1>2, <1>5, <1>10, <1>12, <1>13, <1>14

\* A reply that is lost.
LEMMA LoseDoes == ASSUME NEW c, Lose(c) PROVE Lost(c) BY DEF Lose, Lost

\* What COPYUID says.
LEMMA CopyUIDsAre ==
  ASSUME Base, NEW c \in Commands, NEW code \in CopyUIDs(c)
  PROVE  code \in Nat \X Nat /\ (code # <<0, 0>> => Subjects(c) # {})
<1>1. validity[c.to] \in Nat /\ next[c.to] \in Nat BY DEF Base, TypeOK, Commands
<1> QED BY <1>1 DEF CopyUIDs

\* DispatchCopy, pointwise: every way a UID COPY may go.
LEMMA DispatchCopyDoes ==
  ASSUME Base, NEW p \in Procs, DispatchCopy(p)
  PROVE  /\ Frame(p) /\ Asks /\ pc[p] = "dispatch" /\ Copy(p)
         /\ \/ Refused(p) /\ Ignore /\ late' = late /\ sent' = sent
            \/ /\ Goes(p, "verify") /\ KeepsRequest(p) /\ KeepsPlan(p)
               /\ job'[p].effects = job[p].effects /\ attempts' = attempts
               /\ lock' = IF lock = p THEN Nobody ELSE lock
               /\ \/ /\ Execute(Cmd(p)) /\ late' = late /\ sent' = sent
                     /\ job'[p].outcome = "completed"
                  \/ /\ Lost(Cmd(p)) /\ sent' = sent \cup {Sent(p)}
                     /\ job'[p].outcome = "unknown"
<1> DEFINE c == Command(p, "copy", NoPhase)
<1>1. TypeOK /\ pc[p] = "dispatch" /\ Copy(p) /\ Asks BY DEF Base, DispatchCopy, Asks
<1>2. Asked(p) \in RequestRecord /\ job[p] \in Jobs BY <1>1, RealRequest
<1>3. c = Cmd(p) BY <1>1 DEF Cmd
<1>4. Cmd(p) \in Commands BY <1>1, CmdIs DEF Sending
<1> HIDE DEF c
<1>5. CASE NotDispatched(p) /\ UNCHANGED sent BY <1>1, <1>5, RefuseDoes DEF NotDispatched
<1>6. ASSUME NEW code \in CopyUIDs(c), Answered(c), UNCHANGED <<sent, attempts>>, Unlock(p),
             Continue(p, "verify", [job[p] EXCEPT !.outcome = "completed", !.copyuid = code])
      PROVE  /\ Frame(p) /\ Goes(p, "verify") /\ KeepsRequest(p) /\ KeepsPlan(p)
             /\ job'[p].effects = job[p].effects /\ attempts' = attempts
             /\ lock' = (IF lock = p THEN Nobody ELSE lock)
             /\ Execute(Cmd(p)) /\ late' = late /\ sent' = sent
             /\ job'[p].outcome = "completed"
 <2> DEFINE j == [job[p] EXCEPT !.outcome = "completed", !.copyuid = code]
 <2>1. code \in Nat \X Nat BY <1>3, <1>4, <1>6, CopyUIDsAre
 <2>2. /\ j \in Jobs /\ j.target = job[p].target /\ j.ask = job[p].ask
       /\ j.retried = job[p].retried /\ j.selected = job[p].selected
       /\ j.plan = job[p].plan /\ j.outcome = "completed" /\ j.effects = job[p].effects
   BY <1>2, <2>1 DEF Jobs, Outcomes
 <2>3. Continue(p, "verify", j) BY <1>6
 <2> HIDE DEF j
 <2> QED
   BY <1>1, <1>3, <1>6, <2>2, <2>3, GoDoes DEF Steps, KeepsRequest, KeepsPlan, Unlock, Answered
<1>7. CASE /\ Lose(c) /\ sent' = sent \cup {[by |-> p, key |-> Key(p)]}
           /\ Continue(p, "verify", [job[p] EXCEPT !.outcome = "unknown"])
           /\ Unlock(p) /\ UNCHANGED attempts
 <2> DEFINE j == [job[p] EXCEPT !.outcome = "unknown"]
 <2>1. /\ j \in Jobs /\ j.target = job[p].target /\ j.ask = job[p].ask
       /\ j.retried = job[p].retried /\ j.selected = job[p].selected
       /\ j.plan = job[p].plan /\ j.outcome = "unknown" /\ j.effects = job[p].effects
   BY <1>2 DEF Jobs, Outcomes
 <2>2. Continue(p, "verify", j) BY <1>7
 <2>3. Lost(Cmd(p)) BY <1>3, <1>7, LoseDoes
 <2> HIDE DEF j
 <2> QED
   BY <1>1, <1>7, <2>1, <2>2, <2>3, GoDoes DEF Steps, KeepsRequest, KeepsPlan, Unlock, Sent
<1>8. \/ NotDispatched(p) /\ UNCHANGED sent
      \/ \E code \in CopyUIDs(c) :
           /\ Answered(c) /\ UNCHANGED <<sent, attempts>> /\ Unlock(p)
           /\ Continue(p, "verify", [job[p] EXCEPT !.outcome = "completed", !.copyuid = code])
      \/ /\ Lose(c) /\ sent' = sent \cup {[by |-> p, key |-> Key(p)]}
         /\ Continue(p, "verify", [job[p] EXCEPT !.outcome = "unknown"])
         /\ Unlock(p) /\ UNCHANGED attempts BY DEF DispatchCopy, c
<1>9. CASE \E code \in CopyUIDs(c) :
             /\ Answered(c) /\ UNCHANGED <<sent, attempts>> /\ Unlock(p)
             /\ Continue(p, "verify", [job[p] EXCEPT !.outcome = "completed", !.copyuid = code])
  BY <1>1, <1>6, <1>9
<1> QED BY <1>1, <1>5, <1>7, <1>8, <1>9

\* VerifyCopy, pointwise: it confirms, or leaves the attempt unresolved.
LEMMA VerifyCopyDoes ==
  ASSUME Base, NEW p \in Procs, VerifyCopy(p)
  PROVE  /\ Frame(p) /\ ReadOnly /\ pc[p] = "verify"
         /\ \/ /\ Ends(p, "completed", {"copy"}) /\ Dropped(p)
               /\ job[p].outcome = "completed" /\ Cardinality(Holds(Asked(p).to)) = 1
            \/ Ends(p, "unknown", {}) /\ Noted(p)
<1>1. TypeOK /\ pc[p] = "verify" /\ ReadOnly BY DEF Base, VerifyCopy
<1>2. Asked(p) \in RequestRecord /\ job[p] \in Jobs BY <1>1, RealRequest
<1>3. CASE /\ Finish(p, "completed", {"copy"}) /\ Forget(p)
           /\ job[p].outcome = "completed" /\ Cardinality(Holds(Asked(p).to)) = 1
  BY <1>1, <1>3, FinishDoes, ForgetDoes DEF Frame, Workers, Says, Told
<1>4. CASE Finish(p, "unknown", {}) /\ Remember(p)
  BY <1>1, <1>2, <1>4, FinishDoes, RememberDoes DEF Frame, Workers, Says
<1> QED BY <1>3, <1>4 DEF VerifyCopy

\* DispatchMove, pointwise: every way a UID MOVE may go.
LEMMA DispatchMoveDoes ==
  ASSUME Base, NEW p \in Procs, DispatchMove(p)
  PROVE  /\ Frame(p) /\ Asks /\ sent' = sent /\ pc[p] = "dispatch" /\ Move(p)
         /\ "MOVE" \in offers
         /\ \/ Refused(p) /\ Ignore /\ late' = late
            \/ /\ Goes(p, "absent") /\ KeepsRequest(p) /\ KeepsPlan(p)
               /\ job'[p].effects = job[p].effects /\ attempts' = attempts /\ lock' = lock
               /\ job'[p].outcome \in {"completed", "unknown"}
               /\ \/ /\ Execute(Cmd(p)) /\ late' = late
                     /\ job'[p].copyuid # <<0, 0>> => Subjects(Cmd(p)) # {}
                  \/ /\ Ignore /\ late' = late /\ job'[p].copyuid = job[p].copyuid
            \/ Lost(Cmd(p)) /\ Ends(p, "unknown", {}) /\ attempts' = attempts
<1> DEFINE c == Command(p, "move", NoPhase)
<1>1. /\ TypeOK /\ pc[p] = "dispatch" /\ Move(p) /\ Asks /\ sent' = sent /\ "MOVE" \in offers
  BY DEF Base, DispatchMove, Asks
<1>2. Asked(p) \in RequestRecord /\ job[p] \in Jobs BY <1>1, RealRequest
<1>3. c = Cmd(p) BY <1>1 DEF Cmd, Copy, Move
<1>4. Cmd(p) \in Commands BY <1>1, CmdIs DEF Sending
<1> HIDE DEF c
<1>5. CASE NotDispatched(p) BY <1>1, <1>5, RefuseDoes DEF NotDispatched
<1>6. ASSUME NEW code \in CopyUIDs(c), Answered(c), UNCHANGED <<lock, attempts>>,
             Continue(p, "absent", [job[p] EXCEPT !.outcome = "completed", !.copyuid = code])
      PROVE  /\ Frame(p) /\ Goes(p, "absent") /\ KeepsRequest(p) /\ KeepsPlan(p)
             /\ job'[p].effects = job[p].effects /\ attempts' = attempts /\ lock' = lock
             /\ job'[p].outcome = "completed" /\ Execute(Cmd(p)) /\ late' = late
             /\ job'[p].copyuid # <<0, 0>> => Subjects(Cmd(p)) # {}
 <2> DEFINE j == [job[p] EXCEPT !.outcome = "completed", !.copyuid = code]
 <2>1. code \in Nat \X Nat /\ (code # <<0, 0>> => Subjects(Cmd(p)) # {})
   BY <1>3, <1>4, <1>6, CopyUIDsAre
 <2>2. /\ j \in Jobs /\ j.target = job[p].target /\ j.ask = job[p].ask
       /\ j.retried = job[p].retried /\ j.selected = job[p].selected
       /\ j.plan = job[p].plan /\ j.copyuid = code /\ j.effects = job[p].effects
       /\ j.outcome = "completed" BY <1>2, <2>1 DEF Jobs, Outcomes
 <2>3. Continue(p, "absent", j) BY <1>6
 <2> HIDE DEF j
 <2> QED
   BY <1>1, <1>3, <1>6, <2>1, <2>2, <2>3, GoDoes DEF Steps, KeepsRequest, KeepsPlan, Answered
<1>7. CASE /\ Ignore /\ UNCHANGED <<late, faults>>
           /\ Continue(p, "absent", [job[p] EXCEPT !.outcome = "unknown"])
           /\ UNCHANGED <<lock, attempts>>
 <2> DEFINE j == [job[p] EXCEPT !.outcome = "unknown"]
 <2>1. /\ j \in Jobs /\ j.target = job[p].target /\ j.ask = job[p].ask
       /\ j.retried = job[p].retried /\ j.selected = job[p].selected
       /\ j.plan = job[p].plan /\ j.copyuid = job[p].copyuid /\ j.effects = job[p].effects
       /\ j.outcome = "unknown" BY <1>2 DEF Jobs, Outcomes
 <2>2. Continue(p, "absent", j) BY <1>7
 <2> HIDE DEF j
 <2> QED BY <1>1, <1>7, <2>1, <2>2, GoDoes DEF Steps, KeepsRequest, KeepsPlan
<1>8. CASE Lose(c) /\ Finish(p, "unknown", {}) /\ UNCHANGED attempts
  BY <1>1, <1>3, <1>8, LoseDoes, EndDoes DEF Says
<1>9. \/ NotDispatched(p)
      \/ \E code \in CopyUIDs(c) :
           /\ Answered(c) /\ UNCHANGED <<lock, attempts>>
           /\ Continue(p, "absent", [job[p] EXCEPT !.outcome = "completed", !.copyuid = code])
      \/ /\ Ignore /\ UNCHANGED <<late, faults>>
         /\ Continue(p, "absent", [job[p] EXCEPT !.outcome = "unknown"])
         /\ UNCHANGED <<lock, attempts>>
      \/ Lose(c) /\ Finish(p, "unknown", {}) /\ UNCHANGED attempts BY DEF DispatchMove, c
<1>10. CASE \E code \in CopyUIDs(c) :
              /\ Answered(c) /\ UNCHANGED <<lock, attempts>>
              /\ Continue(p, "absent", [job[p] EXCEPT !.outcome = "completed", !.copyuid = code])
  BY <1>1, <1>6, <1>10
<1> QED BY <1>1, <1>5, <1>7, <1>8, <1>9, <1>10

\* CheckAbsent, pointwise: the source is found empty, or not.
LEMMA CheckAbsentDoes ==
  ASSUME Base, NEW p \in Procs, CheckAbsent(p)
  PROVE  /\ Frame(p) /\ ReadOnly /\ attempts' = attempts /\ pc[p] = "absent"
         /\ \/ /\ Goes(p, "arrived") /\ KeepsRequest(p) /\ KeepsPlan(p) /\ lock' = lock
               /\ job'[p].outcome = job[p].outcome /\ job'[p].copyuid = job[p].copyuid
               /\ job'[p].effects \subseteq {"gone"}
            \/ Ends(p, "unknown", {})
<1>1. TypeOK /\ pc[p] = "absent" /\ ReadOnly /\ attempts' = attempts BY DEF Base, CheckAbsent
<1>2. Asked(p) \in RequestRecord /\ job[p] \in Jobs BY <1>1, RealRequest
<1>3. CASE Finish(p, "unknown", {}) BY <1>1, <1>3, EndDoes DEF Says
<1>4. ASSUME NEW gone \in SUBSET {"gone"}, lock' = lock,
             Continue(p, "arrived", [job[p] EXCEPT !.effects = gone])
      PROVE  /\ Frame(p) /\ Goes(p, "arrived") /\ KeepsRequest(p) /\ KeepsPlan(p)
             /\ lock' = lock
             /\ job'[p].outcome = job[p].outcome /\ job'[p].copyuid = job[p].copyuid
             /\ job'[p].effects \subseteq {"gone"}
 <2> DEFINE j == [job[p] EXCEPT !.effects = gone]
 <2>1. /\ j \in Jobs /\ j.target = job[p].target /\ j.ask = job[p].ask
       /\ j.retried = job[p].retried /\ j.selected = job[p].selected
       /\ j.plan = job[p].plan /\ j.copyuid = job[p].copyuid /\ j.effects = gone
       /\ j.outcome = job[p].outcome BY <1>2, <1>4 DEF Jobs, Effects
 <2>2. Continue(p, "arrived", j) BY <1>4
 <2> HIDE DEF j
 <2> QED BY <1>1, <1>4, <2>1, <2>2, GoDoes DEF Steps, KeepsRequest, KeepsPlan
<1>5. \/ Finish(p, "unknown", {})
      \/ \E gone \in SUBSET {"gone"} :
           lock' = lock /\ Continue(p, "arrived", [job[p] EXCEPT !.effects = gone])
 <2>1. ASSUME NEW gone \in {{}} \cup (IF SourceAbsent(p) THEN {{"gone"}} ELSE {})
       PROVE  gone \in SUBSET {"gone"} BY <2>1
 <2> QED BY <2>1 DEF CheckAbsent
<1> QED BY <1>1, <1>3, <1>4, <1>5

\* CheckArrived, pointwise: what the destination shows decides.
LEMMA CheckArrivedDoes ==
  ASSUME Base, NEW p \in Procs, CheckArrived(p)
  PROVE  /\ Frame(p) /\ ReadOnly /\ attempts' = attempts /\ pc[p] = "arrived"
         /\ \/ /\ DestinationVerified(p) /\ "MOVE" \in offers
               /\ \E says \in {"completed", "unknown"} :
                    \/ Ends(p, says, {"copy", "move"}) /\ job[p].effects = {"gone"}
                    \/ Ends(p, says, {"copy"})
            \/ /\ DestinationVerified(p) /\ "MOVE" \notin offers
               /\ Goes(p, "again") /\ KeepsRequest(p) /\ KeepsPlan(p) /\ lock' = lock
               /\ job'[p].outcome = job[p].outcome /\ job'[p].copyuid = job[p].copyuid
               /\ job'[p].effects = {"copy"}
            \/ Ends(p, "unknown", {})
<1>1. TypeOK /\ pc[p] = "arrived" /\ ReadOnly /\ attempts' = attempts BY DEF Base, CheckArrived
<1>2. Asked(p) \in RequestRecord /\ job[p] \in Jobs BY <1>1, RealRequest
<1>3. CASE Finish(p, "unknown", {}) BY <1>1, <1>3, EndDoes DEF Says
<1>4. CASE /\ DestinationVerified(p) /\ "MOVE" \notin offers /\ lock' = lock
           /\ Continue(p, "again", [job[p] EXCEPT !.effects = {"copy"}])
 <2> DEFINE j == [job[p] EXCEPT !.effects = {"copy"}]
 <2>1. /\ j \in Jobs /\ j.target = job[p].target /\ j.ask = job[p].ask
       /\ j.retried = job[p].retried /\ j.selected = job[p].selected
       /\ j.plan = job[p].plan /\ j.copyuid = job[p].copyuid /\ j.effects = {"copy"}
       /\ j.outcome = job[p].outcome BY <1>2 DEF Jobs, Effects
 <2>2. Continue(p, "again", j) BY <1>4
 <2> HIDE DEF j
 <2> QED BY <1>1, <1>4, <2>1, <2>2, GoDoes DEF Steps, KeepsRequest, KeepsPlan
<1>5. CASE /\ DestinationVerified(p) /\ "MOVE" \in offers
           /\ Finish(p, IF job[p].effects = {"gone"} THEN job[p].outcome ELSE "unknown",
                     IF job[p].effects = {"gone"} THEN {"copy", "move"} ELSE {"copy"})
 <2>1. job[p].outcome \in {"completed", "unknown"} BY <1>1, <1>5 DEF Base, Shape
 <2>2. CASE job[p].effects = {"gone"}
  <3>1. Finish(p, job[p].outcome, {"copy", "move"}) BY <1>5, <2>2
  <3>2. Frame(p) /\ Ends(p, job[p].outcome, {"copy", "move"})
    BY <1>1, <2>1, <3>1, EndDoes DEF Says, Told
  <3> QED BY <1>1, <1>5, <2>1, <2>2, <3>2
 <2>3. CASE job[p].effects # {"gone"}
  <3>1. Finish(p, "unknown", {"copy"}) BY <1>5, <2>3
  <3>2. Frame(p) /\ Ends(p, "unknown", {"copy"}) BY <1>1, <3>1, EndDoes DEF Says, Told
  <3> QED BY <1>1, <1>5, <3>2
 <2> QED BY <2>2, <2>3
<1> QED BY <1>1, <1>3, <1>4, <1>5 DEF CheckArrived

\* FallbackCopy, pointwise: the first phase of a MOVE without MOVE.
LEMMA FallbackCopyDoes ==
  ASSUME Base, NEW p \in Procs, FallbackCopy(p)
  PROVE  /\ Frame(p) /\ Asks /\ sent' = sent /\ pc[p] = "dispatch" /\ Move(p)
         /\ "MOVE" \notin offers
         /\ \/ Refused(p) /\ Ignore /\ late' = late
            \/ /\ Execute(Cmd(p)) /\ late' = late /\ attempts' = attempts
               /\ \/ Goes(p, "arrived") /\ job'[p] = job[p] /\ lock' = lock
                  \/ /\ Goes(p, "again") /\ KeepsRequest(p) /\ KeepsPlan(p) /\ lock' = lock
                     /\ job'[p].copyuid = job[p].copyuid /\ job'[p].effects = {"copy"}
                     /\ Subjects(Cmd(p)) # {}
                  \/ Ends(p, "unknown", {})
            \/ Lost(Cmd(p)) /\ Ends(p, "unknown", {}) /\ attempts' = attempts
<1> DEFINE c == Command(p, "copy", NoPhase)
<1>1. /\ TypeOK /\ pc[p] = "dispatch" /\ Move(p) /\ Asks /\ sent' = sent
      /\ "MOVE" \notin offers BY DEF Base, FallbackCopy, Asks
<1>2. Asked(p) \in RequestRecord /\ job[p] \in Jobs BY <1>1, RealRequest
<1>3. c = Cmd(p) BY <1>1 DEF Cmd
<1> HIDE DEF c
<1>4. CASE NotDispatched(p) BY <1>1, <1>4, RefuseDoes DEF NotDispatched
<1>5. CASE Answered(c) /\ UNCHANGED <<attempts, lock>> /\ Continue(p, "arrived", job[p])
  BY <1>1, <1>2, <1>3, <1>5, GoDoes DEF Answered, Steps
<1>6. CASE /\ Answered(c) /\ UNCHANGED <<attempts, lock>> /\ Subjects(c) # {}
           /\ Continue(p, "again", [job[p] EXCEPT !.effects = {"copy"}])
 <2> DEFINE j == [job[p] EXCEPT !.effects = {"copy"}]
 <2>1. /\ j \in Jobs /\ j.target = job[p].target /\ j.ask = job[p].ask
       /\ j.retried = job[p].retried /\ j.selected = job[p].selected
       /\ j.plan = job[p].plan /\ j.copyuid = job[p].copyuid /\ j.effects = {"copy"}
   BY <1>2 DEF Jobs, Effects
 <2>2. Continue(p, "again", j) BY <1>6
 <2> HIDE DEF j
 <2> QED BY <1>1, <1>3, <1>6, <2>1, <2>2, GoDoes DEF Steps, KeepsRequest, KeepsPlan, Answered
<1>7. CASE Answered(c) /\ UNCHANGED attempts /\ Finish(p, "unknown", {})
  BY <1>1, <1>3, <1>7, EndDoes DEF Says, Answered
<1>8. CASE Lose(c) /\ Finish(p, "unknown", {}) /\ UNCHANGED attempts
  BY <1>1, <1>3, <1>8, LoseDoes, EndDoes DEF Says
<1> QED BY <1>4, <1>5, <1>6, <1>7, <1>8 DEF FallbackCopy, c

\* SourceAgain, pointwise: the same generation, or the request ends.
LEMMA SourceAgainDoes ==
  ASSUME Base, NEW p \in Procs, SourceAgain(p)
  PROVE  /\ Frame(p) /\ ReadOnly /\ attempts' = attempts /\ pc[p] = "again"
         /\ \/ /\ Goes(p, "store") /\ KeepsRequest(p) /\ KeepsEvidence(p) /\ lock' = lock
               /\ job'[p].selected = job[p].selected
               /\ job[p].selected = validity[Asked(p).from]
               /\ job'[p].plan = <<[add |-> {"Deleted"}, remove |-> {}]>>
            \/ Ends(p, "unknown", job[p].effects)
<1>1. TypeOK /\ pc[p] = "again" /\ ReadOnly /\ attempts' = attempts BY DEF Base, SourceAgain
<1>2. Asked(p) \in RequestRecord /\ job[p] \in Jobs BY <1>1, RealRequest
<1>3. CASE Finish(p, "unknown", job[p].effects)
 <2>1. job[p].effects \in SUBSET Told BY <1>2 DEF Jobs, Effects, Told
 <2> QED BY <1>1, <1>3, <2>1, EndDoes DEF Says
<1>4. CASE /\ job[p].selected = validity[Asked(p).from] /\ lock' = lock
           /\ Continue(p, "store",
                [job[p] EXCEPT !.selected = validity[Asked(p).from],
                               !.plan = <<[NoPhase EXCEPT !.add = {"Deleted"}]>>])
 <2> DEFINE phase == [NoPhase EXCEPT !.add = {"Deleted"}]
            j == [job[p] EXCEPT !.selected = validity[Asked(p).from], !.plan = <<phase>>]
 <2>1. phase = [add |-> {"Deleted"}, remove |-> {}] /\ phase \in Phase
   BY DEF NoPhase, Phase, Flags
 <2>2. Continue(p, "store", j) BY <1>4
 <2> HIDE DEF phase
 <2>3. /\ j \in Jobs /\ j.target = job[p].target /\ j.ask = job[p].ask
       /\ j.retried = job[p].retried /\ j.selected = job[p].selected
       /\ j.plan = <<phase>> /\ j.copyuid = job[p].copyuid
       /\ j.effects = job[p].effects /\ j.outcome = job[p].outcome
  <3>1. <<phase>> \in Seq(Phase) /\ validity[Asked(p).from] \in Nat
    BY <1>1, <1>2, <2>1 DEF TypeOK, RequestRecord
  <3> QED BY <1>2, <1>4, <3>1 DEF Jobs
 <2> HIDE DEF j
 <2> QED BY <1>1, <1>4, <2>1, <2>2, <2>3, GoDoes DEF Steps, KeepsRequest, KeepsEvidence
<1> QED BY <1>3, <1>4 DEF SourceAgain, CheckUIDValidity

\* What a flag result leads to.
Observed(p, flags) ==
  \/ \E says \in {"unknown", "mismatch"} : Ends(p, says, job[p].effects)
  \/ /\ Goes(p, "store") /\ KeepsRequest(p) /\ lock' = lock
     /\ job'[p].selected = job[p].selected
     /\ job'[p].plan = Tail(job[p].plan) /\ job'[p].plan # <<>>
     /\ job'[p].outcome = "partial" /\ job'[p].effects = job[p].effects
     /\ job'[p].copyuid = job[p].copyuid
     /\ FlagsMatch(flags, Head(job[p].plan))
  \/ /\ Goes(p, "expunge") /\ KeepsRequest(p) /\ lock' = lock /\ Move(p)
     /\ job'[p].selected = job[p].selected
     /\ job'[p].effects = job[p].effects \cup {"source_flag"}
     /\ job'[p].copyuid = job[p].copyuid
  \/ \E says \in {"completed", "mismatch"} : Mark(p) /\ Ends(p, says, {})

\* The effects of a job may be reported.
LEMMA EffectsTold == ASSUME NEW j \in Jobs PROVE j.effects \in SUBSET Told
  BY DEF Jobs, Effects, Told

\* The flags observed decide whether the next phase is stored.
LEMMA FlagsObservedDoes ==
  ASSUME Base, NEW p \in Procs, pc[p] \in {"store", "fetch"}, NEW flags,
         FlagsObserved(p, flags), UNCHANGED attempts
  PROVE  Frame(p) /\ Observed(p, flags)
<1>1. TypeOK BY DEF Base
<1>2. Asked(p) \in RequestRecord /\ job[p] \in Jobs BY RealRequest
<1> DEFINE rest == Tail(job[p].plan)
<1>3. rest \in Seq(Phase)
 <2>1. job[p].plan \in Seq(Phase) /\ job[p].plan # <<>> BY <1>2 DEF Base, Shape, Jobs
 <2> QED BY <2>1
<1> HIDE DEF rest
<1>4. CASE FlagsFailed(p, "mismatch")
  BY <1>1, <1>2, <1>4, EffectsTold, EndDoes DEF FlagsFailed, Observed, Says
<1>5. CASE /\ FlagsMatch(flags, Head(job[p].plan)) /\ rest # <<>> /\ lock' = lock
           /\ Continue(p, "store", [job[p] EXCEPT !.plan = rest, !.outcome = "partial"])
 <2> DEFINE j == [job[p] EXCEPT !.plan = rest, !.outcome = "partial"]
 <2>1. /\ j \in Jobs /\ j.target = job[p].target /\ j.ask = job[p].ask
       /\ j.retried = job[p].retried /\ j.selected = job[p].selected
       /\ j.plan = rest /\ j.copyuid = job[p].copyuid
       /\ j.effects = job[p].effects /\ j.outcome = "partial" BY <1>2, <1>3 DEF Jobs, Outcomes
 <2>2. Continue(p, "store", j) BY <1>5
 <2> HIDE DEF j
 <2>3. Frame(p) /\ Goes(p, "store") /\ job'[p] = j BY <1>1, <2>1, <2>2, GoDoes DEF Steps
 <2> QED BY <1>5, <2>1, <2>3 DEF Observed, KeepsRequest, rest
<1>6. CASE /\ lock' = lock /\ Move(p)
           /\ Continue(p, "expunge",
                [job[p] EXCEPT !.plan = rest, !.effects = @ \cup {"source_flag"}])
 <2> DEFINE j == [job[p] EXCEPT !.plan = rest, !.effects = @ \cup {"source_flag"}]
 <2>1. /\ j \in Jobs /\ j.target = job[p].target /\ j.ask = job[p].ask
       /\ j.retried = job[p].retried /\ j.selected = job[p].selected
       /\ j.copyuid = job[p].copyuid /\ j.effects = job[p].effects \cup {"source_flag"}
   BY <1>2, <1>3 DEF Jobs, Effects
 <2>2. Continue(p, "expunge", j) BY <1>6
 <2> HIDE DEF j
 <2>3. Frame(p) /\ Goes(p, "expunge") /\ job'[p] = j BY <1>1, <2>1, <2>2, GoDoes DEF Steps
 <2> QED BY <1>6, <2>1, <2>3 DEF Observed, KeepsRequest
<1>7. ASSUME NEW says \in {"completed", "mismatch"}, Mark(p), Finish(p, says, {})
      PROVE  Frame(p) /\ Observed(p, flags) BY <1>1, <1>7, EndDoes DEF Observed, Says
<1>8. CASE Mark(p) /\ Finish(p, IF FlagsMatch(flags, Asked(p)) THEN "completed" ELSE "mismatch", {})
  BY <1>7, <1>8
<1> QED BY <1>4, <1>5, <1>6, <1>8 DEF FlagsObserved, rest

\* Store, pointwise: every way a flag phase may go.
LEMMA StoreDoes ==
  ASSUME Base, NEW p \in Procs, Store(p)
  PROVE  /\ Frame(p) /\ Asks /\ sent' = sent /\ attempts' = attempts /\ pc[p] = "store"
         /\ \/ /\ Ignore /\ late' = late
               /\ \E says \in {"unknown", "partial", "refused"} :
                    /\ Ends(p, says, job[p].effects)
                    /\ says = "refused" => Mark(p) /\ job[p].outcome # "partial"
            \/ /\ Execute(Cmd(p)) /\ late' = late
               /\ \/ \E m \in Subjects(Cmd(p)) :
                       Observed(p, (m.flags \cup Cmd(p).add) \ Cmd(p).remove)
                  \/ Goes(p, "fetch") /\ job'[p] = job[p] /\ lock' = lock
            \/ Lost(Cmd(p)) /\ Ends(p, "unknown", job[p].effects)
<1> DEFINE c == Command(p, "store", Head(job[p].plan))
<1>1. TypeOK /\ pc[p] = "store" /\ Asks /\ sent' = sent /\ attempts' = attempts
  BY DEF Base, Store, Asks
<1>2. Asked(p) \in RequestRecord /\ job[p] \in Jobs /\ job[p].effects \in SUBSET Told
  BY <1>1, RealRequest, EffectsTold
<1>3. c = Cmd(p) BY <1>1 DEF Cmd
<1> HIDE DEF c
<1>4. Mark(p) \/ Move(p) BY <1>1, <1>2 DEF Base, Shape, Mark, Move, Copy, RequestRecord
<1>5. CASE /\ Ignore /\ UNCHANGED <<late, faults>>
           /\ FlagsFailed(p, IF job[p].outcome = "partial" THEN "partial" ELSE "refused")
 <2> DEFINE says == IF Move(p) THEN "unknown"
                    ELSE IF job[p].outcome = "partial" THEN "partial" ELSE "refused"
 <2>1. Finish(p, says, job[p].effects) BY <1>5 DEF FlagsFailed
 <2>2. says \in {"unknown", "partial", "refused"} OBVIOUS
 <2>3. says = "refused" => Mark(p) /\ job[p].outcome # "partial" BY <1>4
 <2> HIDE DEF says
 <2>4. Frame(p) /\ Ends(p, says, job[p].effects) BY <1>1, <1>2, <2>1, <2>2, EndDoes DEF Says
 <2> QED BY <1>1, <1>5, <2>2, <2>3, <2>4
<1>6. ASSUME Answered(c), NEW m \in Subjects(c), FlagsObserved(p, (m.flags \cup c.add) \ c.remove)
      PROVE  /\ Frame(p) /\ Execute(Cmd(p)) /\ late' = late
             /\ Observed(p, (m.flags \cup Cmd(p).add) \ Cmd(p).remove)
  BY <1>1, <1>3, <1>6, FlagsObservedDoes DEF Answered
<1>7. CASE Answered(c) /\ Continue(p, "fetch", job[p]) /\ lock' = lock
  BY <1>1, <1>2, <1>3, <1>7, GoDoes DEF Answered, Steps
<1>8. CASE Lose(c) /\ FlagsFailed(p, "unknown")
 <2>1. Finish(p, "unknown", job[p].effects) BY <1>8 DEF FlagsFailed
 <2> QED BY <1>1, <1>2, <1>3, <1>8, <2>1, LoseDoes, EndDoes DEF Says
<1>9. \/ /\ Ignore /\ UNCHANGED <<late, faults>>
         /\ FlagsFailed(p, IF job[p].outcome = "partial" THEN "partial" ELSE "refused")
      \/ Answered(c) /\ \E m \in Subjects(c) : FlagsObserved(p, (m.flags \cup c.add) \ c.remove)
      \/ Answered(c) /\ Continue(p, "fetch", job[p]) /\ lock' = lock
      \/ Lose(c) /\ FlagsFailed(p, "unknown") BY DEF Store, c
<1>10. CASE Answered(c) /\ \E m \in Subjects(c) : FlagsObserved(p, (m.flags \cup c.add) \ c.remove)
 <2>1. PICK m \in Subjects(c) : FlagsObserved(p, (m.flags \cup c.add) \ c.remove) BY <1>10
 <2>2. /\ Frame(p) /\ Execute(Cmd(p)) /\ late' = late
       /\ Observed(p, (m.flags \cup Cmd(p).add) \ Cmd(p).remove) BY <1>6, <1>10, <2>1
 <2> QED BY <1>1, <1>3, <2>1, <2>2
<1> QED BY <1>5, <1>7, <1>8, <1>9, <1>10

\* Fetch, pointwise: one look at the flags, never another STORE.
LEMMA FetchDoes ==
  ASSUME Base, NEW p \in Procs, Fetch(p)
  PROVE  /\ Frame(p) /\ ReadOnly /\ attempts' = attempts /\ pc[p] = "fetch"
         /\ \/ /\ validity[Asked(p).from] = job[p].selected
               /\ \E m \in At(Asked(p).from, job[p].target.uid) : Observed(p, m.flags)
            \/ Ends(p, "unknown", job[p].effects)
<1>1. TypeOK /\ pc[p] = "fetch" /\ ReadOnly /\ attempts' = attempts BY DEF Base, Fetch
<1>2. Asked(p) \in RequestRecord /\ job[p] \in Jobs /\ job[p].effects \in SUBSET Told
  BY <1>1, RealRequest, EffectsTold
<1>3. ASSUME NEW m, FlagsObserved(p, m.flags) PROVE Frame(p) /\ Observed(p, m.flags)
  BY <1>1, <1>3, FlagsObservedDoes
<1>4. CASE FlagsFailed(p, "unknown")
 <2>1. Finish(p, "unknown", job[p].effects) BY <1>4 DEF FlagsFailed
 <2> QED BY <1>1, <1>2, <2>1, EndDoes DEF Says
<1>5. CASE /\ validity[Asked(p).from] = job[p].selected
           /\ \E m \in At(Asked(p).from, job[p].target.uid) : FlagsObserved(p, m.flags)
  BY <1>1, <1>3, <1>5
<1> QED BY <1>4, <1>5 DEF Fetch

\* Expunge, pointwise: the UID goes, or stays behind.
LEMMA ExpungeDoes ==
  ASSUME Base, NEW p \in Procs, Expunge(p)
  PROVE  /\ Frame(p) /\ Asks /\ sent' = sent /\ attempts' = attempts /\ pc[p] = "expunge"
         /\ \/ /\ Goes(p, "expunged") /\ job'[p] = job[p] /\ lock' = lock
               /\ Execute(Cmd(p)) /\ late' = late
            \/ /\ Ignore /\ late' = late
               /\ \E says \in {"completed", "unknown"} :
                    \/ Ends(p, says, job[p].effects \cup {"cleanup_deferred"})
                    \/ Ends(p, says, job[p].effects)
            \/ Lost(Cmd(p)) /\ Ends(p, "unknown", job[p].effects)
<1> DEFINE c == Command(p, "expunge", NoPhase)
<1>1. TypeOK /\ pc[p] = "expunge" /\ Asks /\ sent' = sent /\ attempts' = attempts
  BY DEF Base, Expunge, Asks
<1>2. /\ Asked(p) \in RequestRecord /\ job[p] \in Jobs /\ job[p].effects \in SUBSET Told
      /\ job[p].effects \cup {"cleanup_deferred"} \in SUBSET Told
  BY <1>1, RealRequest, EffectsTold DEF Told
<1>3. c = Cmd(p) BY <1>1 DEF Cmd
<1> HIDE DEF c
<1>4. CASE Answered(c) /\ Continue(p, "expunged", job[p]) /\ lock' = lock
  BY <1>1, <1>2, <1>3, <1>4, GoDoes DEF Answered, Steps
<1>5. CASE /\ Ignore /\ UNCHANGED <<late, faults>>
           /\ Finish(p, "completed", job[p].effects \cup {"cleanup_deferred"})
  BY <1>1, <1>2, <1>5, EndDoes DEF Says
<1>6. CASE Ignore /\ UNCHANGED <<late, faults>> /\ Finish(p, "unknown", job[p].effects)
  BY <1>1, <1>2, <1>6, EndDoes DEF Says
<1>7. CASE Lose(c) /\ Finish(p, "unknown", job[p].effects)
  BY <1>1, <1>2, <1>3, <1>7, LoseDoes, EndDoes DEF Says
<1> QED BY <1>4, <1>5, <1>6, <1>7 DEF Expunge, c

\* CheckExpunged, pointwise: it only ends the request.
LEMMA CheckExpungedDoes ==
  ASSUME Base, NEW p \in Procs, CheckExpunged(p)
  PROVE  /\ Frame(p) /\ ReadOnly /\ attempts' = attempts /\ pc[p] = "expunged"
         /\ \/ Ends(p, "completed", job[p].effects \cup {"uid_expunge"})
            \/ Ends(p, "unknown", job[p].effects)
<1>1. TypeOK /\ pc[p] = "expunged" /\ ReadOnly /\ attempts' = attempts BY DEF Base, CheckExpunged
<1>2. /\ job[p] \in Jobs /\ job[p].effects \in SUBSET Told
      /\ job[p].effects \cup {"uid_expunge"} \in SUBSET Told
  BY <1>1, RealRequest, EffectsTold DEF Told
<1>3. CASE Finish(p, "completed", job[p].effects \cup {"uid_expunge"})
  BY <1>1, <1>2, <1>3, EndDoes DEF Says
<1>4. CASE Finish(p, "unknown", job[p].effects) BY <1>1, <1>2, <1>4, EndDoes DEF Says
<1> QED BY <1>3, <1>4 DEF CheckExpunged

\* Kill, pointwise: the process, its lock and its attempts are gone.
LEMMA KillDoes ==
  ASSUME Base, NEW p \in Procs, Kill(p)
  PROVE  /\ Frame(p) /\ Asks /\ Ignore /\ late' = late
         /\ pc'[p] = "idle" /\ job'[p] = NewJob(NoRequest) /\ attempts'[p] = {}
         /\ sent' = {s \in sent : s.by # p} /\ report' = report /\ runs' = runs
         /\ lock' = IF lock = p THEN Nobody ELSE lock
<1>1. TypeOK BY DEF Base
<1>2. NewJob(NoRequest) \in Jobs BY NewJobType
<1>3. /\ pc' = [pc EXCEPT ![p] = "idle"] /\ job' = [job EXCEPT ![p] = NewJob(NoRequest)]
      /\ attempts' = [attempts EXCEPT ![p] = {}] /\ report' = report /\ runs' = runs
      /\ sent' = {s \in sent : s.by # p}
      /\ lock' = (IF lock = p THEN Nobody ELSE lock)
      /\ Asks /\ Ignore /\ late' = late BY DEF Kill, Unlock, Asks, Ignore, server
<1>4. /\ pc' \in [Procs -> Steps] /\ pc'[p] = "idle" /\ \A q \in Procs \ {p} : pc'[q] = pc[q]
  BY <1>1, <1>3 DEF TypeOK, Steps
<1>5. /\ job' \in [Procs -> Jobs] /\ job'[p] = NewJob(NoRequest)
      /\ \A q \in Procs \ {p} : job'[q] = job[q] BY <1>1, <1>2, <1>3 DEF TypeOK
<1>6. /\ attempts' \in [Procs -> SUBSET Keys] /\ attempts'[p] = {}
      /\ \A q \in Procs \ {p} : attempts'[q] = attempts[q] BY <1>1, <1>3 DEF TypeOK
<1> QED BY <1>1, <1>3, <1>4, <1>5, <1>6 DEF Frame, Workers, TypeOK

-------------------------------------------------------------------------------
(* What a step does to what is shared.                                     *)

Serves(p) ==
  \/ Ignore /\ late' = late
  \/ pc[p] \in Sending /\ Execute(Cmd(p)) /\ late' = late
  \/ pc[p] \in Sending /\ Ignore /\ late' = late \cup {Cmd(p)}

\* A lost reply serves the command, keeps it for later, or drops it.
LEMMA LostServes == ASSUME NEW p \in Procs, pc[p] \in Sending, Lost(Cmd(p)) PROVE Serves(p)
  BY DEF Lost, Serves

\* A process changes its own state, and the server by one command.
LEMMA StepDoes ==
  ASSUME Base, NEW p \in Procs, Step(p)
  PROVE  Frame(p) /\ Asks /\ Serves(p)
<1>0. ReadOnly => Asks /\ Ignore /\ late' = late BY DEF ReadOnly, Asks, Ignore, history, server
<1>1. ASSUME NEW r \in Requests, Begin(p, r) PROVE Frame(p) /\ Asks /\ Serves(p)
  BY <1>0, <1>1, BeginDoes DEF Serves
<1>2. CASE Resolve(p) BY <1>0, <1>2, ResolveDoes DEF Serves
<1>3. CASE Attempt(p) BY <1>0, <1>3, AttemptDoes DEF Serves
<1>4. CASE Acquire(p) BY <1>0, <1>4, AcquireDoes DEF Serves
<1>5. CASE Guard(p) BY <1>0, <1>5, GuardDoes DEF Serves
<1>6. CASE Source(p) BY <1>0, <1>6, SourceDoes DEF Serves
<1>7. CASE DispatchCopy(p) BY <1>7, DispatchCopyDoes, LostServes DEF Serves, Sending
<1>8. CASE VerifyCopy(p) BY <1>0, <1>8, VerifyCopyDoes DEF Serves
<1>9. CASE DispatchMove(p) BY <1>9, DispatchMoveDoes, LostServes DEF Serves, Sending
<1>10. CASE CheckAbsent(p) BY <1>0, <1>10, CheckAbsentDoes DEF Serves
<1>11. CASE CheckArrived(p) BY <1>0, <1>11, CheckArrivedDoes DEF Serves
<1>12. CASE FallbackCopy(p) BY <1>12, FallbackCopyDoes, LostServes DEF Serves, Sending
<1>13. CASE SourceAgain(p) BY <1>0, <1>13, SourceAgainDoes DEF Serves
<1>14. CASE Store(p) BY <1>14, StoreDoes, LostServes DEF Serves, Sending
<1>15. CASE Fetch(p) BY <1>0, <1>15, FetchDoes DEF Serves
<1>16. CASE Expunge(p) BY <1>16, ExpungeDoes, LostServes DEF Serves, Sending
<1>17. CASE CheckExpunged(p) BY <1>0, <1>17, CheckExpungedDoes DEF Serves
<1>18. CASE Kill(p) BY <1>18, KillDoes DEF Serves
<1> QED BY <1>1, <1>2, <1>3, <1>4, <1>5, <1>6, <1>7, <1>8, <1>9, <1>10, <1>11, <1>12, <1>13,
<1>14, <1>15, <1>16, <1>17, <1>18 DEF Step

Finds(c, m) == /\ Subject(c, m) /\ Result(c, m) /\ felt' = felt \cup {FeltOf(c)}
               /\ touched' = touched \cup {m.id}
Vain(c) == Subjects(c) = {} /\ UNCHANGED <<box, next, felt, touched>>

\* A command that may be executed.
LEMMA ExecuteIs ==
  ASSUME Base, NEW c \in Commands, Arrives(c) => c.from # c.to, Execute(c)
  PROVE  /\ Sound' /\ (\A d \in Boxes : Evolves(d)) /\ validity' = validity
         /\ felt' \subseteq Felt
         /\ Vain(c) \/ \E m \in Messages : Finds(c, m)
<1>1. Sound BY DEF Base, Sound, TypeOK, Mailboxes
<1>2. Vain(c) \/ \E m \in Messages : Finds(c, m) BY <1>1, ExecuteDoes DEF Vain, Finds
<1>3. FeltOf(c) \in Felt BY DEF FeltOf, Felt, Commands
<1>4. felt' \subseteq Felt BY <1>2, <1>3 DEF Vain, Finds, Base, TypeOK
<1> QED BY <1>1, <1>2, <1>4, ExecuteSound DEF Execute

\* What a process does leaves the mailboxes in order.
LEMMA ServesSound ==
  ASSUME Base, NEW p \in Procs, Asks, Serves(p)
  PROVE  /\ Sound' /\ (\A d \in Boxes : Evolves(d)) /\ validity' = validity
         /\ late' \subseteq Commands /\ Apart' /\ felt' \subseteq Felt
<1>1. Sound /\ late \subseteq Commands /\ felt \subseteq Felt /\ Apart
  BY DEF Base, Sound, TypeOK, Mailboxes
<1>2. CASE Ignore
 <2>1. Sound' /\ (\A d \in Boxes : Evolves(d)) /\ validity' = validity /\ felt' = felt
   BY <1>1, <1>2 DEF Ignore, server, Sound, Mailboxes, Numbered, Evolves
 <2>2. CASE late' = late BY <1>1, <2>1, <2>2 DEF Apart, Arrives
 <2>3. CASE pc[p] \in Sending /\ late' = late \cup {Cmd(p)}
   BY <1>1, <2>1, <2>3, CmdIs DEF Apart, Arrives
 <2> QED BY <1>2, <2>2, <2>3 DEF Serves, Execute
<1>3. CASE pc[p] \in Sending /\ Execute(Cmd(p)) /\ late' = late
 <2>1. Cmd(p) \in Commands /\ (Arrives(Cmd(p)) => Cmd(p).from # Cmd(p).to) BY <1>3, CmdIs
 <2>2. Apart' BY <1>1, <1>3 DEF Apart, Arrives
 <2> QED BY <1>1, <1>3, <2>1, <2>2, ExecuteIs
<1> QED BY <1>2, <1>3 DEF Serves

\* The lock goes with the session.
Passes(p) ==
  \/ lock' = lock /\ (pc'[p] \in Critical <=> pc[p] \in Critical)
  \/ lock' = (IF lock = p THEN Nobody ELSE lock) /\ pc'[p] \notin Critical
  \/ lock = Nobody /\ lock' = p /\ pc'[p] \in Critical

\* One process at a time is past acquireMutation, before and after a step.
LEMMA HolderKept ==
  ASSUME Base, NEW p \in Procs, Frame(p), Passes(p)
  PROVE  \A q \in Procs : Holder(q)'
<1>1. Nobody \notin Procs BY MutationAssumption
<1>2. \A q \in Procs : Holder(q) BY DEF Base
<1> QED BY <1>1, <1>2 DEF Frame, Passes, Holder

\* A request that has ended has no shape.
LEMMA IdleShape ==
  ASSUME NEW p \in Procs, pc'[p] = "idle", job'[p] = NewJob(NoRequest)
  PROVE  Shape(p)' /\ Named(p)'
<1>1. job'[p].ask = NoRequest /\ job'[p].retried = FALSE BY NewJobType
<1> QED BY <1>1 DEF Shape, Named, After, Early, Critical, NoRequest, Copy, Move, Mark, Asked

Suits(p) == Shape(p)' /\ Named(p)' /\ Passes(p) /\ sent' \subseteq SentKeys

\* A request that ends has the shape of an idle process.
LEMMA EndsSuit ==
  ASSUME Base, NEW p \in Procs, NEW says, NEW effects, Ends(p, says, effects), sent' = sent
  PROVE  Suits(p)
<1>1. Shape(p)' /\ Named(p)' BY IdleShape DEF Ends
<1>2. Passes(p) BY DEF Ends, Passes, Critical
<1> QED BY <1>1, <1>2 DEF Suits, Base, TypeOK

\* Each step of a request leads to where such a request may be.
LEMMA StepSuits ==
  ASSUME Base, NEW p \in Procs, Step(p)
  PROVE  Suits(p)
<1> USE DEF Suits, Passes, Critical, Steps
<1>0. /\ sent \subseteq SentKeys /\ offers' = offers /\ Shape(p) /\ Named(p) /\ Holder(p)
      /\ (ReadOnly => sent' = sent) BY StepDoes DEF Base, TypeOK, Asks, ReadOnly, history
<1>01. job[p] \in Jobs BY DEF Base, TypeOK
<1>1. ASSUME NEW r \in Requests, Begin(p, r) PROVE Suits(p)
 <2>1. /\ pc'[p] = "resolve" /\ job'[p].ask = r /\ ~job'[p].retried /\ r \in Requests
       /\ job'[p].copyuid = <<0, 0>> /\ job'[p].effects = {}
       /\ lock' = lock /\ pc[p] = "idle" /\ sent' = sent
  <3>1. r \in RequestRecord BY MutationAssumption
  <3>2. /\ NewJob(r).ask = r /\ NewJob(r).retried = FALSE
        /\ NewJob(r).copyuid = <<0, 0>> /\ NewJob(r).effects = {} BY <3>1, NewJobType
  <3>3. /\ pc'[p] = "resolve" /\ job'[p] = NewJob(r) /\ lock' = lock /\ pc[p] = "idle"
        /\ sent' = sent BY <1>0, <1>1, BeginDoes
  <3> QED BY <3>2, <3>3
 <2> QED BY <1>0, <2>1 DEF Shape, Named, After, Early, Copy, Mark, Move, Asked
<1>2. CASE Resolve(p)
 <2>1. CASE \E t \in Resolved(p) : job'[p].target = t
       /\ job'[p].ask = job[p].ask /\ job'[p].retried = job[p].retried
       /\ lock' = lock /\ pc[p] = "resolve" /\ sent' = sent /\ KeepsEvidence(p)
       /\ pc'[p] = (IF Copy(p) /\ ~job[p].retried THEN "attempt" ELSE "lock")
   BY <1>0, <2>1 DEF KeepsEvidence, Shape, Named, After, Early, Copy, Mark, Move, Asked
 <2> QED BY <1>0, <1>2, <2>1, ResolveDoes, EndsSuit DEF Goes
<1>3. CASE Attempt(p)
 <2>1. CASE /\ Goes(p, "lock") /\ job'[p] = job[p] /\ lock' = lock /\ pc[p] = "attempt"
            /\ Asked(p).named /\ sent' = sent
   BY <1>0, <2>1 DEF Goes, Shape, Named, After, Early, Copy, Mark, Move, Asked
 <2> QED BY <1>0, <1>3, <2>1, AttemptDoes, EndsSuit
<1>4. CASE Acquire(p)
 <2>1. CASE /\ Goes(p, IF ~Mark(p) /\ Asked(p).named THEN "guard" ELSE "source")
            /\ job'[p] = job[p] /\ lock = Nobody /\ lock' = p /\ pc[p] = "lock"
            /\ ~(Move(p) /\ "MOVE" \notin offers /\ ~Asked(p).named) /\ sent' = sent
   BY <1>0, <2>1 DEF Goes, Shape, Named, After, Early, Copy, Mark, Move, Asked
 <2> QED BY <1>0, <1>4, <2>1, AcquireDoes, EndsSuit DEF Refused
<1>5. CASE Guard(p)
 <2>1. CASE /\ Goes(p, "source") /\ KeepsRequest(p) /\ KeepsEvidence(p) /\ lock' = lock
            /\ pc[p] = "guard" /\ sent' = sent
   BY <1>0, <2>1 DEF Goes, KeepsRequest, KeepsEvidence, Shape, Named, After, Early, Copy, Mark,
      Move, Asked
 <2> QED BY <1>0, <1>5, <2>1, GuardDoes, EndsSuit
<1>6. CASE Source(p)
 <2>1. CASE /\ Goes(p, "dispatch") /\ KeepsRequest(p) /\ lock' = lock /\ pc[p] = "source"
            /\ KeepsEvidence(p)
            /\ job'[p].selected = job[p].target.validity /\ sent' = sent
            /\ (Copy(p) \/ Move(p))
   BY <1>0, <2>1 DEF Goes, KeepsRequest, KeepsEvidence, Shape, Named, After, Early, Copy, Mark,
      Move, Asked
 <2>2. CASE /\ Goes(p, "store") /\ KeepsRequest(p) /\ lock' = lock /\ pc[p] = "source"
            /\ job'[p].selected = job[p].target.validity /\ sent' = sent /\ Mark(p)
            /\ job'[p].plan # <<>>
   BY <1>0, <2>2 DEF Goes, KeepsRequest, KeepsEvidence, Shape, Named, After, Early, Copy, Mark,
      Move, Asked
 <2>3. CASE /\ Goes(p, "resolve") /\ pc[p] = "source" /\ sent' = sent
            /\ lock' = (IF lock = p THEN Nobody ELSE lock)
            /\ job'[p] = [NewJob(Asked(p)) EXCEPT !.retried = TRUE]
  <3>1. Asked(p) \in RequestRecord \cup {NoRequest} BY <1>01 DEF Jobs, Asked
  <3>2. NewJob(Asked(p)) \in Jobs /\ NewJob(Asked(p)).ask = Asked(p) BY <3>1, NewJobType
  <3>3. /\ job'[p].ask = job[p].ask
        /\ job'[p].copyuid = <<0, 0>> /\ job'[p].effects = {}
    BY <2>3, <3>1, <3>2, NewJobType DEF Jobs, Asked
  <3> QED BY <1>0, <2>3, <3>3 DEF Goes, Shape, Named, After, Early, Copy, Mark, Move, Asked
 <2> QED BY <1>0, <1>6, <2>1, <2>2, <2>3, SourceDoes, EndsSuit DEF Refused
<1>7. CASE DispatchCopy(p)
 <2>1. CASE /\ Goes(p, "verify") /\ KeepsRequest(p) /\ KeepsPlan(p) /\ pc[p] = "dispatch"
            /\ lock' = (IF lock = p THEN Nobody ELSE lock) /\ Copy(p)
  <3>1. Asked(p) \in RequestRecord BY <2>1, RealRequest
  <3>2. Sent(p) \in SentKeys BY <3>1, KeyType DEF Sent, SentKeys, Base
  <3>3. sent' \subseteq SentKeys BY <1>0, <1>7, <3>2, DispatchCopyDoes
  <3> QED
    BY <1>0, <2>1, <3>3 DEF Goes, KeepsRequest, KeepsPlan, Shape, Named, After, Early, Copy,
       Mark, Move, Asked
 <2> QED BY <1>0, <1>7, <2>1, DispatchCopyDoes, EndsSuit DEF Refused
<1>8. CASE VerifyCopy(p) BY <1>0, <1>8, VerifyCopyDoes, EndsSuit
<1>9. CASE DispatchMove(p)
 <2>1. CASE /\ Goes(p, "absent") /\ KeepsRequest(p) /\ KeepsPlan(p) /\ pc[p] = "dispatch"
            /\ job'[p].outcome \in {"completed", "unknown"}
            /\ lock' = lock /\ Move(p) /\ "MOVE" \in offers /\ sent' = sent
   BY <1>0, <2>1 DEF Goes, KeepsRequest, KeepsPlan, Shape, Named, After, Early, Copy, Mark, Move,
      Asked
 <2> QED BY <1>0, <1>9, <2>1, DispatchMoveDoes, EndsSuit DEF Refused
<1>10. CASE CheckAbsent(p)
 <2>1. CASE /\ Goes(p, "arrived") /\ KeepsRequest(p) /\ KeepsPlan(p) /\ pc[p] = "absent"
            /\ job'[p].outcome = job[p].outcome /\ lock' = lock /\ sent' = sent
   BY <1>0, <2>1 DEF Goes, KeepsRequest, KeepsPlan, Shape, Named, After, Early, Copy, Mark, Move,
      Asked
 <2> QED BY <1>0, <1>10, <2>1, CheckAbsentDoes, EndsSuit
<1>11. CASE CheckArrived(p)
 <2>1. CASE /\ Goes(p, "again") /\ KeepsRequest(p) /\ KeepsPlan(p) /\ pc[p] = "arrived"
            /\ lock' = lock /\ "MOVE" \notin offers /\ sent' = sent
   BY <1>0, <2>1 DEF Goes, KeepsRequest, KeepsPlan, Shape, Named, After, Early, Copy, Mark, Move,
      Asked
 <2> QED BY <1>0, <1>11, <2>1, CheckArrivedDoes, EndsSuit
<1>12. CASE FallbackCopy(p)
 <2>1. CASE /\ Goes(p, "arrived") /\ job'[p] = job[p] /\ pc[p] = "dispatch" /\ sent' = sent
            /\ lock' = lock /\ "MOVE" \notin offers /\ Move(p)
   BY <1>0, <2>1 DEF Goes, Shape, Named, After, Early, Copy, Mark, Move, Asked
 <2>2. CASE /\ Goes(p, "again") /\ KeepsRequest(p) /\ KeepsPlan(p) /\ pc[p] = "dispatch"
            /\ sent' = sent /\ lock' = lock /\ "MOVE" \notin offers /\ Move(p)
   BY <1>0, <2>2 DEF Goes, KeepsRequest, KeepsPlan, Shape, Named, After, Early, Copy, Mark, Move,
      Asked
 <2> QED BY <1>0, <1>12, <2>1, <2>2, FallbackCopyDoes, EndsSuit DEF Refused
<1>13. CASE SourceAgain(p)
 <2>1. CASE /\ Goes(p, "store") /\ KeepsRequest(p) /\ lock' = lock /\ pc[p] = "again"
            /\ job'[p].selected = job[p].selected /\ sent' = sent
            /\ job'[p].plan = <<[add |-> {"Deleted"}, remove |-> {}]>>
  <3>1. job'[p].plan # <<>> BY <2>1
  <3> QED
    BY <1>0, <2>1, <3>1 DEF Goes, KeepsRequest, Shape, Named, After, Early, Copy, Mark, Move,
       Asked
 <2> QED BY <1>0, <1>13, <2>1, SourceAgainDoes, EndsSuit
<1>14. ASSUME pc[p] \in {"store", "fetch"}, NEW flags, Observed(p, flags), sent' = sent
       PROVE  Suits(p)
 <2>1. CASE /\ Goes(p, "store") /\ KeepsRequest(p) /\ lock' = lock
            /\ job'[p].selected = job[p].selected /\ job'[p].plan # <<>>
   BY <1>0, <1>14, <2>1 DEF Goes, KeepsRequest, Shape, Named, After, Early, Copy, Mark, Move, Asked
 <2>2. CASE /\ Goes(p, "expunge") /\ KeepsRequest(p) /\ lock' = lock /\ Move(p)
            /\ job'[p].selected = job[p].selected
   BY <1>0, <1>14, <2>2 DEF Goes, KeepsRequest, Shape, Named, After, Early, Copy, Mark, Move, Asked
 <2> QED BY <1>14, <2>1, <2>2, EndsSuit DEF Observed
<1>15. CASE Store(p)
 <2>1. CASE /\ Goes(p, "fetch") /\ job'[p] = job[p] /\ lock' = lock /\ pc[p] = "store"
            /\ sent' = sent
   BY <1>0, <2>1 DEF Goes, Shape, Named, After, Early, Copy, Mark, Move, Asked
 <2> QED BY <1>14, <1>15, <2>1, StoreDoes, EndsSuit
<1>16. CASE Fetch(p) BY <1>0, <1>14, <1>16, FetchDoes, EndsSuit
<1>17. CASE Expunge(p)
 <2>1. CASE /\ Goes(p, "expunged") /\ job'[p] = job[p] /\ lock' = lock /\ pc[p] = "expunge"
            /\ sent' = sent
   BY <1>0, <2>1 DEF Goes, Shape, Named, After, Early, Copy, Mark, Move, Asked
 <2> QED BY <1>17, <2>1, ExpungeDoes, EndsSuit
<1>18. CASE CheckExpunged(p) BY <1>0, <1>18, CheckExpungedDoes, EndsSuit
<1>19. CASE Kill(p)
 <2>1. Shape(p)' /\ Named(p)' BY <1>19, KillDoes, IdleShape
 <2> QED BY <1>0, <1>19, <2>1, KillDoes
<1> QED BY <1>1, <1>2, <1>3, <1>4, <1>5, <1>6, <1>7, <1>8, <1>9, <1>10, <1>11, <1>12, <1>13,
<1>15, <1>16, <1>17, <1>18, <1>19 DEF Step

\* No process steps.
Stays == UNCHANGED <<lock, worker, sent, offers>>

\* A rebuilt mailbox holds the same messages, numbered from 1.
LEMMA RebuildDoes ==
  ASSUME Base, NEW b \in Boxes, Rebuild(b)
  PROVE  /\ validity' = [validity EXCEPT ![b] = @ + 1] /\ validity'[b] > validity[b]
         /\ Sound' /\ \A d \in Boxes : Evolves(d)
         /\ \A d \in Boxes \ {b} : box'[d] = box[d] /\ validity'[d] = validity[d]
         /\ \A m \in box[b] : \E k \in box'[b] : k.id = m.id /\ k.flags = m.flags
         /\ \A k \in box'[b] : \E m \in box[b] : k.id = m.id /\ k.flags = m.flags
         /\ \A k, l \in box'[b] : k = l \/
              \E m, n \in box[b] : m # n /\ m.id = k.id /\ n.id = l.id
         /\ Stays /\ UNCHANGED <<late, known, felt, touched, lateRan, removed, added>>
<1> DEFINE n == Cardinality(box[b])
<1>1. Sound /\ box[b] \subseteq Messages /\ IsFiniteSet(box[b])
  BY DEF Base, Sound, TypeOK, Mailboxes, Numbered
<1>2. n \in Nat BY <1>1, FS_CardinalityType
<1>3. /\ validity' = [validity EXCEPT ![b] = @ + 1] /\ next' = [next EXCEPT ![b] = n + 1]
      /\ Stays /\ UNCHANGED <<late, known, felt, touched, lateRan, removed, added>>
  BY DEF Rebuild, Stays
<1>4. PICK order \in [1 .. n -> box[b]] :
        /\ \A i, j \in DOMAIN order : order[i] = order[j] => i = j
        /\ box' = [box EXCEPT ![b] = {[order[i] EXCEPT !.uid = i] : i \in DOMAIN order}]
  BY DEF Rebuild
<1> HIDE DEF n
<1>5. DOMAIN order = 1 .. n /\ 1 .. n \subseteq Nat BY <1>2, <1>4
<1>6. order \in Injection(1 .. n, box[b]) BY <1>4 DEF Injection, IsInjective
<1>7. \A m \in box[b] : \E i \in 1 .. n : order[i] = m
 <2>1. IsFiniteSet(1 .. n) /\ Cardinality(1 .. n) = n BY <1>2, FS_Interval
 <2>2. order \in Surjection(1 .. n, box[b]) BY <1>1, <1>6, <2>1, FS_Injection DEF n
 <2> QED BY <2>2 DEF Surjection
<1> DEFINE new(i) == [order[i] EXCEPT !.uid = i]
<1>8. /\ box'[b] = {new(i) : i \in 1 .. n} /\ \A d \in Boxes \ {b} : box'[d] = box[d]
      /\ box' = [d \in Boxes |-> box'[d]] BY <1>1, <1>4, <1>5 DEF Sound, Mailboxes
<1>9. \A i \in 1 .. n : /\ new(i) \in Messages /\ new(i).uid = i
                        /\ new(i).id = order[i].id /\ new(i).flags = order[i].flags
 <2> TAKE i \in 1 .. n
 <2>1. order[i] \in Messages /\ i \in Nat BY <1>1, <1>4, <1>5
 <2> QED BY <2>1 DEF Messages
<1> HIDE DEF new
<1>10. IsFiniteSet(box'[b])
 <2> DEFINE g == [i \in 1 .. n |-> new(i)]
 <2>1. g \in Surjection(1 .. n, box'[b]) BY <1>8 DEF Surjection
 <2>2. IsFiniteSet(1 .. n) BY <1>2, FS_Interval
 <2> HIDE DEF g
 <2> QED BY <2>1, <2>2, FS_Surjection
<1>11. \A k, l \in box'[b] : k.uid = l.uid => k = l BY <1>8, <1>9
<1>12. \A k \in box'[b] : k.uid < n + 1 BY <1>2, <1>8, <1>9
<1>13. Sound'
 <2>1. /\ validity' \in [Boxes -> Nat \ {0}] /\ next' \in [Boxes -> Nat \ {0}]
       /\ next'[b] = n + 1 /\ \A d \in Boxes \ {b} : next'[d] = next[d]
   BY <1>1, <1>2, <1>3 DEF Sound, Mailboxes
 <2>2. box' \in [Boxes -> SUBSET Messages] BY SMTT(30), <1>1, <1>8, <1>9 DEF Sound, Mailboxes
 <2>3. ASSUME NEW d \in Boxes
       PROVE  /\ IsFiniteSet(box'[d])
              /\ \A m \in box'[d] : m.uid < next'[d]
              /\ \A m, k \in box'[d] : m.uid = k.uid => m = k
  <3>1. CASE d = b BY <1>10, <1>11, <1>12, <2>1, <3>1
  <3>2. CASE d # b BY <1>1, <1>8, <2>1, <3>2 DEF Sound, Numbered
  <3> QED BY <3>1, <3>2
 <2>4. Numbered' BY <2>3 DEF Numbered
 <2> QED BY <1>1, <2>1, <2>2, <2>4, <1>3 DEF Sound, Mailboxes
<1>14. /\ validity'[b] > validity[b] /\ \A d \in Boxes \ {b} : validity'[d] = validity[d]
  BY <1>1, <1>3 DEF Sound, Mailboxes
<1>15. \A d \in Boxes : Evolves(d)
 <2> TAKE d \in Boxes
 <2>1. CASE d = b BY <1>14, <2>1 DEF Evolves
 <2>2. CASE d # b
  <3>1. next'[d] = next[d] /\ next[d] \in Nat BY <1>1, <1>3, <2>2 DEF Sound, Mailboxes
  <3> QED BY <1>8, <1>14, <2>2, <3>1 DEF Evolves
 <2> QED BY <2>1, <2>2
<1>16. /\ \A m \in box[b] : \E k \in box'[b] : k.id = m.id /\ k.flags = m.flags
       /\ \A k \in box'[b] : \E m \in box[b] : k.id = m.id /\ k.flags = m.flags
 <2>1. ASSUME NEW m \in box[b] PROVE \E k \in box'[b] : k.id = m.id /\ k.flags = m.flags
  <3>1. PICK i \in 1 .. n : order[i] = m BY <1>7
  <3>2. new(i) \in box'[b] /\ new(i).id = m.id /\ new(i).flags = m.flags BY <1>8, <1>9, <3>1
  <3> QED BY <3>2
 <2>2. ASSUME NEW k \in box'[b] PROVE \E m \in box[b] : k.id = m.id /\ k.flags = m.flags
  <3>1. PICK i \in 1 .. n : k = new(i) BY <1>8
  <3>2. order[i] \in box[b] /\ k.id = order[i].id /\ k.flags = order[i].flags
    BY <1>4, <1>9, <3>1
  <3> QED BY <3>2
 <2> QED BY <2>1, <2>2
<1>17. \A k, l \in box'[b] : k = l \/
         \E m, q \in box[b] : m # q /\ m.id = k.id /\ q.id = l.id
 <2> TAKE k, l \in box'[b]
 <2>1. PICK i \in 1 .. n : k = new(i) BY <1>8
 <2>2. PICK j \in 1 .. n : l = new(j) BY <1>8
 <2>3. order[i] \in box[b] /\ order[j] \in box[b] BY <1>4
 <2>4. i # j => order[i] # order[j] BY <1>4, <1>5
 <2> QED BY <1>9, <2>1, <2>2, <2>3, <2>4
<1> QED BY <1>3, <1>8, <1>13, <1>14, <1>15, <1>16, <1>17

\* What another client does.
Delivers(b) == Put(b, Message(next[b], "named", {})) /\ added' = TRUE /\ removed' = removed
Removes(b, m) == Drop(b, m) /\ removed' = TRUE /\ added' = added
Undeletes(b, m) ==
  Swap(b, m, [m EXCEPT !.flags = @ \ {"Deleted"}]) /\ UNCHANGED <<added, removed>>

\* Another client delivers, expunges, or removes \Deleted.
LEMMA ForeignDoes ==
  ASSUME Base, NEW b \in Boxes, ForeignClient(b)
  PROVE  /\ Stays /\ UNCHANGED <<validity, late, known, felt, touched, lateRan>>
         /\ \/ Delivers(b)
            \/ \E m \in Holds(b) : Removes(b, m)
            \/ \E m \in Holds(b) : Undeletes(b, m)
         /\ Sound' /\ \A d \in Boxes : Evolves(d)
<1>1. Sound /\ next[b] \in Nat /\ box[b] \subseteq Messages
  BY DEF Base, Sound, TypeOK, Mailboxes
<1>2. Stays /\ UNCHANGED <<validity, late, known, felt, touched, lateRan>>
  BY DEF ForeignClient, Stays
<1>3. CASE /\ box' = [box EXCEPT ![b] = @ \cup {Message(next[b], "named", {})}]
           /\ next' = [next EXCEPT ![b] = @ + 1]
           /\ added' = TRUE /\ UNCHANGED removed
 <2>1. /\ Message(next[b], "named", {}) \in Messages /\ Message(next[b], "named", {}).uid = next[b]
   BY <1>1, MessageFields DEF MessageIds
 <2>2. Delivers(b) BY <1>3, <2>1 DEF Delivers, Put
 <2> QED BY <1>1, <1>2, <2>2, PutSound DEF Delivers
<1>4. CASE \E m \in Holds(b) : /\ box' = [box EXCEPT ![b] = @ \ {m}]
                               /\ removed' = TRUE /\ UNCHANGED <<next, added>>
 <2>1. PICK m \in Holds(b) : Removes(b, m) BY <1>4 DEF Removes, Drop
 <2> QED BY <1>1, <1>2, <2>1, DropSound DEF Removes
<1>5. CASE \E m \in Holds(b) :
             /\ box' = [box EXCEPT ![b] = (@ \ {m}) \cup {[m EXCEPT !.flags = @ \ {"Deleted"}]}]
             /\ UNCHANGED <<next, added, removed>>
 <2>1. PICK m \in Holds(b) :
            /\ box' = [box EXCEPT ![b] = (@ \ {m}) \cup {[m EXCEPT !.flags = @ \ {"Deleted"}]}]
            /\ UNCHANGED <<next, added, removed>> BY <1>5
 <2> DEFINE k == [m EXCEPT !.flags = @ \ {"Deleted"}]
 <2>2. m \in box[b] /\ k \in Messages /\ k.uid = m.uid /\ k.id = m.id
   BY <1>1 DEF Holds, Messages
 <2> HIDE DEF k
 <2>3. Swap(b, m, k) BY <2>1, <2>2 DEF Swap, k
 <2>4. Undeletes(b, m) BY <2>1, <2>3 DEF Undeletes, k
 <2> QED BY <1>1, <1>2, <2>2, <2>3, <2>4, SwapSound
<1> QED BY <1>3, <1>4, <1>5 DEF ForeignClient

\* What Mail.app learns.
LEMMA SynchroniseDoes ==
  ASSUME Base, NEW b \in Boxes, Synchronise(b)
  PROVE  /\ Stays /\ UNCHANGED <<server, late, felt, touched, lateRan, removed, added>>
         /\ \E t \in Targets :
              /\ known' = [known EXCEPT ![b] = t]
              /\ \/ t = NoTarget
                 \/ \E m \in Holds(b) : t = [uid |-> m.uid, validity |-> validity[b]]
<1>1. Stays /\ UNCHANGED <<server, late, felt, touched, lateRan, removed, added>>
  BY DEF Synchronise, Stays, history
<1>2. CASE Holds(b) = {}
 <2>1. NoTarget \in Targets BY DEF NoTarget, Targets, NoUid
 <2> QED BY <1>1, <1>2, <2>1 DEF Synchronise
<1>3. CASE Holds(b) # {}
 <2> DEFINE m == CHOOSE m \in Holds(b) : TRUE
            t == [uid |-> m.uid, validity |-> validity[b]]
 <2>1. m \in Holds(b) BY <1>3
 <2>2. m \in Messages /\ validity[b] \in Nat BY <2>1 DEF Holds, Base, TypeOK
 <2> HIDE DEF m
 <2>3. t \in Targets BY <2>2 DEF Targets, Messages
 <2>4. known' = [known EXCEPT ![b] = t] BY <1>3 DEF Synchronise, m
 <2> QED BY <1>1, <2>1, <2>3, <2>4
<1> QED BY <1>2, <1>3

\* A command is executed after its session was given up.
LEMMA LateDoes ==
  ASSUME Base, LateExecution
  PROVE  /\ Stays /\ UNCHANGED <<known, removed, added>>
         /\ \E c \in late :
              /\ late' = late \ {c} /\ c \in Commands /\ (Arrives(c) => c.from # c.to)
              /\ \/ Execute(c) /\ lateRan' = TRUE
                 \/ Ignore /\ lateRan' = lateRan
<1>1. Stays /\ UNCHANGED <<known, removed, added>> BY DEF LateExecution, Stays
<1>2. PICK c \in late : /\ late' = late \ {c}
                        /\ \/ Execute(c) /\ lateRan' = TRUE
                           \/ Ignore /\ lateRan' = lateRan BY DEF LateExecution
<1>3. c \in Commands /\ (Arrives(c) => c.from # c.to) BY DEF Base, TypeOK, Apart
<1> QED BY <1>1, <1>2, <1>3

-------------------------------------------------------------------------------
(* Base is inductive.                                                       *)

\* The initial state has the types and the shape.
LEMMA InitBase == Init => Base
<1> SUFFICES ASSUME Init PROVE Base OBVIOUS
<1>1. NewJob(NoRequest) \in Jobs /\ NewJob(NoRequest).ask = NoRequest
      /\ NewJob(NoRequest).retried = FALSE BY NewJobType
<1>2. NoReport \in Reports /\ NoTarget \in Targets
  BY DEF NoReport, Reports, Says, NoTarget, Targets, NoUid
<1>3. /\ Message(1, "named", {"NotJunk"}) \in Messages /\ Message(1, "named", {"NotJunk"}).uid = 1
      /\ Message(2, "other", {}) \in Messages /\ Message(2, "other", {}).uid = 2
  BY MessageFields DEF MessageIds, Flags
<1>4. InitialBox \in [Boxes -> SUBSET Messages] BY <1>3 DEF InitialBox, Boxes
<1>5. TypeOK
 <2>1. /\ validity \in [Boxes -> Nat \ {0}] /\ next \in [Boxes -> Nat \ {0}]
       /\ box \in [Boxes -> SUBSET Messages] /\ late \subseteq Commands
       /\ lock \in Procs \cup {Nobody} BY <1>4 DEF Init
 <2>2. known \in [Boxes -> Targets] BY <1>2 DEF Init, Targets
 <2>3. /\ pc \in [Procs -> Steps] /\ job \in [Procs -> Jobs]
       /\ attempts \in [Procs -> SUBSET Keys]
       /\ report \in [Procs -> Reports] /\ runs \in [Procs -> Nat]
   BY <1>1, <1>2 DEF Init, Steps
 <2>4. /\ felt \subseteq Felt /\ sent \subseteq SentKeys
       /\ lateRan \in BOOLEAN /\ removed \in BOOLEAN /\ added \in BOOLEAN BY DEF Init
 <2> QED BY <2>1, <2>2, <2>3, <2>4 DEF TypeOK
<1>6. Numbered
 <2> SUFFICES ASSUME NEW b \in Boxes
              PROVE  /\ IsFiniteSet(box[b])
                     /\ \A m \in box[b] : m.uid < next[b]
                     /\ \A m, n \in box[b] : m.uid = n.uid => m = n BY DEF Numbered
 <2>1. CASE b = "inbox"
  <3>1. box[b] = {Message(1, "named", {"NotJunk"}), Message(2, "other", {})} /\ next[b] = 3
    BY <2>1 DEF Init, InitialBox, Boxes
  <3>2. IsFiniteSet(box[b])
   <4>1. IsFiniteSet({Message(1, "named", {"NotJunk"})}) BY FS_Singleton
   <4>2. box[b] = {Message(1, "named", {"NotJunk"})} \cup {Message(2, "other", {})} BY <3>1
   <4> QED BY <4>1, <4>2, FS_AddElement
  <3> QED BY <1>3, <3>1, <3>2
 <2>2. CASE b = "trash"
  <3>1. box[b] = {} BY <2>2 DEF Init, InitialBox, Boxes
  <3> QED BY <3>1, FS_EmptySet
 <2> QED BY <2>1, <2>2 DEF Boxes
<1>7. Apart BY DEF Init, Apart
<1>8. \A p \in Procs : Shape(p) /\ Named(p) /\ Holder(p)
 <2> TAKE p \in Procs
 <2>1. /\ pc[p] = "idle" /\ job[p].ask = NoRequest /\ job[p].retried = FALSE /\ lock # p
   BY <1>1, MutationAssumption DEF Init
 <2> QED
   BY <2>1 DEF Shape, Named, Holder, After, Early, Critical, NoRequest, Copy, Move, Mark, Asked
<1> QED BY <1>5, <1>6, <1>7, <1>8 DEF Base

\* While no process steps, none is somewhere else.
LEMMA StaysShape ==
  ASSUME Base, Stays
  PROVE  /\ \A p \in Procs : (Shape(p) /\ Named(p) /\ Holder(p))'
         /\ Workers' /\ sent' \subseteq SentKeys
<1>1. /\ pc' = pc /\ job' = job /\ lock' = lock /\ offers' = offers /\ sent' = sent
      /\ attempts' = attempts /\ report' = report /\ runs' = runs BY DEF Stays, worker
<1> QED
  BY <1>1 DEF Base, TypeOK, Workers, Shape, Named, Holder, After, Early, Critical, Copy, Move,
     Mark, Asked

\* Every step keeps the types and the shape.
LEMMA NextBase == Base /\ [Next]_vars => Base'
<1> SUFFICES ASSUME Base, [Next]_vars PROVE Base' OBVIOUS
<1>1. ASSUME NEW p \in Procs, Step(p) PROVE Base'
 <2>1. Frame(p) /\ Asks /\ Serves(p) /\ Suits(p) BY <1>1, StepDoes, StepSuits
 <2>2. Sound' /\ late' \subseteq Commands /\ Apart' /\ felt' \subseteq Felt
   BY <2>1, ServesSound
 <2>3. TypeOK'
  <3>1. lock' \in Procs \cup {Nobody} BY <2>1 DEF Base, TypeOK, Suits, Passes
  <3> QED BY <2>1, <2>2, <3>1 DEF Base, TypeOK, Sound, Mailboxes, Frame, Workers, Suits, Asks
 <2>4. \A q \in Procs : Shape(q)' /\ Named(q)'
  <3> TAKE q \in Procs
  <3>1. CASE q = p BY <2>1, <3>1 DEF Suits
  <3>2. CASE q # p
   <4>1. pc'[q] = pc[q] /\ job'[q] = job[q] /\ offers' = offers /\ Shape(q) /\ Named(q)
     BY <2>1, <3>2 DEF Frame, Asks, Base
   <4> QED BY <4>1 DEF Shape, Named, Copy, Move, Mark, Asked
  <3> QED BY <3>1, <3>2
 <2>5. \A q \in Procs : Holder(q)' BY <2>1, HolderKept DEF Suits
 <2> QED BY <2>2, <2>3, <2>4, <2>5 DEF Base, Sound
<1>2. ASSUME Stays, Sound', late' \subseteq Commands, Apart', felt' \subseteq Felt,
             known' \in [Boxes -> Targets], lateRan' \in BOOLEAN, removed' \in BOOLEAN,
             added' \in BOOLEAN
      PROVE  Base'
 <2>1. /\ \A p \in Procs : (Shape(p) /\ Named(p) /\ Holder(p))'
       /\ Workers' /\ sent' \subseteq SentKeys BY <1>2, StaysShape
 <2>2. TypeOK' BY <1>2, <2>1 DEF Base, TypeOK, Sound, Mailboxes, Workers, Stays
 <2> QED BY <1>2, <2>1, <2>2 DEF Base, Sound
<1>3. /\ Sound /\ late \subseteq Commands /\ Apart /\ felt \subseteq Felt
      /\ known \in [Boxes -> Targets] /\ lateRan \in BOOLEAN /\ removed \in BOOLEAN
      /\ added \in BOOLEAN BY DEF Base, TypeOK, Sound, Mailboxes
<1>4. CASE LateExecution
 <2>1. PICK c \in late : /\ late' = late \ {c} /\ c \in Commands /\ (Arrives(c) => c.from # c.to)
                         /\ \/ Execute(c) /\ lateRan' = TRUE
                            \/ Ignore /\ lateRan' = lateRan BY <1>4, LateDoes
 <2>2. Stays /\ UNCHANGED <<known, removed, added>> BY <1>4, LateDoes
 <2>3. late' \subseteq Commands /\ Apart' BY <1>3, <2>1 DEF Apart, Arrives
 <2>4. CASE Execute(c) /\ lateRan' = TRUE BY <1>2, <1>3, <2>1, <2>2, <2>3, <2>4, ExecuteIs
 <2>5. CASE Ignore /\ lateRan' = lateRan
  <3>1. Sound' /\ felt' = felt BY <1>3, <2>5 DEF Ignore, server, Sound, Mailboxes, Numbered
  <3> QED BY <1>2, <1>3, <2>2, <2>3, <2>5, <3>1
 <2> QED BY <2>1, <2>4, <2>5
<1>5. ASSUME NEW b \in Boxes, Rebuild(b) PROVE Base'
  BY <1>2, <1>3, <1>5, RebuildDoes DEF Apart, Arrives
<1>6. ASSUME NEW b \in Boxes, ForeignClient(b) PROVE Base'
  BY <1>2, <1>3, <1>6, ForeignDoes DEF Apart, Arrives, Delivers, Removes, Undeletes
<1>7. ASSUME NEW b \in Boxes, Synchronise(b) PROVE Base'
  BY <1>2, <1>3, <1>7, SynchroniseDoes DEF Apart, Arrives, server, Sound, Mailboxes, Numbered
<1>8. CASE UNCHANGED vars
  BY <1>2, <1>3, <1>8 DEF vars, server, worker, history, Stays, Apart, Arrives, Sound, Mailboxes,
     Numbered
<1> QED BY <1>1, <1>4, <1>5, <1>6, <1>7, <1>8 DEF Next, Environment

-------------------------------------------------------------------------------
(* Whose message it is.                                                     *)

\* A request keeps its identity, forgets it, or resolves it.
LEMMA StepTarget ==
  ASSUME Base, NEW p \in Procs, Step(p)
  PROVE  \/ KeepsRequest(p)
         \/ job'[p].target = NoTarget
         \/ pc[p] = "resolve" /\ job'[p].ask = job[p].ask /\ job'[p].target \in Resolved(p)
<1>00. NewJob(NoRequest).target = NoTarget BY NewJobType
<1>0. ASSUME NEW says, NEW effects, Ends(p, says, effects) PROVE job'[p].target = NoTarget
  BY <1>0, <1>00 DEF Ends
<1>01. job'[p] = job[p] => KeepsRequest(p) BY DEF KeepsRequest
<1>02. ASSUME NEW flags, Observed(p, flags)
       PROVE  KeepsRequest(p) \/ job'[p].target = NoTarget BY <1>0, <1>02 DEF Observed
<1>1. ASSUME NEW r \in Requests, Begin(p, r) PROVE job'[p].target = NoTarget
 <2>1. r \in RequestRecord BY MutationAssumption
 <2>2. job'[p] = NewJob(r) BY <1>1, BeginDoes
 <2> QED BY <2>1, <2>2, NewJobType
<1>2. CASE Resolve(p)
 <2>1. CASE \E t \in Resolved(p) : job'[p].target = t /\ job'[p].ask = job[p].ask /\ pc[p] = "resolve"
   BY <2>1
 <2> QED BY <1>0, <1>2, <2>1, ResolveDoes
<1>3. CASE Attempt(p) BY <1>0, <1>01, <1>3, AttemptDoes
<1>4. CASE Acquire(p) BY <1>0, <1>01, <1>4, AcquireDoes DEF Refused
<1>5. CASE Guard(p) BY <1>0, <1>5, GuardDoes
<1>6. CASE Source(p)
 <2>1. CASE job'[p] = [NewJob(Asked(p)) EXCEPT !.retried = TRUE]
  <3>1. Asked(p) \in RequestRecord \cup {NoRequest} BY DEF Base, TypeOK, Jobs, Asked
  <3> QED BY <2>1, <3>1, NewJobType DEF Jobs
 <2> QED BY <1>0, <1>6, <2>1, SourceDoes DEF Refused
<1>7. CASE DispatchCopy(p) BY <1>0, <1>7, DispatchCopyDoes DEF Refused
<1>8. CASE VerifyCopy(p) BY <1>0, <1>8, VerifyCopyDoes
<1>9. CASE DispatchMove(p) BY <1>0, <1>9, DispatchMoveDoes DEF Refused
<1>10. CASE CheckAbsent(p) BY <1>0, <1>10, CheckAbsentDoes
<1>11. CASE CheckArrived(p) BY <1>0, <1>11, CheckArrivedDoes
<1>12. CASE FallbackCopy(p) BY <1>0, <1>01, <1>12, FallbackCopyDoes DEF Refused
<1>13. CASE SourceAgain(p) BY <1>0, <1>13, SourceAgainDoes
<1>14. CASE Store(p) BY <1>0, <1>01, <1>02, <1>14, StoreDoes
<1>15. CASE Fetch(p) BY <1>0, <1>02, <1>15, FetchDoes
<1>16. CASE Expunge(p) BY <1>0, <1>01, <1>16, ExpungeDoes
<1>17. CASE CheckExpunged(p) BY <1>0, <1>17, CheckExpungedDoes
<1>18. CASE Kill(p) BY <1>00, <1>18, KillDoes
<1> QED BY <1>1, <1>2, <1>3, <1>4, <1>5, <1>6, <1>7, <1>8, <1>9, <1>10, <1>11, <1>12, <1>13,
<1>14, <1>15, <1>16, <1>17, <1>18 DEF Step

\* An identity that named the message names it, or nothing, after every step.
LEMMA NamesKept ==
  ASSUME Base, Base', NEW b \in Boxes, NEW t \in Targets, Names(b, t), Evolves(b)
  PROVE  Names(b, t)'
<1>1. /\ validity[b] \in Nat /\ validity'[b] \in Nat /\ t.validity \in Nat /\ t.uid \in Nat
      /\ next[b] \in Nat /\ next'[b] \in Nat
      /\ \A n \in box'[b] : n.uid \in Nat BY DEF Base, TypeOK, Targets, Messages
<1>2. CASE validity'[b] > validity[b] BY <1>1, <1>2 DEF Names
<1>3. CASE /\ validity'[b] = validity[b] /\ next'[b] >= next[b]
           /\ \A n \in box'[b] : n.uid >= next[b] \/ \E m \in box[b] : m.uid = n.uid /\ m.id = n.id
 <2> SUFFICES ASSUME t.validity = validity'[b]
              PROVE  /\ t.uid < next'[b]
                     /\ \A n \in box'[b] : n.uid = t.uid => n.id = "named"
   BY <1>1, <1>3 DEF Names
 <2>1. t.uid < next[b] /\ \A m \in box[b] : m.uid = t.uid => m.id = "named" BY <1>3 DEF Names
 <2> QED BY <1>1, <1>3, <2>1
<1> QED BY <1>2, <1>3 DEF Evolves

\* No identity at all names no message.
LEMMA NoneNames == ASSUME Base, NEW b \in Boxes PROVE Names(b, NoTarget)
<1>1. validity[b] \in Nat \ {0} BY DEF Base, TypeOK
<1> QED BY <1>1 DEF Names, NoTarget

\* The identity of a message that is there.
LEMMA FoundNames ==
  ASSUME Base, NEW b \in Boxes, NEW m \in Holds(b)
  PROVE  Names(b, [uid |-> m.uid, validity |-> validity[b]])
<1>1. m \in box[b] /\ m.id = "named" /\ m.uid < next[b] /\ validity[b] \in Nat
      /\ \A k \in box[b] : k.uid = m.uid => k = m BY DEF Base, TypeOK, Numbered, Holds
<1> QED BY <1>1 DEF Names

\* What a command for an identity of the message changes is the message.
LEMMA SubjectNamed ==
  ASSUME NEW c, NEW m, Names(c.from, Identity(c)), Subject(c, m)
  PROVE  m.id = "named" BY DEF Names, Identity, Subject

\* An executed command touches only the named message.
LEMMA ExecuteTouches ==
  ASSUME Base, NEW c \in Commands, Arrives(c) => c.from # c.to, Execute(c),
         Names(c.from, Identity(c)), touched \subseteq {"named"}
  PROVE  touched' \subseteq {"named"} BY ExecuteIs, SubjectNamed DEF Vain, Finds

\* Initially the known identity names the message.
LEMMA InitIdentities == Init => Identities
<1> SUFFICES ASSUME Init PROVE Identities OBVIOUS
<1>1. Base BY InitBase
<1>2. \A b \in Boxes : Names(b, known[b])
 <2> TAKE b \in Boxes
 <2>1. CASE b = "inbox"
  <3>1. /\ known[b] = [uid |-> 1, validity |-> 1] /\ validity[b] = 1 /\ next[b] = 3
        /\ box[b] = {Message(1, "named", {"NotJunk"}), Message(2, "other", {})}
    BY <2>1 DEF Init, InitialBox, Boxes
  <3> QED BY <3>1, MessageFields DEF Names
 <2>2. CASE b = "trash"
  <3>1. known[b] = NoTarget BY <2>2 DEF Init, Boxes
  <3> QED BY <1>1, <3>1, NoneNames
 <2> QED BY <2>1, <2>2 DEF Boxes
<1>3. \A p \in Procs : Names(Asked(p).from, job[p].target)
 <2> TAKE p \in Procs
 <2>1. job[p].ask = NoRequest /\ job[p].target = NoTarget BY NewJobType DEF Init
 <2>2. Asked(p).from \in Boxes BY <2>1 DEF Asked, NoRequest, Boxes
 <2> QED BY <1>1, <2>1, <2>2, NoneNames
<1> QED BY <1>2, <1>3 DEF Identities, Init

\* Every identity keeps naming the message or nothing.
LEMMA NextIdentities ==
  ASSUME Base, Base', Identities, [Next]_vars
  PROVE  Identities'
<1>1. /\ \A q \in Procs : /\ Asked(q).from \in Boxes /\ job[q].target \in Targets
                          /\ Asked(q)'.from \in Boxes
      /\ \A c \in late : c.from \in Boxes /\ Identity(c) \in Targets
      /\ \A b \in Boxes : known[b] \in Targets
      /\ NoTarget \in Targets
 <2>1. ASSUME NEW q \in Procs, NEW j \in Jobs PROVE j.ask.from \in Boxes /\ j.target \in Targets
   BY DEF Jobs, RequestRecord, NoRequest, Boxes
 <2>2. \A c \in Commands : c.from \in Boxes /\ Identity(c) \in Targets
   BY DEF Commands, Identity, Targets
 <2> QED BY <2>1, <2>2 DEF Base, TypeOK, Asked, NoTarget, Targets, NoUid
<1>2. ASSUME NEW p \in Procs, Step(p) PROVE Identities'
 <2>1. Frame(p) /\ Asks /\ Serves(p) BY <1>2, StepDoes
 <2>2. (\A d \in Boxes : Evolves(d)) /\ validity' = validity BY <2>1, ServesSound
 <2>3. \A b \in Boxes : Names(b, known[b])'
  <3> TAKE b \in Boxes
  <3>1. PICK t \in Targets : t = known[b] BY <1>1
  <3>2. Names(b, t)' BY <2>2, <3>1, NamesKept DEF Identities
  <3> QED BY <2>1, <3>1, <3>2 DEF Asks
 <2>4. ASSUME NEW q \in Procs, job'[q].ask = job[q].ask, job'[q].target = job[q].target
       PROVE  Names(Asked(q).from, job[q].target)'
  <3>1. PICK t \in Targets, b \in Boxes : t = job[q].target /\ b = Asked(q).from BY <1>1
  <3>2. Names(b, t)' BY <2>2, <3>1, NamesKept DEF Identities
  <3>3. Asked(q)'.from = b /\ job'[q].target = t BY <2>4, <3>1 DEF Asked
  <3> QED BY <3>2, <3>3
 <2>5. Names(Asked(p).from, job[p].target)'
  <3>1. CASE KeepsRequest(p) BY <2>4, <3>1 DEF KeepsRequest
  <3>2. CASE job'[p].target = NoTarget
   <4>1. \A b \in Boxes : Names(b, NoTarget)'
    <5>1. \A b \in Boxes : validity'[b] \in Nat \ {0} BY DEF Base, TypeOK
    <5> QED BY <5>1 DEF Names, NoTarget
   <4> QED BY <1>1, <3>2, <4>1
  <3>3. CASE pc[p] = "resolve" /\ job'[p].ask = job[p].ask /\ job'[p].target \in Resolved(p)
   <4>0. PICK b \in Boxes : b = Asked(p).from BY <1>1
   <4>1. PICK t : t = job'[p].target /\ b = Asked(p).from BY <4>0
   <4>2. Names(b, t) /\ t \in Targets
    <5>1. CASE Asked(p).pinned
     <6>1. t = known[b] BY <3>3, <4>1, <5>1 DEF Resolved
     <6> QED BY <1>1, <6>1 DEF Identities
    <5>2. CASE ~Asked(p).pinned
     <6>1. PICK m \in Holds(b) : t = [uid |-> m.uid, validity |-> validity[b]]
       BY <3>3, <4>1, <5>2 DEF Resolved
     <6>2. m.uid \in Nat /\ validity[b] \in Nat BY DEF Base, TypeOK, Holds, Messages
     <6> QED BY <6>1, <6>2, FoundNames DEF Targets
    <5> QED BY <5>1, <5>2
   <4>3. Names(b, t)' BY <2>2, <4>2, NamesKept
   <4>4. Asked(p)'.from = b BY <3>3, <4>1 DEF Asked
   <4> QED BY <4>1, <4>3, <4>4
  <3> QED BY <1>2, <3>1, <3>2, <3>3, StepTarget
 <2>6. ASSUME NEW c \in late PROVE Names(c.from, Identity(c))'
  <3>1. PICK t \in Targets, b \in Boxes : t = Identity(c) /\ b = c.from BY <1>1
  <3>2. Names(b, t)' BY <2>2, <3>1, NamesKept DEF Identities
  <3> QED BY <3>1, <3>2 DEF Identity
 <2>7. ASSUME pc[p] \in Sending, NEW c, c = Cmd(p)
       PROVE  /\ Names(c.from, Identity(c)) /\ Names(c.from, Identity(c))'
              /\ c \in Commands /\ (Arrives(c) => c.from # c.to)
  <3>1. /\ c.from = Asked(p).from /\ c.uid = job[p].target.uid
        /\ c.validity = job[p].selected
        /\ c \in Commands /\ (Arrives(c) => c.from # c.to) BY <2>7, CmdIs
  <3>2. job[p].selected = job[p].target.validity BY <2>7 DEF Base, Shape, Sending, After
  <3>3. PICK t \in Targets, b \in Boxes : t = job[p].target /\ b = Asked(p).from BY <1>1
  <3>4. Identity(c) = t BY <3>1, <3>2, <3>3 DEF Identity, Targets
  <3>5. Names(b, t) BY <3>3 DEF Identities
  <3>6. Names(b, t)' BY <2>2, <3>5, NamesKept
  <3> QED BY <3>1, <3>3, <3>4, <3>5, <3>6 DEF Identity
 <2>8. ASSUME NEW c \in late' PROVE Names(c.from, Identity(c))'
  <3>1. CASE late' = late BY <2>6, <2>8, <3>1
  <3>2. CASE pc[p] \in Sending /\ late' = late \cup {Cmd(p)}
   <4>1. c \in late \/ c = Cmd(p) BY <2>8, <3>2
   <4> QED BY <2>6, <2>7, <3>2, <4>1
  <3> QED BY <2>1, <3>1, <3>2 DEF Serves
 <2>9. touched' \subseteq {"named"}
  <3>1. CASE Ignore BY <3>1 DEF Ignore, Identities
  <3>2. CASE pc[p] \in Sending /\ Execute(Cmd(p))
   <4>1. PICK c : c = Cmd(p) OBVIOUS
   <4> QED BY <2>7, <3>2, <4>1, ExecuteTouches DEF Identities
  <3> QED BY <2>1, <3>1, <3>2 DEF Serves
 <2>10. \A q \in Procs : Names(Asked(q).from, job[q].target)'
  <3> TAKE q \in Procs
  <3>1. CASE q = p BY <2>5, <3>1
  <3>2. CASE q # p BY <2>1, <2>4, <3>2 DEF Frame
  <3> QED BY <3>1, <3>2
 <2> QED BY <2>3, <2>8, <2>9, <2>10 DEF Identities
<1>3. ASSUME Stays, \A d \in Boxes : Evolves(d), late' \subseteq late, known' = known,
             touched' \subseteq {"named"}
      PROVE  Identities'
 <2>1. ASSUME NEW b \in Boxes PROVE Names(b, known[b])'
  <3>1. PICK t \in Targets : t = known[b] BY <1>1
  <3>2. Names(b, t)' BY <1>3, <3>1, NamesKept DEF Identities
  <3> QED BY <1>3, <3>1, <3>2
 <2>2. ASSUME NEW q \in Procs PROVE Names(Asked(q).from, job[q].target)'
  <3>1. PICK t \in Targets, b \in Boxes : t = job[q].target /\ b = Asked(q).from BY <1>1
  <3>2. Names(b, t)' BY <1>3, <3>1, NamesKept DEF Identities
  <3>3. job' = job BY <1>3 DEF Stays, worker
  <3> QED BY <3>1, <3>2, <3>3 DEF Asked
 <2>3. ASSUME NEW c \in late' PROVE Names(c.from, Identity(c))'
  <3>1. PICK t \in Targets, b \in Boxes : t = Identity(c) /\ b = c.from BY <1>1, <1>3
  <3>2. Names(b, t)' BY <1>3, <3>1, NamesKept DEF Identities
  <3> QED BY <3>1, <3>2 DEF Identity
 <2> QED BY <1>3, <2>1, <2>2, <2>3 DEF Identities
<1>4. touched \subseteq {"named"} BY DEF Identities
<1>5. CASE LateExecution
 <2>1. PICK c \in late : /\ late' = late \ {c} /\ c \in Commands /\ (Arrives(c) => c.from # c.to)
                         /\ \/ Execute(c) /\ lateRan' = TRUE
                            \/ Ignore /\ lateRan' = lateRan BY <1>5, LateDoes
 <2>2. CASE Execute(c)
  <3>1. Names(c.from, Identity(c)) BY DEF Identities
  <3> QED BY <1>3, <1>4, <1>5, <2>1, <2>2, <3>1, LateDoes, ExecuteIs, ExecuteTouches
 <2>3. CASE Ignore
  <3>1. \A d \in Boxes : Evolves(d) BY <2>3 DEF Ignore, server, Evolves, Base, TypeOK
  <3> QED BY <1>3, <1>4, <1>5, <2>1, <2>3, <3>1, LateDoes DEF Ignore
 <2> QED BY <2>1, <2>2, <2>3
<1>6. ASSUME NEW b \in Boxes, Rebuild(b) PROVE Identities' BY <1>3, <1>4, <1>6, RebuildDoes
<1>7. ASSUME NEW b \in Boxes, ForeignClient(b) PROVE Identities'
  BY <1>3, <1>4, <1>7, ForeignDoes
<1>8. ASSUME NEW b \in Boxes, Synchronise(b) PROVE Identities'
 <2>1. Stays /\ UNCHANGED <<server, late, felt, touched>> BY <1>8, SynchroniseDoes
 <2>2. /\ job' = job /\ validity' = validity /\ next' = next /\ box' = box /\ late' = late
       /\ touched' = touched BY <2>1 DEF Stays, worker, server
 <2>3. PICK t \in Targets :
             /\ known' = [known EXCEPT ![b] = t]
             /\ \/ t = NoTarget
                \/ \E m \in Holds(b) : t = [uid |-> m.uid, validity |-> validity[b]]
   BY <1>8, SynchroniseDoes
 <2>4. Names(b, t) BY <2>3, NoneNames, FoundNames
 <2>5. \A d \in Boxes : Names(d, known'[d]) BY <2>3, <2>4 DEF Identities, Base, TypeOK
 <2> QED BY <2>2, <2>5 DEF Identities, Names, Asked
<1>9. CASE UNCHANGED vars BY <1>9 DEF vars, server, worker, history, Identities, Names, Asked
<1> QED BY <1>2, <1>5, <1>6, <1>7, <1>8, <1>9 DEF Next, Environment

-------------------------------------------------------------------------------
(* What was sent for which request.                                        *)

Silent == Ignore /\ late' = late

\* What a step tells its caller, and what it may have sent before.
Tells(p) ==
  \/ runs'[p] = runs[p] + 1 /\ report'[p] = NoReport /\ Silent
  \/ /\ runs'[p] = runs[p] /\ report'[p] = report[p] /\ pc[p] # "idle"
     /\ Before(p)' => Before(p) /\ Silent
  \/ /\ runs'[p] = runs[p] /\ pc'[p] = "idle" /\ report'[p].run = runs[p]
     /\ report'[p].says = "refused" => Before(p) /\ Silent

\* A request that ends reports on its own run.
LEMMA EndsTells ==
  ASSUME NEW p \in Procs, NEW says, NEW effects, Ends(p, says, effects),
         says = "refused" => Before(p) /\ Silent
  PROVE  Tells(p) BY DEF Ends, Tells

\* What a step says of a run, and what it has sent for it.
LEMMA StepTells ==
  ASSUME Base, NEW p \in Procs, Step(p)
  PROVE  Tells(p)
<1>0. ReadOnly => Silent BY DEF ReadOnly, Ignore, history, server, Silent
<1>01. Before(p) => pc[p] # "idle" BY DEF Before, Early
<1>02. ASSUME NEW step, Goes(p, step), pc[p] # "idle", Before(p)' => Before(p) /\ Silent
       PROVE  Tells(p) BY <1>02 DEF Goes, Tells
<1>03. ASSUME NEW step, Goes(p, step), pc[p] # "idle", step \notin Early \cup {"store"}
       PROVE  Tells(p)
 <2>1. ~Before(p)' BY <1>03 DEF Goes, Before
 <2> QED BY <1>02, <1>03, <2>1
<1>04. ASSUME NEW says \in {"completed", "unknown"}, NEW effects, Ends(p, says, effects)
       PROVE  Tells(p) BY <1>04, EndsTells
<1>1. ASSUME NEW r \in Requests, Begin(p, r) PROVE Tells(p) BY <1>0, <1>1, BeginDoes DEF Tells
<1>2. CASE Resolve(p)
 <2>1. Before(p) /\ pc[p] # "idle" /\ Silent BY <1>0, <1>2, ResolveDoes DEF Before, Early
 <2> QED BY <1>02, <1>2, <2>1, ResolveDoes, EndsTells
<1>3. CASE Attempt(p)
 <2>1. Before(p) /\ pc[p] # "idle" /\ Silent BY <1>0, <1>3, AttemptDoes DEF Before, Early
 <2> QED BY <1>02, <1>3, <2>1, AttemptDoes, EndsTells
<1>4. CASE Acquire(p)
 <2>1. Before(p) /\ pc[p] # "idle" /\ Silent BY <1>0, <1>4, AcquireDoes DEF Before, Early
 <2> QED BY <1>02, <1>4, <2>1, AcquireDoes, EndsTells DEF Refused
<1>5. CASE Guard(p)
 <2>1. Before(p) /\ pc[p] # "idle" /\ Silent BY <1>0, <1>5, GuardDoes DEF Before, Early
 <2> QED BY <1>02, <1>5, <2>1, GuardDoes, EndsTells
<1>6. CASE Source(p)
 <2>1. Before(p) /\ pc[p] # "idle" /\ Silent BY <1>0, <1>6, SourceDoes DEF Before, Early
 <2> QED BY <1>02, <1>6, <2>1, SourceDoes, EndsTells DEF Refused
<1>7. CASE DispatchCopy(p)
 <2>1. Before(p) /\ pc[p] # "idle" BY <1>7, DispatchCopyDoes DEF Before, Early
 <2>2. CASE Goes(p, "verify") BY <1>03, <2>1, <2>2 DEF Early
 <2> QED BY <1>7, <2>1, <2>2, DispatchCopyDoes, EndsTells DEF Refused, Silent
<1>8. CASE VerifyCopy(p) BY <1>8, VerifyCopyDoes, EndsTells
<1>9. CASE DispatchMove(p)
 <2>1. Before(p) /\ pc[p] # "idle" BY <1>9, DispatchMoveDoes DEF Before, Early
 <2>2. CASE Goes(p, "absent") BY <1>03, <2>1, <2>2 DEF Early
 <2> QED BY <1>9, <2>1, <2>2, DispatchMoveDoes, EndsTells DEF Refused, Silent
<1>10. CASE CheckAbsent(p)
 <2>1. CASE Goes(p, "arrived") BY <1>03, <1>10, <2>1, CheckAbsentDoes DEF Early
 <2> QED BY <1>10, <2>1, CheckAbsentDoes, EndsTells
<1>11. CASE CheckArrived(p)
 <2>1. CASE Goes(p, "again") BY <1>03, <1>11, <2>1, CheckArrivedDoes DEF Early
 <2> QED BY <1>11, <2>1, CheckArrivedDoes, EndsTells
<1>12. CASE FallbackCopy(p)
 <2>1. Before(p) /\ pc[p] # "idle" BY <1>12, FallbackCopyDoes DEF Before, Early
 <2>2. CASE Goes(p, "arrived") BY <1>03, <2>1, <2>2 DEF Early
 <2>3. CASE Goes(p, "again") BY <1>03, <2>1, <2>3 DEF Early
 <2> QED BY <1>12, <2>1, <2>2, <2>3, FallbackCopyDoes, EndsTells DEF Refused, Silent
<1>13. CASE SourceAgain(p)
 <2>1. CASE Goes(p, "store") /\ KeepsRequest(p) /\ pc[p] = "again"
  <3>1. Move(p) BY <2>1 DEF Base, Shape
  <3>2. ~Before(p)' BY <2>1, <3>1 DEF Before, Early, Goes, KeepsRequest, Mark, Move, Asked
  <3> QED BY <1>02, <2>1, <3>2
 <2> QED BY <1>13, <2>1, SourceAgainDoes, EndsTells
<1>14. ASSUME pc[p] \in {"store", "fetch"}, NEW flags, Observed(p, flags) PROVE Tells(p)
 <2>1. CASE Goes(p, "store") /\ job'[p].outcome = "partial"
  <3>1. ~Before(p)' BY <2>1 DEF Before, Early, Goes
  <3> QED BY <1>02, <1>14, <2>1, <3>1
 <2>2. CASE Goes(p, "expunge") BY <1>03, <1>14, <2>2 DEF Early
 <2> QED BY <1>14, <2>1, <2>2, EndsTells DEF Observed
<1>15. CASE Store(p)
 <2>1. CASE Goes(p, "fetch") BY <1>03, <1>15, <2>1, StoreDoes DEF Early
 <2>2. CASE /\ Silent /\ pc[p] = "store"
            /\ \E says \in {"unknown", "partial", "refused"} :
                 /\ Ends(p, says, job[p].effects)
                 /\ says = "refused" => Mark(p) /\ job[p].outcome # "partial"
   BY <2>2, EndsTells DEF Before
 <2>3. CASE \E flags : Observed(p, flags) BY <1>14, <1>15, <2>3, StoreDoes
 <2> QED BY <1>15, <2>1, <2>2, <2>3, StoreDoes, EndsTells DEF Silent
<1>16. CASE Fetch(p) BY <1>14, <1>16, FetchDoes, EndsTells
<1>17. CASE Expunge(p)
 <2>1. CASE Goes(p, "expunged") BY <1>03, <1>17, <2>1, ExpungeDoes DEF Early
 <2> QED BY <1>04, <1>17, <2>1, ExpungeDoes
<1>18. CASE CheckExpunged(p) BY <1>04, <1>18, CheckExpungedDoes
<1>19. CASE Kill(p)
 <2>1. pc[p] # "idle" BY <1>19 DEF Kill
 <2>2. ~Before(p)' BY <1>19, KillDoes DEF Before, Early
 <2> QED BY <1>19, <2>1, <2>2, KillDoes DEF Tells
<1> QED BY <1>1, <1>2, <1>3, <1>4, <1>5, <1>6, <1>7, <1>8, <1>9, <1>10, <1>11, <1>12, <1>13,
<1>15, <1>16, <1>17, <1>18, <1>19 DEF Step

\* What a process adds to what was sent and what took effect is for its request.
LEMMA ServesOwn ==
  ASSUME Base, NEW p \in Procs, Serves(p), NEW f,
         f \in felt' \cup late', f \notin felt \cup late
  PROVE  By(f) = Of(p) /\ f.by = p /\ f.run = runs[p] /\ ~Silent
<1>1. felt' = felt \/ (pc[p] \in Sending /\ felt' = felt \cup {FeltOf(Cmd(p))})
 <2>1. CASE Ignore BY <2>1 DEF Ignore
 <2>2. CASE pc[p] \in Sending /\ Execute(Cmd(p))
  <3>1. Cmd(p) \in Commands /\ (Arrives(Cmd(p)) => Cmd(p).from # Cmd(p).to) BY <2>2, CmdIs
  <3> QED BY <2>2, <3>1, ExecuteIs DEF Vain, Finds
 <2> QED BY <2>1, <2>2 DEF Serves
<1>2. late' = late \/ (pc[p] \in Sending /\ late' = late \cup {Cmd(p)}) BY DEF Serves
<1>3. pc[p] \in Sending /\ f \in {Cmd(p), FeltOf(Cmd(p))} BY <1>1, <1>2
<1>4. Cmd(p).by = p /\ Cmd(p).run = runs[p] BY <1>3, CmdIs
<1>5. f.by = p /\ f.run = runs[p] BY <1>3, <1>4 DEF FeltOf
<1>6. ~Silent BY <1>1, <1>2 DEF Silent, Ignore
<1> QED BY <1>5, <1>6 DEF By, Of

\* Initially nothing was sent.
LEMMA InitRequested == Init => Requested
<1> SUFFICES ASSUME Init PROVE Requested OBVIOUS
<1>1. \A p \in Procs : report[p].run = 0 /\ report[p].says = "nothing" /\ runs[p] = 0 /\ pc[p] = "idle"
  BY DEF Init, NoReport
<1> QED BY <1>1 DEF Init, Requested, RefusedMeansUntouched

\* What was sent for a run stays known by its run.
LEMMA NextRequested ==
  ASSUME Base, Base', Requested, [Next]_vars
  PROVE  Requested'
<1>0. /\ \A f \in felt \cup late : f.by \in Procs /\ f.run \in Nat
      /\ \A q \in Procs : runs[q] \in Nat /\ report[q].run \in Nat
  BY DEF Base, TypeOK, Felt, Commands, Reports
<1>1. ASSUME NEW p \in Procs, Step(p) PROVE Requested'
 <2>1. Frame(p) /\ Serves(p) /\ Tells(p) BY <1>1, StepDoes, StepTells
 <2>2. /\ \A q \in Procs \ {p} : /\ pc'[q] = pc[q] /\ job'[q] = job[q]
                                 /\ report'[q] = report[q] /\ runs'[q] = runs[q]
       /\ runs'[p] >= runs[p] BY <1>0, <2>1 DEF Frame, Tells
 <2>3. \A f \in felt' \cup late' : f \in felt \cup late \/ (f.by = p /\ f.run = runs[p] /\ ~Silent)
   BY <2>1, ServesOwn
 <2>4. ASSUME NEW f, f \in felt' \cup late' PROVE f.run <= runs'[f.by]
  <3>1. CASE f \in felt \cup late
   <4>1. f.run <= runs[f.by] /\ f.by \in Procs /\ f.run \in Nat BY <3>1, <1>0 DEF Requested
   <4>2. runs[f.by] <= runs'[f.by] BY <2>2, <4>1, <1>0
   <4>3. runs[f.by] \in Nat /\ runs'[f.by] \in Nat BY <4>1 DEF Base, TypeOK
   <4> QED BY <4>1, <4>2, <4>3
  <3>2. CASE f.by = p /\ f.run = runs[p] BY <1>0, <2>2, <3>2
  <3> QED BY <2>3, <2>4, <3>1, <3>2
 <2>5. \A q \in Procs : /\ report'[q].run <= runs'[q]
                        /\ pc'[q] # "idle" => report'[q] = NoReport
  <3> TAKE q \in Procs
  <3>1. CASE q # p BY <2>2, <3>1 DEF Requested
  <3>2. CASE q = p
   <4>1. report[p].run <= runs[p] /\ (pc[p] # "idle" => report[p] = NoReport) BY DEF Requested
   <4>2. NoReport.run = 0 BY DEF NoReport
   <4> QED BY <1>0, <2>1, <2>2, <3>2, <4>1, <4>2 DEF Tells
  <3> QED BY <3>1, <3>2
 <2>6. ASSUME NEW q \in Procs, Before(q)', NEW f, f \in felt' \cup late',
              f.by = q, f.run = runs'[q]
       PROVE  FALSE
  <3>1. CASE q # p
   <4>1. f \in felt \cup late /\ Before(q) /\ runs'[q] = runs[q]
     BY <2>2, <2>3, <2>6, <3>1 DEF Before, Mark, Asked
   <4> QED BY <2>6, <4>1 DEF Requested, By, Of
  <3>2. CASE q = p
   <4>1. CASE runs'[p] = runs[p] + 1 /\ Silent
    <5>1. f \in felt \cup late /\ runs[p] \in Nat BY <1>0, <2>6, <4>1 DEF Silent, Ignore
    <5>2. f.run <= runs[p] BY <2>6, <3>2, <5>1 DEF Requested
    <5> QED BY <1>0, <2>6, <3>2, <4>1, <5>1, <5>2
   <4>2. CASE runs'[p] = runs[p] /\ Before(p) /\ Silent
    <5>1. f \in felt \cup late BY <2>6, <4>2 DEF Silent, Ignore
    <5> QED BY <2>6, <3>2, <4>2, <5>1 DEF Requested, By, Of
   <4>3. pc'[p] # "idle" BY <2>6, <3>2 DEF Before, Early
   <4> QED BY <2>1, <2>6, <3>2, <4>1, <4>2, <4>3 DEF Tells
  <3> QED BY <3>1, <3>2
 <2>7. ASSUME NEW q \in Procs, report'[q].says = "refused", NEW f, f \in felt' \cup late',
              f.by = q, f.run = report'[q].run
       PROVE  FALSE
  <3>1. CASE q # p
   <4>1. f \in felt \cup late /\ report'[q] = report[q] BY <2>2, <2>3, <2>7, <3>1
   <4> QED BY <2>7, <4>1 DEF Requested, RefusedMeansUntouched
  <3>2. CASE q = p
   <4>1. NoReport.says = "nothing" BY DEF NoReport
   <4>2. pc[p] # "idle" => report[p] = NoReport BY DEF Requested
   <4>3. pc'[p] = "idle" /\ report'[p].run = runs[p] /\ Before(p) /\ Silent
     BY <2>1, <2>7, <3>2, <4>1, <4>2 DEF Tells
   <4>4. f \in felt \cup late BY <2>7, <4>3 DEF Silent, Ignore
   <4> QED BY <2>7, <3>2, <4>3, <4>4 DEF Requested, By, Of
  <3> QED BY <3>1, <3>2
 <2>8. RefusedMeansUntouched' BY <2>7 DEF RefusedMeansUntouched
 <2>9. \A q \in Procs : Before(q)' => \A f \in felt' \cup late' : By(f) # [by |-> q, run |-> runs'[q]]
   BY <2>6 DEF By
 <2> QED BY <2>4, <2>5, <2>8, <2>9 DEF Requested, Of
<1>2. ASSUME Stays,
             \A f : f \in felt' \cup late' =>
               \E g \in felt \cup late : By(g) = By(f) /\ g.by = f.by /\ g.run = f.run
      PROVE  Requested'
 <2>1. /\ pc' = pc /\ job' = job /\ report' = report /\ runs' = runs BY <1>2 DEF Stays, worker
 <2>2. \A f : f \in felt' \cup late' => f.run <= runs'[f.by] BY <1>2, <2>1 DEF Requested
 <2>3. RefusedMeansUntouched' BY <1>2, <2>1 DEF Requested, RefusedMeansUntouched
 <2>4. \A q \in Procs : Before(q)' => \A f \in felt' \cup late' : By(f) # [by |-> q, run |-> runs'[q]]
   BY <1>2, <2>1 DEF Requested, Before, Of, Mark, Asked
 <2> QED BY <2>1, <2>2, <2>3, <2>4 DEF Requested, Of
<1>3. CASE LateExecution
 <2>1. PICK c \in late : /\ late' = late \ {c} /\ c \in Commands /\ (Arrives(c) => c.from # c.to)
                         /\ \/ Execute(c) /\ lateRan' = TRUE
                            \/ Ignore /\ lateRan' = lateRan BY <1>3, LateDoes
 <2>2. felt' = felt \/ felt' = felt \cup {FeltOf(c)}
  <3>1. CASE Execute(c) BY <2>1, <3>1, ExecuteIs DEF Vain, Finds
  <3>2. CASE Ignore BY <3>2 DEF Ignore
  <3> QED BY <2>1, <3>1, <3>2
 <2>3. By(FeltOf(c)) = By(c) /\ FeltOf(c).by = c.by /\ FeltOf(c).run = c.run BY DEF By, FeltOf
 <2>4. \A f : f \in felt' \cup late' =>
         \E g \in felt \cup late : By(g) = By(f) /\ g.by = f.by /\ g.run = f.run
   BY <2>1, <2>2, <2>3
 <2> QED BY <1>2, <1>3, <2>4, LateDoes
<1>4. ASSUME NEW b \in Boxes, Rebuild(b) PROVE Requested' BY <1>2, <1>4, RebuildDoes
<1>5. ASSUME NEW b \in Boxes, ForeignClient(b) PROVE Requested' BY <1>2, <1>5, ForeignDoes
<1>6. ASSUME NEW b \in Boxes, Synchronise(b) PROVE Requested' BY <1>2, <1>6, SynchroniseDoes
<1>7. CASE UNCHANGED vars BY <1>2, <1>7 DEF vars, history, Stays
<1> QED BY <1>1, <1>3, <1>4, <1>5, <1>6, <1>7 DEF Next, Environment

-------------------------------------------------------------------------------
(* How many copies.                                                        *)

\* What a command that finds the message does to the mailboxes, message by message.
LEMMA BoxAfter ==
  ASSUME Base, NEW c \in Commands, Arrives(c) => c.from # c.to, NEW m \in Messages,
         Subject(c, m), Result(c, m)
  PROVE  /\ \A b \in Boxes : \A n \in box'[b] :
              \/ n \in box[b]
              \/ Arrives(c) /\ b = c.to /\ n = Carried(c, m)
              \/ c.kind = "store" /\ b = c.from /\ n = Stored(c, m)
         /\ \A b \in Boxes : \A n \in box[b] :
              \/ n \in box'[b]
              \/ b = c.from /\ n = m /\ c.kind \in {"store", "move", "expunge"}
         /\ Arrives(c) => Carried(c, m) \in box'[c.to]
         /\ c.kind = "store" => Stored(c, m) \in box'[c.from]
         /\ m \in box[c.from]
         /\ Carried(c, m).id = m.id /\ Carried(c, m).uid = next[c.to]
         /\ Stored(c, m).id = m.id /\ Stored(c, m).uid = m.uid
         /\ Stored(c, m).flags = (m.flags \cup c.add) \ c.remove
         /\ Carried(c, m).flags = m.flags
<1>1. box \in [Boxes -> SUBSET Messages] /\ c.from \in Boxes /\ c.to \in Boxes
  BY DEF Base, TypeOK, Commands
<1>2. m \in box[c.from] BY DEF Subject
<1>3. /\ Carried(c, m).id = m.id /\ Carried(c, m).uid = next[c.to]
      /\ Stored(c, m).id = m.id /\ Stored(c, m).uid = m.uid
      /\ Stored(c, m).flags = (m.flags \cup c.add) \ c.remove
      /\ Carried(c, m).flags = m.flags BY DEF Carried, Stored, Message
<1>4. CASE c.kind = "store"
 <2>1. box' = [box EXCEPT ![c.from] = (@ \ {m}) \cup {Stored(c, m)}] BY <1>4 DEF Result, Swap
 <2> QED BY <1>1, <1>2, <1>3, <1>4, <2>1 DEF Arrives
<1>5. CASE c.kind = "expunge"
 <2>1. box' = [box EXCEPT ![c.from] = @ \ {m}] BY <1>5 DEF Result, Drop
 <2> QED BY <1>1, <1>2, <1>3, <1>5, <2>1 DEF Arrives
<1>6. CASE c.kind = "copy"
 <2>1. box' = [box EXCEPT ![c.to] = @ \cup {Carried(c, m)}] BY <1>6 DEF Result, Put
 <2> QED BY <1>1, <1>2, <1>3, <1>6, <2>1 DEF Arrives
<1>7. CASE c.kind = "move"
 <2>1. /\ box' = [box EXCEPT ![c.from] = @ \ {m}, ![c.to] = @ \cup {Carried(c, m)}]
       /\ c.from # c.to BY <1>7 DEF Result, Arrives
 <2> QED BY <1>1, <1>2, <1>3, <1>7, <2>1 DEF Arrives
<1> QED BY <1>4, <1>5, <1>6, <1>7 DEF Commands, Kinds

\* The same of the copies of the named message.
LEMMA HoldsAfter ==
  ASSUME Base, Base', NEW c \in Commands, Arrives(c) => c.from # c.to, NEW m \in Messages,
         Subject(c, m), Result(c, m), m.id = "named", NEW b \in Boxes
  PROVE  /\ Holds(b) = {} => Holds(b)' = {} \/ (Arrives(c) /\ b = c.to)
         /\ One(b) /\ (Arrives(c) => Holds(c.to) = {}) => One(b)'
<1>1. /\ \A n \in box'[b] :
              \/ n \in box[b]
              \/ Arrives(c) /\ b = c.to /\ n = Carried(c, m)
              \/ c.kind = "store" /\ b = c.from /\ n = Stored(c, m)
      /\ c.kind = "store" => Stored(c, m) \in box'[c.from]
      /\ m \in box[c.from] /\ Stored(c, m).uid = m.uid BY BoxAfter
<1>2. \A n : n \in Holds(b)' <=> n \in box'[b] /\ n.id = "named" BY DEF Holds
<1>3. m \in Holds(c.from) BY <1>1 DEF Holds
<1>4. Holds(b) = {} => Holds(b)' = {} \/ (Arrives(c) /\ b = c.to)
 <2> SUFFICES ASSUME Holds(b) = {}, NEW n, n \in Holds(b)', ~(Arrives(c) /\ b = c.to)
              PROVE  FALSE OBVIOUS
 <2>1. n \in box'[b] /\ n.id = "named" BY <1>2
 <2>2. n \in box[b] \/ (c.kind = "store" /\ b = c.from) BY <1>1, <2>1
 <2> QED BY <1>3, <2>1, <2>2 DEF Holds
<1>5. ASSUME One(b), Arrives(c) => Holds(c.to) = {} PROVE One(b)'
 <2>1. \A k, l \in box'[b] : k.uid = l.uid => k = l BY DEF Base, Numbered
 <2> SUFFICES ASSUME NEW k, NEW l, k \in Holds(b)', l \in Holds(b)' PROVE k = l BY DEF One
 <2>2. /\ k \in box'[b] /\ k.id = "named" /\ l \in box'[b] /\ l.id = "named" BY <1>2
 <2>3. CASE Arrives(c) /\ b = c.to
  <3>1. Holds(b) = {} /\ c.kind # "store" BY <1>5, <2>3 DEF Arrives
  <3>2. \A n \in box'[b] : n.id = "named" => n = Carried(c, m) BY <1>1, <3>1 DEF Holds
  <3> QED BY <2>2, <3>2
 <2>4. CASE c.kind = "store" /\ b = c.from
  <3>1. \A n \in box'[b] : n.id = "named" => n.uid = m.uid
   <4>1. ~Arrives(c) BY <2>4 DEF Arrives
   <4>2. \A n \in Holds(b) : n = m BY <1>3, <1>5, <2>4 DEF One
   <4> QED BY <1>1, <4>1, <4>2 DEF Holds
  <3> QED BY <2>1, <2>2, <3>1
 <2>5. CASE ~(Arrives(c) /\ b = c.to) /\ ~(c.kind = "store" /\ b = c.from)
  <3>1. k \in Holds(b) /\ l \in Holds(b) BY <1>1, <2>2, <2>5 DEF Holds
  <3> QED BY <1>5, <3>1 DEF One
 <2> QED BY <2>3, <2>4, <2>5
<1> QED BY <1>4, <1>5

\* The identity of a command.
LEMMA CmdNames ==
  ASSUME Base, Identities, NEW p \in Procs, pc[p] \in Sending
  PROVE  Names(Cmd(p).from, Identity(Cmd(p))) /\ Identity(Cmd(p)) = job[p].target
<1>1. /\ Cmd(p).from = Asked(p).from /\ Cmd(p).uid = job[p].target.uid
      /\ Cmd(p).validity = job[p].selected BY CmdIs
<1>2. job[p].selected = job[p].target.validity BY DEF Base, Shape, Sending, After
<1>3. job[p].target \in Targets BY DEF Base, TypeOK, Jobs
<1>4. Identity(Cmd(p)) = job[p].target BY <1>1, <1>2, <1>3 DEF Identity, Targets
<1> QED BY <1>1, <1>4 DEF Identities

\* What a process does to the copies of the message.
LEMMA StepHolds ==
  ASSUME Base, Base', Identities, NEW p \in Procs, Serves(p)
  PROVE  /\ felt \subseteq felt'
         /\ \A f : f \in felt' => \/ f \in felt
                                  \/ /\ By(f) = Of(p) /\ pc[p] \in Sending
                                     /\ f.kind = Cmd(p).kind /\ f.named = Asked(p).named
         /\ \A b \in Boxes :
              Holds(b) = {} => \/ Holds(b)' = {}
                               \/ /\ pc[p] = "dispatch" /\ b = Asked(p).to
                                  /\ \E f : f \in felt' /\ f.kind \in {"copy", "move"}
                                            /\ By(f) = Of(p)
         /\ \A b \in Boxes :
              /\ One(b) /\ (\A f : f \in felt' => f.named)
              /\ pc[p] = "dispatch" /\ Asked(p).named => Holds(Asked(p).to) = {}
              => One(b)'
         /\ pc[p] \notin Sending => box' = box /\ felt' = felt
<1>1. CASE box' = box /\ felt' = felt BY <1>1 DEF Holds, One
<1>2. ASSUME pc[p] \in Sending, NEW m \in Messages, Finds(Cmd(p), m)
      PROVE  /\ felt \subseteq felt'
             /\ \A f : f \in felt' => \/ f \in felt
                                      \/ /\ By(f) = Of(p) /\ pc[p] \in Sending
                                         /\ f.kind = Cmd(p).kind /\ f.named = Asked(p).named
             /\ \A b \in Boxes :
                  Holds(b) = {} => \/ Holds(b)' = {}
                                   \/ /\ pc[p] = "dispatch" /\ b = Asked(p).to
                                      /\ \E f : f \in felt' /\ f.kind \in {"copy", "move"}
                                                /\ By(f) = Of(p)
             /\ \A b \in Boxes :
                  /\ One(b) /\ (\A f : f \in felt' => f.named)
                  /\ pc[p] = "dispatch" /\ Asked(p).named => Holds(Asked(p).to) = {}
                  => One(b)'
 <2>1. PICK c \in Commands :
         /\ c = Cmd(p) /\ c.by = p /\ c.run = runs[p] /\ c.named = Asked(p).named
         /\ c.to = Asked(p).to /\ (Arrives(c) => c.from # c.to)
         /\ Arrives(c) => pc[p] = "dispatch"
  <3>1. Arrives(Cmd(p)) => pc[p] = "dispatch" BY <1>2, CmdIs DEF Arrives, Sending
  <3> QED BY <1>2, <3>1, CmdIs
 <2>2. Names(c.from, Identity(c)) BY <1>2, <2>1, CmdNames
 <2>3. Subject(c, m) /\ Result(c, m) /\ felt' = felt \cup {FeltOf(c)} BY <1>2, <2>1 DEF Finds
 <2>4. m.id = "named" BY <2>2, <2>3, SubjectNamed
 <2>5. /\ By(FeltOf(c)) = Of(p) /\ FeltOf(c).kind = c.kind /\ FeltOf(c).named = Asked(p).named
   BY <2>1 DEF FeltOf, By, Of
 <2>6. ASSUME NEW b \in Boxes, Holds(b) = {}
       PROVE  \/ Holds(b)' = {}
              \/ /\ pc[p] = "dispatch" /\ b = Asked(p).to
                 /\ \E f : f \in felt' /\ f.kind \in {"copy", "move"} /\ By(f) = Of(p)
  <3>1. Holds(b)' = {} \/ (Arrives(c) /\ b = c.to) BY <2>1, <2>3, <2>4, <2>6, HoldsAfter
  <3> QED BY <2>1, <2>3, <2>5, <3>1 DEF Arrives
 <2>7. ASSUME NEW b \in Boxes, One(b), \A f : f \in felt' => f.named,
              pc[p] = "dispatch" /\ Asked(p).named => Holds(Asked(p).to) = {}
       PROVE  One(b)'
  <3>1. Asked(p).named BY <2>3, <2>5, <2>7
  <3>2. Arrives(c) => Holds(c.to) = {} BY <2>1, <2>7, <3>1
  <3> QED BY <2>1, <2>3, <2>4, <2>7, <3>2, HoldsAfter
 <2> QED BY <1>2, <2>1, <2>3, <2>5, <2>6, <2>7
<1>3. CASE Ignore
 <2>1. box' = box /\ felt' = felt BY <1>3 DEF Ignore, server
 <2> QED BY <1>1, <2>1
<1>4. CASE pc[p] \in Sending /\ Execute(Cmd(p))
 <2>1. Cmd(p) \in Commands /\ (Arrives(Cmd(p)) => Cmd(p).from # Cmd(p).to) BY <1>4, CmdIs
 <2>2. CASE Vain(Cmd(p)) BY <1>1, <2>2 DEF Vain
 <2>3. CASE \E m \in Messages : Finds(Cmd(p), m) BY <1>2, <1>4, <2>3
 <2> QED BY <1>4, <2>1, <2>2, <2>3, ExecuteIs
<1> QED BY <1>3, <1>4 DEF Serves

\* What a request has made happen, once a step is done.
Has(p, kinds) == \E f : f \in felt' /\ By(f) = Of(p) /\ f.kind \in kinds
Copying(p) == Arriving(p) /\ Effective(p) /\ Honest(p)

\* The mailboxes of a request are mailboxes.
LEMMA AskedType ==
  ASSUME Base, NEW p \in Procs
  PROVE  /\ Asked(p).to \in Boxes /\ Asked(p).from \in Boxes
         /\ job[p] \in Jobs /\ job[p].target \in Targets
<1>1. job[p] \in Jobs BY DEF Base, TypeOK
<1>2. Asked(p) \in RequestRecord \cup {NoRequest} /\ job[p].target \in Targets
  BY <1>1 DEF Jobs, Asked
<1> QED BY <1>1, <1>2 DEF RequestRecord, NoRequest, Boxes

\* A request goes on: what it has made happen is what it has made happen.
LEMMA RanHas ==
  ASSUME NEW p \in Procs, runs'[p] = runs[p], NEW kinds
  PROVE  Ran(p, kinds)' <=> Has(p, kinds) BY DEF Ran, Has, Of, By

\* A command that finds the message is what its request has made happen.
LEMMA CmdHas ==
  ASSUME Base, NEW p \in Procs, pc[p] \in Sending, Execute(Cmd(p)), Subjects(Cmd(p)) # {}
  PROVE  \E f : f \in felt' /\ By(f) = Of(p) /\ f.kind = Cmd(p).kind
<1>1. PICK c \in Commands : /\ c = Cmd(p) /\ c.by = p /\ c.run = runs[p]
                            /\ (Arrives(c) => c.from # c.to) BY CmdIs
<1>2. felt' = felt \cup {FeltOf(c)} BY <1>1, ExecuteIs DEF Vain, Finds
<1>3. By(FeltOf(c)) = Of(p) /\ FeltOf(c).kind = c.kind BY <1>1 DEF FeltOf, By, Of
<1> QED BY <1>1, <1>2, <1>3

\* A request ends with a report of what it has made happen.
LEMMA EndsCopying ==
  ASSUME NEW p \in Procs, NEW says, NEW effects, Ends(p, says, effects),
         "copy" \in effects => \/ Has(p, {"copy", "move"})
                               \/ /\ says = "completed" /\ effects = {"copy"}
                                  /\ \E f : f \in felt' /\ Arrival(f),
         "move" \in effects => Has(p, {"move"}),
         "source_flag" \in effects => Has(p, {"store"})
  PROVE  Copying(p)'
<1>1. /\ pc'[p] = "idle" /\ job'[p].effects = {} /\ job'[p].ask = NoRequest
      /\ report'[p] = [says |-> says, effects |-> effects, run |-> runs[p]]
  BY NewJobType DEF Ends
<1>2. Arriving(p)' BY <1>1 DEF Arriving, Guarded, Critical, Copy, Asked, NoRequest, After
<1>3. Effective(p)' BY <1>1 DEF Effective
<1>4. Honest(p)'
 <2>1. /\ report'[p].says = says /\ report'[p].effects = effects /\ report'[p].run = runs[p]
   BY <1>1
 <2>2. \A f : By(f) = Of(p) => f.by = p /\ f.run = runs[p] BY DEF By, Of
 <2>3. FoundThere(p)' <=> says = "completed" /\ effects = {"copy"} BY <2>1 DEF FoundThere
 <2> QED BY <2>1, <2>2, <2>3 DEF Honest, Has, Arrival
<1> QED BY <1>2, <1>3, <1>4 DEF Copying

\* A report stays as true as it was.
LEMMA HonestKept ==
  ASSUME NEW p \in Procs, Honest(p), report'[p] = report[p], felt \subseteq felt'
  PROVE  Honest(p)' BY DEF Honest, FoundThere

\* Who is not stepping cannot be disturbed in what it knows of the mailboxes.
LEMMA OthersCopying ==
  ASSUME Base, Base', Identities, NEW p \in Procs, Frame(p), Asks, Serves(p),
         NEW q \in Procs \ {p}, Copying(q)
  PROVE  Copying(q)'
<1>1. /\ pc'[q] = pc[q] /\ job'[q] = job[q] /\ report'[q] = report[q] /\ runs'[q] = runs[q]
      /\ offers' = offers BY DEF Frame, Asks
<1>2. felt \subseteq felt' BY StepHolds
<1>3. pc[q] \in Critical => box' = box /\ felt' = felt
 <2>1. pc[q] \in Critical => lock = q BY DEF Base, Holder
 <2>2. pc[p] \in Sending => lock = p BY CmdIs
 <2> QED BY <2>1, <2>2, StepHolds
<1>4. validity' = validity BY ServesSound
<1>5. Asked(q)' = Asked(q) /\ Of(q)' = Of(q) /\ Asked(q).to \in Boxes
  BY <1>1, AskedType DEF Asked, Of
<1>6. /\ Mark(q)' = Mark(q) /\ Move(q)' = Move(q) /\ Copy(q)' = Copy(q)
      /\ Guarded(q)' = Guarded(q) BY <1>1, <1>5 DEF Mark, Move, Copy, Guarded
<1>7. \A kinds : Ran(q, kinds) => Has(q, kinds) BY <1>2 DEF Ran, Has
<1>8. pc[q] \in Critical => \A kinds : Has(q, kinds) => Ran(q, kinds) BY <1>3 DEF Ran, Has
<1>9. Arriving(q)'
 <2>1. Guarded(q) => Holds(Asked(q).to)' = Holds(Asked(q).to) BY <1>3, <1>5 DEF Guarded, Holds
 <2>2. Copied(q)' <=> Has(q, {"copy", "move"}) BY <1>1, RanHas DEF Copied
 <2>3. Guarded(q)' /\ pc'[q] \in {"source", "dispatch"} => Holds(Asked(q).to)' = {}
   BY <1>1, <1>6, <2>1 DEF Copying, Arriving
 <2>4. Guarded(q)' /\ ~Copied(q)' => Holds(Asked(q).to)' = {}
   BY <1>6, <1>7, <2>1, <2>2 DEF Copying, Arriving, Copied
 <2>5. /\ pc'[q] \in After \ {"dispatch", "verify"}
       /\ job'[q].copyuid # <<0, 0>>
       => Copied(q)' BY <1>1, <1>7, <2>2 DEF Copying, Arriving, Copied
 <2>6. Copy(q)' /\ pc'[q] \in {"dispatch", "verify"} /\ Holds(Asked(q).to)' # {}
       => \E f : f \in felt' /\ Arrival(f)
  <3>1. CASE Holds(Asked(q).to) # {} BY <1>1, <1>2, <1>6, <3>1 DEF Copying, Arriving
  <3>2. CASE Holds(Asked(q).to) = {} BY <1>5, <3>2, StepHolds DEF Arrival
  <3> QED BY <3>1, <3>2
 <2> QED BY <1>5, <2>3, <2>4, <2>5, <2>6 DEF Arriving
<1>10. Effective(q)'
 <2>1. Ran(q, {"copy", "move"})' <=> Has(q, {"copy", "move"}) BY <1>1, RanHas
 <2>2. Ran(q, {"store"})' <=> Has(q, {"store"}) BY <1>1, RanHas
 <2>3. Ran(q, {"copy"})' <=> Has(q, {"copy"}) BY <1>1, RanHas
 <2>4. pc[q] = "fetch" =>
         At(Asked(q).from, job[q].target.uid)' = At(Asked(q).from, job[q].target.uid)
   BY <1>1, <1>3, <1>5 DEF At, Critical, Steps
 <2>5. pc[q] \in {"absent", "arrived"} => pc[q] \in Critical BY DEF Critical, Steps
 <2> QED
   BY <1>1, <1>4, <1>5, <1>6, <1>7, <1>8, <2>1, <2>2, <2>3, <2>4, <2>5
      DEF Copying, Effective, Copied
<1> QED BY <1>1, <1>2, <1>9, <1>10, HonestKept DEF Copying

\* A request that has not been sent yet, and does not hold the lock.
LEMMA EarlyCopying ==
  ASSUME Base', NEW p \in Procs, NEW step \in {"resolve", "attempt", "lock", "guard"},
         pc'[p] = step, Honest(p)'
  PROVE  Copying(p)'
<1>1. job'[p].effects = {} BY DEF Base, Shape, Early
<1>2. Effective(p)' BY <1>1 DEF Effective
<1>3. Arriving(p)' BY DEF Arriving, Guarded, Critical, After
<1> QED BY <1>2, <1>3 DEF Copying

\* A request goes on under the lock.
LEMMA GoesArriving ==
  ASSUME Base, Base', Identities, NEW p \in Procs, NEW step \in Critical \ {"guard", "source"},
         Goes(p, step), Serves(p), job'[p].ask = job[p].ask, Arriving(p),
         pc[p] \in Critical \ {"guard"}, step = "dispatch" => pc[p] = "source",
         job'[p].copyuid # <<0, 0>> => Has(p, {"copy", "move"}) \/ step \notin After
  PROVE  Arriving(p)'
<1>1. /\ pc'[p] = step /\ runs'[p] = runs[p] /\ Asked(p)' = Asked(p) /\ Asked(p).to \in Boxes
      /\ (Copied(p)' <=> Has(p, {"copy", "move"}))
  BY AskedType, RanHas DEF Goes, Asked, Copied
<1>2. Guarded(p)' => Guarded(p) BY <1>1 DEF Guarded, Mark
<1>3. felt \subseteq felt' BY StepHolds
<1>4. Copied(p) => Has(p, {"copy", "move"}) BY <1>3 DEF Copied, Ran, Has
<1>5. Guarded(p)' /\ ~Copied(p)' => Holds(Asked(p).to)' = {}
 <2> SUFFICES ASSUME Guarded(p), ~Has(p, {"copy", "move"}) PROVE Holds(Asked(p).to)' = {}
   BY <1>1, <1>2
 <2>1. Holds(Asked(p).to) = {} BY <1>4 DEF Arriving
 <2> QED BY <1>1, <2>1, StepHolds DEF Has
<1>6. step = "dispatch" => box' = box BY StepHolds DEF Sending
<1>7. Guarded(p)' /\ pc'[p] \in {"source", "dispatch"} => Holds(Asked(p).to)' = {}
 <2>1. step = "dispatch" /\ Guarded(p) => Holds(Asked(p).to) = {} BY DEF Arriving
 <2> QED BY <1>1, <1>2, <1>6, <2>1 DEF Holds
<1>8. ~(Copy(p)' /\ pc'[p] = "verify") BY <1>1 DEF Critical
<1>9. Copy(p)' /\ pc'[p] = "dispatch" => Guarded(p)'
 <2>1. Named(p)' BY DEF Base
 <2> QED BY <1>1, <2>1 DEF Named, Guarded, Critical, Steps, Mark, Copy
<1>10. pc'[p] \in After \ {"dispatch", "verify"} /\ job'[p].copyuid # <<0, 0>> => Copied(p)'
  BY <1>1
<1> QED BY <1>1, <1>5, <1>7, <1>8, <1>9, <1>10 DEF Arriving

\* What the step of a request says is so.
LEMMA StepCopying ==
  ASSUME Base, Base', Identities, Requested, NEW p \in Procs, Step(p), Copying(p)
  PROVE  Copying(p)'
<1>0. Frame(p) /\ Asks /\ Serves(p) /\ felt \subseteq felt' /\ offers' = offers
  BY StepDoes, StepHolds DEF Asks
<1>01. \A kinds : Ran(p, kinds) => Has(p, kinds) BY <1>0 DEF Ran, Has
<1>02. job[p].effects \subseteq Effects /\ Shape(p) /\ Named(p) /\ Shape(p)'
       /\ Asked(p).to \in Boxes /\ Asked(p).from \in Boxes BY AskedType DEF Base, TypeOK, Jobs
<1>03. ASSUME NEW step, Goes(p, step) PROVE Honest(p)'
  BY <1>0, <1>03, HonestKept DEF Goes, Copying
<1>04. ASSUME NEW step, Goes(p, step), step \in {"resolve", "attempt", "lock", "guard"}
       PROVE  Copying(p)' BY <1>03, <1>04, EarlyCopying DEF Goes
<1>05. ASSUME NEW says, Ends(p, says, {}) PROVE Copying(p)' BY <1>05, EndsCopying
<1>06. ASSUME NEW says, NEW effects, Ends(p, says, effects),
              effects \subseteq job[p].effects \cup {"cleanup_deferred", "uid_expunge"}
       PROVE  Copying(p)'
 <2>1. "move" \notin effects BY <1>02, <1>06 DEF Effects
 <2>2. "copy" \in effects => Has(p, {"copy", "move"})
   BY <1>01, <1>06 DEF Copying, Effective, Copied
 <2>3. "source_flag" \in effects => Has(p, {"store"}) BY <1>01, <1>06 DEF Copying, Effective
 <2> QED BY <1>06, <2>1, <2>2, <2>3, EndsCopying
<1>07. ASSUME NEW step, Goes(p, step), step \in Critical \ {"guard"}, job'[p].effects = {},
              step # "fetch", step # "absent" \/ ~Has(p, {"copy"}),
              step = "arrived" => "MOVE" \notin offers
       PROVE  Effective(p)'
 <2>1. pc'[p] = step /\ runs'[p] = runs[p] BY <1>07 DEF Goes
 <2>2. Ran(p, {"copy"})' <=> Has(p, {"copy"}) BY <2>1, RanHas
 <2> QED BY <1>0, <1>07, <2>1, <2>2 DEF Effective
<1>1. ASSUME NEW r \in Requests, Begin(p, r) PROVE Copying(p)'
 <2>1. pc'[p] = "resolve" /\ report'[p] = NoReport BY <1>1, BeginDoes
 <2>2. Honest(p)' BY <2>1 DEF Honest, NoReport
 <2> QED BY <2>1, <2>2, EarlyCopying
<1>2. CASE Resolve(p) BY <1>04, <1>05, <1>2, ResolveDoes
<1>3. CASE Attempt(p) BY <1>04, <1>05, <1>3, AttemptDoes
<1>4. CASE Acquire(p)
 <2>1. CASE Goes(p, "source") /\ (Mark(p) \/ ~Asked(p).named) /\ job'[p] = job[p] /\ pc[p] = "lock"
  <3>1. /\ pc'[p] = "source" /\ job'[p].effects = {} /\ ~Guarded(p)'
    BY <1>02, <2>1 DEF Goes, Guarded, Mark, Asked, Shape, Early
  <3>2. Effective(p)' BY <1>07, <2>1, <3>1 DEF Critical, Steps
  <3>3. Arriving(p)' BY <3>1 DEF Arriving, After
  <3> QED BY <1>03, <2>1, <3>2, <3>3 DEF Copying
 <2> QED BY <1>04, <1>05, <1>4, <2>1, AcquireDoes DEF Refused
<1>5. CASE Guard(p)
 <2>1. CASE /\ Goes(p, "source") /\ KeepsRequest(p) /\ KeepsEvidence(p)
            /\ Holds(Asked(p).to) = {} /\ pc[p] = "guard" /\ ReadOnly
  <3>1. /\ pc'[p] = "source" /\ job'[p].effects = {} /\ Asked(p)' = Asked(p)
    BY <1>02, <2>1 DEF Goes, KeepsRequest, KeepsEvidence, Asked, Shape, Early
  <3>2. Effective(p)' BY <1>07, <2>1, <3>1 DEF Critical, Steps
  <3>3. Holds(Asked(p).to)' = {} BY <2>1, <3>1 DEF Holds, ReadOnly, server
  <3>4. Arriving(p)' BY <3>1, <3>3 DEF Arriving, After
  <3> QED BY <1>03, <2>1, <3>2, <3>4 DEF Copying
 <2> QED BY <1>05, <1>5, <2>1, GuardDoes
<1>6. CASE Source(p)
 <2>1. CASE /\ Goes(p, "dispatch") /\ KeepsRequest(p) /\ KeepsEvidence(p) /\ pc[p] = "source"
  <3>1. /\ job'[p].effects = {} /\ job'[p].copyuid = <<0, 0>> /\ job'[p].ask = job[p].ask
    BY <1>02, <2>1 DEF KeepsRequest, KeepsEvidence, Shape, Early
  <3>2. Effective(p)' BY <1>07, <2>1, <3>1 DEF Critical, Steps
  <3>3. Arriving(p)' BY <1>0, <2>1, <3>1, GoesArriving DEF Copying, Critical, Steps
  <3> QED BY <1>03, <2>1, <3>2, <3>3 DEF Copying
 <2>2. CASE /\ Goes(p, "store") /\ KeepsRequest(p) /\ KeepsEvidence(p) /\ pc[p] = "source"
  <3>1. /\ job'[p].effects = {} /\ job'[p].copyuid = <<0, 0>> /\ job'[p].ask = job[p].ask
    BY <1>02, <2>2 DEF KeepsRequest, KeepsEvidence, Shape, Early
  <3>2. Effective(p)' BY <1>07, <2>2, <3>1 DEF Critical, Steps
  <3>3. Arriving(p)' BY <1>0, <2>2, <3>1, GoesArriving DEF Copying, Critical, Steps
  <3> QED BY <1>03, <2>2, <3>2, <3>3 DEF Copying
 <2> QED BY <1>04, <1>05, <1>6, <2>1, <2>2, SourceDoes DEF Refused
<1>7. CASE DispatchCopy(p)
 <2>1. CASE /\ Goes(p, "verify") /\ KeepsRequest(p) /\ job'[p].effects = job[p].effects
            /\ pc[p] = "dispatch" /\ Copy(p)
  <3>1. /\ pc'[p] = "verify" /\ job'[p].effects = {} /\ Asked(p)' = Asked(p)
    BY <1>02, <2>1 DEF Goes, KeepsRequest, Asked, Shape, Early
  <3>2. Effective(p)' BY <3>1 DEF Effective
  <3>3. Holds(Asked(p).to)' # {} => \E f : f \in felt' /\ Arrival(f)
   <4>1. CASE Holds(Asked(p).to) # {} BY <1>0, <2>1, <4>1 DEF Copying, Arriving
   <4>2. CASE Holds(Asked(p).to) = {} BY <1>0, <1>02, <3>1, <4>2, StepHolds DEF Arrival
   <4> QED BY <4>1, <4>2
  <3>4. Arriving(p)' BY <3>1, <3>3 DEF Arriving, Guarded, Critical
  <3> QED BY <1>03, <2>1, <3>2, <3>4 DEF Copying
 <2> QED BY <1>05, <1>7, <2>1, DispatchCopyDoes DEF Refused
<1>8. CASE VerifyCopy(p)
 <2>1. CASE /\ Ends(p, "completed", {"copy"}) /\ Cardinality(Holds(Asked(p).to)) = 1
            /\ pc[p] = "verify"
  <3>1. Holds(Asked(p).to) # {} BY <2>1, FS_EmptySet
  <3>2. Copy(p) BY <1>02, <2>1 DEF Shape
  <3>3. \E f : f \in felt' /\ Arrival(f) BY <1>0, <2>1, <3>1, <3>2 DEF Copying, Arriving
  <3> QED BY <2>1, <3>3, EndsCopying
 <2> QED BY <1>05, <1>8, <2>1, VerifyCopyDoes
<1>9. CASE DispatchMove(p)
 <2>1. CASE /\ Goes(p, "absent") /\ KeepsRequest(p) /\ job'[p].effects = job[p].effects
            /\ pc[p] = "dispatch" /\ Move(p) /\ "MOVE" \in offers
            /\ \/ Execute(Cmd(p)) /\ (job'[p].copyuid # <<0, 0>> => Subjects(Cmd(p)) # {})
               \/ job'[p].copyuid = job[p].copyuid
  <3>1. /\ job'[p].effects = {} /\ job'[p].ask = job[p].ask /\ job[p].copyuid = <<0, 0>>
    BY <1>02, <2>1 DEF KeepsRequest, Shape, Early
  <3>2. Cmd(p).kind = "move" /\ pc[p] \in Sending BY <2>1, CmdIs DEF Sending, Move, Copy
  <3>3. ~Has(p, {"copy"})
   <4>1. ~Ran(p, {"copy"}) BY <2>1 DEF Requested, Before, Early, Ran
   <4> QED BY <1>0, <3>2, <4>1, StepHolds DEF Has, Ran
  <3>4. Effective(p)' BY <1>07, <2>1, <3>1, <3>3 DEF Critical, Steps
  <3>5. job'[p].copyuid # <<0, 0>> => Has(p, {"copy", "move"})
    BY <2>1, <3>1, <3>2, CmdHas DEF Has
  <3>6. Arriving(p)' BY <1>0, <2>1, <3>1, <3>5, GoesArriving DEF Copying, Critical, Steps
  <3> QED BY <1>03, <2>1, <3>4, <3>6 DEF Copying
 <2> QED BY <1>05, <1>9, <2>1, DispatchMoveDoes DEF Refused
<1>10. CASE CheckAbsent(p)
 <2>1. CASE /\ Goes(p, "arrived") /\ KeepsRequest(p) /\ job'[p].copyuid = job[p].copyuid
            /\ job'[p].effects \subseteq {"gone"} /\ pc[p] = "absent"
  <3>1. "MOVE" \in offers BY <1>02, <2>1 DEF Shape
  <3>2. felt' = felt /\ pc[p] \notin Sending BY <1>0, <2>1, StepHolds DEF Sending
  <3>3. ~Ran(p, {"copy"}) BY <2>1, <3>1 DEF Copying, Effective
  <3>4. ~Ran(p, {"copy"})' BY <2>1, <3>2, <3>3 DEF Goes, Ran, Of
  <3>5. Effective(p)' BY <1>0, <2>1, <3>1, <3>4 DEF Effective, Goes
  <3>6. job'[p].copyuid # <<0, 0>> => Has(p, {"copy", "move"})
    BY <1>01, <2>1 DEF Copying, Arriving, Copied, After
  <3>7. Arriving(p)'
    BY <1>0, <2>1, <3>6, GoesArriving DEF Copying, Critical, Steps, KeepsRequest
  <3> QED BY <1>03, <2>1, <3>5, <3>7 DEF Copying
 <2> QED BY <1>05, <1>10, <2>1, CheckAbsentDoes
<1>11. CASE CheckArrived(p)
 <2>1. pc[p] = "arrived" /\ Move(p) BY <1>02, <1>11, CheckArrivedDoes DEF Shape
 <2>2. DestinationVerified(p) => Copied(p)
  <3>1. CASE job[p].copyuid # <<0, 0>> BY <2>1, <3>1 DEF Copying, Arriving, After
  <3>2. CASE job[p].copyuid = <<0, 0>> /\ DestinationVerified(p)
   <4>1. Asked(p).named /\ Cardinality(Holds(Asked(p).to)) = 1 BY <3>2 DEF DestinationVerified
   <4>2. Holds(Asked(p).to) # {} BY <4>1, FS_EmptySet
   <4>3. Guarded(p) BY <2>1, <4>1 DEF Guarded, Critical, Steps, Mark, Move
   <4> QED BY <4>2, <4>3 DEF Copying, Arriving
  <3> QED BY <3>1, <3>2
 <2>3. Copied(p) => Has(p, {"copy", "move"}) BY <1>01 DEF Copied
 <2>4. ASSUME DestinationVerified(p), "MOVE" \in offers, NEW says, Ends(p, says, {"copy", "move"})
       PROVE  Copying(p)'
  <3>1. Has(p, {"copy", "move"}) BY <2>2, <2>3, <2>4
  <3>2. Ran(p, {"move"})
   <4>1. ~Ran(p, {"copy"}) BY <2>1, <2>4 DEF Copying, Effective
   <4> QED BY <2>2, <2>4, <4>1 DEF Copied, Ran
  <3> QED BY <1>01, <2>4, <3>1, <3>2, EndsCopying
 <2>5. ASSUME DestinationVerified(p), NEW says, Ends(p, says, {"copy"}) PROVE Copying(p)'
   BY <2>2, <2>3, <2>5, EndsCopying
 <2>6. CASE /\ DestinationVerified(p) /\ Goes(p, "again") /\ KeepsRequest(p)
            /\ job'[p].copyuid = job[p].copyuid /\ job'[p].effects = {"copy"}
  <3>1. pc'[p] = "again" /\ runs'[p] = runs[p] /\ Has(p, {"copy", "move"})
    BY <2>2, <2>3, <2>6 DEF Goes
  <3>2. Effective(p)' BY <2>6, <3>1, RanHas DEF Effective, Copied
  <3>3. Arriving(p)'
    BY <1>0, <2>1, <2>6, <3>1, GoesArriving DEF Copying, Critical, Steps, KeepsRequest
  <3> QED BY <1>03, <2>6, <3>2, <3>3 DEF Copying
 <2> QED BY <1>05, <1>11, <2>4, <2>5, <2>6, CheckArrivedDoes
<1>12. CASE FallbackCopy(p)
 <2>1. CASE /\ Goes(p, "arrived") /\ job'[p] = job[p] /\ pc[p] = "dispatch"
            /\ "MOVE" \notin offers
  <3>1. job'[p].effects = {} /\ job'[p].copyuid = <<0, 0>> BY <1>02, <2>1 DEF Shape, Early
  <3>2. Effective(p)' BY <1>07, <2>1, <3>1 DEF Critical, Steps
  <3>3. Arriving(p)' BY <1>0, <2>1, <3>1, GoesArriving DEF Copying, Critical, Steps
  <3> QED BY <1>03, <2>1, <3>2, <3>3 DEF Copying
 <2>2. CASE /\ Goes(p, "again") /\ KeepsRequest(p) /\ job'[p].copyuid = job[p].copyuid
            /\ job'[p].effects = {"copy"} /\ Subjects(Cmd(p)) # {} /\ Execute(Cmd(p))
            /\ pc[p] = "dispatch" /\ "MOVE" \notin offers
  <3>1. Has(p, {"copy", "move"})
   <4>1. Cmd(p).kind = "copy" /\ pc[p] \in Sending BY <2>2, CmdIs DEF Sending
   <4> QED BY <2>2, <4>1, CmdHas DEF Has
  <3>2. pc'[p] = "again" /\ runs'[p] = runs[p] BY <2>2 DEF Goes
  <3>3. Effective(p)' BY <2>2, <3>1, <3>2, RanHas DEF Effective, Copied
  <3>4. Arriving(p)'
    BY <1>0, <2>2, <3>1, GoesArriving DEF Copying, Critical, Steps, KeepsRequest
  <3> QED BY <1>03, <2>2, <3>3, <3>4 DEF Copying
 <2> QED BY <1>05, <1>12, <2>1, <2>2, FallbackCopyDoes DEF Refused
<1>13. CASE SourceAgain(p)
 <2>1. CASE /\ Goes(p, "store") /\ KeepsRequest(p) /\ KeepsEvidence(p) /\ pc[p] = "again"
  <3>1. pc'[p] = "store" /\ runs'[p] = runs[p] BY <2>1 DEF Goes
  <3>2. /\ job'[p].effects = job[p].effects /\ job'[p].copyuid = job[p].copyuid
        /\ job'[p].ask = job[p].ask BY <2>1 DEF KeepsEvidence, KeepsRequest
  <3>3. Effective(p)' BY <1>01, <2>1, <3>1, <3>2, RanHas DEF Copying, Effective, Copied
  <3>4. job[p].copyuid # <<0, 0>> => Has(p, {"copy", "move"})
    BY <1>01, <2>1 DEF Copying, Arriving, Copied, After
  <3>5. Arriving(p)' BY <1>0, <2>1, <3>2, <3>4, GoesArriving DEF Copying, Critical, Steps
  <3> QED BY <1>03, <2>1, <3>3, <3>5 DEF Copying
 <2> QED BY <1>06, <1>13, <2>1, SourceAgainDoes
<1>14. ASSUME pc[p] \in {"store", "fetch"}, NEW flags, Observed(p, flags),
              Move(p) => Has(p, {"store"})
       PROVE  Copying(p)'
 <2>1. job[p].copyuid # <<0, 0>> => Has(p, {"copy", "move"})
   BY <1>01, <1>14 DEF Copying, Arriving, Copied, After
 <2>2. CASE /\ Goes(p, "store") /\ KeepsRequest(p)
            /\ job'[p].effects = job[p].effects /\ job'[p].copyuid = job[p].copyuid
  <3>1. pc'[p] = "store" /\ runs'[p] = runs[p] /\ job'[p].ask = job[p].ask
    BY <2>2 DEF Goes, KeepsRequest
  <3>2. Effective(p)'
   <4>1. job[p].effects # {"gone"} BY <1>14 DEF Copying, Effective
   <4> QED BY <1>01, <1>14, <2>2, <3>1, <4>1, RanHas DEF Copying, Effective, Copied
  <3>3. Arriving(p)'
    BY <1>0, <1>14, <2>1, <2>2, <3>1, GoesArriving DEF Copying, Critical, Steps
  <3> QED BY <1>03, <2>2, <3>2, <3>3 DEF Copying
 <2>3. CASE /\ Goes(p, "expunge") /\ KeepsRequest(p) /\ Move(p)
            /\ job'[p].effects = job[p].effects \cup {"source_flag"}
            /\ job'[p].copyuid = job[p].copyuid
  <3>1. pc'[p] = "expunge" /\ runs'[p] = runs[p] /\ job'[p].ask = job[p].ask
    BY <2>3 DEF Goes, KeepsRequest
  <3>2. Effective(p)' BY <1>01, <1>14, <2>3, <3>1, RanHas DEF Copying, Effective, Copied
  <3>3. Arriving(p)'
    BY <1>0, <1>14, <2>1, <2>3, <3>1, GoesArriving DEF Copying, Critical, Steps
  <3> QED BY <1>03, <2>3, <3>2, <3>3 DEF Copying
 <2> QED BY <1>05, <1>06, <1>14, <2>2, <2>3 DEF Observed
<1>15. CASE Store(p)
 <2>0. Cmd(p).kind = "store" /\ pc[p] = "store" /\ pc[p] \in Sending
   BY <1>15, StoreDoes, CmdIs DEF Sending
 <2>1. CASE Execute(Cmd(p)) /\ \E m \in Subjects(Cmd(p)) :
              Observed(p, (m.flags \cup Cmd(p).add) \ Cmd(p).remove)
  <3>1. Has(p, {"store"}) BY <2>0, <2>1, CmdHas DEF Has
  <3> QED BY <1>14, <2>0, <2>1, <3>1
 <2>2. CASE Execute(Cmd(p)) /\ Goes(p, "fetch") /\ job'[p] = job[p]
  <3>1. pc'[p] = "fetch" /\ runs'[p] = runs[p] /\ Asked(p)' = Asked(p) BY <2>2 DEF Goes, Asked
  <3>2. \/ Has(p, {"store"})
        \/ validity'[Asked(p).from] = job[p].selected =>
             At(Asked(p).from, job[p].target.uid)' = {}
   <4>1. PICK c \in Commands :
           /\ c = Cmd(p) /\ c.from = Asked(p).from /\ c.uid = job[p].target.uid
           /\ c.validity = job[p].selected /\ c.kind = "store" /\ ~Arrives(c)
     BY <2>0, CmdIs DEF Arrives
   <4>2. CASE Subjects(c) # {} BY <2>0, <2>2, <4>1, <4>2, CmdHas DEF Has
   <4>3. CASE Subjects(c) = {}
    <5>1. box' = box /\ validity' = validity
      BY <2>2, <4>1, <4>3, ExecuteIs DEF Vain, Finds, Subject
    <5>2. validity[c.from] = c.validity => At(c.from, c.uid) = {} BY <4>1, <4>3 DEF Subjects
    <5> QED BY <2>2, <3>1, <4>1, <5>1, <5>2 DEF At
   <4> QED BY <4>2, <4>3
  <3>3. Effective(p)'
   <4>1. job[p].effects # {"gone"} BY <2>0 DEF Copying, Effective
   <4>2. Ran(p, {"store"})' <=> Has(p, {"store"}) BY <3>1, RanHas
   <4>3. Ran(p, {"copy", "move"})' <=> Has(p, {"copy", "move"}) BY <3>1, RanHas
   <4> QED BY <1>01, <2>0, <2>2, <3>1, <3>2, <4>1, <4>2, <4>3 DEF Copying, Effective, Copied
  <3>4. Arriving(p)'
   <4>1. job[p].copyuid # <<0, 0>> => Has(p, {"copy", "move"})
     BY <1>01, <2>0 DEF Copying, Arriving, Copied, After
   <4> QED BY <1>0, <2>0, <2>2, <4>1, GoesArriving DEF Copying, Critical, Steps
  <3> QED BY <1>03, <2>2, <3>3, <3>4 DEF Copying
 <2> QED BY <1>06, <1>15, <2>1, <2>2, StoreDoes
<1>16. CASE Fetch(p)
 <2>0. pc[p] = "fetch" BY <1>16, FetchDoes
 <2>1. ASSUME validity[Asked(p).from] = job[p].selected,
              NEW m \in At(Asked(p).from, job[p].target.uid), Observed(p, m.flags)
       PROVE  Copying(p)'
  <3>1. Move(p) => Has(p, {"store"}) BY <1>01, <2>0, <2>1 DEF Copying, Effective
  <3> QED BY <1>14, <2>0, <2>1, <3>1
 <2> QED BY <1>06, <1>16, <2>1, FetchDoes
<1>17. CASE Expunge(p)
 <2>1. CASE Goes(p, "expunged") /\ job'[p] = job[p] /\ pc[p] = "expunge"
  <3>1. pc'[p] = "expunged" /\ runs'[p] = runs[p] BY <2>1 DEF Goes
  <3>2. Effective(p)'
   <4>1. job[p].effects # {"gone"} BY <2>1 DEF Copying, Effective
   <4>2. Ran(p, {"store"})' <=> Has(p, {"store"}) BY <3>1, RanHas
   <4>3. Ran(p, {"copy", "move"})' <=> Has(p, {"copy", "move"}) BY <3>1, RanHas
   <4> QED BY <1>01, <2>1, <3>1, <4>1, <4>2, <4>3 DEF Copying, Effective, Copied
  <3>3. Arriving(p)'
   <4>1. job[p].copyuid # <<0, 0>> => Has(p, {"copy", "move"})
     BY <1>01, <2>1 DEF Copying, Arriving, Copied, After
   <4> QED BY <1>0, <2>1, <4>1, GoesArriving DEF Copying, Critical, Steps
  <3> QED BY <1>03, <2>1, <3>2, <3>3 DEF Copying
 <2> QED BY <1>06, <1>17, <2>1, ExpungeDoes
<1>18. CASE CheckExpunged(p) BY <1>06, <1>18, CheckExpungedDoes
<1>19. CASE Kill(p)
 <2>1. /\ pc'[p] = "idle" /\ job'[p].effects = {} /\ job'[p].ask = NoRequest
       /\ report'[p] = report[p] BY <1>19, KillDoes, NewJobType
 <2>2. Arriving(p)' BY <2>1 DEF Arriving, Guarded, Critical, After
 <2>3. Effective(p)' BY <2>1 DEF Effective
 <2> QED BY <1>0, <2>1, <2>2, <2>3, HonestKept DEF Copying
<1> QED BY <1>1, <1>2, <1>3, <1>4, <1>5, <1>6, <1>7, <1>8, <1>9, <1>10, <1>11, <1>12, <1>13,
<1>15, <1>16, <1>17, <1>18, <1>19 DEF Step

\* What the environment may do to the copies of the message: nothing new comes.
Thins(b) ==
  /\ Holds(b) = {} => Holds(b)' = {}
  /\ One(b) => One(b)'
  /\ \/ validity'[b] > validity[b]
     \/ validity'[b] = validity[b] /\ \A uid : At(b, uid) = {} => At(b, uid)' = {}

\* A mailbox that stays as it is.
LEMMA SameThins ==
  ASSUME NEW b \in Boxes, box'[b] = box[b], validity'[b] = validity[b]
  PROVE  Thins(b) BY DEF Thins, Holds, One, At

\* No process steps, and no mailbox gets a copy.
LEMMA StaysCopies ==
  ASSUME Base, Base', Identities, Stays, felt' = felt, \A b \in Boxes : Thins(b),
         Alone' => Alone, Copies
  PROVE  Copies'
<1> SUFFICES ASSUME Alone'
             PROVE  /\ \A p \in Procs : Arriving(p)' /\ Effective(p)' /\ Honest(p)'
                    /\ (\A f \in felt' : f.named) => \A b \in Boxes : One(b)' BY DEF Copies
<1>1. /\ \A p \in Procs : Arriving(p) /\ Effective(p) /\ Honest(p)
      /\ (\A f \in felt : f.named) => \A b \in Boxes : One(b) BY DEF Copies
<1>2. /\ pc' = pc /\ job' = job /\ report' = report /\ runs' = runs /\ offers' = offers
  BY DEF Stays, worker
<1>3. (\A f \in felt' : f.named) => \A b \in Boxes : One(b)' BY <1>1 DEF Thins
<1>4. ASSUME NEW p \in Procs PROVE Arriving(p)' /\ Effective(p)' /\ Honest(p)'
 <2>1. Asked(p).to \in Boxes /\ Asked(p).from \in Boxes /\ Asked(p)' = Asked(p)
   BY <1>2, AskedType DEF Asked
 <2>2. Holds(Asked(p).to) = {} => Holds(Asked(p).to)' = {} BY <2>1 DEF Thins
 <2>3. /\ \A kinds : Ran(p, kinds)' <=> Ran(p, kinds)
       /\ (Guarded(p)' <=> Guarded(p)) /\ (Move(p)' <=> Move(p)) /\ (Copy(p)' <=> Copy(p))
  <3>1. \A kinds : Ran(p, kinds)' <=> Ran(p, kinds) BY <1>2 DEF Ran, Of
  <3>2. /\ (Guarded(p)' <=> Guarded(p)) /\ (Move(p)' <=> Move(p)) /\ (Copy(p)' <=> Copy(p))
    BY <1>2, <2>1 DEF Guarded, Mark, Move, Copy
  <3> QED BY <3>1, <3>2
 <2>4. Arriving(p)' BY <1>1, <1>2, <2>1, <2>2, <2>3 DEF Arriving, Copied
 <2>5. pc[p] = "fetch" /\ (validity[Asked(p).from] = job[p].selected =>
                             At(Asked(p).from, job[p].target.uid) = {})
       => (validity'[Asked(p).from] = job[p].selected =>
             At(Asked(p).from, job[p].target.uid)' = {})
  <3> SUFFICES ASSUME pc[p] = "fetch",
                      validity[Asked(p).from] = job[p].selected =>
                        At(Asked(p).from, job[p].target.uid) = {},
                      validity'[Asked(p).from] = job[p].selected
               PROVE  At(Asked(p).from, job[p].target.uid)' = {} OBVIOUS
  <3>1. job[p].selected = job[p].target.validity BY DEF Base, Shape, After
  <3>2. job[p].target.validity <= validity[Asked(p).from] BY DEF Identities, Names
  <3>3. /\ validity[Asked(p).from] \in Nat /\ validity'[Asked(p).from] \in Nat
        /\ job[p].target.validity \in Nat BY <2>1, AskedType DEF Base, TypeOK, Targets
  <3>4. validity'[Asked(p).from] = validity[Asked(p).from] BY <2>1, <3>1, <3>2, <3>3 DEF Thins
  <3>5. \A uid : At(Asked(p).from, uid) = {} => At(Asked(p).from, uid)' = {}
    BY <2>1, <3>3, <3>4 DEF Thins
  <3> QED BY <1>2, <2>1, <3>4, <3>5
 <2>6. Effective(p)' BY <1>1, <1>2, <2>1, <2>3, <2>5 DEF Effective, Copied
 <2>7. Honest(p)' BY <1>1, <1>2, HonestKept
 <2> QED BY <2>4, <2>6, <2>7
<1> QED BY <1>3, <1>4

\* At first nothing was copied.
LEMMA InitCopies == Init => Copies
<1> SUFFICES ASSUME Init PROVE Copies OBVIOUS
<1>1. ASSUME NEW p \in Procs PROVE Arriving(p) /\ Effective(p) /\ Honest(p)
 <2>1. /\ pc[p] = "idle" /\ job[p].effects = {} /\ job[p].ask = NoRequest
       /\ report[p].effects = {} BY NewJobType DEF Init, NoReport
 <2> QED BY <2>1 DEF Arriving, Guarded, Critical, After, Effective, Honest
<1>2. ASSUME NEW b \in Boxes PROVE One(b)
 <2>1. Message(2, "other", {}).id = "other" BY MessageFields
 <2>2. \A m \in Holds(b) : m = Message(1, "named", {"NotJunk"})
   BY <2>1 DEF Init, InitialBox, Holds, Boxes
 <2> QED BY <2>2 DEF One
<1> QED BY <1>1, <1>2 DEF Copies

\* One request makes one copy.
LEMMA NextCopies ==
  ASSUME Base, Base', Identities, Requested, Copies, [Next]_vars
  PROVE  Copies'
<1>1. ASSUME NEW p \in Procs, Step(p) PROVE Copies'
 <2>1. Frame(p) /\ Asks /\ Serves(p) BY <1>1, StepDoes
 <2> SUFFICES ASSUME Alone'
              PROVE  /\ \A q \in Procs : Arriving(q)' /\ Effective(q)' /\ Honest(q)'
                     /\ (\A f \in felt' : f.named) => \A b \in Boxes : One(b)' BY DEF Copies
 <2>2. Alone BY <2>1 DEF Alone, Asks
 <2>3. /\ \A q \in Procs : Copying(q)
       /\ (\A f \in felt : f.named) => \A b \in Boxes : One(b) BY <2>2 DEF Copies, Copying
 <2>4. \A q \in Procs : Copying(q)'
  <3>1. Copying(p)' BY <1>1, <2>3, StepCopying
  <3>2. \A q \in Procs \ {p} : Copying(q)' BY <2>1, <2>3, OthersCopying
  <3> QED BY <3>1, <3>2
 <2>5. pc[p] = "dispatch" /\ Asked(p).named => Holds(Asked(p).to) = {}
  <3>1. pc[p] = "dispatch" => ~Mark(p) BY DEF Base, Shape
  <3> QED BY <2>3, <3>1 DEF Copying, Arriving, Guarded, Critical, Steps
 <2>6. ASSUME \A f \in felt' : f.named, NEW b \in Boxes PROVE One(b)'
  <3>1. \A f : f \in felt' => f.named BY <2>6
  <3>2. One(b) BY <2>1, <2>3, <3>1, StepHolds
  <3> QED BY <2>1, <2>5, <3>1, <3>2, StepHolds
 <2> QED BY <2>4, <2>6 DEF Copying
<1>2. CASE LateExecution
 <2>1. PICK c \in late : \/ Execute(c) /\ lateRan' = TRUE
                         \/ Ignore /\ lateRan' = lateRan BY <1>2, LateDoes
 <2>2. Stays /\ UNCHANGED <<known, removed, added>> BY <1>2, LateDoes
 <2>3. CASE lateRan' = TRUE BY <2>3 DEF Copies, Alone
 <2>4. CASE Ignore /\ lateRan' = lateRan
  <3>1. (\A b \in Boxes : Thins(b)) /\ felt' = felt BY <2>4, SameThins DEF Ignore, server
  <3> QED BY <2>2, <2>4, <3>1, StaysCopies DEF Alone
 <2> QED BY <2>1, <2>3, <2>4
<1>3. ASSUME NEW b \in Boxes, Rebuild(b) PROVE Copies'
 <2>1. /\ validity'[b] > validity[b]
       /\ \A d \in Boxes \ {b} : box'[d] = box[d] /\ validity'[d] = validity[d]
       /\ \A k \in box'[b] : \E m \in box[b] : k.id = m.id
       /\ \A k, l \in box'[b] : k = l \/
             \E m, n \in box[b] : m # n /\ m.id = k.id /\ n.id = l.id
       /\ Stays /\ UNCHANGED <<felt, lateRan, added>> BY <1>3, RebuildDoes
 <2>2. Holds(b) = {} => Holds(b)' = {} BY <2>1 DEF Holds
 <2>3. One(b) => One(b)' BY <2>1 DEF One, Holds
 <2>4. \A d \in Boxes : Thins(d) BY <2>1, <2>2, <2>3, SameThins DEF Thins
 <2> QED BY <2>1, <2>4, StaysCopies DEF Alone
<1>4. ASSUME NEW b \in Boxes, ForeignClient(b) PROVE Copies'
 <2>1. Stays /\ UNCHANGED <<validity, late, known, felt, touched, lateRan>>
   BY <1>4, ForeignDoes
 <2>2. CASE Delivers(b) BY <2>2 DEF Copies, Alone, Delivers
 <2>3. ASSUME NEW m \in Holds(b), Removes(b, m) PROVE Copies'
  <3>1. /\ box'[b] = box[b] \ {m} /\ \A d \in Boxes \ {b} : box'[d] = box[d]
    BY <2>3 DEF Removes, Drop, Base, TypeOK
  <3>2. Thins(b) BY <2>1, <3>1 DEF Thins, Holds, One, At
  <3>3. \A d \in Boxes : Thins(d) BY <2>1, <3>1, <3>2, SameThins
  <3> QED BY <2>1, <2>3, <3>3, StaysCopies DEF Alone, Removes
 <2>4. ASSUME NEW m \in Holds(b), Undeletes(b, m) PROVE Copies'
  <3>1. PICK n : Swap(b, m, n) BY <2>4 DEF Undeletes
  <3>2. /\ box'[b] = (box[b] \ {m}) \cup {n} /\ \A d \in Boxes \ {b} : box'[d] = box[d]
        /\ m.uid = n.uid /\ m.id = n.id /\ m \in box[b] BY <3>1 DEF Swap, Base, TypeOK, Holds
  <3>3. Thins(b) BY <2>1, <2>4, <3>2 DEF Thins, Holds, One, At
  <3>4. \A d \in Boxes : Thins(d) BY <2>1, <3>2, <3>3, SameThins
  <3> QED BY <2>1, <2>4, <3>4, StaysCopies DEF Alone, Undeletes
 <2> QED BY <1>4, <2>2, <2>3, <2>4, ForeignDoes
<1>5. ASSUME NEW b \in Boxes, Synchronise(b) PROVE Copies'
 <2>1. Stays /\ UNCHANGED <<server, felt, lateRan, added>> BY <1>5, SynchroniseDoes
 <2>2. \A d \in Boxes : Thins(d) BY <2>1, SameThins DEF server
 <2> QED BY <2>1, <2>2, StaysCopies DEF Alone
<1>6. CASE UNCHANGED vars
 <2>1. Stays /\ UNCHANGED <<server, felt, lateRan, added>> BY <1>6 DEF vars, history, Stays
 <2>2. \A d \in Boxes : Thins(d) BY <2>1, SameThins DEF server
 <2> QED BY <2>1, <2>2, StaysCopies DEF Alone
<1> QED BY <1>1, <1>2, <1>3, <1>4, <1>5, <1>6 DEF Next, Environment

-------------------------------------------------------------------------------
(* The message is always somewhere.                                        *)

\* The steps with which a fallback gets ready to expunge the source.
Ready(p) ==
  \/ pc[p] = "arrived" /\ DestinationVerified(p) /\ "MOVE" \notin offers /\ box' = box
  \/ pc[p] = "dispatch" /\ Cmd(p).kind = "copy" /\ Execute(Cmd(p)) /\ Subjects(Cmd(p)) # {}
Cleaning == {"again", "store", "fetch", "expunge"}

\* How a process comes to a step under the lock.
Enters(p) ==
  /\ KeepsRequest(p)
  /\ \/ pc[p] \in Critical \ {"guard"}
     \/ pc[p] = "guard" /\ Holds(Asked(p).to) = {} /\ box' = box
     \/ Mark(p) \/ ~Asked(p).named
  /\ pc'[p] \in Cleaning => Mark(p) \/ pc[p] \in Cleaning \/ Ready(p)

\* A process comes to every step under the lock from the one before.
LEMMA StepEnters ==
  ASSUME Base, NEW p \in Procs, Step(p), pc'[p] \in Critical \ {"guard"}
  PROVE  Enters(p)
<1> USE DEF Critical, Steps, Cleaning
<1>0. ASSUME NEW says, NEW effects, Ends(p, says, effects) PROVE FALSE BY <1>0 DEF Ends
<1>01. job'[p] = job[p] => KeepsRequest(p) BY DEF KeepsRequest
<1>02. ASSUME NEW step, Goes(p, step) PROVE pc'[p] = step BY <1>02 DEF Goes
<1>03. ReadOnly => box' = box BY DEF ReadOnly, server
<1>1. ASSUME NEW r \in Requests, Begin(p, r) PROVE Enters(p) BY <1>1, BeginDoes
<1>2. CASE Resolve(p) BY <1>0, <1>02, <1>2, ResolveDoes
<1>3. CASE Attempt(p) BY <1>0, <1>02, <1>3, AttemptDoes
<1>4. CASE Acquire(p)
 <2>1. CASE /\ Goes(p, IF ~Mark(p) /\ Asked(p).named THEN "guard" ELSE "source")
            /\ job'[p] = job[p] /\ pc[p] = "lock" BY <1>01, <1>02, <2>1 DEF Enters
 <2> QED BY <1>0, <1>4, <2>1, AcquireDoes DEF Refused
<1>5. CASE Guard(p)
 <2>1. CASE /\ Goes(p, "source") /\ KeepsRequest(p) /\ Holds(Asked(p).to) = {}
            /\ pc[p] = "guard" /\ ReadOnly BY <1>02, <1>03, <2>1 DEF Enters
 <2> QED BY <1>0, <1>5, <2>1, GuardDoes
<1>6. CASE Source(p)
 <2>1. CASE Goes(p, "dispatch") /\ KeepsRequest(p) /\ pc[p] = "source"
   BY <1>02, <2>1 DEF Enters
 <2>2. CASE Goes(p, "store") /\ KeepsRequest(p) /\ Mark(p) BY <2>2 DEF Enters
 <2>3. CASE Goes(p, "resolve") BY <1>02, <2>3
 <2> QED BY <1>0, <1>6, <2>1, <2>2, <2>3, SourceDoes DEF Refused
<1>7. CASE DispatchCopy(p) BY <1>0, <1>02, <1>7, DispatchCopyDoes DEF Refused
<1>8. CASE VerifyCopy(p) BY <1>0, <1>8, VerifyCopyDoes
<1>9. CASE DispatchMove(p)
 <2>1. CASE Goes(p, "absent") /\ KeepsRequest(p) /\ pc[p] = "dispatch"
   BY <1>02, <2>1 DEF Enters
 <2> QED BY <1>0, <1>9, <2>1, DispatchMoveDoes DEF Refused
<1>10. CASE CheckAbsent(p)
 <2>1. CASE Goes(p, "arrived") /\ KeepsRequest(p) /\ pc[p] = "absent"
   BY <1>02, <2>1 DEF Enters
 <2> QED BY <1>0, <1>10, <2>1, CheckAbsentDoes
<1>11. CASE CheckArrived(p)
 <2>1. CASE /\ Goes(p, "again") /\ KeepsRequest(p) /\ pc[p] = "arrived" /\ ReadOnly
            /\ DestinationVerified(p) /\ "MOVE" \notin offers
   BY <1>02, <1>03, <2>1 DEF Enters, Ready
 <2> QED BY <1>0, <1>11, <2>1, CheckArrivedDoes
<1>12. CASE FallbackCopy(p)
 <2>1. CASE Goes(p, "arrived") /\ job'[p] = job[p] /\ pc[p] = "dispatch"
   BY <1>01, <1>02, <2>1 DEF Enters
 <2>2. CASE /\ Goes(p, "again") /\ KeepsRequest(p) /\ pc[p] = "dispatch" /\ "MOVE" \notin offers
            /\ Subjects(Cmd(p)) # {} /\ Execute(Cmd(p))
  <3>1. Cmd(p).kind = "copy" BY <2>2, CmdIs DEF Sending
  <3> QED BY <1>02, <2>2, <3>1 DEF Enters, Ready
 <2> QED BY <1>0, <1>12, <2>1, <2>2, FallbackCopyDoes DEF Refused
<1>13. CASE SourceAgain(p)
 <2>1. CASE Goes(p, "store") /\ KeepsRequest(p) /\ pc[p] = "again" BY <2>1 DEF Enters
 <2> QED BY <1>0, <1>13, <2>1, SourceAgainDoes
<1>14. ASSUME pc[p] \in {"store", "fetch"}, NEW flags, Observed(p, flags) PROVE Enters(p)
 <2>1. KeepsRequest(p) BY <1>0, <1>14 DEF Observed
 <2> QED BY <1>14, <2>1 DEF Enters
<1>15. CASE Store(p)
 <2>1. CASE Goes(p, "fetch") /\ job'[p] = job[p] /\ pc[p] = "store" BY <1>01, <2>1 DEF Enters
 <2> QED BY <1>0, <1>14, <1>15, <2>1, StoreDoes
<1>16. CASE Fetch(p) BY <1>0, <1>14, <1>16, FetchDoes
<1>17. CASE Expunge(p)
 <2>1. CASE Goes(p, "expunged") /\ job'[p] = job[p] /\ pc[p] = "expunge"
   BY <1>01, <2>1 DEF Enters
 <2> QED BY <1>0, <1>17, <2>1, ExpungeDoes
<1>18. CASE CheckExpunged(p) BY <1>0, <1>18, CheckExpungedDoes
<1>19. CASE Kill(p) BY <1>19, KillDoes
<1> QED BY <1>1, <1>2, <1>3, <1>4, <1>5, <1>6, <1>7, <1>8, <1>9, <1>10, <1>11, <1>12, <1>13,
<1>15, <1>16, <1>17, <1>18, <1>19 DEF Step

\* What is left of a mailbox that no command is about to expunge.
Left(b) == \E n : n \in box'[b] /\ n.id = "named" /\ ~Condemned(b, n.uid)
Whole(b) == \A n : n \in box'[b] /\ n.id = "named" => ~Condemned(b, n.uid)

\* No command is about to expunge a message that is not there yet.
LEMMA UnusedSpared ==
  ASSUME Base, Identities, NEW b \in Boxes, NEW uid, uid = next[b]
  PROVE  ~Condemned(b, uid)
<1>1. next[b] \in Nat BY DEF Base, TypeOK
<1>2. ASSUME NEW c \in late, c.kind = "expunge", c.from = b, c.uid = uid,
             c.validity = validity[b]
      PROVE  FALSE
 <2>1. Names(b, Identity(c)) BY <1>2 DEF Identities
 <2> QED BY <1>1, <1>2, <2>1 DEF Names, Identity
<1>3. ASSUME NEW p \in Procs, Asked(p).from = b, job[p].target.uid = uid,
             job[p].target.validity = validity[b]
      PROVE  FALSE
 <2>1. Names(b, job[p].target) BY <1>3 DEF Identities
 <2> QED BY <1>1, <1>3, <2>1 DEF Names
<1> QED BY <1>2, <1>3 DEF Condemned

\* A command takes no message but the one it is for.
LEMMA ExecuteSpares ==
  ASSUME Base, Base', Identities, NEW c \in Commands, Arrives(c) => c.from # c.to, Execute(c),
         Names(c.from, Identity(c)),
         c.kind = "expunge" /\ c.validity = validity[c.from] => Condemned(c.from, c.uid)
  PROVE  /\ \A b \in Boxes : Spared(b) => Whole(b)
         /\ (\E b \in Boxes : \E m \in Holds(b) : ~Condemned(b, m.uid))
              => \E b \in Boxes : Left(b)
         /\ Arrives(c) /\ Subjects(c) # {} => Left(c.to)
<1>0. c.from \in Boxes /\ c.to \in Boxes BY DEF Commands
<1>1. CASE Vain(c) BY <1>1 DEF Vain, Spared, Whole, Left, Holds
<1>2. ASSUME NEW m \in Messages, Finds(c, m)
      PROVE  /\ \A b \in Boxes : Spared(b) => Whole(b)
             /\ (\E b \in Boxes : \E k \in Holds(b) : ~Condemned(b, k.uid))
                  => \E b \in Boxes : Left(b)
             /\ Arrives(c) /\ Subjects(c) # {} => Left(c.to)
 <2>1. Subject(c, m) /\ Result(c, m) /\ m.id = "named" BY <1>2, SubjectNamed DEF Finds
 <2>2. /\ \A b \in Boxes : \A n \in box'[b] :
             \/ n \in box[b]
             \/ Arrives(c) /\ b = c.to /\ n = Carried(c, m)
             \/ c.kind = "store" /\ b = c.from /\ n = Stored(c, m)
       /\ \A b \in Boxes : \A n \in box[b] :
             \/ n \in box'[b]
             \/ b = c.from /\ n = m /\ c.kind \in {"store", "move", "expunge"}
       /\ Arrives(c) => Carried(c, m) \in box'[c.to]
       /\ c.kind = "store" => Stored(c, m) \in box'[c.from]
       /\ m \in box[c.from]
       /\ Carried(c, m).id = m.id /\ Carried(c, m).uid = next[c.to]
       /\ Stored(c, m).id = m.id /\ Stored(c, m).uid = m.uid BY <2>1, BoxAfter
 <2>4. \A b, n : n \in Holds(b) <=> (n \in box[b] /\ n.id = "named") BY DEF Holds
 <2>5. ~Condemned(c.to, Carried(c, m).uid) BY <1>0, <2>2, UnusedSpared
 <2>6. Arrives(c) => Left(c.to)
  <3> QED BY <2>1, <2>2, <2>5 DEF Left
 <2>7. ASSUME NEW b \in Boxes, Spared(b), NEW n, n \in box'[b], n.id = "named"
       PROVE  ~Condemned(b, n.uid)
  <3>1. n \in box'[b] /\ n.id = "named" BY <2>7
  <3>2. CASE n \in box[b] BY <2>4, <2>7, <3>1, <3>2 DEF Spared
  <3>3. CASE Arrives(c) /\ b = c.to /\ n = Carried(c, m) BY <2>5, <3>3
  <3>4. CASE c.kind = "store" /\ b = c.from /\ n = Stored(c, m)
   <4>1. m \in Holds(b) /\ n.uid = m.uid BY <2>1, <2>2, <2>4, <3>4
   <4> QED BY <2>7, <4>1 DEF Spared
  <3> QED BY <2>2, <3>1, <3>2, <3>3, <3>4
 <2>8. ASSUME NEW b \in Boxes, NEW k \in Holds(b), ~Condemned(b, k.uid)
       PROVE  \E d \in Boxes : Left(d)
  <3>1. k \in box[b] /\ k.id = "named" BY <2>4, <2>8
  <3>2. CASE k \in box'[b]
   <4> QED BY <2>8, <3>1, <3>2 DEF Left
  <3>3. CASE b = c.from /\ k = m /\ c.kind = "store"
   <4>1. /\ Stored(c, m) \in box'[b] /\ Stored(c, m).id = "named"
         /\ Stored(c, m).uid = k.uid BY <2>1, <2>2, <3>3
   <4> QED BY <2>8, <4>1 DEF Left
  <3>4. CASE c.kind = "move" BY <1>0, <2>6, <3>4 DEF Arrives
  <3>5. CASE b = c.from /\ k = m /\ c.kind = "expunge" BY <2>1, <2>8, <3>5 DEF Subject
  <3> QED BY <2>2, <3>1, <3>2, <3>3, <3>4, <3>5
 <2> QED BY <2>6, <2>7, <2>8 DEF Whole
<1> QED BY <1>1, <1>2, ExecuteIs

\* What is about to be expunged was so before, or is what a fallback that has
\* seen its copy is about to remove.
LEMMA StepCondemns ==
  ASSUME Base, NEW p \in Procs, Step(p), NEW b \in Boxes, NEW uid, Condemned(b, uid)'
  PROVE  Condemned(b, uid) \/ (b = Asked(p).from /\ Ready(p) /\ Expunging(p)' /\ KeepsRequest(p))
<1>1. Frame(p) /\ Asks /\ Serves(p) BY StepDoes
<1>2. validity' = validity BY <1>1, ServesSound
<1>3. ASSUME NEW c, c \in late', c.kind = "expunge", c.from = b, c.uid = uid,
             c.validity = validity[b]
      PROVE  Condemned(b, uid)
 <2>1. CASE c \in late BY <1>3, <2>1 DEF Condemned
 <2>2. CASE c \notin late
  <3>1. c = Cmd(p) /\ pc[p] \in Sending BY <1>1, <1>3, <2>2 DEF Serves
  <3>2. /\ Cmd(p).kind = (CASE pc[p] = "store" -> "store" [] pc[p] = "expunge" -> "expunge"
                            [] OTHER -> IF Copy(p) \/ "MOVE" \notin offers
                                        THEN "copy" ELSE "move")
        /\ Cmd(p).from = Asked(p).from /\ Cmd(p).uid = job[p].target.uid
        /\ Cmd(p).validity = job[p].selected BY <3>1, CmdIs
  <3>3. pc[p] = "expunge" BY <1>3, <3>1, <3>2 DEF Sending
  <3>4. Move(p) /\ job[p].selected = job[p].target.validity BY <3>3 DEF Base, Shape, After
  <3> QED BY <1>3, <3>1, <3>2, <3>3, <3>4 DEF Condemned, Expunging
 <2> QED BY <2>1, <2>2
<1>4. ASSUME NEW q \in Procs, Expunging(q)', Asked(q)'.from = b, job'[q].target.uid = uid,
             job'[q].target.validity = validity[b]
      PROVE  Condemned(b, uid) \/ (b = Asked(p).from /\ Ready(p) /\ Expunging(p)' /\ KeepsRequest(p))
 <2>1. CASE q # p
  <3>1. pc'[q] = pc[q] /\ job'[q] = job[q] BY <1>1, <2>1 DEF Frame
  <3>2. Expunging(q) /\ Asked(q).from = b BY <1>4, <3>1 DEF Expunging, Move, Asked
  <3> QED BY <1>4, <3>1, <3>2 DEF Condemned
 <2>2. CASE q = p
  <3>1. pc'[p] \in Cleaning /\ Move(p)' BY <1>4, <2>2 DEF Expunging, Cleaning
  <3>2. Enters(p) BY <3>1, StepEnters DEF Cleaning, Critical, Steps
  <3>3. KeepsRequest(p) /\ Asked(p)' = Asked(p) /\ job'[p].target = job[p].target
    BY <3>2 DEF Enters, KeepsRequest, Asked
  <3>4. Move(p) /\ ~Mark(p) BY <3>1, <3>3 DEF Move, Mark
  <3>5. CASE pc[p] \in Cleaning
   <4>1. Expunging(p) BY <3>4, <3>5 DEF Expunging, Cleaning
   <4> QED BY <1>4, <2>2, <3>3, <4>1 DEF Condemned
  <3>6. CASE pc[p] \notin Cleaning
   <4>1. Ready(p) BY <3>1, <3>2, <3>4, <3>6 DEF Enters
   <4> QED BY <1>4, <2>2, <3>3, <4>1
  <3> QED BY <3>5, <3>6
 <2> QED BY <2>1, <2>2
<1> QED BY <1>2, <1>3, <1>4 DEF Condemned

\* At first nothing is to be expunged, and the message is there.
LEMMA InitSafe == Init => Safe
<1> SUFFICES ASSUME Init PROVE Safe OBVIOUS
<1>1. \A p \in Procs : pc[p] = "idle" BY DEF Init
<1>2. \A b, uid : ~Condemned(b, uid) BY <1>1 DEF Init, Condemned, Expunging
<1>3. Message(1, "named", {"NotJunk"}) \in Holds("inbox")
 <2>1. Message(1, "named", {"NotJunk"}).id = "named" BY MessageFields
 <2> QED BY <2>1 DEF Init, InitialBox, Holds, Boxes
<1> QED BY <1>1, <1>2, <1>3 DEF Safe, Fresh, Spared, Boxes

\* No process steps: what is about to be expunged is what late commands name.
LEMMA StaysCondemned ==
  ASSUME Stays, late' \subseteq late, NEW b \in Boxes, validity'[b] = validity[b], NEW uid,
         Condemned(b, uid)'
  PROVE  Condemned(b, uid)
<1>1. pc' = pc /\ job' = job BY DEF Stays, worker
<1>2. \A q \in Procs : Expunging(q)' => Expunging(q) BY <1>1 DEF Expunging, Move, Asked
<1>3. \A q \in Procs : Asked(q)' = Asked(q) BY <1>1 DEF Asked
<1> QED BY <1>1, <1>2, <1>3 DEF Condemned

\* The environment leaves in place what no command is about to expunge.
LEMMA StaysSafe ==
  ASSUME Base, Safe, Stays, \A b \in Boxes : Spared(b) => Spared(b)',
         removed' \/ ((\E b \in Boxes : \E m \in Holds(b) : ~Condemned(b, m.uid)) /\ ~removed =>
                       \E b \in Boxes : \E m : m \in Holds(b)' /\ ~Condemned(b, m.uid)'),
         removed => removed'
  PROVE  Safe'
<1>1. pc' = pc /\ job' = job BY DEF Stays, worker
<1>2. ASSUME NEW p \in Procs PROVE Fresh(p)'
 <2>1. Asked(p)' = Asked(p) /\ (Guarded(p)' <=> Guarded(p)) BY <1>1 DEF Asked, Guarded, Mark
 <2>2. Asked(p).to \in Boxes BY AskedType
 <2>3. Fresh(p) BY DEF Safe
 <2> QED BY <2>1, <2>2, <2>3 DEF Fresh
<1>3. removed' \/ \E b \in Boxes : \E m : m \in Holds(b)' /\ ~Condemned(b, m.uid)' BY DEF Safe
<1> QED BY <1>2, <1>3 DEF Safe

\* A process removes the message only where another copy stays.
LEMMA StepSafe ==
  ASSUME Base, Base', Identities, Safe, NEW p \in Procs, Step(p)
  PROVE  Safe'
<1>1. Frame(p) /\ Asks /\ Serves(p) BY StepDoes
<1>2. removed' = removed /\ offers' = offers BY <1>1 DEF Asks
<1>3. /\ Asked(p).to \in Boxes /\ Asked(p).from \in Boxes
      /\ \A q \in Procs : Asked(q).to \in Boxes BY AskedType
\* What the server does.
<1>4. Ignore => box' = box BY DEF Ignore, server
<1>5. ASSUME pc[p] \in Sending, Execute(Cmd(p))
      PROVE  /\ \A b \in Boxes : Spared(b) => Whole(b)
             /\ (\E b \in Boxes : \E m \in Holds(b) : ~Condemned(b, m.uid))
                  => \E b \in Boxes : Left(b)
             /\ Arrives(Cmd(p)) /\ Subjects(Cmd(p)) # {} => Left(Cmd(p).to)
 <2>1. /\ Cmd(p) \in Commands /\ (Arrives(Cmd(p)) => Cmd(p).from # Cmd(p).to)
       /\ Cmd(p).from = Asked(p).from /\ Cmd(p).uid = job[p].target.uid
       /\ Cmd(p).validity = job[p].selected
       /\ Cmd(p).kind = (CASE pc[p] = "store" -> "store" [] pc[p] = "expunge" -> "expunge"
                           [] OTHER -> IF Copy(p) \/ "MOVE" \notin offers
                                       THEN "copy" ELSE "move") BY <1>5, CmdIs
 <2>2. Names(Cmd(p).from, Identity(Cmd(p))) BY <1>5, CmdNames
 <2>3. Cmd(p).kind = "expunge" /\ Cmd(p).validity = validity[Cmd(p).from]
         => Condemned(Cmd(p).from, Cmd(p).uid)
  <3> SUFFICES ASSUME Cmd(p).kind = "expunge", Cmd(p).validity = validity[Cmd(p).from]
               PROVE  Condemned(Cmd(p).from, Cmd(p).uid) OBVIOUS
  <3>1. pc[p] = "expunge" BY <1>5, <2>1 DEF Sending
  <3>2. Move(p) /\ job[p].selected = job[p].target.validity BY <3>1 DEF Base, Shape, After
  <3> QED BY <2>1, <3>1, <3>2 DEF Condemned, Expunging
 <2> HIDE DEF Names
 <2>4. PICK c \in Commands : c = Cmd(p) BY <2>1
 <2> QED BY <1>5, <2>1, <2>2, <2>3, <2>4, ExecuteSpares
<1>6. /\ \A b \in Boxes : Spared(b) => Whole(b)
      /\ (\E b \in Boxes : \E m \in Holds(b) : ~Condemned(b, m.uid)) => \E b \in Boxes : Left(b)
 <2>1. CASE Ignore
  <3>1. box' = box BY <1>4, <2>1
  <3> QED BY <3>1 DEF Spared, Whole, Left, Holds
 <2> QED BY <1>1, <1>5, <2>1 DEF Serves
\* What is condemned.
<1>7. ASSUME NEW b \in Boxes, NEW uid, Condemned(b, uid)', ~Condemned(b, uid)
      PROVE  /\ b = Asked(p).from /\ Ready(p) /\ b # Asked(p).to
             /\ pc[p] \in {"arrived", "dispatch"} /\ Move(p)
 <2>1. b = Asked(p).from /\ Ready(p) /\ Expunging(p)' /\ KeepsRequest(p) BY <1>7, StepCondemns
 <2>2. Move(p) BY <2>1 DEF Expunging, Move, KeepsRequest, Asked
 <2>3. pc[p] \in {"arrived", "dispatch"} BY <2>1 DEF Ready
 <2>4. Asked(p) \in Requests BY <2>3 DEF Base, Shape
 <2>5. Asked(p).from # Asked(p).to BY <2>2, <2>4, MutationAssumption DEF Move
 <2> QED BY <2>1, <2>2, <2>3, <2>5
\* The destinations.
<1>8. ASSUME NEW q \in Procs \ {p} PROVE Fresh(q)'
 <2> SUFFICES ASSUME Guarded(q)' PROVE Spared(Asked(q).to)' BY DEF Fresh
 <2>1. pc'[q] = pc[q] /\ job'[q] = job[q] BY <1>1 DEF Frame
 <2>2. Asked(q)' = Asked(q) /\ Guarded(q) BY <2>1 DEF Asked, Guarded, Mark
 <2>3. lock = q BY <2>2 DEF Guarded, Base, Holder
 <2>4. pc[p] \notin Critical BY <2>3 DEF Base, Holder
 <2>5. PICK d \in Boxes : d = Asked(q).to BY <1>3
 <2>6. Whole(d) BY <1>6, <2>2, <2>5 DEF Safe, Fresh
 <2>7. \A uid : Condemned(d, uid)' => Condemned(d, uid) BY <1>7, <2>4 DEF Critical, Steps
 <2>8. Spared(d)' BY <2>6, <2>7 DEF Whole, Spared, Holds
 <2> QED BY <2>2, <2>5, <2>8
<1>9. Fresh(p)'
 <2> SUFFICES ASSUME Guarded(p)' PROVE Spared(Asked(p).to)' BY DEF Fresh
 <2>1. pc'[p] \in Critical \ {"guard"} /\ ~Mark(p)' /\ Asked(p)'.named BY DEF Guarded
 <2>2. Enters(p) BY <2>1, StepEnters
 <2>3. Asked(p)' = Asked(p) BY <2>2 DEF Enters, KeepsRequest, Asked
 <2>4. ~Mark(p) /\ Asked(p).named BY <2>1, <2>3 DEF Mark
 <2>5. PICK d \in Boxes : d = Asked(p).to BY <1>3
 <2>6. Whole(d)
  <3>1. CASE pc[p] \in Critical \ {"guard"}
   <4>1. Spared(d) BY <2>4, <2>5, <3>1 DEF Safe, Fresh, Guarded
   <4> QED BY <1>6, <4>1
  <3>2. CASE pc[p] = "guard" /\ Holds(Asked(p).to) = {} /\ box' = box
    BY <2>5, <3>2 DEF Whole, Holds
  <3> QED BY <2>2, <2>4, <3>1, <3>2 DEF Enters
 <2>7. \A uid : Condemned(d, uid)' => Condemned(d, uid) BY <1>7, <2>5
 <2>8. Spared(d)' BY <2>6, <2>7 DEF Whole, Spared, Holds
 <2> QED BY <2>3, <2>5, <2>8
\* The message.
<1>10. removed' \/ \E b \in Boxes : \E m \in Holds(b)' : ~Condemned(b, m.uid)'
 <2> SUFFICES ASSUME ~removed
              PROVE  \E b \in Boxes : \E m : m \in Holds(b)' /\ ~Condemned(b, m.uid)' BY <1>2
 <2>1. \E b \in Boxes : \E m \in Holds(b) : ~Condemned(b, m.uid) BY DEF Safe
 <2>2. CASE \A b \in Boxes : \A uid : Condemned(b, uid)' => Condemned(b, uid)
  <3>1. PICK b \in Boxes : Left(b) BY <1>6, <2>1
  <3>2. PICK n : n \in box'[b] /\ n.id = "named" /\ ~Condemned(b, n.uid) BY <3>1 DEF Left
  <3>3. n \in Holds(b)' /\ ~Condemned(b, n.uid)' BY <2>2, <3>2 DEF Holds
  <3> QED BY <3>3
 <2>3. CASE ~\A b \in Boxes : \A uid : Condemned(b, uid)' => Condemned(b, uid)
  <3>0. PICK d \in Boxes : d = Asked(p).to BY <1>3
  <3>1. /\ Ready(p) /\ pc[p] \in {"arrived", "dispatch"} /\ Move(p)
        /\ \A uid : Condemned(d, uid)' => Condemned(d, uid)
   <4>1. PICK b, uid : b \in Boxes /\ Condemned(b, uid)' /\ ~Condemned(b, uid) BY <2>3
   <4> QED BY <1>7, <3>0, <4>1
  <3>2. Left(d)
   <4>1. CASE pc[p] = "dispatch"
    <5>1. Cmd(p).kind = "copy" /\ Execute(Cmd(p)) /\ Subjects(Cmd(p)) # {}
      BY <3>1, <4>1 DEF Ready
    <5>2. Cmd(p).to = Asked(p).to BY <4>1, CmdIs DEF Sending
    <5>3. Arrives(Cmd(p)) BY <5>1 DEF Arrives
    <5> QED BY <1>5, <3>0, <4>1, <5>1, <5>2, <5>3 DEF Sending
   <4>2. CASE pc[p] = "arrived"
    <5>1. DestinationVerified(p) /\ "MOVE" \notin offers /\ box' = box BY <3>1, <4>2 DEF Ready
    <5>2. job[p].copyuid = <<0, 0>> BY <4>2, <5>1 DEF Base, Shape
    <5>3. Asked(p).named /\ Cardinality(Holds(d)) = 1
      BY <3>0, <5>1, <5>2 DEF DestinationVerified
    <5>4. Holds(d) # {} BY <5>3, FS_EmptySet
    <5>5. Guarded(p) BY <3>1, <4>2, <5>3 DEF Guarded, Critical, Steps, Move, Mark
    <5>6. Spared(d) BY <3>0, <5>5 DEF Safe, Fresh
    <5>7. PICK n \in Holds(d) : ~Condemned(d, n.uid) BY <5>4, <5>6 DEF Spared
    <5> QED BY <5>1, <5>7 DEF Left, Holds
   <4> QED BY <3>1, <4>1, <4>2
  <3>3. PICK n : n \in box'[d] /\ n.id = "named" /\ ~Condemned(d, n.uid) BY <3>2 DEF Left
  <3>4. n \in Holds(d)' /\ ~Condemned(d, n.uid)' BY <3>1, <3>3 DEF Holds
  <3> QED BY <3>4
 <2> QED BY <2>2, <2>3
<1> QED BY <1>8, <1>9, <1>10 DEF Safe

\* The environment, too, removes the message only when another client does.
LEMMA NextSafe ==
  ASSUME Base, Base', Identities, Safe, [Next]_vars
  PROVE  Safe'
<1>1. ASSUME NEW p \in Procs, Step(p) PROVE Safe' BY <1>1, StepSafe
<1>2. CASE LateExecution
 <2>1. Stays /\ UNCHANGED <<known, removed, added>> BY <1>2, LateDoes
 <2>2. PICK c \in late : /\ late' = late \ {c} /\ c \in Commands /\ (Arrives(c) => c.from # c.to)
                         /\ \/ Execute(c) /\ lateRan' = TRUE
                            \/ Ignore /\ lateRan' = lateRan BY <1>2, LateDoes
 <2>3. validity' = validity BY <2>2 DEF Execute, Ignore, server
 <2>4. \A b \in Boxes : \A uid : Condemned(b, uid)' => Condemned(b, uid)
   BY <2>1, <2>2, <2>3, StaysCondemned
 <2>5. /\ \A b \in Boxes : Spared(b) => Whole(b)
       /\ (\E b \in Boxes : \E m \in Holds(b) : ~Condemned(b, m.uid)) => \E b \in Boxes : Left(b)
  <3>1. CASE Ignore BY <3>1 DEF Ignore, server, Spared, Whole, Left, Holds
  <3>2. CASE Execute(c)
   <4>1. Names(c.from, Identity(c)) BY <2>2 DEF Identities
   <4>2. c.kind = "expunge" /\ c.validity = validity[c.from] => Condemned(c.from, c.uid)
     BY <2>2 DEF Condemned
   <4> QED BY <2>2, <3>2, <4>1, <4>2, ExecuteSpares
  <3> QED BY <2>2, <3>1, <3>2
 <2>6. \A b \in Boxes : Spared(b) => Spared(b)' BY <2>4, <2>5 DEF Whole, Spared, Holds
 <2>7. \A b \in Boxes : Left(b) => \E m : m \in Holds(b)' /\ ~Condemned(b, m.uid)'
   BY <2>4 DEF Left, Holds
 <2> QED BY <2>1, <2>5, <2>6, <2>7, StaysSafe
<1>3. ASSUME NEW b \in Boxes, Rebuild(b) PROVE Safe'
 <2>1. /\ validity'[b] > validity[b] /\ Stays /\ late' = late /\ removed' = removed
       /\ \A d \in Boxes \ {b} : box'[d] = box[d] /\ validity'[d] = validity[d]
       /\ \A m \in box[b] : \E k \in box'[b] : k.id = m.id BY <1>3, RebuildDoes
 <2>2. \A d \in Boxes \ {b} : \A uid : Condemned(d, uid)' => Condemned(d, uid)
   BY <2>1, StaysCondemned
 <2>3. ASSUME NEW uid, Condemned(b, uid)' PROVE FALSE
  <3>1. validity[b] \in Nat /\ validity'[b] \in Nat BY DEF Base, TypeOK
  <3>2. pc' = pc /\ job' = job BY <2>1 DEF Stays, worker
  <3>3. \A q \in Procs : Asked(q)' = Asked(q) BY <3>2 DEF Asked
  <3>4. \A c \in late : c.from = b => c.validity <= validity[b] /\ c.validity \in Nat
    BY DEF Identities, Names, Identity, Base, TypeOK, Commands
  <3>5. \A q \in Procs : Asked(q).from = b =>
          job[q].target.validity <= validity[b] /\ job[q].target.validity \in Nat
    BY AskedType DEF Identities, Names, Targets
  <3> QED BY <2>1, <2>3, <3>1, <3>2, <3>3, <3>4, <3>5 DEF Condemned
 <2>4. \A d \in Boxes : Spared(d) => Spared(d)' BY <2>1, <2>2, <2>3 DEF Spared, Holds
 <2>5. ASSUME NEW d \in Boxes, NEW m \in Holds(d), ~Condemned(d, m.uid)
       PROVE  \E k : k \in Holds(d)' /\ ~Condemned(d, k.uid)'
  <3>1. CASE d = b
   <4>1. PICK k : k \in box'[b] /\ k.id = m.id BY <2>1, <2>5, <3>1 DEF Holds
   <4>2. m.id = "named" BY DEF Holds
   <4>3. k \in Holds(d)' /\ ~Condemned(d, k.uid)' BY <2>3, <3>1, <4>1, <4>2 DEF Holds
   <4> QED BY <4>3
  <3>2. CASE d # b
   <4>1. m \in Holds(d)' /\ ~Condemned(d, m.uid)' BY <2>1, <2>2, <2>5, <3>2 DEF Holds
   <4> QED BY <4>1
  <3> QED BY <3>1, <3>2
 <2> QED BY <2>1, <2>4, <2>5, StaysSafe
<1>4. ASSUME NEW b \in Boxes, ForeignClient(b) PROVE Safe'
 <2>1. Stays /\ UNCHANGED <<validity, late, known, felt, touched, lateRan>>
   BY <1>4, ForeignDoes
 <2>2. \A d \in Boxes : \A uid : Condemned(d, uid)' => Condemned(d, uid)
   BY <2>1, StaysCondemned
 <2>3. CASE Delivers(b)
  <3> DEFINE n == Message(next[b], "named", {})
  <3>1. /\ box'[b] = box[b] \cup {n} /\ \A d \in Boxes \ {b} : box'[d] = box[d]
        /\ removed' = removed BY <2>3 DEF Delivers, Put, Base, TypeOK
  <3>2. n.uid = next[b] BY MessageFields
  <3> HIDE DEF n
  <3>3. ~Condemned(b, n.uid) BY <3>2, UnusedSpared
  <3>4. \A d \in Boxes : Spared(d) => Spared(d)' BY <2>2, <3>1, <3>3 DEF Spared, Holds
  <3>5. \A d \in Boxes : \A m \in Holds(d) : ~Condemned(d, m.uid) =>
          m \in Holds(d)' /\ ~Condemned(d, m.uid)' BY <2>2, <3>1 DEF Holds
  <3> QED BY <2>1, <3>1, <3>4, <3>5, StaysSafe
 <2>4. ASSUME NEW m \in Holds(b), Removes(b, m) PROVE Safe'
  <3>1. /\ box'[b] = box[b] \ {m} /\ \A d \in Boxes \ {b} : box'[d] = box[d]
        /\ removed' = TRUE BY <2>4 DEF Removes, Drop, Base, TypeOK
  <3>2. \A d \in Boxes : Spared(d) => Spared(d)' BY <2>2, <3>1 DEF Spared, Holds
  <3> QED BY <2>1, <3>1, <3>2, StaysSafe
 <2>5. ASSUME NEW m \in Holds(b), Undeletes(b, m) PROVE Safe'
  <3>1. PICK n : Swap(b, m, n) /\ removed' = removed BY <2>5 DEF Undeletes
  <3>2. /\ box'[b] = (box[b] \ {m}) \cup {n} /\ \A d \in Boxes \ {b} : box'[d] = box[d]
        /\ m.uid = n.uid /\ m.id = n.id BY <3>1 DEF Swap, Base, TypeOK
  <3>3. \A d \in Boxes : Spared(d) => Spared(d)' BY <2>2, <2>5, <3>2 DEF Spared, Holds
  <3>4. ASSUME NEW d \in Boxes, NEW k \in Holds(d), ~Condemned(d, k.uid)
        PROVE  \E l : l \in Holds(d)' /\ ~Condemned(d, l.uid)'
   <4>1. CASE d = b /\ k = m
    <5>1. n \in Holds(d)' /\ n.uid = k.uid BY <2>5, <3>2, <4>1 DEF Holds
    <5>2. ~Condemned(d, n.uid)' BY <2>2, <3>4, <5>1
    <5> QED BY <5>1, <5>2
   <4>2. CASE ~(d = b /\ k = m)
    <5>1. k \in Holds(d)' /\ ~Condemned(d, k.uid)' BY <2>2, <3>2, <3>4, <4>2 DEF Holds
    <5> QED BY <5>1
   <4> QED BY <4>1, <4>2
  <3> QED BY <2>1, <3>1, <3>3, <3>4, StaysSafe
 <2> QED BY <1>4, <2>3, <2>4, <2>5, ForeignDoes
<1>5. ASSUME Stays, UNCHANGED <<server, late, removed>> PROVE Safe'
 <2>1. box' = box /\ validity' = validity BY <1>5 DEF server
 <2>2. \A d \in Boxes : \A uid : Condemned(d, uid)' => Condemned(d, uid)
   BY <1>5, <2>1, StaysCondemned
 <2>3. \A d \in Boxes : Spared(d) => Spared(d)' BY <2>1, <2>2 DEF Spared, Holds
 <2>4. \A d \in Boxes : \A m \in Holds(d) : ~Condemned(d, m.uid) =>
         m \in Holds(d)' /\ ~Condemned(d, m.uid)' BY <2>1, <2>2 DEF Holds
 <2> QED BY <1>5, <2>3, <2>4, StaysSafe
<1>6. ASSUME NEW b \in Boxes, Synchronise(b) PROVE Safe' BY <1>5, <1>6, SynchroniseDoes
<1>7. CASE UNCHANGED vars BY <1>5, <1>7 DEF vars, history, Stays
<1> QED BY <1>1, <1>2, <1>3, <1>4, <1>6, <1>7 DEF Next, Environment

-------------------------------------------------------------------------------
(* $Junk and $NotJunk.                                                      *)

\* Sequences of one and of two.
LEMMA Heads ==
  ASSUME NEW a, NEW b
  PROVE  /\ Head(<<a>>) = a /\ Tail(<<a>>) = <<>> /\ <<a>> # <<>>
         /\ Head(<<a, b>>) = a /\ Tail(<<a, b>>) = <<b>>
         /\ DOMAIN <<a>> = {1} /\ <<a>>[1] = a
         /\ DOMAIN <<a, b>> = {1, 2} /\ <<a, b>>[1] = a /\ <<a, b>>[2] = b
<1>1. /\ Head(<<a>>) = a /\ Tail(<<a>>) = <<>> /\ <<a>> # <<>>
      /\ DOMAIN <<a>> = {1} /\ <<a>>[1] = a OBVIOUS
<1>2. /\ <<a, b>> \in Seq({a, b}) /\ Len(<<a, b>>) = 2 /\ <<a, b>>[1] = a /\ <<a, b>>[2] = b
  OBVIOUS
<1>3. DOMAIN <<a, b>> = {1, 2} OBVIOUS
<1>4. Head(<<a, b>>) = a BY <1>2
<1>5. Tail(<<a, b>>) = <<b>>
 <2>1. /\ Tail(<<a, b>>) \in Seq({a, b}) /\ Len(Tail(<<a, b>>)) = 1
       /\ Tail(<<a, b>>)[1] = b BY <1>2
 <2>2. <<b>> \in Seq({a, b}) /\ Len(<<b>>) = 1 /\ <<b>>[1] = b OBVIOUS
 <2>3. \A i \in 1 .. 1 : Tail(<<a, b>>)[i] = <<b>>[i] BY <2>1, <2>2
 <2> QED BY <2>1, <2>2, <2>3, SeqEqual
<1> QED BY <1>1, <1>2, <1>3, <1>4, <1>5

\* The plan that is made from the flags of a message fits it.
LEMMA PhasesFit ==
  ASSUME NEW r \in RequestRecord, NEW m \in Messages, NEW plan,
         plan = Phases(r, Needed(r, m.flags)), plan # <<>>
  PROVE  /\ TouchesJunk(r) => Junked(r, plan, {m})
         /\ ~TouchesJunk(r) => Plain(plan)
<1> DEFINE n == Needed(r, m.flags)
           add == [add |-> n.add, remove |-> {}]
           remove == [add |-> {}, remove |-> n.remove]
<1>1. n.add = r.add \ m.flags /\ n.remove = r.remove \cap m.flags BY DEF Needed
<1>2. n.add \in SUBSET Flags /\ n.remove \in SUBSET Flags /\ r.add \subseteq Flags
  BY <1>1 DEF RequestRecord
<1> HIDE DEF n
<1>3. \/ plan = <<add>> /\ n.remove = {}
      \/ plan = <<remove>>
      \/ plan = <<add, remove>> /\ ~TouchesJunk(r)
      \/ plan = <<remove, add>> /\ TouchesJunk(r) BY <1>2, PhasesAre DEF n
<1>4. /\ add.add = n.add /\ add.remove = {} /\ remove.add = {} /\ remove.remove = n.remove
      /\ add = [add |-> n.add, remove |-> {}] OBVIOUS
<1> HIDE DEF add, remove
<1>5. ASSUME TouchesJunk(r) PROVE Junked(r, plan, {m})
 <2>1. CASE plan = <<add>> /\ n.remove = {}
  <3>1. Head(plan) = add /\ Tail(plan) = <<>> BY <2>1, Heads
  <3> QED BY <1>1, <1>4, <2>1, <3>1 DEF Junked
 <2>2. CASE plan = <<remove>>
  <3>1. Head(plan) = remove /\ Tail(plan) = <<>> BY <2>2, Heads
  <3> QED BY <1>1, <1>4, <3>1 DEF Junked
 <2>3. CASE plan = <<remove, add>>
  <3>1. Head(plan) = remove /\ Tail(plan) = <<add>> BY <2>3, Heads
  <3> QED BY <1>1, <1>4, <3>1 DEF Junked
 <2> QED BY <1>3, <1>5, <2>1, <2>2, <2>3
<1>6. ASSUME ~TouchesJunk(r) PROVE Plain(plan)
 <2>1. add.add \cap Junk = {} /\ remove.add \cap Junk = {}
   BY <1>1, <1>4, <1>6 DEF TouchesJunk, Junk
 <2>2. CASE plan = <<add>> BY <2>1, <2>2, Heads DEF Plain
 <2>3. CASE plan = <<remove>> BY <2>1, <2>3, Heads DEF Plain
 <2>4. CASE plan = <<add, remove>> BY <2>1, <2>4, Heads DEF Plain
 <2> QED BY <1>3, <1>6, <2>2, <2>3, <2>4
<1> QED BY <1>5, <1>6

\* A plan fits other messages that have no more of the flags to remove.
LEMMA JunkedKept ==
  ASSUME NEW r, NEW plan, NEW mine, Junked(r, plan, mine), NEW others,
         \A n \in others : \/ n.flags \cap r.remove = {}
                           \/ \E m \in mine : n.flags \subseteq m.flags
  PROVE  Junked(r, plan, others) BY DEF Junked

\* What is left of a plan fits when nothing is left to remove.
LEMMA RestFits ==
  ASSUME NEW r, NEW plan \in Seq(Phase), plan # <<>>, Tail(plan) # <<>>
  PROVE  /\ Plain(plan) => Plain(Tail(plan))
         /\ \A mine, others :
              Junked(r, plan, mine) /\ (\A m \in others : m.flags \cap r.remove = {})
                => Junked(r, Tail(plan), others)
<1>1. Plain(plan) => Plain(Tail(plan))
 <2>1. /\ Len(plan) \in Nat \ {0} /\ DOMAIN plan = 1 .. Len(plan)
       /\ DOMAIN Tail(plan) = 1 .. (Len(plan) - 1)
       /\ \A i \in 1 .. (Len(plan) - 1) : Tail(plan)[i] = plan[i + 1] OBVIOUS
 <2> QED BY <2>1 DEF Plain
<1>2. ASSUME NEW mine, NEW others, Junked(r, plan, mine),
             \A m \in others : m.flags \cap r.remove = {}
      PROVE  Junked(r, Tail(plan), others)
 <2>1. PICK a \in SUBSET r.add : Tail(plan) = <<[add |-> a, remove |-> {}]>>
   BY <1>2 DEF Junked
 <2>2. PICK h : h = [add |-> a, remove |-> {}] OBVIOUS
 <2>3. Head(Tail(plan)) = h /\ Tail(Tail(plan)) = <<>> BY <2>1, <2>2, Heads
 <2>4. h.add = a /\ h.remove = {} BY <2>2
 <2> QED BY <1>2, <2>3, <2>4 DEF Junked
<1> QED BY <1>1, <1>2

\* A STORE leaves a message to which the plan still fits, and not both flags.
LEMMA StoredFits ==
  ASSUME NEW r \in Requests, NEW plan, NEW m \in Messages, Junked(r, plan, {m}), NEW s,
         s.flags = (m.flags \cup Head(plan).add) \ Head(plan).remove
  PROVE  /\ Junked(r, plan, {s})
         /\ Tail(plan) # <<>> => s.flags \cap r.remove = {}
         /\ ~(Junk \subseteq m.flags) => ~(Junk \subseteq s.flags)
<1> DEFINE head == Head(plan)
<1>1. /\ r.add \cap r.remove = {}
      /\ "Junk" \in r.add => "NotJunk" \in r.remove
      /\ "NotJunk" \in r.add => "Junk" \in r.remove BY MutationAssumption
<1>2. /\ head.add \subseteq r.add /\ head.remove \subseteq r.remove
      /\ \/ head.add = {} /\ m.flags \cap r.remove \subseteq head.remove
         \/ head.remove = {} /\ m.flags \cap r.remove = {}
      /\ Tail(plan) # <<>> =>
           /\ head.add = {}
           /\ \E a \in SUBSET r.add : Tail(plan) = <<[add |-> a, remove |-> {}]>>
  BY DEF Junked
<1>3. s.flags = (m.flags \cup head.add) \ head.remove OBVIOUS
<1> HIDE DEF head
<1>4. \/ head.add = {} /\ s.flags \cap r.remove = {} /\ s.flags \subseteq m.flags
      \/ head.remove = {} /\ m.flags \cap r.remove = {} /\ s.flags \cap r.remove = {}
         /\ s.flags = m.flags \cup head.add BY <1>1, <1>2, <1>3
<1>5. Junked(r, plan, {s}) BY <1>2, <1>4 DEF Junked, head
<1>6. Tail(plan) # <<>> => s.flags \cap r.remove = {} BY <1>2, <1>4
<1>7. ASSUME Junk \subseteq s.flags PROVE Junk \subseteq m.flags
 <2>1. CASE s.flags \subseteq m.flags BY <1>7, <2>1
 <2>2. CASE m.flags \cap r.remove = {} /\ s.flags \cap r.remove = {}
            /\ s.flags = m.flags \cup head.add
  <3>1. "Junk" \notin r.remove /\ "NotJunk" \notin r.remove BY <1>7, <2>2 DEF Junk
  <3>2. "Junk" \notin head.add /\ "NotJunk" \notin head.add BY <1>1, <1>2, <3>1
  <3> QED BY <1>7, <2>2, <3>2 DEF Junk
 <2> QED BY <1>4, <2>1, <2>2
<1> QED BY <1>5, <1>6, <1>7

\* The message a request is for.
LEMMA MineIs ==
  ASSUME Base, NEW p \in Procs, pc[p] \in {"store", "fetch"}
  PROVE  /\ \A m \in Mine(p) : m \in Messages /\ m \in box[Asked(p).from]
         /\ \A m, n \in Mine(p) : m = n
         /\ Asked(p) \in Requests /\ Asked(p) \in RequestRecord
         /\ job[p].plan \in Seq(Phase) /\ job[p].plan # <<>>
         /\ (Mark(p) \/ Move(p)) /\ Mine(p) \subseteq At(Asked(p).from, job[p].target.uid)
<1>1. Asked(p) \in RequestRecord /\ Asked(p) \in Requests /\ ~Copy(p) /\ job[p].plan # <<>>
  BY RealRequest DEF Base, Shape
<1>2. Mark(p) \/ Move(p) BY <1>1 DEF Mark, Move, Copy, RequestRecord
<1>3. job[p].plan \in Seq(Phase) BY DEF Base, TypeOK, Jobs
<1>4. Asked(p).from \in Boxes BY AskedType
<1>5. Mine(p) \subseteq At(Asked(p).from, job[p].target.uid) BY DEF Mine
<1>6. \A m \in Mine(p) : m \in Messages /\ m \in box[Asked(p).from]
  BY <1>4, <1>5 DEF At, Base, TypeOK
<1>7. \A m, n \in Mine(p) : m = n BY <1>4, <1>5 DEF At, Base, Numbered
<1> QED BY <1>1, <1>2, <1>3, <1>5, <1>6, <1>7

\* A STORE changes the flags of the message the request is for.
Flagged(p, m) ==
  /\ Mine(p) = {m} /\ Subjects(Cmd(p)) = {m}
  /\ Swap(Asked(p).from, m, Stored(Cmd(p), m))
  /\ Stored(Cmd(p), m).flags = (m.flags \cup Head(job[p].plan).add) \ Head(job[p].plan).remove

\* It changes that message or none.
LEMMA StoreLeaves ==
  ASSUME Base, NEW p \in Procs, pc[p] = "store", Execute(Cmd(p))
  PROVE  validity' = validity /\ (Vain(Cmd(p)) \/ \E m \in Messages : Flagged(p, m))
<1>1. /\ Cmd(p) \in Commands /\ (Arrives(Cmd(p)) => Cmd(p).from # Cmd(p).to)
      /\ Cmd(p).from = Asked(p).from /\ Cmd(p).uid = job[p].target.uid
      /\ Cmd(p).validity = job[p].selected /\ Cmd(p).kind = "store"
      /\ Cmd(p).add = Head(job[p].plan).add /\ Cmd(p).remove = Head(job[p].plan).remove
  BY CmdIs DEF Sending
<1>2. PICK c \in Commands : c = Cmd(p) BY <1>1
<1>3. validity' = validity /\ (Vain(c) \/ \E m \in Messages : Finds(c, m))
  BY <1>1, <1>2, ExecuteIs
<1>4. ASSUME NEW m \in Messages, Finds(c, m) PROVE Flagged(p, m)
 <2>1. /\ Subjects(c) = {m} /\ m \in box[c.from] /\ m.uid = c.uid
       /\ validity[c.from] = c.validity BY <1>4 DEF Finds, Subject
 <2>2. m \in Mine(p) BY <1>1, <1>2, <2>1 DEF Mine, At
 <2>3. Mine(p) = {m} BY <2>2, MineIs
 <2>4. Swap(c.from, m, Stored(c, m)) BY <1>1, <1>2, <1>4 DEF Finds, Result
 <2>5. Stored(c, m).flags = (m.flags \cup c.add) \ c.remove BY MessageFields DEF Stored
 <2> QED BY <1>1, <1>2, <2>1, <2>3, <2>4, <2>5 DEF Flagged
<1> QED BY <1>2, <1>3, <1>4

\* A request that goes on is for the same message.
LEMMA SameMine ==
  ASSUME NEW p \in Procs, KeepsRequest(p), job'[p].selected = job[p].selected,
         box' = box, validity' = validity
  PROVE  Mine(p)' = Mine(p) BY DEF KeepsRequest, Mine, At, Asked

\* After a STORE, that is the message with its new flags.
LEMMA FlaggedMine ==
  ASSUME Base, NEW p \in Procs, pc[p] = "store", KeepsRequest(p),
         job'[p].selected = job[p].selected, NEW m \in Messages, Flagged(p, m)
  PROVE  Mine(p)' \subseteq {Stored(Cmd(p), m)}
<1>1. PICK b, uid : b \in Boxes /\ b = Asked(p).from /\ uid = job[p].target.uid BY AskedType
<1>2. b = Asked(p)'.from /\ uid = job'[p].target.uid BY <1>1 DEF KeepsRequest, Asked
<1>3. \A n : n \in Mine(p)' => n \in box'[b] /\ n.uid = uid BY <1>2 DEF Mine, At
<1>4. PICK s : s = Stored(Cmd(p), m) OBVIOUS
<1>5. box'[b] = (box[b] \ {m}) \cup {s} BY <1>1, <1>4 DEF Flagged, Swap, Base, TypeOK
<1>6. m \in box[b] /\ m.uid = uid BY <1>1, MineIs DEF Flagged, At
<1>7. \A n \in box[b] : n.uid = uid => n = m BY <1>1, <1>6 DEF Base, Numbered
<1> QED BY <1>3, <1>4, <1>5, <1>7

\* No command of a process marks a message as junk and as no junk.
LEMMA StepJunk ==
  ASSUME Base, NEW p \in Procs, Serves(p), Planned(p), Clear
  PROVE  Clear'
<1>0. \A b \in Boxes : \A m \in box[b] : ~(Junk \subseteq m.flags) BY DEF Clear
<1>1. SUFFICES ASSUME NEW b \in Boxes, NEW n, n \in box'[b], Junk \subseteq n.flags
               PROVE  FALSE BY DEF Clear
<1>2. CASE box' = box BY <1>0, <1>1, <1>2
<1>3. CASE pc[p] = "store" /\ Execute(Cmd(p))
 <2>1. CASE Vain(Cmd(p)) BY <1>2, <2>1 DEF Vain
 <2>2. ASSUME NEW m \in Messages, Flagged(p, m) PROVE FALSE
  <3>1. PICK s : s = Stored(Cmd(p), m) OBVIOUS
  <3>2. Asked(p).from \in Boxes BY AskedType
  <3>3. n \in box[b] \/ n = s BY <1>1, <2>2, <3>1, <3>2 DEF Flagged, Swap, Base, TypeOK
  <3>4. s.flags = (m.flags \cup Head(job[p].plan).add) \ Head(job[p].plan).remove
    BY <2>2, <3>1 DEF Flagged
  <3>5. m \in box[Asked(p).from] /\ Mine(p) = {m} /\ Asked(p) \in Requests
    BY <1>3, <2>2, MineIs DEF Flagged
  <3>6. ~(Junk \subseteq m.flags) BY <1>0, <3>2, <3>5
  <3>7. ~(Junk \subseteq s.flags)
   <4>1. CASE Head(job[p].plan).add \cap Junk = {} BY <3>4, <3>6, <4>1 DEF Junk
   <4>2. CASE Mark(p) /\ TouchesJunk(Asked(p))
    <5>1. Junked(Asked(p), job[p].plan, {m}) BY <1>3, <3>5, <4>2 DEF Planned
    <5> QED BY <3>4, <3>5, <3>6, <5>1, StoredFits
   <4>3. CASE Mark(p) /\ ~TouchesJunk(Asked(p))
    <5>1. Plain(job[p].plan) BY <1>3, <4>3 DEF Planned
    <5>2. 1 \in DOMAIN job[p].plan /\ Head(job[p].plan) = job[p].plan[1] BY <1>3, MineIs
    <5> QED BY <4>1, <5>1, <5>2 DEF Plain
   <4>4. CASE Move(p)
    <5>1. job[p].plan = <<[add |-> {"Deleted"}, remove |-> {}]>> BY <1>3, <4>4 DEF Planned
    <5> QED BY <4>1, <5>1, Heads DEF Junk
   <4> QED BY <1>3, <4>2, <4>3, <4>4, MineIs
  <3> QED BY <1>0, <1>1, <3>3, <3>7
 <2> QED BY <1>3, <2>1, <2>2, StoreLeaves
<1>4. CASE pc[p] \in Sending \ {"store"} /\ Execute(Cmd(p))
 <2>1. /\ Cmd(p) \in Commands /\ (Arrives(Cmd(p)) => Cmd(p).from # Cmd(p).to)
       /\ Cmd(p).kind # "store" /\ Cmd(p).from \in Boxes BY <1>4, CmdIs, AskedType
 <2>2. PICK c \in Commands : c = Cmd(p) BY <2>1
 <2>3. CASE Vain(c) BY <1>2, <2>3 DEF Vain
 <2>4. ASSUME NEW m \in Messages, Finds(c, m) PROVE FALSE
  <3>1. \/ n \in box[b]
        \/ n = Carried(c, m) BY <1>1, <2>1, <2>2, <2>4, BoxAfter DEF Finds
  <3>2. m \in box[c.from] BY <2>4 DEF Finds, Subject
  <3>3. Carried(c, m).flags = m.flags BY MessageFields DEF Carried
  <3> QED BY <1>0, <1>1, <2>1, <2>2, <3>1, <3>2, <3>3
 <2> QED BY <1>4, <2>1, <2>2, <2>3, <2>4, ExecuteIs
<1> QED BY <1>2, <1>3, <1>4 DEF Serves, Ignore, server

\* What a plan fits next, for a request that goes on.
LEMMA PlanKept ==
  ASSUME Base, NEW p \in Procs, pc[p] \in {"store", "fetch"}, KeepsRequest(p), Planned(p),
         job'[p].plan = job[p].plan,
         Mark(p) /\ TouchesJunk(Asked(p)) =>
           \A n : n \in Mine(p)' => \/ n.flags \cap Asked(p).remove = {}
                                    \/ \E m \in Mine(p) : n.flags \subseteq m.flags
  PROVE  Planned(p)'
<1>1. Asked(p)' = Asked(p) BY DEF KeepsRequest, Asked
<1>2. (Move(p)' <=> Move(p)) /\ (Mark(p)' <=> Mark(p)) BY <1>1 DEF Move, Mark
<1>3. Mark(p) /\ TouchesJunk(Asked(p)) => Junked(Asked(p), job[p].plan, Mine(p)')
 <2>1. PICK others : others = Mine(p)' OBVIOUS
 <2> QED BY <2>1, JunkedKept DEF Planned
<1>4. PICK r, plan, others : r = Asked(p) /\ plan = job[p].plan /\ others = Mine(p)' OBVIOUS
<1>5. Mark(p)' /\ TouchesJunk(Asked(p))' => Junked(Asked(p), job[p].plan, Mine(p))'
  BY <1>1, <1>2, <1>3, <1>4 DEF Junked, TouchesJunk
<1>6. Mark(p)' /\ ~TouchesJunk(Asked(p))' => Plain(job[p].plan)'
  BY <1>1, <1>2, <1>4 DEF Planned, Plain, TouchesJunk
<1>7. Move(p)' => job'[p].plan = <<[add |-> {"Deleted"}, remove |-> {}]>> BY <1>2 DEF Planned
<1> QED BY <1>5, <1>6, <1>7 DEF Planned

\* The first phase is done.
LEMMA PlanRest ==
  ASSUME Base, NEW p \in Procs, pc[p] \in {"store", "fetch"}, KeepsRequest(p), Planned(p),
         job'[p].plan = Tail(job[p].plan), job'[p].plan # <<>>,
         Mark(p) /\ TouchesJunk(Asked(p)) =>
           \A n : n \in Mine(p)' => n.flags \cap Asked(p).remove = {}
  PROVE  Planned(p)'
<1>1. Asked(p)' = Asked(p) BY DEF KeepsRequest, Asked
<1>2. (Move(p)' <=> Move(p)) /\ (Mark(p)' <=> Mark(p)) BY <1>1 DEF Move, Mark
<1>3. PICK r, plan, rest, others : /\ r = Asked(p) /\ plan = job[p].plan /\ others = Mine(p)'
                                   /\ rest = Tail(plan) OBVIOUS
<1>4. plan \in Seq(Phase) /\ plan # <<>> /\ rest # <<>> BY <1>3, MineIs
<1>5. ~Move(p)
 <2>1. Move(p) => plan = <<[add |-> {"Deleted"}, remove |-> {}]>> BY <1>3 DEF Planned
 <2> QED BY <1>3, <1>4, <2>1, Heads
<1>6. Mark(p) /\ TouchesJunk(r) => Junked(r, rest, others)
 <2> SUFFICES ASSUME Mark(p), TouchesJunk(r) PROVE Junked(r, rest, others) OBVIOUS
 <2>1. Junked(r, plan, Mine(p)) BY <1>3 DEF Planned
 <2>2. \A m \in others : m.flags \cap r.remove = {} BY <1>3
 <2> QED BY <1>3, <1>4, <2>1, <2>2, RestFits
<1>7. Mark(p) /\ ~TouchesJunk(r) => Plain(rest) BY <1>3, <1>4, RestFits DEF Planned
<1>8. Mark(p)' /\ TouchesJunk(Asked(p))' => Junked(Asked(p), job[p].plan, Mine(p))'
  BY <1>1, <1>2, <1>3, <1>6 DEF Junked, TouchesJunk
<1>9. Mark(p)' /\ ~TouchesJunk(Asked(p))' => Plain(job[p].plan)'
  BY <1>1, <1>2, <1>3, <1>7 DEF Plain, TouchesJunk
<1> QED BY <1>2, <1>5, <1>8, <1>9 DEF Planned

\* The plan is always one for the message as it is.
LEMMA StepPlanned ==
  ASSUME Base, NEW p \in Procs, Step(p), Planned(p)
  PROVE  Planned(p)'
<1>0. pc'[p] \notin {"store", "fetch"} => Planned(p)' BY DEF Planned
<1>01. ASSUME NEW says, NEW effects, Ends(p, says, effects) PROVE Planned(p)'
  BY <1>0, <1>01 DEF Ends
<1>02. ASSUME NEW step, Goes(p, step), step \notin {"store", "fetch"} PROVE Planned(p)'
  BY <1>0, <1>02 DEF Goes
<1>03. ReadOnly => box' = box /\ validity' = validity BY DEF ReadOnly, server
<1>1. ASSUME NEW r \in Requests, Begin(p, r) PROVE Planned(p)' BY <1>0, <1>1, BeginDoes
<1>2. CASE Resolve(p) BY <1>01, <1>02, <1>2, ResolveDoes
<1>3. CASE Attempt(p) BY <1>01, <1>02, <1>3, AttemptDoes
<1>4. CASE Acquire(p) BY <1>01, <1>02, <1>4, AcquireDoes DEF Refused
<1>5. CASE Guard(p) BY <1>01, <1>02, <1>5, GuardDoes
<1>6. CASE Source(p)
 <2>1. CASE /\ Goes(p, "store") /\ KeepsRequest(p) /\ Mark(p) /\ ReadOnly
            /\ job'[p].selected = validity[Asked(p).from]
            /\ \E m \in At(Asked(p).from, job[p].target.uid) :
                 /\ job'[p].plan = Phases(Asked(p), Needed(Asked(p), m.flags))
                 /\ job'[p].plan # <<>>
            /\ pc[p] = "source"
  <3>1. PICK m \in At(Asked(p).from, job[p].target.uid) :
          /\ job'[p].plan = Phases(Asked(p), Needed(Asked(p), m.flags))
          /\ job'[p].plan # <<>> BY <2>1
  <3>2. Asked(p) \in RequestRecord /\ Asked(p).from \in Boxes BY <2>1, RealRequest, AskedType
  <3>3. m \in Messages /\ \A n \in At(Asked(p).from, job[p].target.uid) : n = m
    BY <3>1, <3>2 DEF At, Base, TypeOK, Numbered
  <3>4. PICK r, plan, b, uid :
          /\ r = Asked(p) /\ plan = job'[p].plan /\ b = Asked(p).from
          /\ uid = job[p].target.uid /\ r \in RequestRecord BY <3>2
  <3>5. Asked(p)' = r /\ Asked(p)'.from = b /\ job'[p].target.uid = uid
    BY <2>1, <3>4 DEF KeepsRequest, Asked
  <3>6. \A n : n \in Mine(p)' => n = m
   <4>1. \A n : n \in Mine(p)' => n \in box'[b] /\ n.uid = uid BY <3>5 DEF Mine, At
   <4> QED BY <1>03, <2>1, <3>3, <3>4, <4>1 DEF At
  <3>7. /\ TouchesJunk(r) => Junked(r, plan, {m})
        /\ ~TouchesJunk(r) => Plain(plan) BY <3>1, <3>3, <3>4, PhasesFit
  <3>8. PICK others : others = Mine(p)' OBVIOUS
  <3>9. TouchesJunk(r) => Junked(r, plan, others) BY <3>6, <3>7, <3>8, JunkedKept
  <3>10. TouchesJunk(Asked(p))' => Junked(Asked(p), job[p].plan, Mine(p))'
    BY <3>4, <3>5, <3>8, <3>9 DEF Junked, TouchesJunk
  <3>11. ~TouchesJunk(Asked(p))' => Plain(job[p].plan)'
    BY <3>4, <3>5, <3>7 DEF Plain, TouchesJunk
  <3>12. ~Move(p)' BY <2>1, <3>4, <3>5 DEF Mark, Move
  <3> QED BY <3>10, <3>11, <3>12 DEF Planned
 <2> QED BY <1>01, <1>02, <1>6, <2>1, SourceDoes DEF Refused
<1>7. CASE DispatchCopy(p) BY <1>01, <1>02, <1>7, DispatchCopyDoes DEF Refused
<1>8. CASE VerifyCopy(p) BY <1>01, <1>8, VerifyCopyDoes
<1>9. CASE DispatchMove(p) BY <1>01, <1>02, <1>9, DispatchMoveDoes DEF Refused
<1>10. CASE CheckAbsent(p) BY <1>01, <1>02, <1>10, CheckAbsentDoes
<1>11. CASE CheckArrived(p) BY <1>01, <1>02, <1>11, CheckArrivedDoes
<1>12. CASE FallbackCopy(p) BY <1>01, <1>02, <1>12, FallbackCopyDoes DEF Refused
<1>13. CASE SourceAgain(p)
 <2>1. CASE /\ Goes(p, "store") /\ KeepsRequest(p) /\ pc[p] = "again"
            /\ job'[p].plan = <<[add |-> {"Deleted"}, remove |-> {}]>>
  <3>1. Move(p) BY <2>1 DEF Base, Shape
  <3>2. ~Mark(p)' BY <2>1, <3>1 DEF Mark, Move, KeepsRequest, Asked
  <3> QED BY <2>1, <3>2 DEF Planned
 <2> QED BY <1>01, <1>13, <2>1, SourceAgainDoes
<1>14. CASE Store(p)
 <2>0. pc[p] = "store" BY <1>14, StoreDoes
 <2>1. CASE Execute(Cmd(p)) /\ Goes(p, "fetch") /\ job'[p] = job[p]
  <3>1. KeepsRequest(p) BY <2>1 DEF KeepsRequest
  <3>2. CASE Vain(Cmd(p))
   <4>1. Mine(p)' = Mine(p) BY <2>0, <2>1, <3>1, <3>2, StoreLeaves, SameMine DEF Vain
   <4> QED BY <2>0, <2>1, <3>1, <4>1, PlanKept
  <3>3. ASSUME NEW m \in Messages, Flagged(p, m) PROVE Planned(p)'
   <4>1. PICK s, r, plan : /\ s = Stored(Cmd(p), m) /\ r = Asked(p) /\ plan = job[p].plan
                             /\ r \in Requests BY <2>0, MineIs
   <4>2. s.flags = (m.flags \cup Head(plan).add) \ Head(plan).remove BY <3>3, <4>1 DEF Flagged
   <4>3. Mine(p) = {m} BY <3>3 DEF Flagged
   <4>4. \A n : n \in Mine(p)' => n = s BY <2>0, <2>1, <3>1, <3>3, <4>1, FlaggedMine
   <4>5. CASE Mark(p) /\ TouchesJunk(Asked(p))
    <5>1. Junked(r, plan, {m}) BY <2>0, <4>1, <4>3, <4>5 DEF Planned
    <5>2. Junked(r, plan, {s}) BY <4>1, <4>2, <5>1, StoredFits
    <5>3. s.flags \cap r.remove = {} \/ s.flags \subseteq m.flags
     <6>1. r.add \cap r.remove = {} BY <4>1, MutationAssumption
     <6> QED BY <4>2, <5>1, <6>1 DEF Junked
    <5> QED BY <2>0, <2>1, <3>1, <4>1, <4>3, <4>4, <5>3, PlanKept
   <4>6. CASE ~(Mark(p) /\ TouchesJunk(Asked(p))) BY <2>0, <2>1, <3>1, <4>6, PlanKept
   <4> QED BY <4>5, <4>6
  <3> QED BY <2>0, <2>1, <3>2, <3>3, StoreLeaves
 <2>2. ASSUME Execute(Cmd(p)), NEW k \in Subjects(Cmd(p)), Goes(p, "store"), KeepsRequest(p),
              job'[p].selected = job[p].selected,
              job'[p].plan = Tail(job[p].plan), job'[p].plan # <<>>
       PROVE  Planned(p)'
  <3>1. PICK m \in Messages : Flagged(p, m) BY <2>0, <2>2, StoreLeaves DEF Vain
  <3>2. PICK s, r, plan : /\ s = Stored(Cmd(p), m) /\ r = Asked(p) /\ plan = job[p].plan
                            /\ r \in Requests BY <2>0, MineIs
  <3>3. s.flags = (m.flags \cup Head(plan).add) \ Head(plan).remove BY <3>1, <3>2 DEF Flagged
  <3>4. Mine(p) = {m} BY <3>1 DEF Flagged
  <3>5. \A n : n \in Mine(p)' => n = s BY <2>0, <2>2, <3>1, <3>2, FlaggedMine
  <3>6. Mark(p) /\ TouchesJunk(Asked(p)) => s.flags \cap r.remove = {}
   <4> SUFFICES ASSUME Mark(p), TouchesJunk(Asked(p)) PROVE s.flags \cap r.remove = {} OBVIOUS
   <4>1. Junked(r, plan, {m}) BY <2>0, <3>2, <3>4 DEF Planned
   <4>2. Tail(plan) # <<>> BY <2>2, <3>2
   <4> QED BY <3>2, <3>3, <4>1, <4>2, StoredFits
  <3> QED BY <2>0, <2>2, <3>2, <3>5, <3>6, PlanRest
 <2>3. ASSUME Execute(Cmd(p)), NEW k \in Subjects(Cmd(p)), NEW flags, Observed(p, flags)
       PROVE  Planned(p)' BY <1>01, <1>02, <2>2, <2>3 DEF Observed
 <2> QED BY <1>01, <1>14, <2>1, <2>3, StoreDoes
<1>15. CASE Fetch(p)
 <2>0. pc[p] = "fetch" /\ ReadOnly BY <1>15, FetchDoes
 <2>1. ASSUME validity[Asked(p).from] = job[p].selected,
              NEW m \in At(Asked(p).from, job[p].target.uid),
              Goes(p, "store"), KeepsRequest(p), job'[p].selected = job[p].selected,
              job'[p].plan = Tail(job[p].plan), job'[p].plan # <<>>,
              FlagsMatch(m.flags, Head(job[p].plan))
       PROVE  Planned(p)'
  <3>1. Mine(p)' = Mine(p) BY <1>03, <2>0, <2>1, SameMine
  <3>2. m \in Mine(p) BY <2>1 DEF Mine
  <3>3. Mine(p) = {m} BY <2>0, <3>2, MineIs
  <3>4. ASSUME Mark(p), TouchesJunk(Asked(p)) PROVE m.flags \cap Asked(p).remove = {}
   <4>1. Junked(Asked(p), job[p].plan, {m}) BY <2>0, <3>3, <3>4 DEF Planned
   <4>2. Head(job[p].plan).remove \cap m.flags = {} BY <2>1 DEF FlagsMatch
   <4> QED BY <4>1, <4>2 DEF Junked
  <3> QED BY <2>0, <2>1, <3>1, <3>3, <3>4, PlanRest
 <2>2. ASSUME validity[Asked(p).from] = job[p].selected,
              NEW m \in At(Asked(p).from, job[p].target.uid), Observed(p, m.flags)
       PROVE  Planned(p)' BY <1>01, <1>02, <2>1, <2>2 DEF Observed
 <2> QED BY <1>01, <1>15, <2>2, FetchDoes
<1>16. CASE Expunge(p) BY <1>01, <1>02, <1>16, ExpungeDoes
<1>17. CASE CheckExpunged(p) BY <1>01, <1>17, CheckExpungedDoes
<1>18. CASE Kill(p) BY <1>0, <1>18, KillDoes
<1> QED BY <1>1, <1>2, <1>3, <1>4, <1>5, <1>6, <1>7, <1>8, <1>9, <1>10, <1>11, <1>12, <1>13,
<1>14, <1>15, <1>16, <1>17, <1>18 DEF Step

\* What the environment may do to the flags of the messages: no new ones.
Fades(b) ==
  /\ \A n : n \in box'[b] => n.flags = {} \/ \E m \in box[b] : n.flags \subseteq m.flags
  /\ \/ validity'[b] > validity[b]
     \/ /\ validity'[b] = validity[b]
        /\ \A n : n \in box'[b] =>
             n.flags = {} \/ \E m \in box[b] : n.uid = m.uid /\ n.flags \subseteq m.flags

\* A mailbox that stays as it is.
LEMMA SameFades ==
  ASSUME NEW b \in Boxes, box'[b] = box[b], validity'[b] = validity[b]
  PROVE  Fades(b) BY DEF Fades

\* No process steps, and no message gets a flag.
LEMMA StaysUnambiguous ==
  ASSUME Base, Base', Identities, Stays, \A b \in Boxes : Fades(b), lateRan' = lateRan,
         Unambiguous
  PROVE  Unambiguous'
<1> SUFFICES ASSUME ~lateRan PROVE Clear' /\ \A p \in Procs : Planned(p)' BY DEF Unambiguous
<1>1. Clear /\ \A p \in Procs : Planned(p) BY DEF Unambiguous
<1>2. Clear' BY <1>1 DEF Clear, Fades, Junk
<1>3. ASSUME NEW p \in Procs PROVE Planned(p)'
 <2>1. pc'[p] = pc[p] /\ job'[p] = job[p] /\ KeepsRequest(p)
   BY DEF Stays, worker, KeepsRequest
 <2> SUFFICES ASSUME pc[p] \in {"store", "fetch"} PROVE Planned(p)' BY <2>1 DEF Planned
 <2>2. PICK b, uid, v : b = Asked(p).from /\ uid = job[p].target.uid /\ v = job[p].selected
   OBVIOUS
 <2>3. b \in Boxes /\ job[p].target \in Targets BY <2>2, AskedType
 <2>4. v = job[p].target.validity BY <2>2 DEF Base, Shape, After
 <2>5. v <= validity[b] BY <2>2, <2>4 DEF Identities, Names
 <2>6. v \in Nat /\ validity[b] \in Nat /\ validity'[b] \in Nat
   BY <2>3, <2>4 DEF Base, TypeOK, Targets
 <2>7. Asked(p)'.from = b /\ job'[p].target.uid = uid /\ job'[p].selected = v
   BY <2>1, <2>2 DEF Asked
 <2>8. \A n : n \in Mine(p)' => validity'[b] = v /\ n \in box'[b] /\ n.uid = uid
   BY <2>7 DEF Mine, At
 <2>9. ASSUME NEW n, n \in Mine(p)'
       PROVE  n.flags = {} \/ \E m \in Mine(p) : n.flags \subseteq m.flags
  <3>1. validity'[b] = v /\ n \in box'[b] /\ n.uid = uid BY <2>8, <2>9
  <3>2. validity[b] = v BY <2>3, <2>5, <2>6, <3>1 DEF Fades
  <3>3. n.flags = {} \/ \E m \in box[b] : n.uid = m.uid /\ n.flags \subseteq m.flags
    BY <2>3, <2>5, <2>6, <3>1 DEF Fades
  <3>4. \A m \in box[b] : n.uid = m.uid => m \in Mine(p) BY <2>2, <3>1, <3>2 DEF Mine, At
  <3> QED BY <3>3, <3>4
 <2>10. \A n : n \in Mine(p)' => \/ n.flags \cap Asked(p).remove = {}
                                 \/ \E m \in Mine(p) : n.flags \subseteq m.flags BY <2>9
 <2> QED BY <1>1, <2>1, <2>10, PlanKept
<1> QED BY <1>2, <1>3

\* At first no message is junk, and nothing is planned.
LEMMA InitUnambiguous == Init => Unambiguous
<1> SUFFICES ASSUME Init PROVE Unambiguous OBVIOUS
<1>1. \A p \in Procs : Planned(p) BY DEF Init, Planned
<1>2. Message(1, "named", {"NotJunk"}).flags = {"NotJunk"} /\ Message(2, "other", {}).flags = {}
  BY MessageFields
<1>3. Clear BY <1>2 DEF Init, InitialBox, Clear, Junk, Boxes
<1> QED BY <1>1, <1>3 DEF Unambiguous

\* Nothing makes a message both, but a STORE that comes late.
LEMMA NextUnambiguous ==
  ASSUME Base, Base', Identities, Unambiguous, [Next]_vars
  PROVE  Unambiguous'
<1>1. ASSUME NEW p \in Procs, Step(p) PROVE Unambiguous'
 <2>1. Frame(p) /\ Asks /\ Serves(p) BY <1>1, StepDoes
 <2> SUFFICES ASSUME ~lateRan PROVE Clear' /\ \A q \in Procs : Planned(q)'
   BY <2>1 DEF Unambiguous, Asks
 <2>2. Clear /\ \A q \in Procs : Planned(q) BY DEF Unambiguous
 <2>3. Clear' BY <2>1, <2>2, StepJunk
 <2>4. Planned(p)' BY <1>1, <2>2, StepPlanned
 <2>5. ASSUME NEW q \in Procs \ {p} PROVE Planned(q)'
  <3>1. pc'[q] = pc[q] /\ job'[q] = job[q] /\ KeepsRequest(q) BY <2>1 DEF Frame, KeepsRequest
  <3> SUFFICES ASSUME pc[q] \in {"store", "fetch"} PROVE Planned(q)' BY <3>1 DEF Planned
  <3>2. lock = q BY DEF Base, Holder, Critical, Steps
  <3>3. pc[p] \notin Sending BY <3>2 DEF Base, Holder, Critical, Steps, Sending
  <3>4. box' = box /\ validity' = validity BY <2>1, <3>3 DEF Serves, Ignore, server
  <3>5. Mine(q)' = Mine(q) BY <3>1, <3>4, SameMine
  <3> QED BY <2>2, <3>1, <3>5, PlanKept
 <2> QED BY <2>3, <2>4, <2>5
<1>2. CASE LateExecution
 <2>1. Stays BY <1>2, LateDoes
 <2>2. PICK c \in late : \/ Execute(c) /\ lateRan' = TRUE
                         \/ Ignore /\ lateRan' = lateRan BY <1>2, LateDoes
 <2>3. CASE lateRan' = TRUE BY <2>3 DEF Unambiguous
 <2>4. CASE Ignore /\ lateRan' = lateRan
  <3>1. \A b \in Boxes : Fades(b) BY <2>4, SameFades DEF Ignore, server
  <3> QED BY <2>1, <2>4, <3>1, StaysUnambiguous
 <2> QED BY <2>2, <2>3, <2>4
<1>3. ASSUME NEW b \in Boxes, Rebuild(b) PROVE Unambiguous'
 <2>1. /\ validity'[b] > validity[b] /\ Stays /\ lateRan' = lateRan
       /\ \A d \in Boxes \ {b} : box'[d] = box[d] /\ validity'[d] = validity[d]
       /\ \A k \in box'[b] : \E m \in box[b] : k.id = m.id /\ k.flags = m.flags
   BY <1>3, RebuildDoes
 <2>2. \A d \in Boxes : Fades(d) BY <2>1, SameFades DEF Fades
 <2> QED BY <2>1, <2>2, StaysUnambiguous
<1>4. ASSUME NEW b \in Boxes, ForeignClient(b) PROVE Unambiguous'
 <2>1. Stays /\ UNCHANGED <<validity, late, known, felt, touched, lateRan>>
   BY <1>4, ForeignDoes
 <2>2. CASE Delivers(b)
  <3> DEFINE n == Message(next[b], "named", {})
  <3>1. box'[b] = box[b] \cup {n} /\ \A d \in Boxes \ {b} : box'[d] = box[d]
    BY <2>2 DEF Delivers, Put, Base, TypeOK
  <3>2. n.flags = {} BY MessageFields
  <3> HIDE DEF n
  <3>3. \A d \in Boxes : Fades(d) BY <2>1, <3>1, <3>2, SameFades DEF Fades
  <3> QED BY <2>1, <3>3, StaysUnambiguous
 <2>3. ASSUME NEW m \in Holds(b), Removes(b, m) PROVE Unambiguous'
  <3>1. box'[b] = box[b] \ {m} /\ \A d \in Boxes \ {b} : box'[d] = box[d]
    BY <2>3 DEF Removes, Drop, Base, TypeOK
  <3>2. \A d \in Boxes : Fades(d) BY <2>1, <3>1, SameFades DEF Fades
  <3> QED BY <2>1, <3>2, StaysUnambiguous
 <2>4. ASSUME NEW m \in Holds(b), Undeletes(b, m) PROVE Unambiguous'
  <3> DEFINE n == [m EXCEPT !.flags = @ \ {"Deleted"}]
  <3>1. /\ box'[b] = (box[b] \ {m}) \cup {n} /\ \A d \in Boxes \ {b} : box'[d] = box[d]
        /\ m.uid = n.uid BY <2>4 DEF Undeletes, Swap, Base, TypeOK
  <3>2. m \in box[b] BY DEF Holds
  <3>3. n.flags \subseteq m.flags
   <4>1. m \in Messages BY <3>2 DEF Base, TypeOK
   <4> QED BY <4>1 DEF Messages
  <3> HIDE DEF n
  <3>4. \A d \in Boxes : Fades(d) BY <2>1, <3>1, <3>2, <3>3, SameFades DEF Fades
  <3> QED BY <2>1, <3>4, StaysUnambiguous
 <2> QED BY <1>4, <2>2, <2>3, <2>4, ForeignDoes
<1>5. ASSUME Stays, UNCHANGED <<server, lateRan>> PROVE Unambiguous'
 <2>1. \A d \in Boxes : Fades(d) BY <1>5, SameFades DEF server
 <2> QED BY <1>5, <2>1, StaysUnambiguous
<1>6. ASSUME NEW b \in Boxes, Synchronise(b) PROVE Unambiguous' BY <1>5, <1>6, SynchroniseDoes
<1>7. CASE UNCHANGED vars BY <1>5, <1>7 DEF vars, history, Stays
<1> QED BY <1>1, <1>2, <1>3, <1>4, <1>6, <1>7 DEF Next, Environment

-------------------------------------------------------------------------------
(* Unresolved COPYs.                                                       *)

\* What a step leaves of the COPYs whose reply never came.
Minds(p) ==
  \A s : s \in sent' => /\ s \in sent \/ s = Sent(p)
                        /\ s.key \in attempts'[s.by]
                        /\ s.key.id.validity <= validity[s.key.from]
Keeping(p) == Minds(p) /\ Resolving(p)' /\ Looked(p)'

\* Attempts that stay.
LEMMA AttemptsStay ==
  ASSUME Base, Kept, NEW p \in Procs, Frame(p), sent' = sent, attempts[p] \subseteq attempts'[p]
  PROVE  Minds(p)
<1>1. \A s \in sent : s.by \in Procs BY DEF Base, TypeOK, SentKeys
<1> QED BY <1>1 DEF Kept, Frame, Minds

\* An attempt that is over.
LEMMA AttemptDropped ==
  ASSUME Base, Kept, NEW p \in Procs, Frame(p), sent' = sent, Dropped(p),
         Copy(p) => Sent(p) \notin sent
  PROVE  Minds(p)
<1>1. \A s \in sent : s.by \in Procs /\ (s.by = p /\ s.key = Key(p) => s = Sent(p))
  BY DEF Base, TypeOK, SentKeys, Sent
<1>2. \A s \in sent : s.by = p => s.key \in attempts'[p] BY <1>1 DEF Kept, Dropped
<1> QED BY <1>1, <1>2 DEF Kept, Frame, Minds

\* A process without a COPY has none to look for.
LEMMA NoneLooked ==
  ASSUME NEW p \in Procs, pc'[p] = "idle" \/ (~Copy(p)' /\ pc'[p] # "verify")
  PROVE  Resolving(p)' /\ Looked(p)' BY DEF Resolving, Looked, Critical, Steps

\* A COPY goes on to its dispatch.
LEMMA LookedKept ==
  ASSUME NEW p \in Procs, Looked(p), KeepsRequest(p), sent' = sent, attempts' = attempts,
         pc[p] \in {"lock", "guard", "source"}, pc'[p] \in Critical
  PROVE  Resolving(p)' /\ Looked(p)'
<1>1. Asked(p)' = Asked(p) /\ job'[p].target = job[p].target BY DEF KeepsRequest, Asked
<1>2. Key(p)' = Key(p) /\ Sent(p)' = Sent(p) /\ (Copy(p)' <=> Copy(p))
  BY <1>1 DEF Key, Sent, Copy
<1>3. pc'[p] \notin {"resolve", "verify"} BY DEF Critical, Steps
<1> QED BY <1>1, <1>2, <1>3 DEF Looked, Resolving, Critical, Steps

\* A process keeps the attempts it has not resolved, and looks at them.
LEMMA StepKeeping ==
  ASSUME Base, Base', Identities, Kept, NEW p \in Procs, Step(p)
  PROVE  Keeping(p)
<1>0. Frame(p) /\ Resolving(p) /\ Looked(p) BY StepDoes DEF Kept
<1>01. ReadOnly => sent' = sent BY DEF ReadOnly, history
<1>02. ASSUME NEW says, NEW effects, Ends(p, says, effects), Minds(p) PROVE Keeping(p)
  BY <1>02, NoneLooked DEF Ends, Keeping
<1>03. ASSUME sent' = sent, attempts' = attempts PROVE Minds(p) BY <1>0, <1>03, AttemptsStay
<1>04. ASSUME NEW says, NEW effects, Ends(p, says, effects), sent' = sent, attempts' = attempts
       PROVE  Keeping(p) BY <1>02, <1>03, <1>04
<1>05. ASSUME NEW says, NEW effects, Ends(p, says, effects), sent' = sent, Dropped(p),
              pc[p] \in {"lock", "guard", "source", "dispatch"}
       PROVE  Keeping(p)
 <2>1. Minds(p) BY <1>0, <1>05, AttemptDropped DEF Looked
 <2> QED BY <1>02, <1>05, <2>1
<1>06. ASSUME sent' = sent, attempts' = attempts, KeepsRequest(p),
              pc[p] \in {"lock", "guard", "source"}, pc'[p] \in Critical
       PROVE  Keeping(p) BY <1>0, <1>03, <1>06, LookedKept DEF Keeping
<1>07. ASSUME NEW step, Goes(p, step), step # "verify", KeepsRequest(p), ~Copy(p), sent' = sent,
              attempts' = attempts
       PROVE  Keeping(p)
 <2>1. ~Copy(p)' BY <1>07 DEF KeepsRequest, Copy, Asked
 <2> QED BY <1>03, <1>07, <2>1, NoneLooked DEF Goes, Keeping
<1>08. job'[p] = job[p] => KeepsRequest(p) BY DEF KeepsRequest
<1>09. pc[p] \in {"absent", "arrived", "again", "store", "fetch", "expunge", "expunged"} => ~Copy(p)
  BY DEF Base, Shape, Move, Copy
<1>010. Move(p) => ~Copy(p) BY DEF Move, Copy
<1>1. ASSUME NEW r \in Requests, Begin(p, r) PROVE Keeping(p)
 <2>1. /\ pc'[p] = "resolve" /\ job'[p] = NewJob(r) /\ sent' = sent /\ attempts' = attempts
   BY <1>01, <1>1, BeginDoes
 <2>2. ~job'[p].retried
  <3>1. r \in RequestRecord \cup {NoRequest} BY <1>1, MutationAssumption
  <3>2. NewJob(r).retried = FALSE BY <3>1, NewJobType
  <3> QED BY <2>1, <3>2
 <2>3. Resolving(p)' /\ Looked(p)' BY <2>1, <2>2 DEF Resolving, Looked, Critical, Steps
 <2> QED BY <1>03, <2>1, <2>3 DEF Keeping
<1>2. CASE Resolve(p)
 <2>0. pc[p] = "resolve" /\ sent' = sent BY <1>01, <1>2, ResolveDoes
 <2>1. ASSUME NEW t \in Targets, t \in Resolved(p), job'[p].target = t,
              attempts'[p] = IF Copy(p) /\ job[p].retried
                             THEN attempts[p] \cup {[Key(p) EXCEPT !.id = t]}
                             ELSE attempts[p],
              job'[p].ask = job[p].ask, job'[p].retried = job[p].retried,
              Goes(p, IF Copy(p) /\ ~job[p].retried THEN "attempt" ELSE "lock")
       PROVE  Keeping(p)
  <3>1. Minds(p) BY <1>0, <2>0, <2>1, AttemptsStay
  <3>2. Asked(p)' = Asked(p) /\ (Copy(p)' <=> Copy(p)) BY <2>1 DEF Asked, Copy
  <3>3. pc'[p] = IF Copy(p) /\ ~job[p].retried THEN "attempt" ELSE "lock" BY <2>1 DEF Goes
  <3>4. CASE ~Copy(p) BY <3>1, <3>2, <3>3, <3>4, NoneLooked DEF Keeping
  <3>5. CASE Copy(p)
   <4>1. PICK b, k : /\ b = Asked(p).from
                     /\ k = [from |-> Asked(p).from, to |-> Asked(p).to, id |-> t] OBVIOUS
   <4>2. b \in Boxes BY <4>1, AskedType
   <4>3. Key(p)' = k /\ [Key(p) EXCEPT !.id = t] = k BY <2>1, <3>2, <4>1 DEF Key
   <4>4. Sent(p)' = [by |-> p, key |-> k] BY <4>3 DEF Sent
   <4>5. IF Asked(p).pinned THEN t = Pinned ELSE t.validity = validity[b]
     BY <2>1, <4>1 DEF Resolved
   <4>6. \A s \in sent : s.by = p /\ s.key.from = b => s.key.id.validity <= validity[b]
     BY DEF Kept
   <4>7. IF Asked(p)'.pinned THEN job'[p].target = Pinned
         ELSE \A s \in sent' : s.by = p /\ s.key.from = Asked(p)'.from =>
                s.key.id.validity <= job'[p].target.validity
     BY <2>0, <2>1, <3>2, <4>1, <4>5, <4>6
   <4>8. CASE ~job[p].retried
    <5>1. pc'[p] = "attempt" BY <3>3, <3>5, <4>8
    <5> QED BY <3>1, <4>7, <5>1 DEF Keeping, Resolving, Looked, Critical, Steps
   <4>9. CASE job[p].retried
    <5>1. pc'[p] = "lock" /\ k \in attempts'[p] BY <2>1, <3>3, <3>5, <4>3, <4>9
    <5>2. [by |-> p, key |-> k] \notin sent
     <6>1. CASE Asked(p).pinned BY <1>0, <2>0, <3>5, <4>1, <4>5, <4>9, <6>1 DEF Resolving
     <6>2. CASE ~Asked(p).pinned
      <7>1. \A s \in sent : s.by = p /\ s.key.from = b => s.key.id.validity < validity[b]
        BY <1>0, <2>0, <3>5, <4>1, <4>9, <6>2 DEF Resolving
      <7>2. t.validity = validity[b] /\ validity[b] \in Nat
        BY <4>2, <4>5, <6>2 DEF Base, TypeOK
      <7> QED BY <4>1, <7>1, <7>2
     <6> QED BY <6>1, <6>2
    <5> QED BY <2>0, <3>1, <4>3, <4>4, <4>7, <5>1, <5>2
            DEF Keeping, Resolving, Looked, Critical, Steps
   <4> QED BY <4>8, <4>9
  <3> QED BY <3>4, <3>5
 <2> QED BY <1>04, <1>2, <2>0, <2>1, ResolveDoes
<1>3. CASE Attempt(p)
 <2>1. CASE /\ Goes(p, "lock") /\ job'[p] = job[p] /\ Noted(p) /\ Key(p) \notin attempts[p]
            /\ pc[p] = "attempt" /\ sent' = sent
  <3>1. Minds(p) BY <1>0, <2>1, AttemptsStay DEF Noted
  <3>2. Copy(p) BY <2>1 DEF Base, Shape
  <3>3. Sent(p) \notin sent BY <2>1 DEF Kept, Sent
  <3>4. /\ Asked(p)' = Asked(p) /\ Key(p)' = Key(p) /\ Sent(p)' = Sent(p)
    BY <2>1 DEF Asked, Key, Sent
  <3>5. pc'[p] = "lock" /\ Key(p) \in attempts'[p] BY <2>1 DEF Goes, Noted
  <3>6. Looked(p)' /\ Resolving(p)'
    BY <1>0, <2>1, <3>2, <3>3, <3>4, <3>5 DEF Looked, Resolving, Critical, Steps
  <3> QED BY <3>1, <3>6 DEF Keeping
 <2> QED BY <1>01, <1>04, <1>3, <2>1, AttemptDoes
<1>4. CASE Acquire(p)
 <2>1. CASE /\ Goes(p, IF ~Mark(p) /\ Asked(p).named THEN "guard" ELSE "source")
            /\ job'[p] = job[p] /\ attempts' = attempts /\ pc[p] = "lock" /\ sent' = sent
  <3>1. pc'[p] \in Critical BY <2>1 DEF Goes, Critical, Steps
  <3> QED BY <1>06, <1>08, <2>1, <3>1
 <2> QED BY <1>01, <1>05, <1>4, <2>1, AcquireDoes DEF Refused
<1>5. CASE Guard(p)
 <2>1. CASE /\ Goes(p, "source") /\ KeepsRequest(p) /\ attempts' = attempts
            /\ pc[p] = "guard" /\ sent' = sent
  <3>1. pc'[p] \in Critical BY <2>1 DEF Goes, Critical, Steps
  <3> QED BY <1>06, <2>1, <3>1
 <2> QED BY <1>01, <1>05, <1>5, <2>1, GuardDoes
<1>6. CASE Source(p)
 <2>0. pc[p] = "source" /\ sent' = sent BY <1>01, <1>6, SourceDoes
 <2>1. ASSUME NEW step \in {"dispatch", "store"}, Goes(p, step), KeepsRequest(p),
              attempts' = attempts
       PROVE  Keeping(p)
  <3>1. pc'[p] \in Critical BY <2>1 DEF Goes, Critical, Steps
  <3> QED BY <1>06, <2>0, <2>1, <3>1
 <2>2. CASE /\ Goes(p, "resolve") /\ Dropped(p)
            /\ job'[p] = [NewJob(Asked(p)) EXCEPT !.retried = TRUE]
            /\ (job[p].target.validity = 0 \/ job[p].target.validity # validity[Asked(p).from])
  <3>1. Minds(p) BY <1>0, <2>0, <2>2, AttemptDropped DEF Looked
  <3>2. Asked(p)' = Asked(p)
   <4>1. Asked(p) \in RequestRecord BY <2>0, RealRequest
   <4>2. NewJob(Asked(p)).ask = Asked(p) /\ NewJob(Asked(p)) \in Jobs BY <4>1, NewJobType
   <4> QED BY <2>2, <4>2 DEF Asked, Jobs
  <3>3. pc'[p] = "resolve" BY <2>2 DEF Goes
  <3>4. Looked(p)' BY <3>3 DEF Looked, Critical, Steps
  <3>5. ASSUME Copy(p)
        PROVE  IF Asked(p).pinned
               THEN [by |-> p, key |-> [from |-> Asked(p).from, to |-> Asked(p).to,
                                        id |-> Pinned]] \notin sent
               ELSE \A s \in sent : s.by = p /\ s.key.from = Asked(p).from =>
                      s.key.id.validity < validity[Asked(p).from]
   <4>1. IF Asked(p).pinned THEN job[p].target = Pinned
         ELSE \A s \in sent : s.by = p /\ s.key.from = Asked(p).from =>
                s.key.id.validity <= job[p].target.validity
     BY <1>0, <2>0, <3>5 DEF Looked, Critical, Steps
   <4>2. CASE Asked(p).pinned
    <5>1. Sent(p) \notin sent BY <1>0, <2>0, <3>5 DEF Looked
    <5> QED BY <4>1, <4>2, <5>1 DEF Sent, Key
   <4>3. CASE ~Asked(p).pinned
    <5>1. PICK b, v : b = Asked(p).from /\ v = job[p].target.validity OBVIOUS
    <5>2. b \in Boxes /\ v \in Nat BY <5>1, AskedType DEF Targets
    <5>3. validity[b] \in Nat \ {0} BY <5>2 DEF Base, TypeOK
    <5>4. v < validity[b]
     <6>1. v <= validity[b] BY <5>1 DEF Identities, Names
     <6> QED BY <2>2, <5>1, <5>2, <5>3, <6>1
    <5>5. \A s \in sent : s.key.id.validity \in Nat
      BY DEF Base, TypeOK, SentKeys, Keys, Targets
    <5> QED BY <4>1, <4>3, <5>1, <5>2, <5>3, <5>4, <5>5
   <4> QED BY <4>2, <4>3
  <3>6. validity' = validity BY <1>6, SourceDoes DEF ReadOnly, server
  <3>7. Copy(p)' <=> Copy(p) BY <3>2 DEF Copy
  <3>8. Resolving(p)' BY <2>0, <3>2, <3>5, <3>6, <3>7 DEF Resolving
  <3> QED BY <3>1, <3>4, <3>8 DEF Keeping
 <2> QED BY <1>04, <1>05, <1>6, <2>0, <2>1, <2>2, SourceDoes DEF Refused
<1>7. CASE DispatchCopy(p)
 <2>0. pc[p] = "dispatch" /\ Copy(p) BY <1>7, DispatchCopyDoes
 <2>1. ASSUME Goes(p, "verify"), KeepsRequest(p), attempts' = attempts,
              \/ sent' = sent
              \/ sent' = sent \cup {Sent(p)} /\ job'[p].outcome = "unknown"
       PROVE  Keeping(p)
  <3>1. /\ Asked(p)' = Asked(p) /\ job'[p].target = job[p].target /\ Sent(p)' = Sent(p)
    BY <2>1 DEF KeepsRequest, Asked, Key, Sent
  <3>2. pc'[p] = "verify" BY <2>1 DEF Goes
  <3>3. /\ Sent(p) \notin sent /\ Key(p) \in attempts[p]
        /\ IF Asked(p).pinned THEN job[p].target = Pinned
           ELSE \A s \in sent : s.by = p /\ s.key.from = Asked(p).from =>
                  s.key.id.validity <= job[p].target.validity
    BY <1>0, <2>0 DEF Looked, Critical, Steps
  <3>4. /\ Sent(p).by = p /\ Sent(p).key = Key(p) /\ Key(p).from = Asked(p).from
        /\ Key(p).id = job[p].target BY DEF Sent, Key
  <3>5. job[p].target.validity <= validity[Asked(p).from] BY DEF Identities, Names
  <3>6. job[p].target.validity <= job[p].target.validity BY AskedType DEF Targets
  <3>7. Minds(p)
   <4>1. sent' = sent => Minds(p) BY <1>03, <2>1
   <4>2. ASSUME sent' = sent \cup {Sent(p)} PROVE Minds(p)
     BY <2>1, <3>3, <3>4, <3>5, <4>2 DEF Minds, Kept
   <4> QED BY <2>1, <4>1, <4>2
  <3>8. IF Asked(p)'.pinned THEN job'[p].target = Pinned
        ELSE \A s \in sent' : s.by = p /\ s.key.from = Asked(p)'.from =>
               s.key.id.validity <= job'[p].target.validity BY <2>1, <3>1, <3>3, <3>4, <3>6
  <3>9. job'[p].outcome = "completed" => Sent(p)' \notin sent' BY <2>1, <3>1, <3>3
  <3>10. Looked(p)' /\ Resolving(p)' BY <3>2, <3>8, <3>9 DEF Looked, Resolving, Critical, Steps
  <3> QED BY <3>7, <3>10 DEF Keeping
 <2> QED BY <1>05, <1>7, <2>0, <2>1, DispatchCopyDoes DEF Refused
<1>8. CASE VerifyCopy(p)
 <2>0. pc[p] = "verify" /\ sent' = sent BY <1>01, <1>8, VerifyCopyDoes
 <2>1. CASE Ends(p, "completed", {"copy"}) /\ Dropped(p) /\ job[p].outcome = "completed"
  <3>1. Minds(p) BY <1>0, <2>0, <2>1, AttemptDropped DEF Looked
  <3> QED BY <1>02, <2>1, <3>1
 <2>2. CASE Ends(p, "unknown", {}) /\ Noted(p)
  <3>1. Minds(p) BY <1>0, <2>0, <2>2, AttemptsStay DEF Noted
  <3> QED BY <1>02, <2>2, <3>1
 <2> QED BY <1>8, <2>1, <2>2, VerifyCopyDoes
<1>9. CASE DispatchMove(p) BY <1>04, <1>05, <1>07, <1>010, <1>9, DispatchMoveDoes DEF Refused
<1>10. CASE CheckAbsent(p) BY <1>01, <1>04, <1>07, <1>09, <1>10, CheckAbsentDoes
<1>11. CASE CheckArrived(p) BY <1>01, <1>04, <1>07, <1>09, <1>11, CheckArrivedDoes
<1>12. CASE FallbackCopy(p)
  BY <1>04, <1>05, <1>07, <1>08, <1>010, <1>12, FallbackCopyDoes DEF Refused
<1>13. CASE SourceAgain(p) BY <1>01, <1>04, <1>07, <1>09, <1>13, SourceAgainDoes
<1>14. ASSUME pc[p] \in {"store", "fetch"}, NEW flags, Observed(p, flags), sent' = sent,
              attempts' = attempts
       PROVE  Keeping(p) BY <1>04, <1>07, <1>09, <1>14 DEF Observed
<1>15. CASE Store(p) BY <1>04, <1>07, <1>08, <1>09, <1>14, <1>15, StoreDoes
<1>16. CASE Fetch(p) BY <1>01, <1>04, <1>14, <1>16, FetchDoes
<1>17. CASE Expunge(p) BY <1>04, <1>07, <1>08, <1>09, <1>17, ExpungeDoes
<1>18. CASE CheckExpunged(p) BY <1>01, <1>04, <1>18, CheckExpungedDoes
<1>19. CASE Kill(p)
 <2>1. /\ pc'[p] = "idle" /\ sent' = {s \in sent : s.by # p} BY <1>19, KillDoes
 <2>2. \A s \in sent : s.by \in Procs BY DEF Base, TypeOK, SentKeys
 <2>3. Minds(p) BY <1>0, <2>1, <2>2 DEF Kept, Frame, Minds
 <2> QED BY <2>1, <2>3, NoneLooked DEF Keeping
<1> QED BY <1>1, <1>2, <1>3, <1>4, <1>5, <1>6, <1>7, <1>8, <1>9, <1>10, <1>11, <1>12, <1>13,
<1>15, <1>16, <1>17, <1>18, <1>19 DEF Step

\* Initially no COPY was sent.
LEMMA InitKept == Init => Kept
<1> SUFFICES ASSUME Init PROVE Kept OBVIOUS
<1>1. sent = {} /\ \A p \in Procs : pc[p] = "idle" BY DEF Init
<1> QED BY <1>1 DEF Kept, Resolving, Looked, Critical, Steps

\* While no process sends, what is known of the COPYs sent stays known.
LEMMA StaysKept ==
  ASSUME Base, Kept, Stays, \A b \in Boxes : validity[b] <= validity'[b] /\ validity'[b] \in Nat
  PROVE  Kept'
<1>1. /\ pc' = pc /\ job' = job /\ sent' = sent /\ attempts' = attempts BY DEF Stays, worker
<1>2. \A s \in sent : s.key.from \in Boxes /\ s.key.id.validity \in Nat
  BY DEF Base, TypeOK, SentKeys, Keys, Targets
<1>3. \A b \in Boxes : validity[b] \in Nat BY DEF Base, TypeOK
<1>4. \A s \in sent' : s.key \in attempts'[s.by] /\ s.key.id.validity <= validity'[s.key.from]
  BY <1>1, <1>2, <1>3 DEF Kept
<1>5. ASSUME NEW p \in Procs PROVE Resolving(p)' /\ Looked(p)'
 <2>1. Resolving(p) /\ Looked(p) BY DEF Kept
 <2>2. /\ Asked(p)' = Asked(p) /\ Key(p)' = Key(p) /\ Sent(p)' = Sent(p)
       /\ (Copy(p)' <=> Copy(p)) BY <1>1 DEF Asked, Key, Sent, Copy
 <2>3. Looked(p)' BY <1>1, <2>1, <2>2 DEF Looked
 <2>4. PICK b : b = Asked(p).from OBVIOUS
 <2>5. b \in Boxes BY <2>4, AskedType
 <2>6. \A s \in sent : s.key.id.validity < validity[b] => s.key.id.validity < validity'[b]
   BY <1>2, <1>3, <2>5
 <2>7. Resolving(p)' BY <1>1, <2>1, <2>2, <2>4, <2>6 DEF Resolving
 <2> QED BY <2>3, <2>7
<1> QED BY <1>4, <1>5 DEF Kept

\* Unresolved COPYs are kept track of in every step.
LEMMA NextKept ==
  ASSUME Base, Base', Identities, Kept, [Next]_vars
  PROVE  Kept'
<1>0. \A b \in Boxes : validity[b] \in Nat /\ validity'[b] \in Nat BY DEF Base, TypeOK
<1>1. ASSUME NEW p \in Procs, Step(p) PROVE Kept'
 <2>1. Frame(p) /\ Keeping(p) BY <1>1, StepDoes, StepKeeping
 <2>2. validity' = validity BY <1>1, StepDoes, ServesSound
 <2>3. \A s : s \in sent' =>
         /\ s \in sent \/ s = Sent(p)
         /\ s.key \in attempts'[s.by] /\ s.key.id.validity <= validity'[s.key.from]
   BY <2>1, <2>2 DEF Keeping, Minds
 <2>4. ASSUME NEW q \in Procs, q # p PROVE Resolving(q)' /\ Looked(q)'
  <3>1. Resolving(q) /\ Looked(q) BY DEF Kept
  <3>2. pc'[q] = pc[q] /\ job'[q] = job[q] /\ attempts'[q] = attempts[q]
    BY <2>1, <2>4 DEF Frame
  <3>3. /\ Asked(q)' = Asked(q) /\ Key(q)' = Key(q) /\ Sent(q)' = Sent(q)
        /\ (Copy(q)' <=> Copy(q)) BY <3>2 DEF Asked, Key, Sent, Copy
  <3>4. \A s : s \in sent' /\ s.by = q => s \in sent BY <2>3, <2>4 DEF Sent
  <3>5. Sent(q).by = q /\ \A k : [by |-> q, key |-> k].by = q BY DEF Sent
  <3>6. Looked(q)'
   <4>1. Sent(q) \in sent' => Sent(q) \in sent BY <3>4, <3>5
   <4> QED BY <3>1, <3>2, <3>3, <3>4, <4>1 DEF Looked
  <3>7. Resolving(q)' BY <2>2, <3>1, <3>2, <3>3, <3>4, <3>5 DEF Resolving
  <3> QED BY <3>6, <3>7
 <2>5. \A q \in Procs : Resolving(q)' /\ Looked(q)' BY <2>1, <2>4 DEF Keeping
 <2> QED BY <2>3, <2>5 DEF Kept
<1>2. CASE LateExecution
 <2>1. validity' = validity
  <3>1. PICK c \in late : /\ late' = late \ {c} /\ c \in Commands
                          /\ (Arrives(c) => c.from # c.to)
                          /\ \/ Execute(c) /\ lateRan' = TRUE
                             \/ Ignore /\ lateRan' = lateRan BY <1>2, LateDoes
  <3> QED BY <3>1 DEF Execute, Ignore, server
 <2> QED BY <1>0, <1>2, <2>1, LateDoes, StaysKept
<1>3. ASSUME NEW b \in Boxes, Rebuild(b) PROVE Kept'
 <2>1. \A d \in Boxes : validity[d] <= validity'[d] BY <1>0, <1>3, RebuildDoes
 <2> QED BY <1>0, <1>3, <2>1, RebuildDoes, StaysKept
<1>4. ASSUME NEW b \in Boxes, ForeignClient(b) PROVE Kept'
  BY <1>0, <1>4, ForeignDoes, StaysKept
<1>5. ASSUME NEW b \in Boxes, Synchronise(b) PROVE Kept'
  BY <1>0, <1>5, SynchroniseDoes, StaysKept DEF server
<1>6. CASE UNCHANGED vars BY <1>0, <1>6, StaysKept DEF vars, server, history, Stays
<1> QED BY <1>1, <1>2, <1>3, <1>4, <1>5, <1>6 DEF Next, Environment

-------------------------------------------------------------------------------
(* The invariant, and what follows from it.                                *)

IInv == Base /\ Identities /\ Requested /\ Copies /\ Safe /\ Unambiguous /\ Kept

\* A set whose elements are all the same has at most one.
LEMMA SameIsOne ==
  ASSUME NEW S, \A m, n \in S : m = n
  PROVE  Cardinality(S) <= 1 /\ (S # {} => Cardinality(S) = 1)
<1>1. CASE S = {} BY <1>1, FS_EmptySet
<1>2. CASE S # {}
 <2>1. PICK m : S = {m} BY <1>2
 <2> QED BY <2>1, FS_Singleton
<1> QED BY <1>1, <1>2

\* The shape of a state.
LEMMA BaseImplies == Base => MutationInv
<1> SUFFICES ASSUME Base PROVE MutationInv OBVIOUS
<1>1. \A b \in Boxes : \A m \in box[b] : m.uid < next[b] /\ Cardinality(At(b, m.uid)) = 1
 <2> TAKE b \in Boxes
 <2> TAKE m \in box[b]
 <2>1. m \in At(b, m.uid) /\ \A k, l \in At(b, m.uid) : k = l BY DEF At, Base, Numbered
 <2>2. Cardinality(At(b, m.uid)) = 1 BY <2>1, SameIsOne
 <2> QED BY <2>2 DEF Base, Numbered
<1>2. \A p \in Procs : (pc[p] \in Critical) <=> (lock = p) BY DEF Base, Holder
<1>3. \A p \in Procs : pc[p] \in {"store", "fetch"} => job[p].plan # <<>> BY DEF Base, Shape
<1> QED BY <1>1, <1>2, <1>3 DEF Base, TypeOK, MutationInv, Critical

\* The copies, and what reports say of them.
LEMMA CopiesImplies == Copies => OneCopyEach /\ ReportedEffectsHappened
<1> SUFFICES ASSUME Copies PROVE OneCopyEach /\ ReportedEffectsHappened OBVIOUS
<1>1. OneCopyEach
 <2> SUFFICES ASSUME Alone, \A f \in felt : f.named, NEW b \in Boxes
              PROVE  Cardinality(Holds(b)) <= 1 BY DEF OneCopyEach, Alone
 <2>1. \A m, n \in Holds(b) : m = n BY DEF Copies, One
 <2> QED BY <2>1, SameIsOne
<1>2. ReportedEffectsHappened
 <2>1. Alone => \A p \in Procs : Honest(p) BY DEF Copies
 <2> QED BY <2>1 DEF ReportedEffectsHappened, Honest, Alone
<1> QED BY <1>1, <1>2

\* What the runs check follows.
LEMMA IInvImplies ==
  ASSUME IInv
  PROVE  OnlyNamedMessage /\ ReportsHonest /\ MessageKept /\ TransferredOnce
<1>1. OnlyNamedMessage BY DEF IInv, Identities, OnlyNamedMessage
<1>2. ReportsHonest BY CopiesImplies DEF IInv, Requested, ReportsHonest
<1>3. MessageNeverLost BY DEF IInv, Safe, MessageNeverLost, Boxes
<1>4. JunkUnambiguous BY DEF IInv, Unambiguous, Clear, Junk, JunkUnambiguous
<1>5. MessageKept BY <1>3, <1>4, BaseImplies DEF IInv, MessageKept
<1>6. UnresolvedNotResent
 <2>1. \A p \in Procs : Copy(p) /\ pc[p] = "dispatch" => Sent(p) \notin sent
   BY DEF IInv, Kept, Looked
 <2> QED BY <2>1 DEF UnresolvedNotResent, Sent
<1>7. TransferredOnce BY <1>6, CopiesImplies DEF IInv, TransferredOnce
<1> QED BY <1>1, <1>2, <1>5, <1>7

\* The invariant of the mutations, whatever the requests, the processes, the
\* server's capabilities and the faults.
THEOREM MutationInvariant == Spec => []IInv
<1>1. Init => IInv
  BY InitBase, InitIdentities, InitRequested, InitCopies, InitSafe, InitUnambiguous, InitKept
  DEF IInv
<1>2. IInv /\ [Next]_vars => IInv'
 <2> SUFFICES ASSUME IInv, [Next]_vars PROVE IInv' OBVIOUS
 <2>1. Base /\ Identities /\ Requested /\ Copies /\ Safe /\ Unambiguous /\ Kept BY DEF IInv
 <2>2. Base' BY <2>1, NextBase
 <2>3. Identities' BY <2>1, <2>2, NextIdentities
 <2>4. Requested' BY <2>1, <2>2, NextRequested
 <2>5. Copies' BY <2>1, <2>2, NextCopies
 <2>6. Safe' BY <2>1, <2>2, NextSafe
 <2>7. Unambiguous' BY <2>1, <2>2, NextUnambiguous
 <2>8. Kept' BY <2>1, <2>2, NextKept
 <2> QED BY <2>2, <2>3, <2>4, <2>5, <2>6, <2>7, <2>8 DEF IInv
<1> QED BY <1>1, <1>2, PTL DEF Spec

\* No command changes another message than the one asked for, over rebuilds,
\* retries and late commands (checkUIDValidity, resolveAndRetry).
THEOREM OnlyNamedAlways == Spec => []OnlyNamedMessage
<1>1. IInv => OnlyNamedMessage BY IInvImplies
<1> QED BY <1>1, MutationInvariant, PTL

\* A refused request has no effect now nor later, and a reported effect took
\* place (the mutation reports).
THEOREM ReportsAlwaysHonest == Spec => []ReportsHonest
<1>1. IInv => ReportsHonest BY IInvImplies
<1> QED BY <1>1, MutationInvariant, PTL

\* The message is always in a mailbox, its junk flags unambiguous, and one
\* process at a time is at it (moveMessage, setFlagsAndVerify, acquireMutation).
THEOREM MessageAlwaysKept == Spec => []MessageKept
<1>1. IInv => MessageKept BY IInvImplies
<1> QED BY <1>1, MutationInvariant, PTL

\* A transfer makes one copy, and no COPY is repeated whose reply did not
\* come (destinationMatch, copyAttempts).
THEOREM TransferredAlwaysOnce == Spec => []TransferredOnce
<1>1. IInv => TransferredOnce BY IInvImplies
<1> QED BY <1>1, MutationInvariant, PTL
===============================================================================
