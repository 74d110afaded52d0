------------------------- MODULE ConnectionPoolProps -------------------------
(***************************************************************************)
(* What the session pool guarantees, and how it keeps the promise of       *)
(* AccountGate.                                                            *)
(***************************************************************************)
EXTENDS ConnectionPool

PoolTypeOK ==
  /\ pc \in [Ops -> Steps] /\ kind \in [Ops -> Kinds]
  /\ seen \in [Ops -> Nat] /\ cred \in [Ops -> Nat]
  /\ code \in [Ops -> {"none", "imap_canceled"}]
  /\ mine \in [Ops -> Pools \cup {NoPool}] /\ session \in [Ops -> Conns \cup {NoConn}]
  /\ drop \in [Ops -> SUBSET Conns]
  /\ canceled \subseteq Ops /\ watched \subseteq Ops
  /\ current \in [Clients -> Pools \cup {NoPool}]
  /\ gen \in [Clients -> Nat] /\ creds \in [Clients -> Nat]
  /\ readers \in [Clients -> SUBSET Ops] /\ writer \in [Clients -> Ops \cup {NoOp}]
  /\ sessions \in [Pools -> SUBSET Conns]
  /\ connecting \in [Pools -> SUBSET Ops] /\ dedicated \in [Pools -> SUBSET Ops]
  /\ operations \in [Pools -> SUBSET Ops] /\ gate \in [Pools -> SUBSET Ops]
  /\ queue \in [Pools -> Seq(Ops)]
  /\ open \subseteq Conns /\ inUse \subseteq Conns /\ invalid \subseteq Conns
  /\ tag \in [Conns -> Nat] /\ auth \in [Conns -> Nat]
  /\ flock \in Ops \cup {NoOp}

Active(o) == pc[o] \in Holding

PastGate == {"lifecycle", "rgate"} \cup Holding
PastFlock == {"gate", "wait"} \cup PastGate
Counted == {"flock", "dereg"} \cup PastFlock

(* An operation counts itself in the pool object it uses, which stays the  *)
(* client's as long as no Close came after the operation began.            *)
Registered ==
  \A o \in Ops :
    /\ seen[o] <= gen[Home[o]]
    /\ pc[o] \in Counted =>
         /\ mine[o] \in Pools /\ o \in operations[mine[o]]
         /\ seen[o] = gen[Home[o]] => mine[o] = current[Home[o]]

(* The gate of a pool object is held by those between it and releaseGate,  *)
(* and by a mutation alone.                                                *)
GateHeld ==
  /\ \A o \in Ops : pc[o] \in PastGate => o \in gate[mine[o]]
  /\ \A k \in Pools : \A o \in gate[k] :
       /\ pc[o] \in PastGate /\ mine[o] = k
       /\ Mutation(o) => gate[k] = {o}

(* An active operation holds the lifecycle lock, and no Close has come in  *)
(* between: it works on the pool its client has now, whose gate is the one *)
(* newcomers meet (pool.go:303).                                           *)
ActiveIsCurrent ==
  \A o \in Ops : Active(o) => o \in readers[Home[o]] /\ seen[o] = gen[Home[o]]

(* A mutation between its flock and its release holds the lock file. *)
MutationLocked ==
  \A o \in Ops : Mutation(o) /\ pc[o] \in PastFlock => flock = o

(* Who has borrowed, dials or reserved has a connection in hand. *)
SessionInHand == \A o \in Ops : pc[o] \in {"connect", "use", "join"} => session[o] \in Conns

(* The inductive invariant behind the gate. *)
GateInv ==
  /\ PoolTypeOK /\ SessionInHand
  /\ Registered /\ GateHeld /\ ActiveIsCurrent /\ MutationLocked

(* A mutation is alone on its account in its process, and no mutation runs *)
(* in another process at that time (operation_contract.go, "exclusive").   *)
MutationAlone ==
  \A o, x \in Ops : o # x /\ Active(o) /\ Active(x) /\ Mutation(o) =>
    Home[x] # Home[o] /\ ~Mutation(x)

(* No pool object ever counts more sessions, connection attempts and       *)
(* dedicated connections than the limit.                                   *)
SlotsBounded == \A k \in Pools : Slots(k) <= Limit

(* No idle session is stale: the eviction in borrowSession (pool.go:408)   *)
(* has nothing to do.                                                      *)
IdleIsFresh == \A c \in Clients : \A n \in Pooled(c) \ inUse : ~Stale(n, c)

(* No idle session is closed: whoever canceled its borrow took it out      *)
(* before the gate let anybody else in (pool.go:463).                      *)
IdleIsOpen == \A k \in Pools : IdleSessions(k) \subseteq open

(* An idle session is one the next borrower may have: authenticated under  *)
(* the current generation and with an open connection.                     *)
IdleIsUsable == IdleIsFresh /\ IdleIsOpen

(* The gate admits only as many as there are slots: who is past it finds   *)
(* a session, room for one, or an idle one to evict, and never waits for   *)
(* "changed" (pool.go:445, 526) while it keeps others out.                 *)
SlotForGranted ==
  \A o \in Ops : pc[o] = "borrow" => Room(mine[o]) \/ IdleSessions(mine[o]) # {}

(* A borrowed connection belongs to one operation, and until that one is   *)
(* canceled nobody closes it: not the watcher of the borrower before, nor  *)
(* a Close, an eviction or a change of credentials.                        *)
BorrowedAlive ==
  \A o \in Ops : session[o] # NoConn =>
    /\ o \in canceled \/ session[o] \in open
    /\ \A x \in Ops : session[o] \notin drop[x] /\ (x # o => session[x] # session[o])

(* No connection is forgotten: an open one is in a current pool, in an     *)
(* operation's hands, or about to be closed by somebody.                   *)
NoLeak ==
  open \subseteq (UNION {Pooled(c) : c \in Clients}) \cup {session[o] : o \in Ops}
                 \cup (UNION {drop[o] : o \in Ops})

(* What the server sees: apart from the connections a Close or a change of *)
(* credentials is hanging up, a client never has more than the limit.      *)
ServerLimit ==
  \A c \in Clients :
    LET ops == {o \in Ops : Home[o] = c /\ pc[o] # "hangup"}
        connected == Pooled(c) \cup {session[o] : o \in ops} \cup UNION {drop[o] : o \in ops}
    IN Cardinality(connected \cap open) <= Limit

(* The connection an operation gets or has is a working one of its own     *)
(* (borrowSession, releaseSession).                                        *)
ConnectionsUsable == IdleIsUsable /\ BorrowedAlive

(* The connections add up: none is forgotten, the server sees no more than *)
(* the limit, and whom the gate lets in finds one (pool.go:373-445).       *)
ConnectionsAccounted == NoLeak /\ ServerLimit /\ SlotForGranted

Access(o) ==
  IF ~Active(o) THEN "none" ELSE IF Mutation(o) THEN "exclusive" ELSE "shared"

Gate == INSTANCE AccountGate WITH access <- [o \in Ops |-> Access(o)]

(* The pool implements the gate it is documented to be. *)
ImplementsGate == Gate!GateSpec

(* Every operation returns: reads cannot starve a mutation at the gate,    *)
(* nor a Close at the lifecycle lock, and nobody waits for ever.           *)
EveryOperationReturns == \A o \in Ops : pc[o] # "idle" ~> pc[o] = "idle"

(* documentation.md:1295: after a change of credentials "the next          *)
(* operation authenticates with current credentials".  An operation that   *)
(* began with the new ones never runs on a session logged in with others.  *)
CurrentCredentials ==
  \A o \in Ops : pc[o] = "use" => auth[session[o]] >= cred[o]
=============================================================================
