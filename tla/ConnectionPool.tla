--------------------------- MODULE ConnectionPool ---------------------------
(***************************************************************************)
(* The IMAP client's sessions for one account: acquiring an operation (the *)
(* account's flock between processes, the weighted gate within one, the    *)
(* lifecycle lock against Close), borrowing or dialling a session, and     *)
(* giving everything back, while other goroutines close the client, change *)
(* the credentials or cancel.  One action per critical section, system     *)
(* call or wait of internal/transport/imapclient/pool.go and               *)
(* mutation_lock_unix.go.                                                  *)
(*                                                                         *)
(* "operations", "connecting" and "dedicated" are counters in the code;    *)
(* here they are the sets of those who counted themselves.                 *)
(***************************************************************************)
EXTENDS Integers, FiniteSets, Sequences

CONSTANTS Clients,   \* imapclient.Client values, one per process
          Ops,       \* goroutines that call a client
          Home,      \* the client each of them calls
          Does,      \* the kinds of calls each of them makes
          NoOp,
          Pools,     \* accountSessionPool objects
          NoPool,
          Conns,     \* connections, pooled or dedicated
          NoConn,
          Limit,     \* connectionLimit()
          MaxCloses, \* bound on Close calls per client
          MaxChanges \* bound on credential changes per client

ASSUME PoolAssumption ==
  /\ Home \in [Ops -> Clients]
  /\ Does \in [Ops -> SUBSET {"read", "mutate", "append", "close", "change"}]
  /\ NoOp \notin Ops /\ NoPool \notin Pools /\ NoConn \notin Conns
  /\ Limit \in Nat \ {0}
  /\ MaxCloses \in Nat /\ MaxChanges \in Nat

VARIABLES
  pc, kind,              \* per goroutine: its step and the call it makes
  seen, cred,            \* generation and credentials its call began with
  code,                  \* error code its call is about to return
  mine, session, drop,   \* pool object, connection, connections to hang up
  canceled, watched,     \* goroutines canceled; those whose watcher runs
  current, gen, creds,   \* per client: pool in the map, generations
  readers, writer,       \* per client: its lifecycle sync.RWMutex
  sessions, connecting, dedicated, operations,   \* per pool object
  gate, queue,           \* per pool object: its semaphore, who waits for it
  open, inUse, invalid,  \* connections that are so
  tag, auth,             \* per connection: its generation and credentials
  flock                  \* who holds the account's mutation lock file

callVars == <<kind, seen, cred, code>>
watchVars == <<canceled, watched>>
clientVars == <<current, gen, creds, readers, writer>>
slotVars == <<sessions, connecting, dedicated>>
gateVars == <<operations, gate, queue>>
connVars == <<open, inUse, invalid, tag, auth>>
vars == <<pc, callVars, mine, session, drop, watchVars, clientVars, slotVars, gateVars,
          connVars, flock>>

Kinds == {"none", "read", "mutate", "append", "close", "change"}
Requests == {"read", "mutate", "append"}
Holding == {"borrow", "evict", "connect", "use", "join", "discard", "undedicate"}
Steps == {"idle", "register", "flock", "gate", "wait", "lifecycle",
          "rgate", "dereg", "unflock", "runlock", "drain", "hangup"} \cup Holding

Init ==
  /\ pc = [o \in Ops |-> "idle"] /\ kind = [o \in Ops |-> "none"]
  /\ seen = [o \in Ops |-> 0] /\ cred = [o \in Ops |-> 0] /\ code = [o \in Ops |-> "none"]
  /\ mine = [o \in Ops |-> NoPool] /\ session = [o \in Ops |-> NoConn]
  /\ drop = [o \in Ops |-> {}]
  /\ canceled = {} /\ watched = {}
  /\ current = [c \in Clients |-> NoPool]
  /\ gen = [c \in Clients |-> 0] /\ creds = [c \in Clients |-> 0]
  /\ readers = [c \in Clients |-> {}] /\ writer = [c \in Clients |-> NoOp]
  /\ sessions = [k \in Pools |-> {}]
  /\ connecting = [k \in Pools |-> {}] /\ dedicated = [k \in Pools |-> {}]
  /\ operations = [k \in Pools |-> {}]
  /\ gate = [k \in Pools |-> {}] /\ queue = [k \in Pools |-> <<>>]
  /\ open = {} /\ inUse = {} /\ invalid = {}
  /\ tag = [n \in Conns |-> 0] /\ auth = [n \in Conns |-> 0]
  /\ flock = NoOp

(***************************************************************************)
(* State functions.                                                        *)
(***************************************************************************)
Mutation(o) == kind[o] \in {"mutate", "append"}
Unlocked(o) == writer[Home[o]] = NoOp            \* RLock does not block

(* Deviation: a mutation weighs 1 too. *)
FitsMutationLight(o, k) == Cardinality(gate[k]) < Limit

(* golang.org/x/sync/semaphore: a read weighs 1, a mutation the whole limit. *)
Fits(o, k) ==
  IF Mutation(o) THEN gate[k] = {}
  ELSE /\ \A x \in gate[k] : ~Mutation(x)
       /\ Cardinality(gate[k]) < Limit

Slots(k) == Cardinality(sessions[k]) + Cardinality(connecting[k]) + Cardinality(dedicated[k])
Room(k) == Slots(k) < Limit
IdleSessions(k) == sessions[k] \ inUse
Stale(n, c) == n \in invalid \/ tag[n] # creds[c]
Reusable(o) == {n \in IdleSessions(mine[o]) : ~Stale(n, Home[o])}

(* A connection or a pool object nobody refers to any more. *)
FreeConn(n) ==
  /\ n \notin open
  /\ \A o \in Ops : session[o] # n /\ n \notin drop[o]
  /\ \A k \in Pools : n \notin sessions[k]
FreePool(k) ==
  /\ \A c \in Clients : current[c] # k
  /\ \A o \in Ops : mine[o] # k

(* removeEmptyPoolLocked drops a pool object without users and sessions. *)
Abandoned(k, users, pooled) ==
  users = {} /\ pooled = {} /\ connecting[k] = {} /\ dedicated[k] = {}

Goto(o, step) == pc' = [pc EXCEPT ![o] = step]
Step(o, from, to) == pc[o] = from /\ Goto(o, to)
Return(o) ==
  /\ Goto(o, "idle")
  /\ kind' = [kind EXCEPT ![o] = "none"]
  /\ seen' = [seen EXCEPT ![o] = 0]
  /\ cred' = [cred EXCEPT ![o] = 0]
  /\ code' = [code EXCEPT ![o] = "none"]

(***************************************************************************)
(* acquireOperation.  The caller's configuration carries the credentials   *)
(* it has loaded before; the lifecycle generation is read under RLock.     *)
(***************************************************************************)
Begin(o, request) ==
  /\ request \in Does[o]
  /\ Step(o, "idle", "register")
  /\ Unlocked(o)
  /\ kind' = [kind EXCEPT ![o] = request]
  /\ seen' = [seen EXCEPT ![o] = gen[Home[o]]]
  /\ cred' = [cred EXCEPT ![o] = creds[Home[o]]]
  /\ UNCHANGED <<code, mine, session, drop, watchVars, clientVars, slotVars, gateVars,
                 connVars, flock>>

(* Counting itself in keeps the pool object in the client's map. *)
Register(o) ==
  /\ Step(o, "register", IF Mutation(o) THEN "flock" ELSE "gate")
  /\ \E k \in Pools :
       /\ \/ k = current[Home[o]] /\ UNCHANGED slotVars
          \/ /\ current[Home[o]] = NoPool /\ FreePool(k)
             /\ sessions' = [sessions EXCEPT ![k] = {}]
             /\ UNCHANGED <<connecting, dedicated>>
       /\ operations' = [operations EXCEPT ![k] = @ \cup {o}]
       /\ current' = [current EXCEPT ![Home[o]] = k]
       /\ mine' = [mine EXCEPT ![o] = k]
  /\ UNCHANGED <<callVars, session, drop, watchVars, gen, creds, readers, writer, gate, queue,
                 connVars, flock>>

LockMutation(o) ==
  /\ Step(o, "flock", "gate")
  /\ flock = NoOp
  /\ flock' = o
  /\ UNCHANGED <<callVars, mine, session, drop, watchVars, clientVars, slotVars, gateVars,
                 connVars>>

(* Canceled, busy for mutationLockMaxWait, or the lock file is unusable. *)
LockRefused(o) ==
  /\ Step(o, "flock", "dereg")
  /\ UNCHANGED <<callVars, mine, session, drop, watchVars, clientVars, slotVars, gateVars,
                 connVars, flock>>

(* semaphore.Acquire: a newcomer never overtakes who waits already. *)
EnterGate(o) ==
  /\ Step(o, "gate", "lifecycle")
  /\ queue[mine[o]] = <<>>
  /\ Fits(o, mine[o])
  /\ gate' = [gate EXCEPT ![mine[o]] = @ \cup {o}]
  /\ UNCHANGED <<callVars, mine, session, drop, watchVars, clientVars, slotVars, operations,
                 queue, connVars, flock>>

Enqueue(o) ==
  /\ Step(o, "gate", "wait")
  /\ queue[mine[o]] # <<>> \/ ~Fits(o, mine[o])
  /\ queue' = [queue EXCEPT ![mine[o]] = Append(@, o)]
  /\ UNCHANGED <<callVars, mine, session, drop, watchVars, clientVars, slotVars, operations,
                 gate, connVars, flock>>

Granted(o) ==
  /\ Step(o, "wait", "lifecycle")
  /\ queue[mine[o]] # <<>> /\ o = Head(queue[mine[o]])
  /\ Fits(o, mine[o])
  /\ queue' = [queue EXCEPT ![mine[o]] = Tail(@)]
  /\ gate' = [gate EXCEPT ![mine[o]] = @ \cup {o}]
  /\ UNCHANGED <<callVars, mine, session, drop, watchVars, clientVars, slotVars, operations,
                 connVars, flock>>

GateCanceled(o) ==
  /\ Step(o, "wait", "dereg")
  /\ LET line == queue[mine[o]] IN
       \E i \in DOMAIN line :
         /\ line[i] = o
         /\ queue' = [queue EXCEPT ![mine[o]] = SubSeq(line, 1, i - 1)
                                                \o SubSeq(line, i + 1, Len(line))]
  /\ UNCHANGED <<callVars, mine, session, drop, watchVars, clientVars, slotVars, operations,
                 gate, connVars, flock>>

(* Deviation: a Close that came in between goes unnoticed. *)
ConfirmLate(o) ==
  /\ Step(o, "lifecycle", "borrow")
  /\ Unlocked(o)
  /\ readers' = [readers EXCEPT ![Home[o]] = @ \cup {o}]
  /\ UNCHANGED <<callVars, mine, session, drop, watchVars, current, gen, creds, writer,
                 slotVars, gateVars, connVars, flock>>

(* Past the gate: the lifecycle lock is kept until release, unless the     *)
(* caller gave up or a Close came in between.                              *)
Confirm(o) ==
  /\ Step(o, "lifecycle", "borrow")
  /\ Unlocked(o)
  /\ seen[o] = gen[Home[o]]
  /\ readers' = [readers EXCEPT ![Home[o]] = @ \cup {o}]
  /\ UNCHANGED <<callVars, mine, session, drop, watchVars, current, gen, creds, writer,
                 slotVars, gateVars, connVars, flock>>

Interrupted(o) ==
  /\ Step(o, "lifecycle", "rgate")
  /\ Unlocked(o)
  /\ seen[o] # gen[Home[o]]
  /\ code' = [code EXCEPT ![o] = "imap_canceled"]
  /\ UNCHANGED <<kind, seen, cred, mine, session, drop, watchVars, clientVars, slotVars,
                 gateVars, connVars, flock>>

(* The caller's context ended while it waited for the lifecycle lock or    *)
(* just before a session was borrowed.                                     *)
GiveUp(o) ==
  /\ \/ Step(o, "lifecycle", "rgate") /\ Unlocked(o)
     \/ Step(o, "borrow", "rgate")
  /\ UNCHANGED <<callVars, mine, session, drop, watchVars, clientVars, slotVars, gateVars,
                 connVars, flock>>

(***************************************************************************)
(* borrowSession.  Two of its branches are not here because they cannot be *)
(* taken: idle sessions are never stale (IdleIsFresh), and who is past the *)
(* gate finds a session or room for one (SlotForGranted).                  *)
(***************************************************************************)
Reuse(o) ==
  /\ Step(o, "borrow", "use") /\ kind[o] # "append"
  /\ \E n \in Reusable(o) :
       /\ inUse' = inUse \cup {n}
       /\ session' = [session EXCEPT ![o] = n]
  /\ watched' = watched \cup {o}
  /\ UNCHANGED <<callVars, mine, drop, canceled, clientVars, slotVars, gateVars,
                 open, invalid, tag, auth, flock>>

(* A new connection o logs in on, tagged with a credential generation.     *)
Open(o, n, generation) ==
  /\ FreeConn(n)
  /\ open' = open \cup {n}
  /\ invalid' = invalid \ {n}
  /\ tag' = [tag EXCEPT ![n] = generation]
  /\ auth' = [auth EXCEPT ![n] = cred[o]]
  /\ session' = [session EXCEPT ![o] = n]

(* A connection nobody will look at again is closed. *)
Shut(n) ==
  /\ open' = open \ {n}
  /\ invalid' = invalid \ {n}
  /\ tag' = [tag EXCEPT ![n] = 0]
  /\ auth' = [auth EXCEPT ![n] = 0]

(* The generation is read when the slot is taken; the credentials the      *)
(* session authenticates with were loaded before the operation began.      *)
Dial(o) ==
  /\ Step(o, "borrow", "connect") /\ kind[o] # "append"
  /\ Reusable(o) = {}
  /\ Room(mine[o])
  /\ \E n \in Conns : Open(o, n, creds[Home[o]])
  /\ connecting' = [connecting EXCEPT ![mine[o]] = @ \cup {o}]
  /\ UNCHANGED <<callVars, mine, drop, watchVars, clientVars, sessions, dedicated, gateVars,
                 inUse, flock>>

Connected(o) ==
  /\ Step(o, "connect", "use")
  /\ connecting' = [connecting EXCEPT ![mine[o]] = @ \ {o}]
  /\ sessions' = [sessions EXCEPT ![mine[o]] = @ \cup {session[o]}]
  /\ inUse' = inUse \cup {session[o]}
  /\ watched' = watched \cup {o}
  /\ UNCHANGED <<callVars, mine, session, drop, canceled, clientVars, dedicated, gateVars,
                 open, invalid, tag, auth, flock>>

ConnectFails(o) ==
  /\ Step(o, "connect", "rgate")
  /\ connecting' = [connecting EXCEPT ![mine[o]] = @ \ {o}]
  /\ Shut(session[o])
  /\ session' = [session EXCEPT ![o] = NoConn]
  /\ UNCHANGED <<callVars, mine, drop, watchVars, clientVars, sessions, dedicated, gateVars,
                 inUse, flock>>

(***************************************************************************)
(* acquireDedicated: AppendToSent's own connection takes a slot, for which *)
(* an idle session may have to go.                                         *)
(***************************************************************************)
(* Deviation: the evicted session is closed in the background. *)
EvictInBackground(o) ==
  /\ Step(o, "borrow", "borrow") /\ kind[o] = "append"
  /\ ~Room(mine[o])
  /\ \E n \in IdleSessions(mine[o]) :
       /\ sessions' = [sessions EXCEPT ![mine[o]] = @ \ {n}]
       /\ drop' = [drop EXCEPT ![o] = {n}]
  /\ UNCHANGED <<callVars, mine, session, watchVars, clientVars, connecting, dedicated,
                 gateVars, connVars, flock>>

Reserve(o) ==
  /\ Step(o, "borrow", "use") /\ kind[o] = "append"
  /\ Room(mine[o])
  /\ dedicated' = [dedicated EXCEPT ![mine[o]] = @ \cup {o}]
  /\ \E n \in Conns : Open(o, n, 0)
  /\ UNCHANGED <<callVars, mine, drop, watchVars, clientVars, sessions, connecting, gateVars,
                 inUse, flock>>

EvictIdle(o) ==
  /\ Step(o, "borrow", "evict") /\ kind[o] = "append"
  /\ ~Room(mine[o])
  /\ \E n \in IdleSessions(mine[o]) :
       /\ sessions' = [sessions EXCEPT ![mine[o]] = @ \ {n}]
       /\ drop' = [drop EXCEPT ![o] = {n}]
  /\ UNCHANGED <<callVars, mine, session, watchVars, clientVars, connecting, dedicated,
                 gateVars, connVars, flock>>

DoneAppend(o) ==
  /\ Step(o, "use", "undedicate") /\ kind[o] = "append"
  /\ Shut(session[o])
  /\ session' = [session EXCEPT ![o] = NoConn]
  /\ UNCHANGED <<callVars, mine, drop, watchVars, clientVars, slotVars, gateVars,
                 inUse, flock>>

Unreserve(o) ==
  /\ Step(o, "undedicate", "rgate")
  /\ dedicated' = [dedicated EXCEPT ![mine[o]] = @ \ {o}]
  /\ UNCHANGED <<callVars, mine, session, drop, watchVars, clientVars, sessions, connecting,
                 gateVars, connVars, flock>>

(***************************************************************************)
(* A borrowed session: the caller may be canceled, the watcher then closes *)
(* the connection it captured; release joins the watcher before it gives   *)
(* the session back or drops it.                                           *)
(***************************************************************************)
Cancel(o) ==
  /\ pc[o] \in {"use", "join"} /\ kind[o] # "append"
  /\ o \notin canceled
  /\ canceled' = canceled \cup {o}
  /\ UNCHANGED <<pc, callVars, mine, session, drop, watched, clientVars, slotVars, gateVars,
                 connVars, flock>>

WatcherCloses(o) ==
  /\ o \in watched /\ o \in canceled
  /\ open' = open \ {session[o]}
  /\ watched' = watched \ {o}
  /\ UNCHANGED <<pc, callVars, mine, session, drop, canceled, clientVars, slotVars, gateVars,
                 inUse, invalid, tag, auth, flock>>

Done(o) ==
  /\ Step(o, "use", "join") /\ kind[o] # "append"
  /\ UNCHANGED <<callVars, mine, session, drop, watchVars, clientVars, slotVars, gateVars,
                 connVars, flock>>

WatcherStops(o) ==
  /\ pc[o] = "join" /\ o \in watched
  /\ watched' = watched \ {o}
  /\ UNCHANGED <<pc, callVars, mine, session, drop, canceled, clientVars, slotVars, gateVars,
                 connVars, flock>>

(* Deviation: stale and closed sessions are given back like any other. *)
GiveBackAnyway(o) ==
  /\ Step(o, "join", "rgate") /\ o \notin watched
  /\ inUse' = inUse \ {session[o]}
  /\ session' = [session EXCEPT ![o] = NoConn]
  /\ UNCHANGED <<callVars, mine, drop, watchVars, clientVars, slotVars, gateVars,
                 open, invalid, tag, auth, flock>>

GiveBack(o) ==
  /\ Step(o, "join", "rgate") /\ o \notin watched
  /\ o \notin canceled /\ ~Stale(session[o], Home[o])
  /\ inUse' = inUse \ {session[o]}
  /\ session' = [session EXCEPT ![o] = NoConn]
  /\ UNCHANGED <<callVars, mine, drop, watchVars, clientVars, slotVars, gateVars,
                 open, invalid, tag, auth, flock>>

(* Stale and canceled sessions go, and those an I/O error left dirty, which *)
(* any of them may be.                                                      *)
Discard(o) ==
  /\ Step(o, "join", "discard") /\ o \notin watched
  /\ sessions' = [sessions EXCEPT ![mine[o]] = @ \ {session[o]}]
  /\ inUse' = inUse \ {session[o]}
  /\ drop' = [drop EXCEPT ![o] = {session[o]}]
  /\ session' = [session EXCEPT ![o] = NoConn]
  /\ canceled' = canceled \ {o}
  /\ UNCHANGED <<callVars, mine, watched, clientVars, connecting, dedicated, gateVars,
                 open, invalid, tag, auth, flock>>

(***************************************************************************)
(* releaseOperation and the end of an operation.                           *)
(***************************************************************************)
ReleaseGate(o) ==
  /\ Step(o, "rgate", "dereg")
  /\ gate' = [gate EXCEPT ![mine[o]] = @ \ {o}]
  /\ UNCHANGED <<callVars, mine, session, drop, watchVars, clientVars, slotVars, operations,
                 queue, connVars, flock>>

(* releaseOperationState: the last one out takes the pool from the map. *)
Deregister(o) ==
  /\ Step(o, "dereg", IF Mutation(o) THEN "unflock" ELSE "runlock")
  /\ LET k == mine[o]
         users == operations[k] \ {o}
     IN /\ operations' = [operations EXCEPT ![k] = users]
        /\ current' = [current EXCEPT ![Home[o]] =
                         IF @ = k /\ Abandoned(k, users, sessions[k]) THEN NoPool ELSE @]
  /\ mine' = [mine EXCEPT ![o] = NoPool]
  /\ UNCHANGED <<callVars, session, drop, watchVars, gen, creds, readers, writer, slotVars,
                 gate, queue, connVars, flock>>

Unflock(o) ==
  /\ Step(o, "unflock", "runlock")
  /\ flock' = IF flock = o THEN NoOp ELSE flock
  /\ UNCHANGED <<callVars, mine, session, drop, watchVars, clientVars, slotVars, gateVars,
                 connVars>>

RUnlock(o) ==
  /\ pc[o] = "runlock"
  /\ Return(o)
  /\ readers' = [readers EXCEPT ![Home[o]] = @ \ {o}]
  /\ UNCHANGED <<mine, session, drop, watchVars, current, gen, creds, writer, slotVars,
                 gateVars, connVars, flock>>

(***************************************************************************)
(* Close: the pending writer of the lifecycle lock keeps new readers out;  *)
(* when the last one has left, the generation changes and the pools go.    *)
(* Their sessions are logged out after the lock was given up.              *)
(***************************************************************************)
BeginClose(o) ==
  /\ "close" \in Does[o]
  /\ Step(o, "idle", "drain")
  /\ Unlocked(o)
  /\ gen[Home[o]] < MaxCloses
  /\ writer' = [writer EXCEPT ![Home[o]] = o]
  /\ kind' = [kind EXCEPT ![o] = "close"]
  /\ UNCHANGED <<seen, cred, code, mine, session, drop, watchVars, current, gen, creds,
                 readers, slotVars, gateVars, connVars, flock>>

Drained(o) == readers[Home[o]] = {}
Pooled(c) == IF current[c] = NoPool THEN {} ELSE sessions[current[c]]

Drain(o) ==
  /\ Step(o, "drain", "hangup")
  /\ Drained(o)
  /\ drop' = [drop EXCEPT ![o] = Pooled(Home[o])]
  /\ sessions' = [k \in Pools |-> IF k = current[Home[o]] THEN {} ELSE sessions[k]]
  /\ gen' = [gen EXCEPT ![Home[o]] = @ + 1]
  /\ current' = [current EXCEPT ![Home[o]] = NoPool]
  /\ writer' = [writer EXCEPT ![Home[o]] = NoOp]
  /\ UNCHANGED <<callVars, mine, session, watchVars, creds, readers, connecting, dedicated,
                 gateVars, connVars, flock>>

(* InvalidateCredentials: idle sessions go, sessions in use are marked. *)
Invalidate(o) ==
  /\ "change" \in Does[o]
  /\ Step(o, "idle", "hangup")
  /\ creds[Home[o]] < MaxChanges
  /\ creds' = [creds EXCEPT ![Home[o]] = @ + 1]
  /\ kind' = [kind EXCEPT ![o] = "change"]
  /\ LET k == current[Home[o]]
         pooled == Pooled(Home[o])
     IN /\ drop' = [drop EXCEPT ![o] = pooled \ inUse]
        /\ sessions' = [x \in Pools |-> IF x = k THEN pooled \cap inUse ELSE sessions[x]]
        /\ invalid' = invalid \cup pooled
        /\ current' = [current EXCEPT ![Home[o]] =
                         IF k # NoPool /\ Abandoned(k, operations[k], pooled \cap inUse)
                         THEN NoPool ELSE @]
  /\ UNCHANGED <<seen, cred, code, mine, session, watchVars, gen, readers, writer,
                 connecting, dedicated, gateVars, open, inUse, tag, auth, flock>>

(* Connections are closed one after the other, outside every lock. *)
HangUp(o) ==
  /\ pc[o] \in {"evict", "discard", "hangup"}
  /\ \E n \in drop[o] :
       /\ Shut(n)
       /\ drop' = [drop EXCEPT ![o] = @ \ {n}]
  /\ UNCHANGED <<pc, callVars, mine, session, watchVars, clientVars, slotVars, gateVars,
                 inUse, flock>>

HungUp(o) ==
  /\ drop[o] = {}
  /\ \/ Step(o, "evict", "borrow") /\ UNCHANGED callVars
     \/ Step(o, "discard", "rgate") /\ UNCHANGED callVars
     \/ pc[o] = "hangup" /\ Return(o)
  /\ UNCHANGED <<mine, session, drop, watchVars, clientVars, slotVars, gateVars, connVars,
                 flock>>

(***************************************************************************)
(* Steps an operation takes on its own, and what callers and users do.     *)
(***************************************************************************)
Acquire(o) ==
  \/ Register(o) \/ LockMutation(o) \/ LockRefused(o)
  \/ EnterGate(o) \/ Enqueue(o) \/ Granted(o)
  \/ Confirm(o) \/ Interrupted(o)

Borrow(o) ==
  \/ Reuse(o) \/ Dial(o) \/ Connected(o) \/ ConnectFails(o)
  \/ Reserve(o) \/ EvictIdle(o) \/ HangUp(o) \/ HungUp(o)

Finish(o) ==
  \/ Done(o) \/ WatcherCloses(o) \/ WatcherStops(o) \/ GiveBack(o) \/ Discard(o)
  \/ DoneAppend(o) \/ Unreserve(o)
  \/ ReleaseGate(o) \/ Deregister(o) \/ Unflock(o) \/ RUnlock(o) \/ Drain(o)

Caller(o) ==
  \/ \E request \in Requests : Begin(o, request)
  \/ Cancel(o) \/ GateCanceled(o) \/ GiveUp(o)
  \/ BeginClose(o) \/ Invalidate(o)

Next == \E o \in Ops : Acquire(o) \/ Borrow(o) \/ Finish(o) \/ Caller(o)

Spec == Init /\ [][Next]_vars

(* An operation that began takes its next step: network exchanges have     *)
(* deadlines, the flock is polled for a bounded time, the semaphore is a   *)
(* queue, and sync.RWMutex lets waiting readers in after every writer.     *)
(* Nobody is obliged to cancel.                                            *)
Fairness ==
  \A o \in Ops :
    /\ WF_vars(Acquire(o) \/ Borrow(o) \/ Finish(o))
    /\ SF_vars(Confirm(o) \/ Interrupted(o))

FairSpec == Spec /\ Fairness
=============================================================================
