------------------------ MODULE ConnectionPoolProofs ------------------------
(***************************************************************************)
(* Proofs about the session pool for any number of processes, goroutines,  *)
(* pool objects and connections and any limit.  GateInv is inductive;      *)
(* hence a mutation has its account for itself, the pool implements        *)
(* AccountGate, and no pool object exceeds the limit.  OwnInv says to whom *)
(* each connection belongs, CountInv how many there are; hence borrowers   *)
(* get working connections, and the connections add up.                    *)
(***************************************************************************)
EXTENDS ConnectionPoolProps, SequenceTheorems, FiniteSetTheorems, TLAPS

(***************************************************************************)
(* Type correctness, action by action.                                     *)
(***************************************************************************)

USE PoolAssumption DEF Requests
USE DEF PoolTypeOK, SessionInHand, Steps, Holding, Kinds, callVars, watchVars, clientVars,
    slotVars, gateVars, connVars

(* LockMutation (lockMutation) keeps the types. *)
LEMMA LockMutationTypes ==
  ASSUME PoolTypeOK, SessionInHand, Registered, NEW o \in Ops, LockMutation(o)
  PROVE  PoolTypeOK' /\ SessionInHand'
BY DEF LockMutation, Step, Goto

(* LockRefused (lockMutation) keeps the types. *)
LEMMA LockRefusedTypes ==
  ASSUME PoolTypeOK, SessionInHand, Registered, NEW o \in Ops, LockRefused(o)
  PROVE  PoolTypeOK' /\ SessionInHand'
BY DEF LockRefused, Step, Goto

(* EnterGate (semaphore.Acquire) keeps the types. *)
LEMMA EnterGateTypes ==
  ASSUME PoolTypeOK, SessionInHand, Registered, NEW o \in Ops, EnterGate(o)
  PROVE  PoolTypeOK' /\ SessionInHand'
BY DEF EnterGate, Step, Goto

(* Confirm (acquireOperation) keeps the types. *)
LEMMA ConfirmTypes ==
  ASSUME PoolTypeOK, SessionInHand, Registered, NEW o \in Ops, Confirm(o)
  PROVE  PoolTypeOK' /\ SessionInHand'
BY DEF Confirm, Step, Goto

(* Interrupted (acquireOperation) keeps the types. *)
LEMMA InterruptedTypes ==
  ASSUME PoolTypeOK, SessionInHand, Registered, NEW o \in Ops, Interrupted(o)
  PROVE  PoolTypeOK' /\ SessionInHand'
BY DEF Interrupted, Step, Goto

(* Connected (borrowSession) keeps the types. *)
LEMMA ConnectedTypes ==
  ASSUME PoolTypeOK, SessionInHand, Registered, NEW o \in Ops, Connected(o)
  PROVE  PoolTypeOK' /\ SessionInHand'
BY DEF Connected, Step, Goto

(* ConnectFails (borrowSession) keeps the types. *)
LEMMA ConnectFailsTypes ==
  ASSUME PoolTypeOK, SessionInHand, Registered, NEW o \in Ops, ConnectFails(o)
  PROVE  PoolTypeOK' /\ SessionInHand'
BY DEF ConnectFails, Step, Goto, Shut

(* HangUp (Close, InvalidateCredentials, releaseSession) keeps the types. *)
LEMMA HangUpTypes ==
  ASSUME PoolTypeOK, SessionInHand, Registered, NEW o \in Ops, HangUp(o)
  PROVE  PoolTypeOK' /\ SessionInHand'
BY DEF HangUp, Shut

(* Done (acquirePooled) keeps the types. *)
LEMMA DoneTypes ==
  ASSUME PoolTypeOK, SessionInHand, Registered, NEW o \in Ops, Done(o)
  PROVE  PoolTypeOK' /\ SessionInHand'
BY DEF Done, Step, Goto

(* WatcherCloses (startCancellationWatcher) keeps the types. *)
LEMMA WatcherClosesTypes ==
  ASSUME PoolTypeOK, SessionInHand, Registered, NEW o \in Ops, WatcherCloses(o)
  PROVE  PoolTypeOK' /\ SessionInHand'
BY DEF WatcherCloses

(* WatcherStops (startCancellationWatcher) keeps the types. *)
LEMMA WatcherStopsTypes ==
  ASSUME PoolTypeOK, SessionInHand, Registered, NEW o \in Ops, WatcherStops(o)
  PROVE  PoolTypeOK' /\ SessionInHand'
BY DEF WatcherStops

(* GiveBack (releaseSession) keeps the types. *)
LEMMA GiveBackTypes ==
  ASSUME PoolTypeOK, SessionInHand, Registered, NEW o \in Ops, GiveBack(o)
  PROVE  PoolTypeOK' /\ SessionInHand'
BY DEF GiveBack, Step, Goto

(* DoneAppend (AppendToSent) keeps the types. *)
LEMMA DoneAppendTypes ==
  ASSUME PoolTypeOK, SessionInHand, Registered, NEW o \in Ops, DoneAppend(o)
  PROVE  PoolTypeOK' /\ SessionInHand'
BY DEF DoneAppend, Step, Goto, Shut

(* Unreserve (acquireDedicated) keeps the types. *)
LEMMA UnreserveTypes ==
  ASSUME PoolTypeOK, SessionInHand, Registered, NEW o \in Ops, Unreserve(o)
  PROVE  PoolTypeOK' /\ SessionInHand'
BY DEF Unreserve, Step, Goto

(* ReleaseGate (releaseOperation) keeps the types. *)
LEMMA ReleaseGateTypes ==
  ASSUME PoolTypeOK, SessionInHand, Registered, NEW o \in Ops, ReleaseGate(o)
  PROVE  PoolTypeOK' /\ SessionInHand'
BY DEF ReleaseGate, Step, Goto

(* Deregister (releaseOperationState) keeps the types. *)
LEMMA DeregisterTypes ==
  ASSUME PoolTypeOK, SessionInHand, Registered, NEW o \in Ops, Deregister(o)
  PROVE  PoolTypeOK' /\ SessionInHand'
BY DEF Deregister, Step, Goto, Mutation

(* Unflock (releaseOperation) keeps the types. *)
LEMMA UnflockTypes ==
  ASSUME PoolTypeOK, SessionInHand, Registered, NEW o \in Ops, Unflock(o)
  PROVE  PoolTypeOK' /\ SessionInHand'
BY DEF Unflock, Step, Goto

(* RUnlock (releaseOperation) keeps the types. *)
LEMMA RUnlockTypes ==
  ASSUME PoolTypeOK, SessionInHand, Registered, NEW o \in Ops, RUnlock(o)
  PROVE  PoolTypeOK' /\ SessionInHand'
BY DEF RUnlock, Return, Goto

(* Drain (Close) keeps the types. *)
LEMMA DrainTypes ==
  ASSUME PoolTypeOK, SessionInHand, Registered, NEW o \in Ops, Drain(o)
  PROVE  PoolTypeOK' /\ SessionInHand'
BY DEF Drain, Step, Goto, Pooled

(* Cancel (the caller's context) keeps the types. *)
LEMMA CancelTypes ==
  ASSUME PoolTypeOK, SessionInHand, Registered, NEW o \in Ops, Cancel(o)
  PROVE  PoolTypeOK' /\ SessionInHand'
BY DEF Cancel

(* BeginClose (Close) keeps the types. *)
LEMMA BeginCloseTypes ==
  ASSUME PoolTypeOK, SessionInHand, Registered, NEW o \in Ops, BeginClose(o)
  PROVE  PoolTypeOK' /\ SessionInHand'
BY DEF BeginClose, Step, Goto

(* Invalidate (InvalidateCredentials) keeps the types. *)
LEMMA InvalidateTypes ==
  ASSUME PoolTypeOK, SessionInHand, Registered, NEW o \in Ops, Invalidate(o)
  PROVE  PoolTypeOK' /\ SessionInHand'
BY DEF Invalidate, Step, Goto, Pooled

(* Discard (releaseSession) keeps the types. *)
LEMMA DiscardTypes ==
  ASSUME PoolTypeOK, SessionInHand, Registered, NEW o \in Ops, Discard(o)
  PROVE  PoolTypeOK' /\ SessionInHand'
BY DEF Discard, Step, Goto

(* Begin (acquireOperation) keeps the types. *)
LEMMA BeginTypes ==
  ASSUME PoolTypeOK, SessionInHand, Registered, NEW o \in Ops, NEW request \in Requests,
      Begin(o, request)
  PROVE  PoolTypeOK' /\ SessionInHand'
BY DEF Begin, Step, Goto

(* Register (poolLocked) keeps the types. *)
LEMMA RegisterTypes ==
  ASSUME PoolTypeOK, SessionInHand, Registered, NEW o \in Ops, Register(o)
  PROVE  PoolTypeOK' /\ SessionInHand'
<1>1. PICK k \in Pools :
        /\ sessions' \in {sessions, [sessions EXCEPT ![k] = {}]}
        /\ operations' = [operations EXCEPT ![k] = @ \cup {o}]
        /\ current' = [current EXCEPT ![Home[o]] = k]
        /\ mine' = [mine EXCEPT ![o] = k] BY DEF Register
<1>2. UNCHANGED <<connecting, dedicated>> BY DEF Register
<1>3. pc' \in [Ops -> Steps] /\ SessionInHand' BY DEF Register, Step, Goto
<1>4. /\ sessions' \in [Pools -> SUBSET Conns] /\ operations' \in [Pools -> SUBSET Ops]
      /\ current' \in [Clients -> Pools \cup {NoPool}] /\ mine' \in [Ops -> Pools \cup {NoPool}]
  BY <1>1
<1> QED BY <1>2, <1>3, <1>4 DEF Register

(* Enqueue (semaphore.Acquire) keeps the types. *)
LEMMA EnqueueTypes ==
  ASSUME PoolTypeOK, SessionInHand, Registered, NEW o \in Ops, Enqueue(o)
  PROVE  PoolTypeOK' /\ SessionInHand'
<1>1. mine[o] \in Pools BY DEF Enqueue, Step, Registered, Counted, PastFlock
<1>2. queue' \in [Pools -> Seq(Ops)] BY <1>1 DEF Enqueue
<1> QED BY <1>2 DEF Enqueue, Step, Goto

(* Granted (semaphore.Release) keeps the types. *)
LEMMA GrantedTypes ==
  ASSUME PoolTypeOK, SessionInHand, Registered, NEW o \in Ops, Granted(o)
  PROVE  PoolTypeOK' /\ SessionInHand'
<1>1. mine[o] \in Pools BY DEF Granted, Step, Registered, Counted, PastFlock
<1>2. Tail(queue[mine[o]]) \in Seq(Ops) BY <1>1 DEF Granted
<1>3. queue' \in [Pools -> Seq(Ops)] BY <1>2 DEF Granted
<1> QED BY <1>3 DEF Granted, Step, Goto

(* Who gives up waiting leaves the rest of the queue as it was. *)
LEMMA CutType ==
  ASSUME NEW S, NEW line \in Seq(S), NEW i \in DOMAIN line
  PROVE  SubSeq(line, 1, i - 1) \o SubSeq(line, i + 1, Len(line)) \in Seq(S)
<1>1. i \in 1 .. Len(line) OBVIOUS
<1>2. SubSeq(line, 1, i - 1) \in Seq(S) BY <1>1, SubSeqProperties
<1>3. SubSeq(line, i + 1, Len(line)) \in Seq(S) BY <1>1, SubSeqProperties
<1> QED BY <1>2, <1>3

(* GateCanceled (semaphore.Acquire) keeps the types. *)
LEMMA GateCanceledTypes ==
  ASSUME PoolTypeOK, SessionInHand, Registered, NEW o \in Ops, GateCanceled(o)
  PROVE  PoolTypeOK' /\ SessionInHand'
<1>1. mine[o] \in Pools BY DEF GateCanceled, Step, Registered, Counted, PastFlock
<1> DEFINE line == queue[mine[o]]
<1>2. line \in Seq(Ops) BY <1>1
<1>3. PICK i \in DOMAIN line :
        queue' = [queue EXCEPT ![mine[o]] = SubSeq(line, 1, i - 1)
                                            \o SubSeq(line, i + 1, Len(line))]
  BY DEF GateCanceled
<1>4. SubSeq(line, 1, i - 1) \o SubSeq(line, i + 1, Len(line)) \in Seq(Ops) BY <1>2, CutType
<1> HIDE DEF line
<1>5. queue' \in [Pools -> Seq(Ops)] BY <1>3, <1>4
<1> QED BY <1>5 DEF GateCanceled, Step, Goto

(* GiveUp (acquireOperation, borrowSession) keeps the types. *)
LEMMA GiveUpTypes ==
  ASSUME PoolTypeOK, SessionInHand, Registered, NEW o \in Ops, GiveUp(o)
  PROVE  PoolTypeOK' /\ SessionInHand'
<1>1. CASE Step(o, "lifecycle", "rgate") BY <1>1 DEF GiveUp, Step, Goto
<1>2. CASE Step(o, "borrow", "rgate") BY <1>2 DEF GiveUp, Step, Goto
<1> QED BY <1>1, <1>2 DEF GiveUp

(* HungUp (Close, InvalidateCredentials, releaseSession) keeps the types. *)
LEMMA HungUpTypes ==
  ASSUME PoolTypeOK, SessionInHand, Registered, NEW o \in Ops, HungUp(o)
  PROVE  PoolTypeOK' /\ SessionInHand'
<1>1. CASE Step(o, "evict", "borrow") /\ UNCHANGED callVars BY <1>1 DEF HungUp, Step, Goto
<1>2. CASE Step(o, "discard", "rgate") /\ UNCHANGED callVars BY <1>2 DEF HungUp, Step, Goto
<1>3. CASE pc[o] = "hangup" /\ Return(o) BY <1>3 DEF HungUp, Return, Goto
<1> QED BY <1>1, <1>2, <1>3 DEF HungUp

(* Reuse (borrowSession) keeps the types. *)
LEMMA ReuseTypes ==
  ASSUME PoolTypeOK, SessionInHand, Registered, NEW o \in Ops, Reuse(o)
  PROVE  PoolTypeOK' /\ SessionInHand'
<1>1. PICK n \in Reusable(o) : inUse' = inUse \cup {n} /\ session' = [session EXCEPT ![o] = n]
  BY DEF Reuse
<1>2. mine[o] \in Pools BY DEF Reuse, Step, Registered, Counted, PastFlock, PastGate
<1>3. n \in Conns BY <1>2 DEF Reusable, IdleSessions
<1> QED BY <1>1, <1>3 DEF Reuse, Step, Goto

(* Open gives o the connection it opens (connectSession). *)
LEMMA OpenTypes ==
  ASSUME PoolTypeOK, NEW o \in Ops, NEW n \in Conns, NEW generation \in Nat, Open(o, n,
      generation)
  PROVE  /\ open' \subseteq Conns /\ invalid' \subseteq Conns
         /\ tag' \in [Conns -> Nat] /\ auth' \in [Conns -> Nat]
         /\ session' \in [Ops -> Conns \cup {NoConn}] /\ session'[o] = n
         /\ \A x \in Ops \ {o} : session'[x] = session[x]
BY DEF Open

(* Dial (borrowSession) keeps the types. *)
LEMMA DialTypes ==
  ASSUME PoolTypeOK, SessionInHand, Registered, NEW o \in Ops, Dial(o)
  PROVE  PoolTypeOK' /\ SessionInHand'
<1>1. PICK n \in Conns : Open(o, n, creds[Home[o]]) BY DEF Dial
<1>2. creds[Home[o]] \in Nat OBVIOUS
<1>3. connecting' \in [Pools -> SUBSET Ops] /\ pc' \in [Ops -> Steps] BY DEF Dial, Step, Goto
<1>4. session'[o] = n /\ \A x \in Ops \ {o} : session'[x] = session[x] /\ pc'[x] = pc[x]
  BY <1>1, <1>2, OpenTypes DEF Dial, Step, Goto
<1>5. SessionInHand' BY <1>4
<1> QED BY <1>1, <1>2, <1>3, <1>5, OpenTypes DEF Dial

(* Reserve (acquireDedicated) keeps the types. *)
LEMMA ReserveTypes ==
  ASSUME PoolTypeOK, SessionInHand, Registered, NEW o \in Ops, Reserve(o)
  PROVE  PoolTypeOK' /\ SessionInHand'
<1>1. PICK n \in Conns : Open(o, n, 0) BY DEF Reserve
<1>2. 0 \in Nat OBVIOUS
<1>3. dedicated' \in [Pools -> SUBSET Ops] /\ pc' \in [Ops -> Steps]
 <2>1. /\ pc' = [pc EXCEPT ![o] = "use"] /\ "use" \in Steps
       /\ dedicated' = [dedicated EXCEPT ![mine[o]] = @ \cup {o}]
   BY DEF Reserve, Step, Goto, Steps, Holding
 <2> QED BY <2>1 DEF PoolTypeOK
<1>4. session'[o] = n /\ \A x \in Ops \ {o} : session'[x] = session[x] /\ pc'[x] = pc[x]
  BY <1>1, <1>2, OpenTypes DEF Reserve, Step, Goto
<1>5. SessionInHand' BY <1>4
<1> QED BY <1>1, <1>2, <1>3, <1>5, OpenTypes DEF Reserve

(* EvictIdle (acquireDedicated) keeps the types. *)
LEMMA EvictIdleTypes ==
  ASSUME PoolTypeOK, SessionInHand, Registered, NEW o \in Ops, EvictIdle(o)
  PROVE  PoolTypeOK' /\ SessionInHand'
<1>1. mine[o] \in Pools BY DEF EvictIdle, Step, Registered, Counted, PastFlock, PastGate
<1>2. PICK n \in IdleSessions(mine[o]) :
        /\ sessions' = [sessions EXCEPT ![mine[o]] = @ \ {n}]
        /\ drop' = [drop EXCEPT ![o] = {n}] BY DEF EvictIdle
<1>3. n \in Conns BY <1>1 DEF IdleSessions
<1> QED BY ZenonT(60), <1>2, <1>3 DEF EvictIdle, Step, Goto

HIDE DEF PoolTypeOK, SessionInHand, Steps, Holding, Kinds, callVars, watchVars, clientVars,
    slotVars, gateVars, connVars, Requests

(* So does every step of Acquire. *)
LEMMA AcquireTypes ==
  ASSUME PoolTypeOK, SessionInHand, Registered, NEW o \in Ops, Acquire(o)
  PROVE  PoolTypeOK' /\ SessionInHand'
<1>1. Register(o) => PoolTypeOK' /\ SessionInHand' BY RegisterTypes
<1>2. LockMutation(o) => PoolTypeOK' /\ SessionInHand' BY LockMutationTypes
<1>3. LockRefused(o) => PoolTypeOK' /\ SessionInHand' BY LockRefusedTypes
<1>4. EnterGate(o) => PoolTypeOK' /\ SessionInHand' BY EnterGateTypes
<1>5. Enqueue(o) => PoolTypeOK' /\ SessionInHand' BY EnqueueTypes
<1>6. Granted(o) => PoolTypeOK' /\ SessionInHand' BY GrantedTypes
<1>7. Confirm(o) => PoolTypeOK' /\ SessionInHand' BY ConfirmTypes
<1>8. Interrupted(o) => PoolTypeOK' /\ SessionInHand' BY InterruptedTypes
<1> QED BY <1>1, <1>2, <1>3, <1>4, <1>5, <1>6, <1>7, <1>8 DEF Acquire

(* So does every step of Borrow. *)
LEMMA BorrowTypes ==
  ASSUME PoolTypeOK, SessionInHand, Registered, NEW o \in Ops, Borrow(o)
  PROVE  PoolTypeOK' /\ SessionInHand'
<1>1. Reuse(o) => PoolTypeOK' /\ SessionInHand' BY ReuseTypes
<1>2. Dial(o) => PoolTypeOK' /\ SessionInHand' BY DialTypes
<1>3. Connected(o) => PoolTypeOK' /\ SessionInHand' BY ConnectedTypes
<1>4. ConnectFails(o) => PoolTypeOK' /\ SessionInHand' BY ConnectFailsTypes
<1>5. Reserve(o) => PoolTypeOK' /\ SessionInHand' BY ReserveTypes
<1>6. EvictIdle(o) => PoolTypeOK' /\ SessionInHand' BY EvictIdleTypes
<1>7. HangUp(o) => PoolTypeOK' /\ SessionInHand' BY HangUpTypes
<1>8. HungUp(o) => PoolTypeOK' /\ SessionInHand' BY HungUpTypes
<1> QED BY <1>1, <1>2, <1>3, <1>4, <1>5, <1>6, <1>7, <1>8 DEF Borrow

(* So does every step of Finish. *)
LEMMA FinishTypes ==
  ASSUME PoolTypeOK, SessionInHand, Registered, NEW o \in Ops, Finish(o)
  PROVE  PoolTypeOK' /\ SessionInHand'
<1>1. Done(o) => PoolTypeOK' /\ SessionInHand' BY DoneTypes
<1>2. WatcherCloses(o) => PoolTypeOK' /\ SessionInHand' BY WatcherClosesTypes
<1>3. WatcherStops(o) => PoolTypeOK' /\ SessionInHand' BY WatcherStopsTypes
<1>4. GiveBack(o) => PoolTypeOK' /\ SessionInHand' BY GiveBackTypes
<1>5. Discard(o) => PoolTypeOK' /\ SessionInHand' BY DiscardTypes
<1>6. DoneAppend(o) => PoolTypeOK' /\ SessionInHand' BY DoneAppendTypes
<1>7. Unreserve(o) => PoolTypeOK' /\ SessionInHand' BY UnreserveTypes
<1>8. ReleaseGate(o) => PoolTypeOK' /\ SessionInHand' BY ReleaseGateTypes
<1>9. Deregister(o) => PoolTypeOK' /\ SessionInHand' BY DeregisterTypes
<1>10. Unflock(o) => PoolTypeOK' /\ SessionInHand' BY UnflockTypes
<1>11. RUnlock(o) => PoolTypeOK' /\ SessionInHand' BY RUnlockTypes
<1>12. Drain(o) => PoolTypeOK' /\ SessionInHand' BY DrainTypes
<1> QED BY <1>1, <1>2, <1>3, <1>4, <1>5, <1>6, <1>7, <1>8, <1>9, <1>10, <1>11, <1>12 DEF Finish

(* So does every step of Caller. *)
LEMMA CallerTypes ==
  ASSUME PoolTypeOK, SessionInHand, Registered, NEW o \in Ops, Caller(o)
  PROVE  PoolTypeOK' /\ SessionInHand'
<1>1. Cancel(o) => PoolTypeOK' /\ SessionInHand' BY CancelTypes
<1>2. GateCanceled(o) => PoolTypeOK' /\ SessionInHand' BY GateCanceledTypes
<1>3. GiveUp(o) => PoolTypeOK' /\ SessionInHand' BY GiveUpTypes
<1>4. BeginClose(o) => PoolTypeOK' /\ SessionInHand' BY BeginCloseTypes
<1>5. Invalidate(o) => PoolTypeOK' /\ SessionInHand' BY InvalidateTypes
<1>6. ASSUME NEW request \in Requests, Begin(o, request)
      PROVE  PoolTypeOK' /\ SessionInHand' BY <1>6, BeginTypes
<1> QED BY <1>1, <1>2, <1>3, <1>4, <1>5, <1>6 DEF Caller

HIDE DEF Requests, PoolTypeOK, SessionInHand, Steps, Holding, Kinds, callVars, watchVars,
    clientVars, slotVars, gateVars, connVars

(***************************************************************************)
(* The invariant behind the gate.                                          *)
(***************************************************************************)
(* Past the gate, steps that leave the gate, the registration and the locks  *)
(* alone keep the invariant. *)
LEMMA StepPastGate ==
  ASSUME GateInv, PoolTypeOK', SessionInHand', NEW o \in Ops,
         NEW to \in PastGate, pc' = [pc EXCEPT ![o] = to], pc[o] \in PastGate,
         to \in Holding => pc[o] \in Holding,
         UNCHANGED <<kind, seen, mine, current, gen, readers, operations, gate, flock>>
  PROVE  GateInv'
<1>1. Registered'
  BY DEF GateInv, Registered, PoolTypeOK, Mutation, Active, Counted, PastFlock, PastGate,
      Holding, Steps
<1>2. GateHeld'
  BY DEF GateInv, GateHeld, Registered, PoolTypeOK, Mutation, Active, Counted, PastFlock,
      PastGate, Holding, Steps
<1>3. ActiveIsCurrent'
  BY DEF GateInv, ActiveIsCurrent, Registered, PoolTypeOK, Mutation, Active, Counted,
      PastFlock, PastGate, Holding, Steps
<1>4. MutationLocked'
  BY DEF GateInv, MutationLocked, PoolTypeOK, Mutation, Active, Counted, PastFlock, PastGate,
      Holding, Steps
<1> QED BY <1>1, <1>2, <1>3, <1>4 DEF GateInv

(* So do steps that move nobody. *)
LEMMA StepAside ==
  ASSUME GateInv, PoolTypeOK', SessionInHand', NEW o \in Ops,
         UNCHANGED <<pc, kind, seen, mine, current, gen, readers, operations, gate, flock>>
  PROVE  GateInv'
BY DEF GateInv, Registered, GateHeld, ActiveIsCurrent, MutationLocked, Mutation, Active,
    Counted, PastFlock, PastGate, Holding

(* Who is outside the gate before and after its step changes nothing for    *)
(* those inside.                                                            *)
LEMMA OutsideGate ==
  ASSUME GateInv, NEW o \in Ops, pc[o] \notin PastGate, pc'[o] \notin PastGate, gate' = gate,
         \A x \in Ops \ {o} : pc'[x] = pc[x] /\ mine'[x] = mine[x] /\ kind'[x] = kind[x]
  PROVE  GateHeld'
<1>1. \A k \in Pools : \A x \in gate[k] : x \in Ops \ {o} BY DEF GateInv, PoolTypeOK, GateHeld
<1>2. \A k \in Pools : \A x \in gate'[k] :
        pc'[x] \in PastGate /\ mine'[x] = k /\ (Mutation(x)' => gate'[k] = {x})
  BY <1>1 DEF GateInv, GateHeld, Mutation
<1>3. \A x \in Ops : pc'[x] \in PastGate => x \in gate'[mine'[x]] BY DEF GateInv, GateHeld
<1> QED BY <1>2, <1>3 DEF GateHeld

(* And steps before it. *)
LEMMA StepBeforeGate ==
  ASSUME GateInv, PoolTypeOK', SessionInHand', NEW o \in Ops,
         NEW to \in {"wait", "dereg"}, pc' = [pc EXCEPT ![o] = to],
         pc[o] \in {"flock", "gate", "wait"},
         to = "wait" => pc[o] \in PastFlock,
         UNCHANGED <<kind, seen, mine, current, gen, readers, operations, gate, flock>>
  PROVE  GateInv'
<1>1. Registered'
  BY DEF GateInv, Registered, PoolTypeOK, Mutation, Active, Counted, PastFlock, PastGate,
      Holding, Steps
<1>2. GateHeld'
 <2>1. /\ pc[o] \notin PastGate /\ pc'[o] \notin PastGate
       /\ \A x \in Ops \ {o} : pc'[x] = pc[x] BY DEF GateInv, PoolTypeOK, PastGate, Holding
 <2> QED BY <2>1, OutsideGate
<1>3. ActiveIsCurrent'
  BY DEF GateInv, ActiveIsCurrent, Registered, PoolTypeOK, Mutation, Active, Counted,
      PastFlock, PastGate, Holding, Steps
<1>4. MutationLocked'
  BY DEF GateInv, MutationLocked, PoolTypeOK, Mutation, Active, Counted, PastFlock, PastGate,
      Holding, Steps
<1> QED BY <1>1, <1>2, <1>3, <1>4 DEF GateInv

(* The semaphore lets a mutation in alone, and nobody in beside one. *)
LEMMA StepIntoGate ==
  ASSUME GateInv, PoolTypeOK', SessionInHand', NEW o \in Ops,
         pc' = [pc EXCEPT ![o] = "lifecycle"], pc[o] \in {"gate", "wait"},
         Fits(o, mine[o]), gate' = [gate EXCEPT ![mine[o]] = @ \cup {o}],
         UNCHANGED <<kind, seen, mine, current, gen, readers, operations, flock>>
  PROVE  GateInv'
<1>1. mine[o] \in Pools BY DEF GateInv, Registered, Counted, PastFlock
<1>2. \A k \in Pools \ {mine[o]} : gate'[k] = gate[k] BY DEF GateInv, PoolTypeOK
<1>3. gate'[mine[o]] = gate[mine[o]] \cup {o} BY <1>1 DEF GateInv, PoolTypeOK
<1>4. \A x \in Ops : Mutation(x)' = Mutation(x) BY DEF Mutation
<1>5. ASSUME NEW x \in gate[mine[o]], Mutation(x) \/ Mutation(o)
      PROVE  FALSE
 <2>1. CASE Mutation(o) BY <2>1, <1>5 DEF Fits
 <2>2. CASE Mutation(x) /\ ~Mutation(o) BY <2>2, <1>5 DEF Fits
 <2> QED BY <2>1, <2>2, <1>5
<1>6. GateHeld'
 <2>1. \A x \in Ops : pc'[x] \in PastGate => x \in gate'[mine'[x]]
   BY <1>1, <1>2, <1>3 DEF GateInv, PoolTypeOK, GateHeld, Registered, Counted, PastFlock
 <2>2. ASSUME NEW k \in Pools, NEW x \in gate'[k]
       PROVE  pc'[x] \in PastGate /\ mine'[x] = k
   BY <2>2, <1>1, <1>2, <1>3 DEF GateInv, PoolTypeOK, GateHeld, PastGate
 <2>3. ASSUME NEW k \in Pools, NEW x \in gate'[k], Mutation(x)
       PROVE  gate'[k] = {x}
  <3>1. CASE k # mine[o] BY <3>1, <2>3, <1>2 DEF GateInv, GateHeld
  <3>2. CASE k = mine[o] BY <3>2, <2>3, <1>3, <1>5
  <3> QED BY <3>1, <3>2
 <2>4. gate' \in [Pools -> SUBSET Ops] BY DEF PoolTypeOK
 <2> QED BY <2>1, <2>2, <2>3, <2>4, <1>4 DEF GateHeld
<1>7. Registered' BY DEF GateInv, PoolTypeOK, Registered, Counted, PastFlock, PastGate
<1>8. ActiveIsCurrent' BY DEF GateInv, PoolTypeOK, ActiveIsCurrent, Active, Holding
<1>9. MutationLocked'
  BY DEF GateInv, PoolTypeOK, MutationLocked, Mutation, PastFlock, PastGate
<1> QED BY <1>6, <1>7, <1>8, <1>9 DEF GateInv

(* Begin (acquireOperation) keeps the gate's invariant. *)
LEMMA BeginGate ==
  ASSUME GateInv, PoolTypeOK', SessionInHand', NEW o \in Ops, NEW request \in Requests,
      Begin(o, request)
  PROVE  GateInv'
<1>1. Registered'
  BY DEF GateInv, Registered, PoolTypeOK, Mutation, Active, Counted, PastFlock, PastGate,
      Holding, Begin, Step, Goto, callVars, clientVars, gateVars, Steps, Kinds, Requests
<1>2. GateHeld'
  BY DEF GateInv, GateHeld, Registered, PoolTypeOK, Mutation, Active, Counted, PastFlock,
      PastGate, Holding, Begin, Step, Goto, callVars, clientVars, gateVars, Steps, Kinds,
      Requests
<1>3. ActiveIsCurrent'
  BY DEF GateInv, ActiveIsCurrent, Registered, PoolTypeOK, Mutation, Active, Counted,
      PastFlock, PastGate, Holding, Begin, Step, Goto, callVars, clientVars, gateVars, Steps,
      Kinds, Requests
<1>4. MutationLocked'
  BY DEF GateInv, MutationLocked, PoolTypeOK, Mutation, Active, Counted, PastFlock, PastGate,
      Holding, Begin, Step, Goto, callVars, clientVars, gateVars, Steps, Kinds, Requests
<1> QED BY <1>1, <1>2, <1>3, <1>4 DEF GateInv

(* LockMutation (lockMutation) keeps the gate's invariant. *)
LEMMA LockMutationGate ==
  ASSUME GateInv, PoolTypeOK', SessionInHand', NEW o \in Ops, LockMutation(o)
  PROVE  GateInv'
<1>1. Registered'
  BY DEF GateInv, Registered, PoolTypeOK, Mutation, Active, Counted, PastFlock, PastGate,
      Holding, LockMutation, Step, Goto, callVars, clientVars, gateVars, Steps
<1>2. GateHeld'
  BY DEF GateInv, GateHeld, Registered, PoolTypeOK, Mutation, Active, Counted, PastFlock,
      PastGate, Holding, LockMutation, Step, Goto, callVars, clientVars, gateVars, Steps
<1>3. ActiveIsCurrent'
  BY DEF GateInv, ActiveIsCurrent, Registered, PoolTypeOK, Mutation, Active, Counted,
      PastFlock, PastGate, Holding, LockMutation, Step, Goto, callVars, clientVars, gateVars,
      Steps
<1>4. MutationLocked'
  BY DEF GateInv, MutationLocked, PoolTypeOK, Mutation, Active, Counted, PastFlock, PastGate,
      Holding, LockMutation, Step, Goto, callVars, clientVars, gateVars, Steps
<1> QED BY <1>1, <1>2, <1>3, <1>4 DEF GateInv

(* Confirm (acquireOperation) keeps the gate's invariant. *)
LEMMA ConfirmGate ==
  ASSUME GateInv, PoolTypeOK', SessionInHand', NEW o \in Ops, Confirm(o)
  PROVE  GateInv'
<1>1. Registered'
  BY DEF GateInv, Registered, PoolTypeOK, Mutation, Active, Counted, PastFlock, PastGate,
      Holding, Confirm, Step, Goto, callVars, gateVars, Steps
<1>2. GateHeld'
  BY DEF GateInv, GateHeld, Registered, PoolTypeOK, Mutation, Active, Counted, PastFlock,
      PastGate, Holding, Confirm, Step, Goto, callVars, gateVars, Steps
<1>3. ActiveIsCurrent'
  BY DEF GateInv, ActiveIsCurrent, Registered, PoolTypeOK, Mutation, Active, Counted,
      PastFlock, PastGate, Holding, Confirm, Step, Goto, callVars, gateVars, Steps
<1>4. MutationLocked'
  BY DEF GateInv, MutationLocked, PoolTypeOK, Mutation, Active, Counted, PastFlock, PastGate,
      Holding, Confirm, Step, Goto, callVars, gateVars, Steps
<1> QED BY <1>1, <1>2, <1>3, <1>4 DEF GateInv

(* ReleaseGate (releaseOperation) keeps the gate's invariant. *)
LEMMA ReleaseGateGate ==
  ASSUME GateInv, PoolTypeOK', SessionInHand', NEW o \in Ops, ReleaseGate(o)
  PROVE  GateInv'
<1> USE DEF GateInv
<1>1. Registered'
  BY DEF Registered, PoolTypeOK, Mutation, Active, Counted, PastFlock, PastGate, Holding,
      ReleaseGate, Step, Goto, callVars, clientVars, Steps
<1>2. GateHeld'
 <2>1. /\ mine[o] \in Pools /\ pc[o] = "rgate" /\ pc' = [pc EXCEPT ![o] = "dereg"]
       /\ gate' = [gate EXCEPT ![mine[o]] = @ \ {o}] /\ kind' = kind /\ mine' = mine
   BY DEF Registered, Counted, PastFlock, PastGate, Holding, ReleaseGate, Step, Goto, callVars
 <2>2. /\ pc'[o] = "dereg" /\ \A x \in Ops \ {o} : pc'[x] = pc[x]
       /\ gate'[mine[o]] = gate[mine[o]] \ {o}
       /\ \A k \in Pools \ {mine[o]} : gate'[k] = gate[k] BY <2>1 DEF PoolTypeOK
 <2>3. \A k \in Pools : \A x \in gate[k] : x \in Ops BY DEF PoolTypeOK
 <2>4. \A x \in Ops \ {o} : pc[x] \in PastGate => x \in gate'[mine[x]]
   BY <2>1, <2>2 DEF GateHeld, Registered, Counted, PastFlock
 <2>5. \A k \in Pools : gate'[k] \subseteq gate[k] /\ (k = mine[o] => o \notin gate'[k])
   BY <2>1, <2>2
 <2>6. \A k \in Pools : \A x \in gate'[k] : x # o BY <2>1, <2>5 DEF GateHeld
 <2>7. \A k \in Pools : \A x \in gate'[k] :
         pc'[x] \in PastGate /\ mine[x] = k /\ (Mutation(x) => gate'[k] = {x})
   BY <2>2, <2>3, <2>5, <2>6 DEF GateHeld
 <2> QED BY <2>1, <2>2, <2>4, <2>7 DEF GateHeld, Mutation, PastGate, Holding
<1>3. ActiveIsCurrent'
  BY DEF ActiveIsCurrent, Registered, PoolTypeOK, Mutation, Active, Counted, PastFlock,
      PastGate, Holding, ReleaseGate, Step, Goto, callVars, clientVars, Steps
<1>4. MutationLocked'
  BY DEF MutationLocked, PoolTypeOK, Mutation, Active, Counted, PastFlock, PastGate, Holding,
      ReleaseGate, Step, Goto, callVars, clientVars, Steps
<1> QED BY <1>1, <1>2, <1>3, <1>4

(* Deregister (releaseOperationState) keeps the gate's invariant. *)
LEMMA DeregisterGate ==
  ASSUME GateInv, PoolTypeOK', SessionInHand', NEW o \in Ops, Deregister(o)
  PROVE  GateInv'
<1>1. Registered'
  BY DEF GateInv, Registered, PoolTypeOK, Mutation, Active, Counted, PastFlock, PastGate,
      Holding, Deregister, Step, Goto, callVars, Steps, Abandoned
<1>2. GateHeld'
 <2>1. /\ pc[o] = "dereg" /\ pc' = [pc EXCEPT ![o] = pc'[o]]
       /\ pc'[o] \in {"unflock", "runlock"}
       /\ mine' = [mine EXCEPT ![o] = NoPool] /\ kind' = kind /\ gate' = gate
   BY DEF Deregister, Step, Goto, callVars, GateInv, PoolTypeOK
 <2>2. pc[o] \notin PastGate /\ pc'[o] \notin PastGate BY <2>1 DEF PastGate, Holding
 <2>3. \A x \in Ops \ {o} : pc'[x] = pc[x] /\ mine'[x] = mine[x] /\ kind'[x] = kind[x]
   BY <2>1 DEF GateInv, PoolTypeOK
 <2> QED BY <2>1, <2>2, <2>3, OutsideGate
<1>3. ActiveIsCurrent'
  BY DEF GateInv, ActiveIsCurrent, Registered, PoolTypeOK, Mutation, Active, Counted,
      PastFlock, PastGate, Holding, Deregister, Step, Goto, callVars, Steps, Abandoned
<1>4. MutationLocked'
  BY DEF GateInv, MutationLocked, PoolTypeOK, Mutation, Active, Counted, PastFlock, PastGate,
      Holding, Deregister, Step, Goto, callVars, Steps, Abandoned
<1> QED BY <1>1, <1>2, <1>3, <1>4 DEF GateInv

(* Unflock (releaseOperation) keeps the gate's invariant. *)
LEMMA UnflockGate ==
  ASSUME GateInv, PoolTypeOK', SessionInHand', NEW o \in Ops, Unflock(o)
  PROVE  GateInv'
<1>1. Registered'
  BY DEF GateInv, Registered, PoolTypeOK, Mutation, Active, Counted, PastFlock, PastGate,
      Holding, Unflock, Step, Goto, callVars, clientVars, gateVars, Steps
<1>2. GateHeld'
  BY DEF GateInv, GateHeld, Registered, PoolTypeOK, Mutation, Active, Counted, PastFlock,
      PastGate, Holding, Unflock, Step, Goto, callVars, clientVars, gateVars, Steps
<1>3. ActiveIsCurrent'
  BY DEF GateInv, ActiveIsCurrent, Registered, PoolTypeOK, Mutation, Active, Counted,
      PastFlock, PastGate, Holding, Unflock, Step, Goto, callVars, clientVars, gateVars, Steps
<1>4. MutationLocked'
  BY DEF GateInv, MutationLocked, PoolTypeOK, Mutation, Active, Counted, PastFlock, PastGate,
      Holding, Unflock, Step, Goto, callVars, clientVars, gateVars, Steps
<1> QED BY <1>1, <1>2, <1>3, <1>4 DEF GateInv

(* RUnlock (releaseOperation) keeps the gate's invariant. *)
LEMMA RUnlockGate ==
  ASSUME GateInv, PoolTypeOK', SessionInHand', NEW o \in Ops, RUnlock(o)
  PROVE  GateInv'
<1>1. Registered'
  BY DEF GateInv, Registered, PoolTypeOK, Mutation, Active, Counted, PastFlock, PastGate,
      Holding, RUnlock, Return, Goto, gateVars, Steps
<1>2. GateHeld'
  BY DEF GateInv, GateHeld, Registered, PoolTypeOK, Mutation, Active, Counted, PastFlock,
      PastGate, Holding, RUnlock, Return, Goto, gateVars, Steps
<1>3. ActiveIsCurrent'
  BY DEF GateInv, ActiveIsCurrent, Registered, PoolTypeOK, Mutation, Active, Counted,
      PastFlock, PastGate, Holding, RUnlock, Return, Goto, gateVars, Steps
<1>4. MutationLocked'
  BY DEF GateInv, MutationLocked, PoolTypeOK, Mutation, Active, Counted, PastFlock, PastGate,
      Holding, RUnlock, Return, Goto, gateVars, Steps
<1> QED BY <1>1, <1>2, <1>3, <1>4 DEF GateInv

(* BeginClose (Close) keeps the gate's invariant. *)
LEMMA BeginCloseGate ==
  ASSUME GateInv, PoolTypeOK', SessionInHand', NEW o \in Ops, BeginClose(o)
  PROVE  GateInv'
<1>1. Registered'
  BY DEF GateInv, Registered, PoolTypeOK, Mutation, Active, Counted, PastFlock, PastGate,
      Holding, BeginClose, Step, Goto, gateVars, Steps
<1>2. GateHeld'
  BY DEF GateInv, GateHeld, Registered, PoolTypeOK, Mutation, Active, Counted, PastFlock,
      PastGate, Holding, BeginClose, Step, Goto, gateVars, Steps
<1>3. ActiveIsCurrent'
  BY DEF GateInv, ActiveIsCurrent, Registered, PoolTypeOK, Mutation, Active, Counted,
      PastFlock, PastGate, Holding, BeginClose, Step, Goto, gateVars, Steps
<1>4. MutationLocked'
  BY DEF GateInv, MutationLocked, PoolTypeOK, Mutation, Active, Counted, PastFlock, PastGate,
      Holding, BeginClose, Step, Goto, gateVars, Steps
<1> QED BY <1>1, <1>2, <1>3, <1>4 DEF GateInv

(* Drain (Close) keeps the gate's invariant. *)
LEMMA DrainGate ==
  ASSUME GateInv, PoolTypeOK', SessionInHand', NEW o \in Ops, Drain(o)
  PROVE  GateInv'
<1>1. Registered'
  BY DEF GateInv, Registered, PoolTypeOK, Mutation, Active, Counted, PastFlock, PastGate,
      Holding, Drain, Step, Goto, callVars, gateVars, Steps, Drained
<1>2. GateHeld'
  BY DEF GateInv, GateHeld, Registered, PoolTypeOK, Mutation, Active, Counted, PastFlock,
      PastGate, Holding, Drain, Step, Goto, callVars, gateVars, Steps, Drained
<1>3. ActiveIsCurrent'
  BY DEF GateInv, ActiveIsCurrent, Registered, PoolTypeOK, Mutation, Active, Counted,
      PastFlock, PastGate, Holding, Drain, Step, Goto, callVars, gateVars, Steps, Drained
<1>4. MutationLocked'
  BY DEF GateInv, MutationLocked, PoolTypeOK, Mutation, Active, Counted, PastFlock, PastGate,
      Holding, Drain, Step, Goto, callVars, gateVars, Steps, Drained
<1> QED BY <1>1, <1>2, <1>3, <1>4 DEF GateInv

(* Invalidate (InvalidateCredentials) keeps the gate's invariant. *)
LEMMA InvalidateGate ==
  ASSUME GateInv, PoolTypeOK', SessionInHand', NEW o \in Ops, Invalidate(o)
  PROVE  GateInv'
<1>1. Registered'
  BY DEF GateInv, Registered, PoolTypeOK, Mutation, Active, Counted, PastFlock, PastGate,
      Holding, Invalidate, Step, Goto, gateVars, Steps, Abandoned
<1>2. GateHeld'
  BY SMTT(30) DEF GateInv, GateHeld, Registered, PoolTypeOK, Mutation, Active, Counted, PastFlock,
      PastGate, Holding, Invalidate, Step, Goto, gateVars, Steps, Abandoned
<1>3. ActiveIsCurrent'
  BY DEF GateInv, ActiveIsCurrent, Registered, PoolTypeOK, Mutation, Active, Counted,
      PastFlock, PastGate, Holding, Invalidate, Step, Goto, gateVars, Steps, Abandoned
<1>4. MutationLocked'
  BY DEF GateInv, MutationLocked, PoolTypeOK, Mutation, Active, Counted, PastFlock, PastGate,
      Holding, Invalidate, Step, Goto, gateVars, Steps, Abandoned
<1> QED BY <1>1, <1>2, <1>3, <1>4 DEF GateInv

(* Register (poolLocked) keeps the gate's invariant. *)
LEMMA RegisterGate ==
  ASSUME GateInv, PoolTypeOK', SessionInHand', NEW o \in Ops, Register(o)
  PROVE  GateInv'
<1> USE DEF Register, GateInv
<1>1. PICK k \in Pools :
        /\ k = current[Home[o]] \/ current[Home[o]] = NoPool
        /\ operations' = [operations EXCEPT ![k] = @ \cup {o}]
        /\ current' = [current EXCEPT ![Home[o]] = k]
        /\ mine' = [mine EXCEPT ![o] = k] OBVIOUS
<1>2. Registered'
  BY <1>1 DEF Registered, PoolTypeOK, Mutation, Active, Counted, PastFlock, PastGate, Holding,
      Step, Goto, callVars, Steps
<1>3. GateHeld'
  BY SMTT(30), <1>1 DEF GateHeld, Registered, PoolTypeOK, Mutation, Active, Counted, PastFlock, PastGate,
      Holding, Step, Goto, callVars, Steps
<1>4. ActiveIsCurrent'
  BY <1>1 DEF ActiveIsCurrent, Registered, PoolTypeOK, Mutation, Active, Counted, PastFlock,
      PastGate, Holding, Step, Goto, callVars, Steps
<1>5. MutationLocked'
  BY <1>1 DEF MutationLocked, PoolTypeOK, Mutation, Active, Counted, PastFlock, PastGate,
      Holding, Step, Goto, callVars, Steps
<1> QED BY <1>2, <1>3, <1>4, <1>5

(* GiveUp (acquireOperation, borrowSession) keeps the gate's invariant. *)
LEMMA GiveUpGate ==
  ASSUME GateInv, PoolTypeOK', SessionInHand', NEW o \in Ops, GiveUp(o)
  PROVE  GateInv'
BY StepPastGate DEF GiveUp, Step, Goto, callVars, clientVars, gateVars, PastGate, Holding

(* Interrupted (acquireOperation) keeps the gate's invariant. *)
LEMMA InterruptedGate ==
  ASSUME GateInv, PoolTypeOK', SessionInHand', NEW o \in Ops, Interrupted(o)
  PROVE  GateInv'
BY StepPastGate DEF Interrupted, Step, Goto, callVars, clientVars, gateVars, PastGate, Holding

(* Reuse (borrowSession) keeps the gate's invariant. *)
LEMMA ReuseGate ==
  ASSUME GateInv, PoolTypeOK', SessionInHand', NEW o \in Ops, Reuse(o)
  PROVE  GateInv'
BY StepPastGate DEF Reuse, Step, Goto, callVars, clientVars, gateVars, PastGate, Holding

(* Dial (borrowSession) keeps the gate's invariant. *)
LEMMA DialGate ==
  ASSUME GateInv, PoolTypeOK', SessionInHand', NEW o \in Ops, Dial(o)
  PROVE  GateInv'
BY StepPastGate DEF Dial, Step, Goto, callVars, clientVars, gateVars, PastGate, Holding

(* Connected (borrowSession) keeps the gate's invariant. *)
LEMMA ConnectedGate ==
  ASSUME GateInv, PoolTypeOK', SessionInHand', NEW o \in Ops, Connected(o)
  PROVE  GateInv'
BY StepPastGate DEF Connected, Step, Goto, callVars, clientVars, gateVars, PastGate, Holding

(* ConnectFails (borrowSession) keeps the gate's invariant. *)
LEMMA ConnectFailsGate ==
  ASSUME GateInv, PoolTypeOK', SessionInHand', NEW o \in Ops, ConnectFails(o)
  PROVE  GateInv'
BY StepPastGate DEF ConnectFails, Step, Goto, callVars, clientVars, gateVars, PastGate, Holding

(* Reserve (acquireDedicated) keeps the gate's invariant. *)
LEMMA ReserveGate ==
  ASSUME GateInv, PoolTypeOK', SessionInHand', NEW o \in Ops, Reserve(o)
  PROVE  GateInv'
BY StepPastGate DEF Reserve, Step, Goto, callVars, clientVars, gateVars, PastGate, Holding

(* EvictIdle (acquireDedicated) keeps the gate's invariant. *)
LEMMA EvictIdleGate ==
  ASSUME GateInv, PoolTypeOK', SessionInHand', NEW o \in Ops, EvictIdle(o)
  PROVE  GateInv'
BY StepPastGate DEF EvictIdle, Step, Goto, callVars, clientVars, gateVars, PastGate, Holding

(* DoneAppend (AppendToSent) keeps the gate's invariant. *)
LEMMA DoneAppendGate ==
  ASSUME GateInv, PoolTypeOK', SessionInHand', NEW o \in Ops, DoneAppend(o)
  PROVE  GateInv'
BY StepPastGate DEF DoneAppend, Step, Goto, callVars, clientVars, gateVars, PastGate, Holding

(* Unreserve (acquireDedicated) keeps the gate's invariant. *)
LEMMA UnreserveGate ==
  ASSUME GateInv, PoolTypeOK', SessionInHand', NEW o \in Ops, Unreserve(o)
  PROVE  GateInv'
BY StepPastGate DEF Unreserve, Step, Goto, callVars, clientVars, gateVars, PastGate, Holding

(* Done (acquirePooled) keeps the gate's invariant. *)
LEMMA DoneGate ==
  ASSUME GateInv, PoolTypeOK', SessionInHand', NEW o \in Ops, Done(o)
  PROVE  GateInv'
BY StepPastGate DEF Done, Step, Goto, callVars, clientVars, gateVars, PastGate, Holding

(* GiveBack (releaseSession) keeps the gate's invariant. *)
LEMMA GiveBackGate ==
  ASSUME GateInv, PoolTypeOK', SessionInHand', NEW o \in Ops, GiveBack(o)
  PROVE  GateInv'
BY StepPastGate DEF GiveBack, Step, Goto, callVars, clientVars, gateVars, PastGate, Holding

(* Discard (releaseSession) keeps the gate's invariant. *)
LEMMA DiscardGate ==
  ASSUME GateInv, PoolTypeOK', SessionInHand', NEW o \in Ops, Discard(o)
  PROVE  GateInv'
BY StepPastGate DEF Discard, Step, Goto, callVars, clientVars, gateVars, PastGate, Holding

(* LockRefused (lockMutation) keeps the gate's invariant. *)
LEMMA LockRefusedGate ==
  ASSUME GateInv, PoolTypeOK', SessionInHand', NEW o \in Ops, LockRefused(o)
  PROVE  GateInv'
BY StepBeforeGate DEF LockRefused, Step, Goto, callVars, clientVars, gateVars, PastFlock

(* Enqueue (semaphore.Acquire) keeps the gate's invariant. *)
LEMMA EnqueueGate ==
  ASSUME GateInv, PoolTypeOK', SessionInHand', NEW o \in Ops, Enqueue(o)
  PROVE  GateInv'
BY StepBeforeGate DEF Enqueue, Step, Goto, callVars, clientVars, gateVars, PastFlock

(* GateCanceled (semaphore.Acquire) keeps the gate's invariant. *)
LEMMA GateCanceledGate ==
  ASSUME GateInv, PoolTypeOK', SessionInHand', NEW o \in Ops, GateCanceled(o)
  PROVE  GateInv'
BY StepBeforeGate DEF GateCanceled, Step, Goto, callVars, clientVars, gateVars, PastFlock

(* EnterGate (semaphore.Acquire) keeps the gate's invariant. *)
LEMMA EnterGateGate ==
  ASSUME GateInv, PoolTypeOK', SessionInHand', NEW o \in Ops, EnterGate(o)
  PROVE  GateInv'
BY StepIntoGate DEF EnterGate, Step, Goto, callVars, clientVars, gateVars

(* Granted (semaphore.Release) keeps the gate's invariant. *)
LEMMA GrantedGate ==
  ASSUME GateInv, PoolTypeOK', SessionInHand', NEW o \in Ops, Granted(o)
  PROVE  GateInv'
BY StepIntoGate DEF Granted, Step, Goto, callVars, clientVars, gateVars

(* Cancel (the caller's context) keeps the gate's invariant. *)
LEMMA CancelGate ==
  ASSUME GateInv, PoolTypeOK', SessionInHand', NEW o \in Ops, Cancel(o)
  PROVE  GateInv'
BY StepAside DEF Cancel, callVars, clientVars, gateVars

(* WatcherCloses (startCancellationWatcher) keeps the gate's invariant. *)
LEMMA WatcherClosesGate ==
  ASSUME GateInv, PoolTypeOK', SessionInHand', NEW o \in Ops, WatcherCloses(o)
  PROVE  GateInv'
BY StepAside DEF WatcherCloses, callVars, clientVars, gateVars

(* WatcherStops (startCancellationWatcher) keeps the gate's invariant. *)
LEMMA WatcherStopsGate ==
  ASSUME GateInv, PoolTypeOK', SessionInHand', NEW o \in Ops, WatcherStops(o)
  PROVE  GateInv'
BY StepAside DEF WatcherStops, callVars, clientVars, gateVars

(* HangUp (Close, InvalidateCredentials, releaseSession) keeps the gate's invariant. *)
LEMMA HangUpGate ==
  ASSUME GateInv, PoolTypeOK', SessionInHand', NEW o \in Ops, HangUp(o)
  PROVE  GateInv'
BY StepAside DEF HangUp, callVars, clientVars, gateVars

(* HungUp (Close, InvalidateCredentials, releaseSession) keeps the gate's invariant. *)
LEMMA HungUpGate ==
  ASSUME GateInv, PoolTypeOK', SessionInHand', NEW o \in Ops, HungUp(o)
  PROVE  GateInv'
<1> USE DEF HungUp, Return, Goto, clientVars, gateVars, PastGate, Holding, GateInv
<1>1. CASE pc[o] = "evict" \/ pc[o] = "discard" BY <1>1, StepPastGate DEF Step, callVars
<1>2. CASE pc[o] = "hangup" /\ Return(o)
<2>3. Registered'
  BY <1>2 DEF Registered, PoolTypeOK, Mutation, Active, Counted, PastFlock, Steps
<2>4. GateHeld'
  BY <1>2 DEF GateHeld, Registered, PoolTypeOK, Mutation, Active, Counted, PastFlock, Steps
<2>5. ActiveIsCurrent'
  BY <1>2 DEF ActiveIsCurrent, Registered, PoolTypeOK, Mutation, Active, Counted, PastFlock,
      Steps
<2>6. MutationLocked'
  BY <1>2 DEF MutationLocked, PoolTypeOK, Mutation, Active, Counted, PastFlock, Steps
<2> QED BY <2>3, <2>4, <2>5, <2>6
<1> QED BY <1>1, <1>2 DEF Step

(* So does every step of Acquire. *)
LEMMA AcquireGate ==
  ASSUME GateInv, PoolTypeOK', SessionInHand', NEW o \in Ops, Acquire(o)
  PROVE  GateInv'
<1>1. Register(o) => GateInv' BY RegisterGate
<1>2. LockMutation(o) => GateInv' BY LockMutationGate
<1>3. LockRefused(o) => GateInv' BY LockRefusedGate
<1>4. EnterGate(o) => GateInv' BY EnterGateGate
<1>5. Enqueue(o) => GateInv' BY EnqueueGate
<1>6. Granted(o) => GateInv' BY GrantedGate
<1>7. Confirm(o) => GateInv' BY ConfirmGate
<1>8. Interrupted(o) => GateInv' BY InterruptedGate
<1> QED BY <1>1, <1>2, <1>3, <1>4, <1>5, <1>6, <1>7, <1>8 DEF Acquire

(* So does every step of Borrow. *)
LEMMA BorrowGate ==
  ASSUME GateInv, PoolTypeOK', SessionInHand', NEW o \in Ops, Borrow(o)
  PROVE  GateInv'
<1>1. Reuse(o) => GateInv' BY ReuseGate
<1>2. Dial(o) => GateInv' BY DialGate
<1>3. Connected(o) => GateInv' BY ConnectedGate
<1>4. ConnectFails(o) => GateInv' BY ConnectFailsGate
<1>5. Reserve(o) => GateInv' BY ReserveGate
<1>6. EvictIdle(o) => GateInv' BY EvictIdleGate
<1>7. HangUp(o) => GateInv' BY HangUpGate
<1>8. HungUp(o) => GateInv' BY HungUpGate
<1> QED BY <1>1, <1>2, <1>3, <1>4, <1>5, <1>6, <1>7, <1>8 DEF Borrow

(* So does every step of Finish. *)
LEMMA FinishGate ==
  ASSUME GateInv, PoolTypeOK', SessionInHand', NEW o \in Ops, Finish(o)
  PROVE  GateInv'
<1>1. Done(o) => GateInv' BY DoneGate
<1>2. WatcherCloses(o) => GateInv' BY WatcherClosesGate
<1>3. WatcherStops(o) => GateInv' BY WatcherStopsGate
<1>4. GiveBack(o) => GateInv' BY GiveBackGate
<1>5. Discard(o) => GateInv' BY DiscardGate
<1>6. DoneAppend(o) => GateInv' BY DoneAppendGate
<1>7. Unreserve(o) => GateInv' BY UnreserveGate
<1>8. ReleaseGate(o) => GateInv' BY ReleaseGateGate
<1>9. Deregister(o) => GateInv' BY DeregisterGate
<1>10. Unflock(o) => GateInv' BY UnflockGate
<1>11. RUnlock(o) => GateInv' BY RUnlockGate
<1>12. Drain(o) => GateInv' BY DrainGate
<1> QED BY <1>1, <1>2, <1>3, <1>4, <1>5, <1>6, <1>7, <1>8, <1>9, <1>10, <1>11, <1>12 DEF Finish

(* So does every step of Caller. *)
LEMMA CallerGate ==
  ASSUME GateInv, PoolTypeOK', SessionInHand', NEW o \in Ops, Caller(o)
  PROVE  GateInv'
<1>1. Cancel(o) => GateInv' BY CancelGate
<1>2. GateCanceled(o) => GateInv' BY GateCanceledGate
<1>3. GiveUp(o) => GateInv' BY GiveUpGate
<1>4. BeginClose(o) => GateInv' BY BeginCloseGate
<1>5. Invalidate(o) => GateInv' BY InvalidateGate
<1>6. ASSUME NEW request \in Requests, Begin(o, request)
      PROVE  GateInv' BY <1>6, BeginGate
<1> QED BY <1>1, <1>2, <1>3, <1>4, <1>5, <1>6 DEF Caller

(***************************************************************************)
(* The account as its gate sees it.                                        *)
(***************************************************************************)
(* A mutation past the gate has its account for itself. *)
LEMMA AloneFromGate == GateInv => MutationAlone
<1> SUFFICES ASSUME GateInv, NEW o \in Ops, NEW x \in Ops, o # x,
                    Active(o), Active(x), Mutation(o)
             PROVE  Home[x] # Home[o] /\ ~Mutation(x) BY DEF MutationAlone
<1>1. pc[o] \in PastGate /\ pc[x] \in PastGate BY DEF Active, PastGate
<1>2. mine[o] \in Pools /\ o \in gate[mine[o]] /\ x \in gate[mine[x]]
  BY <1>1 DEF GateInv, GateHeld, Registered, Counted, PastFlock
<1>3. Home[x] # Home[o]
 <2>1. SUFFICES ASSUME Home[x] = Home[o] PROVE FALSE OBVIOUS
 <2>2. mine[o] = current[Home[o]] /\ mine[x] = current[Home[o]]
   BY <1>1, <2>1 DEF GateInv, ActiveIsCurrent, Registered, Counted, PastFlock
 <2> QED BY <1>2, <2>2 DEF GateInv, GateHeld
<1>4. ~Mutation(x) BY <1>1 DEF GateInv, MutationLocked, PastFlock
<1> QED BY <1>3, <1>4

(* A step of o other than Confirm moves o alone, and never into the account. *)
OneMoves(o) ==
  /\ \A x \in Ops \ {o} : pc'[x] = pc[x] /\ kind'[x] = kind[x]
  /\ pc'[o] \in Holding => pc[o] \in Holding /\ kind'[o] = kind[o]

(* Every step of Acquire moves o alone. *)
LEMMA AcquireMoves ==
  ASSUME PoolTypeOK, NEW o \in Ops, Acquire(o), ~Confirm(o)
  PROVE  OneMoves(o)
<1> USE DEF OneMoves, PoolTypeOK, Step, Return, Goto, callVars, Holding
<1>1. Register(o) => OneMoves(o) BY DEF Register
<1>2. LockMutation(o) => OneMoves(o) BY DEF LockMutation
<1>3. LockRefused(o) => OneMoves(o) BY DEF LockRefused
<1>4. EnterGate(o) => OneMoves(o) BY DEF EnterGate
<1>5. Enqueue(o) => OneMoves(o) BY DEF Enqueue
<1>6. Granted(o) => OneMoves(o) BY DEF Granted
<1>7. Interrupted(o) => OneMoves(o) BY DEF Interrupted
<1> QED BY <1>1, <1>2, <1>3, <1>4, <1>5, <1>6, <1>7 DEF Acquire

(* Every step of Borrow moves o alone. *)
LEMMA BorrowMoves == ASSUME PoolTypeOK, NEW o \in Ops, Borrow(o) PROVE OneMoves(o)
<1> USE DEF OneMoves, PoolTypeOK, Step, Return, Goto, callVars, Holding
<1>1. Reuse(o) => OneMoves(o) BY DEF Reuse
<1>2. Dial(o) => OneMoves(o) BY DEF Dial
<1>3. Connected(o) => OneMoves(o) BY DEF Connected
<1>4. ConnectFails(o) => OneMoves(o) BY DEF ConnectFails
<1>5. Reserve(o) => OneMoves(o) BY DEF Reserve
<1>6. EvictIdle(o) => OneMoves(o) BY DEF EvictIdle
<1>7. HangUp(o) => OneMoves(o) BY DEF HangUp
<1>8. HungUp(o) => OneMoves(o) BY DEF HungUp
<1> QED BY <1>1, <1>2, <1>3, <1>4, <1>5, <1>6, <1>7, <1>8 DEF Borrow

(* Every step of Finish moves o alone. *)
LEMMA FinishMoves == ASSUME PoolTypeOK, NEW o \in Ops, Finish(o) PROVE OneMoves(o)
<1> USE DEF OneMoves, PoolTypeOK, Step, Return, Goto, callVars, Holding
<1>1. Done(o) => OneMoves(o) BY DEF Done
<1>2. WatcherCloses(o) => OneMoves(o) BY DEF WatcherCloses
<1>3. WatcherStops(o) => OneMoves(o) BY DEF WatcherStops
<1>4. GiveBack(o) => OneMoves(o) BY DEF GiveBack
<1>5. Discard(o) => OneMoves(o) BY DEF Discard
<1>6. DoneAppend(o) => OneMoves(o) BY DEF DoneAppend
<1>7. Unreserve(o) => OneMoves(o) BY DEF Unreserve
<1>8. ReleaseGate(o) => OneMoves(o) BY DEF ReleaseGate
<1>9. Deregister(o) => OneMoves(o) BY DEF Deregister
<1>10. Unflock(o) => OneMoves(o) BY DEF Unflock
<1>11. RUnlock(o) => OneMoves(o) BY DEF RUnlock
<1>12. Drain(o) => OneMoves(o) BY DEF Drain
<1> QED BY <1>1, <1>2, <1>3, <1>4, <1>5, <1>6, <1>7, <1>8, <1>9, <1>10, <1>11, <1>12 DEF Finish

(* Every step of Caller moves o alone. *)
LEMMA CallerMoves == ASSUME PoolTypeOK, NEW o \in Ops, Caller(o) PROVE OneMoves(o)
<1> USE DEF OneMoves, PoolTypeOK, Step, Return, Goto, callVars, Holding
<1>1. Cancel(o) => OneMoves(o) BY DEF Cancel
<1>2. GateCanceled(o) => OneMoves(o) BY DEF GateCanceled
<1>3. GiveUp(o) => OneMoves(o) BY DEF GiveUp
<1>4. BeginClose(o) => OneMoves(o) BY DEF BeginClose
<1>5. Invalidate(o) => OneMoves(o) BY DEF Invalidate
<1>6. (\E request \in Requests : Begin(o, request)) => OneMoves(o) BY DEF Begin, Requests
<1> QED BY <1>1, <1>2, <1>3, <1>4, <1>5, <1>6 DEF Caller

(* Such a step leaves the account or does nothing the gate could see. *)
LEMMA MoveIsLeave ==
  ASSUME PoolTypeOK, PoolTypeOK', NEW o \in Ops, OneMoves(o)
  PROVE  Gate!Leave(o) \/ UNCHANGED [x \in Ops |-> Access(x)]
<1>1. \A x \in Ops \ {o} : Access(x)' = Access(x) BY DEF OneMoves, Access, Active, Mutation
<1>2. CASE Active(o) /\ ~Active(o)'
 <2>1. Access(o) # "none" /\ Access(o)' = "none" BY <1>2 DEF Access
 <2> QED BY <1>1, <2>1 DEF Gate!Leave
<1>3. CASE ~(Active(o) /\ ~Active(o)')
 <2>1. Access(o)' = Access(o) BY <1>3 DEF OneMoves, Access, Active, Mutation
 <2> QED BY <1>1, <2>1
<1> QED BY <1>2, <1>3

(* Confirm enters the account, and meets nobody there it may not meet. *)
LEMMA ConfirmIsEnter ==
  ASSUME GateInv, GateInv', NEW o \in Ops, Confirm(o)
  PROVE  Gate!EnterShared(o) \/ Gate!EnterExclusive(o)
<1>1. /\ pc[o] = "lifecycle" /\ pc'[o] = "borrow" /\ kind' = kind
      /\ \A x \in Ops \ {o} : pc'[x] = pc[x]
  BY DEF Confirm, Step, Goto, callVars, GateInv, PoolTypeOK
<1>2. /\ ~Active(o) /\ Active(o)' /\ \A x \in Ops : Mutation(x)' = Mutation(x)
      /\ \A x \in Ops \ {o} : Active(x)' = Active(x) BY <1>1 DEF Active, Holding, Mutation
<1>3. /\ Access(o) = "none" /\ Access(o)' = IF Mutation(o) THEN "exclusive" ELSE "shared"
      /\ \A x \in Ops \ {o} : Access(x)' = Access(x) BY <1>2 DEF Access
<1>4. \A x \in Ops \ {o} :
        /\ Active(x) /\ Mutation(o) => Home[x] # Home[o] /\ ~Mutation(x)
        /\ Active(x) /\ Mutation(x) => Home[o] # Home[x]
 <2>1. MutationAlone' BY AloneFromGate, PTL
 <2> QED BY <2>1, <1>2 DEF MutationAlone
<1>5. CASE Mutation(o)
 <2>1. [x \in Ops |-> Access(x)]' = [[x \in Ops |-> Access(x)] EXCEPT ![o] = "exclusive"]
   BY <1>3, <1>5
 <2>2. \A x \in Gate!Peers(o) : Access(x) = "none" BY <1>4, <1>5 DEF Gate!Peers, Access
 <2>3. \A x \in Ops : Access(x) # "exclusive" BY <1>3, <1>4, <1>5 DEF Access
 <2> QED BY <1>3, <2>1, <2>2, <2>3 DEF Gate!EnterExclusive, Gate!Peers
<1>6. CASE ~Mutation(o)
 <2>1. [x \in Ops |-> Access(x)]' = [[x \in Ops |-> Access(x)] EXCEPT ![o] = "shared"]
   BY <1>3, <1>6
 <2>2. \A x \in Gate!Peers(o) : Access(x) # "exclusive" BY <1>4 DEF Gate!Peers, Access
 <2> QED BY <1>3, <2>1, <2>2 DEF Gate!EnterShared, Gate!Peers
<1> QED BY <1>5, <1>6

(***************************************************************************)
(* The slots of a pool object.                                             *)
(***************************************************************************)
(* Connecting operations have counted themselves, which Connected relies on *)
(* to trade the attempt for the session.                                    *)
SlotsInv ==
  /\ \A k \in Pools : IsFiniteSet(sessions[k]) /\ IsFiniteSet(connecting[k])
                      /\ IsFiniteSet(dedicated[k])
  /\ \A o \in Ops : pc[o] = "connect" => o \in connecting[mine[o]]
  /\ SlotsBounded

(* One element more adds at most one to a finite set. *)
LEMMA OneMore ==
  ASSUME NEW S, NEW x, IsFiniteSet(S)
  PROVE  /\ IsFiniteSet(S \cup {x}) /\ Cardinality(S \cup {x}) <= Cardinality(S) + 1
         /\ Cardinality(S \cup {x}) \in Nat
<1>1. IsFiniteSet(S \cup {x}) BY FS_AddElement
<1>2. Cardinality(S) \in Nat /\ Cardinality(S \cup {x}) \in Nat BY <1>1, FS_CardinalityType
<1>3. Cardinality(S \cup {x}) = IF x \in S THEN Cardinality(S) ELSE Cardinality(S) + 1
  BY FS_AddElement
<1> QED BY <1>1, <1>2, <1>3

(* One element less. *)
LEMMA OneLess ==
  ASSUME NEW S, NEW x \in S, IsFiniteSet(S)
  PROVE  IsFiniteSet(S \ {x}) /\ Cardinality(S \ {x}) = Cardinality(S) - 1
BY FS_RemoveElement

(* Nobody starts to connect. *)
NoneConnects ==
  \A x \in Ops : pc'[x] = "connect" =>
    pc[x] = "connect" /\ mine'[x] = mine[x] /\ mine[x] \in Pools

(* Steps that leave the slots alone keep the limit. *)
LEMMA SlotsStill ==
  ASSUME SlotsInv, UNCHANGED slotVars, NoneConnects
  PROVE  SlotsInv'
BY DEF SlotsInv, SlotsBounded, Slots, slotVars, NoneConnects

(* A pool object that only loses sessions, attempts and reservations. *)
LEMMA SlotsShrink ==
  ASSUME SlotsInv, NoneConnects,
         \A k \in Pools : /\ sessions'[k] \subseteq sessions[k]
                          /\ connecting'[k] \subseteq connecting[k]
                          /\ dedicated'[k] \subseteq dedicated[k],
         \A x \in Ops : pc'[x] = "connect" => x \in connecting'[mine[x]]
  PROVE  SlotsInv'
<1>1. ASSUME NEW k \in Pools
      PROVE  /\ IsFiniteSet(sessions'[k]) /\ IsFiniteSet(connecting'[k])
             /\ IsFiniteSet(dedicated'[k])
             /\ Slots(k)' <= Limit
 <2>1. /\ IsFiniteSet(sessions'[k]) /\ Cardinality(sessions'[k]) <= Cardinality(sessions[k])
       /\ Cardinality(sessions'[k]) \in Nat /\ Cardinality(sessions[k]) \in Nat
   BY FS_Subset, FS_CardinalityType DEF SlotsInv
 <2>2. /\ IsFiniteSet(connecting'[k])
       /\ Cardinality(connecting'[k]) <= Cardinality(connecting[k])
       /\ Cardinality(connecting'[k]) \in Nat /\ Cardinality(connecting[k]) \in Nat
   BY FS_Subset, FS_CardinalityType DEF SlotsInv
 <2>3. /\ IsFiniteSet(dedicated'[k])
       /\ Cardinality(dedicated'[k]) <= Cardinality(dedicated[k])
       /\ Cardinality(dedicated'[k]) \in Nat /\ Cardinality(dedicated[k]) \in Nat
   BY FS_Subset, FS_CardinalityType DEF SlotsInv
 <2>4. Slots(k) <= Limit BY DEF SlotsInv, SlotsBounded
 <2> QED BY <2>1, <2>2, <2>3, <2>4 DEF Slots
<1> QED BY <1>1 DEF SlotsInv, SlotsBounded, NoneConnects

(* ConnectFails (borrowSession) keeps the limit. *)
LEMMA ConnectFailsSlots ==
  ASSUME PoolTypeOK, Registered, SlotsInv, NEW o \in Ops, ConnectFails(o)
  PROVE  SlotsInv'
<1>1. NoneConnects
  BY DEF ConnectFails, Step, Return, Goto, PoolTypeOK, SlotsInv, NoneConnects, slotVars,
      Registered, Counted, PastFlock, PastGate, Holding
<1>2. \A k \in Pools : /\ sessions'[k] \subseteq sessions[k]
                       /\ connecting'[k] \subseteq connecting[k]
                       /\ dedicated'[k] \subseteq dedicated[k] BY DEF ConnectFails, PoolTypeOK
<1>3. \A x \in Ops : pc'[x] = "connect" => x \in connecting'[mine[x]]
  BY DEF ConnectFails, Step, Return, Goto, PoolTypeOK, SlotsInv, NoneConnects, slotVars,
      Registered, Counted, PastFlock, PastGate, Holding
<1> QED BY <1>1, <1>2, <1>3, SlotsShrink

(* EvictIdle (acquireDedicated) keeps the limit. *)
LEMMA EvictIdleSlots ==
  ASSUME PoolTypeOK, Registered, SlotsInv, NEW o \in Ops, EvictIdle(o)
  PROVE  SlotsInv'
<1>1. NoneConnects
  BY DEF EvictIdle, Step, Return, Goto, PoolTypeOK, SlotsInv, NoneConnects, slotVars,
      Registered, Counted, PastFlock, PastGate, Holding
<1>2. \A k \in Pools : /\ sessions'[k] \subseteq sessions[k]
                       /\ connecting'[k] \subseteq connecting[k]
                       /\ dedicated'[k] \subseteq dedicated[k] BY DEF EvictIdle, PoolTypeOK
<1>3. \A x \in Ops : pc'[x] = "connect" => x \in connecting'[mine[x]]
  BY DEF EvictIdle, Step, Return, Goto, PoolTypeOK, SlotsInv, NoneConnects, slotVars,
      Registered, Counted, PastFlock, PastGate, Holding
<1> QED BY <1>1, <1>2, <1>3, SlotsShrink

(* Discard (releaseSession) keeps the limit. *)
LEMMA DiscardSlots ==
  ASSUME PoolTypeOK, Registered, SlotsInv, NEW o \in Ops, Discard(o)
  PROVE  SlotsInv'
<1>1. NoneConnects
  BY DEF Discard, Step, Return, Goto, PoolTypeOK, SlotsInv, NoneConnects, slotVars,
      Registered, Counted, PastFlock, PastGate, Holding
<1>2. \A k \in Pools : /\ sessions'[k] \subseteq sessions[k]
                       /\ connecting'[k] \subseteq connecting[k]
                       /\ dedicated'[k] \subseteq dedicated[k] BY DEF Discard, PoolTypeOK
<1>3. \A x \in Ops : pc'[x] = "connect" => x \in connecting'[mine[x]]
  BY DEF Discard, Step, Return, Goto, PoolTypeOK, SlotsInv, NoneConnects, slotVars,
      Registered, Counted, PastFlock, PastGate, Holding
<1> QED BY <1>1, <1>2, <1>3, SlotsShrink

(* Unreserve (acquireDedicated) keeps the limit. *)
LEMMA UnreserveSlots ==
  ASSUME PoolTypeOK, Registered, SlotsInv, NEW o \in Ops, Unreserve(o)
  PROVE  SlotsInv'
<1>1. NoneConnects
  BY DEF Unreserve, Step, Return, Goto, PoolTypeOK, SlotsInv, NoneConnects, slotVars,
      Registered, Counted, PastFlock, PastGate, Holding
<1>2. \A k \in Pools : /\ sessions'[k] \subseteq sessions[k]
                       /\ connecting'[k] \subseteq connecting[k]
                       /\ dedicated'[k] \subseteq dedicated[k] BY DEF Unreserve, PoolTypeOK
<1>3. \A x \in Ops : pc'[x] = "connect" => x \in connecting'[mine[x]]
  BY DEF Unreserve, Step, Return, Goto, PoolTypeOK, SlotsInv, NoneConnects, slotVars,
      Registered, Counted, PastFlock, PastGate, Holding
<1> QED BY <1>1, <1>2, <1>3, SlotsShrink

(* Drain (Close) keeps the limit. *)
LEMMA DrainSlots ==
  ASSUME PoolTypeOK, Registered, SlotsInv, NEW o \in Ops, Drain(o)
  PROVE  SlotsInv'
<1>1. NoneConnects
  BY DEF Drain, Step, Return, Goto, PoolTypeOK, SlotsInv, NoneConnects, slotVars, Registered,
      Counted, PastFlock, PastGate, Holding
<1>2. \A k \in Pools : /\ sessions'[k] \subseteq sessions[k]
                       /\ connecting'[k] \subseteq connecting[k]
                       /\ dedicated'[k] \subseteq dedicated[k]
  BY DEF Drain, PoolTypeOK, Pooled
<1>3. \A x \in Ops : pc'[x] = "connect" => x \in connecting'[mine[x]]
  BY DEF Drain, Step, Return, Goto, PoolTypeOK, SlotsInv, NoneConnects, slotVars, Registered,
      Counted, PastFlock, PastGate, Holding
<1> QED BY <1>1, <1>2, <1>3, SlotsShrink

(* Invalidate (InvalidateCredentials) keeps the limit. *)
LEMMA InvalidateSlots ==
  ASSUME PoolTypeOK, Registered, SlotsInv, NEW o \in Ops, Invalidate(o)
  PROVE  SlotsInv'
<1>1. NoneConnects
  BY DEF Invalidate, Step, Return, Goto, PoolTypeOK, SlotsInv, NoneConnects, slotVars,
      Registered, Counted, PastFlock, PastGate, Holding
<1>2. \A k \in Pools : /\ sessions'[k] \subseteq sessions[k]
                       /\ connecting'[k] \subseteq connecting[k]
                       /\ dedicated'[k] \subseteq dedicated[k]
  BY DEF Invalidate, PoolTypeOK, Pooled
<1>3. \A x \in Ops : pc'[x] = "connect" => x \in connecting'[mine[x]]
  BY DEF Invalidate, Step, Return, Goto, PoolTypeOK, SlotsInv, NoneConnects, slotVars,
      Registered, Counted, PastFlock, PastGate, Holding
<1> QED BY <1>1, <1>2, <1>3, SlotsShrink

(* Register (poolLocked) keeps the limit. *)
LEMMA RegisterSlots ==
  ASSUME PoolTypeOK, Registered, SlotsInv, NEW o \in Ops, Register(o)
  PROVE  SlotsInv'
<1>1. NoneConnects
  BY DEF Register, Step, Return, Goto, PoolTypeOK, SlotsInv, NoneConnects, slotVars,
      Registered, Counted, PastFlock, PastGate, Holding
<1>2. \A k \in Pools : /\ sessions'[k] \subseteq sessions[k]
                       /\ connecting'[k] \subseteq connecting[k]
                       /\ dedicated'[k] \subseteq dedicated[k]
 <2>1. UNCHANGED <<connecting, dedicated>> BY DEF Register, slotVars
 <2>2. sessions' = sessions \/ \E k \in Pools : sessions' = [sessions EXCEPT ![k] = {}]
   BY DEF Register, slotVars
 <2> QED BY <2>1, <2>2 DEF PoolTypeOK
<1>3. \A x \in Ops : pc'[x] = "connect" => x \in connecting'[mine[x]]
  BY DEF Register, Step, Return, Goto, PoolTypeOK, SlotsInv, NoneConnects, slotVars,
      Registered, Counted, PastFlock, PastGate, Holding
<1> QED BY <1>1, <1>2, <1>3, SlotsShrink

(* Dial (borrowSession) keeps the limit. *)
LEMMA DialSlots ==
  ASSUME PoolTypeOK, Registered, SlotsInv, NEW o \in Ops, Dial(o)
  PROVE  SlotsInv'
<1> DEFINE k == mine[o]
<1>1. k \in Pools /\ pc[o] = "borrow"
  BY DEF Dial, Step, Registered, Counted, PastFlock, PastGate, Holding
<1>2. /\ connecting' = [connecting EXCEPT ![k] = @ \cup {o}]
      /\ UNCHANGED <<sessions, dedicated, mine>> /\ Room(k)
      /\ pc' = [pc EXCEPT ![o] = "connect"] BY DEF Dial, Step, Goto
<1>3. /\ IsFiniteSet(connecting'[k])
      /\ Cardinality(connecting'[k]) <= Cardinality(connecting[k]) + 1
      /\ Cardinality(connecting'[k]) \in Nat
 <2>1. connecting'[k] = connecting[k] \cup {o} BY <1>1, <1>2 DEF PoolTypeOK
 <2>2. IsFiniteSet(connecting[k]) BY <1>1 DEF SlotsInv
 <2>3. /\ IsFiniteSet(connecting[k] \cup {o})
       /\ Cardinality(connecting[k] \cup {o}) <= Cardinality(connecting[k]) + 1
       /\ Cardinality(connecting[k] \cup {o}) \in Nat BY <2>2, OneMore
 <2> QED BY <2>1, <2>3
<1>4. Slots(k)' <= Limit
 <2>1. /\ Cardinality(sessions[k]) \in Nat /\ Cardinality(connecting[k]) \in Nat
       /\ Cardinality(dedicated[k]) \in Nat BY <1>1, FS_CardinalityType DEF SlotsInv
 <2>2. Slots(k)' <= Slots(k) + 1 /\ Slots(k) \in Nat BY <1>2, <1>3, <2>1 DEF Slots
 <2> QED BY <1>2, <1>3, <2>1, <2>2 DEF Room, Slots
<1>5. \A x \in Pools \ {k} : connecting'[x] = connecting[x] BY <1>1, <1>2 DEF PoolTypeOK
<1>6. \A x \in Ops : pc'[x] = "connect" => x \in connecting'[mine'[x]]
  BY <1>1, <1>2, <1>5 DEF SlotsInv, PoolTypeOK
<1> QED BY <1>1, <1>2, <1>3, <1>4, <1>5, <1>6 DEF SlotsInv, SlotsBounded, Slots

(* Reserve (acquireDedicated) keeps the limit. *)
LEMMA ReserveSlots ==
  ASSUME PoolTypeOK, Registered, SlotsInv, NEW o \in Ops, Reserve(o)
  PROVE  SlotsInv'
<1> DEFINE k == mine[o]
<1>1. k \in Pools /\ pc[o] = "borrow"
  BY DEF Reserve, Step, Registered, Counted, PastFlock, PastGate, Holding
<1>2. /\ dedicated' = [dedicated EXCEPT ![k] = @ \cup {o}]
      /\ UNCHANGED <<sessions, connecting, mine>> /\ Room(k)
      /\ pc' = [pc EXCEPT ![o] = "use"] BY DEF Reserve, Step, Goto
<1>3. /\ IsFiniteSet(dedicated'[k])
      /\ Cardinality(dedicated'[k]) <= Cardinality(dedicated[k]) + 1
      /\ Cardinality(dedicated'[k]) \in Nat
 <2>1. dedicated'[k] = dedicated[k] \cup {o} BY <1>1, <1>2 DEF PoolTypeOK
 <2>2. IsFiniteSet(dedicated[k]) BY <1>1 DEF SlotsInv
 <2>3. /\ IsFiniteSet(dedicated[k] \cup {o})
       /\ Cardinality(dedicated[k] \cup {o}) <= Cardinality(dedicated[k]) + 1
       /\ Cardinality(dedicated[k] \cup {o}) \in Nat BY <2>2, OneMore
 <2> QED BY <2>1, <2>3
<1>4. Slots(k)' <= Limit
 <2>1. /\ Cardinality(sessions[k]) \in Nat /\ Cardinality(connecting[k]) \in Nat
       /\ Cardinality(dedicated[k]) \in Nat BY <1>1, FS_CardinalityType DEF SlotsInv
 <2>2. Slots(k)' <= Slots(k) + 1 /\ Slots(k) \in Nat BY <1>2, <1>3, <2>1 DEF Slots
 <2> QED BY <1>2, <1>3, <2>1, <2>2 DEF Room, Slots
<1>5. \A x \in Pools \ {k} : dedicated'[x] = dedicated[x] BY <1>1, <1>2 DEF PoolTypeOK
<1>6. \A x \in Ops : pc'[x] = "connect" => x \in connecting'[mine'[x]]
  BY <1>1, <1>2, <1>5 DEF SlotsInv, PoolTypeOK
<1> QED BY <1>1, <1>2, <1>3, <1>4, <1>5, <1>6 DEF SlotsInv, SlotsBounded, Slots

(* Connected (borrowSession) keeps the limit. *)
LEMMA ConnectedSlots ==
  ASSUME PoolTypeOK, Registered, SlotsInv, NEW o \in Ops, Connected(o)
  PROVE  SlotsInv'
<1> DEFINE k == mine[o]
<1>1. k \in Pools /\ o \in connecting[k]
  BY DEF Connected, Step, Registered, Counted, PastFlock, PastGate, Holding, SlotsInv
<1>2. /\ connecting' = [connecting EXCEPT ![k] = @ \ {o}]
      /\ sessions' = [sessions EXCEPT ![k] = @ \cup {session[o]}]
      /\ UNCHANGED <<dedicated, mine>>
      /\ pc' = [pc EXCEPT ![o] = "use"] BY DEF Connected, Step, Goto
<1>3. /\ connecting'[k] = connecting[k] \ {o} /\ sessions'[k] = sessions[k] \cup {session[o]}
      /\ \A x \in Pools \ {k} : connecting'[x] = connecting[x] /\ sessions'[x] = sessions[x]
  BY <1>1, <1>2 DEF PoolTypeOK
<1>4. IsFiniteSet(connecting[k]) /\ IsFiniteSet(sessions[k]) /\ IsFiniteSet(dedicated[k])
  BY <1>1 DEF SlotsInv
<1>5. IsFiniteSet(connecting'[k]) /\ Cardinality(connecting'[k]) = Cardinality(connecting[k]) - 1
 <2>1. /\ IsFiniteSet(connecting[k] \ {o})
       /\ Cardinality(connecting[k] \ {o}) = Cardinality(connecting[k]) - 1
   BY <1>1, <1>4, OneLess
 <2> QED BY <1>3, <2>1
<1>6. IsFiniteSet(sessions'[k]) /\ Cardinality(sessions'[k]) <= Cardinality(sessions[k]) + 1
 <2>1. IsFiniteSet(sessions[k] \cup {session[o]})
       /\ Cardinality(sessions[k] \cup {session[o]}) <= Cardinality(sessions[k]) + 1
   BY <1>4, OneMore
 <2> QED BY <1>3, <2>1
<1>7. Slots(k)' <= Limit
 <2>1. /\ Cardinality(sessions[k]) \in Nat /\ Cardinality(sessions'[k]) \in Nat
       /\ Cardinality(connecting[k]) \in Nat /\ Cardinality(dedicated[k]) \in Nat
   BY <1>4, <1>6, FS_CardinalityType
 <2>2. Slots(k) <= Limit BY <1>1 DEF SlotsInv, SlotsBounded
 <2> QED BY <1>2, <1>5, <1>6, <2>1, <2>2 DEF Slots
<1>8. \A x \in Ops : pc'[x] = "connect" => x \in connecting'[mine'[x]]
  BY <1>1, <1>2, <1>3 DEF SlotsInv, PoolTypeOK
<1> QED BY <1>2, <1>3, <1>4, <1>5, <1>6, <1>7, <1>8 DEF SlotsInv, SlotsBounded, Slots

(* So does every step of Acquire. *)
LEMMA AcquireSlots ==
  ASSUME PoolTypeOK, Registered, SlotsInv, NEW o \in Ops, Acquire(o)
  PROVE  SlotsInv'
<1> USE DEF Step, Return, Goto, PoolTypeOK, NoneConnects, slotVars, Registered, Counted, PastFlock, PastGate, Holding
<1>1. Register(o) => SlotsInv' BY RegisterSlots
<1>2. LockMutation(o) => SlotsInv' BY SlotsStill DEF LockMutation
<1>3. LockRefused(o) => SlotsInv' BY SlotsStill DEF LockRefused
<1>4. EnterGate(o) => SlotsInv' BY SlotsStill DEF EnterGate
<1>5. Enqueue(o) => SlotsInv' BY SlotsStill DEF Enqueue
<1>6. Granted(o) => SlotsInv' BY SlotsStill DEF Granted
<1>7. Confirm(o) => SlotsInv' BY SlotsStill DEF Confirm
<1>8. Interrupted(o) => SlotsInv' BY SlotsStill DEF Interrupted
<1> QED BY <1>1, <1>2, <1>3, <1>4, <1>5, <1>6, <1>7, <1>8 DEF Acquire

(* So does every step of Borrow. *)
LEMMA BorrowSlots ==
  ASSUME PoolTypeOK, Registered, SlotsInv, NEW o \in Ops, Borrow(o)
  PROVE  SlotsInv'
<1>1. Reuse(o) => SlotsInv'
  BY SlotsStill DEF Reuse, Step, Return, Goto, PoolTypeOK, NoneConnects, slotVars, Registered,
      Counted, PastFlock, PastGate, Holding
<1>2. Dial(o) => SlotsInv' BY DialSlots
<1>3. Connected(o) => SlotsInv' BY ConnectedSlots
<1>4. ConnectFails(o) => SlotsInv' BY ConnectFailsSlots
<1>5. Reserve(o) => SlotsInv' BY ReserveSlots
<1>6. EvictIdle(o) => SlotsInv' BY EvictIdleSlots
<1>7. HangUp(o) => SlotsInv'
  BY SlotsStill DEF HangUp, Step, Return, Goto, PoolTypeOK, NoneConnects, slotVars,
      Registered, Counted, PastFlock, PastGate, Holding
<1>8. HungUp(o) => SlotsInv'
  BY SlotsStill DEF HungUp, Step, Return, Goto, PoolTypeOK, NoneConnects, slotVars,
      Registered, Counted, PastFlock, PastGate, Holding
<1> QED BY <1>1, <1>2, <1>3, <1>4, <1>5, <1>6, <1>7, <1>8 DEF Borrow

(* So does every step of Finish. *)
LEMMA FinishSlots ==
  ASSUME PoolTypeOK, Registered, SlotsInv, NEW o \in Ops, Finish(o)
  PROVE  SlotsInv'
<1>1. Done(o) => SlotsInv'
  BY SlotsStill DEF Done, Step, Return, Goto, PoolTypeOK, NoneConnects, slotVars, Registered,
      Counted, PastFlock, PastGate, Holding
<1>2. WatcherCloses(o) => SlotsInv'
  BY SlotsStill DEF WatcherCloses, Step, Return, Goto, PoolTypeOK, NoneConnects, slotVars,
      Registered, Counted, PastFlock, PastGate, Holding
<1>3. WatcherStops(o) => SlotsInv'
  BY SlotsStill DEF WatcherStops, Step, Return, Goto, PoolTypeOK, NoneConnects, slotVars,
      Registered, Counted, PastFlock, PastGate, Holding
<1>4. GiveBack(o) => SlotsInv'
  BY SlotsStill DEF GiveBack, Step, Return, Goto, PoolTypeOK, NoneConnects, slotVars,
      Registered, Counted, PastFlock, PastGate, Holding
<1>5. Discard(o) => SlotsInv' BY DiscardSlots
<1>6. DoneAppend(o) => SlotsInv'
  BY SlotsStill DEF DoneAppend, Step, Return, Goto, PoolTypeOK, NoneConnects, slotVars,
      Registered, Counted, PastFlock, PastGate, Holding
<1>7. Unreserve(o) => SlotsInv' BY UnreserveSlots
<1>8. ReleaseGate(o) => SlotsInv'
  BY SlotsStill DEF ReleaseGate, Step, Return, Goto, PoolTypeOK, NoneConnects, slotVars,
      Registered, Counted, PastFlock, PastGate, Holding
<1>9. Deregister(o) => SlotsInv'
  BY SlotsStill DEF Deregister, Step, Return, Goto, PoolTypeOK, NoneConnects, slotVars,
      Registered, Counted, PastFlock, PastGate, Holding
<1>10. Unflock(o) => SlotsInv'
  BY SlotsStill DEF Unflock, Step, Return, Goto, PoolTypeOK, NoneConnects, slotVars,
      Registered, Counted, PastFlock, PastGate, Holding
<1>11. RUnlock(o) => SlotsInv'
  BY SlotsStill DEF RUnlock, Step, Return, Goto, PoolTypeOK, NoneConnects, slotVars,
      Registered, Counted, PastFlock, PastGate, Holding
<1>12. Drain(o) => SlotsInv' BY DrainSlots
<1> QED BY <1>1, <1>2, <1>3, <1>4, <1>5, <1>6, <1>7, <1>8, <1>9, <1>10, <1>11, <1>12 DEF Finish

(* So does every step of Caller. *)
LEMMA CallerSlots ==
  ASSUME PoolTypeOK, Registered, SlotsInv, NEW o \in Ops, Caller(o)
  PROVE  SlotsInv'
<1> USE DEF Step, Goto, PoolTypeOK, NoneConnects, slotVars, Registered, Counted, PastFlock, PastGate, Holding
<1>1. Cancel(o) => SlotsInv' BY SlotsStill DEF Cancel, Return
<1>2. GateCanceled(o) => SlotsInv' BY SlotsStill DEF GateCanceled, Return
<1>3. GiveUp(o) => SlotsInv' BY SlotsStill DEF GiveUp, Return
<1>4. BeginClose(o) => SlotsInv' BY SlotsStill DEF BeginClose, Return
<1>5. Invalidate(o) => SlotsInv' BY InvalidateSlots
<1>6. (\E request \in Requests : Begin(o, request)) => SlotsInv' BY SlotsStill DEF Begin
<1> QED BY <1>1, <1>2, <1>3, <1>4, <1>5, <1>6 DEF Caller

(***************************************************************************)
(* The theorems.                                                           *)
(***************************************************************************)
(* A client starts without pools, locks and borrowers. *)
LEMMA PoolStarts == Init => GateInv
BY DEF Init, GateInv, PoolTypeOK, SessionInHand, Registered, GateHeld, ActiveIsCurrent,
       MutationLocked, Steps, Kinds, Counted, PastFlock, PastGate, Holding, Active, Mutation

(* No step of pool.go breaks the invariant. *)
LEMMA PoolPreserves == GateInv /\ [Next]_vars => GateInv'
<1> SUFFICES ASSUME GateInv, [Next]_vars PROVE GateInv' OBVIOUS
<1>1. ASSUME NEW o \in Ops, Acquire(o) PROVE GateInv'
  BY <1>1, AcquireTypes, AcquireGate DEF GateInv
<1>2. ASSUME NEW o \in Ops, Borrow(o) PROVE GateInv'
  BY <1>2, BorrowTypes, BorrowGate DEF GateInv
<1>3. ASSUME NEW o \in Ops, Finish(o) PROVE GateInv'
  BY <1>3, FinishTypes, FinishGate DEF GateInv
<1>4. ASSUME NEW o \in Ops, Caller(o) PROVE GateInv'
  BY <1>4, CallerTypes, CallerGate DEF GateInv
<1>5. CASE UNCHANGED vars
  BY <1>5 DEF vars, callVars, watchVars, clientVars, slotVars, gateVars, connVars, GateInv,
     PoolTypeOK, SessionInHand, Registered, GateHeld, ActiveIsCurrent, MutationLocked, Active,
     Mutation
<1> QED BY <1>1, <1>2, <1>3, <1>4, <1>5 DEF Next

(* The invariant behind the gate holds of every run of acquireOperation,   *)
(* borrowSession, acquireDedicated, releaseOperation, Close and            *)
(* InvalidateCredentials.                                                  *)
THEOREM GateInvariant == Spec => []GateInv
<1>1. Init => GateInv BY PoolStarts
<1>2. GateInv /\ [Next]_vars => GateInv' BY PoolPreserves
<1> QED BY <1>1, <1>2, PTL DEF Spec

(* A mutation past the gate has the account for itself in its process, and *)
(* no other process mutates it (operation_contract.go).                    *)
THEOREM MutationsAlone == Spec => []MutationAlone
BY GateInvariant, AloneFromGate, PTL

(* The initial states of the pool map to the gate's. *)
LEMMA GateStarts == Init => Gate!GateInit
BY DEF Init, Gate!GateInit, Access, Active, Holding

(* Every step of the pool is a step of the gate or stutters there. *)
LEMMA GateStep ==
  GateInv /\ GateInv' /\ [Next]_vars => [Gate!GateNext]_([o \in Ops |-> Access(o)])
<1> SUFFICES ASSUME GateInv, GateInv', [Next]_vars
             PROVE  Gate!GateNext \/ UNCHANGED [o \in Ops |-> Access(o)] OBVIOUS
<1> USE DEF GateInv
<1>1. ASSUME NEW o \in Ops, OneMoves(o)
      PROVE  Gate!GateNext \/ UNCHANGED [x \in Ops |-> Access(x)]
  BY <1>1, MoveIsLeave DEF Gate!GateNext
<1>2. ASSUME NEW o \in Ops, Confirm(o)
      PROVE  Gate!GateNext BY <1>2, ConfirmIsEnter DEF Gate!GateNext
<1>3. ASSUME NEW o \in Ops, Acquire(o), ~Confirm(o) PROVE OneMoves(o) BY <1>3, AcquireMoves
<1>4. ASSUME NEW o \in Ops, Borrow(o) \/ Finish(o) \/ Caller(o) PROVE OneMoves(o)
  BY <1>4, BorrowMoves, FinishMoves, CallerMoves
<1>5. CASE UNCHANGED vars BY <1>5 DEF vars, callVars, Access, Active, Mutation
<1> QED BY <1>1, <1>2, <1>3, <1>4, <1>5 DEF Next

(* The pool, its flock and its lifecycle lock implement the account's gate. *)
THEOREM PoolImplementsGate == Spec => ImplementsGate
<1>1. Init => Gate!GateInit BY GateStarts
<1>2. GateInv /\ GateInv' /\ [Next]_vars => [Gate!GateNext]_([o \in Ops |-> Access(o)])
  BY GateStep
<1> QED BY <1>1, <1>2, GateInvariant, PTL DEF Spec, ImplementsGate, Gate!GateSpec

(* A client starts without sessions. *)
LEMMA SlotsStart == Init => SlotsInv
BY FS_EmptySet DEF Init, SlotsInv, SlotsBounded, Slots

(* No step of pool.go exceeds the limit. *)
LEMMA SlotsPreserved == GateInv /\ SlotsInv /\ [Next]_vars => SlotsInv'
<1> SUFFICES ASSUME GateInv, SlotsInv, [Next]_vars PROVE SlotsInv' OBVIOUS
<1>1. ASSUME NEW o \in Ops, Acquire(o) PROVE SlotsInv' BY <1>1, AcquireSlots DEF GateInv
<1>2. ASSUME NEW o \in Ops, Borrow(o) PROVE SlotsInv' BY <1>2, BorrowSlots DEF GateInv
<1>3. ASSUME NEW o \in Ops, Finish(o) PROVE SlotsInv' BY <1>3, FinishSlots DEF GateInv
<1>4. ASSUME NEW o \in Ops, Caller(o) PROVE SlotsInv' BY <1>4, CallerSlots DEF GateInv
<1>5. CASE UNCHANGED vars BY <1>5 DEF vars, slotVars, SlotsInv, SlotsBounded, Slots
<1> QED BY <1>1, <1>2, <1>3, <1>4, <1>5 DEF Next

(* Sessions, attempts and dedicated connections of a pool object never     *)
(* exceed connectionLimit() (borrowSession, acquireDedicated).             *)
THEOREM SlotsNeverExceeded == Spec => []SlotsBounded
<1>1. Init => SlotsInv BY SlotsStart
<1>2. GateInv /\ SlotsInv /\ [Next]_vars => SlotsInv' BY SlotsPreserved
<1>3. SlotsInv => SlotsBounded BY DEF SlotsInv
<1> QED BY <1>1, <1>2, <1>3, GateInvariant, PTL DEF Spec

(***************************************************************************)
(* Whose connection it is.                                                 *)
(***************************************************************************)
(* A pooled session is borrowed until it is given back or discarded; a     *)
(* connection being dialled and an append's own are in no pool.            *)
Borrowed(o) == pc[o] \in {"use", "join"} /\ kind[o] # "append"
Private(o) == pc[o] = "connect" \/ (pc[o] = "use" /\ kind[o] = "append")

(* Each connection in hand is in one operation's hand. *)
Hands ==
  /\ \A o \in Ops :
       /\ session[o] # NoConn => Borrowed(o) \/ Private(o)
       /\ pc[o] \in {"connect", "join", "discard"} => kind[o] # "append"
       /\ pc[o] \in {"evict", "undedicate"} => kind[o] = "append"
  /\ \A o, x \in Ops : o # x /\ session[o] # NoConn => session[o] # session[x]

(* One to be hung up is so by one goroutine, and nobody else's. *)
Drops ==
  /\ \A o \in Ops : drop[o] # {} => pc[o] \in {"evict", "discard", "hangup"}
  /\ \A o \in Ops : pc[o] \in {"evict", "discard"} => \A n, m \in drop[o] : n = m
  /\ \A o, x \in Ops : \A n \in drop[o] : session[x] # n /\ (o # x => n \notin drop[x])
  /\ \A o \in Ops : \A n \in drop[o] : \A k \in Pools : n \notin sessions[k]

(* Only a client's current pool object has sessions, and no two share one. *)
Separate ==
  /\ \A k, j \in Pools : \A n \in sessions[k] : k # j => n \notin sessions[j]
  /\ \A c, d \in Clients : c # d /\ current[c] # NoPool => current[c] # current[d]
  /\ \A k \in Pools : \A n \in sessions[k] : \E c \in Clients : current[c] = k

(* A borrowed session stays in its pool, marked as used, and stays open    *)
(* until its borrower is canceled.                                         *)
Lent ==
  \A o \in Ops : Borrowed(o) =>
    /\ session[o] \in sessions[mine[o]] /\ session[o] \in inUse
    /\ o \in canceled \/ session[o] \in open

(* A connection of the operation's own is open and in no pool. *)
Unpooled ==
  \A o \in Ops : Private(o) =>
    /\ session[o] \in open /\ session[o] \notin inUse
    /\ \A k \in Pools : session[o] \notin sessions[k]

(* Nothing else is marked as used, and nobody else watched. *)
Marked == \A n \in inUse : \E o \in Ops : Borrowed(o) /\ session[o] = n
Watched == \A o \in canceled \cup watched : Borrowed(o)

(* An idle session is open and authenticated under the current generation. *)
Usable ==
  \A k \in Pools : \A n \in IdleSessions(k) :
    n \in open /\ n \notin invalid /\ \A c \in Clients : current[c] = k => tag[n] = creds[c]

(* An open connection is in a pool, in hand or about to be hung up. *)
Kept ==
  \A n \in open : \/ \E k \in Pools : n \in sessions[k]
                  \/ \E x \in Ops : session[x] = n \/ n \in drop[x]

OwnInv == Hands /\ Drops /\ Separate /\ Lent /\ Unpooled /\ Marked /\ Watched /\ Usable /\ Kept

OwnSteps == {"connect", "use", "join", "evict", "discard", "undedicate", "hangup"}

(* o's step moves nobody else. *)
Alone(o) == \A x \in Ops \ {o} : pc'[x] = pc[x] /\ kind'[x] = kind[x] /\ mine'[x] = mine[x]

(* HungUp moves on, and nobody else. *)
LEMMA HungUpDoes ==
  ASSUME PoolTypeOK, NEW o \in Ops, HungUp(o)
  PROVE  /\ Alone(o)
         /\ pc[o] \in {"evict", "discard", "hangup"} /\ pc'[o] \in {"borrow", "rgate", "idle"}
<1>1. \/ pc[o] = "evict" /\ pc' = [pc EXCEPT ![o] = "borrow"] /\ kind' = kind
      \/ pc[o] = "discard" /\ pc' = [pc EXCEPT ![o] = "rgate"] /\ kind' = kind
      \/ pc[o] = "hangup" /\ pc' = [pc EXCEPT ![o] = "idle"]
            /\ kind' = [kind EXCEPT ![o] = "none"] BY DEF HungUp, Step, Return, Goto, callVars
<1>2. pc[o] \in {"evict", "discard", "hangup"} /\ pc'[o] \in {"borrow", "rgate", "idle"}
  BY <1>1 DEF PoolTypeOK
<1>3. \A x \in Ops \ {o} : pc'[x] = pc[x] /\ kind'[x] = kind[x] BY <1>1 DEF PoolTypeOK
<1>4. mine' = mine BY DEF HungUp
<1> QED BY <1>2, <1>3, <1>4 DEF Alone

(* The active operations of a client share its current pool object. *)
LEMMA ActivePool ==
  ASSUME GateInv, NEW o \in Ops, Active(o)
  PROVE  mine[o] \in Pools /\ mine[o] = current[Home[o]] /\ Home[o] \in Clients
BY DEF GateInv, ActiveIsCurrent, Registered, Counted, PastFlock, PastGate, Active, Holding

(* And those of different clients have different ones. *)

(* An idle session is in nobody's hands. *)
LEMMA IdleIsNobodys ==
  ASSUME GateInv, OwnInv, NEW k \in Pools, NEW n \in IdleSessions(k)
  PROVE  /\ n \in sessions[k] /\ n \notin inUse /\ n \in Conns
         /\ \A x \in Ops : session[x] # n /\ n \notin drop[x]
<1>1. n \in sessions[k] /\ n \notin inUse BY DEF IdleSessions
<1>2. n \in Conns BY <1>1 DEF GateInv, PoolTypeOK
<1>3. ASSUME NEW x \in Ops PROVE session[x] # n
  BY <1>1, <1>2 DEF OwnInv, Hands, Lent, Unpooled
<1>4. ASSUME NEW x \in Ops PROVE n \notin drop[x] BY <1>1 DEF OwnInv, Drops
<1> QED BY <1>1, <1>2, <1>3, <1>4

(* Borrowers use their client's current pool object. *)
LEMMA BorrowedPool ==
  ASSUME GateInv, NEW x \in Ops, Borrowed(x)
  PROVE  mine[x] \in Pools /\ mine[x] = current[Home[x]]
BY ActivePool DEF Borrowed, Active, Holding

(* A connection that is opened or shut leaves the others as they were. *)
OthersKept(n) == \A m \in Conns \ {n} : /\ m \in invalid' => m \in invalid
                                       /\ tag'[m] = tag[m]
                                       /\ m \in open' <=> m \in open

(* Shut closes one (Close on the connection). *)
LEMMA ShutAlone == ASSUME PoolTypeOK, NEW n, Shut(n) PROVE OthersKept(n)
BY DEF Shut, OthersKept, PoolTypeOK

(* Open adds one (connectSession). *)
LEMMA OpenAlone ==
  ASSUME PoolTypeOK, NEW o, NEW n, NEW g, Open(o, n, g) PROVE OthersKept(n)
BY DEF Open, OthersKept, PoolTypeOK

(* Steps of o that touch no connection, from which it ends with none. *)
LEMMA OwnStill ==
  ASSUME GateInv, OwnInv, NEW o \in Ops, Alone(o),
         UNCHANGED <<session, drop, watchVars, current, creds, sessions, connVars>>,
         session[o] = NoConn, drop[o] = {}, ~Borrowed(o), pc'[o] \notin OwnSteps
  PROVE  OwnInv'
<1> USE DEF OwnInv
<1> USE DEF watchVars, connVars
<1>1. Hands' BY DEF Hands, Alone, Borrowed, Private, OwnSteps
<1>2. Drops' BY DEF Drops, Alone, OwnSteps
<1>3. Separate' BY DEF Separate
<1>4. Lent' BY DEF Lent, Alone, Borrowed, OwnSteps
<1>5. Unpooled' BY DEF Unpooled, Alone, Private, OwnSteps
<1>6. Marked' BY DEF Marked, Alone, Borrowed, OwnSteps
<1>7. Watched' BY DEF Watched, Alone, Borrowed, OwnSteps, GateInv, PoolTypeOK
<1>8. Usable' BY DEF Usable, IdleSessions
<1>9. Kept' BY DEF Kept
<1> QED BY <1>1, <1>2, <1>3, <1>4, <1>5, <1>6, <1>7, <1>8, <1>9

(* Reuse (borrowSession). *)
LEMMA ReuseOwn ==
  ASSUME GateInv, OwnInv, NEW o \in Ops, Reuse(o)
  PROVE  OwnInv'
<1> USE DEF OwnInv
<1>1. PICK n \in Reusable(o) : inUse' = inUse \cup {n} /\ session' = [session EXCEPT ![o] = n]
  BY DEF Reuse
<1>2. /\ pc[o] = "borrow" /\ kind[o] # "append" /\ pc' = [pc EXCEPT ![o] = "use"]
      /\ watched' = watched \cup {o}
      /\ UNCHANGED <<kind, mine, drop, canceled, current, creds, sessions, open, invalid, tag>>
  BY DEF Reuse, Step, Goto, callVars, clientVars, slotVars
<1>3. mine[o] \in Pools /\ n \in sessions[mine[o]] /\ n \notin inUse /\ n \in Conns
      /\ n # NoConn
  BY <1>2, ActivePool DEF Reusable, IdleSessions, Active, Holding, GateInv, PoolTypeOK
<1>4. n \in open BY <1>3 DEF Usable, IdleSessions
<1>5. \A x \in Ops : session[x] # n
  BY <1>2, <1>3 DEF Hands, Lent, Unpooled, IdleSessions, Reusable
<1>6. /\ pc'[o] = "use" /\ session'[o] = n /\ session[o] = NoConn /\ drop[o] = {}
      /\ \A x \in Ops \ {o} : pc'[x] = pc[x] /\ session'[x] = session[x]
  BY ZenonT(60), <1>1, <1>2 DEF GateInv, PoolTypeOK, Hands, Drops, Borrowed, Private
<1>7. Hands' BY <1>2, <1>5, <1>6 DEF Hands, Borrowed, Private
<1>8. Drops' BY <1>2, <1>3, <1>6 DEF Drops
<1>9. Separate' BY <1>2 DEF Separate
<1>10. Lent' BY <1>1, <1>2, <1>3, <1>4, <1>6 DEF Lent, Borrowed
<1>11. Unpooled' BY <1>1, <1>2, <1>3, <1>6 DEF Unpooled, Private
<1>12. Marked' BY <1>1, <1>2, <1>6 DEF Marked, Borrowed
<1>13. Watched' BY <1>2, <1>6 DEF Watched, Borrowed, GateInv, PoolTypeOK
<1>14. Usable' BY <1>1, <1>2 DEF Usable, IdleSessions
<1>15. Kept'
 <2>1. \A m \in open : \A x \in Ops : session[x] = m => session'[x] = m
   BY <1>6 DEF GateInv, PoolTypeOK
 <2> QED BY <1>2, <2>1 DEF Kept
<1> QED BY <1>7, <1>8, <1>9, <1>10, <1>11, <1>12, <1>13, <1>14, <1>15

(* Dial (borrowSession). *)
LEMMA DialOwn ==
  ASSUME GateInv, OwnInv, NEW o \in Ops, Dial(o)
  PROVE  OwnInv'
<1> USE DEF OwnInv
<1>1. PICK n \in Conns : Open(o, n, creds[Home[o]]) BY DEF Dial
<1>2. /\ pc[o] = "borrow" /\ kind[o] # "append" /\ pc' = [pc EXCEPT ![o] = "connect"]
      /\ UNCHANGED <<kind, mine, drop, canceled, watched, current, sessions, inUse>>
      /\ open' = open \cup {n} /\ session' = [session EXCEPT ![o] = n]
  BY <1>1 DEF Dial, Step, Goto, Open, callVars, watchVars, clientVars
<1>3. /\ n # NoConn /\ n \notin inUse
      /\ \A x \in Ops : session[x] # n /\ n \notin drop[x]
      /\ \A k \in Pools : n \notin sessions[k] BY <1>1 DEF Open, FreeConn, Marked
<1>4. /\ pc'[o] = "connect" /\ session'[o] = n /\ session[o] = NoConn /\ drop[o] = {}
      /\ \A x \in Ops \ {o} : pc'[x] = pc[x] /\ session'[x] = session[x]
  BY <1>2 DEF GateInv, PoolTypeOK, Hands, Drops, Borrowed, Private
<1>5. Hands' BY <1>1, <1>2, <1>3, <1>4 DEF Hands, Borrowed, Private
<1>6. Drops' BY <1>1, <1>2, <1>3, <1>4 DEF Drops
<1>7. Separate' BY <1>1, <1>2, <1>3, <1>4 DEF Separate
<1>8. Lent' BY <1>1, <1>2, <1>3, <1>4 DEF Lent, Borrowed
<1>9. Unpooled' BY <1>1, <1>2, <1>3, <1>4 DEF Unpooled, Hands, Private
<1>10. Marked' BY <1>1, <1>2, <1>3, <1>4 DEF Marked, Borrowed
<1>11. Watched' BY <1>1, <1>2, <1>3, <1>4 DEF Watched, Borrowed, GateInv, PoolTypeOK
<1>12. Usable'
 <2>1. OthersKept(n) /\ UNCHANGED creds BY <1>1, OpenAlone DEF Dial, clientVars, GateInv
 <2>2. \A k \in Pools : sessions[k] \subseteq Conns BY DEF GateInv, PoolTypeOK
 <2> QED BY <1>2, <1>3, <2>1, <2>2 DEF Usable, IdleSessions, OthersKept
<1>13. Kept'
 <2>1. \A m \in open : \A x \in Ops : session[x] = m => session'[x] = m
   BY <1>4 DEF GateInv, PoolTypeOK
 <2> QED BY <1>2, <1>4, <2>1 DEF Kept
<1> QED BY <1>5, <1>6, <1>7, <1>8, <1>9, <1>10, <1>11, <1>12, <1>13

(* Reserve (acquireDedicated). *)
LEMMA ReserveOwn ==
  ASSUME GateInv, OwnInv, NEW o \in Ops, Reserve(o)
  PROVE  OwnInv'
<1> USE DEF OwnInv
<1>1. PICK n \in Conns : Open(o, n, 0) BY DEF Reserve
<1>2. /\ pc[o] = "borrow" /\ kind[o] = "append" /\ pc' = [pc EXCEPT ![o] = "use"]
      /\ UNCHANGED <<kind, mine, drop, canceled, watched, current, sessions, inUse>>
      /\ open' = open \cup {n} /\ session' = [session EXCEPT ![o] = n]
  BY <1>1 DEF Reserve, Step, Goto, Open, callVars, watchVars, clientVars
<1>3. /\ n # NoConn /\ n \notin inUse
      /\ \A x \in Ops : session[x] # n /\ n \notin drop[x]
      /\ \A k \in Pools : n \notin sessions[k] BY <1>1 DEF Open, FreeConn, Marked
<1>4. /\ pc'[o] = "use" /\ session'[o] = n /\ session[o] = NoConn /\ drop[o] = {}
      /\ \A x \in Ops \ {o} : pc'[x] = pc[x] /\ session'[x] = session[x]
  BY <1>2 DEF GateInv, PoolTypeOK, Hands, Drops, Borrowed, Private
<1>5. Hands' BY <1>1, <1>2, <1>3, <1>4 DEF Hands, Borrowed, Private
<1>6. Drops' BY <1>1, <1>2, <1>3, <1>4 DEF Drops
<1>7. Separate' BY <1>1, <1>2, <1>3, <1>4 DEF Separate
<1>8. Lent' BY <1>1, <1>2, <1>3, <1>4 DEF Lent, Borrowed
<1>9. Unpooled' BY <1>1, <1>2, <1>3, <1>4 DEF Unpooled, Hands, Private
<1>10. Marked' BY <1>1, <1>2, <1>3, <1>4 DEF Marked, Borrowed
<1>11. Watched' BY <1>1, <1>2, <1>3, <1>4 DEF Watched, Borrowed, GateInv, PoolTypeOK
<1>12. Usable'
 <2>1. OthersKept(n) /\ UNCHANGED creds BY <1>1, OpenAlone DEF Reserve, clientVars, GateInv
 <2>2. \A k \in Pools : sessions[k] \subseteq Conns BY DEF GateInv, PoolTypeOK
 <2> QED BY <1>2, <1>3, <2>1, <2>2 DEF Usable, IdleSessions, OthersKept
<1>13. Kept'
 <2>1. \A m \in open : \A x \in Ops : session[x] = m => session'[x] = m
   BY <1>4 DEF GateInv, PoolTypeOK
 <2> QED BY <1>2, <1>4, <2>1 DEF Kept
<1> QED BY <1>5, <1>6, <1>7, <1>8, <1>9, <1>10, <1>11, <1>12, <1>13

(* Connected (borrowSession). *)
LEMMA ConnectedOwn ==
  ASSUME GateInv, OwnInv, NEW o \in Ops, Connected(o)
  PROVE  OwnInv'
<1> USE DEF OwnInv
<1>1. /\ pc[o] = "connect" /\ pc' = [pc EXCEPT ![o] = "use"]
      /\ sessions' = [sessions EXCEPT ![mine[o]] = @ \cup {session[o]}]
      /\ inUse' = inUse \cup {session[o]} /\ watched' = watched \cup {o}
      /\ UNCHANGED <<kind, mine, session, drop, canceled, current, open>>
  BY DEF Connected, Step, Goto, callVars, clientVars
<1>2. mine[o] \in Pools /\ mine[o] = current[Home[o]] /\ Home[o] \in Clients
  BY <1>1, ActivePool DEF Active, Holding
<1>3. /\ kind[o] # "append" /\ session[o] # NoConn /\ session[o] \in open
      /\ session[o] \notin inUse
      /\ \A k \in Pools : session[o] \notin sessions[k]
  BY <1>1 DEF Hands, Unpooled, Private, GateInv, SessionInHand
<1>4. /\ pc'[o] = "use" /\ \A x \in Ops \ {o} : pc'[x] = pc[x]
      /\ \A k \in Pools : sessions'[k] = IF k = mine[o] THEN sessions[k] \cup {session[o]}
                                                      ELSE sessions[k]
  BY <1>1 DEF GateInv, PoolTypeOK
<1>5. Hands' BY <1>1, <1>2, <1>3, <1>4 DEF Hands, Borrowed, Private
<1>6. Drops' BY <1>1, <1>2, <1>3, <1>4 DEF Drops
<1>7. Separate' BY <1>1, <1>2, <1>3, <1>4 DEF Separate
<1>8. Lent' BY <1>1, <1>2, <1>3, <1>4 DEF Lent, Borrowed
<1>9. Unpooled' BY <1>1, <1>2, <1>3, <1>4 DEF Unpooled, Hands, Private
<1>10. Marked' BY <1>1, <1>2, <1>3, <1>4 DEF Marked, Borrowed
<1>11. Watched' BY <1>1, <1>2, <1>3, <1>4 DEF Watched, Borrowed, GateInv, PoolTypeOK
<1>12. Usable'
 <2>1. UNCHANGED <<creds, invalid, tag>> BY DEF Connected, clientVars
 <2> QED BY <1>1, <1>3, <1>4, <2>1 DEF Usable, IdleSessions
<1>13. Kept' BY <1>1, <1>2, <1>3, <1>4 DEF Kept
<1> QED BY <1>5, <1>6, <1>7, <1>8, <1>9, <1>10, <1>11, <1>12, <1>13

(* ConnectFails (borrowSession). *)
LEMMA ConnectFailsOwn ==
  ASSUME GateInv, OwnInv, NEW o \in Ops, ConnectFails(o)
  PROVE  OwnInv'
<1>1. /\ pc[o] = "connect" /\ pc' = [pc EXCEPT ![o] = "rgate"]
      /\ open' = open \ {session[o]} /\ session' = [session EXCEPT ![o] = NoConn]
      /\ UNCHANGED <<kind, mine, drop, canceled, watched, current, sessions, inUse>>
  BY DEF ConnectFails, Step, Goto, Shut, callVars, watchVars, clientVars, slotVars
<1>2. /\ session[o] # NoConn /\ session[o] \notin inUse /\ drop[o] = {}
      /\ \A k \in Pools : session[o] \notin sessions[k]
      /\ \A x \in Ops \ {o} : session[x] # session[o]
 <2>1. session[o] \in Conns /\ session[o] \notin inUse
       /\ \A k \in Pools : session[o] \notin sessions[k]
   BY <1>1 DEF OwnInv, Unpooled, Private, GateInv, SessionInHand
 <2>2. session[o] # NoConn BY <2>1
 <2>3. drop[o] = {} BY <1>1 DEF OwnInv, Drops
 <2>4. \A x \in Ops \ {o} : session[x] # session[o] BY <2>2 DEF OwnInv, Hands
 <2> QED BY <2>1, <2>2, <2>3, <2>4
<1>3. /\ pc'[o] = "rgate" /\ session'[o] = NoConn
      /\ \A x \in Ops \ {o} : pc'[x] = pc[x] /\ session'[x] = session[x]
  BY <1>1 DEF GateInv, PoolTypeOK
<1>4. NoConn \notin Conns OBVIOUS
<1>5. \A x \in Ops : drop[x] \subseteq Conns BY DEF GateInv, PoolTypeOK
<1>6. Hands' BY <1>1, <1>2, <1>3, <1>4, <1>5 DEF OwnInv, Hands, Borrowed, Private
<1>7. Drops' BY <1>1, <1>2, <1>3, <1>4, <1>5 DEF OwnInv, Drops
<1>8. Separate' BY <1>1, <1>2, <1>3, <1>4, <1>5 DEF OwnInv, Separate
<1>9. Lent' BY <1>1, <1>2, <1>3, <1>4, <1>5 DEF OwnInv, Lent, Borrowed
<1>10. Unpooled' BY <1>1, <1>2, <1>3, <1>4, <1>5 DEF OwnInv, Unpooled, Hands, Private
<1>11. Marked' BY <1>1, <1>2, <1>3, <1>4, <1>5 DEF OwnInv, Marked, Borrowed
<1>12. Watched'
  BY <1>1, <1>2, <1>3, <1>4, <1>5 DEF OwnInv, Watched, Borrowed, GateInv, PoolTypeOK
<1>13. Usable'
 <2>1. OthersKept(session[o]) /\ UNCHANGED creds
   BY ShutAlone DEF ConnectFails, clientVars, GateInv
 <2>2. \A k \in Pools : sessions[k] \subseteq Conns BY DEF GateInv, PoolTypeOK
 <2> QED BY <1>1, <1>2, <2>1, <2>2 DEF OwnInv, Usable, IdleSessions, OthersKept
<1>14. Kept' BY <1>1, <1>2, <1>3, <1>4, <1>5 DEF OwnInv, Kept
<1> QED BY <1>6, <1>7, <1>8, <1>9, <1>10, <1>11, <1>12, <1>13, <1>14 DEF OwnInv

(* DoneAppend (AppendToSent). *)
LEMMA DoneAppendOwn ==
  ASSUME GateInv, OwnInv, NEW o \in Ops, DoneAppend(o)
  PROVE  OwnInv'
<1>1. /\ pc[o] = "use" /\ pc' = [pc EXCEPT ![o] = "undedicate"]
      /\ kind[o] = "append"
      /\ open' = open \ {session[o]} /\ session' = [session EXCEPT ![o] = NoConn]
      /\ UNCHANGED <<kind, mine, drop, canceled, watched, current, sessions, inUse>>
  BY DEF DoneAppend, Step, Goto, Shut, callVars, watchVars, clientVars, slotVars
<1>2. /\ session[o] # NoConn /\ session[o] \notin inUse /\ drop[o] = {}
      /\ \A k \in Pools : session[o] \notin sessions[k]
      /\ \A x \in Ops \ {o} : session[x] # session[o]
 <2>1. session[o] \in Conns /\ session[o] \notin inUse
       /\ \A k \in Pools : session[o] \notin sessions[k]
   BY <1>1 DEF OwnInv, Unpooled, Private, GateInv, SessionInHand
 <2>2. session[o] # NoConn BY <2>1
 <2>3. drop[o] = {} BY <1>1 DEF OwnInv, Drops
 <2>4. \A x \in Ops \ {o} : session[x] # session[o] BY <2>2 DEF OwnInv, Hands
 <2> QED BY <2>1, <2>2, <2>3, <2>4
<1>3. /\ pc'[o] = "undedicate" /\ session'[o] = NoConn
      /\ \A x \in Ops \ {o} : pc'[x] = pc[x] /\ session'[x] = session[x]
  BY <1>1 DEF GateInv, PoolTypeOK
<1>4. NoConn \notin Conns OBVIOUS
<1>5. \A x \in Ops : drop[x] \subseteq Conns BY DEF GateInv, PoolTypeOK
<1>6. Hands' BY <1>1, <1>2, <1>3, <1>4, <1>5 DEF OwnInv, Hands, Borrowed, Private
<1>7. Drops' BY <1>1, <1>2, <1>3, <1>4, <1>5 DEF OwnInv, Drops
<1>8. Separate' BY <1>1, <1>2, <1>3, <1>4, <1>5 DEF OwnInv, Separate
<1>9. Lent' BY <1>1, <1>2, <1>3, <1>4, <1>5 DEF OwnInv, Lent, Borrowed
<1>10. Unpooled' BY <1>1, <1>2, <1>3, <1>4, <1>5 DEF OwnInv, Unpooled, Hands, Private
<1>11. Marked' BY <1>1, <1>2, <1>3, <1>4, <1>5 DEF OwnInv, Marked, Borrowed
<1>12. Watched'
  BY <1>1, <1>2, <1>3, <1>4, <1>5 DEF OwnInv, Watched, Borrowed, GateInv, PoolTypeOK
<1>13. Usable'
 <2>1. OthersKept(session[o]) /\ UNCHANGED creds
   BY ShutAlone DEF DoneAppend, clientVars, GateInv
 <2>2. \A k \in Pools : sessions[k] \subseteq Conns BY DEF GateInv, PoolTypeOK
 <2> QED BY <1>1, <1>2, <2>1, <2>2 DEF OwnInv, Usable, IdleSessions, OthersKept
<1>14. Kept' BY <1>1, <1>2, <1>3, <1>4, <1>5 DEF OwnInv, Kept
<1> QED BY <1>6, <1>7, <1>8, <1>9, <1>10, <1>11, <1>12, <1>13, <1>14 DEF OwnInv

(* EvictIdle (acquireDedicated). *)
LEMMA EvictIdleOwn ==
  ASSUME GateInv, OwnInv, NEW o \in Ops, EvictIdle(o)
  PROVE  OwnInv'
<1> USE DEF OwnInv
<1>1. PICK n \in IdleSessions(mine[o]) :
        /\ sessions' = [sessions EXCEPT ![mine[o]] = @ \ {n}]
        /\ drop' = [drop EXCEPT ![o] = {n}] BY DEF EvictIdle
<1>2. /\ pc[o] = "borrow" /\ kind[o] = "append" /\ pc' = [pc EXCEPT ![o] = "evict"]
      /\ UNCHANGED <<kind, mine, session, canceled, watched, current, open, inUse>>
  BY DEF EvictIdle, Step, Goto, callVars, watchVars, clientVars, connVars
<1>3. mine[o] \in Pools /\ n \in sessions[mine[o]] /\ n \notin inUse /\ n \in Conns
  BY <1>2, ActivePool, IdleIsNobodys DEF Active, Holding
<1>4. /\ \A x \in Ops : session[x] # n /\ n \notin drop[x]
      /\ session[o] = NoConn /\ NoConn # n /\ drop[o] = {}
  BY <1>2, <1>3, IdleIsNobodys DEF Hands, Drops, Borrowed, Private
<1>5. /\ pc'[o] = "evict" /\ drop'[o] = {n}
      /\ \A x \in Ops \ {o} : pc'[x] = pc[x] /\ drop'[x] = drop[x]
      /\ \A k \in Pools : sessions[k] \ {n} \subseteq sessions'[k]
             /\ sessions'[k] \subseteq sessions[k] \ {n}
  BY <1>1, <1>2, <1>3 DEF GateInv, PoolTypeOK, Separate
<1>6. Hands' BY <1>2, <1>3, <1>4, <1>5 DEF Hands, Borrowed, Private
<1>7. Drops' BY <1>2, <1>3, <1>4, <1>5 DEF Drops
<1>8. Separate' BY <1>2, <1>3, <1>4, <1>5 DEF Separate
<1>9. Lent' BY <1>2, <1>3, <1>4, <1>5, BorrowedPool DEF Lent, Borrowed
<1>10. Unpooled' BY <1>2, <1>3, <1>4, <1>5 DEF Unpooled, Hands, Private
<1>11. Marked' BY <1>2, <1>3, <1>4, <1>5 DEF Marked, Borrowed
<1>12. Watched' BY <1>2, <1>3, <1>4, <1>5 DEF Watched, Borrowed, GateInv, PoolTypeOK
<1>13. Usable'
 <2>1. UNCHANGED <<creds, invalid, tag>> BY DEF EvictIdle, clientVars, connVars
 <2> QED BY <1>2, <1>5, <2>1 DEF Usable, IdleSessions
<1>14. Kept' BY <1>2, <1>3, <1>4, <1>5 DEF Kept
<1> QED BY <1>6, <1>7, <1>8, <1>9, <1>10, <1>11, <1>12, <1>13, <1>14

(* Cancel (the caller's context). *)
LEMMA CancelOwn ==
  ASSUME GateInv, OwnInv, NEW o \in Ops, Cancel(o)
  PROVE  OwnInv'
<1> USE DEF OwnInv
<1>1. /\ Borrowed(o) /\ canceled' = canceled \cup {o}
      /\ UNCHANGED <<pc, kind, mine, session, drop, watched, current, sessions, open, inUse>>
  BY DEF Cancel, Borrowed, callVars, clientVars, slotVars, connVars
<1>2. Hands' BY <1>1 DEF Hands, Borrowed, Private
<1>3. Drops' BY <1>1 DEF Drops
<1>4. Separate' BY <1>1 DEF Separate
<1>5. Lent' BY <1>1 DEF Lent, Borrowed
<1>6. Unpooled' BY <1>1 DEF Unpooled, Hands, Private
<1>7. Marked' BY <1>1 DEF Marked, Borrowed
<1>8. Watched' BY <1>1 DEF Watched, Borrowed, GateInv, PoolTypeOK
<1>9. Usable'
 <2>1. UNCHANGED <<creds, invalid, tag>> BY DEF Cancel, clientVars, connVars
 <2> QED BY <1>1, <2>1 DEF Usable, IdleSessions
<1>10. Kept' BY <1>1 DEF Kept
<1> QED BY <1>2, <1>3, <1>4, <1>5, <1>6, <1>7, <1>8, <1>9, <1>10

(* WatcherCloses (startCancellationWatcher). *)
LEMMA WatcherClosesOwn ==
  ASSUME GateInv, OwnInv, NEW o \in Ops, WatcherCloses(o)
  PROVE  OwnInv'
<1> USE DEF OwnInv
<1>1. /\ o \in canceled /\ open' = open \ {session[o]} /\ watched' = watched \ {o}
      /\ UNCHANGED <<pc, kind, mine, session, drop, canceled, current, sessions, inUse>>
  BY DEF WatcherCloses, callVars, clientVars, slotVars
<1>2. Borrowed(o) BY <1>1 DEF Watched
<1>3. session[o] # NoConn /\ \A x \in Ops \ {o} : session[x] # session[o]
  BY <1>2 DEF Hands, Borrowed, GateInv, SessionInHand, PoolTypeOK
<1>4. ~Private(o) BY <1>2 DEF Borrowed, Private
<1>5. Hands' BY <1>1, <1>2, <1>3, <1>4 DEF Hands, Borrowed, Private
<1>6. Drops' BY <1>1, <1>2, <1>3, <1>4 DEF Drops
<1>7. Separate' BY <1>1, <1>2, <1>3, <1>4 DEF Separate
<1>8. Lent' BY <1>1, <1>2, <1>3, <1>4 DEF Lent, Borrowed
<1>9. Unpooled' BY <1>1, <1>2, <1>3, <1>4 DEF Unpooled, Hands, Private
<1>10. Marked' BY <1>1, <1>2, <1>3, <1>4 DEF Marked, Borrowed
<1>11. Watched' BY <1>1, <1>2, <1>3, <1>4 DEF Watched, Borrowed, GateInv, PoolTypeOK
<1>12. Usable'
 <2>1. UNCHANGED <<creds, invalid, tag>> BY DEF WatcherCloses, clientVars
 <2>2. session[o] \in inUse BY <1>2 DEF Lent
 <2> QED BY <1>1, <2>1, <2>2 DEF Usable, IdleSessions
<1>13. Kept' BY <1>1, <1>2, <1>3, <1>4 DEF Kept
<1> QED BY <1>5, <1>6, <1>7, <1>8, <1>9, <1>10, <1>11, <1>12, <1>13

(* Done (acquirePooled). *)
LEMMA DoneOwn ==
  ASSUME GateInv, OwnInv, NEW o \in Ops, Done(o)
  PROVE  OwnInv'
<1> USE DEF OwnInv
<1>1. /\ pc[o] = "use" /\ kind[o] # "append" /\ pc' = [pc EXCEPT ![o] = "join"]
      /\ UNCHANGED <<kind, mine, session, drop, canceled, watched, current, sessions, open, inUse>>
  BY DEF Done, Step, Goto, callVars, watchVars, clientVars, slotVars, connVars
<1>2. pc'[o] = "join" /\ \A x \in Ops \ {o} : pc'[x] = pc[x] BY <1>1 DEF GateInv, PoolTypeOK
<1>3. drop[o] = {} BY <1>1 DEF Drops
<1>4. Hands' BY <1>1, <1>2, <1>3 DEF Hands, Borrowed, Private
<1>5. Drops' BY <1>1, <1>2, <1>3 DEF Drops
<1>6. Separate' BY <1>1, <1>2, <1>3 DEF Separate
<1>7. Lent' BY <1>1, <1>2, <1>3 DEF Lent, Borrowed
<1>8. Unpooled' BY <1>1, <1>2, <1>3 DEF Unpooled, Hands, Private
<1>9. Marked' BY <1>1, <1>2, <1>3 DEF Marked, Borrowed
<1>10. Watched' BY <1>1, <1>2, <1>3 DEF Watched, Borrowed, GateInv, PoolTypeOK
<1>11. Usable'
 <2>1. UNCHANGED <<creds, invalid, tag>> BY DEF Done, clientVars, connVars
 <2> QED BY <1>1, <2>1 DEF Usable, IdleSessions
<1>12. Kept' BY <1>1, <1>2, <1>3 DEF Kept
<1> QED BY <1>4, <1>5, <1>6, <1>7, <1>8, <1>9, <1>10, <1>11, <1>12

(* WatcherStops (startCancellationWatcher). *)
LEMMA WatcherStopsOwn ==
  ASSUME GateInv, OwnInv, NEW o \in Ops, WatcherStops(o)
  PROVE  OwnInv'
<1> USE DEF OwnInv
<1>1. /\ watched' = watched \ {o}
      /\ UNCHANGED <<pc, kind, mine, session, drop, canceled, current, sessions, open, inUse>>
  BY DEF WatcherStops, callVars, clientVars, slotVars, connVars
<1>2. Hands' BY <1>1 DEF Hands, Borrowed, Private
<1>3. Drops' BY <1>1 DEF Drops
<1>4. Separate' BY <1>1 DEF Separate
<1>5. Lent' BY <1>1 DEF Lent, Borrowed
<1>6. Unpooled' BY <1>1 DEF Unpooled, Hands, Private
<1>7. Marked' BY <1>1 DEF Marked, Borrowed
<1>8. Watched' BY <1>1 DEF Watched, Borrowed, GateInv, PoolTypeOK
<1>9. Usable'
 <2>1. UNCHANGED <<creds, invalid, tag>> BY DEF WatcherStops, clientVars, connVars
 <2> QED BY <1>1, <2>1 DEF Usable, IdleSessions
<1>10. Kept' BY <1>1 DEF Kept
<1> QED BY <1>2, <1>3, <1>4, <1>5, <1>6, <1>7, <1>8, <1>9, <1>10

(* GiveBack (releaseSession). *)
LEMMA GiveBackOwn ==
  ASSUME GateInv, OwnInv, NEW o \in Ops, GiveBack(o)
  PROVE  OwnInv'
<1> USE DEF OwnInv
<1>1. /\ pc[o] = "join" /\ o \notin watched /\ o \notin canceled
      /\ pc' = [pc EXCEPT ![o] = "rgate"]
      /\ inUse' = inUse \ {session[o]} /\ session' = [session EXCEPT ![o] = NoConn]
      /\ UNCHANGED <<kind, mine, drop, canceled, watched, current, sessions, open>>
  BY DEF GiveBack, Step, Goto, callVars, watchVars, clientVars, slotVars
<1>2. /\ pc'[o] = "rgate" /\ session'[o] = NoConn
      /\ \A x \in Ops \ {o} : pc'[x] = pc[x] /\ session'[x] = session[x]
  BY <1>1 DEF GateInv, PoolTypeOK
<1>3. /\ session[o] # NoConn /\ drop[o] = {}
      /\ \A x \in Ops \ {o} : session[x] # session[o]
 <2>1. session[o] # NoConn BY <1>1 DEF GateInv, SessionInHand
 <2>2. drop[o] = {} BY <1>1 DEF Drops
 <2>3. \A x \in Ops \ {o} : session[x] # session[o] BY <2>1 DEF Hands
 <2> QED BY <2>1, <2>2, <2>3
<1>4. NoConn \notin Conns /\ \A x \in Ops : drop[x] \subseteq Conns BY DEF GateInv, PoolTypeOK
<1>5. Hands' BY <1>1, <1>2, <1>3, <1>4 DEF Hands, Borrowed, Private
<1>6. Drops' BY <1>1, <1>2, <1>3, <1>4 DEF Drops
<1>7. Separate' BY <1>1, <1>2, <1>3, <1>4 DEF Separate
<1>8. Lent' BY <1>1, <1>2, <1>3, <1>4 DEF Lent, Borrowed
<1>9. Unpooled' BY <1>1, <1>2, <1>3, <1>4 DEF Unpooled, Hands, Private
<1>10. Marked' BY <1>1, <1>2, <1>3, <1>4 DEF Marked, Borrowed
<1>11. Watched' BY <1>1, <1>2, <1>3, <1>4 DEF Watched, Borrowed, GateInv, PoolTypeOK
<1>12. Usable'
 <2>1. UNCHANGED <<creds, invalid, tag>> /\ session[o] \notin invalid
       /\ tag[session[o]] = creds[Home[o]] BY DEF GiveBack, Stale, clientVars
 <2>2. /\ session[o] \in open /\ session[o] \in sessions[mine[o]]
       /\ mine[o] \in Pools /\ mine[o] = current[Home[o]]
   BY <1>1, BorrowedPool DEF Hands, Lent, Borrowed
 <2>3. \A c \in Clients : current[c] = mine[o] => c = Home[o] BY <2>2 DEF Separate
 <2>4. \A k \in Pools : session[o] \in sessions[k] => k = mine[o] BY <2>2 DEF Separate
 <2> QED BY <1>1, <2>1, <2>2, <2>3, <2>4 DEF Usable, IdleSessions
<1>13. Kept'
 <2>1. session[o] \in sessions[mine[o]] /\ mine[o] \in Pools
   BY <1>1, BorrowedPool DEF Hands, Lent, Borrowed
 <2> QED BY <1>1, <1>2, <2>1 DEF Kept
<1> QED BY <1>5, <1>6, <1>7, <1>8, <1>9, <1>10, <1>11, <1>12, <1>13

(* Discard (releaseSession). *)
LEMMA DiscardOwn ==
  ASSUME GateInv, OwnInv, NEW o \in Ops, Discard(o)
  PROVE  OwnInv'
<1> USE DEF OwnInv
<1>1. /\ pc[o] = "join" /\ o \notin watched /\ pc' = [pc EXCEPT ![o] = "discard"]
      /\ sessions' = [sessions EXCEPT ![mine[o]] = @ \ {session[o]}]
      /\ inUse' = inUse \ {session[o]} /\ session' = [session EXCEPT ![o] = NoConn]
      /\ drop' = [drop EXCEPT ![o] = {session[o]}] /\ canceled' = canceled \ {o}
      /\ UNCHANGED <<kind, mine, watched, current, open>>
  BY DEF Discard, Step, Goto, callVars, clientVars
<1>2. /\ kind[o] # "append" /\ Borrowed(o) /\ session[o] \in Conns /\ session[o] # NoConn
      /\ drop[o] = {} /\ mine[o] \in Pools
      /\ session[o] \in sessions[mine[o]]
  BY <1>1, BorrowedPool DEF Hands, Drops, Lent, Borrowed, GateInv, SessionInHand
<1>3. \A x \in Ops \ {o} : session[x] # session[o] /\ session[o] \notin drop[x]
  BY <1>2 DEF Hands, Drops
<1>4. \A k \in Pools \ {mine[o]} : session[o] \notin sessions[k] BY <1>2 DEF Separate
<1>5. /\ pc'[o] = "discard" /\ drop'[o] = {session[o]} /\ session'[o] = NoConn
      /\ \A x \in Ops \ {o} : pc'[x] = pc[x] /\ drop'[x] = drop[x] /\ session'[x] = session[x]
  BY <1>1 DEF GateInv, PoolTypeOK
<1>6. \A k \in Pools : /\ sessions[k] \ {session[o]} \subseteq sessions'[k]
                       /\ sessions'[k] \subseteq sessions[k] \ {session[o]}
  BY <1>1, <1>2, <1>4 DEF GateInv, PoolTypeOK
<1>7. \A x \in Ops : drop[x] \subseteq Conns BY DEF GateInv, PoolTypeOK
<1>8. Hands' BY <1>1, <1>2, <1>3, <1>5 DEF Hands, Borrowed, Private
<1>9. Drops' BY <1>1, <1>2, <1>3, <1>5, <1>6, <1>7 DEF Drops
<1>10. Separate' BY <1>1, <1>2, <1>6 DEF Separate
<1>11. Lent' BY <1>1, <1>2, <1>3, <1>5, <1>6, BorrowedPool DEF Lent, Borrowed
<1>12. Unpooled' BY <1>1, <1>2, <1>3, <1>5, <1>6 DEF Unpooled, Hands, Private
<1>13. Marked' BY <1>1, <1>2, <1>3, <1>5 DEF Marked, Borrowed
<1>14. Watched' BY <1>1, <1>2, <1>5 DEF Watched, Borrowed, GateInv, PoolTypeOK
<1>15. Usable'
 <2>1. UNCHANGED <<creds, invalid, tag>> BY DEF Discard, clientVars
 <2> QED BY <1>1, <1>6, <2>1 DEF Usable, IdleSessions
<1>16. Kept' BY <1>1, <1>2, <1>3, <1>4, <1>5, <1>6, <1>7 DEF Kept
<1> QED BY <1>8, <1>9, <1>10, <1>11, <1>12, <1>13, <1>14, <1>15, <1>16

(* HangUp (Close, InvalidateCredentials, releaseSession). *)
LEMMA HangUpOwn ==
  ASSUME GateInv, OwnInv, NEW o \in Ops, HangUp(o)
  PROVE  OwnInv'
<1> USE DEF OwnInv
<1>1. PICK n \in drop[o] : Shut(n) /\ drop' = [drop EXCEPT ![o] = @ \ {n}] BY DEF HangUp
<1>2. /\ pc[o] \in {"evict", "discard", "hangup"} /\ open' = open \ {n}
      /\ UNCHANGED <<pc, kind, mine, session, canceled, watched, current, sessions, inUse>>
  BY <1>1 DEF HangUp, Shut, callVars, watchVars, clientVars, slotVars
<1>3. /\ \A x \in Ops : drop'[x] \subseteq drop[x] /\ n \notin drop'[x]
      /\ \A x \in Ops : session[x] # n BY <1>1 DEF GateInv, PoolTypeOK, Drops
<1>4. Hands' BY <1>1, <1>2, <1>3 DEF Hands, Borrowed, Private
<1>5. Drops' BY <1>1, <1>2, <1>3 DEF Drops
<1>6. Separate' BY <1>1, <1>2, <1>3 DEF Separate
<1>7. Lent' BY <1>1, <1>2, <1>3 DEF Lent, Borrowed
<1>8. Unpooled' BY <1>1, <1>2, <1>3 DEF Unpooled, Hands, Private
<1>9. Marked' BY <1>1, <1>2, <1>3 DEF Marked, Borrowed
<1>10. Watched' BY <1>1, <1>2, <1>3 DEF Watched, Borrowed, GateInv, PoolTypeOK
<1>11. Usable'
 <2>1. /\ \A k \in Pools : n \notin sessions[k]
       /\ OthersKept(n) /\ UNCHANGED creds
   BY <1>1, ShutAlone DEF Drops, HangUp, clientVars, GateInv
 <2>2. \A k \in Pools : sessions[k] \subseteq Conns BY DEF GateInv, PoolTypeOK
 <2> QED BY <1>2, <1>3, <2>1, <2>2 DEF Usable, IdleSessions, OthersKept
<1>12. Kept' BY <1>1, <1>2, <1>3 DEF Kept
<1> QED BY <1>4, <1>5, <1>6, <1>7, <1>8, <1>9, <1>10, <1>11, <1>12

(* Register (poolLocked). *)
LEMMA RegisterOwn ==
  ASSUME GateInv, OwnInv, NEW o \in Ops, Register(o)
  PROVE  OwnInv'
<1>1. PICK k \in Pools :
        /\ \/ k = current[Home[o]] /\ UNCHANGED sessions
           \/ /\ current[Home[o]] = NoPool /\ FreePool(k)
              /\ sessions' = [sessions EXCEPT ![k] = {}]
        /\ current' = [current EXCEPT ![Home[o]] = k] BY DEF Register, slotVars
<1>2. /\ pc[o] = "register" /\ pc'[o] \notin OwnSteps
      /\ \A x \in Ops \ {o} : pc'[x] = pc[x] /\ mine'[x] = mine[x]
      /\ UNCHANGED <<kind, session, drop, canceled, watched, open, inUse>>
  BY DEF Register, Step, Goto, OwnSteps, callVars, watchVars, connVars, GateInv, PoolTypeOK
<1>3. \A j \in Pools : sessions'[j] = sessions[j]
 <2>1. CASE UNCHANGED sessions BY <2>1
 <2>2. CASE FreePool(k) /\ sessions' = [sessions EXCEPT ![k] = {}]
  <3>1. \A c \in Clients : current[c] # k BY <2>2 DEF FreePool
  <3>2. sessions[k] = {} BY <3>1 DEF OwnInv, Separate
  <3> QED BY <2>2, <3>2 DEF GateInv, PoolTypeOK
 <2> QED BY <1>1, <2>1, <2>2
<1>4. /\ Home[o] \in Clients /\ current'[Home[o]] = k
      /\ \A c \in Clients \ {Home[o]} : current'[c] = current[c] /\ current[c] # k
      /\ current[Home[o]] \in {k, NoPool}
  BY <1>1 DEF FreePool, OwnInv, Separate, GateInv, PoolTypeOK
<1>5. session[o] = NoConn /\ drop[o] = {} BY <1>2 DEF OwnInv, Hands, Drops, Borrowed, Private
<1>6. ~Borrowed(o) BY <1>2 DEF Borrowed
<1>7. Hands' BY <1>2, <1>3, <1>5, <1>6 DEF OwnInv, OwnSteps, Hands, Borrowed, Private
<1>8. Drops' BY <1>2, <1>3, <1>5, <1>6 DEF OwnInv, OwnSteps, Drops
<1>9. Separate' BY <1>3, <1>4, NoPool \notin Pools DEF OwnInv, Separate
<1>10. Lent' BY <1>2, <1>3, <1>6, BorrowedPool DEF OwnInv, Lent, Borrowed, OwnSteps
<1>11. Unpooled' BY <1>2, <1>3, <1>5, <1>6 DEF OwnInv, OwnSteps, Unpooled, Hands, Private
<1>12. Marked' BY <1>2, <1>3, <1>5, <1>6 DEF OwnInv, OwnSteps, Marked, Borrowed
<1>13. Watched'
  BY <1>2, <1>3, <1>5, <1>6 DEF OwnInv, OwnSteps, Watched, Borrowed, GateInv, PoolTypeOK
<1>14. Usable'
 <2>1. UNCHANGED <<creds, invalid, tag>> BY DEF Register, clientVars, connVars
 <2>2. \A j \in Pools : sessions[j] # {} => \E c \in Clients : current[c] = j
   BY DEF OwnInv, Separate
 <2> QED BY <1>2, <1>3, <1>4, <2>1, <2>2 DEF OwnInv, Usable, IdleSessions
<1>15. Kept' BY <1>2, <1>3, <1>5 DEF OwnInv, Kept
<1> QED BY <1>7, <1>8, <1>9, <1>10, <1>11, <1>12, <1>13, <1>14, <1>15 DEF OwnInv

(* Deregister (releaseOperationState). *)
LEMMA DeregisterOwn ==
  ASSUME GateInv, OwnInv, NEW o \in Ops, Deregister(o)
  PROVE  OwnInv'
<1>1. \A c \in Clients : \/ current'[c] = current[c]
                         \/ current'[c] = NoPool /\ current[c] = mine[o]
                               /\ sessions[mine[o]] = {}
 <2>1. current' = [current EXCEPT ![Home[o]] =
                     IF @ = mine[o] /\ Abandoned(mine[o], operations[mine[o]] \ {o},
                                                 sessions[mine[o]])
                     THEN NoPool ELSE @] BY DEF Deregister
 <2> QED BY <2>1 DEF Abandoned, GateInv, PoolTypeOK
<1>2. /\ pc[o] = "dereg" /\ pc'[o] \notin OwnSteps
      /\ \A x \in Ops \ {o} : pc'[x] = pc[x] /\ mine'[x] = mine[x]
      /\ UNCHANGED <<kind, session, drop, canceled, watched, sessions, open, inUse>>
  BY DEF Deregister, Step, Goto, OwnSteps, callVars, watchVars, slotVars, connVars, GateInv,
      PoolTypeOK
<1>3. session[o] = NoConn /\ drop[o] = {} BY <1>2 DEF OwnInv, Hands, Drops, Borrowed, Private
<1>4. ~Borrowed(o) BY <1>2 DEF Borrowed
<1>5. Hands' BY <1>2, <1>3, <1>4 DEF OwnInv, OwnSteps, Hands, Borrowed, Private
<1>6. Drops' BY <1>2, <1>3, <1>4 DEF OwnInv, OwnSteps, Drops
<1>7. Separate' BY <1>1, <1>2 DEF OwnInv, Separate
<1>8. Lent' BY <1>2, <1>3, <1>4 DEF OwnInv, OwnSteps, Lent, Borrowed
<1>9. Unpooled' BY <1>2, <1>3, <1>4 DEF OwnInv, OwnSteps, Unpooled, Hands, Private
<1>10. Marked' BY <1>2, <1>3, <1>4 DEF OwnInv, OwnSteps, Marked, Borrowed
<1>11. Watched'
  BY <1>2, <1>3, <1>4 DEF OwnInv, OwnSteps, Watched, Borrowed, GateInv, PoolTypeOK
<1>12. Usable'
 <2>1. UNCHANGED <<creds, invalid, tag>> BY DEF Deregister, clientVars, connVars
 <2>2. NoPool \notin Pools OBVIOUS
 <2> QED BY <1>1, <1>2, <2>1, <2>2 DEF OwnInv, Usable, IdleSessions
<1>13. Kept' BY <1>1, <1>2, <1>3, <1>4 DEF OwnInv, Kept
<1> QED BY <1>5, <1>6, <1>7, <1>8, <1>9, <1>10, <1>11, <1>12, <1>13 DEF OwnInv

(* Drain (Close): nobody uses a pooled session then. *)
LEMMA DrainOwn ==
  ASSUME GateInv, OwnInv, NEW o \in Ops, Drain(o)
  PROVE  OwnInv'
<1>1. /\ pc[o] = "drain" /\ Drained(o) /\ pc' = [pc EXCEPT ![o] = "hangup"]
      /\ drop' = [drop EXCEPT ![o] = Pooled(Home[o])]
      /\ sessions' = [k \in Pools |-> IF k = current[Home[o]] THEN {} ELSE sessions[k]]
      /\ current' = [current EXCEPT ![Home[o]] = NoPool]
      /\ UNCHANGED <<kind, mine, session, canceled, watched, open, inUse>>
  BY DEF Drain, Step, Goto, callVars, watchVars, connVars
<1>2. /\ pc'[o] = "hangup" /\ drop'[o] = Pooled(Home[o]) /\ Home[o] \in Clients
      /\ \A x \in Ops \ {o} : pc'[x] = pc[x] /\ drop'[x] = drop[x]
      /\ current'[Home[o]] = NoPool /\ \A c \in Clients \ {Home[o]} : current'[c] = current[c]
      /\ \A k \in Pools : sessions'[k] = IF k = current[Home[o]] THEN {} ELSE sessions[k]
  BY <1>1 DEF GateInv, PoolTypeOK
<1>3. \A x \in Ops : Borrowed(x) => mine[x] # current[Home[o]]
  BY <1>1, ActivePool DEF Drained, GateInv, ActiveIsCurrent, Active, Holding, Borrowed, OwnInv,
      Separate
<1>4. \A n \in Pooled(Home[o]) :
        /\ current[Home[o]] \in Pools /\ n \in sessions[current[Home[o]]] /\ n \notin inUse
        /\ n \in Conns /\ \A x \in Ops : session[x] # n /\ n \notin drop[x]
 <2>1. SUFFICES ASSUME NEW n \in Pooled(Home[o])
                PROVE  n \in IdleSessions(current[Home[o]]) /\ current[Home[o]] \in Pools
   BY IdleIsNobodys
 <2>2. n \in sessions[current[Home[o]]] /\ current[Home[o]] \in Pools
   BY <1>2 DEF Pooled, GateInv, PoolTypeOK
 <2>3. n \notin inUse BY <1>3, <2>2, BorrowedPool DEF OwnInv, Marked, Lent, Separate
 <2> QED BY <2>2, <2>3 DEF IdleSessions
<1>5. session[o] = NoConn BY <1>1 DEF OwnInv, Hands, Borrowed, Private
<1>6. Hands' BY <1>1, <1>2, <1>5 DEF OwnInv, Hands, Borrowed, Private
<1>7. Drops'
 <2>1. ASSUME NEW n \in drop'[o]
       PROVE  /\ \A k \in Pools : n \notin sessions'[k]
              /\ \A x \in Ops : session[x] # n /\ n \notin drop[x]
   BY <1>2, <1>4, <2>1 DEF OwnInv, Separate
 <2>2. \A k \in Pools : sessions'[k] \subseteq sessions[k] BY <1>2
 <2> QED BY <1>1, <1>2, <2>1, <2>2 DEF OwnInv, Drops
<1>8. Separate' BY <1>1, <1>2 DEF OwnInv, Separate
<1>9. Lent' BY <1>1, <1>2, <1>3, BorrowedPool DEF OwnInv, Lent, Borrowed
<1>10. Unpooled' BY <1>1, <1>2 DEF OwnInv, Unpooled, Hands, Private
<1>11. Marked' BY <1>1, <1>2 DEF OwnInv, Marked, Borrowed
<1>12. Watched' BY <1>1, <1>2 DEF OwnInv, Watched, Borrowed, GateInv, PoolTypeOK
<1>13. Usable'
 <2>1. UNCHANGED <<creds, invalid, tag>> BY DEF Drain, connVars
 <2>2. NoPool \notin Pools OBVIOUS
 <2> QED BY <1>1, <1>2, <2>1, <2>2 DEF OwnInv, Usable, IdleSessions
<1>14. Kept'
 <2>1. \A k \in Pools : \A n \in sessions[k] : n \in sessions'[k] \/ n \in drop'[o]
   BY <1>2 DEF Pooled
 <2>2. drop[o] = {} BY <1>1 DEF OwnInv, Drops
 <2> QED BY <1>1, <1>2, <2>1, <2>2 DEF OwnInv, Kept
<1> QED BY <1>6, <1>7, <1>8, <1>9, <1>10, <1>11, <1>12, <1>13, <1>14 DEF OwnInv

(* Invalidate (InvalidateCredentials): idle sessions go. *)
LEMMA InvalidateOwn ==
  ASSUME GateInv, OwnInv, NEW o \in Ops, Invalidate(o)
  PROVE  OwnInv'
<1>1. /\ pc[o] = "idle" /\ pc' = [pc EXCEPT ![o] = "hangup"]
      /\ kind' = [kind EXCEPT ![o] = "change"]
      /\ drop' = [drop EXCEPT ![o] = Pooled(Home[o]) \ inUse]
      /\ sessions' = [x \in Pools |-> IF x = current[Home[o]] THEN Pooled(Home[o]) \cap inUse
                                       ELSE sessions[x]]
      /\ UNCHANGED <<mine, session, canceled, watched, open, inUse>>
  BY DEF Invalidate, Step, Goto, watchVars
<1>2. /\ pc'[o] = "hangup" /\ drop'[o] = Pooled(Home[o]) \ inUse /\ Home[o] \in Clients
      /\ \A x \in Ops \ {o} : pc'[x] = pc[x] /\ kind'[x] = kind[x] /\ drop'[x] = drop[x]
  BY <1>1 DEF GateInv, PoolTypeOK
<1>3. /\ \A k \in Pools : sessions'[k] \subseteq sessions[k]
      /\ \A k \in Pools : sessions[k] \cap inUse \subseteq sessions'[k]
      /\ \A k \in Pools : k = current[Home[o]] => sessions'[k] \subseteq inUse
  BY <1>1 DEF Pooled, GateInv, PoolTypeOK
<1>4. \A c \in Clients : \/ current'[c] = current[c]
                         \/ /\ current'[c] = NoPool /\ current[c] = current[Home[o]]
                            /\ current[c] \in Pools /\ sessions'[current[c]] = {}
  BY SMTT(30), <1>1 DEF Invalidate, Abandoned, Pooled, GateInv, PoolTypeOK
<1>5. \A n \in Pooled(Home[o]) \ inUse :
        /\ current[Home[o]] \in Pools /\ n \in IdleSessions(current[Home[o]])
        /\ n \in sessions[current[Home[o]]] /\ \A x \in Ops : session[x] # n /\ n \notin drop[x]
 <2> SUFFICES ASSUME NEW n \in Pooled(Home[o]) \ inUse
              PROVE  /\ current[Home[o]] \in Pools /\ n \in IdleSessions(current[Home[o]])
                     /\ n \in sessions[current[Home[o]]]
                     /\ \A x \in Ops : session[x] # n /\ n \notin drop[x] OBVIOUS
 <2>1. current[Home[o]] \in Pools \cup {NoPool} BY <1>2 DEF GateInv, PoolTypeOK
 <2>2. current[Home[o]] \in Pools /\ n \in sessions[current[Home[o]]] BY <2>1 DEF Pooled
 <2>3. n \in IdleSessions(current[Home[o]]) BY <2>2 DEF IdleSessions
 <2> QED BY <2>2, <2>3, IdleIsNobodys
<1>6. session[o] = NoConn /\ drop[o] = {} /\ ~Borrowed(o)
  BY <1>1 DEF OwnInv, Hands, Drops, Borrowed, Private
<1>7. Hands' BY <1>1, <1>2, <1>6 DEF OwnInv, Hands, Borrowed, Private
<1>8. Drops'
 <2>1. ASSUME NEW n \in drop'[o]
       PROVE  /\ \A k \in Pools : n \notin sessions'[k]
              /\ \A x \in Ops : session[x] # n /\ n \notin drop[x]
   BY <1>2, <1>3, <1>5, <2>1 DEF OwnInv, Separate
 <2> QED BY <1>1, <1>2, <1>3, <2>1 DEF OwnInv, Drops
<1>9. Separate' BY <1>3, <1>4, NoPool \notin Pools DEF OwnInv, Separate
<1>10. Lent' BY <1>1, <1>2, <1>3, <1>6, BorrowedPool DEF OwnInv, Lent, Borrowed
<1>11. Unpooled' BY <1>1, <1>2, <1>3, <1>6 DEF OwnInv, Unpooled, Hands, Private
<1>12. Marked' BY <1>1, <1>2, <1>6 DEF OwnInv, Marked, Borrowed
<1>13. Watched' BY <1>1, <1>2, <1>6 DEF OwnInv, Watched, Borrowed, GateInv, PoolTypeOK
<1>14. Usable'
 <2>1. /\ UNCHANGED tag /\ invalid' = invalid \cup Pooled(Home[o])
       /\ \A c \in Clients : c # Home[o] => creds'[c] = creds[c]
   BY DEF Invalidate, GateInv, PoolTypeOK
 <2>2. ASSUME NEW k \in Pools, NEW n \in IdleSessions(k)'
       PROVE  n \in IdleSessions(k) /\ k # current[Home[o]]
   BY <1>1, <1>3, <2>2 DEF IdleSessions
 <2>3. ASSUME NEW k \in Pools, NEW n \in IdleSessions(k)' PROVE n \notin Pooled(Home[o])
   BY <2>2, <2>3 DEF Pooled, IdleSessions, OwnInv, Separate, GateInv, PoolTypeOK
 <2>4. \A c \in Clients : \A k \in Pools : current'[c] = k => current[c] = k BY <1>4
 <2> QED BY <1>1, <2>1, <2>2, <2>3, <2>4 DEF OwnInv, Usable
<1>15. Kept'
 <2>1. \A k \in Pools : \A n \in sessions[k] : n \in sessions'[k] \/ n \in drop'[o]
   BY <1>1, <1>2 DEF Pooled, GateInv, PoolTypeOK
 <2> QED BY <1>1, <1>2, <1>6, <2>1 DEF OwnInv, Kept
<1> QED BY <1>7, <1>8, <1>9, <1>10, <1>11, <1>12, <1>13, <1>14, <1>15 DEF OwnInv

(* Who is not on a connection's way has none, and a step of it changes    *)
(* nothing.                                                                *)
LEMMA OwnAside ==
  ASSUME GateInv, OwnInv, NEW o \in Ops, Alone(o),
         UNCHANGED <<session, drop, watchVars, current, creds, sessions, connVars>>,
         pc[o] \notin OwnSteps \/ pc[o] = "undedicate" \/ (pc[o] = "hangup" /\ drop[o] = {})
                              \/ (pc[o] = "evict" /\ drop[o] = {})
                              \/ (pc[o] = "discard" /\ drop[o] = {}),
         pc'[o] \notin OwnSteps
  PROVE  OwnInv'
<1>1. session[o] = NoConn /\ ~Borrowed(o) BY DEF OwnInv, Hands, Borrowed, Private, OwnSteps
<1>2. drop[o] = {} BY DEF OwnInv, Drops, OwnSteps
<1> QED BY <1>1, <1>2, OwnStill

(* So does every step of Acquire. *)
LEMMA AcquireOwn ==
  ASSUME GateInv, OwnInv, NEW o \in Ops, Acquire(o)
  PROVE  OwnInv'
<1>1. Register(o) => OwnInv' BY RegisterOwn
<1>2. ASSUME LockMutation(o) PROVE OwnInv'
 <2>1. Alone(o) /\ pc'[o] \notin OwnSteps
   BY <1>2 DEF LockMutation, Alone, Step, Return, Goto, OwnSteps, callVars, GateInv, PoolTypeOK
 <2>2. UNCHANGED <<session, drop, watchVars, current, creds, sessions, connVars>>
   BY <1>2 DEF LockMutation, clientVars, slotVars, connVars, watchVars
 <2>3. \/ pc[o] \notin OwnSteps \/ pc[o] = "undedicate"
       \/ pc[o] \in {"hangup", "evict", "discard"} /\ drop[o] = {}
   BY <1>2 DEF LockMutation, Step, OwnSteps
 <2> QED BY <2>1, <2>2, <2>3, OwnAside
<1>3. ASSUME LockRefused(o) PROVE OwnInv'
 <2>1. Alone(o) /\ pc'[o] \notin OwnSteps
   BY <1>3 DEF LockRefused, Alone, Step, Return, Goto, OwnSteps, callVars, GateInv, PoolTypeOK
 <2>2. UNCHANGED <<session, drop, watchVars, current, creds, sessions, connVars>>
   BY <1>3 DEF LockRefused, clientVars, slotVars, connVars, watchVars
 <2>3. \/ pc[o] \notin OwnSteps \/ pc[o] = "undedicate"
       \/ pc[o] \in {"hangup", "evict", "discard"} /\ drop[o] = {}
   BY <1>3 DEF LockRefused, Step, OwnSteps
 <2> QED BY <2>1, <2>2, <2>3, OwnAside
<1>4. ASSUME EnterGate(o) PROVE OwnInv'
 <2>1. Alone(o) /\ pc'[o] \notin OwnSteps
   BY <1>4 DEF EnterGate, Alone, Step, Return, Goto, OwnSteps, callVars, GateInv, PoolTypeOK
 <2>2. UNCHANGED <<session, drop, watchVars, current, creds, sessions, connVars>>
   BY <1>4 DEF EnterGate, clientVars, slotVars, connVars, watchVars
 <2>3. \/ pc[o] \notin OwnSteps \/ pc[o] = "undedicate"
       \/ pc[o] \in {"hangup", "evict", "discard"} /\ drop[o] = {}
   BY <1>4 DEF EnterGate, Step, OwnSteps
 <2> QED BY <2>1, <2>2, <2>3, OwnAside
<1>5. ASSUME Enqueue(o) PROVE OwnInv'
 <2>1. Alone(o) /\ pc'[o] \notin OwnSteps
   BY <1>5 DEF Enqueue, Alone, Step, Return, Goto, OwnSteps, callVars, GateInv, PoolTypeOK
 <2>2. UNCHANGED <<session, drop, watchVars, current, creds, sessions, connVars>>
   BY <1>5 DEF Enqueue, clientVars, slotVars, connVars, watchVars
 <2>3. \/ pc[o] \notin OwnSteps \/ pc[o] = "undedicate"
       \/ pc[o] \in {"hangup", "evict", "discard"} /\ drop[o] = {}
   BY <1>5 DEF Enqueue, Step, OwnSteps
 <2> QED BY <2>1, <2>2, <2>3, OwnAside
<1>6. ASSUME Granted(o) PROVE OwnInv'
 <2>1. Alone(o) /\ pc'[o] \notin OwnSteps
   BY <1>6 DEF Granted, Alone, Step, Return, Goto, OwnSteps, callVars, GateInv, PoolTypeOK
 <2>2. UNCHANGED <<session, drop, watchVars, current, creds, sessions, connVars>>
   BY <1>6 DEF Granted, clientVars, slotVars, connVars, watchVars
 <2>3. \/ pc[o] \notin OwnSteps \/ pc[o] = "undedicate"
       \/ pc[o] \in {"hangup", "evict", "discard"} /\ drop[o] = {}
   BY <1>6 DEF Granted, Step, OwnSteps
 <2> QED BY <2>1, <2>2, <2>3, OwnAside
<1>7. ASSUME Confirm(o) PROVE OwnInv'
 <2>1. Alone(o) /\ pc'[o] \notin OwnSteps
   BY <1>7 DEF Confirm, Alone, Step, Return, Goto, OwnSteps, callVars, GateInv, PoolTypeOK
 <2>2. UNCHANGED <<session, drop, watchVars, current, creds, sessions, connVars>>
   BY <1>7 DEF Confirm, clientVars, slotVars, connVars, watchVars
 <2>3. \/ pc[o] \notin OwnSteps \/ pc[o] = "undedicate"
       \/ pc[o] \in {"hangup", "evict", "discard"} /\ drop[o] = {}
   BY <1>7 DEF Confirm, Step, OwnSteps
 <2> QED BY <2>1, <2>2, <2>3, OwnAside
<1>8. ASSUME Interrupted(o) PROVE OwnInv'
 <2>1. Alone(o) /\ pc'[o] \notin OwnSteps
   BY <1>8 DEF Interrupted, Alone, Step, Return, Goto, OwnSteps, callVars, GateInv, PoolTypeOK
 <2>2. UNCHANGED <<session, drop, watchVars, current, creds, sessions, connVars>>
   BY <1>8 DEF Interrupted, clientVars, slotVars, connVars, watchVars
 <2>3. \/ pc[o] \notin OwnSteps \/ pc[o] = "undedicate"
       \/ pc[o] \in {"hangup", "evict", "discard"} /\ drop[o] = {}
   BY <1>8 DEF Interrupted, Step, OwnSteps
 <2> QED BY <2>1, <2>2, <2>3, OwnAside
<1> QED BY <1>1, <1>2, <1>3, <1>4, <1>5, <1>6, <1>7, <1>8 DEF Acquire

(* So does every step of Borrow. *)
LEMMA BorrowOwn ==
  ASSUME GateInv, OwnInv, NEW o \in Ops, Borrow(o)
  PROVE  OwnInv'
<1>1. Reuse(o) => OwnInv' BY ReuseOwn
<1>2. Dial(o) => OwnInv' BY DialOwn
<1>3. Connected(o) => OwnInv' BY ConnectedOwn
<1>4. ConnectFails(o) => OwnInv' BY ConnectFailsOwn
<1>5. Reserve(o) => OwnInv' BY ReserveOwn
<1>6. EvictIdle(o) => OwnInv' BY EvictIdleOwn
<1>7. HangUp(o) => OwnInv' BY HangUpOwn
<1>8. ASSUME HungUp(o) PROVE OwnInv'
 <2>1. Alone(o) /\ pc'[o] \notin OwnSteps BY <1>8, HungUpDoes DEF OwnSteps, GateInv
 <2>2. UNCHANGED <<session, drop, watchVars, current, creds, sessions, connVars>>
   BY <1>8 DEF HungUp, clientVars, slotVars, connVars, watchVars
 <2>3. \/ pc[o] \notin OwnSteps \/ pc[o] = "undedicate"
       \/ pc[o] \in {"hangup", "evict", "discard"} /\ drop[o] = {}
   BY <1>8 DEF HungUp, Step, OwnSteps
 <2> QED BY <2>1, <2>2, <2>3, OwnAside
<1> QED BY <1>1, <1>2, <1>3, <1>4, <1>5, <1>6, <1>7, <1>8 DEF Borrow

(* So does every step of Finish. *)
LEMMA FinishOwn ==
  ASSUME GateInv, OwnInv, NEW o \in Ops, Finish(o)
  PROVE  OwnInv'
<1>1. Done(o) => OwnInv' BY DoneOwn
<1>2. WatcherCloses(o) => OwnInv' BY WatcherClosesOwn
<1>3. WatcherStops(o) => OwnInv' BY WatcherStopsOwn
<1>4. GiveBack(o) => OwnInv' BY GiveBackOwn
<1>5. Discard(o) => OwnInv' BY DiscardOwn
<1>6. DoneAppend(o) => OwnInv' BY DoneAppendOwn
<1>7. ASSUME Unreserve(o) PROVE OwnInv'
 <2>1. Alone(o) /\ pc'[o] \notin OwnSteps
   BY <1>7 DEF Unreserve, Alone, Step, Return, Goto, OwnSteps, callVars, GateInv, PoolTypeOK
 <2>2. UNCHANGED <<session, drop, watchVars, current, creds, sessions, connVars>>
   BY <1>7 DEF Unreserve, clientVars, slotVars, connVars, watchVars
 <2>3. \/ pc[o] \notin OwnSteps \/ pc[o] = "undedicate"
       \/ pc[o] \in {"hangup", "evict", "discard"} /\ drop[o] = {}
   BY <1>7 DEF Unreserve, Step, OwnSteps
 <2> QED BY <2>1, <2>2, <2>3, OwnAside
<1>8. ASSUME ReleaseGate(o) PROVE OwnInv'
 <2>1. Alone(o) /\ pc'[o] \notin OwnSteps
   BY <1>8 DEF ReleaseGate, Alone, Step, Return, Goto, OwnSteps, callVars, GateInv, PoolTypeOK
 <2>2. UNCHANGED <<session, drop, watchVars, current, creds, sessions, connVars>>
   BY <1>8 DEF ReleaseGate, clientVars, slotVars, connVars, watchVars
 <2>3. \/ pc[o] \notin OwnSteps \/ pc[o] = "undedicate"
       \/ pc[o] \in {"hangup", "evict", "discard"} /\ drop[o] = {}
   BY <1>8 DEF ReleaseGate, Step, OwnSteps
 <2> QED BY <2>1, <2>2, <2>3, OwnAside
<1>9. Deregister(o) => OwnInv' BY DeregisterOwn
<1>10. ASSUME Unflock(o) PROVE OwnInv'
 <2>1. Alone(o) /\ pc'[o] \notin OwnSteps
   BY <1>10 DEF Unflock, Alone, Step, Return, Goto, OwnSteps, callVars, GateInv, PoolTypeOK
 <2>2. UNCHANGED <<session, drop, watchVars, current, creds, sessions, connVars>>
   BY <1>10 DEF Unflock, clientVars, slotVars, connVars, watchVars
 <2>3. \/ pc[o] \notin OwnSteps \/ pc[o] = "undedicate"
       \/ pc[o] \in {"hangup", "evict", "discard"} /\ drop[o] = {}
   BY <1>10 DEF Unflock, Step, OwnSteps
 <2> QED BY <2>1, <2>2, <2>3, OwnAside
<1>11. ASSUME RUnlock(o) PROVE OwnInv'
 <2>1. Alone(o) /\ pc'[o] \notin OwnSteps
   BY <1>11 DEF RUnlock, Alone, Step, Return, Goto, OwnSteps, callVars, GateInv, PoolTypeOK
 <2>2. UNCHANGED <<session, drop, watchVars, current, creds, sessions, connVars>>
   BY <1>11 DEF RUnlock, clientVars, slotVars, connVars, watchVars
 <2>3. \/ pc[o] \notin OwnSteps \/ pc[o] = "undedicate"
       \/ pc[o] \in {"hangup", "evict", "discard"} /\ drop[o] = {}
   BY <1>11 DEF RUnlock, Step, OwnSteps
 <2> QED BY <2>1, <2>2, <2>3, OwnAside
<1>12. Drain(o) => OwnInv' BY DrainOwn
<1> QED BY <1>1, <1>2, <1>3, <1>4, <1>5, <1>6, <1>7, <1>8, <1>9, <1>10, <1>11, <1>12 DEF Finish

(* So does every step of Caller. *)
LEMMA CallerOwn ==
  ASSUME GateInv, OwnInv, NEW o \in Ops, Caller(o)
  PROVE  OwnInv'
<1>1. Cancel(o) => OwnInv' BY CancelOwn
<1>2. ASSUME GateCanceled(o) PROVE OwnInv'
 <2>1. Alone(o) /\ pc'[o] \notin OwnSteps
   BY <1>2 DEF GateCanceled, Alone, Step, Return, Goto, OwnSteps, callVars, GateInv, PoolTypeOK
 <2>2. UNCHANGED <<session, drop, watchVars, current, creds, sessions, connVars>>
   BY <1>2 DEF GateCanceled, clientVars, slotVars, connVars, watchVars
 <2>3. \/ pc[o] \notin OwnSteps \/ pc[o] = "undedicate"
       \/ pc[o] \in {"hangup", "evict", "discard"} /\ drop[o] = {}
   BY <1>2 DEF GateCanceled, Step, OwnSteps
 <2> QED BY <2>1, <2>2, <2>3, OwnAside
<1>3. ASSUME GiveUp(o) PROVE OwnInv'
 <2>1. Alone(o) /\ pc'[o] \notin OwnSteps
   BY <1>3 DEF GiveUp, Alone, Step, Return, Goto, OwnSteps, callVars, GateInv, PoolTypeOK
 <2>2. UNCHANGED <<session, drop, watchVars, current, creds, sessions, connVars>>
   BY <1>3 DEF GiveUp, clientVars, slotVars, connVars, watchVars
 <2>3. \/ pc[o] \notin OwnSteps \/ pc[o] = "undedicate"
       \/ pc[o] \in {"hangup", "evict", "discard"} /\ drop[o] = {}
   BY <1>3 DEF GiveUp, Step, OwnSteps
 <2> QED BY <2>1, <2>2, <2>3, OwnAside
<1>4. ASSUME BeginClose(o) PROVE OwnInv'
 <2>1. Alone(o) /\ pc'[o] \notin OwnSteps
   BY <1>4 DEF BeginClose, Alone, Step, Return, Goto, OwnSteps, callVars, GateInv, PoolTypeOK
 <2>2. UNCHANGED <<session, drop, watchVars, current, creds, sessions, connVars>>
   BY <1>4 DEF BeginClose, clientVars, slotVars, connVars, watchVars
 <2>3. \/ pc[o] \notin OwnSteps \/ pc[o] = "undedicate"
       \/ pc[o] \in {"hangup", "evict", "discard"} /\ drop[o] = {}
   BY <1>4 DEF BeginClose, Step, OwnSteps
 <2> QED BY <2>1, <2>2, <2>3, OwnAside
<1>5. Invalidate(o) => OwnInv' BY InvalidateOwn
<1>6. ASSUME (\E request \in Requests : Begin(o, request)) PROVE OwnInv'
 <2>1. Alone(o) /\ pc'[o] \notin OwnSteps
   BY <1>6 DEF Begin, Alone, Step, Return, Goto, OwnSteps, callVars, GateInv, PoolTypeOK
 <2>2. UNCHANGED <<session, drop, watchVars, current, creds, sessions, connVars>>
   BY <1>6 DEF Begin, clientVars, slotVars, connVars, watchVars
 <2>3. \/ pc[o] \notin OwnSteps \/ pc[o] = "undedicate"
       \/ pc[o] \in {"hangup", "evict", "discard"} /\ drop[o] = {}
   BY <1>6 DEF Begin, Step, OwnSteps
 <2> QED BY <2>1, <2>2, <2>3, OwnAside
<1> QED BY <1>1, <1>2, <1>3, <1>4, <1>5, <1>6 DEF Caller

(* A client starts without connections. *)
LEMMA OwnStarts == Init => OwnInv
BY DEF Init, OwnInv, Hands, Drops, Separate, Lent, Unpooled, Marked, Watched, Usable, Kept,
       Borrowed, Private, IdleSessions

(* No step of pool.go takes a connection from whom it belongs to. *)
LEMMA OwnPreserved == GateInv /\ OwnInv /\ [Next]_vars => OwnInv'
<1> SUFFICES ASSUME GateInv, OwnInv, [Next]_vars PROVE OwnInv' OBVIOUS
<1>1. ASSUME NEW o \in Ops, Acquire(o) PROVE OwnInv' BY <1>1, AcquireOwn
<1>2. ASSUME NEW o \in Ops, Borrow(o) PROVE OwnInv' BY <1>2, BorrowOwn
<1>3. ASSUME NEW o \in Ops, Finish(o) PROVE OwnInv' BY <1>3, FinishOwn
<1>4. ASSUME NEW o \in Ops, Caller(o) PROVE OwnInv' BY <1>4, CallerOwn
<1>5. CASE UNCHANGED vars
  BY <1>5 DEF vars, callVars, watchVars, clientVars, slotVars, connVars, OwnInv, Hands, Drops,
     Separate, Lent, Unpooled, Marked, Watched, Usable, Kept, Borrowed, Private, IdleSessions
<1> QED BY <1>1, <1>2, <1>3, <1>4, <1>5 DEF Next

(* What follows from it for idle sessions, borrowers and leaks. *)
LEMMA OwnMeans == GateInv /\ OwnInv => ConnectionsUsable /\ NoLeak
<1> SUFFICES ASSUME GateInv, OwnInv PROVE ConnectionsUsable /\ NoLeak OBVIOUS
<1>1. IdleIsFresh
  BY DEF OwnInv, Usable, IdleIsFresh, IdleSessions, Pooled, Stale, GateInv, PoolTypeOK
<1>2. IdleIsOpen BY DEF OwnInv, Usable, IdleIsOpen
<1>3. BorrowedAlive
 <2> SUFFICES ASSUME NEW o \in Ops, session[o] # NoConn
              PROVE  /\ o \in canceled \/ session[o] \in open
                     /\ \A x \in Ops : session[o] \notin drop[x]
                           /\ (x # o => session[x] # session[o]) BY DEF BorrowedAlive
 <2>1. o \in canceled \/ session[o] \in open BY DEF OwnInv, Hands, Lent, Unpooled
 <2>2. \A x \in Ops : session[o] \notin drop[x] BY DEF OwnInv, Drops
 <2>3. \A x \in Ops : x # o => session[x] # session[o] BY DEF OwnInv, Hands
 <2> QED BY <2>1, <2>2, <2>3
<1>4. NoLeak
 <2> SUFFICES ASSUME NEW n \in open
              PROVE  n \in (UNION {Pooled(c) : c \in Clients}) \cup {session[o] : o \in Ops}
                           \cup (UNION {drop[o] : o \in Ops}) BY DEF NoLeak
 <2>1. CASE \E k \in Pools : n \in sessions[k]
  <3>1. PICK c \in Clients : n \in Pooled(c) BY <2>1 DEF OwnInv, Separate, Pooled
  <3> QED BY <3>1
 <2>2. CASE \E x \in Ops : session[x] = n \/ n \in drop[x]
  <3>1. PICK x \in Ops : session[x] = n \/ n \in drop[x] BY <2>2
  <3>2. CASE session[x] = n
   <4>1. n \in {session[o] : o \in Ops} BY <3>2
   <4> QED BY <4>1
  <3>3. CASE n \in drop[x]
   <4>1. n \in UNION {drop[o] : o \in Ops} BY <3>3
   <4> QED BY <4>1
  <3> QED BY <3>1, <3>2, <3>3
 <2> QED BY <2>1, <2>2 DEF OwnInv, Kept
<1> QED BY <1>1, <1>2, <1>3, <1>4 DEF ConnectionsUsable, IdleIsUsable

(* No idle session is closed or stale, and nobody but its borrower closes a *)
(* borrowed one before it is canceled (borrowSession, releaseSession,       *)
(* Close, InvalidateCredentials, startCancellationWatcher).                 *)
THEOREM ConnectionsAreUsable == Spec => []ConnectionsUsable
<1>1. GateInv /\ OwnInv => ConnectionsUsable BY OwnMeans
<1> QED BY <1>1, OwnStarts, OwnPreserved, GateInvariant, PTL DEF Spec

(***************************************************************************)
(* How many connections there are.                                         *)
(***************************************************************************)
(* Who holds one of the client's connections, one each. *)
Users(k) ==
  {o \in Ops : mine[o] = k /\ pc[o] \in {"connect", "use", "join", "discard", "evict"}}

(* "connecting" and "dedicated" count those who dial and who append. *)
Counters ==
  \A k \in Pools : \A x \in Ops :
    /\ x \in connecting[k] <=> pc[x] = "connect" /\ mine[x] = k
    /\ x \in dedicated[k] <=>
         pc[x] \in {"use", "undedicate"} /\ kind[x] = "append" /\ mine[x] = k

(* No more are past the gate than it has places. *)
GateSmall == \A k \in Pools : IsFiniteSet(gate[k]) /\ Cardinality(gate[k]) <= Limit

(* Idle sessions and those who hold a connection. *)
Tally == \A k \in Pools : Cardinality(IdleSessions(k)) + Cardinality(Users(k)) <= Limit

CountInv == Counters /\ GateSmall /\ Tally

(* A step of o that leaves the counters and what they count alone. *)
LEMMA CountersStill ==
  ASSUME PoolTypeOK, Counters, NEW o \in Ops, Alone(o), UNCHANGED <<connecting, dedicated>>,
         pc[o] = "connect" <=> pc'[o] = "connect",
         pc[o] \in {"use", "undedicate"} /\ kind[o] = "append" <=>
           pc'[o] \in {"use", "undedicate"} /\ kind'[o] = "append",
         pc[o] \in {"connect", "use", "undedicate"} => mine'[o] = mine[o]
  PROVE  Counters'
BY DEF Counters, Alone

(* So does a step between two steps at which nothing is counted. *)
Uncounted == Steps \ {"connect", "use", "undedicate"}

LEMMA UncountedStep ==
  ASSUME PoolTypeOK, Counters, NEW o \in Ops, Alone(o), UNCHANGED <<connecting, dedicated>>,
         pc[o] \in Uncounted, pc'[o] \in Uncounted
  PROVE  Counters'
BY CountersStill DEF Uncounted

(* ConnectFails counts itself in or out. *)
LEMMA ConnectFailsCounters ==
  ASSUME GateInv, OwnInv, Counters, NEW o \in Ops, ConnectFails(o)
  PROVE  Counters'
<1>1. mine[o] \in Pools BY ActivePool DEF ConnectFails, Step, Active, Holding
<1> QED BY <1>1 DEF ConnectFails, Step, Goto, Counters, GateInv, PoolTypeOK, callVars, OwnInv,
    Hands

(* Connected counts itself in or out. *)
LEMMA ConnectedCounters ==
  ASSUME GateInv, OwnInv, Counters, NEW o \in Ops, Connected(o)
  PROVE  Counters'
<1>1. mine[o] \in Pools BY ActivePool DEF Connected, Step, Active, Holding
<1> QED BY <1>1 DEF Connected, Step, Goto, Counters, GateInv, PoolTypeOK, callVars, OwnInv,
    Hands

(* Dial counts itself in or out. *)
LEMMA DialCounters ==
  ASSUME GateInv, OwnInv, Counters, NEW o \in Ops, Dial(o)
  PROVE  Counters'
<1>1. mine[o] \in Pools BY ActivePool DEF Dial, Step, Active, Holding
<1> QED BY <1>1 DEF Dial, Step, Goto, Counters, GateInv, PoolTypeOK, callVars, OwnInv, Hands

(* Reserve counts itself in or out. *)
LEMMA ReserveCounters ==
  ASSUME GateInv, OwnInv, Counters, NEW o \in Ops, Reserve(o)
  PROVE  Counters'
<1>1. mine[o] \in Pools BY ActivePool DEF Reserve, Step, Active, Holding
<1> QED BY <1>1 DEF Reserve, Step, Goto, Counters, GateInv, PoolTypeOK, callVars, OwnInv, Hands

(* Unreserve counts itself in or out. *)
LEMMA UnreserveCounters ==
  ASSUME GateInv, OwnInv, Counters, NEW o \in Ops, Unreserve(o)
  PROVE  Counters'
<1>1. mine[o] \in Pools BY ActivePool DEF Unreserve, Step, Active, Holding
<1> QED BY <1>1 DEF Unreserve, Step, Goto, Counters, GateInv, PoolTypeOK, callVars, OwnInv,
    Hands

(* So does every step of Acquire. *)
LEMMA AcquireCounters ==
  ASSUME GateInv, OwnInv, Counters, NEW o \in Ops, Acquire(o)
  PROVE  Counters'
<1> USE DEF Alone, Step, Return, Goto, callVars, slotVars, GateInv, PoolTypeOK
<1>1. Register(o) => Counters' BY ZenonT(60), CountersStill DEF Register
<1>2. LockMutation(o) => Counters' BY CountersStill DEF LockMutation
<1>3. LockRefused(o) => Counters' BY CountersStill DEF LockRefused
<1>4. EnterGate(o) => Counters' BY CountersStill DEF EnterGate
<1>5. Enqueue(o) => Counters' BY CountersStill DEF Enqueue
<1>6. Granted(o) => Counters' BY CountersStill DEF Granted
<1>7. Confirm(o) => Counters' BY CountersStill DEF Confirm
<1>8. Interrupted(o) => Counters' BY CountersStill DEF Interrupted
<1> QED BY <1>1, <1>2, <1>3, <1>4, <1>5, <1>6, <1>7, <1>8 DEF Acquire

(* So does every step of Borrow. *)
LEMMA BorrowCounters ==
  ASSUME GateInv, OwnInv, Counters, NEW o \in Ops, Borrow(o)
  PROVE  Counters'
<1>1. Reuse(o) => Counters'
  BY CountersStill DEF Reuse, Alone, Step, Return, Goto, callVars, slotVars, GateInv,
      PoolTypeOK
<1>2. Dial(o) => Counters' BY DialCounters
<1>3. Connected(o) => Counters' BY ConnectedCounters
<1>4. ConnectFails(o) => Counters' BY ConnectFailsCounters
<1>5. Reserve(o) => Counters' BY ReserveCounters
<1>6. EvictIdle(o) => Counters'
  BY CountersStill DEF EvictIdle, Alone, Step, Return, Goto, callVars, slotVars, GateInv,
      PoolTypeOK
<1>7. HangUp(o) => Counters'
  BY CountersStill DEF HangUp, Alone, Step, Return, Goto, callVars, slotVars, GateInv,
      PoolTypeOK
<1>8. ASSUME HungUp(o) PROVE Counters'
 <2>1. /\ pc[o] \in Uncounted /\ pc'[o] \in Uncounted
       /\ UNCHANGED <<connecting, dedicated>>
  <3>1. UNCHANGED <<connecting, dedicated>> BY <1>8 DEF HungUp, slotVars
  <3>2. {"evict", "discard", "hangup", "borrow", "rgate", "idle"} \subseteq Uncounted
    BY DEF Uncounted, Steps, Holding
  <3> QED BY <1>8, <3>1, <3>2, HungUpDoes DEF GateInv
 <2>2. Alone(o) BY <1>8, HungUpDoes DEF GateInv
 <2> QED BY <2>1, <2>2, UncountedStep DEF GateInv
<1> QED BY <1>1, <1>2, <1>3, <1>4, <1>5, <1>6, <1>7, <1>8 DEF Borrow

(* So does every step of Finish. *)
LEMMA FinishCounters ==
  ASSUME GateInv, OwnInv, Counters, NEW o \in Ops, Finish(o)
  PROVE  Counters'
<1> USE DEF Step, Return, Goto, GateInv, PoolTypeOK
<1>1. Done(o) => Counters' BY CountersStill DEF Done, Alone, callVars, slotVars
<1>2. WatcherCloses(o) => Counters'
  BY CountersStill DEF WatcherCloses, Alone, callVars, slotVars
<1>3. WatcherStops(o) => Counters'
  BY CountersStill DEF WatcherStops, Alone, callVars, slotVars
<1>4. GiveBack(o) => Counters' BY CountersStill DEF GiveBack, Alone, callVars, slotVars
<1>5. Discard(o) => Counters' BY CountersStill DEF Discard, Alone, callVars, slotVars
<1>6. DoneAppend(o) => Counters' BY CountersStill DEF DoneAppend, Alone, callVars, slotVars
<1>7. Unreserve(o) => Counters' BY UnreserveCounters
<1>8. ReleaseGate(o) => Counters' BY CountersStill DEF ReleaseGate, Alone, callVars, slotVars
<1>9. ASSUME Deregister(o) PROVE Counters'
 <2>1. /\ pc[o] \in Uncounted /\ pc'[o] \in Uncounted
       /\ UNCHANGED <<connecting, dedicated>>
   BY <1>9 DEF Deregister, slotVars, Uncounted, Steps
 <2>2. Alone(o) BY <1>9 DEF Deregister, Alone, callVars
 <2> QED BY <2>1, <2>2, UncountedStep
<1>10. Unflock(o) => Counters' BY CountersStill DEF Unflock, Alone, callVars, slotVars
<1>11. ASSUME RUnlock(o) PROVE Counters'
 <2>1. /\ pc[o] \in Uncounted /\ pc'[o] \in Uncounted
       /\ UNCHANGED <<connecting, dedicated>> BY <1>11 DEF RUnlock, slotVars, Uncounted, Steps
 <2>2. Alone(o) BY <1>11 DEF RUnlock, Alone, callVars
 <2> QED BY <2>1, <2>2, UncountedStep
<1>12. Drain(o) => Counters' BY CountersStill DEF Drain, Alone, callVars, slotVars
<1> QED BY <1>1, <1>2, <1>3, <1>4, <1>5, <1>6, <1>7, <1>8, <1>9, <1>10, <1>11, <1>12 DEF Finish

(* So does every step of Caller. *)
LEMMA CallerCounters ==
  ASSUME GateInv, OwnInv, Counters, NEW o \in Ops, Caller(o)
  PROVE  Counters'
<1> USE DEF GateInv
<1>1. Cancel(o) => Counters'
  BY CountersStill DEF Cancel, Alone, Step, Return, Goto, callVars, slotVars, PoolTypeOK
<1>2. GateCanceled(o) => Counters'
  BY CountersStill DEF GateCanceled, Alone, Step, Return, Goto, callVars, slotVars, PoolTypeOK
<1>3. GiveUp(o) => Counters'
  BY CountersStill DEF GiveUp, Alone, Step, Return, Goto, callVars, slotVars, PoolTypeOK
<1>4. ASSUME BeginClose(o) PROVE Counters'
 <2>1. /\ pc[o] \in Uncounted /\ pc'[o] \in Uncounted
       /\ UNCHANGED <<connecting, dedicated>>
   BY <1>4 DEF BeginClose, Step, Return, Goto, slotVars, Uncounted, Steps, PoolTypeOK
 <2>2. Alone(o) BY <1>4 DEF BeginClose, Alone, Step, Return, Goto, callVars, PoolTypeOK
 <2> QED BY <2>1, <2>2, UncountedStep
<1>5. ASSUME Invalidate(o) PROVE Counters'
 <2>1. /\ pc[o] \in Uncounted /\ pc'[o] \in Uncounted
       /\ UNCHANGED <<connecting, dedicated>>
   BY <1>5 DEF Invalidate, Step, Return, Goto, slotVars, Uncounted, Steps, PoolTypeOK
 <2>2. Alone(o) BY <1>5 DEF Invalidate, Alone, Step, Return, Goto, callVars, PoolTypeOK
 <2> QED BY <2>1, <2>2, UncountedStep
<1>6. ASSUME (\E request \in Requests : Begin(o, request)) PROVE Counters'
 <2>1. /\ pc[o] \in Uncounted /\ pc'[o] \in Uncounted
       /\ UNCHANGED <<connecting, dedicated>>
   BY <1>6 DEF Begin, Step, Return, Goto, slotVars, Uncounted, Steps, PoolTypeOK
 <2>2. Alone(o) BY <1>6 DEF Begin, Alone, Step, Return, Goto, callVars, PoolTypeOK
 <2> QED BY <2>1, <2>2, UncountedStep
<1> QED BY <1>1, <1>2, <1>3, <1>4, <1>5, <1>6 DEF Caller

(* A step that lets nobody into a gate. *)
LEMMA GateNoLarger ==
  ASSUME GateSmall, \A k \in Pools : gate'[k] \subseteq gate[k]
  PROVE  GateSmall'
<1>1. ASSUME NEW k \in Pools PROVE IsFiniteSet(gate'[k]) /\ Cardinality(gate'[k]) <= Limit
 <2>1. /\ IsFiniteSet(gate'[k]) /\ Cardinality(gate'[k]) <= Cardinality(gate[k])
       /\ Cardinality(gate'[k]) \in Nat /\ Cardinality(gate[k]) \in Nat
   BY FS_Subset, FS_CardinalityType DEF GateSmall
 <2> QED BY <2>1 DEF GateSmall
<1> QED BY <1>1 DEF GateSmall

(* The semaphore lets in whom it has a place for. *)
LEMMA GateOneMore ==
  ASSUME PoolTypeOK, GateSmall, NEW o \in Ops, NEW k \in Pools, Fits(o, k),
         gate' = [gate EXCEPT ![k] = @ \cup {o}]
  PROVE  GateSmall'
<1>1. IsFiniteSet(gate[k]) /\ Cardinality(gate[k]) \in Nat BY FS_CardinalityType DEF GateSmall
<1>2. Cardinality(gate[k]) < Limit
 <2>1. CASE Mutation(o) BY <2>1, FS_EmptySet DEF Fits
 <2>2. CASE ~Mutation(o) BY <2>2 DEF Fits
 <2> QED BY <2>1, <2>2
<1>3. /\ IsFiniteSet(gate[k] \cup {o})
      /\ Cardinality(gate[k] \cup {o}) <= Cardinality(gate[k]) + 1
      /\ Cardinality(gate[k] \cup {o}) \in Nat BY <1>1, OneMore
<1>4. \A j \in Pools : gate'[j] = IF j = k THEN gate[k] \cup {o} ELSE gate[j]
  BY DEF PoolTypeOK
<1>5. Cardinality(gate[k] \cup {o}) <= Limit BY <1>1, <1>2, <1>3
<1> QED BY <1>3, <1>4, <1>5 DEF GateSmall

(* The pool object an operation goes through the gate of. *)
LEMMA GatePool ==
  ASSUME GateInv, NEW o \in Ops, pc[o] \in {"gate", "wait"}
  PROVE  mine[o] \in Pools
BY DEF GateInv, Registered, Counted, PastFlock

(* So does every step of Acquire. *)
LEMMA AcquireSmall ==
  ASSUME GateInv, GateSmall, NEW o \in Ops, Acquire(o)
  PROVE  GateSmall'
<1>1. Register(o) => GateSmall' BY GateNoLarger DEF Register, gateVars
<1>2. LockMutation(o) => GateSmall' BY GateNoLarger DEF LockMutation, gateVars
<1>3. LockRefused(o) => GateSmall' BY GateNoLarger DEF LockRefused, gateVars
<1>4. ASSUME EnterGate(o) PROVE GateSmall'
 <2>1. /\ mine[o] \in Pools /\ Fits(o, mine[o])
       /\ gate' = [gate EXCEPT ![mine[o]] = @ \cup {o}] BY <1>4, GatePool DEF EnterGate, Step
 <2> QED BY <2>1, GateOneMore DEF GateInv
<1>5. Enqueue(o) => GateSmall' BY GateNoLarger DEF Enqueue, gateVars
<1>6. ASSUME Granted(o) PROVE GateSmall'
 <2>1. /\ mine[o] \in Pools /\ Fits(o, mine[o])
       /\ gate' = [gate EXCEPT ![mine[o]] = @ \cup {o}] BY <1>6, GatePool DEF Granted, Step
 <2> QED BY <2>1, GateOneMore DEF GateInv
<1>7. Confirm(o) => GateSmall' BY GateNoLarger DEF Confirm, gateVars
<1>8. Interrupted(o) => GateSmall' BY GateNoLarger DEF Interrupted, gateVars
<1> QED BY <1>1, <1>2, <1>3, <1>4, <1>5, <1>6, <1>7, <1>8 DEF Acquire

(* So does every step of Borrow. *)
LEMMA BorrowSmall ==
  ASSUME GateInv, GateSmall, NEW o \in Ops, Borrow(o)
  PROVE  GateSmall'
<1> USE DEF gateVars
<1>1. Reuse(o) => GateSmall' BY GateNoLarger DEF Reuse
<1>2. Dial(o) => GateSmall' BY GateNoLarger DEF Dial
<1>3. Connected(o) => GateSmall' BY GateNoLarger DEF Connected
<1>4. ConnectFails(o) => GateSmall' BY GateNoLarger DEF ConnectFails
<1>5. Reserve(o) => GateSmall' BY GateNoLarger DEF Reserve
<1>6. EvictIdle(o) => GateSmall' BY GateNoLarger DEF EvictIdle
<1>7. HangUp(o) => GateSmall' BY GateNoLarger DEF HangUp
<1>8. HungUp(o) => GateSmall' BY GateNoLarger DEF HungUp
<1> QED BY <1>1, <1>2, <1>3, <1>4, <1>5, <1>6, <1>7, <1>8 DEF Borrow

(* So does every step of Finish. *)
LEMMA FinishSmall ==
  ASSUME GateInv, GateSmall, NEW o \in Ops, Finish(o)
  PROVE  GateSmall'
<1> USE DEF gateVars
<1>1. Done(o) => GateSmall' BY GateNoLarger DEF Done
<1>2. WatcherCloses(o) => GateSmall' BY GateNoLarger DEF WatcherCloses
<1>3. WatcherStops(o) => GateSmall' BY GateNoLarger DEF WatcherStops
<1>4. GiveBack(o) => GateSmall' BY GateNoLarger DEF GiveBack
<1>5. Discard(o) => GateSmall' BY GateNoLarger DEF Discard
<1>6. DoneAppend(o) => GateSmall' BY GateNoLarger DEF DoneAppend
<1>7. Unreserve(o) => GateSmall' BY GateNoLarger DEF Unreserve
<1>8. ReleaseGate(o) => GateSmall' BY GateNoLarger DEF ReleaseGate, GateInv, PoolTypeOK
<1>9. Deregister(o) => GateSmall' BY GateNoLarger DEF Deregister
<1>10. Unflock(o) => GateSmall' BY GateNoLarger DEF Unflock
<1>11. RUnlock(o) => GateSmall' BY GateNoLarger DEF RUnlock
<1>12. Drain(o) => GateSmall' BY GateNoLarger DEF Drain
<1> QED BY <1>1, <1>2, <1>3, <1>4, <1>5, <1>6, <1>7, <1>8, <1>9, <1>10, <1>11, <1>12 DEF Finish

(* So does every step of Caller. *)
LEMMA CallerSmall ==
  ASSUME GateInv, GateSmall, NEW o \in Ops, Caller(o)
  PROVE  GateSmall'
<1> USE DEF gateVars
<1>1. Cancel(o) => GateSmall' BY GateNoLarger DEF Cancel
<1>2. GateCanceled(o) => GateSmall' BY GateNoLarger DEF GateCanceled
<1>3. GiveUp(o) => GateSmall' BY GateNoLarger DEF GiveUp
<1>4. BeginClose(o) => GateSmall' BY GateNoLarger DEF BeginClose
<1>5. Invalidate(o) => GateSmall' BY GateNoLarger DEF Invalidate
<1>6. (\E request \in Requests : Begin(o, request)) => GateSmall' BY GateNoLarger DEF Begin
<1> QED BY <1>1, <1>2, <1>3, <1>4, <1>5, <1>6 DEF Caller

UserSteps == {"connect", "use", "join", "discard", "evict"}

(* What Tally adds up is finite. *)
LEMMA Sizes ==
  ASSUME GateInv, SlotsInv, GateSmall, NEW k \in Pools
  PROVE  /\ IsFiniteSet(IdleSessions(k)) /\ Cardinality(IdleSessions(k)) \in Nat
         /\ IsFiniteSet(Users(k)) /\ Cardinality(Users(k)) \in Nat
         /\ Users(k) \subseteq gate[k] /\ IsFiniteSet(sessions[k])
<1>1. Users(k) \subseteq gate[k] BY DEF Users, GateInv, GateHeld, PastGate, Holding
<1>2. IdleSessions(k) \subseteq sessions[k] BY DEF IdleSessions
<1>3. IsFiniteSet(gate[k]) /\ IsFiniteSet(sessions[k]) BY DEF GateSmall, SlotsInv
<1>4. IsFiniteSet(Users(k)) /\ IsFiniteSet(IdleSessions(k)) BY <1>1, <1>2, <1>3, FS_Subset
<1> QED BY <1>1, <1>3, <1>4, FS_CardinalityType

(* A smaller or equal part of two finite sets. *)
LEMMA BothSmaller ==
  ASSUME NEW S, NEW T, NEW A \in SUBSET S, NEW B \in SUBSET T, IsFiniteSet(S), IsFiniteSet(T)
  PROVE  /\ IsFiniteSet(A) /\ IsFiniteSet(B)
         /\ Cardinality(A) + Cardinality(B) <= Cardinality(S) + Cardinality(T)
<1>1. IsFiniteSet(A) /\ Cardinality(A) <= Cardinality(S) BY FS_Subset
<1>2. IsFiniteSet(B) /\ Cardinality(B) <= Cardinality(T) BY FS_Subset
<1>3. /\ Cardinality(A) \in Nat /\ Cardinality(B) \in Nat
      /\ Cardinality(S) \in Nat /\ Cardinality(T) \in Nat BY <1>1, <1>2, FS_CardinalityType
<1> QED BY <1>1, <1>2, <1>3

(* For one of the others, n, one becomes of the other kind. *)
LEMMA OneTraded ==
  ASSUME NEW S, NEW T, NEW n \in S, NEW x, NEW A \in SUBSET (S \ {n}),
         NEW B \in SUBSET (T \cup {x}), IsFiniteSet(S), IsFiniteSet(T)
  PROVE  Cardinality(A) + Cardinality(B) <= Cardinality(S) + Cardinality(T)
<1>1. /\ IsFiniteSet(S \ {n}) /\ Cardinality(S \ {n}) = Cardinality(S) - 1 BY OneLess
<1>2. /\ IsFiniteSet(T \cup {x}) /\ Cardinality(T \cup {x}) <= Cardinality(T) + 1
      /\ Cardinality(T \cup {x}) \in Nat BY OneMore
<1>3. Cardinality(A) + Cardinality(B) <= Cardinality(S \ {n}) + Cardinality(T \cup {x})
  BY <1>1, <1>2, BothSmaller
<1>4. /\ IsFiniteSet(A) /\ IsFiniteSet(B) BY <1>1, <1>2, BothSmaller
<1>5. /\ Cardinality(A) \in Nat /\ Cardinality(B) \in Nat /\ Cardinality(S \ {n}) \in Nat
      /\ Cardinality(S) \in Nat /\ Cardinality(T) \in Nat BY <1>1, <1>4, FS_CardinalityType
<1> QED BY <1>1, <1>2, <1>3, <1>5

(* Steps after which there are no more. *)
LEMMA TallyFalls ==
  ASSUME GateInv, SlotsInv, GateSmall, Tally,
         \A k \in Pools : IdleSessions(k)' \subseteq IdleSessions(k)
             /\ Users(k)' \subseteq Users(k)
  PROVE  Tally'
<1>1. ASSUME NEW k \in Pools
      PROVE  (Cardinality(IdleSessions(k)) + Cardinality(Users(k)))' <= Limit
 <2>1. IsFiniteSet(IdleSessions(k)) /\ IsFiniteSet(Users(k)) BY Sizes
 <2>2. /\ IsFiniteSet(IdleSessions(k)') /\ IsFiniteSet(Users(k)')
       /\ Cardinality(IdleSessions(k)') + Cardinality(Users(k)') <=
            Cardinality(IdleSessions(k)) + Cardinality(Users(k)) BY <2>1, BothSmaller
 <2>3. Cardinality(IdleSessions(k)) + Cardinality(Users(k)) <= Limit BY DEF Tally
 <2>4. /\ Cardinality(IdleSessions(k)') \in Nat /\ Cardinality(Users(k)') \in Nat
       /\ Cardinality(IdleSessions(k)) \in Nat /\ Cardinality(Users(k)) \in Nat
   BY <2>1, <2>2, FS_CardinalityType
 <2> QED BY <2>2, <2>3, <2>4
<1> QED BY <1>1 DEF Tally

(* Steps that keep the sum of pool object j and change no other's. *)
LEMMA TallyKept ==
  ASSUME GateInv, SlotsInv, GateSmall, Tally, NEW j \in Pools,
         Cardinality(IdleSessions(j)') + Cardinality(Users(j)') <= Limit,
         \A k \in Pools \ {j} : /\ IdleSessions(k)' \subseteq IdleSessions(k)
                                /\ Users(k)' \subseteq Users(k)
  PROVE  Tally'
<1>1. ASSUME NEW k \in Pools \ {j}
      PROVE  (Cardinality(IdleSessions(k)) + Cardinality(Users(k)))' <= Limit
 <2>1. IsFiniteSet(IdleSessions(k)) /\ IsFiniteSet(Users(k)) BY Sizes
 <2>2. /\ IsFiniteSet(IdleSessions(k)') /\ IsFiniteSet(Users(k)')
       /\ Cardinality(IdleSessions(k)') + Cardinality(Users(k)') <=
            Cardinality(IdleSessions(k)) + Cardinality(Users(k)) BY <2>1, BothSmaller
 <2>3. Cardinality(IdleSessions(k)) + Cardinality(Users(k)) <= Limit BY DEF Tally
 <2>4. /\ Cardinality(IdleSessions(k)') \in Nat /\ Cardinality(Users(k)') \in Nat
       /\ Cardinality(IdleSessions(k)) \in Nat /\ Cardinality(Users(k)) \in Nat
   BY <2>1, <2>2, FS_CardinalityType
 <2> QED BY <2>2, <2>3, <2>4
<1> QED BY <1>1 DEF Tally

(* No step of o makes it hold a connection. *)
LEMMA UsersFall ==
  ASSUME NEW o \in Ops, Alone(o),
         pc'[o] \in UserSteps => pc[o] \in UserSteps /\ mine'[o] = mine[o]
  PROVE  \A k \in Pools : Users(k)' \subseteq Users(k)
BY DEF Users, Alone, UserSteps

(* An idle session goes to an operation. *)
LEMMA SessionToUser ==
  ASSUME GateInv, SlotsInv, GateSmall, Tally, NEW j \in Pools, NEW n \in IdleSessions(j), NEW o,
         IdleSessions(j)' \subseteq IdleSessions(j) \ {n},
         Users(j)' \subseteq Users(j) \cup {o},
         \A k \in Pools \ {j} : IdleSessions(k)' \subseteq IdleSessions(k)
             /\ Users(k)' \subseteq Users(k)
  PROVE  Tally'
<1>1. Cardinality(IdleSessions(j)') + Cardinality(Users(j)')
      <= Cardinality(IdleSessions(j)) + Cardinality(Users(j)) BY Sizes, OneTraded
<1>2. IsFiniteSet(IdleSessions(j)') /\ IsFiniteSet(Users(j)')
 <2>1. IsFiniteSet(IdleSessions(j) \ {n}) /\ IsFiniteSet(Users(j) \cup {o})
   BY Sizes, FS_RemoveElement, FS_AddElement
 <2> QED BY <2>1, FS_Subset
<1>3. /\ Cardinality(IdleSessions(j)') \in Nat /\ Cardinality(Users(j)') \in Nat
      /\ Cardinality(IdleSessions(j)) \in Nat /\ Cardinality(Users(j)) \in Nat
  BY <1>2, Sizes, FS_CardinalityType
<1>4. Cardinality(IdleSessions(j)) + Cardinality(Users(j)) <= Limit BY DEF Tally
<1>5. Cardinality(IdleSessions(j)') + Cardinality(Users(j)') <= Limit BY <1>1, <1>3, <1>4
<1> QED BY <1>5, TallyKept

(* An operation leaves an idle session behind. *)
LEMMA UserToSession ==
  ASSUME GateInv, SlotsInv, GateSmall, Tally, NEW j \in Pools, NEW o \in Users(j), NEW n,
         Users(j)' \subseteq Users(j) \ {o},
         IdleSessions(j)' \subseteq IdleSessions(j) \cup {n},
         \A k \in Pools \ {j} : IdleSessions(k)' \subseteq IdleSessions(k)
             /\ Users(k)' \subseteq Users(k)
  PROVE  Tally'
<1>1. Cardinality(Users(j)') + Cardinality(IdleSessions(j)')
      <= Cardinality(Users(j)) + Cardinality(IdleSessions(j)) BY Sizes, OneTraded
<1>2. IsFiniteSet(Users(j)') /\ IsFiniteSet(IdleSessions(j)')
 <2>1. IsFiniteSet(Users(j) \ {o}) /\ IsFiniteSet(IdleSessions(j) \cup {n})
   BY Sizes, FS_RemoveElement, FS_AddElement
 <2> QED BY <2>1, FS_Subset
<1>3. /\ Cardinality(IdleSessions(j)') \in Nat /\ Cardinality(Users(j)') \in Nat
      /\ Cardinality(IdleSessions(j)) \in Nat /\ Cardinality(Users(j)) \in Nat
  BY <1>2, Sizes, FS_CardinalityType
<1>4. Cardinality(IdleSessions(j)) + Cardinality(Users(j)) <= Limit BY DEF Tally
<1>5. Cardinality(IdleSessions(j)') + Cardinality(Users(j)') <= Limit BY <1>1, <1>3, <1>4
<1> QED BY <1>5, TallyKept

(* Reuse (borrowSession). *)
LEMMA ReuseTally ==
  ASSUME GateInv, OwnInv, SlotsInv, GateSmall, Tally, NEW o \in Ops, Reuse(o)
  PROVE  Tally'
<1>1. PICK n \in Reusable(o) : inUse' = inUse \cup {n} BY DEF Reuse
<1>2. /\ pc[o] = "borrow" /\ pc' = [pc EXCEPT ![o] = "use"] /\ UNCHANGED <<mine, sessions>>
  BY DEF Reuse, Step, Goto, slotVars
<1>3. PICK j \in Pools : j = mine[o] /\ n \in IdleSessions(j)
  BY <1>1, <1>2, ActivePool DEF Active, Holding, Reusable
<1>4. /\ IdleSessions(j)' \subseteq IdleSessions(j) \ {n}
      /\ Users(j)' \subseteq Users(j) \cup {o}
      /\ \A k \in Pools \ {j} : IdleSessions(k)' \subseteq IdleSessions(k)
             /\ Users(k)' \subseteq Users(k)
  BY <1>1, <1>2, <1>3 DEF IdleSessions, Users, GateInv, PoolTypeOK
<1> QED BY <1>3, <1>4, SessionToUser

(* EvictIdle (acquireDedicated). *)
LEMMA EvictIdleTally ==
  ASSUME GateInv, OwnInv, SlotsInv, GateSmall, Tally, NEW o \in Ops, EvictIdle(o)
  PROVE  Tally'
<1>1. PICK n \in IdleSessions(mine[o]) : sessions' = [sessions EXCEPT ![mine[o]] = @ \ {n}]
  BY DEF EvictIdle
<1>2. /\ pc[o] = "borrow" /\ pc' = [pc EXCEPT ![o] = "evict"] /\ UNCHANGED <<mine, inUse>>
  BY DEF EvictIdle, Step, Goto, connVars
<1>3. PICK j \in Pools : j = mine[o] /\ n \in IdleSessions(j)
  BY <1>1, <1>2, ActivePool DEF Active, Holding
<1>4. /\ IdleSessions(j)' \subseteq IdleSessions(j) \ {n}
      /\ Users(j)' \subseteq Users(j) \cup {o}
      /\ \A k \in Pools \ {j} : IdleSessions(k)' \subseteq IdleSessions(k)
             /\ Users(k)' \subseteq Users(k)
  BY <1>1, <1>2, <1>3 DEF IdleSessions, Users, GateInv, PoolTypeOK
<1> QED BY <1>3, <1>4, SessionToUser

(* GiveBack (releaseSession). *)
LEMMA GiveBackTally ==
  ASSUME GateInv, OwnInv, SlotsInv, GateSmall, Tally, NEW o \in Ops, GiveBack(o)
  PROVE  Tally'
<1>1. /\ pc[o] = "join" /\ pc' = [pc EXCEPT ![o] = "rgate"] /\ inUse' = inUse \ {session[o]}
      /\ UNCHANGED <<mine, sessions>> BY DEF GiveBack, Step, Goto, slotVars
<1>2. session[o] \in sessions[mine[o]] BY <1>1 DEF OwnInv, Hands, Lent, Borrowed
<1>3. PICK j \in Pools : j = mine[o] /\ o \in Users(j)
  BY <1>1, ActivePool DEF Active, Holding, Users
<1>4. PICK n : n = session[o] OBVIOUS
<1>5. \A k \in Pools \ {j} : n \notin sessions[k] BY <1>2, <1>3, <1>4 DEF OwnInv, Separate
<1>6. /\ IdleSessions(j)' \subseteq IdleSessions(j) \cup {n}
      /\ Users(j)' \subseteq Users(j) \ {o}
      /\ \A k \in Pools \ {j} : IdleSessions(k)' \subseteq IdleSessions(k)
             /\ Users(k)' \subseteq Users(k)
  BY <1>1, <1>3, <1>4, <1>5 DEF IdleSessions, Users, GateInv, PoolTypeOK
<1> QED BY <1>3, <1>6, UserToSession

(* Dial (borrowSession): nothing is idle, and the gate has a place for each *)
(* of the users.                                                            *)
LEMMA DialTally ==
  ASSUME GateInv, GateInv', OwnInv, SlotsInv, GateSmall, GateSmall', Tally, NEW o \in Ops, Dial(o)
  PROVE  Tally'
<1>1. /\ pc[o] = "borrow" /\ pc' = [pc EXCEPT ![o] = "connect"] /\ Reusable(o) = {}
      /\ UNCHANGED <<mine, sessions, inUse>> BY DEF Dial, Step, Goto
<1>2. mine[o] = current[Home[o]] /\ mine[o] \in Pools /\ Home[o] \in Clients
  BY <1>1, ActivePool DEF Active, Holding
<1>3. PICK j \in Pools : j = mine[o] BY <1>2
<1>4. IdleSessions(j) = {} BY <1>1, <1>2, <1>3 DEF OwnInv, Usable, Reusable, Stale
<1>5. /\ IdleSessions(j)' = {}
      /\ \A k \in Pools \ {j} : IdleSessions(k)' \subseteq IdleSessions(k)
             /\ Users(k)' \subseteq Users(k)
  BY <1>1, <1>3, <1>4 DEF IdleSessions, Users, GateInv, PoolTypeOK
<1>6. Users(j)' \subseteq gate'[j] BY DEF Users, GateInv, GateHeld, PastGate, Holding
<1>7. Cardinality(Users(j)') <= Limit /\ Cardinality(Users(j)') \in Nat
 <2>1. IsFiniteSet(gate'[j]) /\ Cardinality(gate'[j]) <= Limit BY DEF GateSmall
 <2>2. IsFiniteSet(Users(j)') /\ Cardinality(Users(j)') <= Cardinality(gate'[j])
   BY <1>6, <2>1, FS_Subset
 <2> QED BY <2>1, <2>2, FS_CardinalityType
<1>8. Cardinality(IdleSessions(j)') = 0 BY <1>5, FS_EmptySet
<1> QED BY <1>5, <1>7, <1>8, TallyKept

(* Reserve (acquireDedicated): an append is alone, and room was left for it. *)
LEMMA ReserveTally ==
  ASSUME GateInv, OwnInv, SlotsInv, GateSmall, Tally, NEW o \in Ops, Reserve(o)
  PROVE  Tally'
<1>1. /\ pc[o] = "borrow" /\ pc' = [pc EXCEPT ![o] = "use"] /\ kind[o] = "append"
      /\ Room(mine[o])
      /\ UNCHANGED <<mine, sessions, inUse>> BY DEF Reserve, Step, Goto
<1>2. PICK j \in Pools : j = mine[o] /\ gate[j] = {o}
  BY <1>1, ActivePool DEF Active, Holding, GateInv, GateHeld, PastGate, Mutation
<1>3. Users(j) \subseteq {o} /\ IsFiniteSet(sessions[j]) BY <1>2, Sizes
<1>4. /\ IdleSessions(j)' \subseteq sessions[j] /\ Users(j)' \subseteq {o}
      /\ \A k \in Pools \ {j} : IdleSessions(k)' \subseteq IdleSessions(k)
             /\ Users(k)' \subseteq Users(k)
  BY <1>1, <1>2, <1>3 DEF IdleSessions, Users, GateInv, PoolTypeOK
<1>5. Cardinality(sessions[j]) < Limit
 <2>1. /\ Cardinality(sessions[j]) \in Nat /\ Cardinality(connecting[j]) \in Nat
       /\ Cardinality(dedicated[j]) \in Nat BY <1>2, FS_CardinalityType DEF SlotsInv
 <2> QED BY <1>1, <1>2, <2>1 DEF Room, Slots
<1>6. Cardinality(IdleSessions(j)') + Cardinality(Users(j)') <= Cardinality(sessions[j]) + 1
  BY <1>3, <1>4, BothSmaller, FS_Singleton
<1>7. IsFiniteSet(IdleSessions(j)') /\ IsFiniteSet(Users(j)')
  BY <1>3, <1>4, BothSmaller, FS_Singleton
<1>8. /\ Cardinality(IdleSessions(j)') \in Nat /\ Cardinality(Users(j)') \in Nat
      /\ Cardinality(sessions[j]) \in Nat BY <1>3, <1>7, FS_CardinalityType
<1>9. Cardinality(IdleSessions(j)') + Cardinality(Users(j)') <= Limit BY <1>5, <1>6, <1>8
<1> QED BY <1>4, <1>9, TallyKept

(* So does every step of Acquire. *)
LEMMA AcquireTally ==
  ASSUME GateInv, OwnInv, SlotsInv, GateSmall, Tally, NEW o \in Ops, Acquire(o)
  PROVE  Tally'
<1>1. ASSUME Register(o) PROVE Tally'
 <2>1. \A k \in Pools : Users(k)' \subseteq Users(k)
   BY <1>1, UsersFall DEF Register, Alone, Step, Return, Goto, UserSteps, callVars, GateInv,
       PoolTypeOK
 <2>2. \A k \in Pools : IdleSessions(k)' \subseteq IdleSessions(k)
  <3>1. PICK k \in Pools : UNCHANGED sessions \/ sessions' = [sessions EXCEPT ![k] = {}]
    BY <1>1 DEF Register, slotVars
  <3>2. inUse' = inUse BY <1>1 DEF Register, connVars
  <3>3. \A j \in Pools : sessions'[j] \subseteq sessions[j] BY <3>1 DEF GateInv, PoolTypeOK
  <3> QED BY <3>2, <3>3 DEF IdleSessions
 <2> QED BY <2>1, <2>2, TallyFalls
<1>2. ASSUME LockMutation(o) PROVE Tally'
 <2>1. \A k \in Pools : Users(k)' \subseteq Users(k)
   BY <1>2, UsersFall DEF LockMutation, Alone, Step, Return, Goto, UserSteps, callVars,
       GateInv, PoolTypeOK
 <2>2. \A k \in Pools : IdleSessions(k)' \subseteq IdleSessions(k)
   BY <1>2 DEF LockMutation, IdleSessions, slotVars, connVars
 <2> QED BY <2>1, <2>2, TallyFalls
<1>3. ASSUME LockRefused(o) PROVE Tally'
 <2>1. \A k \in Pools : Users(k)' \subseteq Users(k)
   BY <1>3, UsersFall DEF LockRefused, Alone, Step, Return, Goto, UserSteps, callVars, GateInv,
       PoolTypeOK
 <2>2. \A k \in Pools : IdleSessions(k)' \subseteq IdleSessions(k)
   BY <1>3 DEF LockRefused, IdleSessions, slotVars, connVars
 <2> QED BY <2>1, <2>2, TallyFalls
<1>4. ASSUME EnterGate(o) PROVE Tally'
 <2>1. \A k \in Pools : Users(k)' \subseteq Users(k)
   BY <1>4, UsersFall DEF EnterGate, Alone, Step, Return, Goto, UserSteps, callVars, GateInv,
       PoolTypeOK
 <2>2. \A k \in Pools : IdleSessions(k)' \subseteq IdleSessions(k)
   BY <1>4 DEF EnterGate, IdleSessions, slotVars, connVars
 <2> QED BY <2>1, <2>2, TallyFalls
<1>5. ASSUME Enqueue(o) PROVE Tally'
 <2>1. \A k \in Pools : Users(k)' \subseteq Users(k)
   BY <1>5, UsersFall DEF Enqueue, Alone, Step, Return, Goto, UserSteps, callVars, GateInv,
       PoolTypeOK
 <2>2. \A k \in Pools : IdleSessions(k)' \subseteq IdleSessions(k)
   BY <1>5 DEF Enqueue, IdleSessions, slotVars, connVars
 <2> QED BY <2>1, <2>2, TallyFalls
<1>6. ASSUME Granted(o) PROVE Tally'
 <2>1. \A k \in Pools : Users(k)' \subseteq Users(k)
   BY <1>6, UsersFall DEF Granted, Alone, Step, Return, Goto, UserSteps, callVars, GateInv,
       PoolTypeOK
 <2>2. \A k \in Pools : IdleSessions(k)' \subseteq IdleSessions(k)
   BY <1>6 DEF Granted, IdleSessions, slotVars, connVars
 <2> QED BY <2>1, <2>2, TallyFalls
<1>7. ASSUME Confirm(o) PROVE Tally'
 <2>1. \A k \in Pools : Users(k)' \subseteq Users(k)
   BY <1>7, UsersFall DEF Confirm, Alone, Step, Return, Goto, UserSteps, callVars, GateInv,
       PoolTypeOK
 <2>2. \A k \in Pools : IdleSessions(k)' \subseteq IdleSessions(k)
   BY <1>7 DEF Confirm, IdleSessions, slotVars, connVars
 <2> QED BY <2>1, <2>2, TallyFalls
<1>8. ASSUME Interrupted(o) PROVE Tally'
 <2>1. \A k \in Pools : Users(k)' \subseteq Users(k)
   BY <1>8, UsersFall DEF Interrupted, Alone, Step, Return, Goto, UserSteps, callVars, GateInv,
       PoolTypeOK
 <2>2. \A k \in Pools : IdleSessions(k)' \subseteq IdleSessions(k)
   BY <1>8 DEF Interrupted, IdleSessions, slotVars, connVars
 <2> QED BY <2>1, <2>2, TallyFalls
<1> QED BY <1>1, <1>2, <1>3, <1>4, <1>5, <1>6, <1>7, <1>8 DEF Acquire

(* So does every step of Borrow. *)
LEMMA BorrowTally ==
  ASSUME GateInv, OwnInv, SlotsInv, GateSmall, Tally, GateInv', GateSmall', NEW o \in Ops, Borrow(o)
  PROVE  Tally'
<1>1. Reuse(o) => Tally' BY ReuseTally
<1>2. Dial(o) => Tally' BY DialTally
<1>3. ASSUME Connected(o) PROVE Tally'
 <2>1. \A k \in Pools : Users(k)' \subseteq Users(k)
   BY <1>3, UsersFall DEF Connected, Alone, Step, Return, Goto, UserSteps, callVars, GateInv,
       PoolTypeOK
 <2>2. \A k \in Pools : IdleSessions(k)' \subseteq IdleSessions(k)
   BY <1>3 DEF Connected, IdleSessions, slotVars, connVars, GateInv, PoolTypeOK, Step
 <2> QED BY <2>1, <2>2, TallyFalls
<1>4. ASSUME ConnectFails(o) PROVE Tally'
 <2>1. \A k \in Pools : Users(k)' \subseteq Users(k)
   BY <1>4, UsersFall DEF ConnectFails, Alone, Step, Return, Goto, UserSteps, callVars,
       GateInv, PoolTypeOK
 <2>2. \A k \in Pools : IdleSessions(k)' \subseteq IdleSessions(k)
   BY <1>4 DEF ConnectFails, IdleSessions, slotVars, connVars
 <2> QED BY <2>1, <2>2, TallyFalls
<1>5. Reserve(o) => Tally' BY ReserveTally
<1>6. EvictIdle(o) => Tally' BY EvictIdleTally
<1>7. ASSUME HangUp(o) PROVE Tally'
 <2>1. \A k \in Pools : Users(k)' \subseteq Users(k)
   BY <1>7, UsersFall DEF HangUp, Alone, Step, Return, Goto, UserSteps, callVars, GateInv,
       PoolTypeOK
 <2>2. \A k \in Pools : IdleSessions(k)' \subseteq IdleSessions(k)
   BY <1>7 DEF HangUp, IdleSessions, slotVars, connVars
 <2> QED BY <2>1, <2>2, TallyFalls
<1>8. ASSUME HungUp(o) PROVE Tally'
 <2>1. \A k \in Pools : Users(k)' \subseteq Users(k)
  <3>1. Alone(o) /\ pc'[o] \notin UserSteps BY <1>8, HungUpDoes DEF UserSteps, GateInv
  <3> QED BY <3>1, UsersFall
 <2>2. \A k \in Pools : IdleSessions(k)' \subseteq IdleSessions(k)
   BY <1>8 DEF HungUp, IdleSessions, slotVars, connVars
 <2> QED BY <2>1, <2>2, TallyFalls
<1> QED BY <1>1, <1>2, <1>3, <1>4, <1>5, <1>6, <1>7, <1>8 DEF Borrow

(* So does every step of Finish. *)
LEMMA FinishTally ==
  ASSUME GateInv, OwnInv, SlotsInv, GateSmall, Tally, NEW o \in Ops, Finish(o)
  PROVE  Tally'
<1>1. ASSUME Done(o) PROVE Tally'
 <2>1. \A k \in Pools : Users(k)' \subseteq Users(k)
   BY <1>1, UsersFall DEF Done, Alone, Step, Return, Goto, UserSteps, callVars, GateInv,
       PoolTypeOK
 <2>2. \A k \in Pools : IdleSessions(k)' \subseteq IdleSessions(k)
   BY <1>1 DEF Done, IdleSessions, slotVars, connVars
 <2> QED BY <2>1, <2>2, TallyFalls
<1>2. ASSUME WatcherCloses(o) PROVE Tally'
 <2>1. \A k \in Pools : Users(k)' \subseteq Users(k)
   BY <1>2, UsersFall DEF WatcherCloses, Alone, Step, Return, Goto, UserSteps, callVars,
       GateInv, PoolTypeOK
 <2>2. \A k \in Pools : IdleSessions(k)' \subseteq IdleSessions(k)
   BY <1>2 DEF WatcherCloses, IdleSessions, slotVars, connVars
 <2> QED BY <2>1, <2>2, TallyFalls
<1>3. ASSUME WatcherStops(o) PROVE Tally'
 <2>1. \A k \in Pools : Users(k)' \subseteq Users(k)
   BY <1>3, UsersFall DEF WatcherStops, Alone, Step, Return, Goto, UserSteps, callVars,
       GateInv, PoolTypeOK
 <2>2. \A k \in Pools : IdleSessions(k)' \subseteq IdleSessions(k)
   BY <1>3 DEF WatcherStops, IdleSessions, slotVars, connVars
 <2> QED BY <2>1, <2>2, TallyFalls
<1>4. GiveBack(o) => Tally' BY GiveBackTally
<1>5. ASSUME Discard(o) PROVE Tally'
 <2>1. \A k \in Pools : Users(k)' \subseteq Users(k)
   BY <1>5, UsersFall DEF Discard, Alone, Step, Return, Goto, UserSteps, callVars, GateInv,
       PoolTypeOK
 <2>2. session[o] \in sessions[mine[o]] /\ mine[o] \in Pools
   BY <1>5, BorrowedPool DEF Discard, Step, OwnInv, Hands, Lent, Borrowed
 <2>3. /\ sessions' = [sessions EXCEPT ![mine[o]] = @ \ {session[o]}]
       /\ inUse' = inUse \ {session[o]} BY <1>5 DEF Discard
 <2>4. \A k \in Pools : IdleSessions(k)' \subseteq IdleSessions(k)
   BY <2>2, <2>3 DEF IdleSessions, OwnInv, Separate, GateInv, PoolTypeOK
 <2> QED BY <2>1, <2>4, TallyFalls
<1>6. ASSUME DoneAppend(o) PROVE Tally'
 <2>1. \A k \in Pools : Users(k)' \subseteq Users(k)
   BY <1>6, UsersFall DEF DoneAppend, Alone, Step, Return, Goto, UserSteps, callVars, GateInv,
       PoolTypeOK
 <2>2. \A k \in Pools : IdleSessions(k)' \subseteq IdleSessions(k)
   BY <1>6 DEF DoneAppend, IdleSessions, slotVars, connVars
 <2> QED BY <2>1, <2>2, TallyFalls
<1>7. ASSUME Unreserve(o) PROVE Tally'
 <2>1. \A k \in Pools : Users(k)' \subseteq Users(k)
   BY <1>7, UsersFall DEF Unreserve, Alone, Step, Return, Goto, UserSteps, callVars, GateInv,
       PoolTypeOK
 <2>2. \A k \in Pools : IdleSessions(k)' \subseteq IdleSessions(k)
   BY <1>7 DEF Unreserve, IdleSessions, slotVars, connVars
 <2> QED BY <2>1, <2>2, TallyFalls
<1>8. ASSUME ReleaseGate(o) PROVE Tally'
 <2>1. \A k \in Pools : Users(k)' \subseteq Users(k)
   BY <1>8, UsersFall DEF ReleaseGate, Alone, Step, Return, Goto, UserSteps, callVars, GateInv,
       PoolTypeOK
 <2>2. \A k \in Pools : IdleSessions(k)' \subseteq IdleSessions(k)
   BY <1>8 DEF ReleaseGate, IdleSessions, slotVars, connVars
 <2> QED BY <2>1, <2>2, TallyFalls
<1>9. ASSUME Deregister(o) PROVE Tally'
 <2>1. \A k \in Pools : Users(k)' \subseteq Users(k)
   BY <1>9, UsersFall DEF Deregister, Alone, Step, Return, Goto, UserSteps, callVars, GateInv,
       PoolTypeOK
 <2>2. \A k \in Pools : IdleSessions(k)' \subseteq IdleSessions(k)
   BY <1>9 DEF Deregister, IdleSessions, slotVars, connVars
 <2> QED BY <2>1, <2>2, TallyFalls
<1>10. ASSUME Unflock(o) PROVE Tally'
 <2>1. \A k \in Pools : Users(k)' \subseteq Users(k)
   BY <1>10, UsersFall DEF Unflock, Alone, Step, Return, Goto, UserSteps, callVars, GateInv,
       PoolTypeOK
 <2>2. \A k \in Pools : IdleSessions(k)' \subseteq IdleSessions(k)
   BY <1>10 DEF Unflock, IdleSessions, slotVars, connVars
 <2> QED BY <2>1, <2>2, TallyFalls
<1>11. ASSUME RUnlock(o) PROVE Tally'
 <2>1. \A k \in Pools : Users(k)' \subseteq Users(k)
   BY <1>11, UsersFall DEF RUnlock, Alone, Step, Return, Goto, UserSteps, callVars, GateInv,
       PoolTypeOK
 <2>2. \A k \in Pools : IdleSessions(k)' \subseteq IdleSessions(k)
   BY <1>11 DEF RUnlock, IdleSessions, slotVars, connVars
 <2> QED BY <2>1, <2>2, TallyFalls
<1>12. ASSUME Drain(o) PROVE Tally'
 <2>1. \A k \in Pools : Users(k)' \subseteq Users(k)
   BY <1>12, UsersFall DEF Drain, Alone, Step, Return, Goto, UserSteps, callVars, GateInv,
       PoolTypeOK
 <2>2. \A k \in Pools : IdleSessions(k)' \subseteq IdleSessions(k)
   BY <1>12 DEF Drain, IdleSessions, slotVars, connVars, Pooled, GateInv, PoolTypeOK
 <2> QED BY <2>1, <2>2, TallyFalls
<1> QED BY <1>1, <1>2, <1>3, <1>4, <1>5, <1>6, <1>7, <1>8, <1>9, <1>10, <1>11, <1>12 DEF Finish

(* So does every step of Caller. *)
LEMMA CallerTally ==
  ASSUME GateInv, OwnInv, SlotsInv, GateSmall, Tally, NEW o \in Ops, Caller(o)
  PROVE  Tally'
<1>1. ASSUME Cancel(o) PROVE Tally'
 <2>1. \A k \in Pools : Users(k)' \subseteq Users(k)
   BY <1>1, UsersFall DEF Cancel, Alone, Step, Return, Goto, UserSteps, callVars, GateInv,
       PoolTypeOK
 <2>2. \A k \in Pools : IdleSessions(k)' \subseteq IdleSessions(k)
   BY <1>1 DEF Cancel, IdleSessions, slotVars, connVars
 <2> QED BY <2>1, <2>2, TallyFalls
<1>2. ASSUME GateCanceled(o) PROVE Tally'
 <2>1. \A k \in Pools : Users(k)' \subseteq Users(k)
   BY <1>2, UsersFall DEF GateCanceled, Alone, Step, Return, Goto, UserSteps, callVars,
       GateInv, PoolTypeOK
 <2>2. \A k \in Pools : IdleSessions(k)' \subseteq IdleSessions(k)
   BY <1>2 DEF GateCanceled, IdleSessions, slotVars, connVars
 <2> QED BY <2>1, <2>2, TallyFalls
<1>3. ASSUME GiveUp(o) PROVE Tally'
 <2>1. \A k \in Pools : Users(k)' \subseteq Users(k)
   BY <1>3, UsersFall DEF GiveUp, Alone, Step, Return, Goto, UserSteps, callVars, GateInv,
       PoolTypeOK
 <2>2. \A k \in Pools : IdleSessions(k)' \subseteq IdleSessions(k)
   BY <1>3 DEF GiveUp, IdleSessions, slotVars, connVars
 <2> QED BY <2>1, <2>2, TallyFalls
<1>4. ASSUME BeginClose(o) PROVE Tally'
 <2>1. \A k \in Pools : Users(k)' \subseteq Users(k)
   BY <1>4, UsersFall DEF BeginClose, Alone, Step, Return, Goto, UserSteps, callVars, GateInv,
       PoolTypeOK
 <2>2. \A k \in Pools : IdleSessions(k)' \subseteq IdleSessions(k)
   BY <1>4 DEF BeginClose, IdleSessions, slotVars, connVars
 <2> QED BY <2>1, <2>2, TallyFalls
<1>5. ASSUME Invalidate(o) PROVE Tally'
 <2>1. \A k \in Pools : Users(k)' \subseteq Users(k)
   BY <1>5, UsersFall DEF Invalidate, Alone, Step, Return, Goto, UserSteps, callVars, GateInv,
       PoolTypeOK
 <2>2. \A k \in Pools : IdleSessions(k)' \subseteq IdleSessions(k)
   BY <1>5 DEF Invalidate, IdleSessions, slotVars, connVars, Pooled, GateInv, PoolTypeOK
 <2> QED BY <2>1, <2>2, TallyFalls
<1>6. ASSUME (\E request \in Requests : Begin(o, request)) PROVE Tally'
 <2>1. \A k \in Pools : Users(k)' \subseteq Users(k)
   BY <1>6, UsersFall DEF Begin, Alone, Step, Return, Goto, UserSteps, callVars, GateInv,
       PoolTypeOK
 <2>2. \A k \in Pools : IdleSessions(k)' \subseteq IdleSessions(k)
   BY <1>6 DEF Begin, IdleSessions, slotVars, connVars
 <2> QED BY <2>1, <2>2, TallyFalls
<1> QED BY <1>1, <1>2, <1>3, <1>4, <1>5, <1>6 DEF Caller

(* A client starts with nothing to count. *)
LEMMA CountStarts == Init => CountInv
<1> SUFFICES ASSUME Init PROVE CountInv OBVIOUS
<1>1. Counters BY DEF Init, Counters
<1>2. GateSmall BY FS_EmptySet DEF Init, GateSmall
<1>3. Tally
 <2>1. \A k \in Pools : IdleSessions(k) = {} /\ Users(k) = {} BY DEF Init, IdleSessions, Users
 <2>2. \A k \in Pools : Cardinality(IdleSessions(k)) = 0 /\ Cardinality(Users(k)) = 0
   BY <2>1, FS_EmptySet
 <2> QED BY <2>2 DEF Tally
<1> QED BY <1>1, <1>2, <1>3 DEF CountInv

(* No step of pool.go miscounts. *)
LEMMA CountPreserved ==
  GateInv /\ GateInv' /\ OwnInv /\ SlotsInv /\ CountInv /\ [Next]_vars => CountInv'
<1> SUFFICES ASSUME GateInv, GateInv', OwnInv, SlotsInv, CountInv, [Next]_vars PROVE CountInv'
  OBVIOUS
<1>1. ASSUME NEW o \in Ops, Acquire(o) PROVE CountInv'
  BY <1>1, AcquireCounters, AcquireSmall, AcquireTally DEF CountInv
<1>2. ASSUME NEW o \in Ops, Borrow(o) PROVE CountInv'
  BY <1>2, BorrowCounters, BorrowSmall, BorrowTally DEF CountInv
<1>3. ASSUME NEW o \in Ops, Finish(o) PROVE CountInv'
  BY <1>3, FinishCounters, FinishSmall, FinishTally DEF CountInv
<1>4. ASSUME NEW o \in Ops, Caller(o) PROVE CountInv'
  BY <1>4, CallerCounters, CallerSmall, CallerTally DEF CountInv
<1>5. CASE UNCHANGED vars
  BY <1>5 DEF vars, callVars, slotVars, gateVars, connVars, CountInv, Counters, GateSmall,
     Tally, IdleSessions, Users
<1> QED BY <1>1, <1>2, <1>3, <1>4, <1>5 DEF Next

(* Sizes of three disjoint finite sets. *)
LEMMA ThreeParts ==
  ASSUME NEW G, IsFiniteSet(G), NEW A \in SUBSET G, NEW B \in SUBSET G, NEW C \in SUBSET G,
         A \cap B = {}, A \cap C = {}, B \cap C = {}
  PROVE  /\ Cardinality(A) + Cardinality(B) + Cardinality(C) <= Cardinality(G)
         /\ Cardinality(A) \in Nat /\ Cardinality(B) \in Nat /\ Cardinality(C) \in Nat
         /\ IsFiniteSet(A) /\ Cardinality(G) \in Nat
<1>1. IsFiniteSet(A) /\ IsFiniteSet(B) /\ IsFiniteSet(C) /\ IsFiniteSet(A \cup B) BY FS_Subset
<1>2. Cardinality(A \cup B) = Cardinality(A) + Cardinality(B) - Cardinality(A \cap B)
  BY <1>1, FS_Union
<1>3. /\ IsFiniteSet((A \cup B) \cup C)
      /\ Cardinality((A \cup B) \cup C) =
           Cardinality(A \cup B) + Cardinality(C) - Cardinality((A \cup B) \cap C)
  BY <1>1, FS_Union
<1>4. Cardinality(A \cap B) = 0 /\ Cardinality((A \cup B) \cap C) = 0
 <2>1. A \cap B = {} /\ (A \cup B) \cap C = {} OBVIOUS
 <2> QED BY <2>1, FS_EmptySet
<1>5. Cardinality((A \cup B) \cup C) <= Cardinality(G)
 <2>1. (A \cup B) \cup C \subseteq G OBVIOUS
 <2> QED BY <2>1, FS_Subset
<1>6. /\ Cardinality(A) \in Nat /\ Cardinality(B) \in Nat /\ Cardinality(C) \in Nat
      /\ Cardinality(A \cup B) \in Nat /\ Cardinality(G) \in Nat
      /\ Cardinality((A \cup B) \cup C) \in Nat BY <1>1, <1>3, FS_CardinalityType
<1> QED BY <1>1, <1>2, <1>3, <1>4, <1>5, <1>6

(* Whom the gate let in finds a session or a slot: with nothing idle, all  *)
(* the slots belong to others past the same gate.                          *)
LEMMA CountMeansSlot ==
  ASSUME GateInv, OwnInv, SlotsInv, CountInv, NEW o \in Ops, pc[o] = "borrow",
         IdleSessions(mine[o]) = {}
  PROVE  Room(mine[o])
<1>1. PICK k \in Pools : k = mine[o] BY ActivePool DEF Active, Holding
<1> DEFINE B == {x \in Ops : Borrowed(x) /\ mine[x] = k}
           G == gate[k] \ {o}
           f == [x \in B |-> session[x]]
<1>2. /\ o \in gate[k] /\ IsFiniteSet(gate[k]) /\ Cardinality(gate[k]) <= Limit
      /\ Cardinality(gate[k]) \in Nat
  BY <1>1, FS_CardinalityType DEF GateInv, GateHeld, PastGate, Holding, CountInv, GateSmall
<1>3. IsFiniteSet(G) /\ Cardinality(G) = Cardinality(gate[k]) - 1 BY <1>2, OneLess
<1>4. B \subseteq G /\ connecting[k] \subseteq G /\ dedicated[k] \subseteq G
 <2>1. \A x \in Ops : pc[x] \in PastGate /\ mine[x] = k => x \in gate[k]
   BY DEF GateInv, GateHeld
 <2>2. connecting[k] \subseteq Ops /\ dedicated[k] \subseteq Ops BY DEF GateInv, PoolTypeOK
 <2> QED BY <2>1, <2>2 DEF Borrowed, PastGate, Holding, CountInv, Counters
<1>5. B \cap connecting[k] = {} /\ B \cap dedicated[k] = {}
      /\ connecting[k] \cap dedicated[k] = {}
 <2>1. connecting[k] \subseteq Ops /\ dedicated[k] \subseteq Ops BY DEF GateInv, PoolTypeOK
 <2>2. \A x \in Ops : /\ x \in connecting[k] => pc[x] = "connect"
                      /\ x \in dedicated[k] => pc[x] # "connect" /\ kind[x] = "append"
   BY DEF CountInv, Counters
 <2>3. \A x \in B : pc[x] # "connect" /\ kind[x] # "append" BY DEF Borrowed
 <2> HIDE DEF B
 <2> QED BY <2>1, <2>2, <2>3
<1>6. /\ Cardinality(B) + Cardinality(connecting[k]) + Cardinality(dedicated[k])
           <= Cardinality(G)
      /\ Cardinality(B) \in Nat /\ Cardinality(connecting[k]) \in Nat
      /\ Cardinality(dedicated[k]) \in Nat /\ IsFiniteSet(B) /\ Cardinality(G) \in Nat
 <2> HIDE DEF B, G
 <2> QED BY <1>3, <1>4, <1>5, ThreeParts
<1>7. Cardinality(sessions[k]) <= Cardinality(B)
 <2>1. \A x \in B : session[x] \in sessions[k] BY DEF OwnInv, Lent
 <2>2. ASSUME NEW n \in sessions[k] PROVE \E x \in B : session[x] = n
  <3>1. n \in inUse BY <1>1 DEF IdleSessions
  <3>2. PICK x \in Ops : Borrowed(x) /\ session[x] = n BY <3>1 DEF OwnInv, Marked
  <3>3. n \in sessions[mine[x]] /\ mine[x] \in Pools BY <3>2, BorrowedPool DEF OwnInv, Lent
  <3>4. mine[x] = k BY <2>2, <3>3 DEF OwnInv, Separate
  <3> QED BY <3>2, <3>4
 <2>3. f \in Surjection(B, sessions[k]) BY <2>1, <2>2 DEF Surjection
 <2> HIDE DEF f, B
 <2> QED BY <1>6, <2>3, FS_Surjection
<1>8. Cardinality(sessions[k]) \in Nat BY FS_CardinalityType DEF SlotsInv
<1> HIDE DEF B, G, f
<1> QED BY <1>1, <1>2, <1>3, <1>6, <1>7, <1>8 DEF Room, Slots

(* Whose connections the server sees are idle sessions of the client's     *)
(* pool object or those of its users, one each.                            *)
LEMMA CountMeansLimit ==
  ASSUME GateInv, OwnInv, SlotsInv, CountInv, NEW c \in Clients
  PROVE  LET ops == {o \in Ops : Home[o] = c /\ pc[o] # "hangup"}
             connected == Pooled(c) \cup {session[o] : o \in ops}
                   \cup (UNION {drop[o] : o \in ops})
         IN Cardinality(connected \cap open) <= Limit
<1> DEFINE ops == {o \in Ops : Home[o] = c /\ pc[o] # "hangup"}
           X == (Pooled(c) \cup {session[o] : o \in ops}
                 \cup (UNION {drop[o] : o \in ops})) \cap open
           k == current[c]
           h == [x \in Users(k) |-> IF session[x] # NoConn THEN session[x]
                                    ELSE CHOOSE n \in drop[x] : TRUE]
           T == {h[x] : x \in Users(k)}
<1>0. SUFFICES Cardinality(X) <= Limit OBVIOUS
<1>1. ASSUME NEW n \in X
      PROVE  \/ k \in Pools /\ n \in sessions[k]
             \/ \E x \in ops : session[x] = n \/ n \in drop[x]
 <2>1. CASE n \in Pooled(c) BY <2>1 DEF Pooled, GateInv, PoolTypeOK
 <2>2. CASE n \in {session[o] : o \in ops} BY <2>2
 <2>3. CASE n \in UNION {drop[o] : o \in ops} BY <2>3
 <2> QED BY <2>1, <2>2, <2>3
<1>2. ASSUME NEW n \in X, NEW x \in Ops, Home[x] = c,
             session[x] = n \/ (pc[x] # "hangup" /\ n \in drop[x])
      PROVE  k \in Pools /\ x \in Users(k) /\ n = h[x]
 <2>1. n # NoConn BY DEF GateInv, PoolTypeOK
 <2>2. CASE session[x] = n
  <3>1. pc[x] \in {"connect", "use", "join"}
    BY <2>1, <2>2 DEF OwnInv, Hands, Borrowed, Private
  <3>2. x \in Users(k) /\ k \in Pools BY <1>2, <3>1, ActivePool DEF Active, Holding, Users
  <3> QED BY <2>1, <2>2, <3>2
 <2>3. CASE pc[x] # "hangup" /\ n \in drop[x]
  <3>1. pc[x] \in {"evict", "discard"} BY <2>3 DEF OwnInv, Drops
  <3>2. x \in Users(k) /\ k \in Pools BY <1>2, <3>1, ActivePool DEF Active, Holding, Users
  <3>3. session[x] = NoConn BY <3>1 DEF OwnInv, Hands, Borrowed, Private
  <3>4. \A m \in drop[x] : m = n BY <2>3, <3>1 DEF OwnInv, Drops
  <3>5. (CHOOSE m \in drop[x] : TRUE) = n BY <2>3, <3>4
  <3> QED BY <3>2, <3>3, <3>5
 <2> QED BY <1>2, <2>2, <2>3
<1>3. CASE k \notin Pools
 <2>1. X = {} BY <1>1, <1>2, <1>3
 <2> HIDE DEF X
 <2> QED BY <2>1, FS_EmptySet
<1>4. CASE k \in Pools
 <2>1. X \subseteq IdleSessions(k) \cup T
  <3>1. SUFFICES ASSUME NEW n \in X PROVE n \in IdleSessions(k) \cup T BY DEF X
  <3>2. CASE n \in sessions[k] /\ n \notin inUse BY <3>2 DEF IdleSessions
  <3>3. CASE n \in sessions[k] /\ n \in inUse
   <4>1. PICK x \in Ops : Borrowed(x) /\ session[x] = n BY <3>3 DEF OwnInv, Marked
   <4>2. n \in sessions[mine[x]] /\ mine[x] \in Pools /\ mine[x] = current[Home[x]]
     BY <4>1, BorrowedPool DEF OwnInv, Lent
   <4>3. mine[x] = k /\ Home[x] = c BY <1>4, <3>3, <4>2 DEF OwnInv, Separate
   <4>4. x \in Users(k) /\ n = h[x] BY <1>2, <3>1, <4>1, <4>3
   <4> QED BY <4>4
  <3>4. CASE \E x \in ops : session[x] = n \/ n \in drop[x]
   <4>1. PICK x \in ops : session[x] = n \/ n \in drop[x] BY <3>4
   <4>2. x \in Users(k) /\ n = h[x] BY <1>2, <4>1
   <4> QED BY <4>2
  <3> QED BY <1>1, <3>2, <3>3, <3>4
 <2>2. /\ IsFiniteSet(IdleSessions(k)) /\ Cardinality(IdleSessions(k)) \in Nat
       /\ IsFiniteSet(Users(k)) /\ Cardinality(Users(k)) \in Nat BY <1>4, Sizes DEF CountInv
 <2>3. IsFiniteSet(T) /\ Cardinality(T) <= Cardinality(Users(k)) /\ Cardinality(T) \in Nat
  <3>1. h \in Surjection(Users(k), T) BY DEF Surjection
  <3> HIDE DEF h, T
  <3> QED BY <2>2, <3>1, FS_Surjection, FS_CardinalityType
 <2> HIDE DEF T, X
 <2>4. /\ IsFiniteSet(IdleSessions(k) \cup T)
       /\ Cardinality(IdleSessions(k) \cup T) =
            Cardinality(IdleSessions(k)) + Cardinality(T) - Cardinality(IdleSessions(k) \cap T)
   BY <2>2, <2>3, FS_Union
 <2>5. Cardinality(IdleSessions(k) \cap T) \in Nat
       /\ Cardinality(IdleSessions(k) \cup T) \in Nat
   BY <2>2, <2>4, FS_Subset, FS_CardinalityType
 <2>6. Cardinality(X) <= Cardinality(IdleSessions(k) \cup T) /\ Cardinality(X) \in Nat
   BY <2>1, <2>4, FS_Subset, FS_CardinalityType
 <2>7. Cardinality(IdleSessions(k)) + Cardinality(Users(k)) <= Limit
   BY <1>4 DEF CountInv, Tally
 <2> QED BY <2>2, <2>3, <2>4, <2>5, <2>6, <2>7
<1> QED BY <1>3, <1>4

(* What the counting shows. *)
LEMMA CountMeans == GateInv /\ OwnInv /\ SlotsInv /\ CountInv => ConnectionsAccounted
<1> SUFFICES ASSUME GateInv, OwnInv, SlotsInv, CountInv PROVE ConnectionsAccounted OBVIOUS
<1>1. NoLeak BY OwnMeans
<1>2. ServerLimit BY CountMeansLimit DEF ServerLimit
<1>3. SlotForGranted BY CountMeansSlot DEF SlotForGranted
<1> QED BY <1>1, <1>2, <1>3 DEF ConnectionsAccounted

(* No connection is forgotten, the server never sees more of a client than *)
(* connectionLimit(), and whom the gate lets in finds one (borrowSession,  *)
(* acquireDedicated).                                                      *)
THEOREM ConnectionsAddUp == Spec => []ConnectionsAccounted
<1>1. Init => GateInv /\ OwnInv /\ SlotsInv /\ CountInv
  BY PoolStarts, OwnStarts, SlotsStart, CountStarts
<1>2. GateInv /\ OwnInv /\ SlotsInv /\ CountInv /\ [Next]_vars
        => (GateInv /\ OwnInv /\ SlotsInv /\ CountInv)'
  BY PoolPreserves, OwnPreserved, SlotsPreserved, CountPreserved
<1>3. GateInv /\ OwnInv /\ SlotsInv /\ CountInv => ConnectionsAccounted BY CountMeans
<1> QED BY <1>1, <1>2, <1>3, PTL DEF Spec
=============================================================================
