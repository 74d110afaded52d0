----------------------------- MODULE AccountGate -----------------------------
(***************************************************************************)
(* What the IMAP client promises about the operations on one account: the  *)
(* reads of a process share the account, a mutation has it for itself, and *)
(* mutations of different processes exclude each other too.  ConnectionPool*)
(* has to keep this promise while the client is closed and reopened and    *)
(* credentials change.                                                     *)
(***************************************************************************)
CONSTANTS Ops, Clients, Home

VARIABLE access   \* "none", "shared" or "exclusive", per operation

GateInit == access = [o \in Ops |-> "none"]

Peers(o) == {x \in Ops \ {o} : Home[x] = Home[o]}

EnterShared(o) ==
  /\ access[o] = "none"
  /\ \A x \in Peers(o) : access[x] # "exclusive"
  /\ access' = [access EXCEPT ![o] = "shared"]

EnterExclusive(o) ==
  /\ access[o] = "none"
  /\ \A x \in Peers(o) : access[x] = "none"
  /\ \A x \in Ops : access[x] # "exclusive"
  /\ access' = [access EXCEPT ![o] = "exclusive"]

Leave(o) ==
  /\ access[o] # "none"
  /\ access' = [access EXCEPT ![o] = "none"]

GateNext == \E o \in Ops : EnterShared(o) \/ EnterExclusive(o) \/ Leave(o)

GateSpec == GateInit /\ [][GateNext]_access
=============================================================================
