-------------------------- MODULE MCConnectionPool --------------------------
(* The session pool on small instances; names are interchangeable. *)
EXTENDS ConnectionPoolProps, TLC

CONSTANTS c1, o1, o2, o3

OneClient == [o \in Ops |-> c1]

(* Two callers and an administrator. *)
Mixed == o1 :> {"read", "mutate"} @@ o2 :> {"read", "append"} @@ o3 :> {"close", "change"}

(* Readers that come again and again, a mutation, a Close. *)
Crowd == o1 :> {"mutate"} @@ o2 :> {"read"} @@ o3 :> {"read", "close"}

PoolSymmetry == Permutations(Pools) \cup Permutations(Conns)
=============================================================================
