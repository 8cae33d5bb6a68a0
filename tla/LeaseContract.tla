--------------------------- MODULE LeaseContract ---------------------------
(***************************************************************************)
(* What the pool promises the clients that lease backends from it: a      *)
(* backend serves at most one client, a client holds at most one backend, *)
(* at most MaxSize backends are held, and a backend that changes hands is *)
(* clean: nothing of the previous client is left on it.                   *)
(*                                                                         *)
(* This is the abstract specification that BackendPool and, with the      *)
(* protocol state of the backends, PooledForwarder implement.             *)
(***************************************************************************)
EXTENDS Integers, FiniteSets

CONSTANTS Clients, Conns, MaxSize, NoClient

VARIABLES
  holder,   \* the client each backend serves, or NoClient
  dirty     \* the backends that carry state of the client they serve

contractVars == <<holder, dirty>>

Held == {b \in Conns : holder[b] # NoClient}

ContractInit ==
  /\ holder = [b \in Conns |-> NoClient]
  /\ dirty = {}

\* A clean, free backend is given to a client that holds none.
Grant(c, b) ==
  /\ holder[b] = NoClient
  /\ b \notin dirty
  /\ \A d \in Conns : holder[d] # c
  /\ Cardinality(Held) < MaxSize
  /\ holder' = [holder EXCEPT ![b] = c]
  /\ UNCHANGED dirty

\* The client uses its backend, or the backend is cleaned while still held.
Use(b) ==
  /\ holder[b] # NoClient
  /\ \/ dirty' = dirty \cup {b}
     \/ dirty' = dirty \ {b}
  /\ UNCHANGED holder

\* The backend is given back clean, or closed and thereby clean.
Release(b) ==
  /\ holder[b] # NoClient
  /\ holder' = [holder EXCEPT ![b] = NoClient]
  /\ dirty' = dirty \ {b}

ContractNext ==
  \E b \in Conns :
     \/ \E c \in Clients : Grant(c, b)
     \/ Use(b)
     \/ Release(b)

ContractSpec == ContractInit /\ [][ContractNext]_contractVars
=============================================================================
