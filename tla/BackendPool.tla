---------------------------- MODULE BackendPool ----------------------------
(***************************************************************************)
(* The backend pool: leases of connections keyed by role and replica.     *)
(*                                                                         *)
(* A role stands for the (user, database) pair of PgConnId; a client is   *)
(* one PooledForwarder task.  lease() picks a replica round-robin and asks *)
(* rama's LruDropPool for a connection with that key.  The pool library   *)
(* is external: it is modelled from how pool.rs uses it (one semaphore of *)
(* MaxSize active leases, MaxSize connections in all, an idle connection  *)
(* with the same key is reused, otherwise a new one is dialled, evicting  *)
(* an idle connection when the pool is full).                             *)
(***************************************************************************)
EXTENDS Integers, FiniteSets

CONSTANTS
  Clients,      \* the tasks that lease
  Conns,        \* connection identities
  Roles,        \* (user, database) pairs
  RoleOf,       \* the role each client authenticated as
  NumReplicas,  \* replicas.len()
  MaxSize,      \* max_size.max(1)
  NoClient,     \* the lessee of a connection nobody leases
  NoId          \* the key of a connection that is not open

Shards == 0 .. NumReplicas - 1

\* PgConnId: the key under which connections are pooled.
Ids == Roles \X Shards

ASSUME PoolAssumption ==
  /\ IsFiniteSet(Clients) /\ IsFiniteSet(Conns)
  /\ RoleOf \in [Clients -> Roles]
  /\ NumReplicas \in Nat \ {0}
  /\ MaxSize \in Nat \ {0}
  /\ NoClient \notin Clients
  /\ NoId \notin Ids

VARIABLES
  next,     \* the round-robin counter, modulo the number of replicas
  stage,    \* how far each client's lease() call has come
  shard,    \* the replica each client's current lease() call picked
  cstate,   \* closed, dialing, leased or idle
  cid,      \* the key each open connection is pooled under
  startup,  \* the client whose startup frame opened each connection
  lessee    \* the client that dials or leases each connection

poolVars == <<next, stage, shard, cstate, cid, startup, lessee>>

Stages == {"none", "waiting", "permit", "dialing", "holding"}

PoolTypeOK ==
  /\ next \in Shards
  /\ stage \in [Clients -> Stages]
  /\ shard \in [Clients -> Shards]
  /\ cstate \in [Conns -> {"closed", "dialing", "leased", "idle"}]
  /\ cid \in [Conns -> Ids \cup {NoId}]
  /\ startup \in [Conns -> Clients \cup {NoClient}]
  /\ lessee \in [Conns -> Clients \cup {NoClient}]

Open == {b \in Conns : cstate[b] # "closed"}
Idle == {b \in Conns : cstate[b] = "idle"}

\* The clients that own one of the MaxSize active permits.
Permits == {c \in Clients : stage[c] \in {"permit", "dialing", "holding"}}

\* The key of the request a client has pending.
ReqId(c) == <<RoleOf[c], shard[c]>>

PoolInit ==
  /\ next = 0
  /\ stage = [c \in Clients |-> "none"]
  /\ shard = [c \in Clients |-> 0]
  /\ cstate = [b \in Conns |-> "closed"]
  /\ cid = [b \in Conns |-> NoId]
  /\ startup = [b \in Conns |-> NoClient]
  /\ lessee = [b \in Conns |-> NoClient]
-----------------------------------------------------------------------------
(* lease(): pick a replica and queue for a connection *)

\* fetch_add(1) % replicas.len(): the counter wraps, only its residue is kept.
NextReplica == (next + 1) % NumReplicas

Lease(c) ==
  /\ stage[c] = "none"
  /\ shard' = [shard EXCEPT ![c] = next]
  /\ next' = NextReplica
  /\ stage' = [stage EXCEPT ![c] = "waiting"]
  /\ UNCHANGED <<cstate, cid, startup, lessee>>

\* Mutant: one permit too many.
AcquireOffByOne(c) ==
  /\ stage[c] = "waiting"
  /\ Cardinality(Permits) <= MaxSize
  /\ stage' = [stage EXCEPT ![c] = "permit"]
  /\ UNCHANGED <<next, shard, cstate, cid, startup, lessee>>

\* The caller obtains an active permit; it blocks here at capacity.
Acquire(c) ==
  /\ stage[c] = "waiting"
  /\ Cardinality(Permits) < MaxSize
  /\ stage' = [stage EXCEPT ![c] = "permit"]
  /\ UNCHANGED <<next, shard, cstate, cid, startup, lessee>>

\* Mutant: the key forgets the role.
MatchingAnyRole(c) == {b \in Idle : cid[b][2] = shard[c]}

\* The idle connections a request may be served with.
Matching(c) == {b \in Idle : cid[b] = ReqId(c)}

\* Mutant: a connection that is still leased is handed out again.
ReuseLeased(c, b) ==
  /\ stage[c] = "permit"
  /\ cstate[b] \in {"idle", "leased"} /\ cid[b] = ReqId(c)
  /\ cstate' = [cstate EXCEPT ![b] = "leased"]
  /\ lessee' = [lessee EXCEPT ![b] = c]
  /\ stage' = [stage EXCEPT ![c] = "holding"]
  /\ UNCHANGED <<next, shard, cid, startup>>

\* An idle connection with the requested key is handed out as it is.
Reuse(c, b) ==
  /\ stage[c] = "permit"
  /\ b \in Matching(c)
  /\ cstate' = [cstate EXCEPT ![b] = "leased"]
  /\ lessee' = [lessee EXCEPT ![b] = c]
  /\ stage' = [stage EXCEPT ![c] = "holding"]
  /\ UNCHANGED <<next, shard, cid, startup>>

\* The sets of connections that may be closed to make room for another.
Victims == {{}} \cup {{v} : v \in Conns}

\* Mutant: a full pool grows instead of evicting.
RoomAlways(gone) == gone = {}

\* Nothing is closed while a slot is free, otherwise one idle connection is.
Room(gone) ==
  IF Cardinality(Open) < MaxSize
  THEN gone = {}
  ELSE \E v \in Idle : gone = {v}

\* f with the value y for the connections in gone, and then x for b.
Swap(f, b, x, gone, y) ==
  [[d \in Conns |-> IF d \in gone THEN y ELSE f[d]] EXCEPT ![b] = x]

\* No idle connection matches: start dialling b, after making room for it
\* (b may take the identity of the connection closed to make room).
Create(c, b, gone) ==
  /\ stage[c] = "permit"
  /\ Matching(c) = {}
  /\ Room(gone)
  /\ cstate[b] = "closed" \/ b \in gone
  /\ cstate' = Swap(cstate, b, "dialing", gone, "closed")
  /\ cid' = Swap(cid, b, ReqId(c), gone, NoId)
  /\ startup' = Swap(startup, b, c, gone, NoClient)
  /\ lessee' = [lessee EXCEPT ![b] = c]
  /\ stage' = [stage EXCEPT ![c] = "dialing"]
  /\ UNCHANGED <<next, shard>>

\* PgConnector::serve: the backend accepted the replayed startup frame.
DialOk(c, b) ==
  /\ stage[c] = "dialing"
  /\ cstate[b] = "dialing" /\ lessee[b] = c
  /\ cstate' = [cstate EXCEPT ![b] = "leased"]
  /\ stage' = [stage EXCEPT ![c] = "holding"]
  /\ UNCHANGED <<next, shard, cid, startup, lessee>>

\* The client's call, or the lease it obtained, is over; its permit is free.
Done(c) ==
  /\ stage' = [stage EXCEPT ![c] = "none"]
  /\ shard' = [shard EXCEPT ![c] = 0]
  /\ UNCHANGED next

\* Connection b is closed and forgotten.
Close(b) ==
  /\ cstate' = [cstate EXCEPT ![b] = "closed"]
  /\ cid' = [cid EXCEPT ![b] = NoId]
  /\ startup' = [startup EXCEPT ![b] = NoClient]
  /\ lessee' = [lessee EXCEPT ![b] = NoClient]

\* Mutant: the permit of a failed dial is never given back.
DialFailLeaks(c, b) ==
  /\ stage[c] = "dialing"
  /\ cstate[b] = "dialing" /\ lessee[b] = c
  /\ Close(b)
  /\ UNCHANGED <<next, stage, shard>>

\* PgConnector::serve fails (or its caller is dropped): nothing is pooled.
DialFail(c, b) ==
  /\ stage[c] = "dialing"
  /\ cstate[b] = "dialing" /\ lessee[b] = c
  /\ Close(b)
  /\ Done(c)

\* lease() is dropped while it waits or before it has a connection.
Withdraw(c) ==
  /\ stage[c] \in {"waiting", "permit"}
  /\ Done(c)
  /\ UNCHANGED <<cstate, cid, startup, lessee>>
-----------------------------------------------------------------------------
(* Lease: the two ways to give a connection back *)

\* Lease::checkin: the native lease drops into the idle store.
Checkin(c, b) ==
  /\ cstate[b] = "leased" /\ lessee[b] = c
  /\ cstate' = [cstate EXCEPT ![b] = "idle"]
  /\ lessee' = [lessee EXCEPT ![b] = NoClient]
  /\ Done(c)
  /\ UNCHANGED <<cid, startup>>

\* Lease::discard and Drop for Lease: the connection is closed instead.
Discard(c, b) ==
  /\ cstate[b] = "leased" /\ lessee[b] = c
  /\ Close(b)
  /\ Done(c)

PoolNext ==
  \E c \in Clients :
     \/ Lease(c)
     \/ Acquire(c)
     \/ Withdraw(c)
     \/ \E b \in Conns :
           \/ Reuse(c, b)
           \/ \E gone \in Victims : Create(c, b, gone)
           \/ DialOk(c, b)
           \/ DialFail(c, b)
           \/ Checkin(c, b)
           \/ Discard(c, b)

PoolSpec == PoolInit /\ [][PoolNext]_poolVars

(***************************************************************************)
(* Fairness.  rama's permits come from a FIFO semaphore, so a waiting call *)
(* that can be served again and again is served (SF); a granted call runs *)
(* (WF); a dial ends, and a holder gives its lease back (WF): that last   *)
(* one is an obligation of the callers, not of the pool.                  *)
(***************************************************************************)
PoolFairness ==
  \A c \in Clients :
     /\ SF_poolVars(Acquire(c))
     /\ WF_poolVars(\E b \in Conns :
           Reuse(c, b) \/ \E gone \in Victims : Create(c, b, gone))
     /\ WF_poolVars(\E b \in Conns : DialOk(c, b) \/ DialFail(c, b))
     /\ WF_poolVars(\E b \in Conns : Checkin(c, b) \/ Discard(c, b))

PoolFairSpec == PoolSpec /\ PoolFairness
-----------------------------------------------------------------------------
(* Properties *)

\* Whoever got a permit can be served: the pool never grants a lease that then
\* finds neither a free slot nor an idle connection to evict or reuse.
\* (BackendPool::with_connector gives rama the same bound twice.)
PermitServable ==
  (\E c \in Clients : stage[c] = "permit") =>
     Cardinality(Open) < MaxSize \/ Idle # {}

\* A client only ever dials or holds a connection of its own role on the
\* replica its lease() picked (the PgConnId key of BackendPool::lease).
OwnId ==
  \A b \in Conns : lessee[b] # NoClient => cid[b] = ReqId(lessee[b])

\* At most MaxSize connections exist, dialled and idle ones included.
OpenBound == Cardinality(Open) <= MaxSize

\* A caller blocked at capacity is served or leaves: lease() cannot starve.
LeaseServed ==
  \A c \in Clients : stage[c] = "waiting" ~> stage[c] # "waiting"

\* What the README says of a reused backend, that "session state can't leak
\* between clients": a client's backend runs with that client's own startup
\* options, the state DISCARD ALL resets it to.
OwnStartup == \A b \in Conns : cstate[b] = "leased" => startup[b] = lessee[b]

\* The pool implements the contract; without protocol state nothing is dirty.
Holder == [b \in Conns |-> IF cstate[b] = "leased" THEN lessee[b] ELSE NoClient]

Contract == INSTANCE LeaseContract WITH holder <- Holder, dirty <- {}

PoolImplementsContract == Contract!ContractSpec
=============================================================================
