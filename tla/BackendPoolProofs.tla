------------------------- MODULE BackendPoolProofs -------------------------
(***************************************************************************)
(* The pool's invariants for every number of clients, connections, roles  *)
(* and replicas, and that it implements LeaseContract.                    *)
(***************************************************************************)
EXTENDS BackendPool, FiniteSetTheorems, TLAPS

\* The connections somebody dials or leases.
Busy == {b \in Conns : lessee[b] # NoClient}

\* A connection has a lessee exactly while it is dialled or leased, and the
\* lessee's call is then in the corresponding stage.
LesseeStage ==
  \A b \in Conns :
     /\ cstate[b] \in {"closed", "idle"} <=> lessee[b] = NoClient
     /\ cstate[b] = "dialing" => stage[lessee[b]] = "dialing"
     /\ cstate[b] = "leased" => stage[lessee[b]] = "holding"

\* A client dials or leases at most one connection.
LesseeUnique ==
  \A b, d \in Conns : lessee[b] = lessee[d] /\ lessee[b] # NoClient => b = d

PermitBound == Cardinality(Permits) <= MaxSize

\* The inductive invariant.
PoolInv ==
  PoolTypeOK /\ LesseeStage /\ LesseeUnique /\ OwnId /\ PermitBound /\ OpenBound
-----------------------------------------------------------------------------
(* Finite sets *)

\* One more element adds at most one to the cardinality.
LEMMA AddOne ==
  ASSUME NEW S, NEW x, IsFiniteSet(S)
  PROVE  /\ Cardinality(S) \in Nat
         /\ Cardinality(S \cup {x}) \in Nat
         /\ Cardinality(S \cup {x}) <= Cardinality(S) + 1
<1>1. Cardinality(S) \in Nat
  BY FS_CardinalityType
<1>2. CASE x \in S
  <2>1. S \cup {x} = S
    BY <1>2
  <2>. QED
    BY <1>1, <2>1
<1>3. CASE x \notin S
  <2>1. Cardinality(S \cup {x}) = Cardinality(S) + 1
    BY <1>3, FS_AddElement
  <2>. QED
    BY <1>1, <2>1
<1>. QED
  BY <1>2, <1>3

\* The sets the capacity argument counts are finite.
LEMMA Finite ==
  /\ IsFiniteSet(Permits) /\ Cardinality(Permits) \in Nat
  /\ IsFiniteSet(Open) /\ Cardinality(Open) \in Nat
  /\ IsFiniteSet(Busy) /\ Cardinality(Busy) \in Nat
<1>1. Permits \in SUBSET Clients /\ Open \in SUBSET Conns /\ Busy \in SUBSET Conns
  BY DEF Permits, Open, Busy
<1>2. IsFiniteSet(Permits) /\ IsFiniteSet(Open) /\ IsFiniteSet(Busy)
  BY <1>1, FS_Subset, PoolAssumption
<1>. QED
  BY <1>2, FS_CardinalityType

\* Every busy connection is paid for by a permit of its own: if no lessee is in
\* P, the others still need a permit each.
LEMMA BusyBound ==
  ASSUME PoolTypeOK, LesseeStage, LesseeUnique,
         NEW S \in SUBSET Busy, NEW P \in SUBSET Permits,
         \A b \in S : lessee[b] \in P
  PROVE  Cardinality(S) <= Cardinality(P)
<1>. DEFINE f == [b \in S |-> lessee[b]]
<1>1. IsFiniteSet(P)
  BY Finite, FS_Subset
<1>2. f \in [S -> P]
  OBVIOUS
<1>3. \A b, d \in S : f[b] = f[d] => b = d
  BY DEF LesseeUnique, Busy
<1>4. f \in Injection(S, P)
  BY <1>2, <1>3 DEF Injection, IsInjective
<1>. QED
  BY <1>1, <1>4, FS_Injection

\* A client with a permit and no connection yet leaves one permit unused by
\* the busy connections.
LEMMA BusyBelowMax ==
  ASSUME PoolTypeOK, LesseeStage, LesseeUnique, PermitBound,
         NEW c \in Clients, stage[c] = "permit"
  PROVE  Cardinality(Busy) < MaxSize
<1>1. c \in Permits
  BY DEF Permits
<1>2. \A b \in Busy : lessee[b] \in Permits \ {c}
  BY DEF Busy, Permits, LesseeStage, PoolTypeOK
<1>3. Cardinality(Busy) <= Cardinality(Permits \ {c})
  BY <1>2, BusyBound
<1>4. Cardinality(Permits \ {c}) = Cardinality(Permits) - 1
  BY <1>1, Finite, FS_RemoveElement
<1>. QED
  BY <1>3, <1>4, Finite, PoolAssumption DEF PermitBound
-----------------------------------------------------------------------------
(* Each step of the pool preserves the invariant *)

\* The number of permits after a step in which client c obtained one.
LEMMA PermitAdded ==
  ASSUME NEW c \in Clients, Permits' = Permits \cup {c},
         Cardinality(Permits) < MaxSize
  PROVE  PermitBound'
<1>1. Cardinality(Permits \cup {c}) <= Cardinality(Permits) + 1
  BY Finite, AddOne
<1>2. Cardinality(Permits \cup {c}) \in Nat
  BY Finite, AddOne
<1>. QED
  BY <1>1, <1>2, Finite, PoolAssumption DEF PermitBound

\* Giving up permits keeps the bound, closing connections keeps theirs.
LEMMA BoundsShrink ==
  /\ PermitBound /\ Permits' \subseteq Permits => PermitBound'
  /\ OpenBound /\ Open' \subseteq Open => OpenBound'
<1>1. ASSUME PermitBound, Permits' \subseteq Permits PROVE PermitBound'
  <2>1. /\ Cardinality(Permits') <= Cardinality(Permits)
        /\ Cardinality(Permits') \in Nat
    BY <1>1, Finite, FS_Subset, FS_CardinalityType
  <2>. QED
    BY <1>1, <2>1, Finite, PoolAssumption DEF PermitBound
<1>2. ASSUME OpenBound, Open' \subseteq Open PROVE OpenBound'
  <2>1. /\ Cardinality(Open') <= Cardinality(Open)
        /\ Cardinality(Open') \in Nat
    BY <1>2, Finite, FS_Subset, FS_CardinalityType
  <2>. QED
    BY <1>2, <2>1, Finite, PoolAssumption DEF OpenBound
<1>. QED
  BY <1>1, <1>2

\* The key of a lease() request is a PgConnId.
LEMMA ReqIdType ==
  ASSUME PoolTypeOK, NEW c \in Clients
  PROVE  ReqId(c) \in Ids /\ ReqId(c) # NoId
BY PoolAssumption DEF PoolTypeOK, ReqId, Ids

\* A new pool satisfies the invariant.
LEMMA PoolInitInv == PoolInit => PoolInv
<1>. SUFFICES ASSUME PoolInit PROVE PoolInv
  OBVIOUS
<1>. USE PoolAssumption DEF PoolInit
<1>1. PoolTypeOK
  BY DEF PoolTypeOK, Shards, Stages
<1>2. LesseeStage /\ LesseeUnique /\ OwnId
  BY DEF LesseeStage, LesseeUnique, OwnId
<1>3. Permits = {} /\ Open = {}
  BY DEF Permits, Open
<1>4. PermitBound /\ OpenBound
  BY <1>3, FS_EmptySet DEF PermitBound, OpenBound
<1>. QED
  BY <1>1, <1>2, <1>4 DEF PoolInv

\* lease() entering the queue preserves it.
LEMMA LeaseInv == \A c \in Clients : PoolInv /\ Lease(c) => PoolInv'
<1>. SUFFICES ASSUME NEW c \in Clients, PoolInv, Lease(c) PROVE PoolInv'
  OBVIOUS
<1>. USE PoolAssumption DEF PoolInv, Lease
<1>1. PoolTypeOK'
  BY DEF PoolTypeOK, Stages, Shards, NextReplica
<1>2. LesseeStage' /\ LesseeUnique' /\ OwnId'
  BY DEF PoolTypeOK, LesseeStage, LesseeUnique, OwnId, ReqId
<1>3. Permits' \subseteq Permits /\ Open' \subseteq Open
  BY DEF Permits, Open, PoolTypeOK
<1>. QED
  BY <1>1, <1>2, <1>3, BoundsShrink

\* Obtaining a permit preserves it: the semaphore counts as Permits does.
LEMMA AcquireInv == \A c \in Clients : PoolInv /\ Acquire(c) => PoolInv'
<1>. SUFFICES ASSUME NEW c \in Clients, PoolInv, Acquire(c) PROVE PoolInv'
  OBVIOUS
<1>. USE PoolAssumption DEF PoolInv, Acquire
<1>1. PoolTypeOK'
  BY DEF PoolTypeOK, Stages
<1>2. LesseeStage' /\ LesseeUnique' /\ OwnId'
  BY DEF PoolTypeOK, LesseeStage, LesseeUnique, OwnId, ReqId
<1>3. Permits' = Permits \cup {c}
  BY DEF Permits, PoolTypeOK
<1>4. Open' \subseteq Open
  BY DEF Open
<1>. QED
  BY <1>1, <1>2, <1>3, <1>4, BoundsShrink, PermitAdded

\* A lease() dropped before it has a connection preserves it.
LEMMA WithdrawInv == \A c \in Clients : PoolInv /\ Withdraw(c) => PoolInv'
<1>. SUFFICES ASSUME NEW c \in Clients, PoolInv, Withdraw(c) PROVE PoolInv'
  OBVIOUS
<1>. USE PoolAssumption DEF PoolInv, Withdraw, Done
<1>1. PoolTypeOK'
  BY DEF PoolTypeOK, Stages, Shards
<1>2. LesseeStage' /\ LesseeUnique' /\ OwnId'
  BY DEF PoolTypeOK, LesseeStage, LesseeUnique, OwnId, ReqId
<1>3. Permits' \subseteq Permits /\ Open' \subseteq Open
  BY DEF Permits, Open, PoolTypeOK
<1>. QED
  BY <1>1, <1>2, <1>3, BoundsShrink

\* Handing out an idle connection preserves it.
LEMMA ReuseInv ==
  \A c \in Clients, b \in Conns : PoolInv /\ Reuse(c, b) => PoolInv'
<1>. SUFFICES ASSUME NEW c \in Clients, NEW b \in Conns, PoolInv, Reuse(c, b)
              PROVE  PoolInv'
  OBVIOUS
<1>. USE PoolAssumption DEF PoolInv, Reuse, Matching, Idle
<1>1. PoolTypeOK'
  BY DEF PoolTypeOK, Stages
<1>2. \A d \in Conns : lessee[d] # c
  BY DEF PoolTypeOK, LesseeStage
<1>3. LesseeStage' /\ LesseeUnique'
  BY <1>2 DEF PoolTypeOK, LesseeStage, LesseeUnique
<1>4. OwnId'
  BY <1>2 DEF PoolTypeOK, OwnId, ReqId
<1>5. Permits' \subseteq Permits /\ Open' \subseteq Open
  BY DEF Permits, Open, PoolTypeOK
<1>. QED
  BY <1>1, <1>3, <1>4, <1>5, BoundsShrink

\* A dial that succeeds preserves it.
LEMMA DialOkInv ==
  \A c \in Clients, b \in Conns : PoolInv /\ DialOk(c, b) => PoolInv'
<1>. SUFFICES ASSUME NEW c \in Clients, NEW b \in Conns, PoolInv, DialOk(c, b)
              PROVE  PoolInv'
  OBVIOUS
<1>. USE PoolAssumption DEF PoolInv, DialOk
<1>1. PoolTypeOK'
  BY DEF PoolTypeOK, Stages
<1>2. LesseeStage' /\ LesseeUnique' /\ OwnId'
  BY DEF PoolTypeOK, LesseeStage, LesseeUnique, OwnId, ReqId
<1>3. Permits' \subseteq Permits /\ Open' \subseteq Open
  BY DEF Permits, Open, PoolTypeOK
<1>. QED
  BY <1>1, <1>2, <1>3, BoundsShrink

\* DialFail, Discard and Checkin end a call; they differ in what becomes of b.
LEMMA EndInv ==
  \A c \in Clients, b \in Conns :
     PoolInv /\ (DialFail(c, b) \/ Discard(c, b) \/ Checkin(c, b)) => PoolInv'
<1>. SUFFICES ASSUME NEW c \in Clients, NEW b \in Conns, PoolInv,
                     DialFail(c, b) \/ Discard(c, b) \/ Checkin(c, b)
              PROVE  PoolInv'
  OBVIOUS
<1>. USE PoolAssumption DEF PoolInv, DialFail, Discard, Checkin, Close, Done
<1>1. PoolTypeOK'
  BY DEF PoolTypeOK, Stages, Shards
<1>2. \A d \in Conns : lessee[d] = c => d = b
  BY DEF LesseeUnique, PoolTypeOK
<1>3. LesseeStage'
  BY <1>2 DEF PoolTypeOK, LesseeStage
<1>4. LesseeUnique'
  BY <1>2 DEF PoolTypeOK, LesseeUnique
<1>5. OwnId'
  BY <1>2 DEF PoolTypeOK, OwnId, ReqId
<1>6. Permits' \subseteq Permits /\ Open' \subseteq Open
  BY DEF Permits, Open, PoolTypeOK
<1>. QED
  BY <1>1, <1>3, <1>4, <1>5, <1>6, BoundsShrink

\* Starting a dial, with or without an eviction, preserves it: the capacity
\* argument is here.
LEMMA CreateInv ==
  \A c \in Clients, b \in Conns, gone \in Victims :
     PoolInv /\ Create(c, b, gone) => PoolInv'
<1>. SUFFICES ASSUME NEW c \in Clients, NEW b \in Conns, NEW gone \in Victims,
                     PoolInv, Create(c, b, gone)
              PROVE  PoolInv'
  OBVIOUS
<1>. USE PoolAssumption DEF PoolInv, Swap
<1>0. gone \subseteq Idle /\ Idle \subseteq Open
  BY DEF Create, Room, Idle, Open
<1>1. PoolTypeOK'
  BY ReqIdType DEF PoolTypeOK, Stages, Create
<1>2. \A d \in Conns : lessee[d] # c
  BY DEF PoolTypeOK, LesseeStage, Create
<1>3. b \notin Busy /\ gone \cap Busy = {}
  BY <1>0 DEF LesseeStage, Create, Idle, Busy
<1>4. LesseeStage'
  BY <1>0, <1>2, <1>3 DEF PoolTypeOK, LesseeStage, Create, Idle, Busy
<1>5. LesseeUnique'
  BY <1>2 DEF PoolTypeOK, LesseeUnique, Create
<1>6. OwnId'
  BY <1>2, <1>3 DEF PoolTypeOK, OwnId, ReqId, Create, Busy
<1>7. Permits' \subseteq Permits
  BY DEF Permits, PoolTypeOK, Create
<1>8. OpenBound'
  <2>1. Open' = (Open \ gone) \cup {b}
    BY DEF Open, PoolTypeOK, Create
  <2>2. CASE gone = {}
    <3>1. Cardinality(Open) < MaxSize
      BY <2>2 DEF Create, Room
    <3>2. /\ Cardinality(Open \cup {b}) \in Nat
          /\ Cardinality(Open \cup {b}) <= Cardinality(Open) + 1
      BY Finite, AddOne
    <3>3. Open' = Open \cup {b}
      BY <2>1, <2>2
    <3>. QED
      BY <3>1, <3>2, <3>3, Finite DEF OpenBound
  <2>3. CASE gone # {}
    <3>1. PICK v \in Open : gone = {v}
      BY <1>0, <2>3 DEF Victims
    <3>2. IsFiniteSet(Open \ {v}) /\ Cardinality(Open \ {v}) = Cardinality(Open) - 1
      BY <3>1, Finite, FS_RemoveElement
    <3>3. /\ Cardinality((Open \ {v}) \cup {b}) \in Nat
          /\ Cardinality((Open \ {v}) \cup {b}) <= Cardinality(Open \ {v}) + 1
      BY <3>2, AddOne
    <3>4. Open' = (Open \ {v}) \cup {b}
      BY <2>1, <3>1
    <3>. QED
      BY <3>2, <3>3, <3>4, Finite DEF OpenBound
  <2>. QED
    BY <2>2, <2>3
<1>. QED
  BY <1>1, <1>4, <1>5, <1>6, <1>7, <1>8, BoundsShrink
-----------------------------------------------------------------------------
(* The theorems *)

\* Every step of the pool preserves it.
LEMMA PoolNextInv == PoolInv /\ [PoolNext]_poolVars => PoolInv'
<1>. SUFFICES ASSUME PoolInv, [PoolNext]_poolVars PROVE PoolInv'
  OBVIOUS
<1>1. CASE PoolNext
  BY <1>1, LeaseInv, AcquireInv, WithdrawInv, ReuseInv, CreateInv, DialOkInv, EndInv
  DEF PoolNext
<1>2. CASE UNCHANGED poolVars
  <2>1. PoolTypeOK'
    BY <1>2 DEF poolVars, PoolInv, PoolTypeOK
  <2>2. LesseeStage' /\ LesseeUnique'
    BY <1>2 DEF poolVars, PoolInv, LesseeStage, LesseeUnique
  <2>3. OwnId'
    BY <1>2 DEF poolVars, PoolInv, OwnId, ReqId
  <2>4. PermitBound' /\ OpenBound'
    BY <1>2 DEF poolVars, PoolInv, PermitBound, Permits, OpenBound, Open
  <2>. QED
    BY <2>1, <2>2, <2>3, <2>4 DEF PoolInv
<1>. QED
  BY <1>1, <1>2

\* The pool's state stays well-typed and its lessees, calls, keys and bounds
\* agree: the invariant every other result rests on.
THEOREM PoolInvariant == PoolSpec => []PoolInv
BY PoolInitInv, PoolNextInv, PTL DEF PoolSpec

\* BackendPool's variables keep their types.
THEOREM PoolTyped == PoolSpec => []PoolTypeOK
<1>1. PoolInv => PoolTypeOK
  BY DEF PoolInv
<1>. QED
  BY <1>1, PoolInvariant, PTL

\* A client only dials or holds connections of its own role and of the replica
\* its lease() picked.
THEOREM PoolOwnId == PoolSpec => []OwnId
<1>1. PoolInv => OwnId
  BY DEF PoolInv
<1>. QED
  BY <1>1, PoolInvariant, PTL

\* Never more than MaxSize connections exist.
THEOREM PoolOpenBound == PoolSpec => []OpenBound
<1>1. PoolInv => OpenBound
  BY DEF PoolInv
<1>. QED
  BY <1>1, PoolInvariant, PTL

\* A lease() that got a permit always finds a free slot or an idle connection:
\* it never waits, or fails, for want of a slot.
THEOREM PoolPermitServable == PoolSpec => []PermitServable
<1>1. PoolInv => PermitServable
  <2>. SUFFICES ASSUME PoolInv, NEW c \in Clients, stage[c] = "permit", Idle = {}
                PROVE  Cardinality(Open) < MaxSize
    BY DEF PermitServable
  <2>1. Open = Busy
    BY DEF PoolInv, PoolTypeOK, LesseeStage, Open, Busy, Idle
  <2>. QED
    BY <2>1, BusyBelowMax DEF PoolInv
<1>. QED
  BY <1>1, PoolInvariant, PTL

\* The contract counts as the pool does.
LEMMA SameCardinality == \A S : Contract!Cardinality(S) = Cardinality(S)
BY Zenon DEF Contract!Cardinality, Cardinality

\* A connection is granted while another permit's worth of room is left.
LEMMA HeldBound ==
  ASSUME PoolInv, NEW c \in Clients,
         \A d \in Conns : Holder[d] # c,
         c \in Permits
  PROVE  Contract!Cardinality(Contract!Held) < MaxSize
<1>. DEFINE H == {d \in Conns : Holder[d] # NoClient}
<1>1. H \in SUBSET Busy
  BY DEF Holder, Busy, PoolInv, PoolTypeOK
<1>2. \A d \in H : lessee[d] \in Permits \ {c}
  BY DEF Holder, Permits, PoolInv, PoolTypeOK, LesseeStage
<1>3. Cardinality(H) <= Cardinality(Permits \ {c})
  BY <1>1, <1>2, BusyBound DEF PoolInv
<1>4. Cardinality(Permits \ {c}) = Cardinality(Permits) - 1
  BY Finite, FS_RemoveElement
<1>5. Cardinality(H) \in Nat
  BY <1>1, Finite, FS_Subset, FS_CardinalityType
<1>6. Cardinality(H) < MaxSize
  BY <1>3, <1>4, <1>5, Finite, PoolAssumption DEF PoolInv, PermitBound
<1>. QED
  BY <1>6, SameCardinality DEF Contract!Held

\* Handing out a connection is a Grant of the contract.
LEMMA GrantStep ==
  ASSUME PoolInv, NEW c \in Clients, NEW b \in Conns, Reuse(c, b) \/ DialOk(c, b)
  PROVE  Contract!Grant(c, b)
<1>. USE PoolAssumption DEF PoolInv
<1>1. Holder[b] = NoClient
  BY DEF Reuse, DialOk, Matching, Idle, Holder
<1>2. \A d \in Conns : Holder[d] # c
  BY DEF Reuse, DialOk, Holder, LesseeStage, PoolTypeOK
<1>3. c \in Permits
  BY DEF Reuse, DialOk, Permits
<1>4. Contract!Cardinality(Contract!Held) < MaxSize
  BY <1>2, <1>3, HeldBound
<1>5. Holder' = [Holder EXCEPT ![b] = c]
  BY DEF Reuse, DialOk, Holder, PoolTypeOK
<1>. QED
  BY <1>1, <1>2, <1>4, <1>5 DEF Contract!Grant

\* Giving one back, whole or closed, is a Release.
LEMMA ReleaseStep ==
  ASSUME PoolInv, NEW c \in Clients, NEW b \in Conns, Checkin(c, b) \/ Discard(c, b)
  PROVE  Contract!Release(b)
<1>1. Holder[b] # NoClient
  BY PoolAssumption DEF Checkin, Discard, Holder
<1>2. Holder' = [Holder EXCEPT ![b] = NoClient]
  BY DEF Checkin, Discard, Close, Holder, PoolInv, PoolTypeOK
<1>. QED
  BY <1>1, <1>2 DEF Contract!Release

\* Every other step leaves the leases alone.
LEMMA SilentStep ==
  ASSUME PoolInv, NEW c \in Clients,
         \/ Lease(c) \/ Acquire(c) \/ Withdraw(c)
         \/ \E b \in Conns : DialFail(c, b) \/ \E gone \in Victims : Create(c, b, gone)
  PROVE  Holder' = Holder
<1>1. CASE Lease(c) \/ Acquire(c) \/ Withdraw(c)
  BY <1>1 DEF Lease, Acquire, Withdraw, Holder
<1>2. ASSUME NEW b \in Conns, DialFail(c, b) PROVE Holder' = Holder
  BY <1>2 DEF DialFail, Close, Holder, PoolInv, PoolTypeOK
<1>3. ASSUME NEW b \in Conns, NEW gone \in Victims, Create(c, b, gone)
      PROVE  Holder' = Holder
  <2>1. \A d \in gone \cup {b} : cstate[d] # "leased"
    BY <1>3 DEF Create, Room, Idle
  <2>2. \A d \in Conns : cstate'[d] = "leased" <=> cstate[d] = "leased"
    BY <1>3, <2>1 DEF Create, Swap, PoolInv, PoolTypeOK
  <2>3. \A d \in Conns : cstate[d] = "leased" => lessee'[d] = lessee[d]
    BY <1>3, <2>1 DEF Create, PoolInv, PoolTypeOK
  <2>. QED
    BY <2>2, <2>3 DEF Holder
<1>. QED
  BY <1>1, <1>2, <1>3

\* The pool implements the lease contract: one client per backend, one backend
\* per client, at most MaxSize backends in use.
THEOREM PoolRefinement == PoolSpec => PoolImplementsContract
<1>1. PoolInit => Contract!ContractInit
  BY DEF PoolInit, Contract!ContractInit, Holder
<1>2. PoolInv /\ [PoolNext]_poolVars => [Contract!ContractNext]_(Contract!contractVars)
  <2>. SUFFICES ASSUME PoolInv, [PoolNext]_poolVars
                PROVE  Contract!ContractNext \/ Holder' = Holder
    BY DEF Contract!contractVars
  <2>1. ASSUME NEW c \in Clients, NEW b \in Conns, Reuse(c, b) \/ DialOk(c, b)
        PROVE  Contract!ContractNext
    BY <2>1, GrantStep DEF Contract!ContractNext
  <2>2. ASSUME NEW c \in Clients, NEW b \in Conns, Checkin(c, b) \/ Discard(c, b)
        PROVE  Contract!ContractNext
    BY <2>2, ReleaseStep DEF Contract!ContractNext
  <2>3. UNCHANGED poolVars => Holder' = Holder
    BY DEF poolVars, Holder
  <2>. QED
    BY <2>1, <2>2, <2>3, SilentStep DEF PoolNext
<1>. QED
  BY <1>1, <1>2, PoolInvariant, PTL
  DEF PoolSpec, PoolImplementsContract, Contract!ContractSpec
=============================================================================
