------------------------- MODULE PooledLeaseProofs -------------------------
(***************************************************************************)
(* Leases, registrations and cancel slots of PooledForwarder, for any     *)
(* clients, connections, modes, faults and bounds, pipelining clients     *)
(* included.                                                              *)
(***************************************************************************)
EXTENDS PooledForwarder, BackendPoolProofs, SequenceTheorems

\* Where a task has a backend that its cancel slot names.
Tracked == {"forward", "relay", "boundary", "reset", "copy", "draining"}

\* Where it has neither asked for a lease nor got one.
Unleased == {"off", "params", "synth", "ready", "released", "failed", "closing", "dropped"}

\* The task and its lease() call agree, and it is registered while it runs.
StageOK(c) ==
  /\ pc[c] \in Unleased => stage[c] = "none"
  /\ pc[c] \in Tracked \cup {"drop"} => stage[c] = "holding"
  /\ c \in registered <=> pc[c] # "off"

\* The slot names the backend the task works on.  After a failure or a drop it
\* may name a closed one, and anything between a checkin and handle.clear().
SlotOK(c) ==
  /\ pc[c] \in Tracked => slot[c] \in Conns /\ Holds(c, slot[c])
  /\ pc[c] \in {"failed", "dropped"} => slot[c] = NoConn \/ cstate[slot[c]] = "closed"
  /\ pc[c] \notin Tracked \cup {"released", "failed", "dropped"} => slot[c] = NoConn

\* Which parts of the task belong to session mode.
ModeOK(c) ==
  /\ pc[c] \in {"forward", "relay", "boundary", "reset", "released", "failed"} =>
        mode # "session"
  /\ pc[c] \in {"copy", "draining", "drop"} => mode = "session"

TaskOK(c) == StageOK(c) /\ SlotOK(c) /\ ModeOK(c)

\* The inductive invariant.
TaskInv == PoolInv /\ TypeOK /\ \A c \in Clients : TaskOK(c)
-----------------------------------------------------------------------------
(* Every step is a step of the pool, or leaves it alone *)

\* What a task does with its backend is a Checkin, a Discard, or nothing to the
\* pool.
LEMMA TaskOnConnPool ==
  ASSUME NEW c \in Clients, NEW b \in Conns, TaskOnConn(c, b)
  PROVE  Checkin(c, b) \/ Discard(c, b) \/ UNCHANGED poolVars
BY DEF TaskOnConn, ParamsCapture, Leased, ForwardFirst, ForwardFails, RelayReply,
       RelayUnfinished, RelayFrame, RelayGone, RelayFails, CheckinAsIs, SendReset, ResetSkip,
       ResetDone, ResetFails, CopyToBackend, CopyToClient, CopyHalfClose, CopyEnds,
       CopyDiscard, Abandon, Forward, Deliver

\* The steps of client c, of its task, and of the pool on its behalf.
ClientStep(c) ==
  \/ Connect(c) \/ ClientHangup(c) \/ \E k \in ClientFrames : ClientSend(c, k)
  \/ TaskAlone(c) \/ \E b \in Conns : TaskOnConn(c, b)
  \/ AwaitPermit(c) \/ PoolServes(c) \/ DialEnds(c)
  \/ Abort(c) \/ CancelRequest(c)

\* The steps of the pool for client c.
PoolStep(c) ==
  \/ Lease(c) \/ Acquire(c) \/ Withdraw(c)
  \/ \E b \in Conns :
        \/ Reuse(c, b) \/ (\E gone \in Victims : Create(c, b, gone))
        \/ DialOk(c, b) \/ DialFail(c, b) \/ Checkin(c, b) \/ Discard(c, b)

\* PooledForwarder uses the pool only through the operations of BackendPool.
LEMMA ClientPool ==
  ASSUME NEW c \in Clients, ClientStep(c)
  PROVE  PoolStep(c) \/ UNCHANGED poolVars
<1>1. CASE \/ Connect(c) \/ ClientHangup(c) \/ (\E k \in ClientFrames : ClientSend(c, k))
           \/ CancelRequest(c)
  BY <1>1 DEF Connect, ClientHangup, ClientSend, CancelRequest
<1>2. CASE TaskAlone(c)
  BY <1>2 DEF TaskAlone, RejectPassThrough, ParamsHit, ParamsMiss, Synthesize, ReadEnd,
              StartLease, ClearHandle, EndSession, PoolStep
<1>3. CASE AwaitPermit(c) \/ PoolServes(c) \/ DialEnds(c)
  BY <1>3 DEF AwaitPermit, PoolServes, AwaitReuse, AwaitCreate, DialEnds, AwaitDial, LeaseFails,
              PoolStep
<1>4. CASE Abort(c)
  BY <1>4 DEF Abort, PoolStep
<1>. QED
  BY <1>1, <1>2, <1>3, <1>4, TaskOnConnPool DEF ClientStep, PoolStep

\* PostgreSQL and the cancels in flight leave pool and tasks alone.
LEMMA ServerFrame ==
  ASSUME \/ \E b \in Conns : Execute(b) \/ ExecuteFails(b) \/ Notify(b) \/ Crash(b)
         \/ \E k \in inflight : CancelArrives(k)
  PROVE  UNCHANGED <<poolVars, taskVars, registered, slot>>
BY DEF Execute, ExecuteFails, Notify, Crash, CancelArrives, CancelDone, registryVars

\* Every step is a step of the pool, or leaves it alone.
LEMMA NextPool == [Next]_vars => [PoolNext]_poolVars
<1>. SUFFICES ASSUME [Next]_vars PROVE PoolNext \/ UNCHANGED poolVars
  OBVIOUS
<1>1. UNCHANGED vars => UNCHANGED poolVars
  BY DEF vars
<1>2. ASSUME NEW c \in Clients, PoolStep(c) PROVE PoolNext
  BY <1>2 DEF PoolStep, PoolNext
<1>. QED
  BY <1>1, <1>2, ClientPool, ServerFrame DEF Next, ClientStep
-----------------------------------------------------------------------------
(* Types *)

\* The types of the tasks and of the PostgreSQL sessions.
TaskTypeOK ==
  /\ pc \in [Clients -> PCs]
  /\ inbox \in [Clients -> Seq(ClientFrames)]
  /\ unanswered \in [Clients -> 0 .. MaxPipeline]
  /\ peer \in [Clients -> BOOLEAN]
  /\ mode \in Modes /\ resets \in Resets
  /\ cached \subseteq Roles

BackendTypeOK ==
  /\ inq \in [Conns -> Seq(Requests)]
  /\ outq \in [Conns -> Seq(Replies)]
  /\ txn \in [Conns -> Statuses]
  /\ taint \in [Conns -> Clients \cup {NoClient}]
  /\ alive \in [Conns -> BOOLEAN]

\* The registry keeps its types.
LEMMA CancelTyped == CancelTypeOK /\ [Next]_vars => CancelTypeOK'
<1>. SUFFICES ASSUME CancelTypeOK, [Next]_vars PROVE CancelTypeOK'
  OBVIOUS
<1>. USE DEF CancelTypeOK, CancelRequests, registryVars
<1>1. ASSUME NEW c \in Clients, Connect(c) PROVE CancelTypeOK'
  BY <1>1 DEF Connect, BeginSession
<1>2. ASSUME NEW c \in Clients, CancelRequest(c) PROVE CancelTypeOK'
  BY <1>2 DEF CancelRequest, Cancel
<1>3. ASSUME NEW k \in inflight, CancelArrives(k) PROVE CancelTypeOK'
  BY <1>3 DEF CancelArrives, CancelDone
<1>4. ASSUME NEW c \in Clients, NEW b \in Conns, TaskOnConn(c, b) PROVE CancelTypeOK'
  <2>1. CASE Leased(c, b)
    BY <2>1 DEF Leased, SetTarget
  <2>2. CASE CopyEnds(c, b)
    BY <2>2 DEF CopyEnds, ClearTarget
  <2>3. CASE ~Leased(c, b) /\ ~CopyEnds(c, b)
    BY <1>4, <2>3 DEF TaskOnConn, ParamsCapture, ForwardFirst, ForwardFails, RelayReply,
       RelayUnfinished, RelayFrame, RelayGone, RelayFails, CheckinAsIs, SendReset, ResetSkip,
       ResetDone, ResetFails, CopyToBackend, CopyToClient, CopyHalfClose, CopyDiscard, Abandon,
       Forward, Deliver
  <2>. QED
    BY <2>1, <2>2, <2>3
<1>5. ASSUME NEW c \in Clients, TaskAlone(c) PROVE CancelTypeOK'
  <2>1. CASE ClearHandle(c)
    BY <2>1 DEF ClearHandle, ClearTarget
  <2>2. CASE EndSession(c)
    BY <2>2 DEF EndSession, Finish, DropHandle
  <2>3. CASE ~ClearHandle(c) /\ ~EndSession(c)
    BY <1>5, <2>3 DEF TaskAlone, RejectPassThrough, ParamsHit, ParamsMiss, Synthesize, ReadEnd,
       StartLease
  <2>. QED
    BY <2>1, <2>2, <2>3
<1>6. ASSUME NEW c \in Clients, Abort(c) PROVE CancelTypeOK'
  BY <1>6 DEF Abort
<1>7. ASSUME NEW c \in Clients,
             \/ ClientHangup(c) \/ (\E k \in ClientFrames : ClientSend(c, k))
             \/ AwaitPermit(c) \/ PoolServes(c) \/ DialEnds(c)
      PROVE  CancelTypeOK'
  BY <1>7 DEF ClientHangup, ClientSend, AwaitPermit, PoolServes, AwaitReuse, AwaitCreate,
              DialEnds, AwaitDial, LeaseFails
<1>8. ASSUME NEW b \in Conns, Execute(b) \/ ExecuteFails(b) \/ Notify(b) \/ Crash(b)
      PROVE  CancelTypeOK'
  BY <1>8 DEF Execute, ExecuteFails, Notify, Crash
<1>9. UNCHANGED vars => CancelTypeOK'
  BY DEF vars
<1>. QED
  BY <1>1, <1>2, <1>3, <1>4, <1>5, <1>6, <1>7, <1>8, <1>9 DEF Next

\* The tasks keep theirs.
LEMMA TaskTyped == TaskTypeOK /\ [Next]_vars => TaskTypeOK'
<1>. SUFFICES ASSUME TaskTypeOK, [Next]_vars PROVE TaskTypeOK'
  OBVIOUS
<1>. USE ForwarderAssumption DEF TaskTypeOK, taskVars, shared
<1>1. ASSUME NEW c \in Clients, NEW l \in PCs, Move(c, l) PROVE TaskTypeOK'
  BY <1>1 DEF Move
<1>2. ASSUME NEW c \in Clients, NEW l \in PCs, CloseClient(c, l) PROVE TaskTypeOK'
  BY <1>2, EmptySeq DEF CloseClient
<1>3. ASSUME NEW c \in Clients, Connect(c) \/ ClientHangup(c) PROVE TaskTypeOK'
  BY <1>3 DEF Connect, ClientHangup, PCs
<1>4. ASSUME NEW c \in Clients, NEW k \in ClientFrames, ClientSend(c, k) PROVE TaskTypeOK'
  <2>1. unanswered[c] + 1 \in 0 .. MaxPipeline
    BY <1>4 DEF ClientSend
  <2>. QED
    BY <1>4, <2>1 DEF ClientSend
<1>5. ASSUME NEW c \in Clients, TaskAlone(c) PROVE TaskTypeOK'
  BY <1>1, <1>2, <1>5 DEF TaskAlone, RejectPassThrough, ParamsHit, ParamsMiss, Synthesize,
     ReadEnd, StartLease, ClearHandle, EndSession, Finish, PCs
<1>6. ASSUME NEW c \in Clients, NEW b \in Conns, NEW l \in PCs,
             Forward(c, b, l) \/ Deliver(c, b, l)
      PROVE  TaskTypeOK'
  <2>1. CASE Forward(c, b, l)
    BY <2>1 DEF Forward
  <2>2. CASE Deliver(c, b, l)
    BY <2>2 DEF Deliver, Answer
  <2>. QED
    BY <1>6, <2>1, <2>2
<1>7. ASSUME NEW c \in Clients, NEW b \in Conns, NEW l \in PCs,
             Abandon(c, b, l), UNCHANGED unanswered \/ Answer(c, Head(outq[b]))
      PROVE  TaskTypeOK'
  BY <1>7 DEF Abandon, Answer
<1>8. ASSUME NEW c \in Clients, NEW b \in Conns, ParamsCapture(c, b) PROVE TaskTypeOK'
  <2>1. RoleOf[c] \in Roles
    BY PoolAssumption
  <2>. QED
    BY <1>8, <2>1 DEF ParamsCapture, PCs
<1>9. ASSUME NEW c \in Clients, NEW b \in Conns, TaskOnConn(c, b) PROVE TaskTypeOK'
  <2>1. CASE \/ Leased(c, b) \/ CheckinAsIs(c, b) \/ SendReset(c, b) \/ ResetDone(c, b)
             \/ CopyHalfClose(c, b) \/ CopyEnds(c, b)
    BY <1>1, <2>1 DEF Leased, UseLease, CheckinAsIs, SendReset, ResetDone, CopyHalfClose,
                      CopyEnds, PCs
  <2>2. CASE \/ ForwardFirst(c, b) \/ RelayReply(c, b) \/ RelayFrame(c, b)
             \/ CopyToBackend(c, b) \/ CopyToClient(c, b)
    BY <1>6, <2>2 DEF ForwardFirst, RelayReply, RelayFrame, CopyToBackend, CopyToClient, PCs
  <2>3. CASE \/ ForwardFails(c, b) \/ RelayUnfinished(c, b) \/ RelayGone(c, b)
             \/ RelayFails(c, b) \/ ResetFails(c, b) \/ CopyDiscard(c, b)
    BY <1>7, <2>3 DEF ForwardFails, RelayUnfinished, RelayGone, RelayFails, ResetFails,
                      CopyDiscard, PCs
  <2>4. CASE ResetSkip(c, b)
    BY <2>4 DEF ResetSkip
  <2>. QED
    BY <1>8, <1>9, <2>1, <2>2, <2>3, <2>4 DEF TaskOnConn
<1>10. ASSUME NEW c \in Clients, Abort(c) PROVE TaskTypeOK'
  BY <1>2, <1>10 DEF Abort, PCs
<1>11. ASSUME NEW c \in Clients,
              AwaitPermit(c) \/ PoolServes(c) \/ DialEnds(c) \/ CancelRequest(c)
       PROVE  TaskTypeOK'
  BY <1>1, <1>11 DEF AwaitPermit, PoolServes, AwaitReuse, AwaitCreate, DialEnds, AwaitDial,
                     LeaseFails, CancelRequest, PCs
<1>12. ASSUME NEW b \in Conns, Execute(b) \/ ExecuteFails(b) \/ Notify(b) \/ Crash(b)
       PROVE  TaskTypeOK'
  BY <1>12 DEF Execute, ExecuteFails, Notify, Crash
<1>13. ASSUME NEW k \in inflight, CancelArrives(k) PROVE TaskTypeOK'
  BY <1>13 DEF CancelArrives
<1>14. UNCHANGED vars => TaskTypeOK'
  BY DEF vars
<1>. QED
  BY <1>3, <1>4, <1>5, <1>9, <1>10, <1>11, <1>12, <1>13, <1>14 DEF Next

\* Two frames more on a queue.
LEMMA TwoMore ==
  ASSUME NEW S, NEW q \in Seq(S), NEW x \in S, NEW y \in S
  PROVE  /\ q \o <<x, y>> \in Seq(S)
         /\ Len(q \o <<x, y>>) = Len(q) + 2
         /\ \A i \in 1 .. Len(q) : (q \o <<x, y>>)[i] = q[i]
         /\ (q \o <<x, y>>)[Len(q) + 1] = x /\ (q \o <<x, y>>)[Len(q) + 2] = y
<1>1. <<x, y>> \in Seq(S) /\ Len(<<x, y>>) = 2
  OBVIOUS
<1>. QED
  BY <1>1, ConcatProperties, Z3

\* The ways a step changes the PostgreSQL sessions keep their types.
LEMMA SessionTypes ==
  ASSUME BackendTypeOK
  PROVE  /\ UNCHANGED backendVars => BackendTypeOK'
         /\ \A gone : Wipe(gone) => BackendTypeOK'
         /\ \A b \in Conns, c \in Clients \cup {NoClient}, kind \in ClientFrames \cup {"reset"} :
              Write(b, c, kind) => BackendTypeOK'
         /\ \A b \in Conns : TakeReply(b) => BackendTypeOK'
         /\ \A b \in Conns : Interrupt(b) => BackendTypeOK'
<1>. USE DEF BackendTypeOK, Statuses
<1>1. UNCHANGED backendVars => BackendTypeOK'
  BY DEF backendVars
<1>2. ASSUME NEW gone, Wipe(gone) PROVE BackendTypeOK'
  <2>1. <<>> \in Seq(Requests) /\ <<>> \in Seq(Replies)
    BY EmptySeq, Zenon
  <2>2. inq' \in [Conns -> Seq(Requests)] /\ outq' \in [Conns -> Seq(Replies)]
    BY <1>2, <2>1 DEF Wipe
  <2>3. txn' \in [Conns -> Statuses] /\ taint' \in [Conns -> Clients \cup {NoClient}]
    BY <1>2 DEF Wipe
  <2>4. alive' \in [Conns -> BOOLEAN]
    BY <1>2 DEF Wipe
  <2>. QED
    BY <2>2, <2>3, <2>4
<1>3. ASSUME NEW b \in Conns, NEW c \in Clients \cup {NoClient},
             NEW kind \in ClientFrames \cup {"reset"}, Write(b, c, kind)
      PROVE  BackendTypeOK'
  <2>1. [from |-> c, kind |-> kind] \in Requests
    BY DEF Requests
  <2>. QED
    BY <1>3, <2>1 DEF Write
<1>4. ASSUME NEW b \in Conns, TakeReply(b) PROVE BackendTypeOK'
  BY <1>4 DEF TakeReply
<1>5. ASSUME NEW b \in Conns, Interrupt(b) PROVE BackendTypeOK'
  <2>. DEFINE r == Head(inq[b])
              s == IF txn[b] = "I" THEN "I" ELSE "E"
  <2>1. r \in Requests /\ s \in Statuses /\ Tail(inq[b]) \in Seq(Requests)
    BY <1>5 DEF Interrupt
  <2>2. Reply(r.from, "error") \in Replies /\ Reply(r.from, s) \in Replies
    BY <2>1 DEF Requests, Replies, Reply
  <2>3. outq[b] \o <<Reply(r.from, "error"), Reply(r.from, s)>> \in Seq(Replies)
    BY <2>2, TwoMore
  <2>. HIDE DEF r, s
  <2>4. /\ txn' = [txn EXCEPT ![b] = s] /\ UNCHANGED <<taint, alive>>
        /\ outq' = [outq EXCEPT ![b] = @ \o <<Reply(r.from, "error"), Reply(r.from, s)>>]
        /\ inq' = [inq EXCEPT ![b] = Tail(@)]
    BY <1>5 DEF Interrupt, r, s
  <2>. QED
    BY <2>1, <2>3, <2>4
<1>. QED
  BY <1>1, <1>2, <1>3, <1>4, <1>5

\* So do PostgreSQL's own steps.
LEMMA ServerTypes ==
  ASSUME BackendTypeOK, NEW b \in Conns, Execute(b) \/ Notify(b) \/ Crash(b)
  PROVE  BackendTypeOK'
<1>. USE DEF BackendTypeOK
<1>1. CASE Execute(b)
  <2>. DEFINE r == Head(inq[b])
  <2>1. r \in Requests /\ Tail(inq[b]) \in Seq(Requests)
    BY <1>1 DEF Execute
  <2>2. \A t \in {"data", "error", "notice"} \cup Statuses : Reply(r.from, t) \in Replies
    BY <2>1 DEF Requests, Replies, Reply
  <2>3. inq' = [inq EXCEPT ![b] = Tail(@)]
    BY <1>1 DEF Execute
  <2>4. CASE r.kind = "terminate"
    BY <1>1, <2>1, <2>4 DEF Execute
  <2>5. CASE r.kind = "part"
    <3>1. r.from \in Clients \cup {NoClient}
      BY <2>1 DEF Requests
    <3>2. /\ outq' = [outq EXCEPT ![b] = Append(@, Reply(r.from, "data"))]
          /\ taint' = [taint EXCEPT ![b] = r.from] /\ UNCHANGED <<txn, alive>>
      BY <1>1, <2>5 DEF Execute
    <3>. QED
      BY <2>1, <2>2, <2>3, <3>1, <3>2
  <2>6. CASE r.kind = "query"
    <3>1. r.from \in Clients \cup {NoClient}
      BY <2>1 DEF Requests
    <3>2. PICK s \in StatusAfter(txn[b]) :
            /\ txn' = [txn EXCEPT ![b] = s]
            /\ outq' = [outq EXCEPT ![b] = @ \o <<Reply(r.from, "data"), Reply(r.from, s)>>]
            /\ taint' = [taint EXCEPT ![b] = r.from] /\ UNCHANGED alive
      BY <1>1, <2>6 DEF Execute
    <3>3. s \in Statuses
      BY DEF StatusAfter, Statuses
    <3>4. outq[b] \o <<Reply(r.from, "data"), Reply(r.from, s)>> \in Seq(Replies)
      BY <2>2, <3>3, TwoMore
    <3>. QED
      BY <2>1, <2>3, <3>1, <3>2, <3>3, <3>4
  <2>7. CASE r.kind = "reset"
    <3>1. outq[b] \o <<Reply(r.from, "data"), Reply(r.from, "I")>> \in Seq(Replies)
      BY <2>2, TwoMore DEF Statuses
    <3>2. /\ outq' = [outq EXCEPT ![b] = @ \o <<Reply(r.from, "data"), Reply(r.from, "I")>>]
          /\ taint' = [taint EXCEPT ![b] = NoClient] /\ UNCHANGED <<txn, alive>>
      BY <1>1, <2>7 DEF Execute
    <3>. QED
      BY <2>1, <2>3, <3>1, <3>2
  <2>. QED
    BY <1>1, <2>4, <2>5, <2>6, <2>7 DEF Execute
<1>2. CASE Notify(b)
  <2>1. Reply(NoClient, "notice") \in Replies
    BY DEF Reply, Replies
  <2>. QED
    BY <1>2, <2>1 DEF Notify
<1>3. CASE Crash(b)
  <2>1. <<>> \in Seq(Requests) /\ <<>> \in Seq(Replies)
    BY EmptySeq, Zenon
  <2>2. alive' = [alive EXCEPT ![b] = FALSE] /\ inq' = [inq EXCEPT ![b] = <<>>]
        /\ UNCHANGED <<txn, taint>>
    BY <1>3 DEF Crash
  <2>3. outq' = outq \/ outq' = [outq EXCEPT ![b] = <<>>]
    BY <1>3 DEF Crash
  <2>. QED
    BY <2>1, <2>2, <2>3
<1>. QED
  BY <1>1, <1>2, <1>3

\* Every step keeps them.
LEMMA BackendTyped == CancelTypeOK /\ TaskTypeOK /\ BackendTypeOK /\ [Next]_vars => BackendTypeOK'
<1>. SUFFICES ASSUME CancelTypeOK, TaskTypeOK, BackendTypeOK, [Next]_vars PROVE BackendTypeOK'
  OBVIOUS
<1>1. ASSUME NEW c \in Clients,
             \/ Connect(c) \/ ClientHangup(c) \/ (\E k \in ClientFrames : ClientSend(c, k))
             \/ TaskAlone(c) \/ AwaitPermit(c) \/ PoolServes(c) \/ DialEnds(c)
             \/ Abort(c) \/ CancelRequest(c)
      PROVE  BackendTypeOK'
  BY <1>1, SessionTypes DEF Connect, ClientHangup, ClientSend, TaskAlone, RejectPassThrough,
     ParamsHit, ParamsMiss, Synthesize, ReadEnd, StartLease, ClearHandle, EndSession,
     AwaitPermit, PoolServes, AwaitReuse, AwaitCreate, DialEnds, AwaitDial, LeaseFails, Abort,
     CancelRequest
<1>2. ASSUME NEW c \in Clients, NEW b \in Conns, NEW l, Forward(c, b, l) PROVE BackendTypeOK'
  <2>1. Head(inbox[c]) \in ClientFrames
    BY <1>2 DEF Forward, TaskTypeOK
  <2>. QED
    BY <1>2, <2>1, SessionTypes DEF Forward
<1>3. ASSUME NEW c \in Clients, NEW b \in Conns, TaskOnConn(c, b) PROVE BackendTypeOK'
  <2>1. CASE ForwardFirst(c, b) \/ RelayFrame(c, b) \/ CopyToBackend(c, b)
    BY <1>2, <2>1 DEF ForwardFirst, RelayFrame, CopyToBackend
  <2>2. CASE SendReset(c, b) \/ CopyHalfClose(c, b)
    BY <2>2, SessionTypes DEF SendReset, CopyHalfClose, ClientFrames
  <2>3. CASE RelayReply(c, b) \/ CopyToClient(c, b) \/ ResetSkip(c, b) \/ ResetDone(c, b)
    BY <2>3, SessionTypes DEF RelayReply, CopyToClient, Deliver, ResetSkip, ResetDone
  <2>4. CASE \/ ParamsCapture(c, b) \/ Leased(c, b) \/ CheckinAsIs(c, b) \/ CopyEnds(c, b)
             \/ ForwardFails(c, b) \/ RelayUnfinished(c, b) \/ RelayGone(c, b)
             \/ RelayFails(c, b) \/ ResetFails(c, b) \/ CopyDiscard(c, b)
    BY <2>4, SessionTypes DEF ParamsCapture, Leased, CheckinAsIs, CopyEnds, ForwardFails,
       RelayUnfinished, RelayGone, RelayFails, ResetFails, CopyDiscard, Abandon
  <2>. QED
    BY <1>3, <2>1, <2>2, <2>3, <2>4 DEF TaskOnConn
<1>4. ASSUME NEW b \in Conns, Execute(b) \/ ExecuteFails(b) \/ Notify(b) \/ Crash(b)
      PROVE  BackendTypeOK'
  BY <1>4, SessionTypes, ServerTypes DEF ExecuteFails
<1>5. ASSUME NEW k \in inflight, CancelArrives(k) PROVE BackendTypeOK'
  <2>1. k.target \in Conns
    BY DEF CancelTypeOK, CancelRequests
  <2>. QED
    BY <1>5, <2>1, SessionTypes DEF CancelArrives
<1>6. UNCHANGED vars => BackendTypeOK'
  BY SessionTypes DEF vars
<1>. QED
  BY <1>1, <1>3, <1>4, <1>5, <1>6 DEF Next

\* TypeOK has the four parts.
LEMMA TypeParts == TypeOK <=> PoolTypeOK /\ CancelTypeOK /\ TaskTypeOK /\ BackendTypeOK
BY DEF TypeOK, TaskTypeOK, BackendTypeOK

\* Every step keeps the types.
LEMMA TypeStep == PoolInv /\ TypeOK /\ [Next]_vars => PoolInv' /\ TypeOK'
<1>. SUFFICES ASSUME PoolInv, TypeOK, [Next]_vars PROVE PoolInv' /\ TypeOK'
  OBVIOUS
<1>1. PoolInv'
  BY NextPool, PoolNextInv
<1>2. PoolTypeOK' /\ CancelTypeOK' /\ TaskTypeOK' /\ BackendTypeOK'
  BY <1>1, TypeParts, CancelTyped, TaskTyped, BackendTyped DEF PoolInv
<1>. QED
  BY <1>1, <1>2 DEF TypeOK, TaskTypeOK, BackendTypeOK
-----------------------------------------------------------------------------
(* A client's steps leave the other clients alone *)

\* The pool does nothing to another client's call, nor to its backend.
LEMMA PoolOthers ==
  ASSUME PoolInv, NEW c \in Clients, PoolStep(c) \/ UNCHANGED poolVars,
         NEW e \in Clients, e # c
  PROVE  /\ stage'[e] = stage[e]
         /\ \A d \in Conns : Holds(e, d)' <=> Holds(e, d)
<1>. USE DEF PoolInv, PoolTypeOK, Holds
<1>1. CASE Lease(c) \/ Acquire(c) \/ Withdraw(c)
  BY <1>1 DEF Lease, Acquire, Withdraw, Done
<1>2. CASE UNCHANGED poolVars
  BY <1>2 DEF poolVars
<1>3. ASSUME NEW b \in Conns, Reuse(c, b) \/ DialOk(c, b)
      PROVE  /\ stage'[e] = stage[e]
             /\ \A d \in Conns : Holds(e, d)' <=> Holds(e, d)
  BY <1>3 DEF Reuse, DialOk, Matching, Idle
<1>4. ASSUME NEW b \in Conns, DialFail(c, b) \/ Checkin(c, b) \/ Discard(c, b)
      PROVE  /\ stage'[e] = stage[e]
             /\ \A d \in Conns : Holds(e, d)' <=> Holds(e, d)
  BY <1>4, PoolAssumption DEF DialFail, Checkin, Discard, Close, Done
<1>5. ASSUME NEW b \in Conns, NEW gone \in Victims, Create(c, b, gone)
      PROVE  /\ stage'[e] = stage[e]
             /\ \A d \in Conns : Holds(e, d)' <=> Holds(e, d)
  <2>1. \A d \in gone \cup {b} : cstate[d] # "leased"
    BY <1>5 DEF Create, Room, Idle
  <2>2. \A d \in Conns : cstate'[d] = "leased" <=> cstate[d] = "leased"
    BY <1>5, <2>1 DEF Create, Swap
  <2>3. \A d \in Conns : cstate[d] = "leased" => lessee'[d] = lessee[d]
    BY <1>5, <2>1 DEF Create
  <2>4. stage'[e] = stage[e]
    BY <1>5 DEF Create
  <2>. QED
    BY <2>2, <2>3, <2>4
<1>. QED
  BY <1>1, <1>2, <1>3, <1>4, <1>5 DEF PoolStep

\* A step of client c changes the task, registration and slot of c only.
LEMMA TaskOthers ==
  ASSUME TypeOK, NEW c \in Clients, ClientStep(c), NEW e \in Clients, e # c
  PROVE  /\ pc'[e] = pc[e] /\ inbox'[e] = inbox[e] /\ unanswered'[e] = unanswered[e]
         /\ peer'[e] = peer[e] /\ slot'[e] = slot[e]
         /\ e \in registered' <=> e \in registered
         /\ mode' = mode /\ resets' = resets
<1>. DEFINE Frame ==
       /\ pc'[e] = pc[e] /\ inbox'[e] = inbox[e] /\ unanswered'[e] = unanswered[e]
       /\ peer'[e] = peer[e] /\ slot'[e] = slot[e]
       /\ e \in registered' <=> e \in registered
       /\ mode' = mode /\ resets' = resets
<1>. USE DEF TypeOK, CancelTypeOK, registryVars, taskVars, shared, Move
<1>1. CASE Connect(c) \/ ClientHangup(c) \/ \E k \in ClientFrames : ClientSend(c, k)
  BY <1>1 DEF Connect, BeginSession, ClientHangup, ClientSend
<1>2. CASE TaskAlone(c)
  BY <1>2 DEF TaskAlone, RejectPassThrough, ParamsHit, ParamsMiss, Synthesize, ReadEnd,
     StartLease, ClearHandle, ClearTarget, EndSession, Finish, CloseClient, DropHandle
<1>3. ASSUME NEW b \in Conns, TaskOnConn(c, b) PROVE Frame
  <2>1. CASE \/ ParamsCapture(c, b) \/ Leased(c, b) \/ CheckinAsIs(c, b) \/ SendReset(c, b)
             \/ ResetSkip(c, b) \/ ResetDone(c, b) \/ CopyHalfClose(c, b) \/ CopyEnds(c, b)
    BY <2>1 DEF ParamsCapture, Leased, SetTarget, UseLease, CheckinAsIs, SendReset, ResetSkip,
       ResetDone, CopyHalfClose, CopyEnds, ClearTarget
  <2>2. CASE \/ ForwardFirst(c, b) \/ RelayReply(c, b) \/ RelayFrame(c, b)
             \/ CopyToBackend(c, b) \/ CopyToClient(c, b)
    BY <2>2 DEF ForwardFirst, RelayReply, RelayFrame, CopyToBackend, CopyToClient, Forward,
       Deliver, Answer
  <2>3. CASE \/ ForwardFails(c, b) \/ RelayUnfinished(c, b) \/ RelayGone(c, b)
             \/ RelayFails(c, b) \/ ResetFails(c, b) \/ CopyDiscard(c, b)
    BY <2>3 DEF ForwardFails, RelayUnfinished, RelayGone, RelayFails, ResetFails, CopyDiscard,
       Abandon, Answer
  <2>. QED
    BY <1>3, <2>1, <2>2, <2>3 DEF TaskOnConn
<1>4. CASE AwaitPermit(c) \/ PoolServes(c) \/ DialEnds(c)
  BY <1>4 DEF AwaitPermit, PoolServes, AwaitReuse, AwaitCreate, DialEnds, AwaitDial, LeaseFails
<1>5. CASE Abort(c) \/ CancelRequest(c)
  BY <1>5 DEF Abort, CloseClient, CancelRequest, Cancel
<1>. QED
  BY <1>1, <1>2, <1>3, <1>4, <1>5 DEF ClientStep

\* The pool's mode and reset query never change.
LEMMA Fixed ==
  ASSUME NEW c \in Clients, ClientStep(c) PROVE mode' = mode /\ resets' = resets
<1>. USE DEF taskVars, shared, Move
<1>1. CASE \/ Connect(c) \/ ClientHangup(c) \/ (\E k \in ClientFrames : ClientSend(c, k))
           \/ TaskAlone(c) \/ AwaitPermit(c) \/ PoolServes(c) \/ DialEnds(c) \/ Abort(c)
           \/ CancelRequest(c)
  BY <1>1 DEF Connect, ClientHangup, ClientSend, TaskAlone, RejectPassThrough, ParamsHit,
     ParamsMiss, Synthesize, ReadEnd, StartLease, ClearHandle, EndSession, Finish, CloseClient,
     AwaitPermit, PoolServes, AwaitReuse, AwaitCreate, DialEnds, AwaitDial, LeaseFails, Abort,
     CancelRequest
<1>2. ASSUME NEW b \in Conns, TaskOnConn(c, b) PROVE mode' = mode /\ resets' = resets
  BY <1>2 DEF TaskOnConn, ParamsCapture, Leased, UseLease, ForwardFirst, ForwardFails,
     RelayReply, RelayUnfinished, RelayFrame, RelayGone, RelayFails, CheckinAsIs, SendReset,
     ResetSkip, ResetDone, ResetFails, CopyToBackend, CopyToClient, CopyHalfClose, CopyEnds,
     CopyDiscard, Abandon, Forward, Deliver
<1>. QED
  BY <1>1, <1>2 DEF ClientStep
-----------------------------------------------------------------------------
(* A client's steps keep its own task in order *)

\* A task that awaits lease() has reached neither its backend nor its slot.
LEMMA Awaiting ==
  ASSUME TypeOK, NEW c \in Clients, TaskOK(c), stage[c] \in {"waiting", "permit", "dialing"}
  PROVE  pc[c] \in {"probe", "leasing"}
BY DEF TypeOK, PCs, TaskOK, StageOK, Unleased, Tracked

\* The client's own steps, and the ones of its task without a backend.
LEMMA AloneTask ==
  ASSUME TypeOK, NEW c \in Clients, TaskOK(c),
         \/ Connect(c) \/ ClientHangup(c) \/ (\E k \in ClientFrames : ClientSend(c, k))
         \/ TaskAlone(c) \/ CancelRequest(c)
  PROVE  TaskOK(c)'
<1>. USE DEF TaskOK, StageOK, SlotOK, ModeOK, TypeOK, CancelTypeOK, Unleased, Tracked, shared,
         registryVars, taskVars
<1>1. CASE Connect(c)
  BY <1>1 DEF Connect, BeginSession, poolVars
<1>2. CASE ClientHangup(c) \/ (\E k \in ClientFrames : ClientSend(c, k)) \/ CancelRequest(c)
  BY <1>2 DEF ClientHangup, ClientSend, CancelRequest, Cancel, poolVars, Holds
<1>3. CASE RejectPassThrough(c) \/ ParamsHit(c) \/ Synthesize(c) \/ ReadEnd(c)
  BY <1>3 DEF RejectPassThrough, ParamsHit, Synthesize, ReadEnd, Move, poolVars
<1>4. CASE ParamsMiss(c) \/ StartLease(c)
  BY <1>4 DEF ParamsMiss, StartLease, Move, Lease, PoolTypeOK
<1>5. CASE ClearHandle(c)
  BY <1>5 DEF ClearHandle, ClearTarget, Move, poolVars
<1>6. CASE EndSession(c)
  BY <1>6 DEF EndSession, Finish, CloseClient, DropHandle, poolVars
<1>. QED
  BY <1>1, <1>2, <1>3, <1>4, <1>5, <1>6 DEF TaskAlone

\* What the pool does while the task awaits lease().
LEMMA AwaitTask ==
  ASSUME TypeOK, NEW c \in Clients, TaskOK(c), AwaitPermit(c) \/ PoolServes(c) \/ DialEnds(c)
  PROVE  TaskOK(c)'
<1>0. stage[c] \in {"waiting", "permit", "dialing"}
  BY DEF AwaitPermit, Acquire, PoolServes, AwaitReuse, Reuse, AwaitCreate, Create, DialEnds,
         AwaitDial, DialOk, LeaseFails, DialFail
<1>1. pc[c] \in {"probe", "leasing"}
  BY <1>0, Awaiting
<1>2. CASE AwaitPermit(c) \/ PoolServes(c) \/ \E b \in Conns : AwaitDial(c, b)
  BY <1>1, <1>2 DEF AwaitPermit, PoolServes, AwaitReuse, AwaitCreate, AwaitDial, TaskOK, StageOK,
     SlotOK, ModeOK, Unleased, Tracked, registryVars, taskVars, shared
<1>3. ASSUME NEW b \in Conns, LeaseFails(c, b) PROVE TaskOK(c)'
  <2>1. pc'[c] = "closing" /\ stage'[c] = "none" /\ slot' = slot /\ registered' = registered
    BY <1>3 DEF LeaseFails, Move, DialFail, Done, registryVars, TypeOK, PoolTypeOK
  <2>. QED
    BY <1>1, <2>1 DEF TaskOK, StageOK, SlotOK, ModeOK, Unleased, Tracked
<1>. QED
  BY <1>2, <1>3 DEF DialEnds

\* A dropped task holds nothing, and the backend its slot names is closed.
LEMMA AbortTask ==
  ASSUME TypeOK, PoolInv, NEW c \in Clients, TaskOK(c), Abort(c) PROVE TaskOK(c)'
<1>1. stage'[c] = "none"
  BY DEF Abort, Withdraw, DialFail, Discard, Done, TypeOK, PoolTypeOK, poolVars
<1>2. /\ pc'[c] = "dropped" /\ slot' = slot /\ registered' = registered
      /\ pc[c] \notin {"off", "released", "failed", "dropped"}
  BY DEF Abort, Awaits, CloseClient, registryVars, TypeOK
<1>3. slot[c] = NoConn \/ cstate'[slot[c]] = "closed"
  <2>1. CASE pc[c] \in Tracked
    <3>1. slot[c] \in Conns /\ Holds(c, slot[c]) /\ stage[c] = "holding"
      BY <2>1 DEF TaskOK, SlotOK, StageOK
    <3>2. PICK b \in Conns : Discard(c, b)
      BY <3>1 DEF Abort, Withdraw, DialFail
    <3>3. b = slot[c]
      BY <3>1, <3>2, PoolAssumption DEF Discard, Holds, PoolInv, LesseeUnique
    <3>. QED
      BY <3>1, <3>2, <3>3 DEF Discard, Close, TypeOK, PoolTypeOK
  <2>. QED
    BY <1>2, <2>1 DEF TaskOK, SlotOK
<1>. QED
  BY <1>1, <1>2, <1>3 DEF TaskOK, StageOK, SlotOK, ModeOK, Unleased, Tracked

\* What the task does with its backend.
LEMMA OnConnTask ==
  ASSUME TypeOK, PoolInv, NEW c \in Clients, TaskOK(c), NEW b \in Conns, TaskOnConn(c, b)
  PROVE  TaskOK(c)'
<1>. USE DEF TaskOK, StageOK, SlotOK, ModeOK, Unleased, Tracked
<1>. USE DEF TypeOK, CancelTypeOK, PoolTypeOK, shared, registryVars, taskVars, poolVars, Holds
<1>1. CASE \/ ForwardFirst(c, b) \/ RelayReply(c, b) \/ RelayFrame(c, b) \/ CopyToBackend(c, b)
           \/ CopyToClient(c, b)
  BY <1>1 DEF ForwardFirst, RelayReply, RelayFrame, CopyToBackend, CopyToClient, Forward, Deliver
<1>2. CASE SendReset(c, b) \/ ResetSkip(c, b) \/ CopyHalfClose(c, b)
  BY <1>2 DEF SendReset, ResetSkip, CopyHalfClose, Move
<1>3. CASE Leased(c, b)
  <2>1. stage[c] = "holding"
    BY <1>3 DEF Leased, PoolInv, LesseeStage
  <2>. QED
    BY <1>3, <2>1 DEF Leased, SetTarget, UseLease, Move
<1>4. CASE ParamsCapture(c, b) \/ CheckinAsIs(c, b) \/ ResetDone(c, b)
  BY <1>4 DEF ParamsCapture, CheckinAsIs, ResetDone, Checkin, Done, Move
<1>5. CASE \/ ForwardFails(c, b) \/ RelayUnfinished(c, b) \/ RelayGone(c, b)
           \/ RelayFails(c, b) \/ ResetFails(c, b) \/ CopyDiscard(c, b)
  <2>1. /\ Discard(c, b) /\ slot' = slot /\ registered' = registered /\ mode' = mode
        /\ pc'[c] \in {"released", "failed", "closing"}
        /\ pc'[c] = "closing" <=> pc[c] = "drop"
        /\ pc[c] \in Tracked \cup {"drop"} /\ (pc[c] # "drop" => mode # "session")
    BY <1>5 DEF ForwardFails, RelayUnfinished, Unfinished, RelayGone, RelayFails, ResetFails,
       CopyDiscard, Abandon
  <2>2. pc[c] \in Tracked => slot[c] = b
    BY <2>1, PoolAssumption DEF Discard, PoolInv, LesseeUnique
  <2>3. stage'[c] = "none" /\ cstate'[b] = "closed"
    BY <2>1 DEF Discard, Done, Close
  <2>. QED
    BY <2>1, <2>2, <2>3
<1>6. CASE CopyEnds(c, b)
  BY <1>6 DEF CopyEnds, CopyOver, ClearTarget, Move
<1>. QED
  BY <1>1, <1>2, <1>3, <1>4, <1>5, <1>6 DEF TaskOnConn

\* A closed connection a cancel may still mean is not opened again.
LEMMA StaysClosed ==
  ASSUME PoolInv, NEW c \in Clients, ClientStep(c),
         NEW d \in Conns, cstate[d] = "closed", Referenced(d)
  PROVE  cstate'[d] = "closed"
<1>. USE DEF PoolInv, PoolTypeOK
<1>1. ASSUME NEW b \in Conns,
             \/ Checkin(c, b) \/ Discard(c, b) \/ Reuse(c, b) \/ DialOk(c, b) \/ DialFail(c, b)
      PROVE  cstate'[d] = "closed"
  BY <1>1 DEF Checkin, Discard, Reuse, DialOk, DialFail, Close, Matching, Idle
<1>2. ASSUME NEW b \in Conns, NEW gone \in Victims, AwaitCreate(c, b, gone)
      PROVE  cstate'[d] = "closed"
  <2>1. b # d
    BY <1>2 DEF AwaitCreate
  <2>. QED
    BY <1>2, <2>1 DEF AwaitCreate, Create, Swap
<1>3. Lease(c) \/ Acquire(c) \/ Withdraw(c) \/ UNCHANGED poolVars => cstate' = cstate
  BY DEF Lease, Acquire, Withdraw, poolVars
<1>4. CASE \/ Connect(c) \/ ClientHangup(c) \/ (\E k \in ClientFrames : ClientSend(c, k))
           \/ CancelRequest(c) \/ TaskAlone(c) \/ AwaitPermit(c)
  BY <1>3, <1>4 DEF Connect, ClientHangup, ClientSend, CancelRequest, AwaitPermit, TaskAlone,
     RejectPassThrough, ParamsHit, ParamsMiss, Synthesize, ReadEnd, StartLease, ClearHandle,
     EndSession
<1>5. CASE PoolServes(c) \/ DialEnds(c)
  BY <1>1, <1>2, <1>5 DEF PoolServes, AwaitReuse, DialEnds, AwaitDial, LeaseFails
<1>6. CASE Abort(c)
  BY <1>1, <1>3, <1>6 DEF Abort
<1>7. ASSUME NEW b \in Conns, TaskOnConn(c, b) PROVE cstate'[d] = "closed"
  BY <1>1, <1>3, <1>7, TaskOnConnPool
<1>. QED
  BY <1>4, <1>5, <1>6, <1>7 DEF ClientStep

\* A client's step keeps every task in order.
LEMMA ClientTasks ==
  ASSUME TaskInv, NEW c \in Clients, ClientStep(c), NEW e \in Clients
  PROVE  TaskOK(e)'
<1>1. CASE e = c
  <2>1. TaskOK(c)'
    BY AloneTask, AwaitTask, AbortTask, OnConnTask DEF TaskInv, ClientStep
  <2>. QED
    BY <1>1, <2>1
<1>2. CASE e # c
  <2>1. /\ pc'[e] = pc[e] /\ slot'[e] = slot[e] /\ mode' = mode
        /\ e \in registered' <=> e \in registered
    BY <1>2, TaskOthers DEF TaskInv
  <2>2. stage'[e] = stage[e] /\ \A d \in Conns : Holds(e, d)' <=> Holds(e, d)
    BY <1>2, ClientPool, PoolOthers DEF TaskInv
  <2>3. slot[e] \in Conns => (Holds(e, slot[e])' <=> Holds(e, slot[e]))
    BY <2>1, <2>2 DEF Holds
  <2>4. slot[e] \in Conns /\ cstate[slot[e]] = "closed" => cstate'[slot[e]] = "closed"
    BY StaysClosed DEF TaskInv, Referenced
  <2>5. slot[e] \in Conns \cup {NoConn}
    BY DEF TaskInv, TypeOK, CancelTypeOK
  <2>. QED
    BY <2>1, <2>2, <2>3, <2>4, <2>5 DEF TaskInv, TaskOK, StageOK, SlotOK, ModeOK
<1>. QED
  BY <1>1, <1>2
-----------------------------------------------------------------------------
(* The theorems *)

\* Every step preserves the invariant.
LEMMA TaskStep == TaskInv /\ [Next]_vars => TaskInv'
<1>. SUFFICES ASSUME TaskInv, [Next]_vars PROVE TaskInv'
  OBVIOUS
<1>1. PoolInv' /\ TypeOK'
  BY TypeStep DEF TaskInv
<1>2. ASSUME UNCHANGED <<poolVars, taskVars, registered, slot>> PROVE \A c \in Clients : TaskOK(c)'
  BY <1>2 DEF TaskInv, TaskOK, StageOK, SlotOK, ModeOK, Holds, poolVars, taskVars, shared
<1>3. CASE UNCHANGED vars
  BY <1>1, <1>2, <1>3 DEF vars, registryVars, TaskInv
<1>4. CASE Next
  <2>1. ASSUME NEW c \in Clients, ClientStep(c) PROVE TaskInv'
    BY <1>1, <2>1, ClientTasks DEF TaskInv
  <2>2. CASE \/ \E b \in Conns : Execute(b) \/ ExecuteFails(b) \/ Notify(b) \/ Crash(b)
             \/ \E k \in inflight : CancelArrives(k)
    BY <1>1, <1>2, <2>2, ServerFrame DEF TaskInv
  <2>. QED
    BY <1>4, <2>1, <2>2 DEF Next, ClientStep
<1>. QED
  BY <1>3, <1>4

\* It holds when nobody is connected yet.
LEMMA TaskInit == Init => TaskInv
<1>. SUFFICES ASSUME Init PROVE TaskInv
  OBVIOUS
<1>1. PoolInv
  BY PoolInitInv DEF Init
<1>2. CancelTypeOK
  BY DEF Init, CancelInit, CancelTypeOK
<1>3. TaskTypeOK
  <2>1. <<>> \in Seq(ClientFrames)
    BY EmptySeq, Zenon
  <2>. QED
    BY <2>1, ForwarderAssumption DEF Init, TaskTypeOK, PCs
<1>4. BackendTypeOK
  <2>1. <<>> \in Seq(Requests) /\ <<>> \in Seq(Replies)
    BY EmptySeq, Zenon
  <2>. QED
    BY <2>1 DEF Init, BackendTypeOK, Statuses
<1>5. ASSUME NEW c \in Clients PROVE TaskOK(c)
  BY DEF Init, PoolInit, CancelInit, TaskOK, StageOK, SlotOK, ModeOK, Tracked, Unleased
<1>. QED
  BY <1>1, <1>2, <1>3, <1>4, <1>5, TypeParts DEF TaskInv, PoolInv

\* Pool, registry and tasks agree in every reachable state: the invariant the
\* results below rest on.
THEOREM PooledTasks == Spec => []TaskInv
BY TaskInit, TaskStep, PTL DEF Spec

\* The variables of the pooled forwarder keep their types.
THEOREM PooledTyped == Spec => []TypeOK
<1>1. TaskInv => TypeOK
  BY DEF TaskInv
<1>. QED
  BY <1>1, PooledTasks, PTL

\* A session is registered exactly while its task runs, and a task that is
\* over, idle or past its release holds neither lease nor permit, however it
\* got there (EndSession, Abort, a failed dial, a discarded backend).
THEOREM PooledNoLeak == Spec => []NoLeak
<1>1. TaskInv => NoLeak
  BY DEF TaskInv, NoLeak, TaskOK, StageOK, Unleased
<1>. QED
  BY <1>1, PooledTasks, PTL

\* A cancel slot names the backend its client leases, or a closed one after a
\* failure or a drop; only between a checkin and handle.clear() can it name a
\* backend somebody else may get.
THEOREM PooledSlotTracksLease == Spec => []SlotTracksLease
<1>1. TaskInv => SlotTracksLease
  BY DEF TaskInv, SlotTracksLease, TaskOK, SlotOK
<1>. QED
  BY <1>1, PooledTasks, PTL

\* From its first frame to its release a statement can be cancelled at the very
\* backend that runs it: SetTarget comes before the first frame, and a client
\* leases one backend.
THEOREM PooledStatementCancellable == Spec => []StatementCancellable
<1>1. TaskInv => StatementCancellable
  <2>. SUFFICES ASSUME TaskInv, NEW c \in Clients, NEW b \in Conns, Holds(c, b),
                       pc[c] \in Tracked
                PROVE  slot[c] = b /\ c \in registered
    BY DEF StatementCancellable, Tracked
  <2>1. slot[c] \in Conns /\ Holds(c, slot[c])
    BY DEF TaskInv, TaskOK, SlotOK
  <2>2. slot[c] = b
    BY <2>1, PoolAssumption DEF Holds, TaskInv, PoolInv, LesseeUnique
  <2>. QED
    BY <2>2 DEF TaskInv, TaskOK, StageOK, Tracked
<1>. QED
  BY <1>1, PooledTasks, PTL

\* In session mode the backend a cancel in flight was captured for is the one
\* its session copies to, or closed.
LateInv ==
  mode = "session" => \A k \in inflight :
     \/ Holds(k.session, k.target) /\ pc[k.session] \in {"copy", "draining", "drop"}
     \/ cstate[k.target] = "closed"

\* Only a cancel request adds to the cancels in flight.
LEMMA NoNewCancel ==
  ASSUME NEW c \in Clients, ClientStep(c), ~CancelRequest(c) PROVE inflight' = inflight
<1>. USE DEF registryVars
<1>1. CASE \/ Connect(c) \/ ClientHangup(c) \/ (\E k \in ClientFrames : ClientSend(c, k))
           \/ TaskAlone(c) \/ AwaitPermit(c) \/ PoolServes(c) \/ DialEnds(c) \/ Abort(c)
  BY <1>1 DEF Connect, BeginSession, ClientHangup, ClientSend, TaskAlone, RejectPassThrough,
     ParamsHit, ParamsMiss, Synthesize, ReadEnd, StartLease, ClearHandle, ClearTarget,
     EndSession, Finish, DropHandle, AwaitPermit, PoolServes, AwaitReuse, AwaitCreate, DialEnds,
     AwaitDial, LeaseFails, Abort
<1>2. ASSUME NEW b \in Conns, TaskOnConn(c, b) PROVE inflight' = inflight
  BY <1>2 DEF TaskOnConn, ParamsCapture, Leased, SetTarget, ForwardFirst, ForwardFails,
     RelayReply, RelayUnfinished, RelayFrame, RelayGone, RelayFails, CheckinAsIs, SendReset,
     ResetSkip, ResetDone, ResetFails, CopyToBackend, CopyToClient, CopyHalfClose, CopyEnds,
     ClearTarget, CopyDiscard, Abandon, Forward, Deliver
<1>. QED
  BY <1>1, <1>2 DEF ClientStep

\* A task that copies goes on with its backend, or the backend is closed.
LEMMA CopyKeeps ==
  ASSUME TaskInv, NEW c \in Clients, ClientStep(c), NEW d \in Conns, Holds(c, d),
         pc[c] \in {"copy", "draining", "drop"}
  PROVE  \/ Holds(c, d)' /\ pc'[c] \in {"copy", "draining", "drop"}
         \/ cstate'[d] = "closed"
<1>. DEFINE Kept == Holds(c, d)' /\ pc'[c] \in {"copy", "draining", "drop"}
<1>1. stage[c] = "holding"
  BY DEF TaskInv, TaskOK, StageOK, Tracked
<1>2. UNCHANGED poolVars => (Holds(c, d)' <=> Holds(c, d))
  BY DEF poolVars, Holds
<1>3. ASSUME NEW b \in Conns, Discard(c, b) PROVE cstate'[d] = "closed"
  <2>1. b = d
    BY <1>3, PoolAssumption DEF Discard, Holds, TaskInv, PoolInv, LesseeUnique
  <2>. QED
    BY <1>3, <2>1 DEF Discard, Close, TaskInv, PoolInv, PoolTypeOK
<1>4. CASE \/ Connect(c) \/ ClientHangup(c) \/ (\E k \in ClientFrames : ClientSend(c, k))
           \/ CancelRequest(c) \/ TaskAlone(c)
  <2>1. UNCHANGED <<poolVars, pc>>
    BY <1>4 DEF Connect, ClientHangup, ClientSend, CancelRequest, taskVars, TaskAlone,
       RejectPassThrough, ParamsHit, ParamsMiss, Synthesize, ReadEnd, StartLease, ClearHandle,
       EndSession
  <2>. QED
    BY <1>2, <2>1
<1>5. ~AwaitPermit(c) /\ ~PoolServes(c) /\ ~DialEnds(c)
  BY <1>1 DEF AwaitPermit, Acquire, PoolServes, AwaitReuse, Reuse, AwaitCreate, Create, DialEnds,
     AwaitDial, DialOk, LeaseFails, DialFail
<1>6. CASE Abort(c)
  <2>1. PICK b \in Conns : Discard(c, b)
    BY <1>1, <1>6 DEF Abort, Withdraw, DialFail
  <2>. QED
    BY <1>3, <2>1
<1>7. ASSUME NEW b \in Conns, TaskOnConn(c, b) PROVE Kept \/ cstate'[d] = "closed"
  <2>1. CASE CopyDiscard(c, b)
    BY <1>3, <2>1 DEF CopyDiscard, Abandon
  <2>2. CASE CopyToBackend(c, b) \/ CopyToClient(c, b) \/ CopyHalfClose(c, b) \/ CopyEnds(c, b)
    BY <1>2, <2>2 DEF CopyToBackend, CopyToClient, CopyHalfClose, CopyEnds, Forward, Deliver,
       Move, TaskInv, TypeOK
  <2>. QED
    BY <1>7, <2>1, <2>2 DEF TaskOnConn, ParamsCapture, Leased, ForwardFirst, ForwardFails,
       RelayReply, RelayUnfinished, Unfinished, RelayFrame, RelayGone, RelayFails, CheckinAsIs,
       SendReset, ResetSkip, ResetDone, ResetFails
<1>. QED
  BY <1>4, <1>5, <1>6, <1>7 DEF ClientStep

\* Every step preserves LateInv.
LEMMA LateStep == TaskInv /\ LateInv /\ [Next]_vars => LateInv'
<1>. SUFFICES ASSUME TaskInv, LateInv, [Next]_vars PROVE LateInv'
  OBVIOUS
<1>1. ASSUME UNCHANGED <<poolVars, taskVars>>, inflight' \subseteq inflight PROVE LateInv'
  BY <1>1 DEF LateInv, Holds, poolVars, taskVars, shared
<1>2. ASSUME NEW c \in Clients, CancelRequest(c) PROVE LateInv'
  <2>. SUFFICES ASSUME mode = "session" PROVE LateInv'
    BY <1>2 DEF LateInv, CancelRequest, taskVars, shared
  <2>1. /\ inflight' = inflight \cup {[session |-> c, target |-> slot[c]]}
        /\ slot[c] # NoConn /\ UNCHANGED <<poolVars, taskVars>>
    BY <1>2 DEF CancelRequest, Cancel
  <2>2. \/ Holds(c, slot[c]) /\ pc[c] \in {"copy", "draining", "drop"}
        \/ cstate[slot[c]] = "closed"
    BY <2>1 DEF TaskInv, TaskOK, SlotOK, ModeOK, Tracked
  <2>. QED
    BY <2>1, <2>2 DEF LateInv, Holds, poolVars, taskVars
<1>3. ASSUME NEW c \in Clients, ClientStep(c), ~CancelRequest(c) PROVE LateInv'
  <2>1. mode' = mode /\ inflight' = inflight
    BY <1>3, Fixed, NoNewCancel
  <2>. SUFFICES ASSUME mode = "session", NEW k \in inflight
                PROVE  \/ Holds(k.session, k.target)'
                          /\ pc'[k.session] \in {"copy", "draining", "drop"}
                       \/ cstate'[k.target] = "closed"
    BY <2>1 DEF LateInv, Holds
  <2>2. k.target \in Conns /\ k.session \in Clients /\ Referenced(k.target)
    BY DEF TaskInv, TypeOK, CancelTypeOK, CancelRequests, Referenced
  <2>3. CASE cstate[k.target] = "closed"
    BY <1>3, <2>2, <2>3, StaysClosed DEF TaskInv
  <2>4. CASE /\ Holds(k.session, k.target) /\ k.session = c
             /\ pc[k.session] \in {"copy", "draining", "drop"}
    BY <1>3, <2>2, <2>4, CopyKeeps
  <2>5. CASE /\ Holds(k.session, k.target) /\ k.session # c
             /\ pc[k.session] \in {"copy", "draining", "drop"}
    <3>1. pc'[k.session] = pc[k.session]
      BY <1>3, <2>2, <2>5, TaskOthers DEF TaskInv
    <3>2. Holds(k.session, k.target)'
      BY <1>3, <2>2, <2>5, ClientPool, PoolOthers DEF TaskInv
    <3>. QED
      BY <2>5, <3>1, <3>2
  <2>. QED
    BY <2>3, <2>4, <2>5 DEF LateInv
<1>4. CASE \/ \E b \in Conns : Execute(b) \/ ExecuteFails(b) \/ Notify(b) \/ Crash(b)
           \/ \E k \in inflight : CancelArrives(k)
  <2>1. inflight' \subseteq inflight
    BY <1>4 DEF Execute, ExecuteFails, Notify, Crash, CancelArrives, CancelDone, registryVars
  <2>. QED
    BY <1>1, <1>4, <2>1, ServerFrame
<1>5. CASE UNCHANGED vars
  BY <1>1, <1>5 DEF vars, registryVars
<1>. QED
  BY <1>2, <1>3, <1>4, <1>5 DEF Next, ClientStep

\* In session mode a cancel, however late, never reaches a backend another
\* client uses: CopyDiscard and Abort close what a session leased.
THEOREM PooledLateCancelSpares == Spec => []LateCancelSpares
<1>1. Init => LateInv
  BY DEF Init, CancelInit, LateInv
<1>2. TaskInv /\ LateInv => LateCancelSpares
  <2>. SUFFICES ASSUME TaskInv, LateInv, mode = "session", NEW k \in inflight
                PROVE  lessee[k.target] \in {k.session, NoClient}
    BY DEF LateCancelSpares
  <2>1. k.target \in Conns
    BY DEF TaskInv, TypeOK, CancelTypeOK, CancelRequests
  <2>. QED
    BY <2>1 DEF LateInv, Holds, TaskInv, PoolInv, LesseeStage
<1>. QED
  BY <1>1, <1>2, LateStep, PooledTasks, PTL DEF Spec
=============================================================================
