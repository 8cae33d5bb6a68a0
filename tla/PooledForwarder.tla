-------------------------- MODULE PooledForwarder --------------------------
(***************************************************************************)
(* Pooled forwarding: PooledForwarder::serve run by one task per client,  *)
(* over the backend pool and the cancel registry.                         *)
(*                                                                         *)
(* The data is what the relay tells apart.  A client frame is a query     *)
(* (anything PostgreSQL answers with ReadyForQuery: Query, Sync), a part  *)
(* (any other message: Parse, Bind, ...) or terminate.  A backend frame   *)
(* is data, error, ReadyForQuery with its status "I", "T" or "E", or a    *)
(* notice: what PostgreSQL sends unasked (NoticeResponse, a changed       *)
(* ParameterStatus).                                                      *)
(* Frames on a backend connection carry whom they belong to: the client   *)
(* whose request they are or answer, or NoClient for the pool's reset.    *)
(* inbox is all a client has sent that was not forwarded yet: the socket, *)
(* the FramedReader's buffer and the first frame of a transaction.        *)
(***************************************************************************)
EXTENDS BackendPool, Sequences

CONSTANTS
  Modes,        \* the PoolModes a run allows
  Resets,       \* whether the pool has a reset query, as a run allows
  MaxPipeline,  \* bound: queries a client sends ahead of their answers
  MaxInbox,     \* bound: frames of a client not forwarded yet
  MaxWire,      \* bound: frames on a connection beyond which writes wait
  MaxCancels,   \* bound: cancels in flight at once
  NoConn,       \* an empty cancel slot
  Faults        \* the failures of the environment a run allows

ASSUME ForwarderAssumption ==
  /\ Modes \subseteq {"session", "transaction", "statement"}
  /\ Resets \subseteq BOOLEAN
  /\ MaxPipeline \in Nat \ {0} /\ MaxInbox \in Nat \ {0} /\ MaxWire \in Nat \ {0}
  /\ MaxCancels \in Nat
  /\ NoConn \notin Conns
  /\ Faults \subseteq {"crash", "abort", "dial", "error", "notice"}

VARIABLES
  \* the cancel registry
  registered, slot, inflight,
  \* one task per client
  pc,           \* where the client's task is
  inbox,        \* frames from the client that were not forwarded yet
  unanswered,   \* queries of the client without a ReadyForQuery yet
  peer,         \* the client's side of the socket is open
  \* what the tasks share of the BackendPool besides its connections
  mode,         \* its PoolMode, fixed
  resets,       \* it has a reset query, fixed
  cached,       \* the roles with captured ParameterStatus frames
  \* one PostgreSQL session per open connection
  inq, outq,    \* bytes on their way to and from the backend
  txn,          \* its transaction status
  taint,        \* the client whose session state it carries
  alive         \* the backend has not closed the connection

INSTANCE Cancellation WITH
  Sessions <- Clients, Targets <- Conns, NoTarget <- NoConn

registryVars == <<registered, slot, inflight>>
shared == <<mode, resets, cached>>
taskVars == <<pc, inbox, unanswered, peer, shared>>
backendVars == <<inq, outq, txn, taint, alive>>
vars == <<poolVars, registryVars, taskVars, backendVars>>

PCs == {"off", "params", "probe", "synth", "ready", "leasing", "forward", "relay",
        "boundary", "reset", "released", "failed", "copy", "draining", "drop", "closing",
        "dropped"}

ClientFrames == {"query", "part", "terminate"}
Statuses == {"I", "T", "E"}
Requests == [from : Clients \cup {NoClient}, kind : ClientFrames \cup {"reset"}]
Replies == [to : Clients \cup {NoClient}, tag : {"data", "error", "notice"} \cup Statuses]

TypeOK ==
  /\ PoolTypeOK
  /\ CancelTypeOK
  /\ pc \in [Clients -> PCs]
  /\ inbox \in [Clients -> Seq(ClientFrames)]
  /\ unanswered \in [Clients -> 0 .. MaxPipeline]
  /\ peer \in [Clients -> BOOLEAN]
  /\ mode \in Modes /\ resets \in Resets
  /\ cached \subseteq Roles
  /\ inq \in [Conns -> Seq(Requests)]
  /\ outq \in [Conns -> Seq(Replies)]
  /\ txn \in [Conns -> Statuses]
  /\ taint \in [Conns -> Clients \cup {NoClient}]
  /\ alive \in [Conns -> BOOLEAN]

Init ==
  /\ PoolInit
  /\ CancelInit
  /\ pc = [c \in Clients |-> "off"]
  /\ inbox = [c \in Clients |-> <<>>]
  /\ unanswered = [c \in Clients |-> 0]
  /\ peer = [c \in Clients |-> FALSE]
  /\ mode \in Modes /\ resets \in Resets
  /\ cached = {}
  /\ inq = [b \in Conns |-> <<>>]
  /\ outq = [b \in Conns |-> <<>>]
  /\ txn = [b \in Conns |-> "I"]
  /\ taint = [b \in Conns |-> NoClient]
  /\ alive = [b \in Conns |-> TRUE]

Holds(c, b) == cstate[b] = "leased" /\ lessee[b] = c

\* The task of client c goes on at l, with nothing read or written.
Move(c, l) ==
  /\ pc' = [pc EXCEPT ![c] = l]
  /\ UNCHANGED <<inbox, unanswered, peer, shared>>

\* The PostgreSQL sessions of the connections in gone end with them.
Wipe(gone) ==
  /\ inq' = [b \in Conns |-> IF b \in gone THEN <<>> ELSE inq[b]]
  /\ outq' = [b \in Conns |-> IF b \in gone THEN <<>> ELSE outq[b]]
  /\ txn' = [b \in Conns |-> IF b \in gone THEN "I" ELSE txn[b]]
  /\ taint' = [b \in Conns |-> IF b \in gone THEN NoClient ELSE taint[b]]
  /\ alive' = [b \in Conns |-> IF b \in gone THEN TRUE ELSE alive[b]]

\* A frame is written to backend b; a dead one may take it into the void.
Write(b, c, kind) ==
  /\ inq' = IF alive[b]
            THEN [inq EXCEPT ![b] = Append(@, [from |-> c, kind |-> kind])]
            ELSE inq
  /\ UNCHANGED <<outq, txn, taint, alive>>

\* A write to backend b does not wait for earlier frames to be consumed.
Writable(b) == Len(inq[b]) + Len(outq[b]) < MaxWire

\* The client's next frame is written to backend b.
Forward(c, b, l) ==
  /\ Holds(c, b) /\ inbox[c] # <<>>
  /\ Write(b, c, Head(inbox[c]))
  /\ inbox' = [inbox EXCEPT ![c] = Tail(@)]
  /\ pc' = [pc EXCEPT ![c] = l]
  /\ UNCHANGED <<poolVars, registryVars, unanswered, peer, shared>>

\* The backend's next frame is consumed, and nothing beyond it: neither
\* FramedReader nor read_message reads into the frame that follows.
TakeReply(b) ==
  /\ outq[b] # <<>>
  /\ outq' = [outq EXCEPT ![b] = Tail(@)]
  /\ UNCHANGED <<inq, txn, taint, alive>>

\* The client receives a frame; a ReadyForQuery answers its oldest query.
Answer(c, f) ==
  unanswered' = IF f.tag \in Statuses /\ unanswered[c] > 0
                THEN [unanswered EXCEPT ![c] = @ - 1]
                ELSE unanswered

\* The backend's next frame is written to the client.
Deliver(c, b, l) ==
  /\ Holds(c, b)
  /\ TakeReply(b)
  /\ Answer(c, Head(outq[b]))
  /\ pc' = [pc EXCEPT ![c] = l]
  /\ UNCHANGED <<poolVars, registryVars, inbox, peer, shared>>

\* Mutant: dropping the lease returns the connection, as the library does.
AbandonPools(c, b, l) ==
  /\ Checkin(c, b)
  /\ pc' = [pc EXCEPT ![c] = l]
  /\ UNCHANGED <<registryVars, inbox, peer, shared, backendVars>>

\* The lease is discarded, its backend session ends, and the task goes on at l.
Abandon(c, b, l) ==
  /\ Discard(c, b)
  /\ Wipe({b})
  /\ pc' = [pc EXCEPT ![c] = l]
  /\ UNCHANGED <<registryVars, inbox, peer, shared>>
-----------------------------------------------------------------------------
(* The client, outside the proxy *)

\* The session is past its startup and the task still reads the client.
Serving(c) ==
  pc[c] \notin {"off", "params", "probe", "synth", "failed", "drop", "closing", "dropped"}

\* A client sends a frame unless MaxPipeline queries wait for their answer.
ClientSend(c, k) ==
  /\ peer[c] /\ Serving(c)
  /\ Len(inbox[c]) < MaxInbox
  /\ unanswered[c] < MaxPipeline
  /\ inbox' = [inbox EXCEPT ![c] = Append(@, k)]
  /\ unanswered' = IF k = "query" THEN [unanswered EXCEPT ![c] = @ + 1] ELSE unanswered
  /\ peer' = [peer EXCEPT ![c] = (k # "terminate")]
  /\ UNCHANGED <<poolVars, registryVars, pc, shared, backendVars>>

\* The client's socket closes, with or without frames still to be read.
ClientHangup(c) ==
  /\ peer[c]
  /\ peer' = [peer EXCEPT ![c] = FALSE]
  /\ UNCHANGED <<poolVars, registryVars, pc, inbox, unanswered, shared, backendVars>>

ClientGone(c) == inbox[c] = <<>> /\ ~peer[c]

\* The next thing the task reads is Terminate or the end of the stream.
Ends(c) == ClientGone(c) \/ (inbox[c] # <<>> /\ Head(inbox[c]) = "terminate")
-----------------------------------------------------------------------------
(* Startup: serve, serve_pooled and BackendPool::startup_params *)

\* serve(): begin the cancel session.
Connect(c) ==
  /\ pc[c] = "off"
  /\ BeginSession(c)
  /\ pc' = [pc EXCEPT ![c] = "params"]
  /\ peer' = [peer EXCEPT ![c] = TRUE]
  /\ UNCHANGED <<poolVars, inbox, unanswered, shared, backendVars>>

\* serve_pooled: pooling needs a terminating auth mode.
RejectPassThrough(c) ==
  /\ pc[c] = "params"
  /\ Move(c, "closing")
  /\ UNCHANGED <<poolVars, registryVars, backendVars>>

\* startup_params: the role's frames are cached.
ParamsHit(c) ==
  /\ pc[c] = "params" /\ RoleOf[c] \in cached
  /\ Move(c, "synth")
  /\ UNCHANGED <<poolVars, registryVars, backendVars>>

\* startup_params: they are not, and the lock is released before the lease.
ParamsMiss(c) ==
  /\ pc[c] = "params" /\ RoleOf[c] \notin cached
  /\ Lease(c)
  /\ Move(c, "probe")
  /\ UNCHANGED <<registryVars, backendVars>>

\* startup_params: capture the frames and check the backend in without a reset.
ParamsCapture(c, b) ==
  /\ pc[c] = "probe"
  /\ Checkin(c, b)
  /\ cached' = cached \cup {RoleOf[c]}
  /\ pc' = [pc EXCEPT ![c] = "synth"]
  /\ UNCHANGED <<registryVars, inbox, unanswered, peer, mode, resets, backendVars>>

\* synthesize_startup writes to the client; the write may fail once it is gone.
Synthesize(c) ==
  /\ pc[c] = "synth"
  /\ Move(c, "ready") \/ (~peer[c] /\ Move(c, "closing"))
  /\ UNCHANGED <<poolVars, registryVars, backendVars>>
-----------------------------------------------------------------------------
(* Leasing: relay_pooled and the session branch of serve_pooled *)

\* relay_pooled: no further transaction, the loop breaks.
ReadEnd(c) ==
  /\ pc[c] = "ready" /\ mode # "session"
  /\ Ends(c)
  /\ Move(c, "closing")
  /\ UNCHANGED <<poolVars, registryVars, backendVars>>

\* The first frame of a transaction was read (session mode: right away).
StartLease(c) ==
  /\ pc[c] = "ready"
  /\ mode = "session" \/ (inbox[c] # <<>> /\ ~Ends(c))
  /\ Lease(c)
  /\ Move(c, "leasing")
  /\ UNCHANGED <<registryVars, backendVars>>

\* The pool's own steps, while the task awaits lease().
AwaitPermit(c) == Acquire(c) /\ UNCHANGED <<registryVars, taskVars, backendVars>>
AwaitReuse(c, b) == Reuse(c, b) /\ UNCHANGED <<registryVars, taskVars, backendVars>>
AwaitDial(c, b) == DialOk(c, b) /\ UNCHANGED <<registryVars, taskVars, backendVars>>

\* A new connection is a new identity: no cancel in use may mean another one.
Referenced(b) ==
  \/ \E c \in Clients : slot[c] = b
  \/ \E k \in inflight : k.target = b

AwaitCreate(c, b, gone) ==
  /\ ~Referenced(b)
  /\ Create(c, b, gone)
  /\ Wipe(gone)
  /\ UNCHANGED <<registryVars, taskVars>>

\* lease() returns an error: the client is rejected, or its session fails.
LeaseFails(c, b) ==
  /\ "dial" \in Faults
  /\ DialFail(c, b)
  /\ Move(c, "closing")
  /\ UNCHANGED <<registryVars, backendVars>>

\* Where a lease is used: relayed by frames, or copied as a whole.
UseLease(c) == Move(c, IF mode = "session" THEN "copy" ELSE "forward")

\* Mutant: the cancel handle is not told about the lease.
LeasedUntracked(c, b) ==
  /\ pc[c] = "leasing" /\ Holds(c, b)
  /\ UseLease(c)
  /\ UNCHANGED <<poolVars, registryVars, backendVars>>

\* The lease is there: point the client's cancel at it.
Leased(c, b) ==
  /\ pc[c] = "leasing" /\ Holds(c, b)
  /\ SetTarget(c, b)
  /\ UseLease(c)
  /\ UNCHANGED <<poolVars, backendVars>>
-----------------------------------------------------------------------------
(* run_lease and relay_to_next_rfq *)

\* Mutant: the frame that started the transaction is dropped.
ForwardFirstLost(c, b) ==
  /\ pc[c] = "forward" /\ Holds(c, b)
  /\ inbox' = [inbox EXCEPT ![c] = Tail(@)]
  /\ pc' = [pc EXCEPT ![c] = "relay"]
  /\ UNCHANGED <<poolVars, registryVars, unanswered, peer, shared, backendVars>>

\* forward_first
ForwardFirst(c, b) == pc[c] = "forward" /\ Forward(c, b, "relay")

ForwardFails(c, b) ==
  /\ pc[c] = "forward" /\ ~alive[b]
  /\ Abandon(c, b, "failed")
  /\ UNCHANGED unanswered

\* Backend branch of the select: the frame is relayed and the lease goes on,
\* or it is the idle ReadyForQuery that ends it.
RelayReply(c, b) ==
  /\ pc[c] = "relay" /\ outq[b] # <<>>
  /\ LET tag == Head(outq[b]).tag IN
       /\ mode = "statement" => tag \notin {"T", "E"}
       /\ Deliver(c, b, IF tag = "I" THEN "boundary" ELSE "relay")

\* Statement mode saw a ReadyForQuery inside a transaction.
Unfinished(c, b) ==
  /\ pc[c] = "relay" /\ mode = "statement"
  /\ outq[b] # <<>> /\ Head(outq[b]).tag \in {"T", "E"}

\* Mutant: statement mode stays on a backend left in a transaction.
RelayUnfinishedKept(c, b) == Unfinished(c, b) /\ Deliver(c, b, "relay")

\* The status is relayed, and the backend cannot be used again: discard it.
RelayUnfinished(c, b) ==
  /\ Unfinished(c, b)
  /\ Answer(c, Head(outq[b]))
  /\ Abandon(c, b, "released")

\* Client branch of the select: it is polled after the backend (biased).
RelayFrame(c, b) ==
  /\ pc[c] = "relay" /\ outq[b] = <<>> /\ ~Ends(c) /\ Writable(b)
  /\ Forward(c, b, "relay")

\* Mutant: only an explicit Terminate ends a statement, not a lost client.
RelayGoneTerminateOnly(c, b) ==
  /\ pc[c] = "relay" /\ outq[b] = <<>> /\ Ends(c) /\ ~ClientGone(c)
  /\ Abandon(c, b, "failed")
  /\ UNCHANGED unanswered

\* The client terminated or disconnected mid-statement: Ok(None).
RelayGone(c, b) ==
  /\ pc[c] = "relay" /\ outq[b] = <<>> /\ Ends(c)
  /\ Abandon(c, b, "failed")
  /\ UNCHANGED unanswered

\* The backend closed, or a write to the backend or to the client failed.
RelayFails(c, b) ==
  /\ pc[c] = "relay"
  /\ \/ ~alive[b] /\ (outq[b] = <<>> \/ inbox[c] # <<>>)
     \/ ~peer[c] /\ outq[b] # <<>>
  /\ Abandon(c, b, "failed")
  /\ UNCHANGED unanswered
-----------------------------------------------------------------------------
(* Lease::reset, then checkin or discard *)

\* run_lease without a reset query: check the idle backend in as it is.
CheckinAsIs(c, b) ==
  /\ pc[c] = "boundary" /\ ~resets
  /\ Checkin(c, b)
  /\ Move(c, "released")
  /\ UNCHANGED <<registryVars, backendVars>>

\* Mutant: the reset query is ignored.
SendResetSkipped(c, b) ==
  /\ pc[c] = "boundary"
  /\ Checkin(c, b)
  /\ Move(c, "released")
  /\ UNCHANGED <<registryVars, backendVars>>

\* reset() writes the reset query to the idle backend.
SendReset(c, b) ==
  /\ pc[c] = "boundary" /\ resets /\ Holds(c, b)
  /\ Write(b, NoClient, "reset")
  /\ Move(c, "reset")
  /\ UNCHANGED <<poolVars, registryVars>>

\* Whatever is neither ReadyForQuery nor an error is skipped.
ResetSkip(c, b) ==
  /\ pc[c] = "reset" /\ Holds(c, b)
  /\ TakeReply(b)
  /\ Head(outq[b]).tag \in {"data", "notice"}
  /\ UNCHANGED <<poolVars, registryVars, taskVars>>

\* Mutant: an ErrorResponse counts as the end of the reset.
ResetDoneOnError(c, b) ==
  /\ pc[c] = "reset"
  /\ TakeReply(b)
  /\ Head(outq[b]).tag \in {"I", "error"}
  /\ Checkin(c, b)
  /\ Move(c, "released")
  /\ UNCHANGED registryVars

\* An idle ReadyForQuery: check the backend in.
ResetDone(c, b) ==
  /\ pc[c] = "reset"
  /\ TakeReply(b)
  /\ Head(outq[b]).tag = "I"
  /\ Checkin(c, b)
  /\ Move(c, "released")
  /\ UNCHANGED registryVars

\* Anything else: discard the backend, the client keeps being served.
ResetFails(c, b) ==
  /\ \/ pc[c] = "boundary" /\ resets /\ ~alive[b]
     \/ /\ pc[c] = "reset"
        /\ IF outq[b] = <<>> THEN ~alive[b] ELSE Head(outq[b]).tag \in {"error", "T", "E"}
  /\ Abandon(c, b, "released")
  /\ UNCHANGED unanswered

\* Mutant: the handle keeps pointing at the released backend.
ClearHandleForgotten(c) ==
  /\ \/ pc[c] = "released" /\ Move(c, "ready")
     \/ pc[c] = "failed" /\ Move(c, "closing")
  /\ UNCHANGED <<poolVars, registryVars, backendVars>>

\* relay_pooled: handle.clear() once run_lease has given the backend back, then
\* the loop goes on, or ends because run_lease failed or the client is gone.
ClearHandle(c) ==
  /\ \/ pc[c] = "released" /\ Move(c, "ready")
     \/ pc[c] = "failed" /\ Move(c, "closing")
  /\ ClearTarget(c)
  /\ UNCHANGED <<poolVars, backendVars>>

\* The client's socket is closed, and the task goes on at l.
CloseClient(c, l) ==
  /\ pc' = [pc EXCEPT ![c] = l]
  /\ inbox' = [inbox EXCEPT ![c] = <<>>]
  /\ unanswered' = [unanswered EXCEPT ![c] = 0]
  /\ peer' = [peer EXCEPT ![c] = FALSE]
  /\ UNCHANGED shared

\* Mutant: the key stays registered after the session.
FinishKeepsKey(c) == CloseClient(c, "off") /\ UNCHANGED registryVars

\* serve() drops its handle.
Finish(c) == CloseClient(c, "off") /\ DropHandle(c)

\* serve_pooled has returned, or its future was dropped, and serve() ends too.
EndSession(c) ==
  /\ pc[c] \in {"closing", "dropped"}
  /\ Finish(c)
  /\ UNCHANGED <<poolVars, backendVars>>
-----------------------------------------------------------------------------
(* Session mode: copy_bidirectional over one lease *)

\* Client to backend: frames are copied as they are, Terminate included.
CopyToBackend(c, b) == pc[c] = "copy" /\ Writable(b) /\ Forward(c, b, "copy")

\* Backend to client.
CopyToClient(c, b) == pc[c] \in {"copy", "draining"} /\ Deliver(c, b, pc[c])

\* End of input from the client: the backend's write side is shut down.
CopyHalfClose(c, b) ==
  /\ pc[c] = "copy" /\ Holds(c, b) /\ ClientGone(c)
  /\ Write(b, c, "terminate")
  /\ Move(c, "draining")
  /\ UNCHANGED <<poolVars, registryVars>>

\* Both directions ended, or a write failed.
CopyOver(c, b) ==
  /\ Holds(c, b)
  /\ \/ pc[c] = "draining" /\ ~alive[b] /\ outq[b] = <<>>
     \/ pc[c] = "copy" /\ ~alive[b] /\ inbox[c] # <<>>
     \/ pc[c] \in {"copy", "draining"} /\ ~peer[c] /\ outq[b] # <<>>

\* The handle is cleared first ...
CopyEnds(c, b) ==
  /\ CopyOver(c, b)
  /\ ClearTarget(c)
  /\ Move(c, "drop")
  /\ UNCHANGED <<poolVars, backendVars>>

\* Mutant: the session's backend is checked in.
CopyCheckin(c, b) ==
  /\ pc[c] = "drop"
  /\ Checkin(c, b)
  /\ Move(c, "closing")
  /\ UNCHANGED <<registryVars, backendVars>>

\* ... then the lease is discarded: a session backend is never pooled again.
CopyDiscard(c, b) == pc[c] = "drop" /\ Abandon(c, b, "closing") /\ UNCHANGED unanswered
-----------------------------------------------------------------------------
(* A task dropped at an await *)

\* The stretches of a task in which it does not await: what run_lease gave back
\* is cleared, a copied lease is discarded, and an idle backend that needs no
\* reset is checked in.
Awaits(c) ==
  /\ pc[c] \notin {"off", "released", "failed", "drop", "closing", "dropped"}
  /\ pc[c] = "boundary" => resets

\* serve()'s inner future goes first: its client stream, and the Lease or the
\* lease() call it owns.  The CancelHandle, a local of serve(), outlives it:
\* EndSession drops that.
Abort(c) ==
  /\ "abort" \in Faults
  /\ Awaits(c)
  /\ CloseClient(c, "dropped")
  /\ UNCHANGED registryVars
  /\ \/ stage[c] = "none" /\ UNCHANGED <<poolVars, backendVars>>
     \/ Withdraw(c) /\ UNCHANGED backendVars
     \/ \E b \in Conns : DialFail(c, b) /\ UNCHANGED backendVars
     \/ \E b \in Conns : Discard(c, b) /\ Wipe({b})
-----------------------------------------------------------------------------
(* PostgreSQL, outside the proxy *)

\* The transaction status after a query, by the status before it.
StatusAfter(s) ==
  CASE s = "I" -> {"I", "T"} [] s = "T" -> {"I", "T", "E"} [] s = "E" -> {"I", "E"}

Reply(c, tag) == [to |-> c, tag |-> tag]

\* What the backend answers to request r, and the state it is in after it.
Execute(b) ==
  /\ alive[b] /\ inq[b] # <<>>
  /\ LET r == Head(inq[b]) IN
       \/ /\ r.kind = "terminate"
          /\ alive' = [alive EXCEPT ![b] = FALSE]
          /\ UNCHANGED <<outq, txn, taint>>
       \/ /\ r.kind = "part"
          /\ outq' = [outq EXCEPT ![b] = Append(@, Reply(r.from, "data"))]
          /\ taint' = [taint EXCEPT ![b] = r.from]
          /\ UNCHANGED <<txn, alive>>
       \/ /\ r.kind = "query"
          /\ \E s \in StatusAfter(txn[b]) :
               /\ txn' = [txn EXCEPT ![b] = s]
               /\ outq' = [outq EXCEPT ![b] =
                             @ \o <<Reply(r.from, "data"), Reply(r.from, s)>>]
          /\ taint' = [taint EXCEPT ![b] = r.from]
          /\ UNCHANGED alive
       \/ /\ r.kind = "reset" /\ txn[b] = "I"
          /\ outq' = [outq EXCEPT ![b] = @ \o <<Reply(r.from, "data"), Reply(r.from, "I")>>]
          /\ taint' = [taint EXCEPT ![b] = NoClient]
          /\ UNCHANGED <<txn, alive>>
  /\ inq' = [inq EXCEPT ![b] = Tail(@)]
  /\ UNCHANGED <<poolVars, registryVars, taskVars>>

\* The request backend b works on fails, which fails its transaction too.
Interrupt(b) ==
  /\ alive[b] /\ inq[b] # <<>>
  /\ LET r == Head(inq[b])
         s == IF txn[b] = "I" THEN "I" ELSE "E"
     IN  /\ r.kind \in {"query", "reset"}
         /\ txn' = [txn EXCEPT ![b] = s]
         /\ outq' = [outq EXCEPT ![b] = @ \o <<Reply(r.from, "error"), Reply(r.from, s)>>]
  /\ inq' = [inq EXCEPT ![b] = Tail(@)]
  /\ UNCHANGED <<taint, alive>>

\* A statement fails on its own; DISCARD ALL always does inside a transaction.
ExecuteFails(b) ==
  /\ Interrupt(b)
  /\ "error" \in Faults \/ (Head(inq[b]).kind = "reset" /\ txn[b] # "I")
  /\ UNCHANGED <<poolVars, registryVars, taskVars>>

\* PostgreSQL sends a message nobody asked for, at any time: on an idle
\* connection it waits there for the next lease.  Bound: one at a time.
Notify(b) ==
  /\ "notice" \in Faults
  /\ alive[b] /\ cstate[b] \in {"leased", "idle"}
  /\ \A i \in DOMAIN outq[b] : outq[b][i].tag # "notice"
  /\ outq' = [outq EXCEPT ![b] = Append(@, Reply(NoClient, "notice"))]
  /\ UNCHANGED <<poolVars, registryVars, taskVars, inq, txn, taint, alive>>

\* The backend dies; the replies still on the wire arrive or are lost.
Crash(b) ==
  /\ "crash" \in Faults
  /\ alive[b] /\ cstate[b] \in {"leased", "idle"}
  /\ alive' = [alive EXCEPT ![b] = FALSE]
  /\ inq' = [inq EXCEPT ![b] = <<>>]
  /\ outq' \in {outq, [outq EXCEPT ![b] = <<>>]}
  /\ UNCHANGED <<poolVars, registryVars, taskVars, txn, taint>>
-----------------------------------------------------------------------------
(* Out-of-band cancels *)

CancelRequest(c) ==
  /\ Cancel(c)
  /\ UNCHANGED <<poolVars, taskVars, backendVars>>

\* The cancel is lost or finds nothing to interrupt, or it interrupts whatever
\* its backend works on by now.
CancelArrives(k) ==
  /\ CancelDone(k)
  /\ UNCHANGED backendVars \/ Interrupt(k.target)
  /\ UNCHANGED <<poolVars, taskVars>>

\* What a task does with the backend it leases.
TaskOnConn(c, b) ==
  \/ ParamsCapture(c, b) \/ Leased(c, b)
  \/ ForwardFirst(c, b) \/ ForwardFails(c, b)
  \/ RelayReply(c, b) \/ RelayUnfinished(c, b) \/ RelayFrame(c, b)
  \/ RelayGone(c, b) \/ RelayFails(c, b)
  \/ CheckinAsIs(c, b) \/ SendReset(c, b) \/ ResetSkip(c, b) \/ ResetDone(c, b) \/ ResetFails(c, b)
  \/ CopyToBackend(c, b) \/ CopyToClient(c, b) \/ CopyHalfClose(c, b)
  \/ CopyEnds(c, b) \/ CopyDiscard(c, b)

\* What a task does on its own.
TaskAlone(c) ==
  \/ RejectPassThrough(c) \/ ParamsHit(c) \/ ParamsMiss(c) \/ Synthesize(c)
  \/ ReadEnd(c) \/ StartLease(c) \/ ClearHandle(c) \/ EndSession(c)

\* What the pool does for a task that awaits lease().
PoolServes(c) ==
  \E b \in Conns :
     \/ AwaitReuse(c, b)
     \/ \E gone \in Victims : AwaitCreate(c, b, gone)

DialEnds(c) == \E b \in Conns : AwaitDial(c, b) \/ LeaseFails(c, b)

Next ==
  \/ \E c \in Clients :
        \/ Connect(c) \/ ClientHangup(c) \/ \E k \in ClientFrames : ClientSend(c, k)
        \/ TaskAlone(c) \/ \E b \in Conns : TaskOnConn(c, b)
        \/ AwaitPermit(c) \/ PoolServes(c) \/ DialEnds(c)
        \/ Abort(c) \/ CancelRequest(c)
  \/ \E b \in Conns : Execute(b) \/ ExecuteFails(b) \/ Notify(b) \/ Crash(b)
  \/ \E k \in inflight : CancelArrives(k)

Spec == Init /\ [][Next]_vars

\* A client that holds a backend with no query under way (it sent parts and no
\* Sync yet, or a pipelined query was answered) sends its next query or
\* disconnects.  No timeout of the proxy enforces this: it is assumed.  Of a
\* client that waits for an answer nothing is assumed.
ClientFinishes(c) ==
  /\ pc[c] = "relay" /\ unanswered[c] = 0
  /\ ClientSend(c, "query") \/ ClientHangup(c)

(***************************************************************************)
(* Fairness.  The runtime polls a task that can go on (WF), the pool's     *)
(* semaphore is FIFO (SF for a waiting lease), dials end and backends      *)
(* answer.  Nothing is assumed of connects, aborts, crashes or cancels.    *)
(***************************************************************************)
Fairness ==
  /\ \A c \in Clients :
        /\ WF_vars(TaskAlone(c) \/ \E b \in Conns : TaskOnConn(c, b))
        /\ SF_vars(AwaitPermit(c))
        /\ WF_vars(PoolServes(c))
        /\ WF_vars(DialEnds(c))
        /\ WF_vars(ClientFinishes(c))
  /\ \A b \in Conns : WF_vars(Execute(b) \/ ExecuteFails(b))

FairSpec == Spec /\ Fairness
-----------------------------------------------------------------------------
(* Properties *)

\* No request or reply is on its way to or from the backend, it is outside a
\* transaction and, if the pool resets it, carries nobody's session state.
Pristine(b) ==
  /\ inq[b] = <<>> /\ \A i \in DOMAIN outq[b] : outq[b][i].tag = "notice"
  /\ txn[b] = "I"
  /\ resets => taint[b] = NoClient

\* An idle connection of the pool is pristine: the safety invariant stated at
\* run_lease, and the precondition stated at Lease::checkin.
CleanIdle == \A b \in Conns : cstate[b] = "idle" => Pristine(b)

\* A client is only ever shown replies to its own requests: every frame its
\* relay will read from the backend it leases was meant for it.
OwnReplies ==
  \A c \in Clients, b \in Conns :
     Holds(c, b) /\ pc[c] \in {"forward", "relay", "copy", "draining"} =>
        \A i \in DOMAIN outq[b] : outq[b][i].to = c \/ outq[b][i].tag = "notice"

\* The queries of client c that backend b was sent and that it, or its answer
\* on the wire, still owes.
Owed(c, b) ==
  Cardinality({i \in DOMAIN inq[b] : inq[b][i] = [from |-> c, kind |-> "query"]})
  + Cardinality({i \in DOMAIN outq[b] : outq[b][i].to = c /\ outq[b][i].tag \in Statuses})

Unsent(c) == Cardinality({i \in DOMAIN inbox[c] : inbox[c][i] = "query"})

\* No answer gets lost or made up while a session is served: what a client
\* waits for is still in its inbox, at its live backend, or on its way back.
NothingLost ==
  \A c \in Clients : Serving(c) =>
     \/ \E b \in Conns : Holds(c, b) /\ (~alive[b] \/ unanswered[c] = Unsent(c) + Owed(c, b))
     \/ (\A b \in Conns : ~Holds(c, b)) /\ unanswered[c] = Unsent(c)

\* A cancel slot that is set names the backend its client leases.  When the
\* lease ends before the handle is cleared (run_lease failed, the task was
\* dropped) that backend is closed, and only between a checkin and
\* handle.clear() can the slot name a backend somebody else may get.
SlotTracksLease ==
  \A c \in Clients : slot[c] # NoConn =>
     \/ Holds(c, slot[c])
     \/ pc[c] = "released"
     \/ pc[c] \in {"failed", "dropped"} /\ cstate[slot[c]] = "closed"

\* From its first frame to its release a statement can be cancelled: the slot
\* names the very backend that runs it.
StatementCancellable ==
  \A c \in Clients, b \in Conns :
     Holds(c, b) /\ pc[c] \in {"forward", "relay", "boundary", "reset", "copy", "draining"} =>
        slot[c] = b /\ c \in registered

\* In session mode a cancel, however late it arrives, spares the other clients:
\* the backend it was captured for is still its session's, or was discarded and
\* never pooled again.
LateCancelSpares ==
  mode = "session" => \A k \in inflight : lessee[k.target] \in {k.session, NoClient}

\* What the documentation of cancel() says, "routing it to whatever backend the
\* client is using right now": a cancel captured now cannot hit another client.
CancelSparesOthers ==
  \A c \in Clients : slot[c] # NoConn => lessee[slot[c]] \in {c, NoClient}

\* A session's key is registered exactly as long as its task runs, and a task
\* that is over, idle or past its release holds neither lease nor permit.
NoLeak ==
  \A c \in Clients :
     /\ c \in registered <=> pc[c] # "off"
     /\ pc[c] \in {"off", "params", "synth", "ready", "released", "failed", "closing", "dropped"} =>
           stage[c] = "none"

\* Every query is answered, or its client's session ends: waiting at capacity,
\* a dead idle connection or a failed reset never strands a client.
QueryAnswered == \A c \in Clients : unanswered[c] > 0 ~> unanswered[c] = 0

\* The session of a client that disconnected ends, whatever it waits for, and
\* with it (NoLeak) its registration, permit and lease.
HangupEnds == \A c \in Clients : ~peer[c] ~> pc[c] = "off"

\* With the protocol state of the backends the pool still keeps its contract:
\* a backend is handed to a client only when it is pristine.
CleanContract ==
  INSTANCE LeaseContract WITH
    holder <- Holder, dirty <- {b \in Conns : ~Pristine(b)}

ImplementsContract == CleanContract!ContractSpec
=============================================================================
