------------------------- MODULE PooledCleanProofs -------------------------
(***************************************************************************)
(* What is on a pooled connection when it changes hands, and where the    *)
(* answer to each query is, for clients that wait for the answer to a     *)
(* query before they send the next frame (MaxPipeline = 1; run pipelined  *)
(* shows that the others break it), and any clients, connections, modes,  *)
(* faults and other bounds.                                               *)
(***************************************************************************)
EXTENDS PooledLeaseProofs, QueueFacts

\* Only unasked messages are on their way from the backend.
Notices(b) == \A i \in DOMAIN outq[b] : outq[b][i].tag = "notice"

\* The requests and replies on the connection are those of client c.
Own(c, b) ==
  /\ \A i \in DOMAIN inq[b] : inq[b][i].from = c /\ inq[b][i].kind # "reset"
  /\ \A i \in DOMAIN outq[b] : outq[b][i].to = c \/ outq[b][i].tag = "notice"

\* A ReadyForQuery on its way is the last word: PostgreSQL has no further
\* request, is in the state it reports, and nothing but notices follows.
Settled(b) ==
  \A i \in DOMAIN outq[b] : outq[b][i].tag \in Statuses =>
     /\ inq[b] = <<>> /\ txn[b] = outq[b][i].tag
     /\ \A j \in DOMAIN outq[b] : j > i => outq[b][j].tag = "notice"

\* A query or its ReadyForQuery is on the connection.
InFlight(b) ==
  \/ \E i \in DOMAIN inq[b] : inq[b][i].kind = "query"
  \/ \E i \in DOMAIN outq[b] : outq[b][i].tag \in Statuses

\* relay_to_next_rfq: the client waits for the one query it has sent, which is
\* the last thing it sent.
Relaying(c, b) ==
  /\ Own(c, b) /\ Settled(b)
  /\ \A i \in DOMAIN inq[b] :
        inq[b][i].kind \in {"query", "part"} /\ (inq[b][i].kind = "query" => i = Len(inq[b]))
  /\ InFlight(b) => inbox[c] = <<>> /\ unanswered[c] = 1

\* Past the idle ReadyForQuery that ended the transaction.
Calm(b) == inq[b] = <<>> /\ Notices(b) /\ txn[b] = "I"

\* Lease::reset: only the reset query and its answer are on the connection, and
\* an answer without an error says that the session state is gone.
Resetting(b) ==
  /\ resets /\ txn[b] = "I" /\ Settled(b)
  /\ inq[b] = <<>> \/ (inq[b] = <<[from |-> NoClient, kind |-> "reset"]>> /\ Notices(b))
  /\ \A i \in DOMAIN outq[b] : outq[b][i].to = NoClient \/ outq[b][i].tag = "notice"
  /\ \A i \in DOMAIN outq[b] : outq[b][i].tag \in Statuses =>
        taint[b] = NoClient \/ \E j \in 1 .. i - 1 : outq[b][j].tag = "error"

\* What is on the backend that the task of client c has, by where the task is.
HeldOK(c, b) ==
  /\ pc[c] \in {"probe", "leasing", "forward"} => Pristine(b)
  /\ pc[c] = "relay" => Relaying(c, b)
  /\ pc[c] = "boundary" => Calm(b)
  /\ pc[c] = "reset" => Resetting(b)
  /\ pc[c] \in {"copy", "draining", "drop"} => Own(c, b)

Fresh(b) == inq[b] = <<>> /\ outq[b] = <<>> /\ txn[b] = "I" /\ taint[b] = NoClient

\* What is on a connection, by its state in the pool.
ConnOK(b) ==
  /\ cstate[b] \in {"closed", "dialing"} => Fresh(b)
  /\ cstate[b] = "idle" => Pristine(b)
  /\ cstate[b] = "leased" => HeldOK(lessee[b], b)

\* Outside session mode: a query is the last frame a client sent and the one it
\* waits for, and a lease is taken out for a frame that is not Terminate.
InboxOK(c) ==
  mode # "session" =>
     /\ \A i \in DOMAIN inbox[c] : inbox[c][i] = "query" => unanswered[c] = 1 /\ i = Len(inbox[c])
     /\ pc[c] \in {"leasing", "forward"} => inbox[c] # <<>> /\ Head(inbox[c]) # "terminate"

\* The inductive invariant.
CleanInv ==
  TaskInv /\ (\A b \in Conns : ConnOK(b)) /\ (\A c \in Clients : InboxOK(c))
-----------------------------------------------------------------------------
(* Queues *)

\* Two frames more are one more and then another.
LEMMA TwoAppends ==
  ASSUME NEW S, NEW q \in Seq(S), NEW x \in S, NEW y \in S
  PROVE  q \o <<x, y>> = Append(Append(q, x), y)
<1>. DEFINE p == Append(Append(q, x), y)
<1>1. p \in Seq(S) /\ Len(p) = Len(q) + 2 /\ Len(q) \in Nat
  BY AppendFacts
<1>2. \A i \in 1 .. Len(q) : p[i] = q[i]
  BY AppendFacts
<1>3. p[Len(q) + 1] = x /\ p[Len(q) + 2] = y
  BY AppendFacts
<1>. DEFINE t == q \o <<x, y>>
<1>4. /\ t \in Seq(S) /\ Len(t) = Len(q) + 2
      /\ \A i \in 1 .. Len(q) : t[i] = q[i]
      /\ t[Len(q) + 1] = x /\ t[Len(q) + 2] = y
  BY TwoMore
<1>. HIDE DEF p, t
<1>5. \A i \in 1 .. Len(t) : t[i] = p[i]
  <2>. SUFFICES ASSUME NEW i \in 1 .. Len(t) PROVE t[i] = p[i]
    OBVIOUS
  <2>1. i \in 1 .. Len(q) \/ i = Len(q) + 1 \/ i = Len(q) + 2
    BY <1>1, <1>4
  <2>. QED
    BY <1>2, <1>3, <1>4, <2>1
<1>6. t = p
  BY <1>1, <1>4, <1>5, SeqEqual, Zenon
<1>. QED
  BY <1>6 DEF t, p

\* What is on a queue with two more frames, x and then y.
LEMMA TwoFacts ==
  ASSUME NEW S, NEW q \in Seq(S), NEW x \in S, NEW y \in S
  PROVE  LET p == q \o <<x, y>> IN
         /\ Len(q) \in Nat /\ DOMAIN p = 1 .. Len(q) + 2 /\ DOMAIN q = 1 .. Len(q)
         /\ p[Len(q) + 1] = x /\ p[Len(q) + 2] = y
         /\ \A i \in DOMAIN p :
               \/ i \in DOMAIN q /\ p[i] = q[i]
               \/ i = Len(q) + 1 /\ p[i] = x
               \/ i = Len(q) + 2 /\ p[i] = y
<1>. DEFINE p == q \o <<x, y>>
<1>1. /\ p \in Seq(S) /\ Len(p) = Len(q) + 2 /\ \A i \in 1 .. Len(q) : p[i] = q[i]
      /\ p[Len(q) + 1] = x /\ p[Len(q) + 2] = y
  BY TwoMore
<1>. HIDE DEF p
<1>2. Len(q) \in Nat /\ DOMAIN p = 1 .. Len(q) + 2 /\ DOMAIN q = 1 .. Len(q)
  BY <1>1
<1>3. \A i \in 1 .. Len(q) + 2 : i \in 1 .. Len(q) \/ i = Len(q) + 1 \/ i = Len(q) + 2
  BY <1>2
<1>4. \A i \in DOMAIN p :
         \/ i \in DOMAIN q /\ p[i] = q[i]
         \/ i = Len(q) + 1 /\ p[i] = x
         \/ i = Len(q) + 2 /\ p[i] = y
  BY <1>1, <1>2, <1>3
<1>. QED
  BY <1>1, <1>2, <1>4 DEF p
-----------------------------------------------------------------------------
(* A step that leaves a connection and its holder's task alone *)

\* The PostgreSQL session behind connection d is not touched.
SameSession(d) ==
  inq'[d] = inq[d] /\ outq'[d] = outq[d] /\ txn'[d] = txn[d] /\ taint'[d] = taint[d]

\* Nor is what the pool knows of it.
SameConn(d) == cstate'[d] = cstate[d] /\ lessee'[d] = lessee[d]

SameTask(c) == pc'[c] = pc[c] /\ inbox'[c] = inbox[c] /\ unanswered'[c] = unanswered[c]

\* Pristine depends on the session only.
LEMMA PristineFrame ==
  ASSUME NEW d \in Conns, SameSession(d), resets' = resets
  PROVE  Pristine(d)' <=> Pristine(d)
BY DEF SameSession, Pristine

\* What is on a connection depends on the session, the lease and the holder.
LEMMA ConnFrame ==
  ASSUME NEW d \in Conns, ConnOK(d), SameSession(d), SameConn(d), resets' = resets,
         cstate[d] = "leased" => SameTask(lessee[d])
  PROVE  ConnOK(d)'
<1>1. cstate[d] # "leased" => ConnOK(d)'
  BY PristineFrame DEF ConnOK, SameConn, Fresh, SameSession
<1>2. ASSUME cstate[d] = "leased", HeldOK(lessee[d], d) PROVE HeldOK(lessee[d], d)'
  <2>. DEFINE c == lessee[d]
  <2>1. c' = c /\ SameTask(c)
    BY <1>2 DEF SameConn
  <2>2. Own(c, d)' <=> Own(c, d)
    BY <2>1 DEF Own, SameSession
  <2>3. (Settled(d)' <=> Settled(d)) /\ (InFlight(d)' <=> InFlight(d)) /\ (Calm(d)' <=> Calm(d))
    BY DEF Settled, InFlight, Calm, Notices, SameSession
  <2>4. Relaying(c, d)' <=> Relaying(c, d)
    BY <2>1, <2>2, <2>3 DEF Relaying, SameSession, SameTask
  <2>5. Resetting(d)' <=> Resetting(d)
    BY <2>3 DEF Resetting, Notices, SameSession
  <2>. QED
    BY <1>2, <2>1, <2>2, <2>3, <2>4, <2>5, PristineFrame DEF HeldOK, SameTask
<1>3. cstate[d] = "leased" => ConnOK(d)'
  BY <1>2 DEF ConnOK, SameConn
<1>. QED
  BY <1>1, <1>3

\* A leased connection has a holder.
LEMMA LesseeFacts ==
  ASSUME TaskInv, NEW b \in Conns, cstate[b] = "leased"
  PROVE  lessee[b] \in Clients /\ stage[lessee[b]] = "holding"
BY PoolAssumption DEF TaskInv, PoolInv, PoolTypeOK, LesseeStage

\* A client holds one connection; a task without a lease holds none.
LEMMA HolderFacts ==
  ASSUME TaskInv, NEW c \in Clients, NEW b \in Conns
  PROVE  /\ cstate[b] = "leased" => lessee[b] \in Clients
         /\ Holds(c, b) => stage[c] = "holding"
         /\ stage[c] # "holding" => ~Holds(c, b)
         /\ Holds(c, b) => \A d \in Conns : Holds(c, d) => d = b
BY PoolAssumption DEF TaskInv, PoolInv, PoolTypeOK, LesseeStage, LesseeUnique, Holds

\* Whatever client c does, a connection it neither has nor gets, and whose
\* session it does not touch, stays in order.
LEMMA BystanderConn ==
  ASSUME CleanInv, NEW c \in Clients, ClientStep(c), NEW d \in Conns,
         ~Holds(c, d), SameSession(d), SameConn(d)
  PROVE  ConnOK(d)'
<1>1. cstate[d] = "leased" => lessee[d] \in Clients /\ lessee[d] # c
  BY HolderFacts DEF Holds, CleanInv
<1>2. cstate[d] = "leased" => SameTask(lessee[d])
  BY <1>1, TaskOthers DEF SameTask, CleanInv, TaskInv
<1>3. resets' = resets
  BY Fixed
<1>. QED
  BY <1>2, <1>3, ConnFrame DEF CleanInv

\* A task works on the connection it leases, and on no other.
LEMMA OnConnFrame ==
  ASSUME TypeOK, NEW c \in Clients, NEW b \in Conns, TaskOnConn(c, b)
  PROVE  Holds(c, b) /\ \A d \in Conns \ {b} : SameSession(d) /\ SameConn(d)
<1>. USE DEF SameSession, SameConn, TypeOK, PoolTypeOK, Holds, backendVars, poolVars
<1>1. CASE ForwardFirst(c, b) \/ RelayFrame(c, b) \/ CopyToBackend(c, b)
  BY <1>1 DEF ForwardFirst, RelayFrame, CopyToBackend, Forward, Write
<1>2. CASE SendReset(c, b) \/ CopyHalfClose(c, b)
  BY <1>2 DEF SendReset, CopyHalfClose, Write
<1>3. CASE RelayReply(c, b) \/ CopyToClient(c, b) \/ ResetSkip(c, b)
  BY <1>3 DEF RelayReply, CopyToClient, Deliver, ResetSkip, TakeReply
<1>4. CASE ParamsCapture(c, b) \/ CheckinAsIs(c, b) \/ ResetDone(c, b)
  BY <1>4 DEF ParamsCapture, CheckinAsIs, ResetDone, Checkin, TakeReply
<1>5. CASE Leased(c, b) \/ CopyEnds(c, b)
  BY <1>5 DEF Leased, CopyEnds, CopyOver
<1>6. CASE \/ ForwardFails(c, b) \/ RelayUnfinished(c, b) \/ RelayGone(c, b)
           \/ RelayFails(c, b) \/ ResetFails(c, b) \/ CopyDiscard(c, b)
  <2>1. Discard(c, b) /\ Wipe({b})
    BY <1>6 DEF ForwardFails, RelayUnfinished, RelayGone, RelayFails, ResetFails, CopyDiscard,
       Abandon
  <2>. QED
    BY <2>1 DEF Discard, Close, Wipe
<1>. QED
  BY <1>1, <1>2, <1>3, <1>4, <1>5, <1>6 DEF TaskOnConn

\* The steps of the task on the connection it leases leave the others in order.
LEMMA OtherConns ==
  ASSUME CleanInv, NEW c \in Clients, NEW b \in Conns, TaskOnConn(c, b), NEW d \in Conns, d # b
  PROVE  ConnOK(d)'
<1>1. Holds(c, b) /\ SameSession(d) /\ SameConn(d)
  BY OnConnFrame DEF CleanInv, TaskInv
<1>2. ~Holds(c, d)
  BY <1>1, HolderFacts DEF CleanInv
<1>. QED
  BY <1>1, <1>2, BystanderConn DEF ClientStep
-----------------------------------------------------------------------------
(* A task and the connection it leases *)

\* A connection is in order once it is closed, checked in pristine, or held
\* with what its holder's task expects on it.
LEMMA ConnCases ==
  ASSUME NEW c \in Clients, NEW b \in Conns
  PROVE  /\ cstate'[b] \in {"closed", "dialing"} /\ Fresh(b)' => ConnOK(b)'
         /\ cstate'[b] = "idle" /\ Pristine(b)' => ConnOK(b)'
         /\ cstate'[b] = "leased" /\ lessee'[b] = c /\ HeldOK(c, b)' => ConnOK(b)'
BY DEF ConnOK

\* A discarded connection is fresh.
LEMMA WipedConn ==
  ASSUME TypeOK, NEW c \in Clients, NEW b \in Conns, Discard(c, b), Wipe({b})
  PROVE  ConnOK(b)'
<1>1. cstate'[b] = "closed"
  BY DEF Discard, Close, TypeOK, PoolTypeOK
<1>2. Fresh(b)'
  BY DEF Fresh, Wipe
<1>. QED
  BY <1>1, <1>2, ConnCases

\* The client's frame goes to the backend: the first one of a transaction, the
\* next one of a statement, or one of a session.
LEMMA ForwardConn ==
  ASSUME CleanInv, NEW c \in Clients, NEW b \in Conns,
         ForwardFirst(c, b) \/ RelayFrame(c, b) \/ CopyToBackend(c, b)
  PROVE  ConnOK(b)'
<1>. DEFINE k == Head(inbox[c])
            r == [from |-> c, kind |-> k]
<1>. USE DEF CleanInv, TaskInv
<1>0. /\ HeldOK(c, b) /\ Holds(c, b) /\ Holds(c, b)' /\ InboxOK(c) /\ ModeOK(c)
      /\ k \in ClientFrames /\ inbox[c] \in Seq(ClientFrames) /\ r \in Requests
      /\ inq[b] \in Seq(Requests) /\ outq[b] \in Seq(Replies) /\ inbox[c] # <<>>
  <2>1. Holds(c, b) /\ inbox[c] # <<>> /\ UNCHANGED poolVars
    BY DEF ForwardFirst, RelayFrame, CopyToBackend, Forward
  <2>2. /\ inbox[c] \in Seq(ClientFrames) /\ inq[b] \in Seq(Requests) /\ outq[b] \in Seq(Replies)
        /\ InboxOK(c) /\ ModeOK(c)
    BY DEF TypeOK, TaskOK
  <2>3. k \in ClientFrames
    BY <2>1, <2>2
  <2>4. r \in Requests
    BY <2>3 DEF Requests
  <2>5. HeldOK(c, b) /\ Holds(c, b)'
    BY <2>1 DEF ConnOK, Holds, poolVars
  <2>. QED
    BY <2>1, <2>2, <2>3, <2>4, <2>5
<1>1. /\ inq'[b] = inq[b] \/ inq'[b] = Append(inq[b], r)
      /\ outq'[b] = outq[b] /\ txn'[b] = txn[b] /\ inbox'[c] = Tail(inbox[c])
      /\ unanswered'[c] = unanswered[c]
  BY DEF CleanInv, TaskInv, TypeOK, ForwardFirst, RelayFrame, CopyToBackend, Forward, Write
<1>. HIDE DEF k, r
<1>12. \A i \in DOMAIN inq'[b] :
          \/ i \in DOMAIN inq[b] /\ inq'[b][i] = inq[b][i]
          \/ i = Len(inq'[b]) /\ inq'[b][i] = r
  <2>1. CASE inq'[b] = inq[b]
    BY <2>1
  <2>2. CASE inq'[b] = Append(inq[b], r)
    BY <1>0, <2>2, AppendFacts
  <2>. QED
    BY <1>1, <2>1, <2>2
<1>2. ASSUME \A i \in DOMAIN inq[b] : inq[b][i].from = c /\ inq[b][i].kind # "reset"
      PROVE  \A i \in DOMAIN inq'[b] : inq'[b][i].from = c /\ inq'[b][i].kind # "reset"
  <2>1. r.from = c /\ r.kind # "reset"
    BY <1>0 DEF r, ClientFrames
  <2>. QED
    BY <1>2, <1>12, <2>1
<1>3. CASE CopyToBackend(c, b)
  <2>1. pc[c] = "copy" /\ pc'[c] = "copy"
    BY <1>3 DEF CopyToBackend, Forward, CleanInv, TaskInv, TypeOK
  <2>2. Own(c, b)
    BY <1>0, <2>1 DEF HeldOK
  <2>3. Own(c, b)'
    BY <1>1, <1>2, <2>2 DEF Own
  <2>. QED
    BY <1>0, <2>1, <2>3, ConnCases DEF HeldOK, Holds
<1>4. CASE ForwardFirst(c, b) \/ RelayFrame(c, b)
  <2>1. pc[c] \in {"forward", "relay"} /\ pc'[c] = "relay" /\ k # "terminate" /\ mode # "session"
    <3>1. pc[c] \in {"forward", "relay"} /\ pc'[c] = "relay"
      BY <1>4 DEF ForwardFirst, RelayFrame, Forward, CleanInv, TaskInv, TypeOK
    <3>2. mode # "session"
      BY <1>0, <3>1 DEF ModeOK
    <3>3. k # "terminate"
      BY <1>0, <1>4, <3>2 DEF ForwardFirst, RelayFrame, InboxOK, Ends, k
    <3>. QED
      BY <3>1, <3>2, <3>3
  <2>2. /\ \A i \in DOMAIN inq[b] : inq[b][i].from = c /\ inq[b][i].kind = "part"
        /\ \A i \in DOMAIN outq[b] : outq[b][i].tag = "notice"
    <3>1. CASE ForwardFirst(c, b)
      <4>1. Pristine(b)
        BY <1>0, <3>1 DEF ForwardFirst, HeldOK
      <4>. QED
        BY <4>1 DEF Pristine
    <3>2. CASE RelayFrame(c, b)
      <4>1. Relaying(c, b) /\ outq[b] = <<>>
        BY <1>0, <3>2 DEF RelayFrame, HeldOK
      <4>. QED
        BY <1>0, <4>1 DEF Relaying, Own, InFlight
    <3>. QED
      BY <1>4, <3>1, <3>2
  <2>3. Own(c, b)'
    BY <1>1, <1>2, <2>2 DEF Own
  <2>4. Settled(b)'
    BY <1>1, <2>2 DEF Settled, Statuses
  <2>5. \A i \in DOMAIN inq'[b] :
          inq'[b][i].kind \in {"query", "part"} /\ (inq'[b][i].kind = "query" => i = Len(inq'[b]))
    <3>1. r.kind \in {"query", "part"}
      BY <1>0, <2>1 DEF r, ClientFrames
    <3>. QED
      BY <1>12, <2>2, <3>1
  <2>6. InFlight(b)' => inbox'[c] = <<>> /\ unanswered'[c] = 1
    <3>. SUFFICES ASSUME InFlight(b)' PROVE inbox'[c] = <<>> /\ unanswered'[c] = 1
      OBVIOUS
    <3>1. PICK i \in DOMAIN inq'[b] : inq'[b][i].kind = "query"
      BY <1>1, <2>2 DEF InFlight, Statuses
    <3>2. r.kind = "query"
      BY <1>12, <2>2, <3>1
    <3>3. 1 \in DOMAIN inbox[c] /\ inbox[c][1] = "query"
      BY <1>0, <3>2, TailFacts DEF r, k
    <3>4. unanswered[c] = 1 /\ Len(inbox[c]) = 1
      BY <1>0, <2>1, <3>3 DEF InboxOK
    <3>. QED
      BY <1>0, <1>1, <3>4, TailFacts
  <2>7. Relaying(c, b)'
    BY <2>3, <2>4, <2>5, <2>6 DEF Relaying
  <2>. QED
    BY <1>0, <2>1, <2>7, ConnCases DEF HeldOK, Holds
<1>. QED
  BY <1>3, <1>4

\* What taking the backend's next frame leaves on its connection.
LEMMA TakeFacts ==
  ASSUME TypeOK, NEW b \in Conns, TakeReply(b)
  PROVE  /\ inq'[b] = inq[b] /\ outq'[b] = Tail(outq[b])
         /\ txn'[b] = txn[b] /\ taint'[b] = taint[b]
         /\ 1 \in DOMAIN outq[b] /\ Head(outq[b]) = outq[b][1] /\ Head(outq[b]) \in Replies
         /\ \A i \in DOMAIN outq'[b] :
               i \in Nat /\ i > 0 /\ i + 1 \in DOMAIN outq[b] /\ outq'[b][i] = outq[b][i + 1]
<1>1. outq[b] \in Seq(Replies) /\ outq[b] # <<>>
  BY DEF TypeOK, TakeReply
<1>2. /\ inq'[b] = inq[b] /\ outq'[b] = Tail(outq[b])
      /\ txn'[b] = txn[b] /\ taint'[b] = taint[b]
  BY DEF TypeOK, TakeReply
<1>3. DOMAIN outq'[b] = 1 .. Len(outq[b]) - 1 /\ Len(outq[b]) \in Nat
  BY <1>1, <1>2, TailFacts
<1>. QED
  BY <1>1, <1>2, <1>3, TailFacts

\* A frame taken leaves Own and Settled as they were.
LEMMA TakeKeeps ==
  ASSUME TypeOK, NEW b \in Conns, TakeReply(b)
  PROVE  /\ \A c \in Clients : Own(c, b) => Own(c, b)'
         /\ Settled(b) => Settled(b)'
         /\ Settled(b) /\ Head(outq[b]).tag \in Statuses =>
               inq'[b] = <<>> /\ Notices(b)' /\ txn'[b] = Head(outq[b]).tag
<1>1. ASSUME NEW c \in Clients, Own(c, b) PROVE Own(c, b)'
  BY <1>1, TakeFacts DEF Own
<1>2. ASSUME Settled(b) PROVE Settled(b)'
  <2>. SUFFICES ASSUME NEW i \in DOMAIN outq'[b], outq'[b][i].tag \in Statuses
                PROVE  /\ inq'[b] = <<>> /\ txn'[b] = outq'[b][i].tag
                       /\ \A j \in DOMAIN outq'[b] : j > i => outq'[b][j].tag = "notice"
    BY DEF Settled, Statuses
  <2>1. i + 1 \in DOMAIN outq[b] /\ outq'[b][i] = outq[b][i + 1] /\ i \in Nat
    BY TakeFacts
  <2>2. inq[b] = <<>> /\ txn[b] = outq[b][i + 1].tag
    BY <1>2, <2>1 DEF Settled
  <2>3. ASSUME NEW j \in DOMAIN outq'[b], j > i PROVE outq'[b][j].tag = "notice"
    <3>1. j + 1 \in DOMAIN outq[b] /\ outq'[b][j] = outq[b][j + 1] /\ j + 1 > i + 1
      BY <2>1, <2>3, TakeFacts
    <3>. QED
      BY <1>2, <2>1, <3>1 DEF Settled
  <2>. QED
    BY <2>1, <2>2, <2>3, TakeFacts
<1>3. ASSUME Settled(b), Head(outq[b]).tag \in Statuses
      PROVE  inq'[b] = <<>> /\ Notices(b)' /\ txn'[b] = Head(outq[b]).tag
  <2>1. /\ inq[b] = <<>> /\ txn[b] = outq[b][1].tag
        /\ \A j \in DOMAIN outq[b] : j > 1 => outq[b][j].tag = "notice"
    BY <1>3, TakeFacts DEF Settled
  <2>2. \A i \in DOMAIN outq'[b] : outq'[b][i].tag = "notice"
    BY <2>1, TakeFacts
  <2>. QED
    BY <2>1, <2>2, TakeFacts DEF Notices
<1>. QED
  BY <1>1, <1>2, <1>3

\* The backend's frame goes to the client; an idle ReadyForQuery ends the lease.
LEMMA DeliverConn ==
  ASSUME CleanInv, NEW c \in Clients, NEW b \in Conns, RelayReply(c, b) \/ CopyToClient(c, b)
  PROVE  ConnOK(b)'
<1>. USE DEF CleanInv, TaskInv
<1>0. /\ TakeReply(b) /\ TypeOK /\ HeldOK(c, b) /\ Holds(c, b) /\ Holds(c, b)'
      /\ inbox'[c] = inbox[c]
  BY DEF RelayReply, CopyToClient, Deliver, Holds, ConnOK, poolVars
<1>. DEFINE tag == Head(outq[b]).tag
<1>1. CASE CopyToClient(c, b)
  <2>1. pc[c] \in {"copy", "draining"} /\ pc'[c] = pc[c]
    BY <1>1 DEF CopyToClient, Deliver, TypeOK
  <2>2. Own(c, b)'
    BY <1>0, <2>1, TakeKeeps DEF HeldOK
  <2>. QED
    BY <1>0, <2>1, <2>2, ConnCases DEF HeldOK, Holds
<1>2. CASE RelayReply(c, b)
  <2>1. Relaying(c, b) /\ pc'[c] = (IF tag = "I" THEN "boundary" ELSE "relay")
    BY <1>0, <1>2 DEF RelayReply, Deliver, HeldOK, TypeOK
  <2>2. CASE tag = "I"
    <3>1. Calm(b)'
      BY <1>0, <2>1, <2>2, TakeKeeps DEF Relaying, Calm, Statuses
    <3>. QED
      BY <1>0, <2>1, <2>2, <3>1, ConnCases DEF HeldOK, Holds
  <2>3. CASE tag # "I"
    <3>1. Own(c, b)' /\ Settled(b)'
      BY <1>0, <2>1, TakeKeeps DEF Relaying
    <3>2. \A i \in DOMAIN inq'[b] :
             /\ inq'[b][i].kind \in {"query", "part"}
             /\ inq'[b][i].kind = "query" => i = Len(inq'[b])
      BY <1>0, <2>1, TakeFacts DEF Relaying
    <3>3. InFlight(b)' => inbox'[c] = <<>> /\ unanswered'[c] = 1
      <4>1. CASE tag \in Statuses
        <5>1. ~InFlight(b)'
          BY <1>0, <2>1, <4>1, TakeKeeps DEF Relaying, InFlight, Notices, Statuses
        <5>. QED
          BY <5>1
      <4>2. CASE tag \notin Statuses
        <5>1. InFlight(b)' => InFlight(b)
          BY <1>0, TakeFacts DEF InFlight
        <5>2. unanswered' = unanswered
          BY <1>2, <4>2 DEF RelayReply, Deliver, Answer
        <5>. QED
          BY <1>0, <2>1, <5>1, <5>2 DEF Relaying
      <4>. QED
        BY <4>1, <4>2
    <3>. QED
      BY <1>0, <2>1, <2>3, <3>1, <3>2, <3>3, ConnCases DEF HeldOK, Holds, Relaying
  <2>. QED
    BY <2>2, <2>3
<1>. QED
  BY <1>1, <1>2

\* Lease::reset, and the checkin it allows.
LEMMA ResetConn ==
  ASSUME CleanInv, NEW c \in Clients, NEW b \in Conns,
         SendReset(c, b) \/ ResetSkip(c, b) \/ ResetDone(c, b)
  PROVE  ConnOK(b)'
<1>. USE DEF CleanInv, TaskInv
<1>0. HeldOK(c, b) /\ Holds(c, b) /\ resets' = resets
  BY DEF SendReset, ResetSkip, ResetDone, Checkin, Holds, ConnOK, taskVars, shared, Move
<1>1. CASE SendReset(c, b)
  <2>1. pc'[c] = "reset" /\ resets /\ Calm(b) /\ Holds(c, b)'
    BY <1>0, <1>1 DEF SendReset, HeldOK, Move, TypeOK, Holds, poolVars
  <2>. DEFINE r == [from |-> NoClient, kind |-> "reset"]
  <2>2. inq'[b] = <<>> \/ inq'[b] = <<r>>
    <3>1. inq'[b] = inq[b] \/ inq'[b] = Append(inq[b], r)
      BY <1>1 DEF SendReset, Write, TypeOK
    <3>. QED
      BY <2>1, <3>1 DEF Calm
  <2>3. outq'[b] = outq[b] /\ txn'[b] = txn[b]
    BY <1>1 DEF SendReset, Write
  <2>4. Resetting(b)'
    BY <1>0, <2>1, <2>2, <2>3 DEF Calm, Notices, Resetting, Settled, Statuses
  <2>. QED
    BY <2>1, <2>4, ConnCases DEF HeldOK, Holds
<1>2. CASE ResetSkip(c, b)
  <2>1. /\ pc'[c] = "reset" /\ Resetting(b) /\ Holds(c, b)' /\ TakeReply(b)
        /\ Head(outq[b]).tag \in {"data", "notice"}
    BY <1>0, <1>2 DEF ResetSkip, HeldOK, Holds, poolVars, taskVars
  <2>2. inq[b] = <<>> \/ Notices(b)'
    BY <2>1, TakeFacts DEF Resetting, Notices
  <2>3. Settled(b)'
    BY <2>1, TakeKeeps DEF Resetting
  <2>4. ASSUME NEW i \in DOMAIN outq'[b]
        PROVE  /\ outq'[b][i].to = NoClient \/ outq'[b][i].tag = "notice"
               /\ outq'[b][i].tag \in Statuses =>
                     taint'[b] = NoClient \/ \E j \in 1 .. i - 1 : outq'[b][j].tag = "error"
    <3>1. i \in Nat /\ i > 0 /\ i + 1 \in DOMAIN outq[b] /\ outq'[b][i] = outq[b][i + 1]
      BY <2>1, TakeFacts
    <3>2. outq'[b][i].to = NoClient \/ outq'[b][i].tag = "notice"
      BY <2>1, <3>1 DEF Resetting
    <3>3. ASSUME outq'[b][i].tag \in Statuses, taint'[b] # NoClient
          PROVE  \E j \in 1 .. i - 1 : outq'[b][j].tag = "error"
      <4>1. PICK j \in 1 .. (i + 1) - 1 : outq[b][j].tag = "error"
        BY <2>1, <3>1, <3>3, TakeFacts DEF Resetting
      <4>2. j # 1
        BY <2>1, <4>1, TakeFacts
      <4>3. j - 1 \in 1 .. i - 1 /\ j \in Nat
        BY <3>1, <4>1, <4>2
      <4>4. j - 1 \in DOMAIN outq'[b]
        <5>1. outq[b] \in Seq(Replies) /\ outq[b] # <<>> /\ outq'[b] = Tail(outq[b])
          BY <2>1, TakeFacts DEF TypeOK, TakeReply
        <5>2. DOMAIN outq'[b] = 1 .. Len(outq[b]) - 1 /\ Len(outq[b]) \in Nat
          BY <5>1, TailFacts
        <5>. QED
          BY <3>1, <4>3, <5>2
      <4>5. outq'[b][j - 1] = outq[b][(j - 1) + 1]
        BY <2>1, <4>4, TakeFacts
      <4>. QED
        BY <4>1, <4>3, <4>5
    <3>. QED
      BY <3>2, <3>3
  <2>5. Resetting(b)'
    BY <1>0, <2>1, <2>2, <2>3, <2>4, TakeFacts DEF Resetting
  <2>. QED
    BY <2>1, <2>5, ConnCases DEF HeldOK, Holds
<1>3. CASE ResetDone(c, b)
  <2>1. /\ Resetting(b) /\ TakeReply(b) /\ Head(outq[b]).tag = "I" /\ cstate'[b] = "idle"
    BY <1>0, <1>3 DEF ResetDone, HeldOK, Checkin, TypeOK, PoolTypeOK
  <2>2. inq'[b] = <<>> /\ Notices(b)' /\ txn'[b] = "I"
    BY <2>1, TakeKeeps DEF Resetting, Statuses
  <2>3. taint[b] = NoClient
    BY <2>1, TakeFacts DEF Resetting, Statuses
  <2>4. Pristine(b)'
    BY <2>1, <2>2, <2>3, TakeFacts DEF Pristine, Notices
  <2>. QED
    BY <2>1, <2>4, ConnCases
<1>. QED
  BY <1>1, <1>2, <1>3

\* The other steps of a task on its connection.
LEMMA OnConnConn ==
  ASSUME CleanInv, NEW c \in Clients, NEW b \in Conns, TaskOnConn(c, b)
  PROVE  ConnOK(b)'
<1>. USE DEF CleanInv, TaskInv
<1>0. HeldOK(c, b) /\ Holds(c, b) /\ resets' = resets
  <2>1. Holds(c, b)
    BY OnConnFrame
  <2>2. resets' = resets
    BY Fixed DEF ClientStep
  <2>. QED
    BY <2>1, <2>2 DEF ConnOK, Holds
<1>1. CASE ParamsCapture(c, b) \/ CheckinAsIs(c, b)
  <2>1. Pristine(b)
    BY <1>0, <1>1 DEF ParamsCapture, CheckinAsIs, HeldOK, Calm, Pristine, Notices
  <2>2. cstate'[b] = "idle" /\ SameSession(b)
    BY <1>1 DEF ParamsCapture, CheckinAsIs, Checkin, TypeOK, PoolTypeOK, SameSession, backendVars
  <2>. QED
    BY <1>0, <2>1, <2>2, PristineFrame, ConnCases
<1>2. CASE Leased(c, b)
  <2>1. pc'[c] \in {"copy", "forward"} /\ Pristine(b) /\ SameSession(b) /\ Holds(c, b)'
    BY <1>0, <1>2 DEF Leased, UseLease, Move, HeldOK, TypeOK, SameSession, backendVars, poolVars,
                      Holds
  <2>2. Pristine(b)'
    BY <1>0, <2>1, PristineFrame
  <2>3. Own(c, b)'
    BY <2>2 DEF Own, Pristine
  <2>. QED
    BY <2>1, <2>2, <2>3, ConnCases DEF HeldOK, Holds
<1>3. CASE CopyHalfClose(c, b) \/ CopyEnds(c, b)
  <2>1. /\ pc[c] \in {"copy", "draining"} /\ pc'[c] \in {"draining", "drop"} /\ Holds(c, b)'
        /\ outq'[b] = outq[b]
    BY <1>3 DEF CopyHalfClose, CopyEnds, CopyOver, Move, TypeOK, Write, Holds, poolVars,
                backendVars
  <2>. DEFINE r == [from |-> c, kind |-> "terminate"]
  <2>2. inq'[b] = inq[b] \/ inq'[b] = Append(inq[b], r)
    BY <1>3 DEF CopyHalfClose, CopyEnds, Write, TypeOK, backendVars
  <2>3. inq[b] \in Seq(Requests) /\ r \in Requests
    BY DEF TypeOK, Requests, ClientFrames
  <2>4. Own(c, b)
    BY <1>0, <2>1 DEF HeldOK
  <2>5. \A i \in DOMAIN inq'[b] : inq'[b][i].from = c /\ inq'[b][i].kind # "reset"
    BY <2>2, <2>3, <2>4, AppendFacts DEF Own
  <2>6. Own(c, b)'
    BY <2>1, <2>4, <2>5 DEF Own
  <2>. QED
    BY <2>1, <2>6, ConnCases DEF HeldOK, Holds
<1>4. CASE \/ ForwardFails(c, b) \/ RelayUnfinished(c, b) \/ RelayGone(c, b)
           \/ RelayFails(c, b) \/ ResetFails(c, b) \/ CopyDiscard(c, b)
  <2>1. Discard(c, b) /\ Wipe({b})
    BY <1>4 DEF ForwardFails, RelayUnfinished, RelayGone, RelayFails, ResetFails, CopyDiscard,
       Abandon
  <2>. QED
    BY <2>1, WipedConn
<1>. QED
  BY <1>1, <1>2, <1>3, <1>4, ForwardConn, DeliverConn, ResetConn DEF TaskOnConn
-----------------------------------------------------------------------------
(* The client, the pool and PostgreSQL *)

\* Steps of a task that has no lease, and of a client that sends nothing.
LEMMA AloneConns ==
  ASSUME CleanInv, NEW c \in Clients, NEW d \in Conns,
         \/ Connect(c) \/ TaskAlone(c) \/ AwaitPermit(c) \/ ClientHangup(c) \/ CancelRequest(c)
  PROVE  ConnOK(d)'
<1>. USE DEF CleanInv, TaskInv
<1>1. SameSession(d) /\ SameConn(d)
  BY DEF Connect, TaskAlone, RejectPassThrough, ParamsHit, ParamsMiss, Synthesize, ReadEnd,
     StartLease, ClearHandle, EndSession, AwaitPermit, ClientHangup, CancelRequest, Lease, Acquire,
     SameSession, SameConn, poolVars, backendVars
<1>2. CASE Connect(c) \/ TaskAlone(c) \/ AwaitPermit(c)
  <2>1. stage[c] # "holding"
    <3>1. CASE AwaitPermit(c)
      BY <3>1 DEF AwaitPermit, Acquire
    <3>2. CASE Connect(c) \/ TaskAlone(c)
      <4>1. pc[c] \in Unleased
        BY <3>2 DEF Connect, TaskAlone, RejectPassThrough, ParamsHit, ParamsMiss, Synthesize,
           ReadEnd, StartLease, ClearHandle, EndSession, Unleased
      <4>. QED
        BY <4>1 DEF TaskOK, StageOK
    <3>. QED
      BY <1>2, <3>1, <3>2
  <2>. QED
    BY <1>1, <1>2, <2>1, HolderFacts, BystanderConn DEF ClientStep
<1>3. CASE ClientHangup(c) \/ CancelRequest(c)
  <2>1. (\A e \in Clients : SameTask(e)) /\ resets' = resets
    BY <1>3 DEF ClientHangup, CancelRequest, SameTask, taskVars, shared
  <2>. QED
    BY <1>1, <2>1, HolderFacts, ConnFrame
<1>. QED
  BY <1>2, <1>3

\* A client that waits for its answer sends nothing; one that sends has no query
\* in flight.
LEMMA SendConns ==
  ASSUME CleanInv, MaxPipeline = 1, NEW c \in Clients, NEW k \in ClientFrames, ClientSend(c, k),
         NEW d \in Conns
  PROVE  ConnOK(d)'
<1>. USE DEF CleanInv, TaskInv
<1>1. SameSession(d) /\ SameConn(d) /\ pc'[c] = pc[c] /\ resets' = resets /\ poolVars' = poolVars
  BY DEF ClientSend, SameSession, SameConn, poolVars, backendVars, shared
<1>2. CASE ~Holds(c, d)
  BY <1>1, <1>2, BystanderConn DEF ClientStep
<1>3. CASE Holds(c, d)
  <2>1. HeldOK(c, d) /\ Holds(c, d)'
    BY <1>1, <1>3 DEF ConnOK, Holds, SameConn
  <2>2. Own(c, d)' <=> Own(c, d)
    BY <1>1 DEF Own, SameSession
  <2>3. (Settled(d)' <=> Settled(d)) /\ (InFlight(d)' <=> InFlight(d)) /\ (Calm(d)' <=> Calm(d))
    BY <1>1 DEF Settled, InFlight, Calm, Notices, SameSession
  <2>4. Relaying(c, d) => Relaying(c, d)'
    <3>1. unanswered[c] # 1
      BY DEF ClientSend, TypeOK
    <3>2. Relaying(c, d) => ~InFlight(d)'
      BY <2>3, <3>1 DEF Relaying
    <3>. QED
      BY <1>1, <2>2, <2>3, <3>2 DEF Relaying, SameSession
  <2>5. Resetting(d)' <=> Resetting(d)
    BY <1>1, <2>3 DEF Resetting, Notices, SameSession
  <2>6. HeldOK(c, d)'
    BY <1>1, <2>1, <2>2, <2>3, <2>4, <2>5, PristineFrame DEF HeldOK
  <2>. QED
    BY <2>1, <2>6, ConnCases DEF Holds
<1>. QED
  BY <1>2, <1>3

\* A backend handed out is pristine, whether it was idle or has just been
\* dialled; one closed to make room, or never opened, is fresh.
LEMMA AwaitConns ==
  ASSUME CleanInv, NEW c \in Clients, PoolServes(c) \/ DialEnds(c), NEW d \in Conns
  PROVE  ConnOK(d)'
<1>. USE DEF CleanInv, TaskInv
<1>0. resets' = resets /\ TypeOK /\ ConnOK(d) /\ d \in Conns
  BY Fixed DEF ClientStep
<1>1. ASSUME NEW b \in Conns, AwaitReuse(c, b) \/ AwaitDial(c, b) PROVE ConnOK(d)'
  <2>1. /\ stage[c] \in {"permit", "dialing"} /\ cstate[b] \in {"idle", "dialing"}
        /\ cstate'[b] = "leased" /\ lessee'[b] = c /\ pc'[c] = pc[c]
    BY <1>1 DEF AwaitReuse, Reuse, Matching, Idle, AwaitDial, DialOk, TypeOK, PoolTypeOK, taskVars
  <2>2. SameSession(d) /\ (d # b => SameConn(d))
    BY <1>1 DEF AwaitReuse, Reuse, AwaitDial, DialOk, SameSession, SameConn, backendVars, TypeOK,
                PoolTypeOK
  <2>3. CASE d = b
    <3>1. Pristine(d)
      BY <2>1, <2>3 DEF ConnOK, Fresh, Pristine
    <3>2. Pristine(d)'
      BY <1>0, <2>2, <3>1, PristineFrame
    <3>3. pc'[c] \in {"probe", "leasing"}
      BY <2>1, Awaiting
    <3>. QED
      BY <2>1, <2>3, <3>2, <3>3, ConnCases DEF HeldOK
  <2>4. CASE d # b
    BY <1>1, <2>1, <2>2, <2>4, HolderFacts, BystanderConn DEF ClientStep, PoolServes, DialEnds
  <2>. QED
    BY <2>3, <2>4
<1>2. ASSUME NEW b \in Conns, NEW gone \in Victims, AwaitCreate(c, b, gone) PROVE ConnOK(d)'
  <2>1. Create(c, b, gone) /\ Wipe(gone) /\ gone \subseteq Idle /\ stage[c] = "permit"
    BY <1>2 DEF AwaitCreate, Create, Room
  <2>2. CASE d \in gone \cup {b}
    <3>1. cstate'[d] \in {"closed", "dialing"}
      BY <2>1, <2>2 DEF Create, Swap
    <3>2. d \notin gone => Fresh(d)
      BY <2>1, <2>2 DEF Create, ConnOK
    <3>3. Fresh(d)'
      BY <2>1, <3>2 DEF Wipe, Fresh
    <3>. QED
      BY <3>1, <3>3, ConnCases
  <2>3. CASE d \notin gone \cup {b}
    <3>1. SameSession(d) /\ SameConn(d)
      BY <2>1, <2>3 DEF Create, Swap, Wipe, SameSession, SameConn, TypeOK, PoolTypeOK
    <3>. QED
      BY <1>2, <2>1, <3>1, HolderFacts, BystanderConn DEF ClientStep, PoolServes
  <2>. QED
    BY <2>2, <2>3
<1>3. ASSUME NEW b \in Conns, LeaseFails(c, b) PROVE ConnOK(d)'
  <2>1. /\ stage[c] = "dialing" /\ SameSession(d) /\ (d # b => SameConn(d))
        /\ cstate[b] = "dialing" /\ cstate'[b] = "closed"
    BY <1>3 DEF LeaseFails, DialFail, Close, SameSession, SameConn, backendVars, TypeOK, PoolTypeOK
  <2>2. CASE d = b
    <3>1. Fresh(d)'
      BY <2>1, <2>2 DEF ConnOK, Fresh, SameSession
    <3>. QED
      BY <2>1, <2>2, <3>1, ConnCases
  <2>3. CASE d # b
    BY <1>3, <2>1, <2>3, HolderFacts, BystanderConn DEF ClientStep, DialEnds
  <2>. QED
    BY <2>2, <2>3
<1>. QED
  BY <1>1, <1>2, <1>3 DEF PoolServes, DialEnds

\* A dropped task closes what it leased or dialled.
LEMMA AbortConns ==
  ASSUME CleanInv, NEW c \in Clients, Abort(c), NEW d \in Conns
  PROVE  ConnOK(d)'
<1>. USE DEF CleanInv, TaskInv
<1>1. CASE ((stage[c] = "none" /\ UNCHANGED poolVars) \/ Withdraw(c)) /\ UNCHANGED backendVars
  <2>1. stage[c] # "holding" /\ SameSession(d) /\ SameConn(d)
    BY <1>1 DEF Withdraw, SameSession, SameConn, backendVars, poolVars
  <2>. QED
    BY <2>1, HolderFacts, BystanderConn DEF ClientStep
<1>2. ASSUME NEW b \in Conns, DialFail(c, b), UNCHANGED backendVars PROVE ConnOK(d)'
  <2>1. /\ stage[c] = "dialing" /\ SameSession(d) /\ (d # b => SameConn(d))
        /\ cstate[b] = "dialing" /\ cstate'[b] = "closed"
    BY <1>2 DEF DialFail, Close, SameSession, SameConn, backendVars, TypeOK, PoolTypeOK
  <2>2. CASE d = b
    <3>1. Fresh(d)'
      BY <2>1, <2>2 DEF ConnOK, Fresh, SameSession
    <3>. QED
      BY <2>1, <2>2, <3>1, ConnCases
  <2>3. CASE d # b
    BY <2>1, <2>3, HolderFacts, BystanderConn DEF ClientStep
  <2>. QED
    BY <2>2, <2>3
<1>3. ASSUME NEW b \in Conns, Discard(c, b), Wipe({b}) PROVE ConnOK(d)'
  <2>1. CASE d = b
    BY <1>3, <2>1, WipedConn
  <2>2. CASE d # b
    <3>1. Holds(c, b) /\ SameSession(d) /\ SameConn(d)
      BY <1>3, <2>2 DEF Discard, Close, Wipe, SameSession, SameConn, Holds, TypeOK, PoolTypeOK
    <3>2. ~Holds(c, d)
      BY <2>2, <3>1, HolderFacts
    <3>. QED
      BY <3>1, <3>2, BystanderConn DEF ClientStep
  <2>. QED
    BY <2>1, <2>2
<1>. QED
  BY <1>1, <1>2, <1>3 DEF Abort

\* PostgreSQL only works for a connection in use.
LEMMA WorkingConn ==
  ASSUME CleanInv, NEW b \in Conns, inq[b] # <<>>
  PROVE  /\ cstate[b] = "leased" /\ lessee[b] \in Clients /\ HeldOK(lessee[b], b)
         /\ pc[lessee[b]] \in {"relay", "reset", "copy", "draining", "drop"}
<1>. USE DEF CleanInv, TaskInv
<1>1. cstate[b] = "leased"
  BY DEF ConnOK, Fresh, Pristine, TypeOK, PoolTypeOK
<1>2. lessee[b] \in Clients /\ HeldOK(lessee[b], b) /\ stage[lessee[b]] = "holding"
  BY <1>1, LesseeFacts DEF ConnOK
<1>3. pc[lessee[b]] \in PCs \ Unleased
  BY <1>2 DEF TypeOK, TaskOK, StageOK
<1>4. pc[lessee[b]] \notin {"probe", "leasing", "forward", "boundary"}
  BY <1>2 DEF HeldOK, Pristine, Calm
<1>. QED
  BY <1>1, <1>2, <1>3, <1>4 DEF PCs, Unleased

\* What PostgreSQL knows, without the tasks and the pool.
ServerOnly == UNCHANGED <<poolVars, taskVars>>

\* A connection in use stays in order if its session does.
LEMMA WorkedConn ==
  ASSUME ServerOnly, NEW b \in Conns, NEW c \in Clients, Holds(c, b),
         /\ pc[c] = "relay" => Relaying(c, b)'
         /\ pc[c] = "reset" => Resetting(b)'
         /\ pc[c] \in {"copy", "draining", "drop"} => Own(c, b)'
         /\ pc[c] \in {"probe", "leasing", "forward"} => Pristine(b)'
         /\ pc[c] = "boundary" => Calm(b)'
  PROVE  ConnOK(b)'
<1>1. cstate'[b] = "leased" /\ lessee'[b] = c /\ pc'[c] = pc[c]
  BY DEF ServerOnly, poolVars, taskVars, Holds
<1>2. HeldOK(c, b)'
  BY <1>1 DEF HeldOK
<1>. QED
  BY <1>1, <1>2, ConnCases

\* PostgreSQL answers a query or the reset query, well or with an error.
LEMMA AnswerConn ==
  ASSUME CleanInv, ServerOnly, NEW b \in Conns, inq[b] # <<>>,
         NEW first \in {"data", "error"}, NEW st \in Statuses,
         Head(inq[b]).kind \in {"query", "reset"},
         inq'[b] = Tail(inq[b]), txn'[b] = st,
         outq'[b] = outq[b] \o <<Reply(Head(inq[b]).from, first), Reply(Head(inq[b]).from, st)>>,
         Head(inq[b]).kind = "reset" /\ txn[b] = "I" =>
            st = "I" /\ (first = "error" \/ taint'[b] = NoClient)
  PROVE  ConnOK(b)'
<1>. USE DEF CleanInv, TaskInv
<1>. DEFINE r == Head(inq[b])
            n == Len(outq[b])
            x == Reply(r.from, first)
            y == Reply(r.from, st)
<1>0. /\ inq[b] \in Seq(Requests) /\ outq[b] \in Seq(Replies) /\ r \in Requests
      /\ 1 \in DOMAIN inq[b] /\ r = inq[b][1]
      /\ \A i \in DOMAIN inq'[b] : i + 1 \in DOMAIN inq[b] /\ inq'[b][i] = inq[b][i + 1]
      /\ Len(inq[b]) = 1 => inq'[b] = <<>>
  <2>1. inq[b] \in Seq(Requests) /\ outq[b] \in Seq(Replies)
    BY DEF TypeOK
  <2>2. r \in Requests
    BY <2>1
  <2>. QED
    BY <2>1, <2>2, TailFacts
<1>1. x \in Replies /\ y \in Replies /\ x.to = r.from /\ y.to = r.from /\ x.tag = first /\ y.tag = st
  BY <1>0 DEF Requests, Replies, Reply, Statuses
<1>2. /\ n \in Nat /\ DOMAIN outq'[b] = 1 .. n + 2 /\ DOMAIN outq[b] = 1 .. n
      /\ outq'[b][n + 1] = x /\ outq'[b][n + 2] = y
      /\ \A i \in DOMAIN outq'[b] :
            \/ i \in DOMAIN outq[b] /\ outq'[b][i] = outq[b][i]
            \/ i = n + 1 /\ outq'[b][i] = x
            \/ i = n + 2 /\ outq'[b][i] = y
  BY <1>0, <1>1, TwoFacts
<1>3. PICK c \in Clients :
         /\ Holds(c, b) /\ HeldOK(c, b)
         /\ pc[c] \in {"relay", "reset", "copy", "draining", "drop"}
  BY WorkingConn DEF Holds
<1>. HIDE DEF r, n, x, y
<1>4. first \notin Statuses
  BY DEF Statuses
<1>5. ASSUME Settled(b), inq'[b] = <<>> PROVE Settled(b)'
  <2>1. \A i \in DOMAIN outq[b] : outq[b][i].tag \notin Statuses
    BY <1>5 DEF Settled
  <2>2. \A i \in DOMAIN outq'[b] : outq'[b][i].tag \in Statuses =>
           i = n + 2 /\ outq'[b][i].tag = st
    BY <1>1, <1>2, <1>4, <2>1
  <2>3. \A i \in DOMAIN outq'[b] : ~(i > n + 2)
    BY <1>2
  <2>. QED
    BY <1>5, <2>2, <2>3 DEF Settled, Statuses
<1>6. ASSUME Own(c, b) PROVE Own(c, b)'
  <2>1. r.from = c
    BY <1>0, <1>6 DEF Own
  <2>. QED
    BY <1>0, <1>1, <1>2, <1>6, <2>1 DEF Own
<1>7. ASSUME pc[c] = "relay" PROVE Relaying(c, b)'
  <2>1. Relaying(c, b) /\ r.kind = "query"
    BY <1>0, <1>3, <1>7 DEF HeldOK, Relaying, r
  <2>2. inq'[b] = <<>>
    BY <1>0, <2>1 DEF Relaying
  <2>3. InFlight(b)
    BY <1>0, <2>1 DEF InFlight
  <2>4. inbox'[c] = <<>> /\ unanswered'[c] = 1
    BY <2>1, <2>3 DEF Relaying, ServerOnly, taskVars
  <2>5. \A i \in DOMAIN inq'[b] : FALSE
    BY <2>2, NoFrames
  <2>6. Own(c, b)' /\ Settled(b)'
    BY <1>5, <1>6, <2>1, <2>2 DEF Relaying
  <2>. QED
    BY <2>4, <2>5, <2>6 DEF Relaying
<1>8. ASSUME pc[c] = "reset" PROVE Resetting(b)'
  <2>1. Resetting(b)
    BY <1>3, <1>8 DEF HeldOK
  <2>2. /\ r = [from |-> NoClient, kind |-> "reset"] /\ Notices(b) /\ Len(inq[b]) = 1
        /\ txn[b] = "I"
    <3>. DEFINE q == [from |-> NoClient, kind |-> "reset"]
    <3>1. inq[b] = <<q>> /\ Notices(b) /\ txn[b] = "I"
      BY <2>1 DEF Resetting
    <3>. HIDE DEF q
    <3>2. Len(inq[b]) = 1 /\ inq[b][1] = q
      BY <3>1
    <3>. QED
      BY <1>0, <3>1, <3>2 DEF q
  <2>3. r.from = NoClient /\ r.kind = "reset"
    BY <2>2
  <2>4. st = "I" /\ (first = "error" \/ taint'[b] = NoClient)
    BY <2>2, <2>3 DEF r
  <2>5. \A i \in DOMAIN outq'[b] : outq'[b][i].to = NoClient \/ outq'[b][i].tag = "notice"
    BY <1>1, <1>2, <2>2, <2>3 DEF Notices
  <2>6. ASSUME NEW i \in DOMAIN outq'[b], outq'[b][i].tag \in Statuses
        PROVE  taint'[b] = NoClient \/ \E j \in 1 .. i - 1 : outq'[b][j].tag = "error"
    <3>1. i = n + 2
      BY <1>1, <1>2, <1>4, <2>2, <2>6 DEF Notices, Statuses
    <3>2. n + 1 \in 1 .. i - 1
      BY <1>2, <3>1
    <3>. QED
      BY <1>1, <1>2, <2>4, <3>2
  <2>7. inq'[b] = <<>> /\ resets'
    BY <1>0, <2>1, <2>2 DEF Resetting, ServerOnly, taskVars, shared
  <2>8. Settled(b)'
    BY <1>5, <2>1, <2>7 DEF Resetting
  <2>. QED
    BY <2>4, <2>5, <2>6, <2>7, <2>8 DEF Resetting
<1>9. pc[c] \in {"copy", "draining", "drop"} => Own(c, b)'
  BY <1>3, <1>6 DEF HeldOK
<1>. QED
  BY <1>3, <1>7, <1>8, <1>9, WorkedConn

\* PostgreSQL takes a part of a statement, or a Terminate.
LEMMA PartConn ==
  ASSUME CleanInv, ServerOnly, NEW b \in Conns, inq[b] # <<>>,
         inq'[b] = Tail(inq[b]), txn'[b] = txn[b],
         \/ Head(inq[b]).kind = "part" /\ outq'[b] = Append(outq[b], Reply(Head(inq[b]).from, "data"))
         \/ Head(inq[b]).kind = "terminate" /\ outq'[b] = outq[b]
  PROVE  ConnOK(b)'
<1>. USE DEF CleanInv, TaskInv
<1>. DEFINE r == Head(inq[b])
            x == Reply(r.from, "data")
<1>0. /\ inq[b] \in Seq(Requests) /\ outq[b] \in Seq(Replies) /\ r \in Requests
      /\ 1 \in DOMAIN inq[b] /\ r = inq[b][1]
      /\ Len(inq[b]) \in Nat /\ Len(inq'[b]) = Len(inq[b]) - 1
      /\ \A i \in DOMAIN inq'[b] :
            i \in Nat /\ i + 1 \in DOMAIN inq[b] /\ inq'[b][i] = inq[b][i + 1]
  <2>1. inq[b] \in Seq(Requests) /\ outq[b] \in Seq(Replies)
    BY DEF TypeOK
  <2>2. r \in Requests
    BY <2>1
  <2>. QED
    BY <2>1, <2>2, TailFacts
<1>1. x \in Replies /\ x.to = r.from /\ x.tag = "data"
  BY <1>0 DEF Requests, Replies, Reply
<1>2. \A i \in DOMAIN outq'[b] :
         \/ i \in DOMAIN outq[b] /\ outq'[b][i] = outq[b][i]
         \/ outq'[b][i] = x
  <2>1. CASE outq'[b] = Append(outq[b], x)
    BY <1>0, <1>1, <2>1, AppendFacts
  <2>2. CASE outq'[b] = outq[b]
    BY <2>2
  <2>. QED
    BY <2>1, <2>2
<1>3. PICK c \in Clients :
         /\ Holds(c, b) /\ HeldOK(c, b)
         /\ pc[c] \in {"relay", "reset", "copy", "draining", "drop"}
  BY WorkingConn DEF Holds
<1>4. r.kind \in {"part", "terminate"}
  OBVIOUS
<1>. HIDE DEF r, x
<1>5. pc[c] # "reset"
  BY <1>0, <1>3, <1>4 DEF HeldOK, Resetting
<1>6. ASSUME Own(c, b) PROVE Own(c, b)'
  <2>1. r.from = c
    BY <1>0, <1>6 DEF Own
  <2>. QED
    BY <1>0, <1>1, <1>2, <1>6, <2>1 DEF Own
<1>7. ASSUME pc[c] = "relay" PROVE Relaying(c, b)'
  <2>1. Relaying(c, b)
    BY <1>3, <1>7 DEF HeldOK
  <2>2. \A i \in DOMAIN outq'[b] : outq'[b][i].tag \notin Statuses
    BY <1>1, <1>2, <2>1 DEF Relaying, Settled, Statuses
  <2>3. \A i \in DOMAIN inq'[b] :
           /\ inq'[b][i].kind \in {"query", "part"}
           /\ inq'[b][i].kind = "query" => i = Len(inq'[b])
    BY <1>0, <2>1 DEF Relaying
  <2>4. InFlight(b)' => InFlight(b)
    BY <1>0, <2>2 DEF InFlight, Statuses
  <2>5. inbox' = inbox /\ unanswered' = unanswered
    BY DEF ServerOnly, taskVars
  <2>6. Settled(b)'
    BY <2>2 DEF Settled, Statuses
  <2>. QED
    BY <1>6, <2>1, <2>3, <2>4, <2>5, <2>6 DEF Relaying
<1>8. pc[c] \in {"copy", "draining", "drop"} => Own(c, b)'
  BY <1>3, <1>6 DEF HeldOK
<1>. QED
  BY <1>3, <1>5, <1>7, <1>8, WorkedConn

\* An unasked message, or the end of the backend, spoils no connection: the
\* queues only lose frames or gain a notice at the end.
LEMMA UnaskedConn ==
  ASSUME CleanInv, ServerOnly, NEW b \in Conns, cstate[b] \in {"leased", "idle"},
         txn'[b] = txn[b], taint'[b] = taint[b],
         inq'[b] = inq[b] \/ inq'[b] = <<>>,
         \/ outq'[b] = outq[b] \/ outq'[b] = <<>>
         \/ outq'[b] = Append(outq[b], Reply(NoClient, "notice"))
  PROVE  ConnOK(b)'
<1>. USE DEF CleanInv, TaskInv
<1>. DEFINE x == Reply(NoClient, "notice")
<1>0. x \in Replies /\ x.tag = "notice" /\ outq[b] \in Seq(Replies)
  BY DEF Replies, Reply, TypeOK
<1>1. \A i \in DOMAIN inq'[b] : inq'[b] = inq[b]
  BY NoFrames
<1>2. \A i \in DOMAIN outq'[b] :
         \/ i \in DOMAIN outq[b] /\ outq'[b][i] = outq[b][i]
         \/ outq'[b][i] = x /\ i = Len(outq[b]) + 1
  <2>1. CASE outq'[b] = Append(outq[b], x)
    BY <1>0, <2>1, AppendFacts
  <2>2. CASE outq'[b] = outq[b] \/ outq'[b] = <<>>
    BY <2>2, NoFrames
  <2>. QED
    BY <2>1, <2>2
<1>3. inq[b] = <<>> => inq'[b] = <<>>
  OBVIOUS
<1>4. \A i \in DOMAIN outq'[b] : outq'[b][i].tag = "error" \/ outq'[b][i].tag \in Statuses =>
         outq'[b] = outq[b] \/ outq'[b] = Append(outq[b], x)
  BY NoFrames
<1>. HIDE DEF x
<1>5. Notices(b) => Notices(b)'
  BY <1>0, <1>2 DEF Notices
<1>6. \A c \in Clients : Own(c, b) => Own(c, b)'
  BY <1>0, <1>1, <1>2 DEF Own
<1>7. Settled(b) => Settled(b)'
  BY <1>0, <1>2, <1>3 DEF Settled, Statuses
<1>8. resets' = resets /\ inbox' = inbox /\ unanswered' = unanswered /\ pc' = pc
      /\ cstate' = cstate /\ lessee' = lessee
  BY DEF ServerOnly, taskVars, poolVars, shared
<1>9. Pristine(b) => Pristine(b)'
  BY <1>3, <1>5, <1>8 DEF Pristine, Notices
<1>10. CASE cstate[b] = "idle"
  BY <1>8, <1>9, <1>10 DEF ConnOK
<1>11. CASE cstate[b] = "leased"
  <2>1. PICK c \in Clients : Holds(c, b) /\ HeldOK(c, b)
    BY <1>11, LesseeFacts DEF Holds, ConnOK
  <2>2. Calm(b) => Calm(b)'
    BY <1>3, <1>5 DEF Calm
  <2>3. ASSUME Relaying(c, b) PROVE Relaying(c, b)'
    <3>1. InFlight(b)' => InFlight(b)
      BY <1>0, <1>1, <1>2 DEF InFlight, Statuses
    <3>2. \A i \in DOMAIN inq'[b] :
             /\ inq'[b][i].kind \in {"query", "part"}
             /\ inq'[b][i].kind = "query" => i = Len(inq'[b])
      BY <1>1, <2>3 DEF Relaying
    <3>. QED
      BY <1>6, <1>7, <1>8, <2>3, <3>1, <3>2 DEF Relaying
  <2>4. ASSUME Resetting(b) PROVE Resetting(b)'
    <3>1. ASSUME NEW i \in DOMAIN outq'[b], outq'[b][i].tag \in Statuses
          PROVE  taint'[b] = NoClient \/ \E j \in 1 .. i - 1 : outq'[b][j].tag = "error"
      <4>1. i \in DOMAIN outq[b] /\ outq'[b][i] = outq[b][i]
        BY <1>0, <1>2, <3>1 DEF Statuses
      <4>2. ASSUME NEW j \in 1 .. i - 1 PROVE outq'[b][j] = outq[b][j]
        <5>1. j \in DOMAIN outq[b]
          BY <1>0, <4>1
        <5>2. outq'[b] = outq[b] \/ outq'[b] = Append(outq[b], x)
          BY <1>4, <3>1
        <5>. QED
          BY <1>0, <5>1, <5>2, AppendFacts
      <4>3. taint[b] = NoClient \/ \E j \in 1 .. i - 1 : outq[b][j].tag = "error"
        BY <2>4, <3>1, <4>1 DEF Resetting
      <4>. QED
        BY <4>2, <4>3
    <3>2. \A i \in DOMAIN outq'[b] : outq'[b][i].to = NoClient \/ outq'[b][i].tag = "notice"
      BY <1>0, <1>2, <2>4 DEF Resetting
    <3>. QED
      BY <1>5, <1>7, <1>8, <2>4, <3>1, <3>2 DEF Resetting
  <2>. QED
    BY <1>6, <1>9, <2>1, <2>2, <2>3, <2>4, WorkedConn DEF HeldOK
<1>. QED
  BY <1>10, <1>11

\* PostgreSQL works on one connection at a time.
LEMMA ServerOther ==
  ASSUME CleanInv, ServerOnly, NEW d \in Conns, SameSession(d)
  PROVE  ConnOK(d)'
<1>1. SameConn(d) /\ resets' = resets /\ \A c \in Clients : SameTask(c)
  BY DEF ServerOnly, poolVars, taskVars, shared, SameConn, SameTask
<1>2. cstate[d] = "leased" => SameTask(lessee[d])
  BY <1>1, LesseeFacts DEF CleanInv
<1>. QED
  BY <1>1, <1>2, ConnFrame DEF CleanInv

\* A request interrupted, by itself or by a cancel, leaves every connection in
\* order.
LEMMA InterruptConns ==
  ASSUME CleanInv, ServerOnly, NEW b \in Conns, Interrupt(b), NEW d \in Conns
  PROVE  ConnOK(d)'
<1>. USE DEF CleanInv, TaskInv
<1>1. CASE d = b
  <2>. DEFINE st == IF txn[b] = "I" THEN "I" ELSE "E"
  <2>1. /\ inq[b] # <<>> /\ Head(inq[b]).kind \in {"query", "reset"} /\ inq'[b] = Tail(inq[b])
        /\ txn'[b] = st /\ st \in Statuses
        /\ outq'[b] = outq[b] \o <<Reply(Head(inq[b]).from, "error"), Reply(Head(inq[b]).from, st)>>
    BY DEF Interrupt, TypeOK, Statuses
  <2>2. txn[b] = "I" => st = "I"
    OBVIOUS
  <2>. HIDE DEF st
  <2>3. ConnOK(b)'
    BY <2>1, <2>2, AnswerConn
  <2>. QED
    BY <1>1, <2>3
<1>2. CASE d # b
  <2>1. SameSession(d)
    BY <1>2 DEF Interrupt, SameSession, TypeOK
  <2>. QED
    BY <2>1, ServerOther
<1>. QED
  BY <1>1, <1>2

\* So does a request executed.
LEMMA ExecuteConns ==
  ASSUME CleanInv, NEW b \in Conns, Execute(b), NEW d \in Conns
  PROVE  ConnOK(d)'
<1>. USE DEF CleanInv, TaskInv
<1>0. ServerOnly /\ inq[b] # <<>> /\ inq'[b] = Tail(inq[b])
  BY DEF Execute, ServerOnly, TypeOK
<1>1. CASE d # b
  <2>1. SameSession(d)
    BY <1>1 DEF Execute, SameSession, TypeOK
  <2>. QED
    BY <1>0, <2>1, ServerOther
<1>2. CASE d = b
  <2>. DEFINE r == Head(inq[b])
  <2>1. CASE r.kind \in {"part", "terminate"}
    <3>1. /\ txn'[b] = txn[b]
          /\ \/ r.kind = "part" /\ outq'[b] = Append(outq[b], Reply(r.from, "data"))
             \/ r.kind = "terminate" /\ outq'[b] = outq[b]
      BY <2>1 DEF Execute, TypeOK
    <3>2. ConnOK(b)'
      BY <1>0, <3>1, PartConn
    <3>. QED
      BY <1>2, <3>2
  <2>2. CASE r.kind = "query"
    <3>1. PICK st \in StatusAfter(txn[b]) :
            txn'[b] = st /\ outq'[b] = outq[b] \o <<Reply(r.from, "data"), Reply(r.from, st)>>
      BY <2>2 DEF Execute, TypeOK
    <3>2. st \in Statuses
      BY DEF StatusAfter, Statuses, TypeOK
    <3>3. ConnOK(b)'
      BY <1>0, <2>2, <3>1, <3>2, AnswerConn
    <3>. QED
      BY <1>2, <3>3
  <2>3. CASE r.kind = "reset"
    <3>1. /\ txn'[b] = "I" /\ taint'[b] = NoClient
          /\ outq'[b] = outq[b] \o <<Reply(r.from, "data"), Reply(r.from, "I")>>
      BY <2>3 DEF Execute, TypeOK
    <3>2. ConnOK(b)'
      BY <1>0, <2>3, <3>1, AnswerConn DEF Statuses
    <3>. QED
      BY <1>2, <3>2
  <2>. QED
    BY <2>1, <2>2, <2>3 DEF Execute
<1>. QED
  BY <1>1, <1>2

\* PostgreSQL and the cancels keep every connection in order.
LEMMA ServerConns ==
  ASSUME CleanInv, NEW d \in Conns,
         \/ \E b \in Conns : Execute(b) \/ ExecuteFails(b) \/ Notify(b) \/ Crash(b)
         \/ \E k \in inflight : CancelArrives(k)
  PROVE  ConnOK(d)'
<1>. USE DEF CleanInv, TaskInv
<1>1. ASSUME NEW b \in Conns, Notify(b) \/ Crash(b) PROVE ConnOK(d)'
  <2>1. /\ ServerOnly /\ cstate[b] \in {"leased", "idle"}
        /\ txn'[b] = txn[b] /\ taint'[b] = taint[b] /\ (inq'[b] = inq[b] \/ inq'[b] = <<>>)
        /\ d # b => SameSession(d)
    BY <1>1 DEF Notify, Crash, ServerOnly, SameSession, TypeOK
  <2>2. \/ outq'[b] = outq[b] \/ outq'[b] = <<>>
        \/ outq'[b] = Append(outq[b], Reply(NoClient, "notice"))
    BY <1>1 DEF Notify, Crash, TypeOK
  <2>3. ConnOK(b)'
    BY <2>1, <2>2, UnaskedConn
  <2>. QED
    BY <2>1, <2>3, ServerOther
<1>2. ASSUME NEW b \in Conns, ExecuteFails(b) PROVE ConnOK(d)'
  BY <1>2, InterruptConns DEF ExecuteFails, ServerOnly
<1>3. ASSUME NEW k \in inflight, CancelArrives(k) PROVE ConnOK(d)'
  <2>1. ServerOnly /\ k.target \in Conns
    BY <1>3 DEF CancelArrives, ServerOnly, TypeOK, CancelTypeOK, CancelRequests
  <2>2. UNCHANGED backendVars => ConnOK(d)'
    BY <2>1, ServerOther DEF SameSession, backendVars
  <2>. QED
    BY <1>3, <2>1, <2>2, InterruptConns DEF CancelArrives
<1>. QED
  BY <1>1, <1>2, <1>3, ExecuteConns
-----------------------------------------------------------------------------
(* What a client has sent *)

\* What a client's own sends, and the frames forwarded, leave of its inbox.
LEMMA SentInbox ==
  ASSUME CleanInv, MaxPipeline = 1, NEW c \in Clients, mode # "session",
         \/ \E k \in ClientFrames : ClientSend(c, k)
         \/ \E b \in Conns : ForwardFirst(c, b) \/ RelayFrame(c, b)
  PROVE  InboxOK(c)'
<1>. USE DEF CleanInv, TaskInv
<1>0. inbox[c] \in Seq(ClientFrames) /\ InboxOK(c) /\ mode # "session"
  BY DEF TypeOK
<1>1. ASSUME NEW k \in ClientFrames, ClientSend(c, k) PROVE InboxOK(c)'
  <2>1. /\ inbox'[c] = Append(inbox[c], k) /\ pc' = pc /\ unanswered[c] = 0
        /\ k = "query" => unanswered'[c] = 1
    BY <1>1 DEF ClientSend, TypeOK
  <2>2. \A i \in DOMAIN inbox[c] : inbox[c][i] # "query"
    BY <1>0, <2>1 DEF InboxOK
  <2>3. \A i \in DOMAIN inbox'[c] : inbox'[c][i] = "query" =>
           unanswered'[c] = 1 /\ i = Len(inbox'[c])
    BY <1>0, <2>1, <2>2, AppendFacts
  <2>4. inbox[c] # <<>> => inbox'[c] # <<>> /\ Head(inbox'[c]) = Head(inbox[c])
    BY <1>0, <2>1
  <2>. QED
    BY <1>0, <2>1, <2>3, <2>4 DEF InboxOK
<1>2. ASSUME NEW b \in Conns, ForwardFirst(c, b) \/ RelayFrame(c, b) PROVE InboxOK(c)'
  <2>1. /\ inbox[c] # <<>> /\ inbox'[c] = Tail(inbox[c]) /\ pc'[c] = "relay"
        /\ unanswered'[c] = unanswered[c]
    BY <1>2 DEF ForwardFirst, RelayFrame, Forward, TypeOK
  <2>2. /\ Len(inbox[c]) \in Nat /\ Len(inbox'[c]) = Len(inbox[c]) - 1
        /\ \A i \in DOMAIN inbox'[c] :
              i \in Nat /\ i + 1 \in DOMAIN inbox[c] /\ inbox'[c][i] = inbox[c][i + 1]
    BY <1>0, <2>1, TailFacts
  <2>3. \A i \in DOMAIN inbox'[c] : inbox'[c][i] = "query" =>
           unanswered'[c] = 1 /\ i = Len(inbox'[c])
    BY <1>0, <2>1, <2>2 DEF InboxOK
  <2>. QED
    BY <2>1, <2>3 DEF InboxOK
<1>. QED
  BY <1>1, <1>2

\* A step that leaves a client's inbox alone, and starts no lease.
LEMMA InboxFrame ==
  ASSUME NEW c \in Clients, InboxOK(c), mode' = mode, inbox'[c] = inbox[c],
         unanswered'[c] = unanswered[c] \/ inbox[c] = <<>>,
         pc'[c] \in {"leasing", "forward"} => pc[c] \in {"leasing", "forward"}
  PROVE  InboxOK(c)'
<1>1. \A i \in DOMAIN inbox[c] : inbox[c] # <<>>
  BY NoFrames
<1>. QED
  BY <1>1 DEF InboxOK

\* A ReadyForQuery comes to a client whose inbox is empty.
LEMMA AnsweredInbox ==
  ASSUME CleanInv, NEW c \in Clients, NEW b \in Conns, pc[c] = "relay", Holds(c, b),
         outq[b] # <<>>, Answer(c, Head(outq[b]))
  PROVE  unanswered'[c] = unanswered[c] \/ inbox[c] = <<>>
<1>. USE DEF CleanInv, TaskInv
<1>1. CASE Head(outq[b]).tag \in Statuses
  <2>1. Relaying(c, b)
    BY DEF ConnOK, HeldOK, Holds
  <2>2. outq[b] \in Seq(Replies)
    BY DEF TypeOK
  <2>3. InFlight(b)
    BY <1>1, <2>2, TailFacts DEF InFlight
  <2>. QED
    BY <2>1, <2>3 DEF Relaying
<1>2. CASE Head(outq[b]).tag \notin Statuses
  BY <1>2 DEF Answer
<1>. QED
  BY <1>1, <1>2

\* A client's step keeps its own inbox in order.
LEMMA OwnInbox ==
  ASSUME CleanInv, MaxPipeline = 1, NEW c \in Clients, ClientStep(c)
  PROVE  InboxOK(c)'
<1>. USE DEF CleanInv, TaskInv
<1>0. mode' = mode /\ InboxOK(c) /\ ModeOK(c)
  BY Fixed DEF TaskOK
<1>. SUFFICES ASSUME mode # "session" PROVE InboxOK(c)'
  BY <1>0 DEF InboxOK
<1>1. CASE \/ Connect(c) \/ ClientHangup(c) \/ AwaitPermit(c) \/ PoolServes(c) \/ DialEnds(c)
           \/ CancelRequest(c)
  <2>1. /\ inbox'[c] = inbox[c] /\ unanswered'[c] = unanswered[c]
        /\ pc'[c] \in {"leasing", "forward"} => pc[c] \in {"leasing", "forward"}
    BY <1>1 DEF Connect, ClientHangup, AwaitPermit, PoolServes, AwaitReuse, AwaitCreate, DialEnds,
       AwaitDial, LeaseFails, CancelRequest, Move, taskVars, TypeOK
  <2>. QED
    BY <1>0, <2>1, InboxFrame
<1>2. CASE Abort(c) \/ EndSession(c)
  <2>1. inbox'[c] = <<>> /\ pc'[c] \in {"off", "dropped"}
    BY <1>2 DEF Abort, EndSession, Finish, CloseClient, TypeOK
  <2>. QED
    BY <2>1, NoFrames DEF InboxOK
<1>3. CASE StartLease(c)
  <2>1. /\ inbox' = inbox /\ unanswered' = unanswered /\ inbox[c] # <<>>
        /\ Head(inbox[c]) # "terminate"
    BY <1>3 DEF StartLease, Move, Ends
  <2>. QED
    BY <1>0, <2>1 DEF InboxOK
<1>4. CASE \/ RejectPassThrough(c) \/ ParamsHit(c) \/ ParamsMiss(c) \/ Synthesize(c) \/ ReadEnd(c)
           \/ ClearHandle(c)
  <2>1. /\ inbox'[c] = inbox[c] /\ unanswered'[c] = unanswered[c]
        /\ pc'[c] \notin {"leasing", "forward"}
    BY <1>4 DEF RejectPassThrough, ParamsHit, ParamsMiss, Synthesize, ReadEnd, ClearHandle, Move,
       TypeOK
  <2>. QED
    BY <1>0, <2>1, InboxFrame
<1>5. ASSUME NEW b \in Conns, TaskOnConn(c, b) PROVE InboxOK(c)'
  <2>1. CASE \/ ParamsCapture(c, b) \/ CheckinAsIs(c, b) \/ SendReset(c, b) \/ ResetSkip(c, b)
             \/ ResetDone(c, b) \/ CopyHalfClose(c, b) \/ CopyEnds(c, b) \/ Leased(c, b)
    <3>1. /\ inbox'[c] = inbox[c] /\ unanswered'[c] = unanswered[c]
          /\ pc'[c] \in {"leasing", "forward"} => pc[c] \in {"leasing", "forward"}
      BY <2>1 DEF ParamsCapture, CheckinAsIs, SendReset, ResetSkip, ResetDone, CopyHalfClose,
         CopyEnds, Leased, UseLease, Move, taskVars, TypeOK
    <3>. QED
      BY <1>0, <3>1, InboxFrame
  <2>2. CASE \/ ForwardFails(c, b) \/ RelayGone(c, b) \/ RelayFails(c, b) \/ ResetFails(c, b)
             \/ CopyDiscard(c, b)
    <3>1. /\ inbox'[c] = inbox[c] /\ unanswered'[c] = unanswered[c]
          /\ pc'[c] \notin {"leasing", "forward"}
      BY <2>2 DEF ForwardFails, RelayGone, RelayFails, ResetFails, CopyDiscard, Abandon, TypeOK
    <3>. QED
      BY <1>0, <3>1, InboxFrame
  <2>3. CASE RelayReply(c, b) \/ RelayUnfinished(c, b)
    <3>1. /\ pc[c] = "relay" /\ Holds(c, b) /\ outq[b] # <<>> /\ Answer(c, Head(outq[b]))
          /\ inbox' = inbox /\ pc'[c] \notin {"leasing", "forward"}
      BY <2>3 DEF RelayReply, Deliver, RelayUnfinished, Unfinished, Abandon, Discard, Holds, TypeOK
    <3>. QED
      BY <1>0, <3>1, AnsweredInbox, InboxFrame
  <2>4. ~CopyToBackend(c, b) /\ ~CopyToClient(c, b)
    BY <1>0 DEF CopyToBackend, CopyToClient, ModeOK
  <2>. QED
    BY <1>5, <2>1, <2>2, <2>3, <2>4, SentInbox DEF TaskOnConn
<1>. QED
  BY <1>1, <1>2, <1>3, <1>4, <1>5, SentInbox DEF ClientStep, TaskAlone
-----------------------------------------------------------------------------
(* The theorems *)

\* Every step preserves the invariant.
LEMMA CleanStep ==
  ASSUME MaxPipeline = 1 PROVE CleanInv /\ [Next]_vars => CleanInv'
<1>. SUFFICES ASSUME CleanInv, [Next]_vars PROVE CleanInv'
  OBVIOUS
<1>1. TaskInv'
  BY TaskStep DEF CleanInv
<1>2. ASSUME NEW c \in Clients, ClientStep(c) PROVE CleanInv'
  <2>1. ASSUME NEW d \in Conns PROVE ConnOK(d)'
    <3>1. ASSUME NEW b \in Conns, TaskOnConn(c, b) PROVE ConnOK(d)'
      BY <3>1, OnConnConn, OtherConns
    <3>. QED
      BY <1>2, <3>1, AloneConns, SendConns, AwaitConns, AbortConns DEF ClientStep
  <2>2. ASSUME NEW e \in Clients PROVE InboxOK(e)'
    <3>1. CASE e = c
      BY <1>2, <3>1, OwnInbox
    <3>2. CASE e # c
      BY <1>2, <3>2, TaskOthers, InboxFrame DEF CleanInv, TaskInv
    <3>. QED
      BY <3>1, <3>2
  <2>. QED
    BY <1>1, <2>1, <2>2 DEF CleanInv
<1>3. ASSUME UNCHANGED taskVars, NEW e \in Clients PROVE InboxOK(e)'
  BY <1>3, InboxFrame DEF CleanInv, taskVars, shared
<1>4. CASE \/ \E b \in Conns : Execute(b) \/ ExecuteFails(b) \/ Notify(b) \/ Crash(b)
           \/ \E k \in inflight : CancelArrives(k)
  BY <1>1, <1>3, <1>4, ServerConns, ServerFrame DEF CleanInv
<1>5. CASE UNCHANGED vars
  <2>1. ASSUME NEW d \in Conns PROVE ConnOK(d)'
    BY <1>5, ServerOther DEF ServerOnly, vars, backendVars, SameSession
  <2>. QED
    BY <1>1, <1>3, <1>5, <2>1 DEF CleanInv, vars
<1>. QED
  BY <1>2, <1>4, <1>5 DEF Next, ClientStep

\* It holds when nobody is connected yet.
LEMMA CleanInit == Init => CleanInv
<1>. SUFFICES ASSUME Init PROVE CleanInv
  OBVIOUS
<1>1. ASSUME NEW b \in Conns PROVE ConnOK(b)
  BY DEF Init, PoolInit, ConnOK, Fresh
<1>2. ASSUME NEW c \in Clients PROVE InboxOK(c)
  BY NoFrames DEF Init, InboxOK
<1>. QED
  BY <1>1, <1>2, TaskInit DEF CleanInv

\* For clients that wait for their answers, what is on every connection is what
\* its state in the pool and its holder's task say: the invariant the results
\* below rest on.
THEOREM PooledClean ==
  ASSUME MaxPipeline = 1 PROVE Spec => []CleanInv
<1>1. CleanInv /\ [Next]_vars => CleanInv'
  BY CleanStep
<1>. QED
  BY <1>1, CleanInit, PTL DEF Spec

\* A backend goes back to the idle set only outside a transaction, with nothing
\* on the wire and, if the pool has a reset query, without session state.
THEOREM PooledCleanIdle ==
  ASSUME MaxPipeline = 1 PROVE Spec => []CleanIdle
<1>1. CleanInv => CleanIdle
  BY DEF CleanInv, ConnOK, CleanIdle
<1>2. Spec => []CleanInv
  BY PooledClean
<1>. QED
  BY <1>1, <1>2, PTL

\* A client is only ever shown replies to its own requests.
THEOREM PooledOwnReplies ==
  ASSUME MaxPipeline = 1 PROVE Spec => []OwnReplies
<1>1. CleanInv => OwnReplies
  <2>. SUFFICES ASSUME CleanInv, NEW c \in Clients, NEW b \in Conns, Holds(c, b),
                       pc[c] \in {"forward", "relay", "copy", "draining"}
                PROVE  \A i \in DOMAIN outq[b] : outq[b][i].to = c \/ outq[b][i].tag = "notice"
    BY DEF OwnReplies
  <2>1. HeldOK(c, b)
    BY DEF CleanInv, ConnOK, Holds
  <2>. QED
    BY <2>1 DEF HeldOK, Pristine, Relaying, Own
<1>2. Spec => []CleanInv
  BY PooledClean
<1>. QED
  BY <1>1, <1>2, PTL
-----------------------------------------------------------------------------
(* The lease contract *)

Dirty == {b \in Conns : ~Pristine(b)}

\* Only a backend in use is dirty, before a step and after it.
LEMMA UnheldPristine ==
  ASSUME CleanInv, CleanInv', NEW d \in Conns
  PROVE  /\ cstate[d] # "leased" => Pristine(d)
         /\ cstate'[d] # "leased" => Pristine(d)'
<1>1. cstate[d] # "leased" => Pristine(d)
  BY NoFrames DEF CleanInv, TaskInv, TypeOK, PoolTypeOK, ConnOK, Fresh, Pristine
<1>2. cstate'[d] # "leased" => Pristine(d)'
  BY NoFrames DEF CleanInv, TaskInv, TypeOK, PoolTypeOK, ConnOK, Fresh, Pristine
<1>. QED
  BY <1>1, <1>2

\* The contract counts as the pool does.
LEMMA CleanCardinality == \A S : CleanContract!Cardinality(S) = Cardinality(S)
BY Zenon DEF CleanContract!Cardinality, Cardinality

\* A backend is granted while the permits leave room for it.
LEMMA CleanGrant ==
  ASSUME CleanInv, CleanInv', NEW c \in Clients, NEW b \in Conns, Reuse(c, b) \/ DialOk(c, b),
         UNCHANGED backendVars, resets' = resets
  PROVE  CleanContract!Grant(c, b)
<1>. USE DEF CleanInv, TaskInv
<1>1. Contract!Grant(c, b)
  BY GrantStep
<1>2. /\ Holder[b] = NoClient /\ (\A d \in Conns : Holder[d] # c)
      /\ Contract!Cardinality(Contract!Held) < MaxSize
      /\ Holder' = [Holder EXCEPT ![b] = c]
  BY <1>1 DEF Contract!Grant
<1>3. CleanContract!Cardinality(CleanContract!Held) < MaxSize
  BY <1>2, SameCardinality, CleanCardinality DEF Contract!Held, CleanContract!Held
<1>4. b \notin Dirty
  <2>1. cstate[b] # "leased"
    BY DEF Reuse, DialOk, Matching, Idle
  <2>. QED
    BY <2>1, UnheldPristine DEF Dirty
<1>5. Dirty' = Dirty
  BY PristineFrame DEF Dirty, SameSession, backendVars
<1>. QED
  BY <1>2, <1>3, <1>4, <1>5 DEF CleanContract!Grant, Dirty

\* Steps that leave the leases alone and touch the sessions of unheld backends
\* only are invisible; a step on one held backend is a use of it.
LEMMA CleanUse ==
  ASSUME CleanInv, CleanInv', resets' = resets, Holder' = Holder, NEW b \in Conns,
         \A d \in Conns \ {b} :
            SameSession(d) \/ (cstate[d] # "leased" /\ cstate'[d] # "leased")
  PROVE  CleanContract!Use(b) \/ UNCHANGED CleanContract!contractVars
<1>1. \A d \in Conns \ {b} : d \in Dirty' <=> d \in Dirty
  BY PristineFrame, UnheldPristine DEF Dirty
<1>2. Dirty' = Dirty \cup {b} \/ Dirty' = Dirty \ {b}
  BY <1>1 DEF Dirty
<1>3. CASE Holder[b] # NoClient
  BY <1>2, <1>3 DEF CleanContract!Use, Dirty
<1>4. CASE Holder[b] = NoClient
  <2>1. cstate[b] # "leased" /\ cstate'[b] # "leased"
    <3>1. Holder'[b] = NoClient
      BY <1>4
    <3>2. \A d \in Conns : cstate[d] = "leased" => Holder[d] # NoClient
      BY LesseeFacts, PoolAssumption DEF Holder, CleanInv
    <3>3. \A d \in Conns : cstate'[d] = "leased" => Holder'[d] # NoClient
      BY PoolAssumption DEF Holder, CleanInv, TaskInv, PoolInv, PoolTypeOK, LesseeStage
    <3>. QED
      BY <1>4, <3>1, <3>2, <3>3
  <2>2. b \notin Dirty /\ b \notin Dirty'
    BY <2>1, UnheldPristine DEF Dirty
  <2>3. Dirty' = Dirty
    BY <1>1, <2>2 DEF Dirty
  <2>. QED
    BY <2>3 DEF CleanContract!contractVars, Dirty
<1>. QED
  BY <1>3, <1>4

\* A backend checked in or discarded is released clean.
LEMMA CleanRelease ==
  ASSUME CleanInv, CleanInv', resets' = resets, NEW c \in Clients, NEW b \in Conns,
         Checkin(c, b) \/ Discard(c, b), \A d \in Conns \ {b} : SameSession(d)
  PROVE  CleanContract!Release(b)
<1>. USE DEF CleanInv, TaskInv
<1>1. Holder[b] # NoClient /\ Holder' = [Holder EXCEPT ![b] = NoClient]
  BY ReleaseStep DEF Contract!Release
<1>2. cstate'[b] # "leased"
  BY DEF Checkin, Discard, Close, TypeOK, PoolTypeOK
<1>3. b \notin Dirty'
  BY <1>2, UnheldPristine DEF Dirty
<1>4. \A d \in Conns \ {b} : d \in Dirty' <=> d \in Dirty
  BY PristineFrame DEF Dirty
<1>5. Dirty' = Dirty \ {b}
  BY <1>3, <1>4 DEF Dirty
<1>. QED
  BY <1>1, <1>5 DEF CleanContract!Release, Dirty

\* Every step of a client is a step of the contract, or leaves it alone.
LEMMA ClientContract ==
  ASSUME CleanInv, CleanInv', NEW c \in Clients, ClientStep(c)
  PROVE  CleanContract!ContractNext \/ UNCHANGED CleanContract!contractVars
<1>. USE DEF CleanInv, TaskInv
<1>0. resets' = resets
  BY Fixed
<1>1. ASSUME NEW b \in Conns, AwaitReuse(c, b) \/ AwaitDial(c, b)
      PROVE  CleanContract!ContractNext
  <2>1. CleanContract!Grant(c, b)
    BY <1>0, <1>1, CleanGrant DEF AwaitReuse, AwaitDial
  <2>. QED
    BY <2>1 DEF CleanContract!ContractNext
<1>2. ASSUME NEW b \in Conns, Checkin(c, b) \/ Discard(c, b), \A d \in Conns \ {b} : SameSession(d)
      PROVE  CleanContract!ContractNext
  <2>1. CleanContract!Release(b)
    BY <1>0, <1>2, CleanRelease
  <2>. QED
    BY <2>1 DEF CleanContract!ContractNext
<1>3. ASSUME Holder' = Holder, NEW b \in Conns,
             \A d \in Conns \ {b} :
                SameSession(d) \/ (cstate[d] # "leased" /\ cstate'[d] # "leased")
      PROVE  CleanContract!ContractNext \/ UNCHANGED CleanContract!contractVars
  BY <1>0, <1>3, CleanUse DEF CleanContract!ContractNext
<1>4. UNCHANGED poolVars => Holder' = Holder
  BY DEF poolVars, Holder
<1>5. ASSUME NEW b \in Conns, TaskOnConn(c, b)
      PROVE  CleanContract!ContractNext \/ UNCHANGED CleanContract!contractVars
  BY <1>2, <1>3, <1>4, <1>5, OnConnFrame, TaskOnConnPool
<1>6. ASSUME Holder' = Holder, UNCHANGED backendVars
      PROVE  UNCHANGED CleanContract!contractVars
  <2>1. Dirty' = Dirty
    BY <1>0, <1>6, PristineFrame DEF Dirty, SameSession, backendVars
  <2>. QED
    BY <1>6, <2>1 DEF CleanContract!contractVars, Dirty
<1>7. CASE \/ Connect(c) \/ ClientHangup(c) \/ (\E k \in ClientFrames : ClientSend(c, k))
           \/ TaskAlone(c) \/ AwaitPermit(c) \/ CancelRequest(c)
           \/ \E b \in Conns : LeaseFails(c, b)
  <2>1. /\ UNCHANGED backendVars
        /\ \/ Lease(c) \/ Acquire(c) \/ UNCHANGED poolVars
           \/ \E b \in Conns : DialFail(c, b)
    BY <1>7 DEF Connect, ClientHangup, ClientSend, TaskAlone, RejectPassThrough, ParamsHit,
       ParamsMiss, Synthesize, ReadEnd, StartLease, ClearHandle, EndSession, AwaitPermit,
       CancelRequest, LeaseFails
  <2>. QED
    BY <1>4, <1>6, <2>1, SilentStep
<1>8. ASSUME NEW b \in Conns, NEW gone \in Victims, AwaitCreate(c, b, gone)
      PROVE  CleanContract!ContractNext \/ UNCHANGED CleanContract!contractVars
  <2>1. Create(c, b, gone) /\ Wipe(gone) /\ gone \subseteq Idle
    BY <1>8 DEF AwaitCreate, Create, Room
  <2>2. Holder' = Holder
    BY <2>1, SilentStep
  <2>3. ASSUME NEW d \in Conns \ {b}
        PROVE  SameSession(d) \/ (cstate[d] # "leased" /\ cstate'[d] # "leased")
    BY <2>1 DEF Create, Swap, Wipe, SameSession, Idle
  <2>. QED
    BY <1>3, <2>2, <2>3
<1>9. CASE Abort(c)
  <2>1. CASE /\ UNCHANGED backendVars
             /\ \/ UNCHANGED poolVars \/ Withdraw(c) \/ \E b \in Conns : DialFail(c, b)
    BY <1>4, <1>6, <2>1, SilentStep
  <2>2. ASSUME NEW b \in Conns, Discard(c, b), Wipe({b}) PROVE CleanContract!ContractNext
    BY <1>2, <2>2 DEF Wipe, SameSession
  <2>. QED
    BY <1>9, <2>1, <2>2 DEF Abort
<1>. QED
  BY <1>1, <1>5, <1>7, <1>8, <1>9 DEF ClientStep, PoolServes, DialEnds

\* So is every step of PostgreSQL and of a cancel.
LEMMA ServerContract ==
  ASSUME CleanInv, CleanInv',
         \/ \E b \in Conns : Execute(b) \/ ExecuteFails(b) \/ Notify(b) \/ Crash(b)
         \/ \E k \in inflight : CancelArrives(k)
  PROVE  CleanContract!ContractNext \/ UNCHANGED CleanContract!contractVars
<1>. USE DEF CleanInv, TaskInv
<1>1. Holder' = Holder /\ resets' = resets
  BY ServerFrame DEF poolVars, taskVars, shared, Holder
<1>2. ASSUME NEW b \in Conns, \A d \in Conns \ {b} : SameSession(d)
      PROVE  CleanContract!ContractNext \/ UNCHANGED CleanContract!contractVars
  BY <1>1, <1>2, CleanUse DEF CleanContract!ContractNext
<1>3. ASSUME NEW b \in Conns, Interrupt(b) PROVE \A d \in Conns \ {b} : SameSession(d)
  BY <1>3 DEF Interrupt, SameSession, TypeOK
<1>4. ASSUME NEW b \in Conns, Execute(b) \/ Notify(b) \/ Crash(b)
      PROVE  \A d \in Conns \ {b} : SameSession(d)
  BY <1>4 DEF Execute, Notify, Crash, SameSession, TypeOK
<1>5. ASSUME NEW k \in inflight, CancelArrives(k)
      PROVE  CleanContract!ContractNext \/ UNCHANGED CleanContract!contractVars
  <2>1. k.target \in Conns
    BY DEF TypeOK, CancelTypeOK, CancelRequests
  <2>2. \A d \in Conns \ {k.target} : SameSession(d)
    BY <1>3, <1>5, <2>1 DEF CancelArrives, SameSession, backendVars
  <2>. QED
    BY <1>2, <2>1, <2>2
<1>. QED
  BY <1>2, <1>3, <1>4, <1>5 DEF ExecuteFails

\* The pooled forwarder implements the lease contract: a backend serves one
\* client, a client one backend, at most MaxSize are in use, and a backend
\* changes hands clean.
THEOREM PooledRefinement ==
  ASSUME MaxPipeline = 1 PROVE Spec => ImplementsContract
<1>1. Init => CleanContract!ContractInit
  <2>. SUFFICES ASSUME Init PROVE CleanContract!ContractInit
    OBVIOUS
  <2>1. Dirty = {}
    BY NoFrames DEF Init, Dirty, Pristine
  <2>. QED
    BY <2>1 DEF Init, PoolInit, Holder, CleanContract!ContractInit, Dirty
<1>2. CleanInv /\ CleanInv' /\ [Next]_vars => [CleanContract!ContractNext]_(CleanContract!contractVars)
  <2>. SUFFICES ASSUME CleanInv, CleanInv', [Next]_vars
                PROVE  CleanContract!ContractNext \/ UNCHANGED CleanContract!contractVars
    OBVIOUS
  <2>1. CASE UNCHANGED vars
    <3>1. Dirty' = Dirty /\ Holder' = Holder
      BY <2>1 DEF vars, backendVars, taskVars, poolVars, shared, Dirty, Pristine, Holder
    <3>. QED
      BY <3>1 DEF CleanContract!contractVars, Dirty
  <2>2. CASE Next
    BY <2>2, ClientContract, ServerContract DEF Next, ClientStep
  <2>. QED
    BY <2>1, <2>2
<1>3. Spec => []CleanInv
  BY PooledClean
<1>. QED
  BY <1>1, <1>2, <1>3, PTL DEF Spec, ImplementsContract, CleanContract!ContractSpec
-----------------------------------------------------------------------------
(* No answer gets lost: the queries a client waits for are counted in its     *)
(* inbox, on its backend's connection and nowhere else.                       *)

\* The requests and the replies that Owed counts.
QueriesOf(c) == {[from |-> c, kind |-> "query"]}
StatusesTo(c) == {r \in Replies : r.to = c /\ r.tag \in Statuses}

\* What client c waits for, by where its task is.
AnswerOK(c) ==
  /\ pc[c] \in {"off", "params", "probe", "synth"} => inbox[c] = <<>> /\ unanswered[c] = 0
  /\ pc[c] \in {"ready", "leasing", "boundary", "reset", "released"} => unanswered[c] = Unsent(c)
  /\ pc[c] \in {"forward", "relay", "copy", "draining"} =>
        ~alive[slot[c]] \/ unanswered[c] = Unsent(c) + Owed(c, slot[c])

\* The inductive invariant.
AnswerInv == CleanInv /\ \A c \in Clients : AnswerOK(c)

\* Unsent and Owed count frames.
LEMMA Counts ==
  ASSUME TypeOK, NEW c \in Clients, NEW b \in Conns
  PROVE  /\ Unsent(c) = CountIn(inbox[c], {"query"}) /\ Unsent(c) \in Nat
         /\ Owed(c, b) = CountIn(inq[b], QueriesOf(c)) + CountIn(outq[b], StatusesTo(c))
         /\ CountIn(inq[b], QueriesOf(c)) \in Nat /\ CountIn(outq[b], StatusesTo(c)) \in Nat
<1>1. inbox[c] \in Seq(ClientFrames) /\ inq[b] \in Seq(Requests) /\ outq[b] \in Seq(Replies)
  BY DEF TypeOK
<1>2. {i \in DOMAIN inbox[c] : inbox[c][i] = "query"} =
      {i \in DOMAIN inbox[c] : inbox[c][i] \in {"query"}}
  OBVIOUS
<1>3. {i \in DOMAIN inq[b] : inq[b][i] = [from |-> c, kind |-> "query"]} =
      {i \in DOMAIN inq[b] : inq[b][i] \in QueriesOf(c)}
  BY DEF QueriesOf
<1>4. {i \in DOMAIN outq[b] : outq[b][i].to = c /\ outq[b][i].tag \in Statuses} =
      {i \in DOMAIN outq[b] : outq[b][i] \in StatusesTo(c)}
  BY <1>1 DEF StatusesTo
<1>5. Unsent(c) = CountIn(inbox[c], {"query"})
  BY <1>2 DEF Unsent, CountIn
<1>6. Owed(c, b) = CountIn(inq[b], QueriesOf(c)) + CountIn(outq[b], StatusesTo(c))
  BY <1>3, <1>4 DEF Owed, CountIn
<1>. QED
  BY <1>1, <1>5, <1>6, CountType

\* The same after a step.
LEMMA CountsNext ==
  ASSUME TypeOK', NEW c \in Clients, NEW b \in Conns
  PROVE  /\ Unsent(c)' = CountIn(inbox'[c], {"query"})
         /\ Owed(c, b)' = CountIn(inq'[b], QueriesOf(c)) + CountIn(outq'[b], StatusesTo(c))
<1>1. outq'[b] \in Seq(Replies)
  BY DEF TypeOK
<1>2. {i \in DOMAIN inbox'[c] : inbox'[c][i] = "query"} =
      {i \in DOMAIN inbox'[c] : inbox'[c][i] \in {"query"}}
  OBVIOUS
<1>3. {i \in DOMAIN inq'[b] : inq'[b][i] = [from |-> c, kind |-> "query"]} =
      {i \in DOMAIN inq'[b] : inq'[b][i] \in QueriesOf(c)}
  BY DEF QueriesOf
<1>4. {i \in DOMAIN outq'[b] : outq'[b][i].to = c /\ outq'[b][i].tag \in Statuses} =
      {i \in DOMAIN outq'[b] : outq'[b][i] \in StatusesTo(c)}
  BY <1>1 DEF StatusesTo, Statuses
<1>5. Unsent(c)' = CountIn(inbox'[c], {"query"})
  BY <1>2 DEF Unsent, CountIn
<1>. QED
  BY <1>3, <1>4, <1>5 DEF Owed, CountIn

\* Nothing is owed on a connection without queries of c or statuses for it.
LEMMA OwedNone ==
  ASSUME TypeOK, NEW c \in Clients, NEW b \in Conns,
         \/ Pristine(b) \/ Calm(b) \/ Resetting(b)
  PROVE  Owed(c, b) = 0
<1>1. \A i \in DOMAIN inq[b] : inq[b][i].kind # "query"
  <2>. DEFINE q == [from |-> NoClient, kind |-> "reset"]
  <2>1. inq[b] = <<>> \/ inq[b] = <<q>>
    BY DEF Pristine, Calm, Resetting
  <2>2. q.kind # "query"
    OBVIOUS
  <2>. HIDE DEF q
  <2>. QED
    BY <2>1, <2>2, NoFrames
<1>2. \A i \in DOMAIN outq[b] : ~(outq[b][i].to = c /\ outq[b][i].tag \in Statuses)
  BY PoolAssumption DEF Pristine, Calm, Notices, Resetting, Statuses
<1>3. CountIn(inq[b], QueriesOf(c)) = 0
  BY <1>1, CountNone DEF QueriesOf
<1>4. CountIn(outq[b], StatusesTo(c)) = 0
  BY <1>2, CountNone DEF StatusesTo
<1>. QED
  BY <1>3, <1>4, Counts
-----------------------------------------------------------------------------
(* The other clients *)

\* The session behind connection d is not touched, and its backend lives on.
SameBackend(d) == SameSession(d) /\ alive'[d] = alive[d]

\* What a client waits for depends on its task, its slot and its backend, which
\* may also die.
LEMMA AnswerFrame ==
  ASSUME TypeOK, NEW e \in Clients, AnswerOK(e), SameTask(e), slot'[e] = slot[e],
         pc[e] \in {"forward", "relay", "copy", "draining"} =>
            ~alive'[slot[e]] \/ SameBackend(slot[e])
  PROVE  AnswerOK(e)'
<1>1. Unsent(e)' = Unsent(e)
  BY DEF Unsent, SameTask
<1>2. SameBackend(slot[e]) => Owed(e, slot[e])' = Owed(e, slot[e])
  BY DEF SameBackend, SameSession, Owed
<1>. QED
  BY <1>1, <1>2 DEF AnswerOK, SameTask, SameBackend

\* A client's step leaves the backends of the others alone.
LEMMA ForeignBackend ==
  ASSUME TaskInv, NEW c \in Clients, ClientStep(c), NEW d \in Conns,
         cstate[d] = "leased", ~Holds(c, d)
  PROVE  SameBackend(d)
<1>. USE DEF TaskInv, SameBackend, SameSession
<1>1. UNCHANGED backendVars => SameBackend(d)
  BY DEF backendVars
<1>2. ASSUME NEW gone, d \notin gone, Wipe(gone) PROVE SameBackend(d)
  BY <1>2 DEF Wipe
<1>3. CASE \/ Connect(c) \/ ClientHangup(c) \/ (\E k \in ClientFrames : ClientSend(c, k))
           \/ TaskAlone(c) \/ AwaitPermit(c) \/ DialEnds(c) \/ CancelRequest(c)
           \/ \E b \in Conns : AwaitReuse(c, b)
  BY <1>1, <1>3 DEF Connect, ClientHangup, ClientSend, TaskAlone, RejectPassThrough, ParamsHit,
     ParamsMiss, Synthesize, ReadEnd, StartLease, ClearHandle, EndSession, AwaitPermit, DialEnds,
     AwaitDial, LeaseFails, CancelRequest, AwaitReuse
<1>4. ASSUME NEW b \in Conns, NEW gone \in Victims, AwaitCreate(c, b, gone) PROVE SameBackend(d)
  <2>1. d \notin gone
    BY <1>4 DEF AwaitCreate, Create, Room, Idle
  <2>. QED
    BY <1>2, <1>4, <2>1 DEF AwaitCreate
<1>5. ASSUME NEW b \in Conns, Discard(c, b), Wipe({b}) PROVE SameBackend(d)
  <2>1. d # b
    BY <1>5 DEF Discard, Holds
  <2>. QED
    BY <1>2, <1>5, <2>1
<1>6. CASE Abort(c)
  BY <1>1, <1>5, <1>6 DEF Abort
<1>7. ASSUME NEW b \in Conns, TaskOnConn(c, b) PROVE SameBackend(d)
  <2>1. Holds(c, b) /\ d # b
    BY <1>7, OnConnFrame
  <2>2. SameSession(d)
    BY <1>7, <2>1, OnConnFrame
  <2>3. CASE \/ ForwardFails(c, b) \/ RelayUnfinished(c, b) \/ RelayGone(c, b)
             \/ RelayFails(c, b) \/ ResetFails(c, b) \/ CopyDiscard(c, b)
    BY <1>5, <2>3 DEF ForwardFails, RelayUnfinished, RelayGone, RelayFails, ResetFails,
       CopyDiscard, Abandon
  <2>4. CASE ~(\/ ForwardFails(c, b) \/ RelayUnfinished(c, b) \/ RelayGone(c, b)
               \/ RelayFails(c, b) \/ ResetFails(c, b) \/ CopyDiscard(c, b))
    <3>1. alive' = alive
      BY <1>7, <2>4 DEF TaskOnConn, ParamsCapture, Leased, ForwardFirst, RelayReply, RelayFrame,
         CheckinAsIs, SendReset, ResetSkip, ResetDone, CopyToBackend, CopyToClient, CopyHalfClose,
         CopyEnds, Forward, Write, Deliver, TakeReply, backendVars
    <3>. QED
      BY <2>2, <3>1
  <2>. QED
    BY <2>3, <2>4
<1>. QED
  BY <1>3, <1>4, <1>6, <1>7 DEF ClientStep, PoolServes

\* A client's step leaves the answers of the others where they are.
LEMMA OtherAnswers ==
  ASSUME AnswerInv, NEW c \in Clients, ClientStep(c), NEW e \in Clients, e # c
  PROVE  AnswerOK(e)'
<1>. USE DEF AnswerInv, CleanInv, TaskInv
<1>1. SameTask(e) /\ slot'[e] = slot[e]
  BY TaskOthers DEF SameTask
<1>2. ASSUME pc[e] \in {"forward", "relay", "copy", "draining"} PROVE SameBackend(slot[e])
  <2>1. slot[e] \in Conns /\ Holds(e, slot[e])
    BY <1>2 DEF TaskOK, SlotOK, Tracked
  <2>. QED
    BY <2>1, ForeignBackend DEF Holds
<1>. QED
  BY <1>1, <1>2, AnswerFrame
-----------------------------------------------------------------------------
(* A client's own steps *)

\* An empty inbox holds no query.
LEMMA UnsentNone ==
  ASSUME NEW c \in Clients
  PROVE  /\ inbox[c] = <<>> => Unsent(c) = 0
         /\ inbox'[c] = <<>> => Unsent(c)' = 0
<1>1. inbox[c] = <<>> => {i \in DOMAIN inbox[c] : inbox[c][i] = "query"} = {}
  BY NoFrames
<1>2. inbox'[c] = <<>> => {i \in DOMAIN inbox'[c] : inbox'[c][i] = "query"} = {}
  BY NoFrames
<1>. QED
  BY <1>1, <1>2, FS_EmptySet DEF Unsent

\* Sending a query is waiting for it.
LEMMA SendAnswer ==
  ASSUME AnswerInv, CleanInv', NEW c \in Clients, NEW k \in ClientFrames, ClientSend(c, k)
  PROVE  AnswerOK(c)'
<1>. USE DEF AnswerInv, CleanInv, TaskInv
<1>1. /\ inbox[c] \in Seq(ClientFrames) /\ inbox'[c] = Append(inbox[c], k)
      /\ unanswered'[c] = (IF k = "query" THEN unanswered[c] + 1 ELSE unanswered[c])
      /\ unanswered[c] \in Nat /\ pc' = pc /\ slot' = slot /\ UNCHANGED backendVars /\ Serving(c)
  BY ForwarderAssumption DEF ClientSend, TypeOK, registryVars
<1>2. Unsent(c) \in Nat /\ Unsent(c) = CountIn(inbox[c], {"query"})
  <2>1. {i \in DOMAIN inbox[c] : inbox[c][i] = "query"} =
        {i \in DOMAIN inbox[c] : inbox[c][i] \in {"query"}}
    OBVIOUS
  <2>. QED
    BY <1>1, <2>1, CountType DEF Unsent, CountIn
<1>3. Unsent(c)' = CountIn(inbox'[c], {"query"})
  <2>1. {i \in DOMAIN inbox'[c] : inbox'[c][i] = "query"} =
        {i \in DOMAIN inbox'[c] : inbox'[c][i] \in {"query"}}
    OBVIOUS
  <2>. QED
    BY <2>1 DEF Unsent, CountIn
<1>4. Unsent(c)' = (IF k = "query" THEN Unsent(c) + 1 ELSE Unsent(c))
  BY <1>1, <1>2, <1>3, CountAppend
<1>5. pc[c] \notin {"off", "params", "probe", "synth"}
  BY <1>1 DEF Serving
<1>6. ASSUME pc[c] \in {"forward", "relay", "copy", "draining"}, alive'[slot'[c]]
      PROVE  unanswered'[c] = Unsent(c)' + Owed(c, slot[c])'
  <2>1. slot[c] \in Conns
    BY <1>6 DEF TaskOK, SlotOK, Tracked
  <2>2. Owed(c, slot[c])' = Owed(c, slot[c]) /\ Owed(c, slot[c]) \in Nat
    BY <1>1, <2>1, Counts DEF Owed, backendVars
  <2>3. unanswered[c] = Unsent(c) + Owed(c, slot[c])
    BY <1>1, <1>6 DEF AnswerOK, backendVars
  <2>. QED
    BY <1>1, <1>2, <1>4, <2>2, <2>3
<1>. QED
  BY <1>1, <1>2, <1>4, <1>5, <1>6 DEF AnswerOK

\* A task that leases nothing, asks, waits or is over.
LEMMA AloneAnswer ==
  ASSUME AnswerInv, NEW c \in Clients,
         \/ Connect(c) \/ ClientHangup(c) \/ TaskAlone(c) \/ CancelRequest(c) \/ Abort(c)
         \/ AwaitPermit(c) \/ PoolServes(c) \/ DialEnds(c)
  PROVE  AnswerOK(c)'
<1>. USE DEF AnswerInv, CleanInv, TaskInv
<1>1. CASE \/ Connect(c) \/ RejectPassThrough(c) \/ ParamsHit(c) \/ ParamsMiss(c) \/ Synthesize(c)
           \/ ReadEnd(c) \/ StartLease(c) \/ ClearHandle(c)
  <2>1. inbox'[c] = inbox[c] /\ unanswered'[c] = unanswered[c] /\ Unsent(c)' = Unsent(c)
    BY <1>1 DEF Connect, RejectPassThrough, ParamsHit, ParamsMiss, Synthesize, ReadEnd, StartLease,
       ClearHandle, Move, Unsent
  <2>2. \/ pc[c] \in {"off", "params", "synth"} /\ pc'[c] \in {"params", "synth", "probe"}
        \/ pc[c] = "synth" /\ pc'[c] = "ready"
        \/ pc[c] \in {"ready", "released"} /\ pc'[c] \in {"ready", "leasing"}
        \/ pc'[c] = "closing"
    BY <1>1 DEF Connect, RejectPassThrough, ParamsHit, ParamsMiss, Synthesize, ReadEnd, StartLease,
       ClearHandle, Move, TypeOK
  <2>. QED
    BY <2>1, <2>2, UnsentNone DEF AnswerOK
<1>2. CASE EndSession(c) \/ Abort(c)
  <2>1. pc'[c] \in {"off", "dropped"} /\ inbox'[c] = <<>> /\ unanswered'[c] = 0
    BY <1>2 DEF EndSession, Abort, Finish, CloseClient, TypeOK
  <2>. QED
    BY <2>1 DEF AnswerOK
<1>3. CASE ClientHangup(c) \/ CancelRequest(c)
  <2>1. SameTask(c) /\ slot' = slot /\ UNCHANGED backendVars
    BY <1>3 DEF ClientHangup, CancelRequest, Cancel, SameTask, registryVars, taskVars
  <2>. QED
    BY <2>1, AnswerFrame DEF SameBackend, SameSession, backendVars
<1>4. CASE AwaitPermit(c) \/ PoolServes(c) \/ DialEnds(c)
  <2>0. stage[c] \in {"waiting", "permit", "dialing"}
    BY <1>4 DEF AwaitPermit, Acquire, PoolServes, AwaitReuse, Reuse, AwaitCreate, Create, DialEnds,
       AwaitDial, DialOk, LeaseFails, DialFail
  <2>1. pc[c] \in {"probe", "leasing"}
    BY <2>0, Awaiting
  <2>2. (SameTask(c) /\ slot' = slot) \/ pc'[c] = "closing"
    BY <1>4 DEF AwaitPermit, PoolServes, AwaitReuse, AwaitCreate, DialEnds, AwaitDial, LeaseFails,
       Move, SameTask, taskVars, registryVars, TypeOK
  <2>3. SameTask(c) /\ slot' = slot => AnswerOK(c)'
    BY <2>1, AnswerFrame
  <2>. QED
    BY <2>2, <2>3 DEF AnswerOK
<1>. QED
  BY <1>1, <1>2, <1>3, <1>4 DEF TaskAlone

\* The slot names the backend that the task has.
LEMMA SlotIs ==
  ASSUME TaskInv, NEW c \in Clients, NEW b \in Conns, Holds(c, b), pc[c] \in Tracked
  PROVE  slot[c] = b
<1>1. slot[c] \in Conns /\ Holds(c, slot[c])
  BY DEF TaskInv, TaskOK, SlotOK
<1>. QED
  BY <1>1, HolderFacts

\* A query forwarded is no longer unsent, and owed instead.
LEMMA ForwardAnswer ==
  ASSUME AnswerInv, CleanInv', NEW c \in Clients, NEW b \in Conns,
         ForwardFirst(c, b) \/ RelayFrame(c, b) \/ CopyToBackend(c, b)
  PROVE  AnswerOK(c)'
<1>. USE DEF AnswerInv, CleanInv, TaskInv
<1>. DEFINE k == Head(inbox[c])
            r == [from |-> c, kind |-> k]
<1>1. /\ Holds(c, b) /\ inbox[c] # <<>> /\ inbox'[c] = Tail(inbox[c])
      /\ pc[c] \in {"forward", "relay", "copy"} /\ pc'[c] \in {"relay", "copy"}
      /\ unanswered' = unanswered /\ slot' = slot /\ alive' = alive
      /\ inq'[b] = (IF alive[b] THEN Append(inq[b], r) ELSE inq[b]) /\ outq'[b] = outq[b]
  BY DEF ForwardFirst, RelayFrame, CopyToBackend, Forward, Write, registryVars, TypeOK
<1>2. inbox[c] \in Seq(ClientFrames) /\ inq[b] \in Seq(Requests)
  BY DEF TypeOK
<1>3. k \in ClientFrames
  BY <1>1, <1>2
<1>4. r \in Requests /\ (r \in QueriesOf(c) <=> k = "query")
  <2>1. r \in Requests /\ r.kind = k
    BY <1>3 DEF Requests
  <2>2. r \in QueriesOf(c) => r.kind = "query"
    BY DEF QueriesOf
  <2>3. k = "query" => r \in QueriesOf(c)
    BY DEF QueriesOf
  <2>. QED
    BY <2>1, <2>2, <2>3
<1>5. slot[c] = b
  BY <1>1, SlotIs DEF Tracked
<1>. HIDE DEF r, k
<1>6. CASE ~alive[b]
  BY <1>1, <1>5, <1>6 DEF AnswerOK
<1>7. CASE alive[b]
  <2>1. unanswered[c] = Unsent(c) + Owed(c, b)
    BY <1>1, <1>5, <1>7 DEF AnswerOK
  <2>2. Unsent(c) = Unsent(c)' + (IF k = "query" THEN 1 ELSE 0) /\ Unsent(c)' \in Nat
    <3>1. CountIn(Tail(inbox[c]), {"query"}) \in Nat
      BY <1>1, <1>2, TailFacts, CountType
    <3>. QED
      BY <1>1, <1>2, <3>1, CountTail, Counts, CountsNext DEF k
  <2>3. Owed(c, b)' = Owed(c, b) + (IF k = "query" THEN 1 ELSE 0) /\ Owed(c, b) \in Nat
    <3>1. inq'[b] = Append(inq[b], r)
      BY <1>1, <1>7
    <3>2. CountIn(inq'[b], QueriesOf(c)) =
          CountIn(inq[b], QueriesOf(c)) + (IF k = "query" THEN 1 ELSE 0)
      BY <1>2, <1>4, <3>1, CountAppend, Counts
    <3>3. outq'[b] = outq[b]
      BY <1>1
    <3>. QED
      BY <3>2, <3>3, Counts, CountsNext
  <2>4. unanswered'[c] = Unsent(c)' + Owed(c, b)'
    BY <1>1, <2>1, <2>2, <2>3
  <2>. QED
    BY <1>1, <1>5, <2>4 DEF AnswerOK
<1>. QED
  BY <1>6, <1>7

\* A ReadyForQuery delivered is no longer owed, nor waited for.
LEMMA DeliverAnswer ==
  ASSUME AnswerInv, CleanInv', NEW c \in Clients, NEW b \in Conns,
         RelayReply(c, b) \/ CopyToClient(c, b)
  PROVE  AnswerOK(c)'
<1>. USE DEF AnswerInv, CleanInv, TaskInv
<1>. DEFINE f == Head(outq[b])
<1>1. /\ Holds(c, b) /\ TakeReply(b) /\ Answer(c, f) /\ pc[c] \in {"relay", "copy", "draining"}
      /\ inbox' = inbox /\ slot' = slot /\ alive' = alive
      /\ inq'[b] = inq[b] /\ outq'[b] = Tail(outq[b]) /\ outq[b] # <<>>
      /\ pc'[c] \in {pc[c], "boundary"}
      /\ pc'[c] = "boundary" => pc[c] = "relay" /\ f.tag = "I"
  BY DEF RelayReply, CopyToClient, Deliver, TakeReply, registryVars, TypeOK
<1>2. outq[b] \in Seq(Replies) /\ unanswered[c] \in Nat
  BY ForwarderAssumption DEF TypeOK
<1>3. f \in Replies
  BY <1>1, <1>2
<1>4. slot[c] = b
  BY <1>1, SlotIs DEF Tracked
<1>5. f \in StatusesTo(c) <=> f.tag \in Statuses
  <2>1. Own(c, b)
    BY <1>1 DEF ConnOK, HeldOK, Holds, Relaying
  <2>2. f.to = c \/ f.tag = "notice"
    BY <1>1, <2>1, TakeFacts DEF Own
  <2>. QED
    BY <1>3, <2>2 DEF StatusesTo, Statuses
<1>6. Unsent(c)' = Unsent(c) /\ Unsent(c) \in Nat
  BY <1>1, Counts DEF Unsent
<1>7. CASE pc'[c] = "boundary"
  <2>1. Relaying(c, b) /\ f.tag \in Statuses
    BY <1>1, <1>7 DEF ConnOK, HeldOK, Holds, Statuses
  <2>2. InFlight(b)
    BY <1>1, <2>1, TakeFacts DEF InFlight
  <2>3. inbox[c] = <<>> /\ unanswered[c] = 1
    BY <2>1, <2>2 DEF Relaying
  <2>4. unanswered'[c] = 0
    BY <1>1, <2>1, <2>3 DEF Answer, TypeOK
  <2>5. Unsent(c)' = 0
    BY <1>1, <2>3, UnsentNone
  <2>. QED
    BY <1>7, <2>4, <2>5 DEF AnswerOK
<1>8. CASE pc'[c] = pc[c] /\ ~alive[b]
  BY <1>1, <1>4, <1>8 DEF AnswerOK
<1>9. CASE pc'[c] = pc[c] /\ alive[b]
  <2>1. unanswered[c] = Unsent(c) + Owed(c, b)
    BY <1>1, <1>4, <1>9 DEF AnswerOK
  <2>2. CountIn(Tail(outq[b]), StatusesTo(c)) \in Nat
    BY <1>1, <1>2, TailFacts, CountType
  <2>3. Owed(c, b) = Owed(c, b)' + (IF f.tag \in Statuses THEN 1 ELSE 0) /\ Owed(c, b)' \in Nat
    BY <1>1, <1>2, <1>5, <2>2, CountTail, Counts, CountsNext
  <2>4. unanswered'[c] = unanswered[c] - (IF f.tag \in Statuses THEN 1 ELSE 0)
    BY <1>1, <1>2, <1>6, <2>1, <2>3 DEF Answer, TypeOK
  <2>5. unanswered'[c] = Unsent(c)' + Owed(c, b)'
    BY <1>6, <2>1, <2>3, <2>4
  <2>. QED
    BY <1>1, <1>4, <1>9, <2>5 DEF AnswerOK
<1>. QED
  BY <1>1, <1>7, <1>8, <1>9

\* The other steps of a task on its connection.
LEMMA OnConnAnswer ==
  ASSUME AnswerInv, CleanInv', NEW c \in Clients, NEW b \in Conns, TaskOnConn(c, b)
  PROVE  AnswerOK(c)'
<1>. USE DEF AnswerInv, CleanInv, TaskInv
<1>0. Holds(c, b) /\ HeldOK(c, b)
  <2>1. Holds(c, b)
    BY OnConnFrame
  <2>. QED
    BY <2>1 DEF ConnOK, Holds
<1>1. CASE ParamsCapture(c, b)
  <2>1. /\ pc[c] = "probe" /\ pc'[c] = "synth" /\ inbox' = inbox /\ unanswered' = unanswered
    BY <1>1 DEF ParamsCapture, TypeOK
  <2>. QED
    BY <2>1 DEF AnswerOK
<1>2. CASE Leased(c, b)
  <2>1. /\ pc[c] = "leasing" /\ pc'[c] \in {"copy", "forward"} /\ inbox' = inbox
        /\ unanswered' = unanswered /\ slot'[c] = b /\ UNCHANGED backendVars
    BY <1>2 DEF Leased, UseLease, Move, SetTarget, TypeOK, CancelTypeOK
  <2>2. Owed(c, b) = 0
    BY <1>0, <2>1, OwedNone DEF HeldOK
  <2>3. Owed(c, b)' = 0 /\ Unsent(c)' = Unsent(c)
    BY <2>1, <2>2 DEF Owed, Unsent, backendVars
  <2>4. unanswered[c] = Unsent(c) /\ Unsent(c) \in Nat
    BY <2>1, Counts DEF AnswerOK
  <2>. QED
    BY <2>1, <2>3, <2>4 DEF AnswerOK
<1>3. CASE CheckinAsIs(c, b) \/ SendReset(c, b) \/ ResetSkip(c, b) \/ ResetDone(c, b)
           \/ ResetFails(c, b)
  <2>1. /\ pc[c] \in {"boundary", "reset"} /\ pc'[c] \in {"reset", "released"}
        /\ inbox' = inbox /\ unanswered' = unanswered
    BY <1>3 DEF CheckinAsIs, SendReset, ResetSkip, ResetDone, ResetFails, Abandon, Move, taskVars,
       TypeOK
  <2>2. Unsent(c)' = Unsent(c)
    BY <2>1 DEF Unsent
  <2>. QED
    BY <2>1, <2>2 DEF AnswerOK
<1>4. CASE RelayUnfinished(c, b)
  <2>1. /\ pc[c] = "relay" /\ pc'[c] = "released" /\ inbox' = inbox /\ outq[b] # <<>>
        /\ Head(outq[b]).tag \in Statuses /\ Answer(c, Head(outq[b]))
    BY <1>4 DEF RelayUnfinished, Unfinished, Abandon, Statuses, TypeOK
  <2>2. outq[b] \in Seq(Replies) /\ Relaying(c, b)
    BY <1>0, <2>1 DEF TypeOK, HeldOK
  <2>3. InFlight(b)
    BY <2>1, <2>2, TailFacts DEF InFlight
  <2>4. inbox[c] = <<>> /\ unanswered[c] = 1
    BY <2>2, <2>3 DEF Relaying
  <2>5. unanswered'[c] = 0
    BY <2>1, <2>4 DEF Answer, TypeOK
  <2>6. Unsent(c)' = 0
    BY <2>1, <2>4, UnsentNone
  <2>. QED
    BY <2>1, <2>5, <2>6 DEF AnswerOK
<1>5. CASE \/ ForwardFails(c, b) \/ RelayGone(c, b) \/ RelayFails(c, b) \/ CopyDiscard(c, b)
           \/ CopyEnds(c, b)
  <2>1. pc'[c] \in {"failed", "closing", "drop"}
    BY <1>5 DEF ForwardFails, RelayGone, RelayFails, CopyDiscard, CopyEnds, Abandon, Move, TypeOK
  <2>. QED
    BY <2>1 DEF AnswerOK
<1>6. CASE CopyHalfClose(c, b)
  <2>. DEFINE r == [from |-> c, kind |-> "terminate"]
  <2>1. /\ pc[c] = "copy" /\ pc'[c] = "draining" /\ inbox' = inbox /\ unanswered' = unanswered
        /\ slot' = slot /\ alive' = alive /\ outq' = outq
        /\ inq'[b] = inq[b] \/ inq'[b] = Append(inq[b], r)
    BY <1>6 DEF CopyHalfClose, Move, Write, registryVars, TypeOK
  <2>2. inq[b] \in Seq(Requests) /\ r \in Requests
    BY DEF TypeOK, Requests, ClientFrames
  <2>3. r \notin QueriesOf(c)
    <3>1. r.kind # "query" /\ \A q \in QueriesOf(c) : q.kind = "query"
      BY DEF QueriesOf
    <3>. QED
      BY <3>1
  <2>. HIDE DEF r
  <2>4. CountIn(inq'[b], QueriesOf(c)) = CountIn(inq[b], QueriesOf(c))
    <3>1. CASE inq'[b] = inq[b]
      BY <3>1
    <3>2. CASE inq'[b] = Append(inq[b], r)
      BY <2>2, <2>3, <3>2, CountAppend
    <3>. QED
      BY <2>1, <3>1, <3>2
  <2>5. Owed(c, b)' = Owed(c, b)
    BY <2>1, <2>4, Counts, CountsNext
  <2>6. Unsent(c)' = Unsent(c)
    BY <2>1 DEF Unsent
  <2>7. slot[c] = b
    BY <1>0, <2>1, SlotIs DEF Tracked
  <2>. QED
    BY <2>1, <2>5, <2>6, <2>7 DEF AnswerOK
<1>. QED
  BY <1>1, <1>2, <1>3, <1>4, <1>5, <1>6, ForwardAnswer, DeliverAnswer DEF TaskOnConn
-----------------------------------------------------------------------------
(* PostgreSQL *)

\* What a client waits for, if its backend moves queries to answers one by one.
LEMMA WorkedAnswer ==
  ASSUME AnswerInv, ServerOnly, slot' = slot, NEW b \in Conns,
         \A d \in Conns \ {b} : SameBackend(d),
         \/ ~alive'[b]
         \/ /\ alive'[b] = alive[b]
            /\ \A c \in Clients : Holds(c, b) /\ HeldOK(c, b)
                 /\ pc[c] \in {"forward", "relay", "copy", "draining"} =>
                      Owed(c, b)' = Owed(c, b),
         NEW e \in Clients
  PROVE  AnswerOK(e)'
<1>. USE DEF AnswerInv, CleanInv, TaskInv
<1>1. SameTask(e) /\ slot'[e] = slot[e] /\ Unsent(e)' = Unsent(e)
  BY DEF ServerOnly, taskVars, SameTask, Unsent
<1>2. CASE pc[e] \notin {"forward", "relay", "copy", "draining"}
  BY <1>1, <1>2, AnswerFrame
<1>3. CASE pc[e] \in {"forward", "relay", "copy", "draining"}
  <2>1. slot[e] \in Conns /\ Holds(e, slot[e])
    BY <1>3 DEF TaskOK, SlotOK, Tracked
  <2>2. CASE slot[e] # b \/ ~alive'[b]
    BY <1>1, <2>1, <2>2, AnswerFrame
  <2>3. CASE slot[e] = b /\ alive'[b]
    <3>1. HeldOK(e, b)
      BY <2>1, <2>3 DEF ConnOK, Holds
    <3>2. Owed(e, b)' = Owed(e, b) /\ alive'[b] = alive[b]
      BY <1>3, <2>1, <2>3, <3>1
    <3>. QED
      BY <1>1, <1>3, <2>3, <3>2 DEF AnswerOK, SameTask
  <2>. QED
    BY <2>2, <2>3
<1>. QED
  BY <1>2, <1>3

\* An answered query is owed as a ReadyForQuery.
LEMMA MovedQuery ==
  ASSUME AnswerInv, CleanInv', NEW b \in Conns, inq[b] # <<>>, inq'[b] = Tail(inq[b]),
         NEW first \in {"data", "error"}, NEW st \in Statuses,
         Head(inq[b]).kind \in {"query", "reset"},
         outq'[b] = outq[b] \o <<Reply(Head(inq[b]).from, first), Reply(Head(inq[b]).from, st)>>,
         NEW c \in Clients, HeldOK(c, b), pc[c] \in {"forward", "relay", "copy", "draining"}
  PROVE  Owed(c, b)' = Owed(c, b)
<1>. USE DEF AnswerInv, CleanInv, TaskInv
<1>. DEFINE r == Head(inq[b])
            x == Reply(r.from, first)
            y == Reply(r.from, st)
<1>1. inq[b] \in Seq(Requests) /\ outq[b] \in Seq(Replies)
  BY DEF TypeOK
<1>2. r \in Requests /\ 1 \in DOMAIN inq[b] /\ r = inq[b][1]
  BY <1>1, TailFacts
<1>3. r.from = c /\ r.kind # "reset"
  BY <1>2 DEF HeldOK, Pristine, Relaying, Own
<1>4. r \in QueriesOf(c)
  BY <1>2, <1>3 DEF QueriesOf, Requests
<1>5. x \in Replies /\ y \in Replies /\ x \notin StatusesTo(c) /\ y \in StatusesTo(c)
  BY <1>2, <1>3 DEF Requests, Replies, Reply, StatusesTo, Statuses
<1>6. outq'[b] = Append(Append(outq[b], x), y)
  BY <1>1, <1>5, TwoAppends
<1>. HIDE DEF r, x, y
<1>7. CountIn(outq'[b], StatusesTo(c)) = CountIn(outq[b], StatusesTo(c)) + 1
  <2>. DEFINE p == Append(outq[b], x)
  <2>1. p \in Seq(Replies)
    BY <1>1, <1>5, AppendFacts
  <2>2. CountIn(p, StatusesTo(c)) = CountIn(outq[b], StatusesTo(c))
    BY <1>1, <1>5, CountAppend
  <2>. HIDE DEF p
  <2>3. CountIn(Append(p, y), StatusesTo(c)) = CountIn(p, StatusesTo(c)) + 1
    BY <1>5, <2>1, CountAppend
  <2>4. outq'[b] = Append(p, y)
    BY <1>6 DEF p
  <2>. QED
    BY <2>2, <2>3, <2>4
<1>8. CountIn(inq[b], QueriesOf(c)) = CountIn(inq'[b], QueriesOf(c)) + 1
  BY <1>1, <1>4, CountTail DEF r
<1>9. CountIn(inq'[b], QueriesOf(c)) \in Nat
  BY <1>1, TailFacts, CountType
<1>10. CountIn(outq[b], StatusesTo(c)) \in Nat
  BY <1>1, CountType
<1>11. Owed(c, b) = CountIn(inq[b], QueriesOf(c)) + CountIn(outq[b], StatusesTo(c))
  BY Counts
<1>12. Owed(c, b)' = CountIn(inq'[b], QueriesOf(c)) + CountIn(outq'[b], StatusesTo(c))
  BY CountsNext
<1>. QED
  BY <1>7, <1>8, <1>9, <1>10, <1>11, <1>12

\* PostgreSQL and the cancels lose no answer of a live backend.
LEMMA ServerAnswers ==
  ASSUME AnswerInv, CleanInv', NEW e \in Clients,
         \/ \E b \in Conns : Execute(b) \/ ExecuteFails(b) \/ Notify(b) \/ Crash(b)
         \/ \E k \in inflight : CancelArrives(k)
  PROVE  AnswerOK(e)'
<1>. USE DEF AnswerInv, CleanInv, TaskInv
<1>0. ServerOnly /\ slot' = slot
  BY ServerFrame DEF ServerOnly
<1>1. ASSUME NEW b \in Conns, Interrupt(b) PROVE AnswerOK(e)'
  <2>. DEFINE st == IF txn[b] = "I" THEN "I" ELSE "E"
  <2>1. /\ inq[b] # <<>> /\ Head(inq[b]).kind \in {"query", "reset"} /\ inq'[b] = Tail(inq[b])
        /\ st \in Statuses /\ alive' = alive
        /\ outq'[b] = outq[b] \o <<Reply(Head(inq[b]).from, "error"), Reply(Head(inq[b]).from, st)>>
    BY <1>1 DEF Interrupt, TypeOK, Statuses
  <2>. HIDE DEF st
  <2>2. \A d \in Conns \ {b} : SameBackend(d)
    BY <1>1 DEF Interrupt, SameBackend, SameSession, TypeOK
  <2>3. \A c \in Clients : HeldOK(c, b) /\ pc[c] \in {"forward", "relay", "copy", "draining"} =>
           Owed(c, b)' = Owed(c, b)
    BY <2>1, MovedQuery
  <2>. QED
    BY <1>0, <2>1, <2>2, <2>3, WorkedAnswer
<1>2. ASSUME NEW b \in Conns, Execute(b) PROVE AnswerOK(e)'
  <2>. DEFINE r == Head(inq[b])
  <2>1. inq[b] # <<>> /\ inq'[b] = Tail(inq[b]) /\ \A d \in Conns \ {b} : SameBackend(d)
    BY <1>2 DEF Execute, SameBackend, SameSession, TypeOK
  <2>2. CASE r.kind = "terminate"
    <3>1. ~alive'[b]
      BY <1>2, <2>2 DEF Execute, TypeOK
    <3>. QED
      BY <1>0, <2>1, <3>1, WorkedAnswer
  <2>3. CASE r.kind \in {"query", "reset"}
    <3>1. alive' = alive /\ \E st \in Statuses :
             outq'[b] = outq[b] \o <<Reply(r.from, "data"), Reply(r.from, st)>>
      <4>1. \A s \in StatusAfter(txn[b]) : s \in Statuses
        BY DEF StatusAfter, Statuses, TypeOK
      <4>2. CASE r.kind = "query"
        <5>1. PICK s \in StatusAfter(txn[b]) :
                 /\ alive' = alive
                 /\ outq' = [outq EXCEPT ![b] = @ \o <<Reply(r.from, "data"), Reply(r.from, s)>>]
          BY <1>2, <4>2 DEF Execute
        <5>2. outq'[b] = outq[b] \o <<Reply(r.from, "data"), Reply(r.from, s)>>
          BY <5>1 DEF TypeOK
        <5>. QED
          BY <4>1, <5>1, <5>2
      <4>3. CASE r.kind = "reset"
        BY <1>2, <4>3 DEF Execute, TypeOK, Statuses
      <4>. QED
        BY <2>3, <4>2, <4>3
    <3>2. \A c \in Clients : HeldOK(c, b) /\ pc[c] \in {"forward", "relay", "copy", "draining"} =>
             Owed(c, b)' = Owed(c, b)
      BY <2>1, <2>3, <3>1, MovedQuery
    <3>. QED
      BY <1>0, <2>1, <3>1, <3>2, WorkedAnswer
  <2>4. CASE r.kind = "part"
    <3>. DEFINE x == Reply(r.from, "data")
    <3>1. inq[b] \in Seq(Requests) /\ outq[b] \in Seq(Replies)
      BY DEF TypeOK
    <3>2. r \in Requests
      BY <2>1, <3>1
    <3>3. x \in Replies /\ \A c \in Clients : x \notin StatusesTo(c) /\ r \notin QueriesOf(c)
      BY <2>4, <3>2 DEF Requests, Replies, Reply, StatusesTo, Statuses, QueriesOf
    <3>4. alive' = alive /\ outq'[b] = Append(outq[b], x)
      BY <1>2, <2>4 DEF Execute, TypeOK
    <3>. HIDE DEF x
    <3>5. ASSUME NEW c \in Clients PROVE Owed(c, b)' = Owed(c, b)
      <4>1. CountIn(inq'[b], QueriesOf(c)) = CountIn(inq[b], QueriesOf(c))
        BY <2>1, <3>1, <3>3, CountTail
      <4>2. CountIn(outq'[b], StatusesTo(c)) = CountIn(outq[b], StatusesTo(c))
        BY <3>1, <3>3, <3>4, CountAppend
      <4>. QED
        BY <4>1, <4>2, Counts, CountsNext
    <3>. QED
      BY <1>0, <2>1, <3>4, <3>5, WorkedAnswer
  <2>. QED
    BY <1>2, <2>2, <2>3, <2>4 DEF Execute
<1>3. ASSUME NEW b \in Conns, Notify(b) PROVE AnswerOK(e)'
  <2>. DEFINE x == Reply(NoClient, "notice")
  <2>1. /\ alive' = alive /\ inq' = inq /\ outq'[b] = Append(outq[b], x)
        /\ outq[b] \in Seq(Replies) /\ \A d \in Conns \ {b} : SameBackend(d)
    BY <1>3 DEF Notify, SameBackend, SameSession, TypeOK
  <2>2. x \in Replies /\ \A c \in Clients : x \notin StatusesTo(c)
    BY DEF Replies, Reply, StatusesTo, Statuses
  <2>. HIDE DEF x
  <2>3. ASSUME NEW c \in Clients PROVE Owed(c, b)' = Owed(c, b)
    <3>1. CountIn(outq'[b], StatusesTo(c)) = CountIn(outq[b], StatusesTo(c))
      BY <2>1, <2>2, CountAppend
    <3>. QED
      BY <2>1, <3>1, Counts, CountsNext
  <2>. QED
    BY <1>0, <2>1, <2>3, WorkedAnswer
<1>4. ASSUME NEW b \in Conns, Crash(b) PROVE AnswerOK(e)'
  <2>1. ~alive'[b] /\ \A d \in Conns \ {b} : SameBackend(d)
    BY <1>4 DEF Crash, SameBackend, SameSession, TypeOK
  <2>. QED
    BY <1>0, <2>1, WorkedAnswer
<1>5. ASSUME NEW k \in inflight, CancelArrives(k) PROVE AnswerOK(e)'
  <2>1. k.target \in Conns
    BY DEF TypeOK, CancelTypeOK, CancelRequests
  <2>2. CASE UNCHANGED backendVars
    <3>1. \A d : SameBackend(d)
      BY <2>2 DEF SameBackend, SameSession, backendVars
    <3>2. SameTask(e) /\ slot'[e] = slot[e]
      BY <1>0 DEF ServerOnly, taskVars, SameTask
    <3>. QED
      BY <3>1, <3>2, AnswerFrame
  <2>. QED
    BY <1>1, <1>5, <2>1, <2>2 DEF CancelArrives
<1>. QED
  BY <1>1, <1>2, <1>3, <1>4, <1>5 DEF ExecuteFails
-----------------------------------------------------------------------------
(* The theorems *)

\* Every step preserves the invariant.
LEMMA AnswerStep ==
  ASSUME MaxPipeline = 1 PROVE AnswerInv /\ [Next]_vars => AnswerInv'
<1>. SUFFICES ASSUME AnswerInv, [Next]_vars PROVE AnswerInv'
  OBVIOUS
<1>1. CleanInv'
  BY CleanStep DEF AnswerInv
<1>2. ASSUME NEW c \in Clients, ClientStep(c), NEW e \in Clients PROVE AnswerOK(e)'
  <2>1. AnswerOK(c)'
    BY <1>1, <1>2, SendAnswer, AloneAnswer, OnConnAnswer DEF ClientStep
  <2>. QED
    BY <1>2, <2>1, OtherAnswers
<1>3. ASSUME UNCHANGED vars, NEW e \in Clients PROVE AnswerOK(e)'
  BY <1>3 DEF AnswerInv, AnswerOK, Unsent, Owed, vars, registryVars, taskVars, backendVars
<1>. QED
  BY <1>1, <1>2, <1>3, ServerAnswers DEF AnswerInv, Next, ClientStep

\* It holds when nobody is connected yet.
LEMMA AnswerInit == Init => AnswerInv
<1>. SUFFICES ASSUME Init PROVE AnswerInv
  OBVIOUS
<1>1. ASSUME NEW c \in Clients PROVE AnswerOK(c)
  BY DEF Init, AnswerOK
<1>. QED
  BY <1>1, CleanInit DEF AnswerInv

\* What a client waits for is in its inbox, at its live backend or on its way
\* back, in every reachable state: no step of the relay, of a reset, of a cancel
\* or of PostgreSQL drops a query or makes up an answer.
THEOREM PooledNothingLost ==
  ASSUME MaxPipeline = 1 PROVE Spec => []NothingLost
<1>1. AnswerInv /\ [Next]_vars => AnswerInv'
  BY AnswerStep
<1>2. AnswerInv => NothingLost
  <2>. SUFFICES ASSUME AnswerInv, NEW c \in Clients, Serving(c)
                PROVE  \/ \E b \in Conns :
                             Holds(c, b) /\ (~alive[b] \/ unanswered[c] = Unsent(c) + Owed(c, b))
                       \/ (\A b \in Conns : ~Holds(c, b)) /\ unanswered[c] = Unsent(c)
    BY DEF NothingLost
  <2>. USE DEF AnswerInv, CleanInv, TaskInv
  <2>1. pc[c] \in {"ready", "leasing", "forward", "relay", "boundary", "reset", "released",
                   "copy", "draining"}
    BY DEF Serving, TypeOK, PCs
  <2>2. CASE pc[c] \in {"forward", "relay", "copy", "draining"}
    <3>1. slot[c] \in Conns /\ Holds(c, slot[c])
      BY <2>2 DEF TaskOK, SlotOK, Tracked
    <3>. QED
      BY <2>2, <3>1 DEF AnswerOK
  <2>3. CASE pc[c] \in {"ready", "leasing", "boundary", "reset", "released"}
    <3>1. unanswered[c] = Unsent(c)
      BY <2>3 DEF AnswerOK
    <3>2. ASSUME NEW b \in Conns, Holds(c, b) PROVE unanswered[c] = Unsent(c) + Owed(c, b)
      <4>1. stage[c] = "holding" /\ HeldOK(c, b)
        BY <3>2, HolderFacts DEF ConnOK, Holds
      <4>2. pc[c] \in {"leasing", "boundary", "reset"}
        BY <2>3, <4>1 DEF TaskOK, StageOK, Unleased
      <4>3. Owed(c, b) = 0
        BY <4>1, <4>2, OwedNone DEF HeldOK
      <4>. QED
        BY <3>1, <3>2, <4>3, Counts
    <3>. QED
      BY <3>1, <3>2
  <2>. QED
    BY <2>1, <2>2, <2>3
<1>. QED
  BY <1>1, <1>2, AnswerInit, PTL DEF Spec
=============================================================================
