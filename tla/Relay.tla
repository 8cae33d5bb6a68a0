------------------------------- MODULE Relay -------------------------------
(***************************************************************************)
(* The bytes of one session between bounded sockets, in the two ways the  *)
(* proxy moves them.  "copy" is copy_bidirectional (DirectForwarder after *)
(* the startup, PooledForwarder in session mode): two directions that go  *)
(* on independently, each with a buffer of its own.  "frames" is          *)
(* relay_to_next_rfq for one statement of a lease: one loop with one      *)
(* frame in hand, which reads nothing while it writes.                    *)
(*                                                                         *)
(* Frames are counted, not represented: of each direction, how many its   *)
(* sender has sent, the proxy has read and written, and the receiver has  *)
(* taken.  sent - read are in the socket from the sender, read - written  *)
(* in the proxy's hand, written - taken in the socket to the receiver.    *)
(***************************************************************************)
EXTENDS Integers

CONSTANTS
  Cap,        \* frames a socket holds before a write to it waits
  ReplyLen,   \* frames of the answer to a request
  MaxSent     \* bound, by kind of relay: requests sent ahead of their answers

Kinds == {"copy", "frames"}
Dirs == {"up", "down"}

ASSUME RelayAssumption ==
  /\ Cap \in Nat \ {0} /\ ReplyLen \in Nat \ {0}
  /\ MaxSent \in [Kinds -> Nat]

VARIABLES
  kind,     \* how the proxy relays, fixed
  sent, read, written, taken,
  last,     \* "none", or what the client's last request was
  left,     \* frames the backend has still to send for its request
  closed,   \* the senders that closed their side
  shut,     \* the directions the proxy has shut down after their end
  hears,    \* the client's read side is open
  crashed,  \* the backend died
  over      \* "no", or how the relay ended

flowVars == <<sent, read, written, taken>>
vars == <<kind, flowVars, last, left, closed, shut, hears, crashed, over>>

RelayTypeOK ==
  /\ kind \in Kinds
  /\ sent \in [Dirs -> Nat] /\ read \in [Dirs -> Nat]
  /\ written \in [Dirs -> Nat] /\ taken \in [Dirs -> Nat]
  /\ \A d \in Dirs :
        /\ taken[d] <= written[d] /\ written[d] <= taken[d] + Cap
        /\ written[d] <= read[d] /\ read[d] <= written[d] + 1
        /\ read[d] <= sent[d] /\ sent[d] <= read[d] + Cap
  /\ last \in {"none", "sync", "terminate"}
  /\ left \in 0 .. ReplyLen
  /\ closed \subseteq Dirs /\ shut \subseteq Dirs
  /\ hears \in BOOLEAN /\ crashed \in BOOLEAN
  /\ over \in {"no", "ok", "boundary", "gone", "error"}

RelayInit ==
  /\ kind \in Kinds
  /\ sent = [d \in Dirs |-> 0] /\ read = [d \in Dirs |-> 0]
  /\ written = [d \in Dirs |-> 0] /\ taken = [d \in Dirs |-> 0]
  /\ last = "none"
  /\ left = 0
  /\ closed = {} /\ shut = {}
  /\ hears = TRUE /\ crashed = FALSE
  /\ over = "no"

Inc(f, d) == [f EXCEPT ![d] = @ + 1]
-----------------------------------------------------------------------------
(* The client, outside the proxy: it reads whatever arrives *)

\* A request, and whether it is the last: the Sync of its batch, or Terminate.
ClientSend(l) ==
  /\ over = "no" /\ last = "none" /\ "up" \notin closed
  /\ sent["up"] < MaxSent[kind] /\ sent["up"] - read["up"] < Cap
  /\ sent' = Inc(sent, "up")
  /\ last' = l
  /\ UNCHANGED <<kind, read, written, taken, left, closed, shut, hears, crashed, over>>

ClientReceive ==
  /\ hears /\ taken["down"] < written["down"]
  /\ taken' = Inc(taken, "down")
  /\ UNCHANGED <<kind, sent, read, written, last, left, closed, shut, hears, crashed, over>>

\* The client sends nothing more and goes on reading.
ClientShutdown ==
  /\ over = "no" /\ "up" \notin closed
  /\ closed' = closed \cup {"up"}
  /\ UNCHANGED <<kind, flowVars, last, left, shut, hears, crashed, over>>

\* The client closes its socket.
ClientCloses ==
  /\ over = "no" /\ hears
  /\ closed' = closed \cup {"up"}
  /\ hears' = FALSE
  /\ UNCHANGED <<kind, flowVars, last, left, shut, crashed, over>>

\* It does so once it has read the end of the stream.
ClientFollows ==
  /\ "down" \in shut /\ taken["down"] = written["down"]
  /\ ClientCloses
-----------------------------------------------------------------------------
(* PostgreSQL, outside the proxy: one request after the other *)

Alive == "down" \notin closed

BackendTake ==
  /\ Alive /\ left = 0 /\ taken["up"] < written["up"]
  /\ taken' = Inc(taken, "up")
  /\ IF last = "terminate" /\ taken["up"] + 1 = sent["up"]
     THEN closed' = closed \cup {"down"} /\ UNCHANGED left
     ELSE left' = ReplyLen /\ UNCHANGED closed
  /\ UNCHANGED <<kind, sent, read, written, last, shut, hears, crashed, over>>

\* It sends its answer before it reads on, and waits while the socket is full.
BackendEmit ==
  /\ Alive /\ left > 0 /\ sent["down"] - read["down"] < Cap
  /\ sent' = Inc(sent, "down")
  /\ left' = left - 1
  /\ UNCHANGED <<kind, read, written, taken, last, closed, shut, hears, crashed, over>>

\* The end of its input ends the backend.
BackendEnds ==
  /\ Alive /\ left = 0 /\ taken["up"] = written["up"] /\ "up" \in shut
  /\ closed' = closed \cup {"down"}
  /\ UNCHANGED <<kind, flowVars, last, left, shut, hears, crashed, over>>

BackendCrash ==
  /\ Alive /\ over = "no"
  /\ closed' = closed \cup {"down"}
  /\ left' = 0
  /\ crashed' = TRUE
  /\ UNCHANGED <<kind, flowVars, last, shut, hears, over>>
-----------------------------------------------------------------------------
(* What both relays do with one direction *)

HandEmpty(d) == read[d] = written[d]

\* Nothing more will come from the sender of direction d.
AtEnd(d) == d \in closed /\ read[d] = sent[d]

Take(d) ==
  /\ over = "no" /\ HandEmpty(d) /\ read[d] < sent[d]
  /\ read' = Inc(read, d)
  /\ UNCHANGED <<kind, sent, written, taken, last, left, closed, shut, hears, crashed, over>>

\* The receiver of direction d still reads.
Listens(d) == IF d = "up" THEN Alive ELSE hears

\* write_all: it waits while the receiver's socket is full.
Put(d) ==
  /\ over = "no" /\ ~HandEmpty(d) /\ Listens(d)
  /\ written[d] - taken[d] < Cap
  /\ written' = Inc(written, d)
  /\ UNCHANGED <<kind, sent, read, taken, last, left, closed, shut, hears, crashed>>

\* A write fails because its receiver is gone.
WriteFails(d) == over = "no" /\ ~HandEmpty(d) /\ ~Listens(d)

End(how) ==
  /\ over' = how
  /\ UNCHANGED <<kind, flowVars, last, left, closed, shut, hears, crashed>>
-----------------------------------------------------------------------------
(* copy_bidirectional *)

\* Mutant: one buffer for both directions.
CopyReadOneHand(d) == kind = "copy" /\ (\A e \in Dirs : HandEmpty(e)) /\ Take(d)

CopyRead(d) == kind = "copy" /\ Take(d)

CopyWrite(d) == kind = "copy" /\ Put(d) /\ UNCHANGED over

\* End of input: flush, then shut down the receiver's side.
CopyShutdown(d) ==
  /\ kind = "copy" /\ over = "no"
  /\ d \notin shut /\ AtEnd(d) /\ HandEmpty(d)
  /\ shut' = shut \cup {d}
  /\ UNCHANGED <<kind, flowVars, last, left, closed, hears, crashed, over>>

\* Mutant: the session ends with the first direction that ends.
CopyDoneFirst == kind = "copy" /\ over = "no" /\ shut # {} /\ End("ok")

\* Both directions have ended: the session is closed.
CopyDone == kind = "copy" /\ over = "no" /\ shut = Dirs /\ End("ok")

CopyFails == kind = "copy" /\ (\E d \in Dirs : WriteFails(d)) /\ End("error")
-----------------------------------------------------------------------------
(* relay_to_next_rfq *)

Selecting == kind = "frames" /\ over = "no" /\ \A d \in Dirs : HandEmpty(d)

\* Backend branch: it is polled first (biased).
FrameFromBackend == Selecting /\ Take("down")

\* Neither a frame nor the end of the stream is there from the backend.
BackendQuiet == read["down"] = sent["down"] /\ "down" \notin closed

\* Client branch.
FrameFromClient == Selecting /\ BackendQuiet /\ Take("up")

\* The answer to a Sync ends with ReadyForQuery.
IsReady(n) == last = "sync" /\ n = sent["up"] * ReplyLen

FrameToClient ==
  /\ kind = "frames" /\ Put("down")
  /\ over' = IF IsReady(written["down"] + 1) THEN "boundary" ELSE "no"

IsTerminate(n) == last = "terminate" /\ n = sent["up"]

\* Terminate is passed on, and the client is gone.
FrameToBackend ==
  /\ kind = "frames" /\ Put("up")
  /\ over' = IF IsTerminate(written["up"] + 1) THEN "gone" ELSE "no"

\* Mutant: the end of the client's input counts only after a Terminate.
FrameEndOnTerminate ==
  Selecting /\ BackendQuiet /\ AtEnd("up") /\ last = "terminate" /\ End("gone")

\* The client disconnected: Ok(None).
FrameEnd == Selecting /\ BackendQuiet /\ AtEnd("up") /\ End("gone")

\* The backend closed mid-statement, or a write failed; that of Terminate may.
FrameFails ==
  /\ kind = "frames"
  /\ \/ Selecting /\ AtEnd("down") /\ End("error")
     \/ WriteFails("down") /\ End("error")
     \/ WriteFails("up") /\ End(IF IsTerminate(read["up"]) THEN "gone" ELSE "error")

FrameStep ==
  \/ FrameFromBackend \/ FrameFromClient \/ FrameToClient \/ FrameToBackend
  \/ FrameEnd \/ FrameFails

CopyStep(d) == CopyRead(d) \/ CopyWrite(d) \/ CopyShutdown(d)

ClientStep ==
  \/ \E l \in {"none", "sync", "terminate"} : ClientSend(l)
  \/ ClientReceive \/ ClientShutdown \/ ClientCloses

BackendStep == BackendTake \/ BackendEmit \/ BackendEnds

RelayNext ==
  \/ ClientStep \/ BackendStep \/ BackendCrash
  \/ FrameStep \/ (\E d \in Dirs : CopyStep(d)) \/ CopyDone \/ CopyFails

RelaySpec == RelayInit /\ [][RelayNext]_vars

(***************************************************************************)
(* Fairness.  The runtime polls the relay's task, and copy_bidirectional  *)
(* polls both directions each time; PostgreSQL works its requests off;    *)
(* the client reads what arrives, and closes after the end of the stream. *)
(* It need not send, and nobody need crash.                               *)
(***************************************************************************)
RelayFairSpec ==
  /\ RelaySpec
  /\ WF_vars(FrameStep) /\ WF_vars(CopyDone \/ CopyFails)
  /\ \A d \in Dirs : WF_vars(CopyStep(d))
  /\ WF_vars(BackendStep)
  /\ WF_vars(ClientReceive) /\ WF_vars(ClientFollows)
-----------------------------------------------------------------------------
(* Properties *)

\* A relay that ends well has passed on every frame that was sent, in both
\* directions: no answer is cut off by the end of the client's input, and
\* nothing is under way at the ReadyForQuery that gives the backend back.
DrainedAtEnd == over \in {"ok", "boundary"} => written = sent

\* The client or the backend is gone, or the client ended a lease mid-statement,
\* which discards the backend.
GivenUp == ~hears \/ crashed \/ (kind = "frames" /\ over = "gone")

\* Every request is answered in full, also to a client that has closed its side
\* already, however full the sockets are: copying never has client, proxy and
\* backend wait for each other, and relaying by frames does not as long as a
\* client is at most Cap + 1 requests ahead of its answers.
RequestsAnswered ==
  \A n \in 1 .. MaxSent["copy"] :
     (sent["up"] >= n /\ ~(last = "terminate" /\ sent["up"] = n))
       ~> (taken["down"] >= n * ReplyLen \/ GivenUp)

\* The relay of a session ends once the client is gone or the backend has died,
\* whatever it waits for.
RelayEnds == (~hears \/ crashed) ~> over # "no"
=============================================================================
