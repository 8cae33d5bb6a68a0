-------------------------- MODULE CustomForwarder --------------------------
(***************************************************************************)
(* Custom forwarding: CustomForwarder::serve answers the queries of one   *)
(* client session in the proxy, with no backend.                          *)
(*                                                                         *)
(* A client message is the verb of a Query that run_query tells apart     *)
(* (begin for BEGIN and START, end for COMMIT, END, ROLLBACK and ABORT,   *)
(* other), an unsupported message, or terminate.  The QueryHandler is the *)
(* application's: it may set the SessionState it is handed, and answers   *)
(* with a result or an error.  Every query has a CancellationToken of its *)
(* own, named by the session and the number of the query; what the        *)
(* handler makes of a fired token is its own business.                    *)
(***************************************************************************)
EXTENDS Integers, FiniteSets, Sequences

CONSTANTS
  Sessions,     \* client sessions
  MaxQueries,   \* bound: queries a session runs
  MaxInbox,     \* bound: messages of a client not read yet
  MaxCancels,   \* bound: cancels in flight at once
  NoToken       \* an empty cancel slot, and the token before the first query

Tokens == Sessions \X (1 .. MaxQueries)

ASSUME CustomAssumption ==
  /\ MaxQueries \in Nat \ {0} /\ MaxInbox \in Nat \ {0}
  /\ MaxCancels \in Nat
  /\ NoToken \notin Tokens

VARIABLES
  registered, slot, inflight,   \* the cancel registry
  pc,       \* where the session's task is
  inbox,    \* messages from the client that were not read yet
  peer,     \* the client's side of the socket is open
  awaited,  \* queries the client waits for
  verb,     \* the query that runs
  count,    \* its number
  token,    \* the token run_query was given
  status,   \* SessionState: the transaction status
  seen,     \* the status run_query read before it called the handler
  told,     \* the status in the last ReadyForQuery
  fired,    \* the tokens that were cancelled
  wanted    \* history: the queries during which a cancel was looked up

INSTANCE Cancellation WITH Targets <- Tokens, NoTarget <- NoToken

registryVars == <<registered, slot, inflight>>
clientVars == <<inbox, peer, awaited>>
queryVars == <<verb, count, token, status, seen>>
vars == <<registryVars, clientVars, queryVars, pc, told, fired, wanted>>

Verbs == {"begin", "end", "other"}
Messages == Verbs \cup {"unsupported", "terminate"}
Statuses == {"I", "T", "E"}
PCs == {"off", "startup", "ready", "running", "handling", "answering", "answered",
        "broken", "closing"}

CustomTypeOK ==
  /\ CancelTypeOK
  /\ pc \in [Sessions -> PCs]
  /\ inbox \in [Sessions -> Seq(Messages)]
  /\ peer \in [Sessions -> BOOLEAN]
  /\ awaited \in [Sessions -> Int]
  /\ verb \in [Sessions -> Verbs]
  /\ count \in [Sessions -> 0 .. MaxQueries]
  /\ token \in [Sessions -> Tokens \cup {NoToken}]
  /\ status \in [Sessions -> Statuses]
  /\ seen \in [Sessions -> Statuses]
  /\ told \in [Sessions -> Statuses]
  /\ fired \subseteq Tokens
  /\ wanted \subseteq Tokens

CustomInit ==
  /\ CancelInit
  /\ pc = [s \in Sessions |-> "off"]
  /\ inbox = [s \in Sessions |-> <<>>]
  /\ peer = [s \in Sessions |-> FALSE]
  /\ awaited = [s \in Sessions |-> 0]
  /\ verb = [s \in Sessions |-> "other"]
  /\ count = [s \in Sessions |-> 0]
  /\ token = [s \in Sessions |-> NoToken]
  /\ status = [s \in Sessions |-> "I"]
  /\ seen = [s \in Sessions |-> "I"]
  /\ told = [s \in Sessions |-> "I"]
  /\ fired = {}
  /\ wanted = {}

\* Session s is at l and goes on at m.
Goto(s, l, m) == pc[s] = l /\ pc' = [pc EXCEPT ![s] = m]
-----------------------------------------------------------------------------
(* The client, outside the proxy *)

ClientSend(s, m) ==
  /\ peer[s] /\ pc[s] \notin {"off", "startup", "broken", "closing"}
  /\ Len(inbox[s]) < MaxInbox
  /\ m \in Verbs => count[s] + awaited[s] < MaxQueries
  /\ inbox' = [inbox EXCEPT ![s] = Append(@, m)]
  /\ awaited' = IF m \in Verbs THEN [awaited EXCEPT ![s] = @ + 1] ELSE awaited
  /\ peer' = [peer EXCEPT ![s] = (m # "terminate")]
  /\ UNCHANGED <<registryVars, queryVars, pc, told, fired, wanted>>

ClientHangup(s) ==
  /\ peer[s]
  /\ peer' = [peer EXCEPT ![s] = FALSE]
  /\ UNCHANGED <<registryVars, inbox, awaited, queryVars, pc, told, fired, wanted>>
-----------------------------------------------------------------------------
(* serve and serve_custom *)

\* serve begins the cancel session; the session's state is a fresh one.
Connect(s) ==
  /\ Goto(s, "off", "startup")
  /\ BeginSession(s)
  /\ peer' = [peer EXCEPT ![s] = TRUE]
  /\ status' = [status EXCEPT ![s] = "I"]
  /\ UNCHANGED <<inbox, awaited, verb, count, token, seen, told, fired, wanted>>

\* synthesize_startup ends with an idle ReadyForQuery.
Synthesize(s) ==
  /\ Goto(s, "startup", "ready")
  /\ told' = [told EXCEPT ![s] = "I"]
  /\ UNCHANGED <<registryVars, clientVars, queryVars, fired, wanted>>

\* The session ends before its first query: pass-through auth is rejected, or
\* the client is gone and the startup cannot be written.
Reject(s) ==
  /\ Goto(s, "startup", "closing")
  /\ UNCHANGED <<registryVars, clientVars, queryVars, told, fired, wanted>>

\* The task reads the client's next message m.
Read(s, m) ==
  /\ inbox[s] # <<>> /\ Head(inbox[s]) = m
  /\ inbox' = [inbox EXCEPT ![s] = Tail(@)]
  /\ UNCHANGED <<peer, awaited>>

\* Mutant: one token for all the queries of a session.
TokenOfSession(s) == IF token[s] = NoToken THEN <<s, count[s] + 1>> ELSE token[s]

\* A fresh token for the next query.
FreshToken(s) == <<s, count[s] + 1>>

\* A Query: point the cancel handle at the query's token and run it.
BeginQuery(s, v) ==
  /\ Goto(s, "ready", "running")
  /\ count[s] < MaxQueries
  /\ Read(s, v)
  /\ verb' = [verb EXCEPT ![s] = v]
  /\ count' = [count EXCEPT ![s] = @ + 1]
  /\ token' = [token EXCEPT ![s] = FreshToken(s)]
  /\ SetTarget(s, FreshToken(s))
  /\ UNCHANGED <<status, seen, told, fired, wanted>>

\* Any other message: an error and a ReadyForQuery of its own.
Unsupported(s) ==
  /\ Goto(s, "ready", "ready")
  /\ Read(s, "unsupported")
  /\ told' = [told EXCEPT ![s] = status[s]]
  /\ UNCHANGED <<registryVars, queryVars, fired, wanted>>

\* They cannot be written: the session ends.
UnsupportedFails(s) ==
  /\ ~peer[s]
  /\ Goto(s, "ready", "closing")
  /\ Read(s, "unsupported")
  /\ UNCHANGED <<registryVars, queryVars, told, fired, wanted>>

\* Mutant: only Terminate ends the loop.
ReadEndTerminateOnly(s) ==
  /\ Goto(s, "ready", "closing")
  /\ inbox[s] # <<>> /\ Head(inbox[s]) = "terminate"
  /\ UNCHANGED <<registryVars, clientVars, queryVars, told, fired, wanted>>

\* Terminate or the end of the stream ends the loop.
ReadEnd(s) ==
  /\ Goto(s, "ready", "closing")
  /\ IF inbox[s] = <<>>
     THEN ~peer[s]
     ELSE Head(inbox[s]) = "terminate"
  /\ UNCHANGED <<registryVars, clientVars, queryVars, told, fired, wanted>>
-----------------------------------------------------------------------------
(* run_query *)

\* run_query reads the status once, before anything else.
ReadStatus(s) == seen' = [seen EXCEPT ![s] = status[s]]

\* Mutant: the rejection returns before the ReadyForQuery.
RejectQuerySilent(s) ==
  /\ Goto(s, "running", "answered")
  /\ status[s] = "E" /\ verb[s] # "end"
  /\ ReadStatus(s)
  /\ UNCHANGED <<registryVars, clientVars, verb, count, token, status, told, fired, wanted>>

\* A failed transaction rejects everything but its end.
RejectQuery(s) ==
  /\ Goto(s, "running", "answering")
  /\ status[s] = "E" /\ verb[s] # "end"
  /\ ReadStatus(s)
  /\ UNCHANGED <<registryVars, clientVars, verb, count, token, status, told, fired, wanted>>

\* BEGIN and COMMIT or ROLLBACK are handled here, in any state they are let in.
ControlQuery(s) ==
  /\ Goto(s, "running", "answering")
  /\ \/ verb[s] = "begin" /\ status[s] # "E" /\ status' = [status EXCEPT ![s] = "T"]
     \/ verb[s] = "end" /\ status' = [status EXCEPT ![s] = "I"]
  /\ ReadStatus(s)
  /\ UNCHANGED <<registryVars, clientVars, verb, count, token, told, fired, wanted>>

\* Mutant: the handler is called in a failed transaction too.
CallHandlerAlways(s) ==
  /\ Goto(s, "running", "handling")
  /\ verb[s] = "other"
  /\ ReadStatus(s)
  /\ UNCHANGED <<registryVars, clientVars, verb, count, token, status, told, fired, wanted>>

\* Everything else is delegated to the handler.
CallHandler(s) ==
  /\ Goto(s, "running", "handling")
  /\ verb[s] = "other" /\ status[s] # "E"
  /\ ReadStatus(s)
  /\ UNCHANGED <<registryVars, clientVars, verb, count, token, status, told, fired, wanted>>

\* The handler sets the session's transaction status itself.
HandlerSets(s, st) ==
  /\ pc[s] = "handling"
  /\ status' = [status EXCEPT ![s] = st]
  /\ UNCHANGED <<registryVars, clientVars, verb, count, token, seen, pc, told, fired, wanted>>

\* Its answer; an error fails the transaction that was seen before the call.
HandlerReturns(s, answer) ==
  /\ Goto(s, "handling", "answering")
  /\ status' = IF answer = "error" /\ seen[s] = "T"
               THEN [status EXCEPT ![s] = "E"]
               ELSE status
  /\ UNCHANGED <<registryVars, clientVars, verb, count, token, seen, told, fired, wanted>>

\* Mutant: ReadyForQuery reports the status read before the query ran.
ReadyStatusStale(s) == seen[s]

\* The status ReadyForQuery reports.
ReadyStatus(s) == status[s]

\* The query's answer ends with ReadyForQuery.
Ready(s) ==
  /\ Goto(s, "answering", "answered")
  /\ told' = [told EXCEPT ![s] = ReadyStatus(s)]
  /\ awaited' = [awaited EXCEPT ![s] = @ - 1]
  /\ UNCHANGED <<registryVars, inbox, peer, queryVars, fired, wanted>>

\* A write of the answer fails: run_query returns the error.
AnswerFails(s) ==
  /\ ~peer[s]
  /\ Goto(s, "answering", "broken")
  /\ UNCHANGED <<registryVars, clientVars, queryVars, told, fired, wanted>>

\* Mutant: the handle is cleared only when the query succeeded.
ClearHandleOnSuccess(s) ==
  /\ \/ Goto(s, "answered", "ready") /\ ClearTarget(s)
     \/ Goto(s, "broken", "closing") /\ UNCHANGED registryVars
  /\ UNCHANGED <<clientVars, queryVars, told, fired, wanted>>

\* handle.clear() either way; after an error the session ends.
ClearHandle(s) ==
  /\ Goto(s, "answered", "ready") \/ Goto(s, "broken", "closing")
  /\ ClearTarget(s)
  /\ UNCHANGED <<clientVars, queryVars, told, fired, wanted>>

\* The task is over and its client's socket closed.
TaskOver(s) ==
  /\ pc' = [pc EXCEPT ![s] = "off"]
  /\ inbox' = [inbox EXCEPT ![s] = <<>>]
  /\ peer' = [peer EXCEPT ![s] = FALSE]
  /\ awaited' = [awaited EXCEPT ![s] = 0]
  /\ UNCHANGED <<queryVars, told, fired, wanted>>

\* serve() returns, and with it the handle is dropped.
EndSession(s) == pc[s] = "closing" /\ TaskOver(s) /\ DropHandle(s)

\* The task is dropped at any await.
Abort(s) == pc[s] \notin {"off", "closing"} /\ TaskOver(s) /\ DropHandle(s)
-----------------------------------------------------------------------------
(* Out-of-band cancels *)

\* cancel() captures the token in the slot; history notes the query it meant.
CancelRequest(s) ==
  /\ Cancel(s)
  /\ wanted' = wanted \cup {<<s, count[s]>>}
  /\ UNCHANGED <<clientVars, queryVars, pc, told, fired>>

\* TokenCancel::cancel
FireToken(k) ==
  /\ CancelDone(k)
  /\ fired' = fired \cup {k.target}
  /\ UNCHANGED <<clientVars, queryVars, pc, told, wanted>>

\* What the session's task does on its own.
TaskStep(s) ==
  \/ Synthesize(s) \/ Reject(s) \/ Unsupported(s) \/ UnsupportedFails(s) \/ ReadEnd(s)
  \/ \E v \in Verbs : BeginQuery(s, v)
  \/ RejectQuery(s) \/ ControlQuery(s) \/ CallHandler(s)
  \/ Ready(s) \/ AnswerFails(s) \/ ClearHandle(s) \/ EndSession(s)

CustomNext ==
  \/ \E s \in Sessions :
        \/ Connect(s) \/ ClientHangup(s) \/ \E m \in Messages : ClientSend(s, m)
        \/ TaskStep(s)
        \/ \E st \in Statuses : HandlerSets(s, st)
        \/ \E answer \in {"result", "error"} : HandlerReturns(s, answer)
        \/ Abort(s) \/ CancelRequest(s)
  \/ \E k \in inflight : FireToken(k)

CustomSpec == CustomInit /\ [][CustomNext]_vars

(***************************************************************************)
(* Fairness.  The runtime polls a task that can go on; a handler returns, *)
(* which is the application's obligation.                                  *)
(***************************************************************************)
CustomFairness ==
  \A s \in Sessions :
     /\ WF_vars(TaskStep(s))
     /\ WF_vars(\E answer \in {"result", "error"} : HandlerReturns(s, answer))

CustomFairSpec == CustomSpec /\ CustomFairness
-----------------------------------------------------------------------------
(* Properties *)

\* "a prior cancel must not pre-cancel this one" (serve_custom): the token of
\* the running query fires only if a cancel was looked up while this very query
\* ran, however late the cancels for earlier queries and sessions arrive.
CancelOwnQuery ==
  \A s \in Sessions :
     pc[s] \in {"running", "handling", "answering"} /\ token[s] \in fired =>
        <<s, count[s]>> \in wanted

\* A cancel finds a target exactly while a query runs, and it is that query's.
SlotIsQuery ==
  \A s \in Sessions :
     IF pc[s] \in {"running", "handling", "answering", "answered", "broken"}
     THEN slot[s] = token[s] /\ s \in registered
     ELSE slot[s] = NoToken

\* The client of an idle session knows its transaction status: the last
\* ReadyForQuery it was sent reports the status the next query starts from.
ToldIsStatus == \A s \in Sessions : pc[s] \in {"ready", "answered"} => told[s] = status[s]

\* Once a client was told that its transaction failed, no statement of it
\* reaches the handler until the transaction ended.
FailedRejected == \A s \in Sessions : pc[s] = "handling" => told[s] # "E"

\* Every query is answered by one ReadyForQuery, and none is answered twice:
\* what the client waits for is unread or running.
AwaitedIsPending ==
  \A s \in Sessions :
     pc[s] \in {"ready", "running", "handling", "answering", "answered"} =>
        awaited[s] = Cardinality({i \in DOMAIN inbox[s] : inbox[s][i] \in Verbs})
                     + (IF pc[s] \in {"running", "handling", "answering"} THEN 1 ELSE 0)

\* The session of a client that disconnected ends, and with it its registration
\* in the cancel registry, even when the handler was running.
CustomHangupEnds == \A s \in Sessions : ~peer[s] ~> s \notin registered
=============================================================================
