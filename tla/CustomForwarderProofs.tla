----------------------- MODULE CustomForwarderProofs -----------------------
(***************************************************************************)
(* Proofs about CustomForwarder: whom a cancel reaches, and what a client *)
(* is told about its transaction, for any number of sessions and queries. *)
(***************************************************************************)
EXTENDS CustomForwarder, QueueFacts

\* The points of serve_custom between handle.set() and handle.clear().
Busy == {"running", "handling", "answering", "answered", "broken"}

\* The token that is given to run_query is that of the query that runs.
TokenIsQuery ==
  \A s \in Sessions : pc[s] \in Busy => token[s] = <<s, count[s]>>

\* Whatever a cancel captured or fired was looked up during that query.
CancelsAreWanted ==
  /\ \A k \in inflight : k.target \in wanted
  /\ fired \subseteq wanted

\* A session's key is registered as long as its task runs.
RegisteredWhileOn == \A s \in Sessions : s \in registered <=> pc[s] # "off"

\* What the client was told, at every point where run_query relies on it.
ToldWhenRunning ==
  \A s \in Sessions :
     /\ pc[s] = "startup" => status[s] = "I"
     /\ pc[s] \in {"ready", "answered", "running"} => told[s] = status[s]
     /\ pc[s] = "handling" => told[s] # "E"

CustomInv ==
  /\ CustomTypeOK
  /\ SlotIsQuery
  /\ TokenIsQuery
  /\ RegisteredWhileOn
  /\ CancelsAreWanted
  /\ ToldWhenRunning

\* A new proxy satisfies the invariant.
LEMMA CustomInitInv == CustomInit => CustomInv
BY CustomAssumption
   DEF CustomInit, CustomInv, CustomTypeOK, SlotIsQuery, TokenIsQuery, RegisteredWhileOn,
       CancelsAreWanted, ToldWhenRunning, Busy, CancelInit, CancelTypeOK, PCs, Messages,
       Verbs, Statuses, CancelRequests

\* Every step of the sessions, their clients, handlers and cancels preserves it.
LEMMA CustomNextInv == CustomInv /\ [CustomNext]_vars => CustomInv'
<1> SUFFICES ASSUME CustomInv, [CustomNext]_vars PROVE CustomInv'
  OBVIOUS
<1> USE CustomAssumption
    DEF CustomInv, CustomTypeOK, SlotIsQuery, TokenIsQuery, RegisteredWhileOn,
        CancelsAreWanted, ToldWhenRunning, Busy, CancelTypeOK, CancelRequests, PCs,
        Messages, Verbs, Statuses, Goto
<1>1. ASSUME NEW s \in Sessions, NEW m \in Messages, ClientSend(s, m) PROVE CustomInv'
  BY <1>1 DEF ClientSend, registryVars, queryVars
<1>2. ASSUME NEW s \in Sessions, ClientHangup(s) PROVE CustomInv'
  BY <1>2 DEF ClientHangup, registryVars, queryVars
<1>3. ASSUME NEW s \in Sessions, Connect(s) PROVE CustomInv'
  BY <1>3 DEF Connect, BeginSession
<1>4. ASSUME NEW s \in Sessions, Synthesize(s) PROVE CustomInv'
  BY <1>4 DEF Synthesize, registryVars, clientVars, queryVars
<1>5. ASSUME NEW s \in Sessions, Reject(s) PROVE CustomInv'
  BY <1>5 DEF Reject, registryVars, clientVars, queryVars
<1>6. ASSUME NEW s \in Sessions, NEW v \in Verbs, BeginQuery(s, v) PROVE CustomInv'
  BY <1>6 DEF BeginQuery, Read, FreshToken, SetTarget, Tokens
<1>7. ASSUME NEW s \in Sessions, Unsupported(s) PROVE CustomInv'
  BY <1>7 DEF Unsupported, Read, registryVars, queryVars
<1>8. ASSUME NEW s \in Sessions, UnsupportedFails(s) PROVE CustomInv'
  BY <1>8 DEF UnsupportedFails, Read, registryVars, queryVars
<1>9. ASSUME NEW s \in Sessions, ReadEnd(s) PROVE CustomInv'
  BY <1>9 DEF ReadEnd, registryVars, clientVars, queryVars
<1>10. ASSUME NEW s \in Sessions, RejectQuery(s) PROVE CustomInv'
  BY <1>10 DEF RejectQuery, ReadStatus, registryVars, clientVars
<1>11. ASSUME NEW s \in Sessions, ControlQuery(s) PROVE CustomInv'
  <2>1. CASE verb[s] = "begin" /\ status[s] # "E" /\ status' = [status EXCEPT ![s] = "T"]
    BY <1>11, <2>1 DEF ControlQuery, ReadStatus, registryVars, clientVars
  <2>2. CASE verb[s] = "end" /\ status' = [status EXCEPT ![s] = "I"]
    BY <1>11, <2>2 DEF ControlQuery, ReadStatus, registryVars, clientVars
  <2> QED
    BY <1>11, <2>1, <2>2 DEF ControlQuery
<1>12. ASSUME NEW s \in Sessions, CallHandler(s) PROVE CustomInv'
  BY <1>12 DEF CallHandler, ReadStatus, registryVars, clientVars
<1>13. ASSUME NEW s \in Sessions, NEW st \in Statuses, HandlerSets(s, st) PROVE CustomInv'
  BY <1>13 DEF HandlerSets, registryVars, clientVars
<1>14. ASSUME NEW s \in Sessions, NEW answer, HandlerReturns(s, answer) PROVE CustomInv'
  BY <1>14 DEF HandlerReturns, registryVars, clientVars
<1>15. ASSUME NEW s \in Sessions, Ready(s) PROVE CustomInv'
  BY <1>15 DEF Ready, ReadyStatus, registryVars, queryVars
<1>16. ASSUME NEW s \in Sessions, AnswerFails(s) PROVE CustomInv'
  BY <1>16 DEF AnswerFails, registryVars, clientVars, queryVars
<1>17. ASSUME NEW s \in Sessions, ClearHandle(s) PROVE CustomInv'
  <2>1. CASE Goto(s, "answered", "ready")
    BY <1>17, <2>1 DEF ClearHandle, ClearTarget, clientVars, queryVars
  <2>2. CASE Goto(s, "broken", "closing")
    BY <1>17, <2>2 DEF ClearHandle, ClearTarget, clientVars, queryVars
  <2> QED
    BY <1>17, <2>1, <2>2 DEF ClearHandle
<1>18. ASSUME NEW s \in Sessions, TaskOver(s), DropHandle(s) PROVE CustomInv'
  BY <1>18 DEF TaskOver, DropHandle, queryVars
<1>19. ASSUME NEW s \in Sessions, CancelRequest(s) PROVE CustomInv'
  \* The slot is not empty, so a query runs and the slot holds its token.
  <2>1. slot[s] = <<s, count[s]>> /\ slot[s] \in Tokens
    BY <1>19 DEF CancelRequest, Cancel
  <2> HIDE DEF CancelRequests
  <2>2. inflight' \subseteq CancelRequests
    <3>1. [session |-> s, target |-> slot[s]] \in CancelRequests
      BY <2>1 DEF CancelRequests
    <3> QED
      BY <1>19, <3>1 DEF CancelRequest, Cancel
  <2>3. wanted' = wanted \cup {slot[s]}
    BY <1>19, <2>1 DEF CancelRequest
  <2>4. \A k \in inflight' : k.target \in wanted'
    BY <1>19, <2>3 DEF CancelRequest, Cancel
  <2> QED
    BY <1>19, <2>1, <2>2, <2>3, <2>4 DEF CancelRequest, Cancel, clientVars, queryVars
<1>20. ASSUME NEW k \in inflight, FireToken(k) PROVE CustomInv'
  BY <1>20 DEF FireToken, CancelDone, clientVars, queryVars
<1>21. CASE UNCHANGED vars
  BY <1>21 DEF vars, registryVars, clientVars, queryVars
<1> HIDE DEF CustomInv, CustomTypeOK, SlotIsQuery, TokenIsQuery, RegisteredWhileOn,
        CancelsAreWanted, ToldWhenRunning, Busy, CancelTypeOK, CancelRequests, PCs,
        Messages, Verbs, Statuses, Goto
<1> QED
  BY <1>1, <1>2, <1>3, <1>4, <1>5, <1>6, <1>7, <1>8, <1>9, <1>10, <1>11, <1>12, <1>13, <1>14, <1>15, <1>16, <1>17, <1>18, <1>19, <1>20, <1>21
  DEF CustomNext, TaskStep, EndSession, Abort
-----------------------------------------------------------------------------
(* The theorems *)

\* The slot, the token and the status agree with where serve_custom is.
THEOREM CustomInvariant == CustomSpec => []CustomInv
BY CustomInitInv, CustomNextInv, PTL DEF CustomSpec

\* CustomForwarder's variables keep their types.
THEOREM CustomTyped == CustomSpec => []CustomTypeOK
<1>1. CustomInv => CustomTypeOK
  BY DEF CustomInv
<1> QED
  BY <1>1, CustomInvariant, PTL

\* A cancel never reaches a query it was not meant for, in any number of
\* sessions and queries and however late it fires ("a prior cancel must not
\* pre-cancel this one").
THEOREM CustomCancelOwnQuery == CustomSpec => []CancelOwnQuery
<1>1. CustomInv => CancelOwnQuery
  BY DEF CustomInv, CancelOwnQuery, TokenIsQuery, CancelsAreWanted, Busy
<1> QED
  BY <1>1, CustomInvariant, PTL

\* A cancel finds the running query's token, and nothing between two queries.
THEOREM CustomSlotIsQuery == CustomSpec => []SlotIsQuery
<1>1. CustomInv => SlotIsQuery
  BY DEF CustomInv
<1> QED
  BY <1>1, CustomInvariant, PTL

\* The last ReadyForQuery reports the status the next query starts from,
\* whatever the handlers set.
THEOREM CustomToldIsStatus == CustomSpec => []ToldIsStatus
<1>1. CustomInv => ToldIsStatus
  BY DEF CustomInv, ToldIsStatus, ToldWhenRunning
<1> QED
  BY <1>1, CustomInvariant, PTL

\* After a ReadyForQuery with status E no statement reaches the handler until
\* the transaction ended.
THEOREM CustomFailedRejected == CustomSpec => []FailedRejected
<1>1. CustomInv => FailedRejected
  BY DEF CustomInv, FailedRejected, ToldWhenRunning
<1> QED
  BY <1>1, CustomInvariant, PTL
-----------------------------------------------------------------------------
(* Every query is answered once *)

\* The unread queries of session s.
Unread(s) == CountIn(inbox[s], Verbs)

\* What the client of session s waits for, by where the task is: a session that
\* is not served yet has read nothing.
PendingOK(s) ==
  /\ pc[s] \in {"off", "startup"} => inbox[s] = <<>> /\ awaited[s] = 0
  /\ pc[s] \in {"ready", "answered"} => awaited[s] = Unread(s)
  /\ pc[s] \in {"running", "handling", "answering"} => awaited[s] = Unread(s) + 1

PendingInv == CustomInv /\ \A s \in Sessions : PendingOK(s)

\* A session whose task, inbox and client are left alone.
LEMMA PendingOthers ==
  ASSUME NEW s \in Sessions, PendingOK(s), pc'[s] = pc[s], inbox'[s] = inbox[s],
         awaited'[s] = awaited[s]
  PROVE  PendingOK(s)'
  BY DEF PendingOK, Unread

\* Every message of the client is counted when it is sent and when it is read.
LEMMA PendingStep == PendingInv /\ [CustomNext]_vars => PendingInv'
<1> SUFFICES ASSUME PendingInv, [CustomNext]_vars PROVE \A s \in Sessions : PendingOK(s)'
  BY CustomNextInv DEF PendingInv
<1> USE DEF PendingInv
<1>0. /\ pc \in [Sessions -> PCs] /\ inbox \in [Sessions -> Seq(Messages)]
      /\ awaited \in [Sessions -> Int] /\ verb \in [Sessions -> Verbs]
  BY DEF CustomInv, CustomTypeOK
<1>n. \A s \in Sessions : Unread(s) \in Nat
  BY <1>0, CountType DEF Unread
\* One session s takes part in a step; the others are left alone.
<1>1. ASSUME NEW s \in Sessions, PendingOK(s)',
             \A t \in Sessions \ {s} :
                pc'[t] = pc[t] /\ inbox'[t] = inbox[t] /\ awaited'[t] = awaited[t]
      PROVE  \A t \in Sessions : PendingOK(t)'
  BY <1>1, PendingOthers
<1>2. ASSUME NEW s \in Sessions, NEW m \in Messages, ClientSend(s, m)
      PROVE  \A t \in Sessions : PendingOK(t)'
  <2>1. /\ pc' = pc /\ inbox'[s] = Append(inbox[s], m)
        /\ awaited'[s] = IF m \in Verbs THEN awaited[s] + 1 ELSE awaited[s]
        /\ \A t \in Sessions \ {s} : inbox'[t] = inbox[t] /\ awaited'[t] = awaited[t]
        /\ pc[s] \notin {"off", "startup"}
    BY <1>0, <1>2 DEF ClientSend
  <2>2. CountIn(inbox'[s], Verbs) = IF m \in Verbs THEN Unread(s) + 1 ELSE Unread(s)
    BY <1>0, <2>1, CountAppend DEF Unread
  <2>3. PendingOK(s)'
    <3>1. CASE m \in Verbs
      <4>1. /\ pc[s] \in {"ready", "answered"} => awaited'[s] = Unread(s) + 1
            /\ pc[s] \in {"running", "handling", "answering"} => awaited'[s] = (Unread(s) + 1) + 1
        BY <2>1, <3>1 DEF PendingOK
      <4> QED
        BY <2>1, <2>2, <3>1, <4>1 DEF PendingOK, Unread
    <3>2. CASE m \notin Verbs
      BY <2>1, <2>2, <3>2 DEF PendingOK, Unread
    <3> QED
      BY <3>1, <3>2
  <2> QED
    BY <1>1, <2>1, <2>3
<1>3. ASSUME NEW s \in Sessions, NEW v \in Verbs, BeginQuery(s, v)
      PROVE  \A t \in Sessions : PendingOK(t)'
  <2>1. /\ pc[s] = "ready" /\ pc' = [pc EXCEPT ![s] = "running"]
        /\ inbox[s] # <<>> /\ Head(inbox[s]) \in Verbs /\ awaited' = awaited
        /\ inbox' = [inbox EXCEPT ![s] = Tail(inbox[s])]
    BY <1>0, <1>3 DEF BeginQuery, Read, Goto
  <2>2. Unread(s) = CountIn(inbox'[s], Verbs) + 1
    BY <1>0, <2>1, CountTail DEF Unread
  <2>3. PendingOK(s)'
    BY <1>0, <2>1, <2>2 DEF PendingOK, Unread
  <2> QED
    BY <1>0, <1>1, <2>1, <2>3
<1>4. ASSUME NEW s \in Sessions, Unsupported(s) \/ UnsupportedFails(s)
      PROVE  \A t \in Sessions : PendingOK(t)'
  <2>1. /\ pc[s] = "ready" /\ pc'[s] \in {"ready", "closing"}
        /\ inbox[s] # <<>> /\ Head(inbox[s]) \notin Verbs /\ awaited' = awaited
        /\ inbox' = [inbox EXCEPT ![s] = Tail(inbox[s])]
        /\ \A t \in Sessions \ {s} : pc'[t] = pc[t]
    BY <1>0, <1>4 DEF Unsupported, UnsupportedFails, Read, Goto, Verbs
  <2>2. Unread(s) = CountIn(inbox'[s], Verbs)
    BY <1>0, <2>1, CountTail DEF Unread
  <2>3. PendingOK(s)'
    BY <2>1, <2>2 DEF PendingOK, Unread
  <2> QED
    BY <1>0, <1>1, <2>1, <2>3
<1>5. ASSUME NEW s \in Sessions, Ready(s) PROVE \A t \in Sessions : PendingOK(t)'
  <2>1. /\ pc[s] = "answering" /\ pc' = [pc EXCEPT ![s] = "answered"] /\ inbox' = inbox
        /\ awaited' = [awaited EXCEPT ![s] = awaited[s] - 1]
    BY <1>0, <1>5 DEF Ready, Goto
  <2>2. awaited[s] = Unread(s) + 1 /\ Unread(s) \in Nat
    BY <1>n, <2>1 DEF PendingOK
  <2>3. awaited'[s] = Unread(s)
    BY <1>0, <2>1, <2>2
  <2>4. PendingOK(s)'
    BY <1>0, <2>1, <2>3 DEF PendingOK, Unread
  <2> QED
    BY <1>0, <1>1, <2>1, <2>4
<1>6. ASSUME NEW s \in Sessions, TaskOver(s) PROVE \A t \in Sessions : PendingOK(t)'
  <2>1. PendingOK(s)'
    BY <1>0, <1>6 DEF TaskOver, PendingOK
  <2> QED
    BY <1>0, <1>1, <1>6, <2>1 DEF TaskOver
<1>7. ASSUME NEW s \in Sessions, Synthesize(s) PROVE \A t \in Sessions : PendingOK(t)'
  <2>1. /\ pc[s] = "startup" /\ pc' = [pc EXCEPT ![s] = "ready"]
        /\ inbox' = inbox /\ awaited' = awaited
    BY <1>0, <1>7 DEF Synthesize, Goto, clientVars
  <2>2. awaited[s] = 0 /\ inbox[s] = <<>>
    BY <2>1 DEF PendingOK
  <2>3. CountIn(inbox[s], Verbs) = 0
    BY <2>2, NoFrames, CountNone
  <2>4. PendingOK(s)'
    BY <1>0, <2>1, <2>2, <2>3 DEF PendingOK, Unread
  <2> QED
    BY <1>0, <1>1, <2>1, <2>4
\* The steps that neither read, nor send, nor answer.
<1>8. ASSUME NEW s \in Sessions, UNCHANGED <<inbox, awaited>>,
             \/ Goto(s, "off", "startup") \/ Goto(s, "startup", "closing")
             \/ Goto(s, "ready", "closing") \/ Goto(s, "running", "answering")
             \/ Goto(s, "running", "handling") \/ Goto(s, "handling", "answering")
             \/ Goto(s, "answering", "broken") \/ Goto(s, "answered", "ready")
             \/ Goto(s, "broken", "closing")
      PROVE  \A t \in Sessions : PendingOK(t)'
  <2>1. PendingOK(s)'
    BY <1>0, <1>8 DEF Goto, PendingOK, Unread
  <2> QED
    BY <1>0, <1>1, <1>8, <2>1 DEF Goto
<1>9. ASSUME UNCHANGED <<pc, inbox, awaited>> PROVE \A t \in Sessions : PendingOK(t)'
  BY <1>9, PendingOthers
<1>10. ASSUME NEW s \in Sessions, TaskStep(s) PROVE \A t \in Sessions : PendingOK(t)'
  BY <1>3, <1>4, <1>5, <1>6, <1>7, <1>8, <1>10
     DEF TaskStep, Reject, ReadEnd, RejectQuery, ControlQuery, CallHandler, AnswerFails,
         ClearHandle, EndSession, clientVars
<1>11. ASSUME NEW s \in Sessions,
              \/ Connect(s) \/ ClientHangup(s) \/ Abort(s) \/ CancelRequest(s)
              \/ \E st \in Statuses : HandlerSets(s, st)
              \/ \E answer \in {"result", "error"} : HandlerReturns(s, answer)
       PROVE  \A t \in Sessions : PendingOK(t)'
  BY <1>6, <1>8, <1>9, <1>11
     DEF Connect, ClientHangup, Abort, CancelRequest, HandlerSets, HandlerReturns, clientVars
<1>12. ASSUME NEW k \in inflight, FireToken(k) PROVE \A t \in Sessions : PendingOK(t)'
  BY <1>9, <1>12 DEF FireToken, clientVars
<1>13. CASE UNCHANGED vars
  BY <1>9, <1>13 DEF vars, clientVars
<1> QED
  BY <1>2, <1>10, <1>11, <1>12, <1>13 DEF CustomNext

\* Every query of a custom session is answered by one ReadyForQuery and none
\* twice, whatever the client pipelines and the handlers do (run_query).
THEOREM CustomAwaitedIsPending == CustomSpec => []AwaitedIsPending
<1>1. CustomInit => PendingInv
  BY CustomInitInv DEF PendingInv, PendingOK, CustomInit
<1>2. PendingInv => AwaitedIsPending
  <2> SUFFICES ASSUME PendingInv, NEW s \in Sessions,
                      pc[s] \in {"ready", "running", "handling", "answering", "answered"}
               PROVE  awaited[s] = Unread(s)
                        + (IF pc[s] \in {"running", "handling", "answering"} THEN 1 ELSE 0)
    BY DEF AwaitedIsPending, Unread, CountIn
  <2>1. Unread(s) \in Nat
    BY CountType DEF PendingInv, CustomInv, CustomTypeOK, Unread
  <2> QED
    BY <2>1 DEF PendingInv, PendingOK
<1> QED
  BY <1>1, <1>2, PendingStep, PTL DEF CustomSpec
=============================================================================
