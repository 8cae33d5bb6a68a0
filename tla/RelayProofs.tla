----------------------------- MODULE RelayProofs -----------------------------
(***************************************************************************)
(* Proofs about Relay, for sockets and answers of any size and any number *)
(* of requests ahead: the counts stay within the sockets and the hands,   *)
(* and a relay that ends well leaves no frame behind.                     *)
(***************************************************************************)
EXTENDS Relay, TLAPS

\* A direction that was shut down carries nothing more.
ShutOK ==
  \A d \in shut : d \in closed /\ read[d] = sent[d] /\ written[d] = sent[d]

\* relay_to_next_rfq holds one frame at a time.
OneHand == kind = "frames" => HandEmpty("up") \/ HandEmpty("down")

\* The backend answers what it has taken, and no more.
Answers == sent["down"] + left <= taken["up"] * ReplyLen

\* At the ReadyForQuery of the last request the backend has nothing more to
\* take or to send; copying ends when both directions have.
EndOK ==
  /\ over = "ok" => shut = Dirs
  /\ over = "boundary" => /\ left = 0 /\ taken["up"] = written["up"]
                          /\ \A d \in Dirs : written[d] = sent[d]

RelayInv == RelayTypeOK /\ ShutOK /\ OneHand /\ Answers /\ EndOK
-----------------------------------------------------------------------------
\* One more request is ReplyLen frames more.
LEMMA OneMore ==
  ASSUME NEW n \in Nat, NEW r \in Nat
  PROVE  n * r \in Nat /\ (n + 1) * r = n * r + r
  OBVIOUS

\* Fewer requests have fewer frames in their answers.
LEMMA FewerFrames ==
  ASSUME NEW m \in Nat, NEW n \in Nat, NEW r \in Nat \ {0}, n * r <= m * r
  PROVE  n <= m
<1> SUFFICES ASSUME n > m PROVE FALSE
  OBVIOUS
<1>1. PICK k \in Nat : n = (m + 1) + k
  <2>1. n - (m + 1) \in Nat /\ n = (m + 1) + (n - (m + 1))
    OBVIOUS
  <2> QED
    BY <2>1
<1>2. k * r \in Nat /\ m * r \in Nat
  BY OneMore
<1>3. n * r = (m + 1) * r + k * r
  BY <1>1
<1> QED
  BY <1>2, <1>3, OneMore

\* Counting one frame in direction d.
LEMMA IncApply ==
  ASSUME NEW f \in [Dirs -> Nat], NEW d \in Dirs
  PROVE  /\ Inc(f, d) \in [Dirs -> Nat]
         /\ Inc(f, d)[d] = f[d] + 1
         /\ \A e \in Dirs \ {d} : Inc(f, d)[e] = f[e]
  BY DEF Inc

\* RelayInv holds when the relay starts.
LEMMA RelayStart == RelayInit => RelayInv
<1> SUFFICES ASSUME RelayInit PROVE RelayInv
  OBVIOUS
<1> USE RelayAssumption DEF RelayInit
<1>1. RelayTypeOK
  <2>1. [d \in Dirs |-> 0] \in [Dirs -> Nat]
    OBVIOUS
  <2>2. \A d \in Dirs : sent[d] = 0 /\ read[d] = 0 /\ written[d] = 0 /\ taken[d] = 0
    OBVIOUS
  <2>3. /\ sent \in [Dirs -> Nat] /\ read \in [Dirs -> Nat]
        /\ written \in [Dirs -> Nat] /\ taken \in [Dirs -> Nat]
    BY <2>1
  <2>4. \A d \in Dirs :
          /\ taken[d] <= written[d] /\ written[d] <= taken[d] + Cap
          /\ written[d] <= read[d] /\ read[d] <= written[d] + 1
          /\ read[d] <= sent[d] /\ sent[d] <= read[d] + Cap
    BY <2>2
  <2>5. left \in 0 .. ReplyLen
    OBVIOUS
  <2> QED
    BY <2>3, <2>4, <2>5, Zenon DEF RelayTypeOK
<1>2. ShutOK /\ OneHand /\ EndOK
  BY DEF ShutOK, OneHand, HandEmpty, EndOK, Dirs
<1>3. Answers
  BY DEF Answers, Dirs
<1> QED
  BY <1>1, <1>2, <1>3 DEF RelayInv
-----------------------------------------------------------------------------
\* Client and backend, which keep to the room in their sockets.
LEMMA PeersStep == RelayInv /\ (ClientStep \/ BackendStep \/ BackendCrash) => RelayInv'
<1> SUFFICES ASSUME RelayInv, ClientStep \/ BackendStep \/ BackendCrash PROVE RelayInv'
  OBVIOUS
<1> USE RelayAssumption DEF RelayInv, flowVars
<1>0. "up" \in Dirs /\ "down" \in Dirs /\ Dirs \ {"up"} = {"down"} /\ Dirs \ {"down"} = {"up"}
  BY DEF Dirs
<1>t. /\ sent \in [Dirs -> Nat] /\ read \in [Dirs -> Nat]
      /\ written \in [Dirs -> Nat] /\ taken \in [Dirs -> Nat]
  BY DEF RelayTypeOK
<1>1. ASSUME NEW l \in {"none", "sync", "terminate"}, ClientSend(l) PROVE RelayInv'
  <2>1. /\ sent' \in [Dirs -> Nat] /\ sent'["up"] = sent["up"] + 1
        /\ sent'["down"] = sent["down"]
    BY <1>0, <1>t, <1>1, IncApply DEF ClientSend
  <2>2. RelayTypeOK'
    BY <1>0, <1>1, <2>1 DEF ClientSend, RelayTypeOK
  <2>3. (ShutOK /\ OneHand /\ Answers /\ EndOK)'
    BY <1>0, <1>1, <2>1 DEF ClientSend, ShutOK, OneHand, HandEmpty, Answers, EndOK, RelayTypeOK
  <2> QED
    BY <2>2, <2>3
<1>2. CASE ClientReceive
  <2>1. /\ taken' \in [Dirs -> Nat] /\ taken'["down"] = taken["down"] + 1
        /\ taken'["up"] = taken["up"]
    BY <1>0, <1>t, <1>2, IncApply DEF ClientReceive
  <2>2. RelayTypeOK'
    BY <1>0, <1>2, <2>1 DEF ClientReceive, RelayTypeOK
  <2>3. (ShutOK /\ OneHand /\ Answers /\ EndOK)'
    BY <1>0, <1>2, <2>1 DEF ClientReceive, ShutOK, OneHand, HandEmpty, Answers, EndOK
  <2> QED
    BY <2>2, <2>3
<1>3. CASE ClientShutdown \/ ClientCloses
  <2>1. RelayTypeOK'
    BY <1>0, <1>3 DEF ClientShutdown, ClientCloses, RelayTypeOK
  <2>2. (ShutOK /\ OneHand /\ Answers /\ EndOK)'
    BY <1>3 DEF ClientShutdown, ClientCloses, ShutOK, OneHand, HandEmpty, Answers, EndOK
  <2> QED
    BY <2>1, <2>2
<1>4. CASE BackendTake
  <2>1. /\ taken' \in [Dirs -> Nat] /\ taken'["up"] = taken["up"] + 1
        /\ taken'["down"] = taken["down"]
    BY <1>0, <1>t, <1>4, IncApply DEF BackendTake
  <2>2. RelayTypeOK'
    BY <1>0, <1>4, <2>1 DEF BackendTake, RelayTypeOK
  <2>3. (ShutOK /\ OneHand /\ EndOK)'
    BY <1>0, <1>4, <2>1 DEF BackendTake, ShutOK, OneHand, HandEmpty, EndOK, RelayTypeOK
  <2>4. taken["up"] \in Nat /\ sent["down"] \in Nat /\ ReplyLen \in Nat
    BY <1>0, <1>t
  <2>5. taken["up"] * ReplyLen \in Nat
        /\ (taken["up"] + 1) * ReplyLen = taken["up"] * ReplyLen + ReplyLen
    BY <2>4, OneMore
  <2>6. sent' = sent /\ left = 0 /\ left' \in {0, ReplyLen}
    BY <1>4 DEF BackendTake
  <2>7. sent["down"] + left <= taken["up"] * ReplyLen
    BY DEF Answers
  <2>8. sent["down"] + left' <= taken["up"] * ReplyLen + ReplyLen
    BY <2>4, <2>5, <2>6, <2>7
  <2>9. sent'["down"] + left' <= taken'["up"] * ReplyLen
    BY <2>1, <2>5, <2>6, <2>8
  <2> QED
    BY <2>2, <2>3, <2>9 DEF Answers
<1>5. CASE BackendEmit
  <2>1. /\ sent' \in [Dirs -> Nat] /\ sent'["down"] = sent["down"] + 1
        /\ sent'["up"] = sent["up"]
    BY <1>0, <1>t, <1>5, IncApply DEF BackendEmit
  <2>2. RelayTypeOK'
    BY <1>0, <1>5, <2>1 DEF BackendEmit, RelayTypeOK
  <2>3. (ShutOK /\ OneHand /\ EndOK)'
    BY <1>0, <1>5, <2>1 DEF BackendEmit, Alive, ShutOK, OneHand, HandEmpty, EndOK, RelayTypeOK
  <2>4. sent'["down"] + left' = sent["down"] + left /\ taken' = taken
    BY <1>0, <1>t, <1>5, <2>1 DEF BackendEmit, RelayTypeOK
  <2> QED
    BY <2>2, <2>3, <2>4 DEF Answers
<1>6. CASE BackendEnds
  <2>1. RelayTypeOK'
    BY <1>0, <1>6 DEF BackendEnds, RelayTypeOK
  <2>2. (ShutOK /\ OneHand /\ Answers /\ EndOK)'
    BY <1>6 DEF BackendEnds, ShutOK, OneHand, HandEmpty, Answers, EndOK
  <2> QED
    BY <2>1, <2>2
<1>7. CASE BackendCrash
  <2>1. RelayTypeOK'
    BY <1>0, <1>7 DEF BackendCrash, RelayTypeOK
  <2>2. (ShutOK /\ OneHand /\ EndOK)'
    BY <1>7 DEF BackendCrash, ShutOK, OneHand, HandEmpty, EndOK
  <2>3. sent["down"] \in Nat /\ taken["up"] * ReplyLen \in Nat /\ left \in Nat
    BY <1>0, <1>t, OneMore DEF RelayTypeOK
  <2>4. Answers'
    BY <1>7, <2>3 DEF BackendCrash, Answers
  <2> QED
    BY <2>1, <2>2, <2>4
<1> QED
  BY <1>1, <1>2, <1>3, <1>4, <1>5, <1>6, <1>7 DEF ClientStep, BackendStep

\* Taking a frame into an empty hand.
LEMMA TakeStep ==
  ASSUME RelayInv, NEW d \in Dirs, Take(d),
         kind = "frames" => \A e \in Dirs : HandEmpty(e)
  PROVE  RelayInv'
<1> USE RelayAssumption DEF RelayInv
<1>0. "up" \in Dirs /\ "down" \in Dirs /\ Dirs \ {"up"} = {"down"} /\ Dirs \ {"down"} = {"up"}
  BY DEF Dirs
<1>1. /\ read' \in [Dirs -> Nat] /\ read'[d] = read[d] + 1
      /\ \A e \in Dirs \ {d} : read'[e] = read[e]
  BY IncApply DEF Take, RelayTypeOK
<1>2. RelayTypeOK'
  BY <1>1 DEF Take, HandEmpty, RelayTypeOK
<1>3. ShutOK'
  BY <1>1 DEF Take, HandEmpty, RelayTypeOK, ShutOK
<1>4. OneHand'
  BY <1>0, <1>1 DEF Take, HandEmpty, OneHand
<1>5. (Answers /\ EndOK)'
  BY DEF Take, Answers, EndOK
<1> QED
  BY <1>2, <1>3, <1>4, <1>5

\* Writing a frame, in a relay that goes on or is given up.
LEMMA PutStep ==
  ASSUME RelayInv, NEW d \in Dirs, Put(d), over' \in {"no", "gone"}
  PROVE  RelayInv'
<1> USE RelayAssumption DEF RelayInv
<1>0. "up" \in Dirs /\ "down" \in Dirs /\ Dirs \ {"up"} = {"down"} /\ Dirs \ {"down"} = {"up"}
  BY DEF Dirs
<1>1. /\ written' \in [Dirs -> Nat] /\ written'[d] = written[d] + 1
      /\ \A e \in Dirs \ {d} : written'[e] = written[e]
  BY IncApply DEF Put, RelayTypeOK
<1>2. RelayTypeOK'
  BY <1>1 DEF Put, HandEmpty, RelayTypeOK
<1>3. ShutOK'
  BY <1>1 DEF Put, HandEmpty, RelayTypeOK, ShutOK
<1>4. OneHand'
  BY <1>0, <1>1 DEF Put, HandEmpty, OneHand, RelayTypeOK
<1>5. (Answers /\ EndOK)'
  BY DEF Put, Answers, EndOK
<1> QED
  BY <1>2, <1>3, <1>4, <1>5

\* The frame that ends the statement.  The client is given as many frames as all
\* its requests are answered with, so the backend took all of them and has sent
\* its last frame; with one frame in hand, none of the client's is held back.
LEMMA BoundaryStep ==
  ASSUME RelayInv, kind = "frames", Put("down"), IsReady(written["down"] + 1),
         over' = "boundary"
  PROVE  RelayInv'
<1> USE RelayAssumption DEF RelayInv
<1>0. "up" \in Dirs /\ "down" \in Dirs /\ Dirs \ {"up"} = {"down"} /\ Dirs \ {"down"} = {"up"}
  BY DEF Dirs
<1>1. /\ written' \in [Dirs -> Nat] /\ written'["down"] = written["down"] + 1
      /\ written'["up"] = written["up"]
  BY <1>0, IncApply DEF Put, RelayTypeOK
<1>2. RelayTypeOK'
  BY <1>0, <1>1 DEF Put, HandEmpty, RelayTypeOK
<1>3. ShutOK'
  BY <1>0, <1>1 DEF Put, HandEmpty, RelayTypeOK, ShutOK
<1>4. (OneHand /\ Answers)'
  BY <1>0, <1>1 DEF Put, HandEmpty, OneHand, Answers, RelayTypeOK
<1>5. /\ sent["up"] \in Nat /\ taken["up"] \in Nat /\ left \in Nat
      /\ read["up"] \in Nat /\ written["up"] \in Nat
      /\ written["down"] \in Nat /\ sent["down"] \in Nat /\ read["down"] \in Nat
      /\ taken["up"] <= written["up"] /\ written["up"] <= read["up"] /\ read["up"] <= sent["up"]
      /\ written["down"] + 1 <= sent["down"]
  BY <1>0 DEF RelayTypeOK, Put, HandEmpty
<1>6. written["down"] + 1 = sent["up"] * ReplyLen
      /\ sent["down"] + left <= taken["up"] * ReplyLen
  BY DEF IsReady, Answers
<1>7. sent["up"] * ReplyLen <= taken["up"] * ReplyLen
  <2>1. sent["up"] * ReplyLen \in Nat /\ taken["up"] * ReplyLen \in Nat
    BY <1>5, OneMore
  <2> QED
    BY <1>5, <1>6, <2>1
<1>8. sent["up"] <= taken["up"]
  BY <1>5, <1>7, FewerFrames
<1>9. taken["up"] = sent["up"] /\ written["up"] = sent["up"]
  BY <1>5, <1>8
<1>10. sent["down"] + left <= written["down"] + 1
  BY <1>6, <1>9
<1>11. left = 0 /\ sent["down"] = written["down"] + 1
  BY <1>5, <1>10
<1>12. EndOK'
  BY <1>0, <1>1, <1>9, <1>11 DEF EndOK, Put
<1> QED
  BY <1>2, <1>3, <1>4, <1>12

\* An end that passes on no frame leaves the counts alone.
LEMMA StopStep ==
  ASSUME RelayInv, NEW how \in {"ok", "gone", "error"}, End(how), how = "ok" => shut = Dirs
  PROVE  RelayInv'
  BY DEF RelayInv, End, flowVars, RelayTypeOK, ShutOK, OneHand, HandEmpty, Answers, EndOK

\* RelayInv is inductive.
LEMMA RelayStep == RelayInv /\ [RelayNext]_vars => RelayInv'
<1> SUFFICES ASSUME RelayInv, [RelayNext]_vars PROVE RelayInv'
  OBVIOUS
<1>0. "up" \in Dirs /\ "down" \in Dirs
  BY DEF Dirs
<1>1. CASE ClientStep \/ BackendStep \/ BackendCrash
  BY <1>1, PeersStep
<1>2. CASE FrameFromBackend \/ FrameFromClient
  BY <1>0, <1>2, TakeStep DEF FrameFromBackend, FrameFromClient, Selecting
<1>3. CASE FrameToClient
  <2>1. CASE IsReady(written["down"] + 1)
    BY <1>3, <2>1, BoundaryStep DEF FrameToClient
  <2>2. CASE ~IsReady(written["down"] + 1)
    BY <1>0, <1>3, <2>2, PutStep DEF FrameToClient
  <2> QED
    BY <2>1, <2>2
<1>4. CASE FrameToBackend
  BY <1>0, <1>4, PutStep DEF FrameToBackend
<1>5. CASE FrameEnd
  BY <1>5, StopStep DEF FrameEnd
<1>6. CASE FrameFails
  BY <1>6, StopStep DEF FrameFails
<1>7. ASSUME NEW d \in Dirs, CopyStep(d) PROVE RelayInv'
  <2>1. CASE CopyRead(d)
    BY <2>1, TakeStep DEF CopyRead
  <2>2. CASE CopyWrite(d)
    BY <2>2, PutStep DEF CopyWrite, Put
  <2>3. CASE CopyShutdown(d)
    BY <2>3 DEF CopyShutdown, AtEnd, HandEmpty, flowVars, RelayInv, RelayTypeOK, ShutOK, OneHand,
                Answers, EndOK
  <2> QED
    BY <1>7, <2>1, <2>2, <2>3 DEF CopyStep
<1>8. CASE CopyDone \/ CopyFails
  BY <1>8, StopStep DEF CopyDone, CopyFails
<1>9. CASE UNCHANGED vars
  BY <1>9 DEF vars, flowVars, RelayInv, RelayTypeOK, ShutOK, OneHand, HandEmpty, Answers, EndOK
<1> QED
  BY <1>1, <1>2, <1>3, <1>4, <1>5, <1>6, <1>7, <1>8, <1>9 DEF RelayNext, FrameStep

\* A relay that ended well has passed every frame on.
LEMMA EndIsDrained == RelayInv => DrainedAtEnd
<1> SUFFICES ASSUME RelayInv, over \in {"ok", "boundary"} PROVE written = sent
  BY DEF DrainedAtEnd
<1>1. \A d \in Dirs : written[d] = sent[d]
  BY DEF RelayInv, EndOK, ShutOK
<1>2. written \in [Dirs -> Nat] /\ sent \in [Dirs -> Nat]
  BY DEF RelayInv, RelayTypeOK
<1> QED
  BY <1>1, <1>2

\* Both relays keep to the room in the sockets and to their hands: no frame is
\* written that was not read, or read that was not sent (copy_bidirectional,
\* relay_to_next_rfq).
THEOREM RelayTyped == RelaySpec => []RelayTypeOK
<1>1. RelayInv => RelayTypeOK
  BY DEF RelayInv
<1> QED
  BY <1>1, RelayStart, RelayStep, PTL DEF RelaySpec

\* A relay that ends well has passed on every frame sent, in both directions,
\* however long the answers and however far the client was ahead
\* (copy_bidirectional, relay_to_next_rfq).
THEOREM RelayDrained == RelaySpec => []DrainedAtEnd
  BY EndIsDrained, RelayStart, RelayStep, PTL DEF RelaySpec
=============================================================================
