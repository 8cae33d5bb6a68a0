------------------------- MODULE FramedReaderProofs -------------------------
(***************************************************************************)
(* Proofs about FramedReader: frames come out whole and in order, for     *)
(* every stream and every pattern of short reads and cancelled calls.     *)
(***************************************************************************)
EXTENDS FramedReader, TLAPS

\* A clean end was found at the end of all that arrived, between two frames.
EofAtEnd == result = "eof" => closed /\ buf = 0 /\ taken = arrived

ReaderInv ==
  /\ ReaderTypeOK
  /\ ExactFrames
  /\ NoReadAhead
  /\ EofAtEnd

\* What is assumed of a stream, in the form the proofs use it.
LEMMA StreamFacts ==
  ASSUME NEW e \in Streams
  PROVE  /\ e \in Seq(Nat) /\ Len(e) \in Nat \ {0} /\ DOMAIN e = 1 .. Len(e)
         /\ e[1] = 0
         /\ \A i \in 1 .. Len(e) : e[i] \in Nat
         /\ \A i, j \in 1 .. Len(e) : i < j => e[j] > e[i]
<1>1. e \in Seq(Nat)
  BY StreamAssumption
<1>2. Len(e) > 0 /\ e[1] = 0 /\ \A i, j \in 1 .. Len(e) : i < j => e[j] > e[i]
  BY StreamAssumption
<1> QED
  BY <1>1, <1>2

\* A new reader satisfies the invariant.
LEMMA ReaderInitInv == ReaderInit => ReaderInv
<1> SUFFICES ASSUME ReaderInit PROVE ReaderInv
  OBVIOUS
<1>1. /\ Len(ends) \in Nat \ {0} /\ ends[1] = 0
      /\ \A i \in 1 .. Len(ends) : ends[i] \in Nat
  BY StreamFacts DEF ReaderInit
<1>2. out = <<>> /\ Len(out) = 0 /\ DOMAIN out = {} /\ out \in Seq(Nat \X Nat)
  BY DEF ReaderInit
<1>3. ReaderTypeOK
  <2>1. Total \in Nat
    BY <1>1 DEF Total
  <2>2. arrived \in 0 .. Total /\ taken \in 0 .. arrived /\ buf \in 0 .. taken
    BY <2>1 DEF ReaderInit
  <2> QED
    BY <1>2, <2>2, Zenon DEF ReaderInit, ReaderTypeOK
<1>4. ExactFrames
  BY <1>1, <1>2 DEF ReaderInit, ExactFrames
<1>5. Len(out) + 1 < Len(ends) => taken <= ends[Len(out) + 2]
  BY <1>1, <1>2 DEF ReaderInit
<1>6. NoReadAhead
  BY <1>1, <1>2, <1>5 DEF ReaderInit, NoReadAhead
<1> QED
  BY <1>3, <1>4, <1>6 DEF ReaderInit, ReaderInv, EofAtEnd

\* The header at the front of the buffer is that of the next frame to return:
\* boundaries are strictly increasing, so no other frame starts there.
LEMMA AtNext ==
  ASSUME ReaderInv, NEW i \in DOMAIN ends, At(i)
  PROVE  i = Len(out) + 1 /\ i + 1 \in DOMAIN ends
<1>1. /\ Len(ends) \in Nat \ {0} /\ DOMAIN ends = 1 .. Len(ends)
      /\ \A j \in 1 .. Len(ends) : ends[j] \in Nat
      /\ \A j, k \in 1 .. Len(ends) : j < k => ends[k] > ends[j]
  BY StreamFacts DEF ReaderInv, ReaderTypeOK
<1>2. Len(out) \in Nat /\ Len(out) < Len(ends) /\ ends[Len(out) + 1] = taken - buf
  BY DEF ReaderInv, ReaderTypeOK, ExactFrames, NoReadAhead
<1>3. i \in 1 .. Len(ends) - 1 /\ ends[i] = taken - buf
  BY DEF At
<1>4. i = Len(out) + 1
  BY <1>1, <1>2, <1>3
<1> QED
  BY <1>1, <1>3, <1>4

\* Every step of the peer, of the reader and of select! preserves the invariant.
LEMMA ReaderNextInv == ReaderInv /\ [ReaderNext]_vars => ReaderInv'
<1> SUFFICES ASSUME ReaderInv, [ReaderNext]_vars PROVE ReaderInv'
  OBVIOUS
<1>a. /\ ends \in Seq(Nat) /\ Len(ends) \in Nat \ {0} /\ DOMAIN ends = 1 .. Len(ends)
      /\ \A j \in 1 .. Len(ends) : ends[j] \in Nat
      /\ \A j, k \in 1 .. Len(ends) : j < k => ends[k] > ends[j]
  BY StreamFacts DEF ReaderInv, ReaderTypeOK
<1>0. /\ ends \in Seq(Nat) /\ Len(ends) \in Nat \ {0} /\ out \in Seq(Nat \X Nat)
      /\ Len(out) \in Nat /\ Len(out) < Len(ends)
      /\ \A j \in 1 .. Len(ends) : ends[j] \in Nat
      /\ Total \in Nat /\ arrived \in Nat /\ taken \in Nat /\ buf \in Nat
  BY <1>a DEF ReaderInv, ReaderTypeOK, ExactFrames, Total
<1>1. ASSUME NEW n \in 1 .. Total, Arrive(n) PROVE ReaderInv'
  BY <1>0, <1>1
  DEF ReaderInv, ReaderTypeOK, ExactFrames, NoReadAhead, EofAtEnd, Arrive, Total, Valid, Size
<1>2. ASSUME PeerCloses \/ Call \/ Cancel PROVE ReaderInv'
  BY <1>0, <1>2
  DEF ReaderInv, ReaderTypeOK, ExactFrames, NoReadAhead, EofAtEnd, Total, Valid, Size,
      PeerCloses, Call, Cancel
<1>3. ASSUME NEW n \in 1 .. Total, Fill(n) PROVE ReaderInv'
  <2>1. PICK i \in DOMAIN ends :
           /\ At(i)
           /\ buf >= HeaderLen => Valid(i) /\ buf # Size(i)
           /\ n \in 1 .. Missing(i)
    BY <1>3 DEF Fill
  <2>2. i = Len(out) + 1 /\ i + 1 \in DOMAIN ends
    BY <2>1, AtNext
  <2>4. Valid(Len(out) + 1) => taken + n <= ends[Len(out) + 2]
    <3> SUFFICES ASSUME Valid(i) PROVE taken + n <= ends[Len(out) + 2]
      BY <2>2
    <3>1. /\ ends[i] \in Nat /\ ends[i + 1] \in Nat
          /\ taken \in Nat /\ buf \in Nat /\ Len(out) \in Nat
      BY <1>a, <1>0, <2>2
    <3>2. ends[i] = taken - buf /\ n \in Int /\ n <= Missing(i)
      BY <2>1 DEF At
    <3>3. Missing(i) \in Int /\ Missing(i) <= ends[i + 1] - ends[i] - buf
      <4>1. MaxLen \in Nat /\ ends[i + 1] - ends[i] >= 5
        BY <3>1, StreamAssumption DEF Valid, Size
      <4> QED
        BY <3>1, <4>1 DEF Missing, Size, HeaderLen
    <3>4. ends[Len(out) + 2] = ends[i + 1]
      BY <2>2, <3>1
    <3> QED
      BY <3>1, <3>2, <3>3, <3>4
  <2>5. result # "eof"
    BY <1>0, <1>3 DEF ReaderInv, EofAtEnd, Fill
  <2> QED
    BY <1>0, <1>3, <2>2, <2>4, <2>5
    DEF ReaderInv, ReaderTypeOK, ExactFrames, NoReadAhead, EofAtEnd, Fill, Total, Valid, Size
<1>4. ASSUME Return PROVE ReaderInv'
  <2>0. /\ buf' = 0 /\ reading' = FALSE
        /\ UNCHANGED <<way, ends, arrived, closed, taken, result>>
    BY <1>4 DEF Return
  <2>1. PICK i \in DOMAIN ends :
           /\ At(i) /\ buf >= HeaderLen /\ buf = Size(i)
           /\ out' = Append(out, <<taken - buf, taken>>)
    BY <1>4 DEF Return
  <2>2. i = Len(out) + 1 /\ i + 1 \in DOMAIN ends
    BY <2>1, AtNext
  <2>3. taken - buf = ends[i] /\ taken = ends[i + 1]
    <3>1. ends[i] \in Nat /\ ends[i + 1] \in Nat /\ taken \in Nat /\ buf \in Nat
      BY <1>a, <1>0, <2>2
    <3>2. taken - buf = ends[i] /\ buf = ends[i + 1] - ends[i]
      BY <2>1 DEF At, Size
    <3> QED
      BY <3>1, <3>2
  <2>4. out' = Append(out, <<ends[i], ends[i + 1]>>)
    BY <2>1, <2>3
  <2>5. /\ out' \in Seq(Nat \X Nat) /\ Len(out') = i
        /\ \A j \in 1 .. i - 1 : out'[j] = out[j]
        /\ out'[i] = <<ends[i], ends[i + 1]>>
    <3>1. <<ends[i], ends[i + 1]>> \in Nat \X Nat
      BY <1>a, <2>2
    <3> QED
      BY <1>0, <2>2, <2>4, <3>1
  <2>6. ExactFrames'
    <3>0. DOMAIN out = 1 .. Len(out) /\ DOMAIN out' = 1 .. Len(out')
      BY <1>0, <2>5
    <3>1. \A j \in 1 .. Len(out) : out[j] = <<ends[j], ends[j + 1]>>
      BY <3>0, Zenon DEF ReaderInv, ExactFrames
    <3>2. ASSUME NEW j \in 1 .. i PROVE out'[j] = <<ends[j], ends[j + 1]>>
      <4>1. CASE j = i
        BY <2>5, <4>1, Zenon
      <4>2. CASE j # i
        <5>1. j \in 1 .. i - 1 /\ j \in 1 .. Len(out)
          BY <1>0, <2>2, <4>2
        <5> QED
          BY <2>5, <3>1, <5>1, Zenon
      <4> QED
        BY <4>1, <4>2
    <3>3. Len(out') < Len(ends')
      BY <1>a, <1>0, <2>0, <2>2, <2>5
    <3> QED
      BY <2>0, <2>5, <3>0, <3>2, <3>3, Zenon DEF ExactFrames
  <2>7. NoReadAhead'
    <3>1. i + 1 < Len(ends) => ends[i + 2] > ends[i + 1]
      BY <1>a, <1>0, <2>2
    <3>2. i + 1 < Len(ends) => taken <= ends[i + 2]
      <4> SUFFICES ASSUME i + 1 < Len(ends) PROVE taken <= ends[i + 2]
        OBVIOUS
      <4>1. i + 2 \in 1 .. Len(ends)
        BY <1>a, <1>0, <2>2
      <4>2. ends[i + 2] \in Nat
        BY <1>a, <4>1
      <4>3. taken \in Nat /\ taken = ends[i + 1]
        BY <1>0, <2>3
      <4> QED
        BY <3>1, <4>2, <4>3
    <3>3. ends[i + 1] = taken - 0
      BY <1>0, <2>3
    <3> QED
      BY <1>0, <2>0, <2>2, <2>5, <3>2, <3>3 DEF NoReadAhead
  <2>8. ReaderTypeOK'
    <3>1. buf' \in 0 .. taken'
      BY <1>0, <2>0
    <3>2. Total' = Total
      BY <2>0 DEF Total
    <3> QED
      BY <2>0, <2>5, <3>1, <3>2, Zenon DEF ReaderInv, ReaderTypeOK
  <2>9. EofAtEnd'
    BY <2>0 DEF ReaderInv, EofAtEnd
  <2> QED
    BY <2>6, <2>7, <2>8, <2>9 DEF ReaderInv
<1>5. ASSUME Invalid PROVE ReaderInv'
  BY <1>0, <1>5
  DEF ReaderInv, ReaderTypeOK, ExactFrames, NoReadAhead, EofAtEnd, Invalid, Total, Valid, Size
<1>6. ASSUME Eof PROVE ReaderInv'
  BY <1>0, <1>6
  DEF ReaderInv, ReaderTypeOK, ExactFrames, NoReadAhead, EofAtEnd, Total, Valid, Size,
      Eof, EofResult
<1>7. CASE UNCHANGED vars
  BY <1>0, <1>7
  DEF ReaderInv, ReaderTypeOK, ExactFrames, NoReadAhead, EofAtEnd, vars, Total, Valid, Size
<1> QED
  BY <1>1, <1>2, <1>3, <1>4, <1>5, <1>6, <1>7 DEF ReaderNext
-----------------------------------------------------------------------------
(* The theorems *)

\* The reader's state stays in step with the stream's frame boundaries.
THEOREM ReaderInvariant == ReaderSpec => []ReaderInv
BY ReaderInitInv, ReaderNextInv, PTL DEF ReaderSpec

\* FramedReader's variables keep their types.
THEOREM ReaderTyped == ReaderSpec => []ReaderTypeOK
<1>1. ReaderInv => ReaderTypeOK
  BY DEF ReaderInv
<1> QED
  BY <1>1, ReaderInvariant, PTL

\* read_frame is cancel-safe: the frames returned are the frames sent, in order
\* and whole, whichever calls were dropped.
THEOREM ReaderExactFrames == ReaderSpec => []ExactFrames
<1>1. ReaderInv => ExactFrames
  BY DEF ReaderInv
<1> QED
  BY <1>1, ReaderInvariant, PTL

\* A reader dropped between two frames takes no byte of the next one with it.
THEOREM ReaderNoReadAhead == ReaderSpec => []NoReadAhead
<1>1. ReaderInv => NoReadAhead
  BY DEF ReaderInv
<1> QED
  BY <1>1, ReaderInvariant, PTL

\* A stream cut off inside a frame is never reported as a clean end.
THEOREM ReaderCleanEnd == ReaderSpec => []CleanEnd
<1>1. ReaderInv => CleanEnd
  <2> SUFFICES ASSUME ReaderInv, result = "eof" PROVE \E i \in DOMAIN ends : arrived = ends[i]
    BY DEF CleanEnd
  <2>1. Len(out) + 1 \in DOMAIN ends
    BY StreamFacts DEF ReaderInv, ReaderTypeOK, ExactFrames
  <2>2. arrived = ends[Len(out) + 1]
    BY DEF ReaderInv, ReaderTypeOK, NoReadAhead, EofAtEnd
  <2> QED
    BY <2>1, <2>2
<1> QED
  BY <1>1, ReaderInvariant, PTL
=============================================================================
