---------------------------- MODULE FramedReader ----------------------------
(***************************************************************************)
(* Reading frames off a stream: FramedReader::read_frame, raced and       *)
(* dropped by select! again and again, or read_message, whose callers run *)
(* it to its end because what it has read is lost with it.                *)
(*                                                                         *)
(* A stream is the sequence of its frame boundaries: frame i is the bytes *)
(* from ends[i] up to ends[i + 1], header included.  Bytes are counted,   *)
(* not represented: the reader has taken the first `taken` bytes off the  *)
(* socket and still buffers the last `buf` of them, so the frame it is    *)
(* parsing starts at byte taken - buf.  A boundary is where the header    *)
(* says its frame ends, which may be less than a header further on.       *)
(***************************************************************************)
EXTENDS Integers, Sequences

CONSTANTS
  Streams,    \* the streams a peer may send
  MaxLen      \* max_len: the encoded length includes its own four bytes

\* The tag and the four length bytes.
HeaderLen == 5

ASSUME StreamAssumption ==
  /\ MaxLen \in Nat
  /\ Streams \subseteq Seq(Nat)
  /\ \A e \in Streams :
        /\ Len(e) > 0 /\ e[1] = 0
        /\ \A i, j \in 1 .. Len(e) : i < j => e[j] > e[i]

VARIABLES
  way,      \* how the owner reads, fixed: "frame" or "message"
  ends,     \* the frame boundaries of the stream
  arrived,  \* bytes that reached the socket
  closed,   \* the peer sends nothing more
  taken,    \* bytes read from the socket
  buf,      \* bytes of them in the reader's buffer
  reading,  \* a read_frame() future is being polled
  out,      \* the frames returned, as <<first byte, byte after the last>>
  result    \* "open", or how the stream ended for the reader

vars == <<way, ends, arrived, closed, taken, buf, reading, out, result>>

Total == ends[Len(ends)]

ReaderTypeOK ==
  /\ way \in {"frame", "message"}
  /\ ends \in Streams
  /\ arrived \in 0 .. Total
  /\ closed \in BOOLEAN
  /\ taken \in 0 .. arrived
  /\ buf \in 0 .. taken
  /\ reading \in BOOLEAN
  /\ out \in Seq(Nat \X Nat)
  /\ result \in {"open", "eof", "truncated", "invalid"}

ReaderInit ==
  /\ way \in {"frame", "message"}
  /\ ends \in Streams
  /\ arrived = 0
  /\ closed = FALSE
  /\ taken = 0
  /\ buf = 0
  /\ reading = FALSE
  /\ out = <<>>
  /\ result = "open"
-----------------------------------------------------------------------------
(* The peer *)

Arrive(n) ==
  /\ ~closed /\ n \in arrived + 1 .. Total
  /\ arrived' = n
  /\ UNCHANGED <<way, ends, closed, taken, buf, reading, out, result>>

\* The peer closes its side, at the end of the stream or anywhere before it.
PeerCloses ==
  /\ ~closed
  /\ closed' = TRUE
  /\ UNCHANGED <<way, ends, arrived, taken, buf, reading, out, result>>
-----------------------------------------------------------------------------
(* read_frame and read_message *)

Call ==
  /\ ~reading /\ result = "open"
  /\ reading' = TRUE
  /\ UNCHANGED <<way, ends, arrived, closed, taken, buf, out, result>>

\* Mutant: the bytes read so far belong to the future (as in read_message).
CancelLoses ==
  /\ reading /\ way = "frame"
  /\ reading' = FALSE
  /\ buf' = 0
  /\ UNCHANGED <<way, ends, arrived, closed, taken, out, result>>

\* Another branch of select! won: the future is dropped, the buffer stays.
Cancel ==
  /\ reading /\ way = "frame"
  /\ reading' = FALSE
  /\ UNCHANGED <<way, ends, arrived, closed, taken, buf, out, result>>

\* The header at the front of the buffer is that of frame i.
At(i) == i \in 1 .. Len(ends) - 1 /\ ends[i] = taken - buf

Size(i) == ends[i + 1] - ends[i]

\* MessageHeader::parse: the length counts itself and not the tag.
Valid(i) == Size(i) - 1 \in 4 .. MaxLen

\* Mutant: a read takes whatever the socket has.
MissingUnbounded(i) == Total

\* How many bytes to ask for: the rest of the header, then of the frame.
Missing(i) == IF buf < HeaderLen THEN HeaderLen - buf ELSE Size(i) - buf

\* Mutant: a short read counts as a complete one.
FillShortRead(n) ==
  /\ reading
  /\ \E i \in DOMAIN ends :
       /\ At(i)
       /\ buf >= HeaderLen => Valid(i) /\ buf # Size(i)
       /\ n = Missing(i)
  /\ taken < arrived
  /\ taken' = taken + n
  /\ buf' = buf + n
  /\ UNCHANGED <<way, ends, arrived, closed, reading, out, result>>

\* read_buf, or read_exact for the header, limited to what is missing.
Fill(n) ==
  /\ reading
  /\ \E i \in DOMAIN ends :
       /\ At(i)
       /\ buf >= HeaderLen => Valid(i) /\ buf # Size(i)
       /\ n \in 1 .. Missing(i)
  /\ taken + n <= arrived
  /\ taken' = taken + n
  /\ buf' = buf + n
  /\ UNCHANGED <<way, ends, arrived, closed, reading, out, result>>

\* Mutant: a frame is returned with its header alone.
ReturnEarly ==
  /\ reading
  /\ buf >= HeaderLen
  /\ out' = Append(out, <<taken - buf, taken>>)
  /\ buf' = 0
  /\ reading' = FALSE
  /\ UNCHANGED <<way, ends, arrived, closed, taken, result>>

\* The frame is complete: split it off the buffer.
Return ==
  /\ reading
  /\ \E i \in DOMAIN ends :
       /\ At(i)
       /\ buf >= HeaderLen /\ Valid(i) /\ buf = Size(i)
       /\ out' = Append(out, <<taken - buf, taken>>)
  /\ buf' = 0
  /\ reading' = FALSE
  /\ UNCHANGED <<way, ends, arrived, closed, taken, result>>

\* The header announces less than the length field's own bytes, or more than
\* max_len.
Invalid ==
  /\ reading /\ buf >= HeaderLen
  /\ \E i \in DOMAIN ends : At(i) /\ ~Valid(i)
  /\ result' = "invalid"
  /\ reading' = FALSE
  /\ UNCHANGED <<way, ends, arrived, closed, taken, buf, out>>

\* Mutant: the end of the stream is never an error.
EofResultLax == "eof"

\* A clean end only between two frames, and only for who may expect it.
EofResult == IF buf = 0 /\ way = "frame" THEN "eof" ELSE "truncated"

\* A read of zero bytes while bytes are missing.
Eof ==
  /\ reading /\ closed /\ taken = arrived
  /\ \/ buf < HeaderLen
     \/ \E i \in DOMAIN ends : At(i) /\ Valid(i) /\ buf # Size(i)
  /\ result' = EofResult
  /\ reading' = FALSE
  /\ UNCHANGED <<way, ends, arrived, closed, taken, buf, out>>

ReaderNext ==
  \/ \E n \in 1 .. Total : Arrive(n) \/ Fill(n)
  \/ PeerCloses \/ Call \/ Cancel \/ Return \/ Invalid \/ Eof

ReaderSpec == ReaderInit /\ [][ReaderNext]_vars

\* The owner calls read_frame again after it lost a race, and a poll that finds
\* bytes takes them; it may lose races forever (SF).
ReaderFairSpec ==
  /\ ReaderSpec
  /\ WF_vars(Call)
  /\ SF_vars(\E n \in 1 .. Total : Fill(n))
  /\ SF_vars(Return \/ Invalid \/ Eof)
-----------------------------------------------------------------------------
(* Properties *)

\* What comes out is what was sent: the i-th frame returned is the i-th frame
\* of the stream, whole, however the reads were split and cancelled.
ExactFrames ==
  Len(out) < Len(ends)
  /\ \A i \in DOMAIN out : out[i] = <<ends[i], ends[i + 1]>>

\* No byte of the next frame is taken before this one, if it is a legal one, is
\* returned: a reader dropped between two frames loses nothing, which is what
\* the fresh reader of relay_to_next_rfq and the reset that reads after it rely
\* on.
NoReadAhead ==
  LET i == Len(out) + 1
  IN  /\ ends[i] = taken - buf
      /\ i < Len(ends) /\ Valid(i) => taken <= ends[i + 1]

\* The reader reports a clean end only if no frame was cut off.
CleanEnd == result = "eof" => \E i \in DOMAIN ends : arrived = ends[i]

\* Every frame that arrived whole is returned, no matter how often read_frame
\* is cancelled, unless an illegal one comes first; and an illegal one is told.
AllReturned ==
  \A i \in 1 .. 2 :
     (i < Len(ends) /\ arrived >= ends[i + 1] /\ arrived >= ends[i] + HeaderLen)
        ~> (result = "invalid" \/ (Len(out) >= i /\ Valid(i)))
=============================================================================
