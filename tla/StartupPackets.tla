--------------------------- MODULE StartupPackets ---------------------------
(***************************************************************************)
(* The untagged packets that open a connection: read_startup_frame,       *)
(* StartupRequest::parse, and protocol versions (their minor).            *)
(***************************************************************************)
EXTENDS Integers

MAX_STARTUP_PACKET_LEN == 10000

\* ProtocolVersion::MAX.minor()
MaxMinor == 2

\* A packet: its code ("v3" is a version of major 3, "other" any further
\* number), its length, and whether the rest reads as a list of parameters.
Packets ==
  {p \in [code : {"ssl", "gssenc", "cancel", "v3", "other"},
          len : {7, 8, 9, 15, 16, 40, MAX_STARTUP_PACKET_LEN, MAX_STARTUP_PACKET_LEN + 1},
          params : BOOLEAN] :
     p.len = 8 => ~p.params}

\* A request code counts only in a packet of its length; otherwise it is a
\* protocol version like any other.
Parse(p) ==
  CASE p.len \notin 8 .. MAX_STARTUP_PACKET_LEN -> "invalid"
    [] p.len = 8 /\ p.code \in {"ssl", "gssenc"} -> p.code
    [] p.len >= 16 /\ p.code = "cancel" -> "cancel"
    [] OTHER -> IF p.params THEN "startup" ELSE "invalid"

\* The client sends a packet that parses as r and has one of the codes cs.
Arrives(r, cs) == \E p \in Packets : Parse(p) = r /\ p.code \in cs

AnyCode == {"ssl", "gssenc", "cancel", "v3", "other"}

\* cancel_request_frame with a key of n bytes.
CancelFrame(n) == [code |-> "cancel", len |-> 8 + n, params |-> FALSE]

Least(m, n) == IF m < n THEN m ELSE n

\* The minor version the proxy uses with a client that asks for minor m.
Negotiated(m) == Least(m, MaxMinor)
=============================================================================
