------------------------------ MODULE MCRelay ------------------------------
(* Relay for TLC: answers that do not fit a socket, copies with more requests *)
(* ahead than sockets and hands hold, frames with the most that are answered. *)
EXTENDS Relay

MCMaxSent == [k \in Kinds |-> IF k = "copy" THEN Cap + 3 ELSE Cap + 1]
=============================================================================
