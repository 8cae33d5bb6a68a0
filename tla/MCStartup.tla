----------------------------- MODULE MCStartup -----------------------------
(* Startup for TLC: every combination of versions, authenticators and modes. *)
EXTENDS Startup
=============================================================================
