------------------------- MODULE MCCustomForwarder -------------------------
(* CustomForwarder for TLC.  Sessions share nothing but the registry, where *)
(* each has its own key: one session that reconnects is enough.             *)
EXTENDS CustomForwarder
=============================================================================
