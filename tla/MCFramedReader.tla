--------------------------- MODULE MCFramedReader ---------------------------
(* FramedReader for TLC: no frame; an empty body and one exactly at the cap;  *)
(* small ones; one a byte too long; a length below its own four bytes.        *)
EXTENDS FramedReader

MCStreams == {<<0>>, <<0, 5, 15>>, <<0, 8, 13>>, <<0, 6, 17>>, <<0, 4, 12>>, <<0, 6, 8>>}
=============================================================================
