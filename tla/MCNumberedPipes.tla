--------------------------- MODULE MCNumberedPipes ---------------------------
(* Bounded instances of NumberedPipes for model checking. *)
EXTENDS NumberedPipes

MCOffsets == {0, 1, 2}
MCFds == 3 .. 8
=============================================================================
