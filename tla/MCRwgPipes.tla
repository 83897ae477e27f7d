----------------------------- MODULE MCRwgPipes -----------------------------
(* Bounded instances of RwgPipes for model checking. *)
EXTENDS RwgPipes

MCOffsets == {1, 2}
MCFds == 4 .. 9
=============================================================================
