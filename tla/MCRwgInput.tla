------------------------------ MODULE MCRwgInput ------------------------------
(* Bounded instances of RwgInput for model checking. *)
EXTENDS RwgInput

CONSTANTS ann, bob, anon, PATH, std, own

MCNames   == {ann}
MCVars    == {PATH}
MCValues  == {own, std}
MCDefault == [v \in MCVars |-> std]
MCFds     == 4 .. 8
=============================================================================
