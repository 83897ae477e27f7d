----------------------------- MODULE MCRwgMulti -----------------------------
(* Bounded instances of RwgMulti for model checking. *)
EXTENDS RwgMulti, TLC

CONSTANTS c1, c2, none, ann, anon

MCClients == {c1, c2}
MCNames   == {ann}
MCEither  == Permutations(MCClients)
MCOut     == {"out"}
MCAll     == {"name", "yell", "tell", "out", "in"}
=============================================================================
