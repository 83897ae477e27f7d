---------------------- MODULE MCNumberedPipesRefinement ----------------------
(* Bounded instance of NumberedPipesRefinement for model checking. *)
EXTENDS NumberedPipesRefinement

MCOffsets == {1, 2}
MCFds == 3 .. 8
=============================================================================
