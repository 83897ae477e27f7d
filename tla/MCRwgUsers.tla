----------------------------- MODULE MCRwgUsers -----------------------------
(* A bounded instance of RwgUsers for model checking. *)
EXTENDS RwgUsers

CONSTANTS anon, std

MCNoEnv   == [v \in {} |-> std]
MCManyFds == 4 .. 14
=============================================================================
