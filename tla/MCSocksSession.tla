---------------------------- MODULE MCSocksSession ----------------------------
(* Bounded instances of SocksSession for model checking. *)
EXTENDS SocksSessionRefinement

CONSTANTS web, ssh, nobody

MCHosts   == {web, ssh}
MCOneHost == {web}
MCCWhites == {{web}}
MCBWhites == {{ssh}, {}}
MCAnyone  == {{web}}
=============================================================================
