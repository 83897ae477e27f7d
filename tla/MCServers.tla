------------------------------ MODULE MCServers ------------------------------
(* Bounded instances of Servers for model checking. *)
EXTENDS Servers

MCPrograms == {"simple", "multi", "http", "socks", "web"}
MCRows     == {0}
MCHosts    == {"np1"}
=============================================================================
