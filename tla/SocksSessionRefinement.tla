------------------------ MODULE SocksSessionRefinement ------------------------
(***************************************************************************)
(* SocksSession implements TwoWayStream.  The stream towards an endpoint   *)
(* is computed from what the process and the other endpoint have written:  *)
(* the chains, arrays and queues in between do not appear in it, and have  *)
(* to deliver exactly that.                                                *)
(***************************************************************************)
EXTENDS SocksSession

\* How the session stands: both chains start when the relay does.
Phase == IF op["client"] = "off" THEN IF Running THEN "asking" ELSE "refused"
                                 ELSE IF Running THEN "open" ELSE "closed"

\* What e has read or can still read: nothing more once it has reset.
Readable(e) ==
    IF reset[e] # "no" THEN got[e]
    ELSE IF op[e] = "off" THEN got[e] \o toPeer[e]
    ELSE StreamTo(e)

Streams == [e \in Endpoints |-> Readable(e)]
Lost    == [e \in Endpoints |-> reset[e] # "no"]

TwoWay == INSTANCE TwoWayStream WITH
    Texts  <- {Data(n) : n \in 1 .. MaxUnits},
    phase  <- Phase,
    stream <- Streams,
    read   <- got,
    done   <- fin,
    lost   <- Lost,
    ended  <- eof

\* Every handler, and every step of the kernel and the endpoints, is a step of
\* TwoWayStream or leaves it alone (socks_server.cpp:208 to :322): nothing is
\* read after the end, a reply comes once, and the session is not given up
\* while one direction can still be used.
ImplementsStream == TwoWay!StreamSpec
=============================================================================
