----------------------------- MODULE SocksSession -----------------------------
(***************************************************************************)
(* One child process of socks_server (hw4 socks_server.cpp): it reads the  *)
(* client's SOCKS4 request, asks the firewall, connects to the target or   *)
(* waits for it (BIND), and relays bytes both ways until both directions   *)
(* have ended.                                                             *)
(*                                                                         *)
(* The process is one thread that runs the handlers of asynchronous        *)
(* operations one at a time: a handler, with the operation it starts next, *)
(* is one action.  Each direction of the relay is a chain of a read, a     *)
(* write of all that was read, a read again.  A chain is named after the   *)
(* endpoint it reads from, as the arrays `client' and `server' are.        *)
(*                                                                         *)
(* The endpoints and the kernel's queues between them and the process are  *)
(* the environment: bytes come in pieces, queues are bounded, an endpoint  *)
(* may stop sending (FIN) and may reset its connection at any time.  Data  *)
(* is in units: <<"data", n>> is the n-th unit an endpoint writes.         *)
(***************************************************************************)
EXTENDS Naturals, SequencesExt

CONSTANTS
    Hosts,       \* addresses of targets
    NoHost,      \* no target; also what 0.0.0.x stands for
    CWhites,     \* rules `permit c' of socks.conf: the hosts each matches
    BWhites,     \* rules `permit b'
    MaxUnits,    \* bound: units an endpoint writes
    Capacity,    \* units a kernel queue holds
    BufSize      \* units the arrays client and server hold

ASSUME SocksSessionAssumption ==
    /\ NoHost \notin Hosts
    /\ CWhites \subseteq SUBSET Hosts /\ BWhites \subseteq SUBSET Hosts
    /\ MaxUnits \in Nat /\ Capacity \in Nat \ {0} /\ BufSize \in Nat \ {0}

Endpoints == {"client", "target"}
Other(e)  == IF e = "client" THEN "target" ELSE "client"

\* named: a SOCKS4A request, whose address is 0.0.0.x and which gives a name.
Requests  == [cmd : {"connect", "bind", "other"}, host : Hosts, named : BOOLEAN]
NoRequest == [cmd |-> "other", host |-> NoHost, named |-> FALSE]

Data(n)  == <<"data", n>>
Request  == <<"request", 0>>
Rest     == <<"rest", 0>>      \* the end of a request read in two pieces
Bound    == <<"bound", 0>>     \* first reply to BIND
Granted  == <<"granted", 0>>
Rejected == <<"rejected", 0>>
Units    == {Request, Rest, Bound, Granted, Rejected} \cup {Data(n) : n \in 1 .. MaxUnits}

VARIABLES
    proc,      \* "request", "connect", "bind", "relay", "exited", "aborted"
    asked,     \* the request the client sends, NoRequest if it sends none
    req,       \* the request as parsed
    whole,     \* history: the request was read in one piece
    addr,      \* address the process connects to, NoHost before
    op,        \* what each chain waits for: "off", "read", "write", "stopped"
    buf,       \* array client / server: what is still to be written of it
    toServer,  \* kernel: units on their way from each endpoint
    toPeer,    \* kernel: units on their way to each endpoint
    shut,      \* how the process closed towards each: "open", "fin", "rst"
    sent,      \* units each endpoint has written
    fin,       \* the endpoint will write no more
    reset,     \* "no"; "pending": reset, the error not reported; "seen"
    got, eof   \* what each endpoint has read; end-of-file

kernel    == <<toServer, toPeer, shut>>
endpoints == <<sent, fin, reset, got, eof>>
session   == <<asked, req, whole, addr>>
vars == <<proc, asked, req, whole, addr, op, buf, toServer, toPeer, shut, sent,
          fin, reset, got, eof>>

Init ==
    /\ proc = "request"
    /\ asked \in Requests \cup {NoRequest}
    /\ req = NoRequest /\ whole = FALSE /\ addr = NoHost
    /\ op = [e \in Endpoints |-> "off"]
    /\ buf = [e \in Endpoints |-> <<>>]
    /\ toServer = [e \in Endpoints |->
                     IF e = "client" /\ asked # NoRequest THEN <<Request>> ELSE <<>>]
    /\ toPeer = [e \in Endpoints |-> <<>>]
    /\ shut = [e \in Endpoints |-> "open"]
    /\ sent = [e \in Endpoints |-> 0]
    /\ fin = [e \in Endpoints |-> FALSE]
    /\ reset = [e \in Endpoints |-> "no"]
    /\ got = [e \in Endpoints |-> <<>>]
    /\ eof = [e \in Endpoints |-> FALSE]

-----------------------------------------------------------------------------
(* The end of the process. *)

Running == proc \notin {"exited", "aborted"}

\* There is a connection to e.
Connected(e) == e = "client" \/ proc = "relay"

\* The first n units of a queue, or all of it.
Cut(queue, n) == SubSeq(queue, 1, IF n < Len(queue) THEN n ELSE Len(queue))

\* The kernel closes the sockets of a process that ends: with FIN after what
\* is queued, or, when unread data is left, with RST and what got through.
CloseAll(how, unread, queued) ==
    LET fins == {e \in Endpoints : Connected(e) /\ shut[e] = "open" /\ unread[e] = <<>>}
        rsts == {e \in Endpoints : Connected(e) /\ shut[e] = "open" /\ unread[e] # <<>>}
    IN  /\ proc' = how
        /\ op' = [e \in Endpoints |-> IF op[e] = "off" THEN "off" ELSE "stopped"]
        /\ shut' = [e \in Endpoints |-> IF e \in fins THEN "fin"
                                        ELSE IF e \in rsts THEN "rst" ELSE shut[e]]
        /\ \E n \in 0 .. (Capacity + 2) :
              toPeer' = [e \in Endpoints |-> IF e \in rsts THEN Cut(queued[e], n)
                                                          ELSE queued[e]]

\* Handlers that throw: run() does not catch, and neither does main.
Abort == CloseAll("aborted", toServer, toPeer)

-----------------------------------------------------------------------------
(* The request. *)

\* Faulty variant of FirewallFilter: the rules of both commands.
FirewallFilterBoth(ip, command) ==
    command \in {"connect", "bind"} /\ \E rule \in CWhites \cup BWhites : ip \in rule

\* firewall_filter: some rule for the command matches all parts of the
\* address.  Commands other than CONNECT and BIND match none.
FirewallFilter(ip, command) ==
    \/ command = "connect" /\ \E rule \in CWhites : ip \in rule
    \/ command = "bind" /\ \E rule \in BWhites : ip \in rule

\* Rejected is written, there is no more to do, run() returns.
Refuse(left) ==
    CloseAll("exited", left, [toPeer EXCEPT !["client"] = Append(@, Rejected)])

\* What the handler of the first read makes of request p; left is what stays
\* in the kernel's queues.  Granted is not written before the target answers,
\* the first reply to BIND is, and the process then blocks in accept.
Handle(p, left) ==
    /\ req' = p
    /\ \/ /\ FirewallFilter(p.host, p.cmd) /\ p.cmd = "connect"
          /\ proc' = "connect" /\ addr' = p.host
          /\ toServer' = left
          /\ UNCHANGED <<op, toPeer, shut>>
       \/ /\ FirewallFilter(p.host, p.cmd) /\ p.cmd = "bind"
          /\ proc' = "bind" /\ addr' = NoHost
          /\ toServer' = left
          /\ toPeer' = [toPeer EXCEPT !["client"] = Append(@, Bound)]
          /\ UNCHANGED <<op, shut>>
       \/ /\ ~ FirewallFilter(p.host, p.cmd)
          /\ Refuse(left)
          /\ toServer' = left /\ addr' = NoHost

\* remote_endpoint() throws when the client has reset its connection, and
\* resolve() when the name of a SOCKS4A request is not known.
HandleThrows(p, left) ==
    /\ reset["client"] # "no" \/ p.named
    /\ CloseAll("aborted", left, toPeer)
    /\ toServer' = left
    /\ req' = p /\ addr' = NoHost

\* do_read_socks_request, the request having arrived whole.
ReadRequest ==
    /\ proc = "request" /\ toServer["client"] # <<>>
    /\ LET left == [toServer EXCEPT !["client"] = <<>>]
       IN  \/ reset["client"] = "no" /\ Handle(asked, left)
           \/ HandleThrows(asked, left)
    /\ whole' = TRUE
    /\ UNCHANGED <<asked, buf, endpoints>>

\* The same when a first piece has arrived, or none: the error code and the
\* length are not tested, the bytes missing are those the array `data' happens
\* to hold, and the rest of the request stays in the kernel's queue.
ReadPiece ==
    /\ proc = "request"
    /\ toServer["client"] # <<>> \/ fin["client"] \/ reset["client"] # "no"
    /\ LET left == [toServer EXCEPT !["client"] = IF @ = <<>> THEN @ ELSE <<Rest>>]
       IN  \E p \in Requests :
             \/ reset["client"] = "no" /\ Handle(p, left)
             \/ HandleThrows(p, left)
    /\ UNCHANGED <<asked, whole, buf, endpoints>>

\* Both chains start, and the client is told.
StartRelay ==
    /\ proc' = "relay"
    /\ op' = [e \in Endpoints |-> "read"]
    /\ toPeer' = IF reset["client"] = "no"
                 THEN [toPeer EXCEPT !["client"] = Append(@, Granted)] ELSE toPeer
    /\ UNCHANGED <<asked, req, whole, addr, buf, toServer, shut, endpoints>>

\* connect_target: the connection is made; an error in writing the reply is
\* ignored.
ConnectOk == proc = "connect" /\ StartRelay

\* It cannot be made: the handlers do nothing, no operation is left, and run()
\* returns.
ConnectFails ==
    /\ proc = "connect"
    /\ CloseAll("exited", toServer, toPeer)
    /\ UNCHANGED <<session, buf, toServer, endpoints>>

\* BIND: somebody connects.  The second reply is a blocking write, which throws
\* when the client has gone.
BindAccept ==
    /\ proc = "bind"
    /\ \/ reset["client"] = "no" /\ StartRelay
       \/ /\ reset["client"] # "no"
          /\ Abort
          /\ UNCHANGED <<session, buf, toServer, endpoints>>

-----------------------------------------------------------------------------
(* The relay: the chain that reads from e and writes to Other(e). *)

\* Faulty variant of ReadSome: the next read starts without waiting for the
\* write of the same array.
ReadSomeEarly(e) ==
    /\ proc = "relay" /\ op[e] \in {"read", "write"} /\ toServer[e] # <<>>
    /\ \E n \in 1 .. Len(toServer[e]) :
        /\ n <= BufSize
        /\ buf' = [buf EXCEPT ![e] = SubSeq(toServer[e], 1, n)]
        /\ toServer' = [toServer EXCEPT ![e] = SubSeq(@, n + 1, Len(@))]
    /\ op' = [op EXCEPT ![e] = "write"]
    /\ UNCHANGED <<proc, session, toPeer, shut, endpoints>>

\* read_from_source / read_from_target complete with data.
ReadSome(e) ==
    /\ proc = "relay" /\ op[e] = "read" /\ toServer[e] # <<>>
    /\ \E n \in 1 .. Len(toServer[e]) :
        /\ n <= BufSize
        /\ buf' = [buf EXCEPT ![e] = SubSeq(toServer[e], 1, n)]
        /\ toServer' = [toServer EXCEPT ![e] = SubSeq(@, n + 1, Len(@))]
    /\ op' = [op EXCEPT ![e] = "write"]
    /\ UNCHANGED <<proc, session, toPeer, shut, endpoints>>

\* Faulty variant of ReadEof: the other side is not told.
ReadEofOnly(e) ==
    /\ proc = "relay" /\ op[e] = "read" /\ toServer[e] = <<>>
    /\ fin[e] \/ reset[e] = "seen"
    /\ op' = [op EXCEPT ![e] = "stopped"]
    /\ UNCHANGED <<proc, session, buf, kernel, endpoints>>

\* They complete with end-of-file, which is passed on; shutdown() throws when
\* the other endpoint has reset its connection.
ReadEof(e) ==
    /\ proc = "relay" /\ op[e] = "read" /\ toServer[e] = <<>>
    /\ fin[e] \/ reset[e] = "seen"
    /\ \/ /\ reset[Other(e)] = "no"
          /\ op' = [op EXCEPT ![e] = "stopped"]
          /\ shut' = [shut EXCEPT ![Other(e)] = "fin"]
          /\ UNCHANGED <<proc, toPeer>>
       \/ /\ reset[Other(e)] # "no"
          /\ Abort
    /\ UNCHANGED <<session, buf, toServer, endpoints>>

\* Another error: the chain ends, and nobody is told.
ReadError(e) ==
    /\ proc = "relay" /\ op[e] = "read" /\ toServer[e] = <<>>
    /\ reset[e] = "pending"
    /\ reset' = [reset EXCEPT ![e] = "seen"]
    /\ op' = [op EXCEPT ![e] = "stopped"]
    /\ UNCHANGED <<proc, session, buf, kernel, sent, fin, got, eof>>

\* Faulty variant of WriteSome: the read is not started again.
WriteSomeOnce(e) ==
    /\ proc = "relay" /\ op[e] = "write" /\ reset[Other(e)] = "no"
    /\ Len(toPeer[Other(e)]) < Capacity
    /\ toPeer' = [toPeer EXCEPT ![Other(e)] = Append(@, Head(buf[e]))]
    /\ buf' = [buf EXCEPT ![e] = Tail(@)]
    /\ UNCHANGED <<proc, session, op, toServer, shut, endpoints>>

\* Part of async_write; the handler of the last part starts the next read.
WriteSome(e) ==
    /\ proc = "relay" /\ op[e] = "write" /\ reset[Other(e)] = "no"
    /\ Len(toPeer[Other(e)]) < Capacity
    /\ toPeer' = [toPeer EXCEPT ![Other(e)] = Append(@, Head(buf[e]))]
    /\ buf' = [buf EXCEPT ![e] = Tail(@)]
    /\ op' = [op EXCEPT ![e] = IF Len(buf[e]) = 1 THEN "read" ELSE "write"]
    /\ UNCHANGED <<proc, session, toServer, shut, endpoints>>

\* Faulty variant of WriteError: the write is tried again.
WriteErrorRetries(e) ==
    /\ proc = "relay" /\ op[e] = "write" /\ reset[Other(e)] # "no"
    /\ reset' = [reset EXCEPT ![Other(e)] = "seen"]
    /\ UNCHANGED <<proc, session, op, buf, kernel, sent, fin, got, eof>>

\* async_write fails: the chain ends, and nobody is told.
WriteError(e) ==
    /\ proc = "relay" /\ op[e] = "write" /\ reset[Other(e)] # "no"
    /\ reset' = [reset EXCEPT ![Other(e)] = "seen"]
    /\ op' = [op EXCEPT ![e] = "stopped"]
    /\ UNCHANGED <<proc, session, buf, kernel, sent, fin, got, eof>>

\* Faulty variant of Exit: the process ends with the first of the chains.
ExitEarly ==
    /\ proc = "relay" /\ \E e \in Endpoints : op[e] = "stopped"
    /\ CloseAll("exited", toServer, toPeer)
    /\ UNCHANGED <<session, buf, toServer, endpoints>>

\* No operation is left: run() and main return.
Exit ==
    /\ proc = "relay" /\ \A e \in Endpoints : op[e] = "stopped"
    /\ CloseAll("exited", toServer, toPeer)
    /\ UNCHANGED <<session, buf, toServer, endpoints>>

-----------------------------------------------------------------------------
(* The endpoints. *)

\* A client sends nothing after its request before it is granted.
MaySend(e) == IF e = "client" THEN Granted \in Range(got[e]) ELSE proc = "relay"

Send(e) ==
    /\ Running /\ MaySend(e) /\ ~ fin[e] /\ reset[e] = "no" /\ sent[e] < MaxUnits
    /\ Len(toServer[e]) < Capacity
    /\ sent' = [sent EXCEPT ![e] = @ + 1]
    /\ toServer' = [toServer EXCEPT ![e] = Append(@, Data(sent[e] + 1))]
    /\ UNCHANGED <<proc, session, op, buf, toPeer, shut, fin, reset, got, eof>>

Finish(e) ==
    /\ Running /\ Connected(e) /\ ~ fin[e] /\ reset[e] = "no"
    /\ fin' = [fin EXCEPT ![e] = TRUE]
    /\ UNCHANGED <<proc, session, op, buf, kernel, sent, reset, got, eof>>

\* A crash, or a close with data unread: the end of what was sent may be lost,
\* and what is on its way to the endpoint is.
Reset(e) ==
    /\ Running /\ Connected(e) /\ reset[e] = "no"
    /\ reset' = [reset EXCEPT ![e] = "pending"]
    /\ \E n \in 0 .. Len(toServer[e]) :
          toServer' = [toServer EXCEPT ![e] = SubSeq(@, 1, n)]
    /\ toPeer' = [toPeer EXCEPT ![e] = <<>>]
    /\ UNCHANGED <<proc, session, op, buf, shut, sent, fin, got, eof>>

Receive(e) ==
    /\ reset[e] = "no" /\ toPeer[e] # <<>>
    /\ got' = [got EXCEPT ![e] = Append(@, Head(toPeer[e]))]
    /\ toPeer' = [toPeer EXCEPT ![e] = Tail(@)]
    /\ UNCHANGED <<proc, session, op, buf, toServer, shut, sent, fin, reset, eof>>

ReceiveEof(e) ==
    /\ reset[e] = "no" /\ toPeer[e] = <<>> /\ shut[e] = "fin" /\ ~ eof[e]
    /\ eof' = [eof EXCEPT ![e] = TRUE]
    /\ UNCHANGED <<proc, session, op, buf, kernel, sent, fin, reset, got>>

Next ==
    \/ ReadRequest \/ ReadPiece \/ ConnectOk \/ ConnectFails \/ BindAccept \/ Exit
    \/ \E e \in Endpoints :
          \/ ReadSome(e) \/ ReadEof(e) \/ ReadError(e) \/ WriteSome(e) \/ WriteError(e)
          \/ Send(e) \/ Finish(e) \/ Reset(e) \/ Receive(e) \/ ReceiveEof(e)

Spec == Init /\ [][Next]_vars

\* The process runs, an attempt to connect comes to its end.  Nobody need
\* connect to a BIND, send, read or close.
Fairness ==
    /\ WF_vars(ReadRequest \/ ReadPiece) /\ WF_vars(ConnectOk \/ ConnectFails)
    /\ WF_vars(Exit)
    /\ \A e \in Endpoints :
          /\ WF_vars(ReadSome(e)) /\ WF_vars(ReadEof(e)) /\ WF_vars(ReadError(e))
          /\ WF_vars(WriteSome(e)) /\ WF_vars(WriteError(e))

FairSpec == Spec /\ Fairness

-----------------------------------------------------------------------------
(* Properties. *)

\* Every variable has its type.
TypeOK ==
    /\ proc \in {"request", "connect", "bind", "relay", "exited", "aborted"}
    /\ asked \in Requests \cup {NoRequest} /\ req \in Requests \cup {NoRequest}
    /\ whole \in BOOLEAN
    /\ addr \in Hosts \cup {NoHost}
    /\ op \in [Endpoints -> {"off", "read", "write", "stopped"}]
    /\ buf \in [Endpoints -> Seq(Units)]
    /\ toServer \in [Endpoints -> Seq(Units)] /\ toPeer \in [Endpoints -> Seq(Units)]
    /\ shut \in [Endpoints -> {"open", "fin", "rst"}]
    /\ sent \in [Endpoints -> 0 .. MaxUnits]
    /\ fin \in [Endpoints -> BOOLEAN]
    /\ reset \in [Endpoints -> {"no", "pending", "seen"}]
    /\ got \in [Endpoints -> Seq(Units)] /\ eof \in [Endpoints -> BOOLEAN]
    /\ \A e \in Endpoints : op[e] = "write" => buf[e] # <<>>

\* What the process and the other endpoint have written to e, or will have:
\* the replies, or what was left of the request; then the data.
DataOf(e) == [n \in 1 .. sent[e] |-> Data(n)]
Replies   == IF req.cmd = "bind" THEN <<Bound, Granted>> ELSE <<Granted>>
Leftover  == IF whole \/ asked = NoRequest THEN <<>> ELSE <<Rest>>
StreamTo(e) == (IF e = "client" THEN Replies ELSE Leftover) \o DataOf(Other(e))

\* Whatever the pieces in which data is read and written, and whatever ends or
\* breaks meanwhile, an endpoint reads what the other one wrote, in order, with
\* nothing missing before it, and the client reads the replies first: data
\* never overtakes the reply, and nothing follows a refusal.
StreamIntact ==
    \A e \in Endpoints :
        \/ IsPrefix(got[e], StreamTo(e))
        \/ e = "client" /\ got[e] = <<Rejected>> /\ op[e] = "off"

\* End-of-file means the end: an endpoint that reads end-of-file from the relay
\* has read all that the other one, which did close, had written; unless that
\* one reset its connection.  The end of one direction does not cut the other.
EofComplete ==
    \A e \in Endpoints :
        eof[e] /\ op[e] # "off" /\ reset[Other(e)] = "no" =>
            fin[Other(e)] /\ got[e] = StreamTo(e)

\* The address connected to is the one the firewall has let through, for the
\* command that asks for a connection; a BIND is let through by its own rules.
\* When the request was read whole it is the one the client asked for.
OnlyPermitted ==
    /\ addr # NoHost => \E rule \in CWhites : addr \in rule
    /\ op["client"] # "off" /\ addr = NoHost => \E rule \in BWhites : req.host \in rule
    /\ whole /\ addr # NoHost => asked.cmd = "connect" /\ addr = asked.host

Broken == \E e \in Endpoints : reset[e] # "no"

\* An endpoint that keeps reading.
Reads(e) == WF_vars(Receive(e)) /\ WF_vars(ReceiveEof(e))

\* The directions are independent (socks_server.cpp:274): what is written to an
\* endpoint that keeps reading arrives, and the end too, even if the other
\* endpoint reads nothing for ever.
Arrives ==
    \A e \in Endpoints : Reads(e) =>
        /\ \A n \in 1 .. MaxUnits :
              sent[Other(e)] >= n ~> Data(n) \in Range(got[e]) \/ Broken
        /\ proc = "relay" /\ fin[Other(e)] ~> eof[e] \/ Broken

\* When both endpoints have closed or broken their connections, and read what
\* is sent to them, the process ends: no operation is left waiting
\* (socks_server.cpp:301).  A client that has sent its request, stays and reads
\* gets a reply, or sees the connection closed, whatever its target does
\* (socks_server.cpp:208).
SessionEnds ==
    /\ (\A e \in Endpoints : Reads(e)) =>
          (proc = "relay" /\ (\A e \in Endpoints : fin[e] \/ reset[e] # "no") ~> ~ Running)
    /\ Reads("client") =>
          (asked # NoRequest ~>
              \/ got["client"] # <<>> \/ eof["client"] \/ shut["client"] = "rst"
              \/ reset["client"] # "no")
=============================================================================
