----------------------------- MODULE TwoWayStream -----------------------------
(***************************************************************************)
(* What a client and its target are promised by socks_server, with no      *)
(* chain, array, queue or packet in sight: the client is refused, or told  *)
(* that it is connected, once; from then on there is one stream towards    *)
(* each of the two ends, which an end reads from its beginning, one unit   *)
(* after the other, and whose end it sees only when it has read all of it  *)
(* and the other end will write no more.  Each end may stop writing while  *)
(* the other one goes on, and the session is over only when both have      *)
(* stopped or one is lost.                                                 *)
(***************************************************************************)
EXTENDS Naturals, Sequences

CONSTANTS
    Texts,                      \* units that the ends write
    Bound, Granted, Rejected,   \* replies to the client
    Rest                        \* the end of a request read in two pieces

Ends    == {"client", "target"}
Peer(e) == IF e = "client" THEN "target" ELSE "client"

VARIABLES
    phase,   \* "asking", "refused", "open", "closed"
    stream,  \* what each end has read or can still read, so far
    read,    \* what it has read
    done,    \* the end writes no more
    lost,    \* the end has broken its connection
    ended    \* it has seen the end of its stream

streamVars == <<phase, stream, read, done, lost, ended>>

Init ==
    /\ phase = "asking"
    /\ stream = [e \in Ends |-> <<>>] /\ read = [e \in Ends |-> <<>>]
    /\ done = [e \in Ends |-> FALSE] /\ lost = [e \in Ends |-> FALSE]
    /\ ended = [e \in Ends |-> FALSE]

\* What is written to an end that is lost is lost.
Give(e, u) == IF lost[e] THEN stream[e] ELSE Append(stream[e], u)

\* The address to which the target of a BIND may connect.
Offer ==
    /\ phase = "asking" /\ stream["client"] = <<>> /\ ~ lost["client"]
    /\ stream' = [stream EXCEPT !["client"] = <<Bound>>]
    /\ UNCHANGED <<phase, read, done, lost, ended>>

\* Nothing comes of it, and the client is told or just sees the end.
Refuse ==
    /\ phase = "asking" /\ phase' = "refused"
    /\ \/ UNCHANGED stream
       \/ /\ stream["client"] = <<>> /\ ~ lost["client"]
          /\ stream' = [stream EXCEPT !["client"] = <<Rejected>>]
    /\ UNCHANGED <<read, done, lost, ended>>

\* The client is told that it is connected.
Open ==
    /\ phase = "asking" /\ phase' = "open"
    /\ \E rest \in {<<>>, <<Rest>>} :
          stream' = [stream EXCEPT !["client"] = Give("client", Granted),
                                   !["target"] = rest]
    /\ UNCHANGED <<read, done, lost, ended>>

Write(e) ==
    /\ phase = "open" /\ ~ done[e] /\ ~ lost[e]
    /\ \E u \in Texts : stream' = [stream EXCEPT ![Peer(e)] = Give(Peer(e), u)]
    /\ UNCHANGED <<phase, read, done, lost, ended>>

\* An end says that it writes no more; the client may do so at any time.
Stop(e) ==
    /\ phase = "open" \/ (phase = "asking" /\ e = "client")
    /\ ~ done[e] /\ ~ lost[e]
    /\ done' = [done EXCEPT ![e] = TRUE]
    /\ UNCHANGED <<phase, stream, read, lost, ended>>

\* A connection breaks: what the end has not read it never will.
Lose(e) ==
    /\ phase = "open" \/ (phase = "asking" /\ e = "client")
    /\ ~ lost[e]
    /\ lost' = [lost EXCEPT ![e] = TRUE]
    /\ stream' = [stream EXCEPT ![e] = read[e]]
    /\ UNCHANGED <<phase, read, done, ended>>

Read(e) ==
    /\ ~ lost[e] /\ ~ ended[e] /\ Len(read[e]) < Len(stream[e])
    /\ read' = [read EXCEPT ![e] = Append(@, stream[e][Len(@) + 1])]
    /\ UNCHANGED <<phase, stream, done, lost, ended>>

\* The end of a stream comes after the last of it, unless the writer is lost.
End(e) ==
    /\ ~ lost[e] /\ ~ ended[e]
    /\ \/ lost[Peer(e)]
       \/ read[e] = stream[e] /\ (done[Peer(e)] \/ phase = "refused")
    /\ ended' = [ended EXCEPT ![e] = TRUE]
    /\ UNCHANGED <<phase, stream, read, done, lost>>

Close ==
    /\ phase = "open" /\ phase' = "closed"
    /\ (\A e \in Ends : done[e]) \/ (\E e \in Ends : lost[e])
    /\ UNCHANGED <<stream, read, done, lost, ended>>

StreamNext ==
    \/ Offer \/ Refuse \/ Open \/ Close
    \/ \E e \in Ends : Write(e) \/ Stop(e) \/ Lose(e) \/ Read(e) \/ End(e)

StreamSpec == Init /\ [][StreamNext]_streamVars
=============================================================================
