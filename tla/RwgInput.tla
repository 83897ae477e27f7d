------------------------------- MODULE RwgInput -------------------------------
(***************************************************************************)
(* How the single-process remote working ground reads command lines (hw2   *)
(* single_shell.cpp): select says that a client's socket can be read, the  *)
(* socket becomes descriptor 0, and one line is taken from std::cin.       *)
(* std::cin and the buffer behind it belong to the process, not to the     *)
(* client: one read takes all that has arrived, what is left after the line*)
(* is there for whoever is served next, and the end-of-file state that a   *)
(* client's leaving sets is never cleared.  The server's own terminal,     *)
(* descriptor 0 between two turns, is read from the same buffer.  And a    *)
(* command that is run for a user, and is given no other input, reads the  *)
(* user's socket itself.                                                   *)
(*                                                                         *)
(* A line is <<connection, number>>: what it says is chosen when it is run.*)
(* Clients send whole lines, and less than a read takes; a terminal gives  *)
(* one line at a time.                                                     *)
(***************************************************************************)
EXTENDS RwgUsers, Sequences, Functions

CONSTANTS
    MaxTyped,    \* bound: lines clients type
    MaxTerminal  \* bound: lines typed at the server's own terminal

ASSUME RwgInputAssumption == MaxTyped \in Nat /\ MaxTerminal \in Nat

VARIABLES
    socket,  \* kernel: lines on the way from the client on each descriptor
    buffer,  \* lines in stdin's buffer
    eof,     \* std::cin, or stdin below it, is at its end
    hung,    \* connections whose clients closed them
    readers, \* connections whose sockets are the input of a command
    terminal, detached,  \* lines at the server's own terminal; it is at its end
    up,      \* the server runs
    typed,   \* lines each client has typed, without those a command has read
    done,    \* history: lines of each connection that were taken from the input
    ahead,   \* history: connections that typed before a line of theirs was taken
    last     \* history: <<whose line, for whom>> was taken last, 0 for nobody

terminals == <<terminal, detached>>
inputs    == <<socket, buffer, eof, hung, readers, terminals, up, typed, done, ahead, last>>
allVars == <<vars, inputs>>

InputInit ==
    /\ Init
    /\ socket = [f \in Fds |-> <<>>] /\ buffer = <<>> /\ eof = FALSE
    /\ hung = {} /\ readers = {} /\ terminal = 0 /\ detached = FALSE /\ up = TRUE
    /\ typed = [c \in Sessions |-> 0]
    /\ done = [c \in Sessions |-> 0] /\ ahead = {} /\ last = <<0, 0>>

\* The client on f sends a line.
Type(f) ==
    LET c == client[f]
    IN  /\ c # NoSession /\ c \notin hung
        /\ FoldFunction(+, 0, typed) < MaxTyped
        /\ typed' = [typed EXCEPT ![c] = @ + 1]
        /\ socket' = [socket EXCEPT ![f] = Append(@, <<c, typed[c] + 1>>)]
        /\ ahead' = IF done[c] < typed[c] THEN ahead \cup {c} ELSE ahead
        /\ UNCHANGED <<vars, buffer, eof, hung, readers, terminals, up, done, last>>

\* The client on f closes its connection, or is killed.
Hangup(f) ==
    /\ client[f] # NoSession /\ hung' = hung \cup {client[f]}
    /\ UNCHANGED <<vars, socket, buffer, eof, readers, terminals, up, typed, done, ahead, last>>

\* Somebody types at the server's own terminal, or ends it.
TypeTerminal ==
    /\ ~ detached
    /\ \/ terminal < MaxTerminal /\ terminal' = terminal + 1 /\ UNCHANGED detached
       \/ detached' = TRUE /\ UNCHANGED terminal
    /\ UNCHANGED <<vars, socket, buffer, eof, hung, readers, up, typed, done, ahead, last>>

\* A command that runs for the user on f reads its input, all that has come.
CommandReads(f) ==
    /\ client[f] \in readers /\ socket[f] # <<>>
    /\ socket' = [socket EXCEPT ![f] = <<>>]
    /\ typed' = [typed EXCEPT ![client[f]] = Head(socket[f])[2] - 1]
    /\ UNCHANGED <<vars, buffer, eof, hung, readers, terminals, up, done, ahead, last>>

CommandEnds(c) ==
    /\ c \in readers /\ readers' = readers \ {c}
    /\ UNCHANGED <<vars, socket, buffer, eof, hung, terminals, up, typed, done, ahead, last>>

\* NPloop runs a line for the user on f.  Lines of NPwho and refused ones change
\* nothing here; a program whose input is not a pipe has descriptor 0, the socket.
Run(f) ==
    \/ /\ \/ NPexit(f)
          \/ \E name \in Names : NPname(f, name)
          \/ \E v \in Vars, x \in Values : NPsetenv(f, v, x)
          \/ UNCHANGED vars
       /\ UNCHANGED readers
    \/ UNCHANGED vars /\ readers' = readers \cup {client[f]}

\* rwg_loop: f is readable, if only because its client has gone.
Readable(f) ==
    /\ client[f] # NoSession /\ FindUserByFd(f) # {}
    /\ socket[f] # <<>> \/ client[f] \in hung

\* std::getline has failed.
ServeEnd(f) ==
    /\ Readable(f)
    /\ eof \/ (buffer = <<>> /\ socket[f] = <<>>)
    /\ NPexit(f)
    /\ eof' = TRUE /\ socket' = [socket EXCEPT ![f] = <<>>]
    /\ last' = <<0, client[f]>>
    /\ UNCHANGED <<buffer, hung, readers, terminals, up, typed, done, ahead>>

\* What the next line is taken from: the buffer, or what f has sent.
Incoming(f) == IF buffer # <<>> THEN buffer ELSE socket[f]

\* Faulty variant of Kept: the rest of what was read is dropped.
KeptNothing(f) == IF buffer # <<>> THEN Tail(buffer) ELSE <<>>

\* What stays in the buffer.
Kept(f) == Tail(Incoming(f))

\* NPloop with a line.  The kernel drops what an exit leaves unread.
ServeLine(f) ==
    LET line == Head(Incoming(f))
    IN  /\ Readable(f) /\ ~ eof /\ Incoming(f) # <<>>
        /\ Run(f)
        /\ buffer' = Kept(f)
        /\ socket' = [socket EXCEPT ![f] =
                         IF buffer = <<>> \/ client'[f] = NoSession THEN <<>> ELSE @]
        /\ done' = [done EXCEPT ![line[1]] = line[2]]
        /\ last' = <<line[1], client[f]>>
        /\ UNCHANGED <<eof, hung, terminals, up, typed, ahead>>

\* rwg_loop finds descriptor 0 readable: fgets takes a line out of the buffer, or
\* what the terminal gives, and the server ends if it begins with "exit".  Whether
\* stdin stays at its end, once it was there, depends on the C library.
ServeTerminal ==
    /\ terminal > 0 \/ detached
    /\ \/ /\ buffer # <<>> /\ buffer' = Tail(buffer)
          /\ done' = [done EXCEPT ![Head(buffer)[1]] = Head(buffer)[2]]
          /\ last' = <<Head(buffer)[1], 0>>
          /\ up' \in BOOLEAN
          /\ UNCHANGED <<terminal, eof>>
       \/ /\ buffer = <<>> /\ terminal > 0 /\ terminal' = terminal - 1
          /\ last' = <<0, 0>>
          /\ up' \in BOOLEAN
          /\ UNCHANGED <<buffer, eof, done>>
       \/ /\ buffer = <<>> /\ terminal = 0 /\ eof' = TRUE
          /\ UNCHANGED <<buffer, terminal, up, done, last>>
    /\ UNCHANGED <<vars, socket, hung, readers, detached, typed, ahead>>

InputNext ==
    /\ up
    /\ \/ (Login \/ OpenPipe \/ \E ends \in SUBSET pipeFds : ClosePipe(ends))
          /\ UNCHANGED inputs
       \/ TypeTerminal \/ ServeTerminal
       \/ \E f \in Fds : \/ Type(f) \/ Hangup(f) \/ ServeEnd(f) \/ ServeLine(f)
                         \/ CommandReads(f)
       \/ \E c \in Sessions : CommandEnds(c)

InputSpec == InputInit /\ [][InputNext]_allVars

-----------------------------------------------------------------------------
(* Properties. *)

\* The lines of c in q are those numbered above lo up to hi, once each, in order.
Lines(q, c, lo, hi) ==
    LET here == {i \in DOMAIN q : q[i][1] = c}
    IN  /\ {q[i][2] : i \in here} = lo + 1 .. hi
        /\ \A i, j \in here : i < j => q[i][2] < q[j][2]

\* With one std::cin for all (single_shell.cpp:336), which the server's own terminal
\* shares (:84): a line is run for a user who did not type it, thrown away or
\* taken as the server's own "exit" only when its typist had typed ahead; a user
\* is logged out without a line only after somebody has hung up, or the terminal
\* has; and the lines of a user who is logged in that no command of the user's
\* has read are taken once each and in order.
Attribution ==
    /\ last[1] \notin {0, last[2]} => last[1] \in ahead
    /\ last[1] = 0 /\ last[2] # 0 => hung # {} \/ detached
    /\ \A f \in Fds : LET c == client[f] IN
          c # NoSession => Lines(buffer \o socket[f], c, done[c], typed[c])
=============================================================================
