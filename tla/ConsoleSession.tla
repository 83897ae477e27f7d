---------------------------- MODULE ConsoleSession ----------------------------
(***************************************************************************)
(* The remote shell sessions of one page: console.cgi (hw3 and hw4         *)
(* console.cpp), its variant through a SOCKS server (hw4), and the console *)
(* of the single-process web server (hw3 main.cpp).  One thread runs the   *)
(* handlers of all sessions; each session reads its shell, shows what it   *)
(* reads, and answers a piece with a prompt in it by the next line of its  *)
(* script.                                                                 *)
(*                                                                         *)
(* Data is in units: "%" and "sp" are a prompt ("% "), "t" is other text,  *)
(* "r" half of a SOCKS reply.  A line is one unit, a write to the page too.    *)
(* The buffers given to async_write are locals: a write that is not done   *)
(* at once is done later from memory that is no longer the line.           *)
(***************************************************************************)
EXTENDS Integers, FiniteSets, SequencesExt

CONSTANTS
    Sessions,  \* the rows of the form: 0 .. 4 in the code
    Programs,  \* programs checked, of "cgi", "socks", "web"
    Script,    \* the lines of each session's file
    LineCap,   \* lines a shell's socket takes before it is full
    PageCap,   \* writes the browser's socket takes before it is full
    MaxLines,  \* bound: lines sent in a session
    MaxNoise,  \* bound: messages of other users, and outputs with "% " in them
    MaxOwed    \* bound: writes to the page that wait

ASSUME ConsoleSessionAssumption ==
    /\ Programs \subseteq {"cgi", "socks", "web"}
    /\ Script \in [Sessions -> Seq({"cmd", "exit"})]
    /\ LineCap \in Nat \ {0} /\ PageCap \in Nat \ {0, 1}
    /\ MaxLines \in Nat /\ MaxNoise \in Nat /\ MaxOwed \in Nat

Prompt == <<"%", "sp">>
Junk   == "junk"  \* what a write from dead memory writes

VARIABLES
    prog,       \* the program, which never changes
    stage,      \* per session: "none" (not asked for), "resolve", "connect",
                \* "relay", "over"
    reply,      \* socks: the read into socks_reply is outstanding
    line,       \* lines taken from the script, and blank ones after its end
    toShell,    \* kernel: lines on the way to the shell
    late,       \* lines of async_write that did not fit at once
    shell,      \* the far end: "proxy", "starting", "up", "gone"
    fromShell,  \* kernel: units on the way from the shell
    unread,     \* kernel: writes the browser has not read
    owed,       \* web: <<session, write>> to the page that did not fit at once
    noise,      \* messages of other users and outputs with "% " so far
    said,       \* history: units each shell has written
    heard,      \* history: lines written to each shell's socket
    shown,      \* history: what each session has on the page, up to the first junk
    cut,        \* history: a prompt or a reply was read in two pieces
    noisy       \* history: a message or a command's output had the form of a prompt

ends  == <<toShell, late, heard>>
page  == <<unread, owed, shown>>
vars  == <<prog, stage, reply, line, ends, shell, fromShell, page, noise, said,
           cut, noisy>>

\* main: a session for each row of the form that names a host.
Init ==
    /\ prog \in Programs
    /\ \E asked \in SUBSET Sessions \ {{}} :
          stage = [s \in Sessions |-> IF s \in asked THEN "resolve" ELSE "none"]
    /\ reply = [s \in Sessions |-> FALSE] /\ line = [s \in Sessions |-> 0]
    /\ toShell = [s \in Sessions |-> <<>>] /\ late = [s \in Sessions |-> <<>>]
    /\ shell = [s \in Sessions |-> IF prog = "socks" THEN "proxy" ELSE "starting"]
    /\ fromShell = [s \in Sessions |-> <<>>]
    /\ unread = 0 /\ owed = <<>> /\ noise = 0
    /\ said = [s \in Sessions |-> <<>>] /\ heard = [s \in Sessions |-> <<>>]
    /\ shown = [s \in Sessions |-> <<>>]
    /\ cut = [s \in Sessions |-> FALSE] /\ noisy = [s \in Sessions |-> FALSE]

-----------------------------------------------------------------------------
(* Connecting. *)

\* do_connect_npserver: the chain stops without a word when resolving fails.
Resolve(s) ==
    /\ stage[s] = "resolve"
    /\ \E next \in {"connect", "over"} : stage' = [stage EXCEPT ![s] = next]
    /\ UNCHANGED <<prog, reply, line, ends, shell, fromShell, page, noise, said, cut, noisy>>

\* Connected to the shell, or not.
Connect(s) ==
    /\ prog # "socks" /\ stage[s] = "connect"
    /\ \E next \in {"relay", "over"} : stage' = [stage EXCEPT ![s] = next]
    /\ UNCHANGED <<prog, reply, line, ends, shell, fromShell, page, noise, said, cut, noisy>>

\* Connected to the SOCKS server, or not: the request is written, and two reads
\* are started, into socks_reply and of the shell.
ConnectSocks(s) ==
    /\ prog = "socks" /\ stage[s] = "connect"
    /\ \/ /\ stage' = [stage EXCEPT ![s] = "relay"]
          /\ reply' = [reply EXCEPT ![s] = TRUE]
       \/ stage' = [stage EXCEPT ![s] = "over"] /\ UNCHANGED reply
    /\ UNCHANGED <<prog, line, ends, shell, fromShell, page, noise, said, cut, noisy>>

\* The name of the shell's host is resolved in that handler, by a call that
\* throws when it fails: the process ends and all its sessions with it.
Abort(s) ==
    /\ prog = "socks" /\ stage[s] = "connect"
    /\ stage' = [r \in Sessions |-> IF stage[r] = "none" THEN "none" ELSE "over"]
    /\ UNCHANGED <<prog, reply, line, ends, shell, fromShell, page, noise, said, cut, noisy>>

\* The first eight bytes that arrive go to socks_reply, what they are is not
\* looked at.  Half a reply completes the read.
ReadReply(s, n) ==
    /\ stage[s] = "relay" /\ reply[s]
    /\ n \in 1 .. 2 /\ n <= Len(fromShell[s])
    /\ reply' = [reply EXCEPT ![s] = FALSE]
    /\ fromShell' = [fromShell EXCEPT ![s] = SubSeq(@, n + 1, Len(@))]
    /\ cut' = [cut EXCEPT ![s] = n = 1]
    /\ UNCHANGED <<prog, stage, line, ends, shell, page, noise, said, noisy>>

-----------------------------------------------------------------------------
(* The session. *)

\* Where in q the shell has asked for a line: the search for "% ".
PromptsIn(q) == {i \in 1 .. Len(q) - 1 : <<q[i], q[i + 1]>> = Prompt}

\* std::getline on the script: nothing, after its end.
Line(s, k) == IF k <= Len(Script[s]) THEN Script[s][k] ELSE "blank"

\* Faulty variant of WriteLine: the line is taken and never sent.
WriteLineNowhere(s, l) == UNCHANGED ends

\* Faulty variant of WriteLine: it overtakes one that waits.
WriteLineFirst(s, l) ==
    IF Len(toShell[s]) < LineCap
    THEN /\ toShell' = [toShell EXCEPT ![s] = Append(@, l)]
         /\ heard' = [heard EXCEPT ![s] = Append(@, l)]
         /\ UNCHANGED late
    ELSE late' = [late EXCEPT ![s] = <<l>> \o @] /\ UNCHANGED <<toShell, heard>>

\* async_write of a line to the shell, from a local: at once if it fits.
WriteLine(s, l) ==
    IF late[s] = <<>> /\ Len(toShell[s]) < LineCap
    THEN /\ toShell' = [toShell EXCEPT ![s] = Append(@, l)]
         /\ heard' = [heard EXCEPT ![s] = Append(@, l)]
         /\ UNCHANGED late
    ELSE late' = [late EXCEPT ![s] = Append(@, l)] /\ UNCHANGED <<toShell, heard>>

\* Faulty variant of Answered: every piece is.
AnsweredAlways(s, n) == TRUE

\* Whether the piece of n units that arrives is answered.
Answered(s, n) == PromptsIn(SubSeq(fromShell[s], 1, n)) # {}

\* The handler of the read of n units, up to what it shows.
Take(s, n) ==
    /\ stage[s] = "relay" /\ ~ reply[s] /\ n \in 1 .. Len(fromShell[s])
    /\ fromShell' = [fromShell EXCEPT ![s] = SubSeq(@, n + 1, Len(@))]
    /\ cut' = [cut EXCEPT ![s] = @ \/ n \in PromptsIn(fromShell[s])]
    /\ IF Answered(s, n)
       THEN /\ line[s] < MaxLines
            /\ line' = [line EXCEPT ![s] = @ + 1]
            /\ WriteLine(s, Line(s, line[s] + 1))
       ELSE UNCHANGED <<line, ends>>
    /\ UNCHANGED <<prog, stage, reply, shell, noise, said, noisy>>

\* Faulty variant of Show: the line that answers is shown in place of the piece.
ShowLineOnly(s, n) ==
    IF Answered(s, n) THEN <<<<Line(s, line[s] + 1)>>>> ELSE <<SubSeq(fromShell[s], 1, n)>>

\* What it shows: the piece, and the line that answers it.
Show(s, n) ==
    LET piece == SubSeq(fromShell[s], 1, n)
    IN  IF Answered(s, n) THEN <<piece, <<Line(s, line[s] + 1)>>>> ELSE <<piece>>

\* Faulty variant of Output: does not wait for room.
OutputAtOnce(s, writes) ==
    /\ unread' = unread + Len(writes)
    /\ shown' = [shown EXCEPT ![s] = @ \o FlattenSeq(writes)]
    /\ UNCHANGED owed

\* output_shell and output_command, std::cout on the browser's socket: the
\* thread is blocked until all is written.
Output(s, writes) ==
    /\ unread + Len(writes) <= PageCap
    /\ unread' = unread + Len(writes)
    /\ shown' = [shown EXCEPT ![s] = @ \o FlattenSeq(writes)]
    /\ UNCHANGED owed

\* What is on the page after units more.
OnPage(s, units) == shown[s] \o (IF Junk \in Range(shown[s]) THEN <<>> ELSE units)

\* async_write to the browser's socket, from temporaries, one for each.
Post(s, writes) ==
    LET room == IF owed = <<>> THEN PageCap - unread ELSE 0
        fit  == IF room < Len(writes) THEN room ELSE Len(writes)
    IN  /\ Len(owed) + Len(writes) - fit <= MaxOwed
        /\ unread' = unread + fit
        /\ shown' = [shown EXCEPT ![s] = OnPage(s, FlattenSeq(SubSeq(writes, 1, fit)))]
        /\ owed' = owed \o [i \in 1 .. Len(writes) - fit |-> <<s, writes[fit + i]>>]

\* console::do_read_from_npshell
ReceiveCgi(s, n) == prog = "cgi" /\ Take(s, n) /\ Output(s, Show(s, n))

\* socks_console::do_read_from_npshell
ReceiveSocks(s, n) == prog = "socks" /\ Take(s, n) /\ Output(s, Show(s, n))

\* console::do_read_from_npshell of the web server
ReceiveWeb(s, n) == prog = "web" /\ Take(s, n) /\ Post(s, Show(s, n))

\* The read of a shell that has gone: the chain stops.  What has arrived is read
\* first, unless the shell left a line unread: then its connection is reset.
ReadEnd(s) ==
    /\ stage[s] = "relay" /\ shell[s] = "gone"
    /\ fromShell[s] = <<>> \/ toShell[s] # <<>>
    /\ stage' = [stage EXCEPT ![s] = "over"]
    /\ UNCHANGED <<prog, reply, line, ends, shell, fromShell, page, noise, said, cut, noisy>>

\* A write to the shell is done later, unless the session is over and its
\* socket closed.
Flush(s) ==
    /\ stage[s] = "relay" /\ late[s] # <<>> /\ Len(toShell[s]) < LineCap
    /\ \E l \in {Head(late[s]), Junk} :
          /\ toShell' = [toShell EXCEPT ![s] = Append(@, l)]
          /\ heard' = [heard EXCEPT ![s] = Append(@, l)]
    /\ late' = [late EXCEPT ![s] = Tail(@)]
    /\ UNCHANGED <<prog, stage, reply, line, shell, fromShell, page, noise, said, cut, noisy>>

\* The sessions hold the browser's connection of the web server between them:
\* it is closed with the last of them, and what it still owed is cancelled.  (The
\* write of the page's head, which holds it too, is taken to be done.)
PageOpen == \E s \in Sessions : stage[s] \notin {"none", "over"}

\* A write to the page is done later.
FlushPage ==
    /\ PageOpen /\ owed # <<>> /\ unread < PageCap
    /\ unread' = unread + 1 /\ owed' = Tail(owed)
    /\ LET s == Head(owed)[1]
       IN  \E w \in {Head(owed)[2], <<Junk>>} :
              shown' = [shown EXCEPT ![s] = OnPage(s, w)]
    /\ UNCHANGED <<prog, stage, reply, line, ends, shell, fromShell, noise, said, cut, noisy>>

-----------------------------------------------------------------------------
(* The browser, the SOCKS server and the shells. *)

Browse ==
    /\ unread > 0 /\ unread' = unread - 1
    /\ UNCHANGED <<prog, stage, reply, line, ends, shell, fromShell, owed, shown, noise,
                   said, cut, noisy>>

\* The SOCKS server grants the connection, refuses it, or goes away.
ProxyAnswers(s) ==
    /\ stage[s] = "relay" /\ shell[s] = "proxy"
    /\ \E next \in {"starting", "gone"}, r \in {<<"r", "r">>, <<>>} :
          /\ next = "starting" => r # <<>>
          /\ shell' = [shell EXCEPT ![s] = next]
          /\ fromShell' = [fromShell EXCEPT ![s] = @ \o r]
    /\ UNCHANGED <<prog, stage, reply, line, ends, page, noise, said, cut, noisy>>

Says(s, units) ==
    /\ fromShell' = [fromShell EXCEPT ![s] = @ \o units]
    /\ said' = [said EXCEPT ![s] = @ \o units]

\* The shell asks for its first line.
ShellStart(s) ==
    /\ stage[s] = "relay" /\ shell[s] = "starting"
    /\ shell' = [shell EXCEPT ![s] = "up"]
    /\ Says(s, Prompt)
    /\ UNCHANGED <<prog, stage, reply, line, ends, page, noise, cut, noisy>>

\* The shell reads a line, runs it, whose output may have "% " in it, and asks
\* for the next; exit ends it.
ShellRun(s) ==
    /\ shell[s] = "up" /\ toShell[s] # <<>>
    /\ toShell' = [toShell EXCEPT ![s] = Tail(@)]
    /\ LET l == Head(toShell[s])
       IN  IF l = "exit"
           THEN /\ shell' = [shell EXCEPT ![s] = "gone"]
                /\ UNCHANGED <<fromShell, said, noise, noisy>>
           ELSE /\ \/ /\ Says(s, (IF l = "blank" THEN <<>> ELSE <<"t">>) \o Prompt)
                      /\ UNCHANGED <<noise, noisy>>
                   \/ /\ l # "blank" /\ noise < MaxNoise /\ noise' = noise + 1
                      /\ Says(s, Prompt \o Prompt)
                      /\ noisy' = [noisy EXCEPT ![s] = TRUE]
                /\ UNCHANGED shell
    /\ UNCHANGED <<prog, stage, reply, line, late, heard, page, cut>>

\* Another user's message comes through the shell, maybe with "% " in it.
Noise(s) ==
    /\ shell[s] = "up" /\ noise < MaxNoise /\ noise' = noise + 1
    /\ \E units \in {<<"t">>, Prompt} :
          /\ Says(s, units)
          /\ noisy' = [noisy EXCEPT ![s] = @ \/ units = Prompt]
    /\ UNCHANGED <<prog, stage, reply, line, ends, shell, page, cut>>

Handler(s) ==
    \/ Resolve(s) \/ Connect(s) \/ ConnectSocks(s) \/ Abort(s) \/ ReadEnd(s)
    \/ \E n \in 1 .. Len(fromShell[s]) :
          ReadReply(s, n) \/ ReceiveCgi(s, n) \/ ReceiveSocks(s, n) \/ ReceiveWeb(s, n)

Shell(s) == ProxyAnswers(s) \/ ShellStart(s) \/ ShellRun(s)

Next ==
    \/ \E s \in Sessions : Handler(s) \/ Flush(s) \/ Shell(s) \/ Noise(s)
    \/ FlushPage \/ Browse

Spec == Init /\ [][Next]_vars

\* The thread serves every session that can be served, the kernel sends what it
\* has, the browser reads, and the shells run what they are told.
Fairness ==
    /\ \A s \in Sessions : WF_vars(Handler(s)) /\ WF_vars(Flush(s)) /\ WF_vars(Shell(s))
    /\ WF_vars(FlushPage) /\ WF_vars(Browse)

FairSpec == Spec /\ Fairness

-----------------------------------------------------------------------------
(* Properties. *)

Units == {"%", "sp", "t", "r", "cmd", "exit", "blank", Junk}

\* Types, and the socket buffers' limits (async_write and std::cout at
\* hw4 console.cpp:38, :243 and main.cpp:554).
TypeOK ==
    /\ prog \in Programs
    /\ stage \in [Sessions -> {"none", "resolve", "connect", "relay", "over"}]
    /\ shell \in [Sessions -> {"proxy", "starting", "up", "gone"}]
    /\ reply \in [Sessions -> BOOLEAN] /\ line \in [Sessions -> 0 .. MaxLines]
    /\ unread \in 0 .. PageCap /\ noise \in 0 .. MaxNoise
    /\ owed \in Seq(Sessions \X Seq(Units))
    /\ \A q \in {toShell, late, heard, fromShell, said, shown} : q \in [Sessions -> Seq(Units)]
    /\ \A s \in Sessions : Len(toShell[s]) <= LineCap
    /\ cut \in [Sessions -> BOOLEAN] /\ noisy \in [Sessions -> BOOLEAN]

\* The shell and the session are never both waiting for the other, and no
\* line is sent that the shell has not asked for (hw4 console.cpp:234 answers a
\* piece, not a prompt).  A prompt in two pieces is not seen, and a command's
\* output or another user's message may look like one.
OneTurn ==
    \A s \in Sessions :
       LET turns == Len(toShell[s] \o late[s]) + Cardinality(PromptsIn(fromShell[s]))
       IN  stage[s] = "relay" /\ ~ reply[s] /\ shell[s] = "up" /\ ~ cut[s]
              => turns >= 1 /\ (turns = 1 \/ noisy[s])

\* The lines of the script come to the shell in order, and whole: no write is
\* done from memory that is no longer the line (hw4 console.cpp:243, the buffer
\* is a local), as long as nothing else the shell writes looks like a prompt.
LinesInOrder ==
    \A s \in Sessions :
       LET sent == heard[s] \o late[s]
       IN  /\ Len(sent) = line[s]
           /\ \A i \in DOMAIN sent : sent[i] = Line(s, i) \/ (sent[i] = Junk /\ noisy[s])

\* The units of q that are in U, in order, and what the writes in o of s hold.
Only(U, q)   == FlattenSeq([i \in DOMAIN q |-> IF q[i] \in U THEN <<q[i]>> ELSE <<>>])
Writes(s, o) == FlattenSeq([i \in DOMAIN o |-> IF o[i][1] = s THEN o[i][2] ELSE <<>>])

\* The page shows all that was read of the shell, in order, and the lines sent
\* where they were sent (hw4 console.cpp:232 and :241).  Only a page of the web
\* server may end before that, or have a write from dead memory on it: what does
\* not fit the browser's socket is written later, and cancelled when the last
\* session ends first (main.cpp:554, :565, and :323, which holds the connection).
PageFaithful ==
    \A s \in Sessions :
       LET missing == Writes(s, owed)
           whole   == shown[s] \o missing
       IN  IF Junk \in Range(shown[s]) THEN prog = "web"
           ELSE /\ missing # <<>> => prog = "web"
                /\ Only({"t", "%", "sp"}, whole \o fromShell[s]) = said[s]
                /\ Only({"cmd", "exit", "blank"}, whole) = [i \in 1 .. line[s] |-> Line(s, i)]

\* A session comes to its end: its script is run to the exit in it, however the
\* handlers of the sessions and the browser interleave (hw4 console.cpp:247),
\* unless a prompt or a reply came in two pieces or a line was lost.
ScriptRuns ==
    \A s \in Sessions :
       stage[s] = "resolve" ~> \/ stage[s] = "over"
                               \/ cut[s]
                               \/ Junk \in Range(heard[s])
=============================================================================
