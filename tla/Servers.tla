------------------------------- MODULE Servers -------------------------------
(***************************************************************************)
(* How each server takes connections, and lets them go: np_simple (hw2     *)
(* simple_server.cpp), np_multi_proc (hw2 multi_server.cpp), http_server   *)
(* (hw3), socks_server (hw4) and the single-process web server (hw3        *)
(* main.cpp).  The first four fork a process for every connection, which   *)
(* is named after the connection here; what it does with it is left to     *)
(* the other modules, but for reading an HTTP request, which is done here. *)
(* The web server keeps everything in one process.                         *)
(***************************************************************************)
EXTENDS Integers, FiniteSets, SequencesExt

CONSTANTS
    MaxConns,  \* bound: connections
    Programs,  \* programs checked, of "simple", "multi", "http", "socks", "web"
    Rows,      \* the rows of the form, in its order: 0 .. 4 in the code
    Hosts,     \* the hosts that can be chosen in a row
    MaxFails   \* bound: failures of fork

ASSUME ServersAssumption ==
    /\ Programs \subseteq {"simple", "multi", "http", "socks", "web"}
    /\ MaxConns \in Nat /\ MaxFails \in Nat /\ Rows \subseteq Nat
    /\ Hosts \cap {"", "absent", "cut"} = {}

\* Connections are numbered as they arrive.
Conns == 1 .. MaxConns

\* A form names each row's host, chooses none for it, or leaves the row out.  The
\* form of panel.cgi leaves none out.
Forms == [Rows -> Hosts \cup {"", "absent"}]

\* What comes of form f when only its first bytes do: its rows before k and of row
\* k, which names a host, nothing, "h0=", or the start of the host's name.
CutOff(f, k, h) ==
    [r \in Rows |-> IF r < k THEN f[r] ELSE IF r = k THEN h ELSE "absent"]

Received == [Rows -> Hosts \cup {"", "absent", "cut"}]

Cuts == {f \in Received : \E g \in Forms, k \in Rows, h \in {"absent", "", "cut"} :
                             (\A r \in Rows : g[r] # "absent") /\ f = CutOff(g, k, h)}

Tables == [Rows -> Hosts \cup {"", "cut"}]
Fresh  == [r \in Rows |-> ""]

VARIABLES
    prog,     \* the program, which never changes
    at,       \* the server: <<"accept">>, <<"fork", c>>, <<"wait", c>>, <<"dead">>
    queue,    \* kernel: connections that were not accepted yet
    mine,     \* connections the server has open
    held,     \* connections each process has open
    proc,     \* processes: "none", "running", "zombie", "reaped"
    pending,  \* kernel: SIGCHLD was raised and not handled
    client,   \* "out", "in", "left"
    request,  \* the first piece of a client's request, "none" before it comes:
              \* "start", it ends before the path, "path", it ends in it; then
              \* "panel" or a "form", as they were sent, or "cut", a part of a form
    form,     \* the rows in that piece
    table,    \* web: np_server, a global
    fails,    \* failures of fork so far
    served,   \* history: the connections served, in order
    opened,   \* history: the rows for which each had sessions started
    dropped   \* history: connections closed because fork failed

procs  == <<held, proc, pending>>
sent   == <<client, request, form>>
rows   == <<table, opened>>
vars   == <<prog, at, queue, mine, procs, sent, rows, fails, served, dropped>>

Init ==
    /\ prog \in Programs /\ at = <<"accept">> /\ queue = <<>> /\ mine = {}
    /\ held = [c \in Conns |-> {}] /\ proc = [c \in Conns |-> "none"]
    /\ pending = FALSE /\ fails = 0
    /\ client = [c \in Conns |-> "out"] /\ request = [c \in Conns |-> "none"]
    /\ form = [c \in Conns |-> [r \in Rows |-> "absent"]]
    /\ table = Fresh /\ opened = [c \in Conns |-> Fresh]
    /\ served = <<>> /\ dropped = {}

-----------------------------------------------------------------------------
(* Clients. *)

Connect(c) ==
    /\ client[c] = "out" /\ \A d \in 1 .. c - 1 : client[d] # "out"
    /\ at # <<"dead">>
    /\ client' = [client EXCEPT ![c] = "in"]
    /\ queue' = Append(queue, c)
    /\ UNCHANGED <<prog, at, mine, procs, request, form, rows, fails, served, dropped>>

\* A browser sends its request; what arrives first may be a part of it.  Nobody
\* looks at it before the connection is accepted and, in http_server, has its process.
Send(c) ==
    /\ (prog = "http" /\ proc[c] = "running") \/ (prog = "web" /\ c \in mine)
    /\ client[c] = "in" /\ request[c] = "none"
    /\ \/ /\ \E r \in {"start", "path", "panel"} : request' = [request EXCEPT ![c] = r]
          /\ UNCHANGED form
       \/ /\ request' = [request EXCEPT ![c] = "form"]
          /\ \E f \in Forms : form' = [form EXCEPT ![c] = f]
       \/ /\ request' = [request EXCEPT ![c] = "cut"]
          /\ \E f \in Cuts : form' = [form EXCEPT ![c] = f]
    /\ UNCHANGED <<prog, at, queue, mine, procs, client, rows, fails, served, dropped>>

\* A client closes or resets its end.  A browser that does so when its request is
\* on the way is like one that stays, if the request is read all the same, or like
\* one that has sent none: the read fails, or in http_server remote_endpoint throws.
Leave(c) ==
    /\ client[c] = "in" /\ request[c] = "none"
    /\ client' = [client EXCEPT ![c] = "left"]
    /\ UNCHANGED <<prog, at, queue, mine, procs, request, form, rows, fails, served, dropped>>

-----------------------------------------------------------------------------
(* The server. *)

Forking == prog # "web"

\* accept, do_accept
Accept ==
    /\ at = <<"accept">> /\ queue # <<>>
    /\ mine' = mine \cup {Head(queue)} /\ queue' = Tail(queue)
    /\ at' = IF Forking THEN <<"fork", Head(queue)>> ELSE at
    /\ UNCHANGED <<prog, procs, sent, rows, fails, served, dropped>>

\* Faulty variant of Close: the server leaves it to its process.
CloseLeft(c) == UNCHANGED mine

\* The server closes its copy of a connection.
Close(c) == mine' = mine \ {c}

\* fork: the process has the connections of the server.  np_simple waits for it
\* to end, the others close theirs and accept the next.
Fork(c) ==
    /\ at = <<"fork", c>>
    /\ proc' = [proc EXCEPT ![c] = "running"]
    /\ held' = [held EXCEPT ![c] = mine]
    /\ IF prog = "simple"
       THEN at' = <<"wait", c>> /\ UNCHANGED mine
       ELSE at' = <<"accept">> /\ Close(c)
    /\ UNCHANGED <<prog, queue, pending, sent, rows, fails, served, dropped>>

\* fork fails: np_simple and np_multi_proc try again, the others take -1 for the
\* parent's side and close the connection.
ForkFails(c) ==
    /\ at = <<"fork", c>> /\ fails < MaxFails /\ fails' = fails + 1
    /\ IF prog \in {"simple", "multi"}
       THEN UNCHANGED <<at, mine, dropped>>
       ELSE at' = <<"accept">> /\ Close(c) /\ dropped' = dropped \cup {c}
    /\ UNCHANGED <<prog, queue, procs, sent, rows, served>>

\* np_simple: waitpid of the one process there is.
Wait(c) ==
    /\ at = <<"wait", c>> /\ proc[c] = "zombie"
    /\ proc' = [proc EXCEPT ![c] = "reaped"]
    /\ at' = <<"accept">> /\ Close(c)
    /\ UNCHANGED <<prog, queue, held, pending, sent, rows, fails, served, dropped>>

\* Faulty variant of Reap: one waitpid for a signal.
ReapOne ==
    LET dead == {c \in Conns : proc[c] = "zombie"}
    IN  IF dead = {} THEN UNCHANGED proc
        ELSE \E c \in dead : proc' = [proc EXCEPT ![c] = "reaped"]

\* waitpid until there is nobody: one signal may stand for many processes.
Reap == proc' = [c \in Conns |-> IF proc[c] = "zombie" THEN "reaped" ELSE proc[c]]

\* childHandler of np_multi_proc, which interrupts it anywhere, and the handler
\* of wait_for_signal, run by the loop that accepts.
ChildHandler ==
    /\ prog \in {"multi", "http", "socks"} /\ pending
    /\ prog = "multi" \/ at = <<"accept">>
    /\ Reap /\ pending' = FALSE
    /\ UNCHANGED <<prog, at, queue, mine, held, sent, rows, fails, served, dropped>>

-----------------------------------------------------------------------------
(* HTTP requests. *)

\* Faulty variant of Filled: a row without a host is passed over.
FilledNamed(t, f) == [r \in Rows |-> IF f[r] \in Hosts THEN f[r] ELSE t[r]]

\* The query string, row by row into np_server.
Filled(t, f) == [r \in Rows |-> IF f[r] = "absent" THEN t[r] ELSE f[r]]

\* The connection has been served.
Serves(c) == c \notin Range(served) /\ served' = Append(served, c)

\* A process of http_server reads a request and is replaced by the program in
\* it, if there is one of that name; console.cgi starts with an np_server of its own.
ReadHttp(c) ==
    /\ prog = "http" /\ proc[c] = "running" /\ request[c] \notin {"none", "start"}
    /\ Serves(c)
    /\ opened' = [opened EXCEPT ![c] = Filled(Fresh, form[c])]
    /\ UNCHANGED <<prog, at, queue, mine, procs, sent, table, fails, dropped>>

\* connection::read_request of the web server: what has come of the form goes into
\* np_server, and every row of it that has a host is opened.
ReadWeb(c) ==
    /\ prog = "web" /\ c \in mine /\ request[c] \notin {"none", "start"}
    /\ Serves(c)
    /\ IF request[c] \in {"form", "cut"}
       THEN /\ table' = Filled(table, form[c])
            /\ opened' = [opened EXCEPT ![c] = table']
       ELSE UNCHANGED rows
    /\ UNCHANGED <<prog, at, queue, mine, procs, sent, fails, dropped>>

\* A piece without a path: substr throws, nobody catches it, and the process that
\* holds all connections ends.
StartWeb(c) ==
    /\ prog = "web" /\ c \in mine /\ request[c] = "start"
    /\ at' = <<"dead">> /\ mine' = {} /\ queue' = <<>>
    /\ UNCHANGED <<prog, procs, sent, rows, fails, served, dropped>>

\* The connection of the web server is destroyed when nothing refers to it: its
\* reply is written and its sessions are over, or it could not be read.
EndWeb(c) ==
    /\ prog = "web" /\ c \in mine
    /\ c \in Range(served) \/ client[c] = "left"
    /\ Close(c)
    /\ UNCHANGED <<prog, at, queue, procs, sent, rows, fails, served, dropped>>

-----------------------------------------------------------------------------
(* The processes. *)

\* A shell shows its prompt, a SOCKS handler starts to read.
Start(c) ==
    /\ prog \in {"simple", "multi", "socks"} /\ proc[c] = "running"
    /\ Serves(c)
    /\ UNCHANGED <<prog, at, queue, mine, procs, sent, rows, fails, dropped>>

\* A process ends: it is done, which it may be at any time once it has started, or
\* its client has left, which some only notice when they read or write.  In
\* http_server a piece that ends before the path makes substr throw, and one that
\* ends before the version makes parse read beyond the words of the line
\* (first_line[2]).
Exit(c) ==
    /\ proc[c] = "running"
    /\ \/ c \in Range(served) \/ client[c] = "left"
       \/ prog = "http" /\ request[c] \in {"start", "path", "cut"}
    /\ proc' = [proc EXCEPT ![c] = "zombie"]
    /\ held' = [held EXCEPT ![c] = {}]
    /\ pending' = TRUE
    /\ UNCHANGED <<prog, at, queue, mine, sent, rows, fails, served, dropped>>

Server == \/ Accept \/ ChildHandler
          \/ \E c \in Conns : Fork(c) \/ Wait(c) \/ ReadWeb(c) \/ StartWeb(c) \/ EndWeb(c)

Next ==
    \/ Server
    \/ \E c \in Conns : \/ Connect(c) \/ Send(c) \/ Leave(c) \/ ForkFails(c)
                        \/ Start(c) \/ ReadHttp(c) \/ Exit(c)

Spec == Init /\ [][Next]_vars

\* Nothing is run for c that waits for somebody else: no shell, no SOCKS session
\* and no session of a form.
Brief(c) == prog \in {"http", "web"} /\ request[c] \notin {"form", "cut"}

\* The server does what it can, for each connection, and each process reads its
\* request.  But nothing makes a shell, a SOCKS session or the sessions of a form
\* come to an end, not even that the client leaves.
Fairness ==
    /\ WF_vars(Accept) /\ WF_vars(ChildHandler)
    /\ \A c \in Conns :
          /\ WF_vars(Fork(c)) /\ WF_vars(Wait(c))
          /\ WF_vars(ReadWeb(c)) /\ WF_vars(StartWeb(c))
          /\ WF_vars(Start(c) \/ ReadHttp(c))
          /\ WF_vars(Brief(c) /\ (Exit(c) \/ EndWeb(c)))

FairSpec == Spec /\ Fairness

-----------------------------------------------------------------------------
(* Properties. *)

\* Types.  No server holds a connection that is still queued, and a server that
\* forks holds at most the one it is about to hand over (simple_server.cpp:90,
\* multi_server.cpp:83, http_server.cpp:89).
TypeOK ==
    /\ prog \in Programs
    /\ at \in {<<"accept">>, <<"dead">>} \cup ({"fork", "wait"} \X Conns)
    /\ mine \subseteq Conns /\ held \in [Conns -> SUBSET Conns]
    /\ proc \in [Conns -> {"none", "running", "zombie", "reaped"}]
    /\ pending \in BOOLEAN /\ fails \in 0 .. MaxFails /\ dropped \subseteq Conns
    /\ client \in [Conns -> {"out", "in", "left"}]
    /\ request \in [Conns -> {"none", "start", "path", "panel", "form", "cut"}]
    /\ form \in [Conns -> Received] /\ table \in Tables /\ opened \in [Conns -> Tables]
    /\ served \in Seq(Conns) /\ queue \in Seq(Conns)
    /\ IsInjective(served) /\ IsInjective(queue) /\ Range(queue) \cap mine = {}
    /\ Forking => Cardinality(mine) <= 1

\* Of the requests served from the first to the last given, the last one that has
\* row r in what came of its form has h there, or none has and h is no host.
Chosen(first, last, r, h) ==
    LET named == {j \in first .. last : form[served[j]][r] # "absent"}
    IN  IF named = {} THEN h = ""
        ELSE \E j \in named : h = form[served[j]][r] /\ \A k \in named : k <= j

\* A form that arrives in one piece and has all rows, as panel.cgi's has, has
\* exactly those sessions started that it asks for, whatever was requested before.
\* So has, in console.cgi, one that leaves rows out.  In the web server, where
\* np_server is shared by all requests and never cleared (main.cpp:467), a row that
\* is left out or cut off is opened, and that is not what was asked, as the last
\* request had it that came with it, with its host's name cut or whole.
OpenedAsAsked ==
    \A i \in DOMAIN served :
       LET c == served[i]
       IN  /\ request[c] = "form" /\ (\A r \in Rows : form[c][r] # "absent") =>
                 opened[c] = form[c]
           /\ request[c] \in {"form", "cut"} =>
                 \A r \in Rows : Chosen(IF prog = "web" THEN 1 ELSE i, i, r, opened[c][r])

\* Nobody has the connection open and its process is not left over.
LetGo(c) == /\ c \notin Range(queue) /\ c \notin mine /\ at # <<"fork", c>>
            /\ \A d \in Conns : c \notin held[d]
            /\ proc[c] \in {"none", "reaped"}

\* Why a client may not be served: it left, fork failed (http_server.cpp:81),
\* its request came in pieces (http_server.cpp:161), or somebody else's did
\* (main.cpp:456).
Excused(c) == \/ client[c] = "left" \/ c \in dropped \/ at = <<"dead">>
              \/ request[c] \in {"start", "path", "cut"}

\* Nobody needs the connection any more: its process has ended, fork failed, or a
\* browser has sent a request that starts no sessions.
Over(c) == proc[c] = "zombie" \/ c \in dropped \/ (Brief(c) /\ request[c] # "none")

\* A client sends its request, if the server is one to read it, or leaves; and the
\* shell of np_simple, which keeps all others waiting (simple_server.cpp:89), ends.
Patient == \A c \in Conns : /\ WF_vars(Send(c) \/ Leave(c))
                             /\ WF_vars(prog = "simple" /\ Exit(c))

\* Who connects is served, and a connection that is over is closed in every process
\* and its process is reaped, although SIGCHLDs coalesce (multi_shell.cpp:707,
\* http_server.cpp:59) and the processes of other connections may stay for ever.
Served ==
    Patient =>
       \A c \in Conns : /\ client[c] = "in" ~> c \in Range(served) \/ Excused(c)
                        /\ Over(c) ~> LetGo(c)
=============================================================================
