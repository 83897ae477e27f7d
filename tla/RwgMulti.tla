------------------------------ MODULE RwgMulti ------------------------------
(***************************************************************************)
(* The multi-process remote working ground (hw2 multi_server.cpp,          *)
(* multi_shell.cpp, user.cpp): one process per connection.  The processes  *)
(* share the table of users and one message board, both in shared memory   *)
(* with no lock, and the FIFO files that carry the users' pipes.  SIGUSR1  *)
(* tells a process to show the board; SIGUSR2 tells it that the board      *)
(* names a FIFO to open for reading.                                       *)
(*                                                                         *)
(* A step is what other processes can see at once: a look at the table, a  *)
(* write of one entry, half of a strcpy to the board, a kill, an open.  A  *)
(* process runs a handler between any two of its steps; while the handler  *)
(* of SIGUSR2 is blocked in open, the process's own code stands still.     *)
(* The lines `cmd >n' and `cmd <n' stand for every use of a user's pipe;   *)
(* ordinary commands and numbered pipes are those of NumberedPipes.        *)
(***************************************************************************)
EXTENDS Naturals, FiniteSets

CONSTANTS
    MaxUsers,  \* entries of the table: 30 in the code
    Clients,   \* one server process per connection, known by its pid
    Nobody,    \* the pid -1 of a free entry
    Names,     \* nicknames that can be typed
    NoName,    \* "(no name)"
    Commands,  \* the commands clients type
    MaxLines   \* bound: lines a client types, or a close, before it leaves

ASSUME RwgMultiAssumption ==
    /\ MaxUsers \in Nat \ {0} /\ MaxLines \in Nat
    /\ Nobody \notin Clients /\ NoName \notin Names
    /\ Commands \subseteq {"name", "yell", "tell", "out", "in"}

Slots == 1 .. MaxUsers          \* the entry i - 1 always holds the id i
Paths == Slots \X Slots         \* <<s, r>> is the file user_pipe/s->r
Words == <<0, 0>>               \* a board that holds no address
Board == (0 .. MaxUsers) \X (0 .. MaxUsers)

VARIABLES
    users,    \* shared: the table, a pid and a nickname per entry
    board,    \* shared: the address on the board, or Words
    fifos,    \* the FIFO files that exist
    pc, job,  \* where each process is, and what it is working on
    pend,     \* signals sent to each process and not handled yet
    opening,  \* the FIFO the SIGUSR2 handler is blocked opening, or Words
    fdIn,     \* user_pipe_fd_in: the FIFOs each process can read
    lines,    \* lines each client has typed
    conn,     \* the connection: "up", "closed" by the client, "reset"
    racing,   \* processes whose strcpy to the board overlaps another's
    owes,     \* history: owes[q] have not shown the board since q wrote news
    met,      \* history: two processes were between a look at the table and
              \* a write of it, or a login found the table full
    disturbed \* history: an address was overwritten, or its reader left, or a
              \* process was killed

shared == <<users, board, fifos>>
local  == <<pc, job, pend, opening, fdIn, conn>>
history == <<racing, owes, met, disturbed>>
vars   == <<users, board, fifos, pc, job, pend, opening, fdIn, lines, conn,
            racing, owes, met, disturbed>>

Free == [pid |-> Nobody, nick |-> NoName]

\* What a process works on: the address it writes, if any, the entry and the
\* name and the FIFO it uses, the pid it looked up, the next entry to signal,
\* and what comes after the board and after the signals.
Idle == [address |-> Words, to |-> 0, name |-> NoName, file |-> Words,
         pid |-> Nobody, at |-> 0, next |-> "poke", then |-> "prompt"]

Init ==
    /\ users = [i \in Slots |-> Free]
    /\ board = Words
    /\ fifos = {}
    /\ pc = [p \in Clients |-> "new"]
    /\ job = [p \in Clients |-> Idle]
    /\ pend = [p \in Clients |-> {}]
    /\ opening = [p \in Clients |-> Words]
    /\ fdIn = [p \in Clients |-> {}]
    /\ lines = [p \in Clients |-> 0]
    /\ conn = [p \in Clients |-> "up"]
    /\ racing = {}
    /\ owes = [p \in Clients |-> {}]
    /\ met = FALSE
    /\ disturbed = FALSE

-----------------------------------------------------------------------------
Lowest(S) == IF S = {} THEN 0 ELSE CHOOSE i \in S : \A j \in S : i <= j
Taken(i)  == users[i].pid # Nobody
Listed    == {users[i].pid : i \in {j \in Slots : Taken(j)}}
Id(p)     == Lowest({i \in Slots : users[i].pid = p})  \* find_user_bypid, or 0
Live(p)   == pc[p] \notin {"new", "gone"}

\* Faulty variant of At: the FIFO is opened in a thread, and the process goes on.
AtWhileOpening(p, l) == pc[p] = l

\* A process takes its own steps only while no handler of it is blocked.
At(p, l) == pc[p] = l /\ opening[p] = Words

\* Where `<n' and `>n' find user n: their loops stop at the first free entry.
Found(n) == \A j \in 1 .. n : Taken(j)

\* kill(pid, sig): a pid of -1 means every process but the caller.  Server
\* processes only; the listening process and running commands are left out.
Kill(p, pid, sig) ==
    LET hit == IF pid = Nobody THEN Clients \ {p} ELSE {pid}
    IN  pend' = [q \in Clients |-> IF q \in hit /\ Live(q)
                                   THEN pend[q] \cup {sig} ELSE pend[q]]

\* The process is killed: the kernel closes its descriptors, and its entry and
\* its FIFOs stay.
Die(p) ==
    /\ pc' = [pc EXCEPT ![p] = "gone"]
    /\ job' = [job EXCEPT ![p] = Idle]
    /\ pend' = [pend EXCEPT ![p] = {}]
    /\ opening' = [opening EXCEPT ![p] = Words]
    /\ fdIn' = [fdIn EXCEPT ![p] = {}]
    /\ racing' = racing \ {p}
    /\ owes' = [owes EXCEPT ![p] = {}]
    /\ disturbed' = TRUE
    /\ UNCHANGED <<users, board, fifos, lines, conn, met>>

\* Write the board, signal and go on as the record j says.
Announce(p, j) ==
    /\ pc' = [pc EXCEPT ![p] = "copy"]
    /\ job' = [job EXCEPT ![p] = j]

News(then) == [Idle EXCEPT !.then = then]   \* broadcast, then go on at `then'

\* A sender is about to look for the user in entry i.
Sought(i) == \E p \in Clients : job[p].address # Words /\ job[p].address[2] = i

\* An address of p waits for the process it is meant for.
InFlight(p) ==
    /\ job[p].address # Words
    /\ pc[p] \in {"copying", "look", "kill", "wopen"}
    /\ \A r \in Clients : opening[r] # job[p].address

-----------------------------------------------------------------------------
(* Logging in *)

\* accept, fork, and the look for a free entry; 0 when the table is full.
Login(p) ==
    /\ pc[p] = "new"
    /\ pc' = [pc EXCEPT ![p] = "enter"]
    /\ job' = [job EXCEPT ![p].to = Lowest({i \in Slots : ~Taken(i)})]
    /\ met' = (\/ met
               \/ \E q \in Clients : pc[q] = "enter"
               \/ \A i \in Slots : Taken(i))
    /\ UNCHANGED <<shared, pend, opening, fdIn, lines, conn, racing, owes,
                   disturbed>>

\* users[pos] = new_user.  A full table writes users[-1]: the process dies of
\* it (Crash) or goes on without an entry.
Enter(p) ==
    /\ At(p, "enter")
    /\ users' = [i \in Slots |-> IF i = job[p].to
                                 THEN [pid |-> p, nick |-> NoName]
                                 ELSE users[i]]
    /\ Announce(p, News("reset"))
    /\ UNCHANGED <<board, fifos, pend, opening, fdIn, lines, conn, history>>

\* NPloop starts by clearing user_pipe_fd_in.
StartLoop(p) ==
    /\ At(p, "reset")
    /\ fdIn' = [fdIn EXCEPT ![p] = {}]
    /\ pc' = [pc EXCEPT ![p] = "prompt"]
    /\ job' = [job EXCEPT ![p] = Idle]
    /\ UNCHANGED <<shared, pend, opening, lines, conn, history>>

\* A process without an entry reads users[-1], and may die of it.
Crash(p) ==
    /\ \/ At(p, "enter") /\ job[p].to = 0
       \/ At(p, "prompt") /\ Id(p) = 0
    /\ Die(p)

-----------------------------------------------------------------------------
(* The board *)

\* What the board may hold while strcpys run over it: each number from the
\* old text or from one of the texts being written.
Mixed(p) ==
    LET texts == {board, job[p].address}
                 \cup {job[q].address : q \in {c \in Clients : pc[c] = "copying"}}
    IN  {<<a[1], b[2]>> : a \in texts, b \in texts}

\* strcpy(line->msg, ...) begins ...
Copy(p) ==
    LET others == {q \in Clients \ {p} : pc[q] = "copying"}
    IN  /\ At(p, "copy")
        /\ pc' = [pc EXCEPT ![p] = "copying"]
        /\ board' \in Mixed(p)
        /\ racing' = IF others = {} THEN racing ELSE racing \cup others \cup {p}
        /\ disturbed' = (\/ disturbed
                         \/ \E q \in Clients \ {p} : InFlight(q)
                         \/ job[p].address # Words /\ others # {})
        /\ UNCHANGED <<users, fifos, job, pend, opening, fdIn, lines, conn,
                       owes, met>>

\* ... and ends.
Copied(p) ==
    /\ At(p, "copying")
    /\ pc' = [pc EXCEPT ![p] = job[p].next]
    /\ job' = [job EXCEPT ![p].at = IF job[p].next = "poke" THEN 1 ELSE 0]
    /\ board' \in IF p \in racing THEN Mixed(p) ELSE {job[p].address}
    /\ racing' = racing \ {p}
    /\ owes' = [owes EXCEPT ![p] = IF job[p].next = "poke" THEN Listed ELSE {}]
    /\ UNCHANGED <<users, fifos, pend, opening, fdIn, lines, conn, met,
                   disturbed>>

\* Faulty variant of Poke: the loop runs one turn too many.
PokePastEnd(p) ==
    LET i == job[p].at
    IN  /\ At(p, "poke")
        /\ IF Taken(i) THEN Kill(p, users[i].pid, "usr1") ELSE UNCHANGED pend
        /\ job' = [job EXCEPT ![p].at = i + 1]
        /\ pc' = [pc EXCEPT ![p] = IF i <= MaxUsers THEN "poke" ELSE @]
        /\ UNCHANGED <<shared, opening, fdIn, lines, conn, history>>

\* Faulty variant of Poke: the loop stops at the first free entry.
PokeToFree(p) ==
    LET i == job[p].at
    IN  /\ At(p, "poke")
        /\ IF Taken(i) THEN Kill(p, users[i].pid, "usr1") ELSE UNCHANGED pend
        /\ IF i < MaxUsers /\ Taken(i)
           THEN /\ job' = [job EXCEPT ![p].at = i + 1]
                /\ UNCHANGED pc
           ELSE /\ job' = [job EXCEPT ![p].at = 0]
                /\ pc' = [pc EXCEPT ![p] = job[p].then]
        /\ UNCHANGED <<shared, opening, fdIn, lines, conn, history>>

\* One turn of broadcast's loop of kills.
Poke(p) ==
    LET i == job[p].at
    IN  /\ At(p, "poke")
        /\ IF Taken(i) THEN Kill(p, users[i].pid, "usr1") ELSE UNCHANGED pend
        /\ IF i < MaxUsers
           THEN /\ job' = [job EXCEPT ![p].at = i + 1]
                /\ UNCHANGED pc
           ELSE /\ job' = [job EXCEPT ![p] = IF @.then = "prompt" THEN Idle
                                             ELSE [@ EXCEPT !.at = 0]]
                /\ pc' = [pc EXCEPT ![p] = job[p].then]
        /\ UNCHANGED <<shared, opening, fdIn, lines, conn, history>>

\* MSGHandler.  The first write after the client closed resets the
\* connection, sooner or later; a write after that kills the process (SIGPIPE).
MSGHandler(p) ==
    /\ Live(p) /\ "usr1" \in pend[p] /\ conn[p] # "reset"
    /\ pend' = [pend EXCEPT ![p] = @ \ {"usr1"}]
    /\ owes' = [q \in Clients |-> owes[q] \ {p}]
    /\ conn' \in IF conn[p] = "closed"
                 THEN {conn, [conn EXCEPT ![p] = "reset"]} ELSE {conn}
    /\ UNCHANGED <<shared, pc, job, opening, fdIn, lines, racing, met, disturbed>>

BrokenPipe(p) ==
    /\ Live(p) /\ "usr1" \in pend[p] /\ conn[p] = "reset"
    /\ Die(p)

-----------------------------------------------------------------------------
(* The commands *)

\* The process reads a line that holds command c.
Line(p, c) ==
    /\ At(p, "prompt") /\ c \in Commands /\ lines[p] < MaxLines
    /\ lines' = [lines EXCEPT ![p] = @ + 1]

NPyell(p) ==
    /\ Line(p, "yell")
    /\ Announce(p, News("prompt"))
    /\ UNCHANGED <<shared, pend, opening, fdIn, conn, history>>

\* tell is refused when no entry has the id; it changes nothing then.
NPtell(p, n) ==
    /\ Line(p, "tell")
    /\ Taken(n)
    /\ Announce(p, [Idle EXCEPT !.to = n, !.next = "tell"])
    /\ UNCHANGED <<shared, pend, opening, fdIn, conn, history>>

\* NPtell's kill: the pid is read again after the board was written.
TellKill(p) ==
    /\ At(p, "tell")
    /\ Kill(p, users[job[p].to].pid, "usr1")
    /\ pc' = [pc EXCEPT ![p] = "prompt"]
    /\ job' = [job EXCEPT ![p] = Idle]
    /\ UNCHANGED <<shared, opening, fdIn, lines, conn, history>>

\* Faulty variant of NameFree: the last entry is not compared.
NameFreeShort(name) ==
    \A i \in 1 .. MaxUsers - 1 : Taken(i) => users[i].nick # name

\* NPname compares every entry in use.
NameFree(name) == \A i \in Slots : Taken(i) => users[i].nick # name

\* NPname looks through the table ...
NPname(p, name) ==
    /\ Line(p, "name")
    /\ NameFree(name)
    /\ pc' = [pc EXCEPT ![p] = "name"]
    /\ job' = [job EXCEPT ![p].name = name]
    /\ met' = (met \/ \E q \in Clients : pc[q] = "name")
    /\ UNCHANGED <<shared, pend, opening, fdIn, conn, racing, owes, disturbed>>

\* ... and writes the name into its own entry.
WriteName(p) ==
    /\ At(p, "name")
    /\ users' = [i \in Slots |-> IF i = Id(p)
                                 THEN [users[i] EXCEPT !.nick = job[p].name]
                                 ELSE users[i]]
    /\ Announce(p, News("prompt"))
    /\ UNCHANGED <<board, fifos, pend, opening, fdIn, lines, conn, history>>

-----------------------------------------------------------------------------
(* User pipes *)

\* "*** Error: user #n does not exist yet. ***", for `>n' and for `<n'.
PipeRefused(p, n) ==
    /\ \E c \in {"out", "in"} : Line(p, c)
    /\ ~Found(n)
    /\ UNCHANGED <<shared, local, history>>

\* `cmd >n': mknod; when the file exists the line ends there.
PipeOut(p, n) ==
    /\ Line(p, "out")
    /\ Found(n) /\ Id(p) # 0
    /\ <<Id(p), n>> \notin fifos
    /\ fifos' = fifos \cup {<<Id(p), n>>}
    /\ Announce(p, [Idle EXCEPT !.address = <<Id(p), n>>, !.next = "look"])
    /\ UNCHANGED <<users, board, pend, opening, fdIn, conn, history>>

\* Faulty variant of FindPid: the sender's id is looked up.
FindOwnPid(p) ==
    /\ At(p, "look")
    /\ job' = [job EXCEPT ![p].pid = users[job[p].address[1]].pid]
    /\ pc' = [pc EXCEPT ![p] = "kill"]
    /\ UNCHANGED <<shared, pend, opening, fdIn, lines, conn, history>>

\* find_pid_byid(n), whose answer is -1 when n has left ...
FindPid(p) ==
    /\ At(p, "look")
    /\ job' = [job EXCEPT ![p].pid = users[job[p].address[2]].pid]
    /\ pc' = [pc EXCEPT ![p] = "kill"]
    /\ UNCHANGED <<shared, pend, opening, fdIn, lines, conn, history>>

\* Faulty variant of SignalReader: the signal of broadcast is sent.
SignalReaderNews(p) ==
    /\ At(p, "kill")
    /\ Kill(p, job[p].pid, "usr1")
    /\ pc' = [pc EXCEPT ![p] = "wopen"]
    /\ UNCHANGED <<shared, job, opening, fdIn, lines, conn, history>>

\* ... kill(that pid, SIGUSR2) ...
SignalReader(p) ==
    /\ At(p, "kill")
    /\ Kill(p, job[p].pid, "usr2")
    /\ pc' = [pc EXCEPT ![p] = "wopen"]
    /\ UNCHANGED <<shared, job, opening, fdIn, lines, conn, history>>

\* ... and open(FIFO, O_WRONLY): it and the opens that wait for it return
\* together.  The command is then run and announced.
OpenOut(p) ==
    LET readers == {r \in Clients : opening[r] = job[p].address}
    IN  /\ At(p, "wopen")
        /\ readers # {}
        /\ opening' = [r \in Clients |-> IF r \in readers THEN Words
                                         ELSE opening[r]]
        /\ fdIn' = [r \in Clients |-> IF r \in readers
                                      THEN fdIn[r] \cup {job[p].address}
                                      ELSE fdIn[r]]
        /\ Announce(p, News("prompt"))
        /\ UNCHANGED <<shared, pend, lines, conn, history>>

\* The reader's logout has removed the FIFO before the open, which then fails:
\* the sender goes on without the pipe.  A sender that was in the open already
\* waits on.
OpenFails(p) ==
    /\ At(p, "wopen")
    /\ job[p].address \notin fifos
    /\ Announce(p, News("prompt"))
    /\ UNCHANGED <<shared, pend, opening, fdIn, lines, conn, history>>

\* User_pipeHandler opens the FIFO that the board names.  The open waits for
\* the writer, unless the writer's command is running already.
PipeHandler(p) ==
    /\ Live(p) /\ "usr2" \in pend[p] /\ opening[p] = Words
    /\ board \in fifos
    /\ pend' = [pend EXCEPT ![p] = @ \ {"usr2"}]
    /\ \/ /\ opening' = [opening EXCEPT ![p] = board]
          /\ UNCHANGED fdIn
       \/ /\ \A q \in Clients : job[q].address # board
          /\ fdIn' = [fdIn EXCEPT ![p] = @ \cup {board}]
          /\ UNCHANGED opening
    /\ UNCHANGED <<shared, pc, job, lines, conn, history>>

\* The FIFO is gone, or the board holds words: -1 is stored instead.  Words
\* leave the reader's number unset, and the store may kill the process.
HandlerMisses(p) ==
    /\ Live(p) /\ "usr2" \in pend[p] /\ opening[p] = Words
    /\ board \notin fifos
    /\ \/ /\ pend' = [pend EXCEPT ![p] = @ \ {"usr2"}]
          /\ fdIn' = [fdIn EXCEPT ![p] = @ \ {board}]
          /\ UNCHANGED <<shared, pc, job, opening, lines, conn, history>>
       \/ board = Words /\ Die(p)

\* `cmd <n' for a pipe that this process cannot read.
ReadRefused(p, n) ==
    /\ Line(p, "in")
    /\ Found(n) /\ Id(p) # 0
    /\ <<n, Id(p)>> \notin fdIn[p]
    /\ UNCHANGED <<shared, local, history>>

\* `cmd <n': announce and run the command ...
PipeIn(p, n) ==
    /\ Line(p, "in")
    /\ Found(n) /\ Id(p) # 0
    /\ <<n, Id(p)>> \in fdIn[p]
    /\ Announce(p, [News("unlink") EXCEPT !.file = <<n, Id(p)>>])
    /\ UNCHANGED <<shared, pend, opening, fdIn, conn, history>>

\* ... then close the read end and remove the file.
Unlink(p) ==
    /\ At(p, "unlink")
    /\ fdIn' = [fdIn EXCEPT ![p] = @ \ {job[p].file}]
    /\ fifos' = fifos \ {job[p].file}
    /\ pc' = [pc EXCEPT ![p] = "prompt"]
    /\ job' = [job EXCEPT ![p] = Idle]
    /\ UNCHANGED <<users, board, pend, opening, lines, conn, history>>

-----------------------------------------------------------------------------
(* Leaving *)

\* The client closes its end.
Close(p) ==
    /\ Live(p) /\ conn[p] = "up" /\ lines[p] < MaxLines
    /\ lines' = [lines EXCEPT ![p] = @ + 1]
    /\ conn' = [conn EXCEPT ![p] = "closed"]
    /\ UNCHANGED <<shared, pc, job, pend, opening, fdIn, history>>

\* exit or end of input: user_logout removes the pipes to this user, and tells
\* everyone.  A process without an entry leaves pos unset.
Leave(p) ==
    /\ At(p, "prompt")
    /\ \E i \in IF Id(p) = 0 THEN Slots ELSE {Id(p)} :
           /\ fifos' = {f \in fifos : f[2] # i}
           /\ Announce(p, [News("erase") EXCEPT !.to = i])
           /\ disturbed' = (disturbed \/ Sought(i))
    /\ UNCHANGED <<users, board, pend, opening, fdIn, lines, conn, racing, owes,
                   met>>

\* Faulty variant of Erase: the id is taken for the position.
EraseAtId(p) ==
    /\ At(p, "erase")
    /\ users' = [i \in Slots |-> IF i = job[p].to + 1 THEN Free ELSE users[i]]
    /\ pc' = [pc EXCEPT ![p] = "exit"]
    /\ job' = [job EXCEPT ![p] = Idle]
    /\ UNCHANGED <<board, fifos, pend, opening, fdIn, lines, conn, history>>

\* Faulty variant of Erase: the entry keeps its pid.
EraseNameOnly(p) ==
    /\ At(p, "erase")
    /\ users' = [users EXCEPT ![job[p].to].nick = NoName]
    /\ pc' = [pc EXCEPT ![p] = "exit"]
    /\ job' = [job EXCEPT ![p] = Idle]
    /\ UNCHANGED <<board, fifos, pend, opening, fdIn, lines, conn, history>>

\* data[pos] = client().
Erase(p) ==
    /\ At(p, "erase")
    /\ users' = [users EXCEPT ![job[p].to] = Free]
    /\ pc' = [pc EXCEPT ![p] = "exit"]
    /\ job' = [job EXCEPT ![p] = Idle]
    /\ disturbed' = (disturbed \/ Sought(job[p].to))
    /\ UNCHANGED <<board, fifos, pend, opening, fdIn, lines, conn, racing, owes,
                   met>>

\* exit(0), after the signals that came before it.
Exit(p) ==
    /\ At(p, "exit") /\ pend[p] = {}
    /\ pc' = [pc EXCEPT ![p] = "gone"]
    /\ fdIn' = [fdIn EXCEPT ![p] = {}]
    /\ owes' = [owes EXCEPT ![p] = {}]
    /\ UNCHANGED <<shared, job, pend, opening, lines, conn, racing, met,
                   disturbed>>

-----------------------------------------------------------------------------
\* The steps a process takes without waiting for its client or for a reader.
Work(p) ==
    \/ Enter(p) \/ StartLoop(p) \/ Copy(p) \/ Copied(p) \/ Poke(p)
    \/ TellKill(p) \/ WriteName(p)
    \/ FindPid(p) \/ SignalReader(p) \/ OpenOut(p) \/ OpenFails(p) \/ Unlink(p)
    \/ Erase(p) \/ Exit(p)

ShowNews(p)   == MSGHandler(p) \/ BrokenPipe(p)
OpenReader(p) == PipeHandler(p) \/ HandlerMisses(p)

Next == \E p \in Clients :
    \/ Login(p) \/ Close(p) \/ Crash(p) \/ Leave(p)
    \/ Work(p) \/ ShowNews(p) \/ OpenReader(p)
    \/ NPyell(p)
    \/ \E name \in Names : NPname(p, name)
    \/ \E n \in Slots : \/ NPtell(p, n)
                        \/ PipeRefused(p, n) \/ PipeOut(p, n)
                        \/ ReadRefused(p, n) \/ PipeIn(p, n)

Spec == Init /\ [][Next]_vars

-----------------------------------------------------------------------------
Pcs == {"new", "enter", "reset", "prompt", "copy", "copying", "poke", "tell",
        "name", "look", "kill", "wopen", "unlink", "erase", "exit", "gone"}

Jobs == [address : Board, to : 0 .. MaxUsers, name : Names \cup {NoName}, file : Board,
         pid : Clients \cup {Nobody}, at : 0 .. MaxUsers, next : Pcs, then : Pcs]

\* Every variable has its type: pids, ids and addresses stay in range.
TypeOK ==
    /\ users \in [Slots -> [pid : Clients \cup {Nobody}, nick : Names \cup {NoName}]]
    /\ board \in Board
    /\ fifos \subseteq Paths
    /\ pc \in [Clients -> Pcs]
    /\ job \in [Clients -> Jobs]
    /\ pend \in [Clients -> SUBSET {"usr1", "usr2"}]
    /\ opening \in [Clients -> Board]
    /\ fdIn \in [Clients -> SUBSET Board]
    /\ lines \in [Clients -> 0 .. MaxLines]
    /\ conn \in [Clients -> {"up", "closed", "reset"}]
    /\ racing \subseteq Clients
    /\ owes \in [Clients -> SUBSET Clients]
    /\ met \in BOOLEAN /\ disturbed \in BOOLEAN

\* Once broadcast's loop is over, every user that was in the table when the
\* board was written, and still is, has shown the board since or has the
\* signal waiting: logins and logouts during the loop make nobody miss it.
NewsReach ==
    \A q \in Clients, p \in Clients :
        (p \in owes[q] /\ p \in Listed /\ Live(p) /\ pc[q] # "poke")
            => "usr1" \in pend[p]

\* Unless two logins met between their look for a free entry and their write
\* of it, or the table was full, a process that serves its user has exactly
\* one entry.
OwnEntry ==
    \A p \in Clients :
        (~met /\ pc[p] \notin {"new", "enter", "exit", "gone"})
            => Cardinality({i \in Slots : users[i].pid = p}) = 1

\* Unless two processes met between their look through the names and their
\* write, no two users have the same nickname.
NamesUnique ==
    ~met => \A i, j \in Slots :
                (i # j /\ Taken(i) /\ users[i].nick = users[j].nick)
                    => users[i].nick = NoName

\* A user whose process has exited is out of the table: user_logout erased the
\* entry, whatever handlers ran between its steps.  As long as no address on the
\* board was overwritten, or lost its reader, and no two logins met.
LeaversErased ==
    ~(met \/ disturbed) => \A p \in Clients : pc[p] = "gone" => p \notin Listed

\* The handler of p is blocked until q's open of the same FIFO.
Awaits(p, q) == pc[q] = "wopen" /\ opening[p] = job[q].address

\* Processes wait for each other in a circle, each stopped by its own handler
\* before or in its open of the FIFO the next one waits for, only after one of
\* them overwrote another's address on the board; so it is with a handler
\* blocked on a FIFO that no sender is opening.  Two users who pipe to each
\* other at once do overwrite an address, and then may wait for good; one at a
\* time they never do, whatever handlers run in between.  (Or an address lost
\* its reader, a process was killed, or two logins met.)  A pipe to oneself is
\* left out, which blocks for good.
CircleNeedsClash ==
    (\/ \E p \in Clients : opening[p] # Words /\ \A q \in Clients : ~Awaits(p, q)
     \/ \E S \in (SUBSET Clients) \ {{}} :
            \A p \in S : \E q \in S \ {p} : Awaits(p, q))
        => met \/ disturbed

\* As long as no address on the board was overwritten, or lost its reader, and
\* no two logins met, a process that is in the table opens and holds only the
\* read ends of pipes to its own user.
PipeAddressed ==
    ~(met \/ disturbed) => \A p \in Listed :
        \A f \in fdIn[p] \cup ({opening[p]} \ {Words}) : f[2] = Id(p)

\* multi_shell.cpp:436 "user not found": a line is told that user n does not
\* exist only when there is no user n.
RefusedAbsent ==
    [][\A p \in Clients, n \in Slots : PipeRefused(p, n) => ~Taken(n)]_vars

\* As long as no address on the board was overwritten, or lost its reader, and
\* no two logins met, a sender blocked in the open of a pipe to another user
\* has a reader that is opening the FIFO, or has the signal to do so: nobody
\* waits for a reader that will not come.
ReadEndOpened ==
    ~(met \/ disturbed) =>
        \A p \in Clients : (pc[p] = "wopen" /\ job[p].pid # p) =>
            \E r \in Clients : \/ opening[r] = job[p].address
                                \/ (r = job[p].pid /\ "usr2" \in pend[r])
=============================================================================
