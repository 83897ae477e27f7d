# TLA+ models of the NP_hw network programs

This directory holds TLA+ specifications of the programs of this repository,
the TLC configurations that check them, and proofs checked by TLAPS.  The
repository is a series of four network programs: a shell with *numbered pipes*
(hw1), three remote servers built on that shell (hw2), a web console for those
servers (hw3), and a SOCKS4 server (hw4).

Contents: 1 inventory, 2 modules, 3 runs and bounds, 4 fairness, 5 proofs,
6 findings, 7 what is not modelled, 8 plan.

## 1. Inventory

| component | source | state it keeps | operations |
|---|---|---|---|
| npshell | `src/hw1/np_projcet1/Project1/shell.cpp` | `fd_table` (one entry per coming command), `pipe_fd0`/`pipe_fd1` (ends of open pipes), children | run a command group with `\|n`, `!n`, `\|`, or without; `printenv`, `setenv`, `exit`; reap children |
| np_simple | `src/hw2/np_project2/Project2/simple_server.cpp`, `simple_shell.cpp` | as npshell, one process per connection | accept, fork, run the shell |
| single-process rwg | `single_shell.cpp` (hw2) | `users[]`, `env_table[]`, `fd_table[]` per user, user-pipe matrices, one pair of deques for everybody's pipes | login, logout, `who`, `name`, `tell`, `yell`, `setenv`, lines with `\|n`, `>n`, `<n` |
| multi-process rwg | `multi_server.cpp`, `multi_shell.cpp`, `user.cpp` (hw2) | users and one message buffer in shared memory, FIFOs | the same, one process per user; SIGUSR1 delivers messages, SIGUSR2 opens FIFOs |
| http_server | `http_server.cpp` (hw3) | one connection per client | parse the request line, fork, exec the CGI |
| console.cgi | `console.cpp` (hw3, hw4) | up to five sessions, each with a socket and a script | connect, read, wait for the prompt, send the next line; hw4: SOCKS request first |
| cgi_server | `main.cpp` (hw3) | the two above in one process, a global table of servers | as above |
| socks_server | `socks_server.cpp` (hw4) | two sockets and two buffers per child; the parent its listening socket | parse, firewall, CONNECT, BIND, relay with half-close; accept, fork, reap |

**How they interact.**  npshell talks to its children through kernel pipes and
`waitpid`; a child inherits every descriptor the shell has open.  In the
single-process server all users share one thread, one descriptor table and one
pair of deques of pipe ends; children inherit everything.  np_simple's parent
waits for each child before it accepts the next client.  In the
multi-process server processes share memory without locks and notify each
other by signals.  console.cgi is a client of the hw2 servers, through
socks_server in hw4.  socks_server and http_server fork one child per
connection; after the fork parent and child share nothing but the listening
socket, so the child (session and relay) and the parent (accepting and
reaping) are separate components.

**What is hard** (each is in `PROJECT.json` under `hazards`, at its line):

* descriptors are numbers the kernel reuses at once: stale numbers in
  `fd_table`, `pipe_fd0/1`, `users[].fd` name something else later;
* a pipe reports end-of-file only when *every* process has closed its write
  end: the shell, the children it has forked in between, other users' children;
* two deques are paired by position, and are edited at many places;
* built-ins and refused pipes take an entry of the table without running;
* `waitpid` in the server's only thread; a SIGCHLD handler that reaps too;
* one `std::cin` over a descriptor that is switched between clients, and shared
  with the server's own terminal and with the commands that read descriptor 0;
* prompts, SOCKS replies and requests that are looked for in whatever one read
  returns, and writes whose buffers are gone before they are done (hw3, hw4);
* one SIGCHLD for several processes, and a `fork` that fails;
* shared memory, coalescing signals and blocking FIFO opens in hw2's third
  server; asynchronous callbacks with half-close in hw4.

**What makes each component correct.**

* npshell: what a command writes to `|n` is read by the n-th next command,
  whole and by nobody else; the reader gets end-of-file; the prompt returns;
  no pipe is held for ever.
* rwg user table: commands are attributed to the user whose socket they came
  on; users listed are the open connections; names are unique; environments
  do not leak from a former user.
* rwg pipes: the same as npshell for each user, though tables are shared; a
  user pipe goes to the session it was sent to; a leaving user takes his pipes
  with him and leaves nothing to the next one.
* multi-process rwg: one entry per user, names unique, everyone shown the news,
  an address on the board read by the process it is for, senders not left
  waiting, and who leaves is erased.
* socks_server: a firewall decision for every request, the relay is two
  independent byte streams, end-of-file of one direction does not cut the
  other and never comes before the last data, and the process ends.
* console: session and shell take turns, the script's lines arrive in order and
  whole, the page shows everything in order, and the script runs to its exit.
* servers: who connects is served, a connection that is over is closed in every
  process, and a process that has ended is reaped; a form opens the sessions it
  asks for.
* input of the single-process rwg: a line is run for the user who typed it.

## 2. Modules

### NumberedPipes (hw1; the same engine is compiled into hw2's servers)

State: `fdTable` is `shell::fd_table` (the input descriptor of each entry; the
output descriptor is set and used within one group, so it is a local value),
`pipes` is the pair of deques as a set of `<<read, write>>`, `shellFds` is the
shell's descriptor table, `mode` is where the one thread is (prompt, between
two groups of a line, in `waitpid`, gone).  For each command: `st`, `inp`,
`out`, the pipe ends it `held`, what it has `todo`, `eof`; for each kernel
pipe its contents `buf`.  `target` is a history variable: the command the user
named with `|n`.

Actions: `RunToNewPipe`, `RunToOldPipe` and `RunLast` are the three ways a
command group is executed by `shell::parse`, each including the fork, the
child's redirections, the closing of the consumed pipe in the parent and the
shift of the table; `BuiltIn` is `printenv`/`setenv`; `WaitDone`,
`ChildHandler` and `Exit` are `waitpid`, the signal handler and `exit`/EOF.
The commands themselves (`Write`, `Read`, `ReadEof`, `Finish`, `QuitEarly`)
are external programs over kernel pipes with a capacity, blocking, EPIPE and
end-of-file.  Left out: the table entries that the groups of an unknown command
take (a built-in stands for them), redirection to files, texts, `!n`'s second
output, and the retry when no descriptor is free (the action is then disabled,
the code spins).

### CommandFlow and NumberedPipesRefinement

`CommandFlow` says what the user is promised with no pipe, table or descriptor
in sight: numbered commands, connections between numbers, complete input.
`NumberedPipesRefinement` instantiates it with a mapping that *recomputes* the
connections from what the shell and kernel hold, so that a misdirected
descriptor is a wrong connection.

### RwgUsers (hw2 single-process server: who is who)

State: `id`, `fd`, `nickname`, `env` of each slot, the kernel's view of
descriptors (`client`, `pipeFds`), and what each connection has set (`ownEnv`,
history).  Actions: `Login`, `NPexit` (with `EraseUser`), `NPname`,
`NPsetenv`, and `OpenPipe`/`ClosePipe` for the descriptors that pipes take and
give back between logins, which is what makes slots and descriptors run out of
step.  `EraseUser` leaves `fd` alone, as line 258 does.

### RwgInput (hw2 single-process server: whose line is it)

Extends `RwgUsers` with how its commands come in.  State: `socket` (lines on
the way from each client), `buffer` and `eof`, which are `std::cin`'s and belong
to the process, `hung`; `typed`, `done`, `ahead` and `last` are history.
`ServeLine` and `ServeEnd` are one turn of `rwg_loop` for a readable descriptor
(`dup2`, `NPloop`, restoring): `getline` takes its line from the buffer, which may
hold another client's, and only when it is empty from the socket, all of which it
empties; after the first end-of-file it fails for ever.  `Run` is what the line
does to the table: the actions of `RwgUsers`, which have no other cause here.
`Type` and `Hangup` are the clients.

Two more take lines that clients typed.  `ServeTerminal` is the turn of descriptor
0 itself (lines 84 to 90): `fgets` on the server's terminal uses the buffer that
`std::cin` fills, so it takes the first line in it, which is thrown away or ends
the server; only if the buffer is empty does it take what was typed at the
`terminal`.  And a command that `Run` starts, if its input is no pipe, keeps
descriptor 0, the user's socket: until it ends (`readers`, `CommandEnds`) it may
read all that has come (`CommandReads`).  Lines it has read are no longer counted
in `typed`; `Attribution` is about the others.

### RwgPipes (hw2 single-process server: everybody's pipes)

State: `fdTable[u]`, the deques `pipeFd0`/`pipeFd1` as sequences (their pairing
by position is the point), `userPipeIn`/`userPipeOut`, the descriptor table,
the commands and what they hold.  `place` and `target` are history: which
entry of which session a command was, and where it was piped to.  One action
per command group form (`PipeToNew`, `PipeToOld`, `PipeToUser`, `RunLast`,
each with an optional `<n`), `Refused` (also of a group whose `<n` was accepted
before and has taken its pipe), `BuiltIn`, `WaitDone`, `Login`, `Logout`.  `EraseUser` removes *both* ends of user pipes and only the *read*
end of pending numbered pipes, as the code does.  When `pipe_fd0` is shorter
than `pipe_fd1` the child's closing loop reads past the end; what it then
closes is a nondeterministic choice.

### RwgMulti (hw2 multi-process server)

State: `users` and `board` are the two pieces of shared memory, `fifos` the
FIFO files.  Of the board only the address of a user's pipe is kept, as other
texts are told apart by no property.  Per process: `pc` and `job` are the place
in the code and the locals that outlive a step, `pend` the signals sent and not
handled, `opening` the FIFO the SIGUSR2 handler is blocked in, `fdIn` the row of
`user_pipe_fd_in`, `conn` the state of the connection.  `racing` remembers which
calls of strcpy overlap, so that the mixed text they can leave is one of the
outcomes.  `owes`, `met` and `disturbed` are history.

Actions: `Login`, `Enter`, `StartLoop`; `Copy`, `Copied` and `Poke` are
broadcast, `Copy` and `Copied` also the writes of tell and of an address;
`MSGHandler` (and `BrokenPipe`, when the client has gone) and `PipeHandler`,
`HandlerMisses` are the signal handlers, which run between any two steps;
`NPname`/`WriteName`, `NPtell`/`TellKill`, `NPyell`; `PipeOut`, `FindPid`,
`SignalReader`, `OpenOut` are `cmd >n` (`OpenFails`, when the reader's logout has
removed the FIFO before the open), `PipeIn` and `Unlink` are `cmd <n`,
`PipeRefused` and `ReadRefused` the refusals; `Close`, `Leave`, `Erase`, `Exit`.
What is undefined (a login into a full table, a process that is not in the
table looking itself up, the handler parsing a text that is no address) ends
the process or has no effect, either.  One look through the table, one entry's
write and the reading of a pid together with the kill that uses it are single
steps, except in `>n`, where look-up and kill are two.  A pid of -1 signals
every other server process; other processes it reaches are left out.

### SocksSession (hw4: one child of socks_server)

State: `proc` is how far the process is, `req`, `addr` what it has parsed and
connects to; for each of the two chains of asynchronous operations, named after
the endpoint it reads from as the arrays `client` and `server` are, `op` is what
the chain waits for and `buf` what is left to write of its array.  The kernel
and the endpoints are the environment: bounded queues `toServer` and `toPeer`,
`shut` (how the process closed towards each), what an endpoint has `sent`,
whether it is `fin`, its `reset` (`"pending"` until a failing call has reported
it), what it has `got` and whether it saw `eof`.  `asked` is the request the
client means to send, `whole` whether it arrived in one piece.

Actions are handlers, each with the operation it starts next: `ReadRequest`
and `ReadPiece` (`do_read_socks_request`, the firewall, the replies; a request
that arrives in pieces, or not at all, is parsed from whatever the array
holds), `ConnectOk`, `ConnectFails`, `BindAccept`, `ReadSome`, `ReadEof`,
`ReadError`, `WriteSome`, `WriteError`, and `Exit` when no operation is left.
Calls that throw (`remote_endpoint`, `resolve`, `shutdown`, the blocking write
of BIND's second reply) end the process, which no code catches: `Abort`.
`CloseAll` is what the kernel does then: FIN when nothing is unread, else RST
and a cut queue.  `Send`, `Finish`, `Reset`, `Receive`, `ReceiveEof` are the
endpoints.  Data is in units, so an array or a queue holds a few of them.

### TwoWayStream and SocksSessionRefinement

`TwoWayStream` is what socks_server promises its two ends: the client is refused
or told once that it is connected, then each end reads its stream unit by unit,
sees the end of it after all of it, and may stop writing while the other goes
on; the session is closed only when both have stopped or one is lost.
`SocksSessionRefinement` instantiates it with streams computed from what was
*written* (the replies, the rest of the request, the other endpoint's units), so
that chains, arrays and queues do not appear in the mapping and have to deliver
exactly that.  `phase` is read off from whether the chains run, `lost` from the
resets.

### ConsoleSession (hw3 and hw4 console.cgi, hw3 web server: the sessions of a page)

One module for three programs that differ in little: `prog` is `"cgi"`, `"socks"`
or `"web"`.  State per session: `stage`, `line` (how far its script is), `reply`
(the read into `socks_reply` is outstanding), the kernel's queues `toShell` and
`fromShell`, `late` (lines given to `async_write` that the socket did not take);
for the one page `unread`, `owed`; `said`, `heard`, `shown`, `cut`, `noisy` are
history.  Text is in units: a prompt is two, so that a read can end between them.

Actions: `Resolve`, `Connect`, `ConnectSocks`, `Abort` (`resolve` throws),
`ReadReply`, and for each program the handler of a read, `ReceiveCgi`,
`ReceiveSocks`, `ReceiveWeb`: take a piece of any length, show it, and if it has
a prompt in it take the next line of the script, show and send it.  `Output`
blocks the thread until the browser's socket has room, `Post` (the web server)
queues an `async_write` for each text.  Buffers of writes that are not done at
once are gone when `Flush` and `FlushPage` do the rest, which write the text or
junk.  `ReadEnd` is the end of the chain.  When the last session of the web server
is over, nothing holds the browser's connection any more, and what it is still
owed is never written (`PageOpen`).  The remote shell, whose commands may print
`"% "` (`ShellRun`), the SOCKS server, other users of the shell (`Noise`) and the
browser are the environment.

### Servers (how the servers take connections and let them go)

`prog` is one of the five servers.  State: where the parent is (`at`), the kernel's
queue, the connections the parent (`mine`) and each process (`held`) have open,
the processes' states, `pending` (SIGCHLD raised and not handled), what each
browser has sent, and the web server's global `table` of rows.  Actions:
`Accept`, `Fork` and `ForkFails` (np_simple and np_multi_proc try again, the
others close the connection), `Wait` (np_simple), `ChildHandler` with `Reap`,
`Start` and `Exit` of a process, `ReadHttp` (parse and exec), `ReadWeb`,
`StartWeb`, `EndWeb`.  `Filled` is the loop over the query string.  A request is
what its first piece makes of it: one that ends before the path makes `substr`
throw (`StartWeb`, with which the web server's one process ends; `Exit` in
http_server), one that ends in the path is no program's name, and one that ends in
the form has some rows and perhaps a part of a host's name (`CutOff`), which the
web server writes to its global `table` and opens all the same.  What a process
does between `Start` and `Exit` is in the other modules: NumberedPipes, RwgMulti,
SocksSession, ConsoleSession.  It may end at any time, but nothing makes it end:
a SOCKS session whose target is idle, a BIND without a peer, a sender stopped in
`open`, and a session of a form with a cut prompt stay when the client has left.

### Proof modules

`NumberedPipesProofs`, `NumberedPipesRefinementProofs`, `RwgInputProofs` (of
`RwgUsers` and `RwgInput`), `RwgPipesProofs`, `RwgMultiProofs`,
`SocksSessionProofs`, `ConsoleSessionProofs`, `ServersProofs`, see section 5.  The modules named `MC...` only give finite values to constants.  Definitions introduced as
*faulty variant* are not used by the specifications: each is a plausible bug
of one definition, with which a property must fail.

## 3. Runs and bounds

| run | instance | shows |
|---|---|---|
| `numbered_pipes` | 4 commands, offsets 1, 2, 6 descriptors, table 4 refilled to 3, 1 unit of output, pipes of capacity 1 | type invariant, `Routing`, `OffsetInTable`, `EofReachable`, `PipesAccounted`, `InputComplete`; `ImplementsFlow`: `NumberedPipes` implements `CommandFlow` |
| `numbered_pipes_live` | 3 commands, offsets 0..2, fair | `NothingHangs`: the prompt returns, and all commands end when the shell has gone |
| `rwg_users` | 3 slots, 3 logins, 5 descriptors, 1 name, 3 lines typed, 1 at the terminal | `RwgInput`: type invariant, `LookupFindsCaller`, table = connections, environments, and `Attribution` of lines (1.2 million states) |
| `rwg_who` | 6 slots, 12 logins, 11 descriptors | violation, see section 6 |
| `rwg_pipes` | 2 users, 3 sessions, 3 commands, offsets 1, 2, 6 descriptors | `LookupsFind` (with the pairing of aligned deques), `NothingInherited`, and while the deques are aligned `DeliveredWhileAligned`, `ServerLetsGo` |
| `rwg_pipes_left` | the same with 4 commands | violation, see section 6 |
| `rwg_multi` | 2 processes, 2 entries, 1 name, every command, 1 line each (closing the connection counts as one) | type invariant, `OwnEntry`, `NamesUnique`, `NewsReach`, `PipeAddressed`, `ReadEndOpened`, `LeaversErased`, `CircleNeedsClash` (1.4 million states) |
| `rwg_multi_absent` | 2 processes, `>n` | violation, see section 6 |
| `socks_session` | 2 hosts, 1 of them for CONNECT and 1 for BIND; 2 units each way, queues and arrays of 2 | type invariant, `StreamIntact`, `OnlyPermitted` under every split, reset, early end and piecewise request; `ImplementsStream`: `SocksSession` implements `TwoWayStream` (2.2 million states) |
| `socks_live` | fair; 1 unit, queues and arrays of 1 | `Arrives`: what is sent, and the end of it, reaches an endpoint that reads, even if the other one does not; `SessionEnds` |
| `console` | fair; 2 sessions, 3 programs, 3 lines each, a shell's socket that takes 1 line, a browser's that takes 2 texts, 2 texts waiting, 1 message of another user or output with a prompt in it | `OneTurn`, `LinesInOrder`, `PageFaithful`, `ScriptRuns` |
| `servers` | fair; 3 connections, 1 row, 1 host, 1 failure of `fork`, all five servers | `OpenedAsAsked`, `Served` |

Why the bounds are enough.  *Commands*: two commands that join one pipe, the
command that reads it, and one more so that a descriptor is closed and reused
while another pipe is pending; a built-in can take the place of any.
*Offsets*: 0 (a command piped to itself), 1 (also `|`), and 2, the first that
leaves a command in between; 0 is left to the smaller run
`numbered_pipes_live` and to the proofs.  *Table*: `fd_table` starts longer than
`PIPE_NUM_MAX`, as in the code (1500 and 1000), so that both the shrinking and
the refill happen.  *Descriptors*: room for three pipes at once; in the hw1
instance four commands can ask for more, and then the action is disabled.
*Capacity 1 and work 1*: a writer blocks as soon as one other unit waits.
*Sessions*: one more than slots, so that a slot is used again.  *Units*: two in
a queue can be read together, separately, or one with a reset between, and a
queue of one makes every second write wait.  *Processes*: in RwgMulti two,
which can log in at the same time, name themselves alike, pipe to each other or
to themselves, also at once, and leave one another's table; an entry is used again by
the other one.  A third makes tens of millions of states.  *Lines typed*: two in one packet, and
one more by somebody else who is served in between.  *Sessions of a page*: two,
which compete for the page; a script's command, its `exit` and the blank lines
after its end.  A socket of one line is full while one line is on the way.
*Descriptors of `rwg_users`*: three for clients and two for a pipe, so
that a slot and a descriptor go to different newcomers.  *Connections*: two
processes that end on one SIGCHLD, two requests of which the second finds the
first one's row, whole or cut, and one more that changes it in between.  The 30 slots, 1500
entries and 1000 offsets of the code appear as constants; the proofs are for all
values.

`CHECK_DEADLOCK FALSE` is set because a bounded session comes to its end: all
commands are used up or the shell has exited.  That the programs do not stop
before that is what the liveness properties say.

`numbered_pipes_live` finds that `NothingHangs` depends on every
child closing the pipe ends it inherited (`ChildEnds`).

## 4. Fairness

Weak fairness of the steps of the commands (`Write`, `Read`, `ReadEof`,
`Finish`) and of `WaitDone`: the kernel schedules every runnable process, and
the programs run from the shell read their input to the end.  Nothing is
assumed of the user: no fairness for typing commands, `exit`, or for commands
to stop early.  `NothingHangs` leaves out a command piped to itself with `|0`,
which does wait for ever; that is what the code does.

`RwgMulti` states none, as a process may be stopped for good in a handler or in
`open` (`disturbed`), and then its leaving, too.  Two invariants say what can be
said: `LeaversErased`, that who has gone left no entry, and `CircleNeedsClash`, that
unless an address was overwritten or lost its reader, a process was killed, or two
logins met, a handler that blocks waits for a sender that is opening the FIFO, and
among any processes one waits for no other.  It does *not* say that crossing pipes
come through: two users who pipe to each other at once overwrite an address, and
may wait for each other for good.

`SocksSession`: weak fairness of every handler (run() calls a handler whose
operation is complete), of `Exit`, and of the end of an attempt to connect (the
kernel's timeout).  No endpoint need send, close, read, or connect to a BIND:
`Arrives` and `SessionEnds` say of which endpoint they need that it reads
(`Reads(e)`, weak fairness of its reading, as an antecedent).

`ConsoleSession`: weak fairness of each session's handlers (one thread, which
serves what is complete), of the rest of a write, of the remote shell and SOCKS
server, and of the browser's reading.  Other users need not write.  `ScriptRuns`
excepts what has no remedy in the code: a prompt or a reply in two pieces, and
a line sent from memory that was gone.

`Servers`: weak fairness of each step of the server and of a process's start and
reading; of its end only if it runs nothing for its client that waits for somebody
else (`Brief`: a browser's request without a form).  No shell, no SOCKS session and
no session of a form need end, not even when its client has left, so `Served` says
of a connection that it is let go once its process has ended, `fork` has failed, or
such a request has come (`Over`), and of a client that it is served, while other
clients' processes may stay for ever.  Its antecedent `Patient` is that each
client sends its request or leaves, and that the shells of np_simple end: that
server waits for each process before it accepts the next client.

## 5. Proofs

All proofs are for every value of the constants that satisfies the named
assumption of the module (`NumberedPipesAssumption`, `RwgUsersAssumption`,
`RwgPipesAssumption`, `RwgMultiAssumption`, `SocksSessionAssumption`, `ConsoleSessionAssumption`,
`ServersAssumption`).

*NumberedPipesProofs.*  `TablesOK(tab, sfd, list)` says that the list pairs
read and write ends of the same pipe, every open descriptor is listed and is
the only one of its end, and the table names listed read ends, each once.  It
is stated of three arbitrary values because a group that makes a pipe passes
through tables that are no state.  Two lemmas, `MakePipe` and `ReadPipe`, say
that making a pipe and closing a consumed one preserve it and where entries
lead afterwards.  The inductive invariant `IInv` adds: `RoutedPast` and
`RoutedToCome` (routing for commands that have come, and for entries of the
table), `InputsDiffer`, `Released` (the shell has closed what its commands
read), `HeldOwn` (a command holds at most its own two ends), `UnbornOK`,
`PipesOld` and `WaitsForForeground`.  `Routing` alone is not inductive: that
an entry leads to the right pipe after a shift needs the entries to be
distinct and the descriptors of closed pipes to be gone from the table.
Theorems: `Invariance`, `TypeCorrect`, `OffsetsCorrect`, `RoutingCorrect`,
`EofCorrect`.

*NumberedPipesRefinementProofs.*  A second invariant, `FInv`, follows the units
of output: `Contents` and `ReadOwn` (what is in a pipe, or was read from it, was
written by a command that writes to it), `NothingLost` (what a command has read
of another and what is in transit add up to what that one has written, and if
nobody reads the pipe yet all of it is in transit), `HoldsOutput` (a command that
runs has its write end, so that end-of-file cannot come early), `EofOK`, and
`PipesKept` for the list.  The lemmas `CountAppend` and `CountTail` count the
units of one writer in a queue.  `NothingLost` is what needs `InputsDiffer` of the
first invariant: a command that takes over a pipe is its only reader ever, so
nothing can have been taken from it.  `Forks` describes what the three actions
that fork have in common, with the tables before and after; each of them is
shown to be one, and the invariants are proved of `Forks` once.  For the
refinement, `ConnectionsAre` says that the connections the mapping recomputes
are those the user named, less those to commands that can no longer come; then
every action is one of `CommandFlow`: the two ways to a pipe are `Connect`,
`Write` is `Produce` or (EPIPE) `End`, `Read` and `ReadEof` are `Consume` and
`Complete`, `Exit` is `Leave`, and `ChildHandler` changes nothing the user sees.
Theorems: `FlowInvariance`, `AccountedCorrect`, `CompleteCorrect`,
`FlowImplemented`.

*RwgInputProofs, the table.*  The invariant says that used slots have distinct descriptors
which are open sockets of distinct connections, and that a free slot's stale
descriptor is never that of a user in a *higher* slot: that is why
`find_user_byfd`, which takes the first match and does not look at ids, is
right in spite of line 258, and it holds because login takes the lowest free
slot.  Theorems: `Invariance`, `TypeCorrect`, `LookupCorrect`,
`ConnectionsCorrect`, `NamesCorrect`, `EnvironmentsCorrect`.

*SocksSessionProofs.*  `Stream(o)` is the endless sequence of the replies (or of
the rest of the request) and of the units the other endpoint may write.
`FlowOK`, stated of nine plain values, says that what `o` has read, the kernel's
queue to it, the chain's array and the kernel's queue from the other endpoint
are, in this order, a beginning of that sequence, and all of it so far when
nobody has reset; there is one lemma for each kind of step (`FlowRead`,
`FlowWrite`, `FlowSend`, `FlowReceive`, `FlowStop`, the two resets).  `EofOK`
says when a direction may have been closed, and that everything has then been
written towards the receiver.  The rest of `IInv` is about the time before the
relay: where the request and the replies are, and what the firewall has let
through.  `StreamIntact` alone is not inductive, as it says nothing of the
queues and the array between the endpoints.  Theorems: `Invariance`,
`TypeCorrect`, `StreamCorrect`, `EofCorrect`, `PermittedCorrect`.  (`EofComplete`,
which `EofCorrect` is about, is no property of a run of its own, as
`ImplementsStream` contains it.)

*SocksSessionProofs, the refinement.*  From `IInv`, with `EofEmpty` (whoever has
seen the end has read what came before it), each action is one of `TwoWayStream`
or leaves what it sees alone.  An endpoint's write lengthens the stream to the
other one wherever the unit is at the time, so the handlers of the relay are
stutters, and `FlowOK` is what makes `Receive` the reading of the next unit and
`ReceiveEof` the end of the stream.  The handlers that answer the request are
`Offer`, `Open` and `Refuse`; `Exit`, or a call that throws in the relay, is
`Close`, for which `EofOK` shows that both ends have stopped if none was reset.
Theorem:
`StreamImplemented`.

*RwgInputProofs, the input.*  Every step of `RwgInput` is a step of `RwgUsers` or changes no
user: a line that `std::cin` hands to the user of the readable socket is one
that user could have typed, and a user who is logged out by the sticky
end-of-file state is logged out as by `exit`.  So `RwgInput` implements
`RwgUsers` (`InputImplementsUsers`), and what is proved of the table holds
however lines arrive: `InputTypeCorrect`, `InputLookupCorrect`,
`InputConnectionsCorrect`, `InputNamesCorrect`.

`Attribution` is then proved from `InputInv`, which adds why it stays true.
`OneAtATime`: a client that has not typed ahead has at most one line waiting, so
what stays in the buffer behind a line that was run is of a client that has
(`BufferOK`), also when that client is gone.  `SocketOwn`: a descriptor that
passes to a newcomer brings nothing its last client sent, because `exit` closes
it.  `NotYet`: no line of a newcomer is anywhere.  `EofByHangup`: only a client's
leaving, or the terminal's end, sets the end-of-file state.  That the lines of one client among those of
others are numbered without gaps is `Lines`; one lemma says what becomes of it for
each thing that is done to a queue (`LinesAppend`, `LinesTail`, `LinesBehind`,
`LinesNone`).  Theorems: `InputInvariance`, `AttributionCorrect`.

*RwgPipesProofs.*  `In(tabs, matrix, u, v, i)` is the input that waits for entry
`i` of user `u`, or, for `i = 0`, the user pipe from `v`: with this one view of all
tables and the matrix, `<n` moves an input from entry 0 to entry 1, `|n` and
`>n` give one to an entry that had none, and the end of a group moves a user's
inputs up.  `Fits` says how inputs, deques and descriptors belong together:
`Listed` (each open end is on its deque once, and `pipe_fd1` is never the
shorter one), `Inputs` (an input is on `pipe_fd0`, and is the input of nobody
else) and, while the deques have the same length, `Paired` (equal positions are
the ends of one pipe), `Released` (the server has closed what its commands
read) and `Routed` (who writes to the pipe of an input was told to write
there).  `Listed` and `Inputs` hold without the condition, so the look-ups
succeed also after somebody left with a numbered pipe pending, when `Routed` is
lost (section 6).  That the condition, once false, stays false is part of the
lemma on closing ends, `CloseEnds`: write ends are closed only with their read
ends, so if the lengths are equal afterwards they were before, and the same
positions were taken off both.  `Fits` is stated of five arbitrary values, as a
group takes `<n` and makes its pipe before it forks; `ForkKeeps` is the step from
such values to the next state, and the four forms of a group and the forms of
`<n` only have to show its premises.  `NothingInherited` is needed for `Routed` at
a login: the slot's next session starts counting entries anew, and nothing may
wait there.  A deque without some positions is a sequence defined by the k-th
smallest remaining position; `NthAre` and `WithoutIs` say that these enumerate the
rest in order.  Theorems: `PipesInvariance`, `TypeCorrect`, `LookupsCorrect`,
`InheritedCorrect`, `DeliveredCorrect`, `LetsGoCorrect`.

*RwgMultiProofs.*  Processes share memory without a lock, so the invariant says
for each place in the code what a process may rely on.  `JobsOK`: what its
locals name; `EntriesOK`: which entry is whose; `NamesOK`: while a process is
between its look through the names and its write, nobody else is, or the two
have `met`; `NewsOK`: whom broadcast's loop has still to signal; `PipesHold`: the
protocol of an address, from `mknod` over the text on the board and SIGUSR2 to
the end of the open.  Unless `disturbed`, the board belongs to the one sender
whose pipe is being opened, a SIGUSR2 that is pending belongs to a sender who
waits in its open, and a read end is held by the process it was addressed to.
None of the properties is inductive by itself: each speaks of a moment (a look
up that is over, an open that blocks) whose outcome was decided some steps of
other processes earlier.

`CircleNeedsClash` needs one thing more, `SenderFree`: a sender whose address waits on the
board is not itself blocked in its handler.  Only the open in `User_pipeHandler`
begins a wait (`NoNewWait`), and what it waits for is the sender of the address it
read, which is free at that moment.  So of a set of processes in which the new
wait matters, that sender is the one that waits for nobody; in any other set the
one it had before still is (`WaitsStep`).  `OpenEnds` says that the sender's open
frees its readers and nobody else's, and in these states no open fails (`OpenFails`).
Theorems: `Invariance`,
`TypeCorrect`, `EntryCorrect`, `NamesCorrect`, `NewsCorrect`, `AddressedCorrect`,
`ReadEndCorrect`, `LeaversCorrect`, `CircleCorrect`.

*ConsoleSessionProofs.*  `Turns(s)` counts what can make somebody move in session
`s`: lines on their way to the shell or taken by it and not answered, and
prompts on their way back.  `TurnOK` says that the count is at most one, and is
one while the session is not over, unless a prompt was cut in two or a command's
output or another user's message looked like one; `StartOK` is the same for the time before, where
the reply of the SOCKS server has its place in front of the first prompt;
`LinesOK` says that what the shell has heard, what is queued and what is still
to be written are together a beginning of the script.  `OneTurn` alone is not
inductive, as it says nothing of text in transit.  The lemmas about `PromptsIn`
are the arithmetic: text adds no prompt, a prompt adds one, and taking a piece
from a queue keeps all of them except one that it cuts.  Theorems: `Invariance`,
`TypeCorrect`, `TurnCorrect`, `LinesCorrect`.

*ConsoleSessionProofs, the page.*  A second invariant, `PageInv`, says of each
session that the page, what is owed to it and what is on the way from the shell
together hold the text the shell wrote, and the first two the lines that were
sent, both in order, unless junk was shown; and that only the web server owes
the page anything, so that only there an end may be missing for good.  A write that is done late moves text from what is owed to
what is shown, which is why they are counted together.  The units of one kind in
a queue, and the writes of one session among all that are owed, are flattened
sequences.  `FlattenIs`, `FlattenFew`, `FlattenMore`, `ThroughMore`, `OnlyMore`, `OnlyOne`,
`WritesMore` and `WritesOne` say what these are when a queue is joined to another,
one unit is added, or one write is put behind the others.  They need an
induction on the length, which is done with the least element of a set of
numbers (`WFMin`) and not with the library's induction theorems, which take an
operator.  Theorem: `PageCorrect`.

*ServersProofs.*  The inductive invariant is the type invariant with `PlacesOK`
(connections queued or held have connected, and a server that forks holds
only the one it forks or waits for), `FormsOK` (a request has rows only if it is
a form, or a part of one, and nothing is served before its request was sent),
`TableOK` and
`OpenedAsAsked`.  `TableOK` is why the last one needs strengthening: what the web
server opens for a request depends on its global table, which therefore has to
be, between two requests, what came of each row in the last request that had it.  The lemma
`ServeKept` says that a connection that is served leaves what was opened for
earlier ones right, `ChosenByNext` that one more request counts for the rows it
has.  Theorems: `Invariance`, `TypeCorrect`, `OpenedCorrect`.

Only model-checked: what rests on fairness (`NothingHangs`, `Arrives`,
`SessionEnds`, `ScriptRuns`, `Served`).  Liveness and ENABLED are not within the
provers' reach.  Every invariant and every refinement that the runs check is
also a theorem.

## 6. Findings

* `rwg_who`: `single_shell.cpp:258` is `users[i].fd -1;`, an expression without
  effect, where the comments say the user is erased.  After six logins and a
  numbered pipe that shifts the descriptor numbers, `who` shows a client the
  slot of a user who has left, with id -1 and marked as the client itself.
* `rwg_pipes_left`: a user who leaves with a numbered pipe pending leaves
  `pipe_fd1` one longer than `pipe_fd0` ("clear all pipes", line 269, does not
  hold for the write end).  From then on the deques are off by one: another
  user's command that joins a pipe writes into a different one, and closing a
  consumed pipe closes another's write end.
* `rwg_multi_absent`: the loops of `>n` and `<n` (`multi_shell.cpp:437`, `:351`)
  stop at the first free entry, under the comment "user not found".  Once user 1
  has left, pipes to and from every other user are refused with "does not exist
  yet".

## 7. Not modelled

Tokenising and regular expressions, redirection to files, the history file,
texts sent to users; test commands, CGI samples and binaries; the prototypes
`server.cpp`, `client.cpp` and the copy of hw1's shell in hw2, which are not
built.  Logging in to a full table (write to `users[-1]`) and descriptor
exhaustion in the single-process server are undefined or unchecked in the code
and are listed as hazards.  The text of `socks.conf` (a rule is the set of hosts it
matches) and the log of socks_server are left out.  Of the form only
hosts are modelled: ports and script names go the same way through the query
string; a row number that is not 0 to 4 writes outside the table, which is
undefined.  A browser that leaves while its sessions run is left out in
ConsoleSession, and of np_simple's shell only its start and end are in Servers.

RwgInput shows what one `std::cin` means: a client that types two lines at once
may have the second run for somebody else, and the first client that closes its
connection, instead of typing exit, sets the end-of-file state with which every
later typist is logged out without a line being read.  The server's terminal shares the buffer: a line
there makes the server throw away a line that a client typed ahead, or end if that
line begins with "exit".  And a command without an input pipe reads what its user
types next.  Nothing in the repository
says otherwise, so `Attribution` says when it can happen, and when not.  A client
that sends a part of a line stops the server in `getline` until the rest comes;
that is not modelled.

ConsoleSession shows three more: a prompt that arrives in two pieces is not seen
and session and shell then wait for each other, for good; a reply of the SOCKS server in
two pieces leaves a half of it on the page; and a text or a line that its socket
does not take at once is sent from a buffer that is gone, which for a line needs
a command's output or another user's message that looks like a prompt; and what the
web server still owed the page when its last session ended is cancelled.  (In the
model the write of the page's own HTML is done by then.)  Servers shows that in the web
server a row stays open for every later request that does not clear it, that
a form in pieces opens a host's name that was cut and leaves it to later requests,
that a piece without a path ends the server for all, and that a client of
http_server or socks_server is dropped when `fork` fails.

RwgMulti shows more that nothing in the repository forbids: two logins may take
one entry and two processes one name (`met`); addresses
of pipes and broadcasts share one board, so that a message written after an
address and before the reader's handler leaves the sender in `open(O_WRONLY)`
for ever (`disturbed`, without which `ReadEndOpened` fails), and two users who pipe
to each other at once may both be stopped; `>n` to
oneself stops the process in its own handler; a process killed by SIGPIPE, when
a message is shown to a client that has gone, keeps its entry for ever; a FIFO
made for a user who is leaving, or who has not reached its loop yet, stays
without a reader; and a reader or a target of tell who leaves in between makes
the sender signal every process.  `who`, `printenv`, `setenv`, ordinary
commands in the multi-process server, lines with both `<n` and `>n`, and the
removal of shared memory on SIGINT are left out.

Two things SocksSession shows that no property forbids, as the code promises
nothing of them: when the client resets and the target neither sends nor
closes, the chain that read from the client has ended without telling anybody
and the process stays; and a BIND to which nobody connects blocks in `accept`,
so the client's leaving goes unnoticed.

## 8. Plan

1. `RwgMulti`: the sender's and the reader's views of a pipe (`StartLoop` loses
   a read end), lines with both ends.
2. `RwgInput`: parts of lines, and `tell` over the clients' streams.
