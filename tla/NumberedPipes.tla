---------------------------- MODULE NumberedPipes ----------------------------
(***************************************************************************)
(* The numbered-pipe engine of npshell (hw1 shell.cpp, and unchanged in    *)
(* the shells of hw2).  A command may end with |n or !n: its output feeds  *)
(* the n-th next command.  The shell keeps                                 *)
(*   - fd_table, a deque with one entry per command still to come: the     *)
(*     descriptor its standard input will be (STDIN when nothing feeds it);*)
(*   - pipe_fd0 / pipe_fd1, the two ends of every pipe it holds open.      *)
(* Both deques are pushed and erased together, at the same index, so they  *)
(* are one set of <<read end, write end>> here.                            *)
(*                                                                         *)
(* The shell is one thread: a command group (make or find the pipe, fork,  *)
(* close the consumed pipe, shift the table) is one action, and so is each *)
(* built-in.  The forked commands run concurrently with it and with each   *)
(* other; what they read, write and keep open is modelled, what they       *)
(* compute is not.  !n differs from |n only by sending standard error down *)
(* the same pipe, and is not told apart.                                   *)
(*                                                                         *)
(* Commands are numbered 1, 2, ... in the order they take an entry of      *)
(* fd_table.  A command creates at most one pipe, which carries its number.*)
(***************************************************************************)
EXTENDS Naturals, Sequences, FiniteSets

CONSTANTS
    InitLen,      \* entries of fd_table at start (shell.cpp:4)
    PipeNumMax,   \* PIPE_NUM_MAX: fd_table is refilled up to this (shell.h:26)
    Offsets,      \* the n of |n and !n the user types; | is |1
    Fds,          \* descriptors the process may open, besides 0, 1 and 2
    MaxCmds,      \* bound: commands in a session
    Work,         \* bound: units of output each command writes
    Capacity      \* units a kernel pipe holds before a writer blocks

ASSUME NumberedPipesAssumption ==
    /\ InitLen \in Nat /\ PipeNumMax \in Nat /\ 1 <= PipeNumMax
    /\ PipeNumMax <= InitLen
    /\ Offsets \subseteq 0 .. (PipeNumMax - 1)
    /\ Fds \subseteq Nat \ {0, 1, 2}
    /\ MaxCmds \in Nat /\ Work \in Nat /\ Capacity \in Nat \ {0}

STDIN  == 0
STDOUT == 1

Cmds     == 1 .. MaxCmds
NoPipe   == 0
NoTarget == 0
PipeIds  == Cmds \cup {NoPipe}
Ends     == {"r", "w"} \X Cmds      \* <<"r", p>> is the read end of pipe p
Closed   == <<"closed", NoPipe>>

VARIABLES
    mode,      \* where the shell is: "prompt", "line", "wait" or "exited"
    fdTable,   \* fd_table: input_fd of the coming commands
    pipes,     \* pipe_fd0 and pipe_fd1, as <<read end, write end>>
    shellFds,  \* the shell's descriptor table: the end open on each, or Closed
    pos,       \* number of the command that takes the next entry
    fg,        \* the command the shell waits for in waitpid
    st,        \* life of each command
    inp, out,  \* pipe on standard input / output of each command
    held,      \* every pipe end a running command has open
    todo,      \* output the command has still to write
    eof,       \* the command has read end-of-file
    buf,       \* contents of each kernel pipe: who wrote each unit
    got,       \* got[c][d]: units written by d that c has read
    target     \* history: the command the user named with |n

shellVars == <<mode, fdTable, pipes, shellFds, pos, fg>>
childVars == <<held, todo, eof, buf, got>>
vars == <<mode, fdTable, pipes, shellFds, pos, fg, st, inp, out,
          held, todo, eof, buf, got, target>>

Init ==
    /\ mode = "prompt"
    /\ fdTable = [i \in 1 .. InitLen |-> STDIN]
    /\ pipes = {}
    /\ shellFds = [f \in Fds |-> Closed]
    /\ pos = 1
    /\ fg = 0
    /\ st = [c \in Cmds |-> "unborn"]
    /\ inp = [c \in Cmds |-> NoPipe]
    /\ out = [c \in Cmds |-> NoPipe]
    /\ held = [c \in Cmds |-> {}]
    /\ todo = [c \in Cmds |-> 0]
    /\ eof = [c \in Cmds |-> FALSE]
    /\ buf = [p \in Cmds |-> <<>>]
    /\ got = [c \in Cmds |-> [d \in Cmds |-> 0]]
    /\ target = [c \in Cmds |-> NoTarget]

-----------------------------------------------------------------------------
(* Helpers of the shell. *)

\* pipe(2) returns the two lowest descriptors that are free.
LowestFree(r, w) ==
    /\ r \in Fds /\ w \in Fds /\ r < w
    /\ shellFds[r] = Closed /\ shellFds[w] = Closed
    /\ \A f \in Fds : f < w /\ f # r => shellFds[f] # Closed

\* Faulty variant of Refill: stops one entry short.
RefillShort(t) == t \o [i \in 1 .. (PipeNumMax - 1 - Len(t)) |-> STDIN]

\* The loop at the end of NPloop's body.
Refill(t) == t \o [i \in 1 .. (PipeNumMax - Len(t)) |-> STDIN]

\* pop_front(); push_back(fd_info()), and the refill if the line ends here.
Shift(t, ends) == LET u == Append(Tail(t), STDIN)
                  IN  IF ends THEN Refill(u) ELSE u

\* A read or write end on descriptor fd of table sfd names this pipe.
PipeOn(sfd, fd) == IF fd \in {STDIN, STDOUT} THEN NoPipe ELSE sfd[fd][2]

\* Faulty variant of ChildEnds: the child closes none of the listed pipes.
ChildEndsAll(sfd, list, in, o) == {sfd[f] : f \in {g \in Fds : sfd[g] # Closed}}

\* What the child has open once fork_process has redirected its input and
\* output and closed every descriptor listed in pipe_fd0 and pipe_fd1.
ChildEnds(sfd, list, in, o) ==
    {sfd[f] : f \in {in, o} \ {STDIN, STDOUT}}
        \cup {sfd[f] : f \in {g \in Fds : sfd[g] # Closed
                                 /\ \A p \in list : g # p[1] /\ g # p[2]}}

\* The pipe of the list that a command with input in reads.
Consumed(list, in) == {p \in list : in # STDIN /\ p[1] = in}

\* Faulty variants of CloseConsumed: the write end stays open; both stay open.
CloseReadEndOnly(sfd, list, in) ==
    /\ pipes' = list \ Consumed(list, in)
    /\ shellFds' = [f \in Fds |-> IF \E p \in Consumed(list, in) : f = p[1]
                                 THEN Closed ELSE sfd[f]]

EraseWithoutClose(sfd, list, in) ==
    /\ pipes' = list \ Consumed(list, in)
    /\ shellFds' = sfd

\* After fork, the parent closes both ends of the pipe the command consumes
\* and takes it off its list.
CloseConsumed(sfd, list, in) ==
    /\ pipes' = list \ Consumed(list, in)
    /\ shellFds' = [f \in Fds |-> IF \E p \in Consumed(list, in) : f \in {p[1], p[2]}
                                 THEN Closed ELSE sfd[f]]

\* fork_process: command pos starts with in and o as its input and output.
Spawn(sfd, list, in, o) ==
    /\ st' = [st EXCEPT ![pos] = "running"]
    /\ inp' = [inp EXCEPT ![pos] = PipeOn(sfd, in)]
    /\ out' = [out EXCEPT ![pos] = PipeOn(sfd, o)]
    /\ held' = [held EXCEPT ![pos] = ChildEnds(sfd, list, in, o)]
    /\ todo' = [todo EXCEPT ![pos] = Work]
    /\ pos' = pos + 1
    /\ UNCHANGED <<eof, buf, got>>

-----------------------------------------------------------------------------
(* The shell. *)

\* Faulty variant of RunToNewPipe: a new pipe even if the target has one.
RunToFreshPipe(off, ends) ==
    /\ mode \in {"prompt", "line"} /\ pos <= MaxCmds
    /\ \E r, w \in Fds :
        /\ LowestFree(r, w)
        /\ LET tab  == [fdTable EXCEPT ![off + 1] = r]
               sfd  == [shellFds EXCEPT ![r] = <<"r", pos>>, ![w] = <<"w", pos>>]
               list == pipes \cup {<<r, w>>}
           IN  /\ Spawn(sfd, list, tab[1], w)
               /\ CloseConsumed(sfd, list, tab[1])
               /\ fdTable' = Shift(tab, ends)
    /\ target' = [target EXCEPT ![pos] = pos + off]
    /\ mode' = IF ends THEN "prompt" ELSE "line"
    /\ UNCHANGED fg

\* Faulty variant of RunToNewPipe: the list gets the descriptor at the front of
\* the table, the command's own input, instead of the new pipe's read end.
RunToListedFront(off, ends) ==
    /\ mode \in {"prompt", "line"} /\ pos <= MaxCmds
    /\ fdTable[off + 1] = STDIN
    /\ \E r, w \in Fds :
        /\ LowestFree(r, w)
        /\ LET tab  == [fdTable EXCEPT ![off + 1] = r]
               sfd  == [shellFds EXCEPT ![r] = <<"r", pos>>, ![w] = <<"w", pos>>]
               list == pipes \cup {<<tab[1], w>>}
           IN  /\ Spawn(sfd, list, tab[1], w)
               /\ CloseConsumed(sfd, list, tab[1])
               /\ fdTable' = Shift(tab, ends)
    /\ target' = [target EXCEPT ![pos] = pos + off]
    /\ mode' = IF ends THEN "prompt" ELSE "line"
    /\ UNCHANGED fg

\* A command group followed by |n or !n whose target no earlier command
\* feeds: a new pipe.  When no two descriptors are free the code retries
\* pipe() for ever, and this action stays disabled.
RunToNewPipe(off, ends) ==
    /\ mode \in {"prompt", "line"} /\ pos <= MaxCmds
    /\ fdTable[off + 1] = STDIN
    /\ \E r, w \in Fds :
        /\ LowestFree(r, w)
        /\ LET tab  == [fdTable EXCEPT ![off + 1] = r]
               sfd  == [shellFds EXCEPT ![r] = <<"r", pos>>, ![w] = <<"w", pos>>]
               list == pipes \cup {<<r, w>>}
           IN  /\ Spawn(sfd, list, tab[1], w)
               /\ CloseConsumed(sfd, list, tab[1])
               /\ fdTable' = Shift(tab, ends)
    /\ target' = [target EXCEPT ![pos] = pos + off]
    /\ mode' = IF ends THEN "prompt" ELSE "line"
    /\ UNCHANGED fg

\* Faulty variant of RunToOldPipe: any pipe of the list, not the target's.
RunToAnyPipe(off, ends) ==
    /\ mode \in {"prompt", "line"} /\ pos <= MaxCmds
    /\ fdTable[off + 1] # STDIN
    /\ \E p \in pipes : Spawn(shellFds, pipes, fdTable[1], p[2])
    /\ CloseConsumed(shellFds, pipes, fdTable[1])
    /\ fdTable' = Shift(fdTable, ends)
    /\ target' = [target EXCEPT ![pos] = pos + off]
    /\ mode' = IF ends THEN "prompt" ELSE "line"
    /\ UNCHANGED fg

\* The same when an earlier command already feeds the target: the write end
\* paired with the read end in the table.
RunToOldPipe(off, ends) ==
    /\ mode \in {"prompt", "line"} /\ pos <= MaxCmds
    /\ fdTable[off + 1] # STDIN
    /\ \E p \in pipes :
        /\ p[1] = fdTable[off + 1]
        /\ Spawn(shellFds, pipes, fdTable[1], p[2])
    /\ CloseConsumed(shellFds, pipes, fdTable[1])
    /\ fdTable' = Shift(fdTable, ends)
    /\ target' = [target EXCEPT ![pos] = pos + off]
    /\ mode' = IF ends THEN "prompt" ELSE "line"
    /\ UNCHANGED fg

\* The last group of a line that does not end in a pipe: the shell waits.
RunLast ==
    /\ mode \in {"prompt", "line"} /\ pos <= MaxCmds
    /\ Spawn(shellFds, pipes, fdTable[1], STDOUT)
    /\ CloseConsumed(shellFds, pipes, fdTable[1])
    /\ fdTable' = Shift(fdTable, FALSE)
    /\ mode' = "wait"
    /\ fg' = pos
    /\ UNCHANGED target

\* waitpid returns: it reaped the child, or childHandler did before it.
WaitDone ==
    /\ mode = "wait"
    /\ st[fg] # "running"
    /\ st' = [st EXCEPT ![fg] = "reaped"]
    /\ fdTable' = Refill(fdTable)
    /\ mode' = "prompt"
    /\ fg' = 0
    /\ UNCHANGED <<pipes, shellFds, pos, inp, out, target, childVars>>

\* Faulty variant of BuiltIn: the entry stays at the front of the table.
BuiltInKeepsEntry ==
    /\ mode = "prompt" /\ pos <= MaxCmds
    /\ st' = [st EXCEPT ![pos] = "builtin"]
    /\ inp' = [inp EXCEPT ![pos] = PipeOn(shellFds, fdTable[1])]
    /\ pos' = pos + 1
    /\ UNCHANGED <<mode, fg, fdTable, pipes, shellFds, out, target, childVars>>

\* printenv and setenv: the entry goes, its pipe is neither read nor closed,
\* and nothing is pushed at the back.  inp records the pipe that was waiting
\* for this command, so that its loss is visible.
BuiltIn ==
    /\ mode = "prompt" /\ pos <= MaxCmds
    /\ st' = [st EXCEPT ![pos] = "builtin"]
    /\ inp' = [inp EXCEPT ![pos] = PipeOn(shellFds, fdTable[1])]
    /\ fdTable' = Refill(Tail(fdTable))
    /\ pos' = pos + 1
    /\ UNCHANGED <<mode, fg, pipes, shellFds, out, target, childVars>>

\* exit, or end-of-file at the prompt: the kernel closes what the shell held.
Exit ==
    /\ mode = "prompt"
    /\ mode' = "exited"
    /\ shellFds' = [f \in Fds |-> Closed]
    /\ UNCHANGED <<fdTable, pipes, pos, fg, st, inp, out, target, childVars>>

\* childHandler: waitpid(-1, WNOHANG) until no child is left to reap.
ChildHandler ==
    /\ mode # "exited"
    /\ \E c \in Cmds : st[c] = "zombie"
    /\ st' = [c \in Cmds |-> IF st[c] = "zombie" THEN "reaped" ELSE st[c]]
    /\ UNCHANGED <<shellVars, inp, out, target, childVars>>

-----------------------------------------------------------------------------
(* The commands: external programs over kernel pipes. *)

ShellHolds(e) == \E f \in Fds : shellFds[f] = e
Holders(e)    == {c \in Cmds : e \in held[c]}
HasEnd(e)     == ShellHolds(e) \/ Holders(e) # {}

Die(c) == /\ st' = [st EXCEPT ![c] = "zombie"]
          /\ held' = [held EXCEPT ![c] = {}]

\* One unit to standard output.  Without a pipe it goes to the terminal or a
\* file; a full pipe blocks; a pipe nobody can read kills the writer.
Write(c) ==
    /\ st[c] = "running" /\ todo[c] > 0
    /\ \/ /\ out[c] = NoPipe
          /\ todo' = [todo EXCEPT ![c] = @ - 1]
          /\ UNCHANGED <<st, held, buf>>
       \/ /\ out[c] # NoPipe /\ HasEnd(<<"r", out[c]>>)
          /\ Len(buf[out[c]]) < Capacity
          /\ todo' = [todo EXCEPT ![c] = @ - 1]
          /\ buf' = [buf EXCEPT ![out[c]] = Append(@, c)]
          /\ UNCHANGED <<st, held>>
       \/ /\ out[c] # NoPipe /\ ~ HasEnd(<<"r", out[c]>>)
          /\ Die(c)
          /\ UNCHANGED <<todo, buf>>
    /\ UNCHANGED <<shellVars, inp, out, eof, got, target>>

\* One unit from standard input.
Read(c) ==
    /\ st[c] = "running" /\ inp[c] # NoPipe /\ ~ eof[c]
    /\ buf[inp[c]] # <<>>
    /\ got' = [got EXCEPT ![c][Head(buf[inp[c]])] = @ + 1]
    /\ buf' = [buf EXCEPT ![inp[c]] = Tail(@)]
    /\ UNCHANGED <<shellVars, st, inp, out, held, todo, eof, target>>

\* read() returns 0: the pipe is empty and no process holds its write end.
ReadEof(c) ==
    /\ st[c] = "running" /\ inp[c] # NoPipe /\ ~ eof[c]
    /\ buf[inp[c]] = <<>> /\ ~ HasEnd(<<"w", inp[c]>>)
    /\ eof' = [eof EXCEPT ![c] = TRUE]
    /\ UNCHANGED <<shellVars, st, inp, out, held, todo, buf, got, target>>

\* A command ends once it has read its input to the end and written its output.
Finish(c) ==
    /\ st[c] = "running" /\ todo[c] = 0
    /\ inp[c] = NoPipe \/ eof[c]
    /\ Die(c)
    /\ UNCHANGED <<shellVars, inp, out, todo, eof, buf, got, target>>

\* It may also end at any time: head, a crash, "Unknown command".
QuitEarly(c) ==
    /\ st[c] = "running"
    /\ Die(c)
    /\ UNCHANGED <<shellVars, inp, out, todo, eof, buf, got, target>>

Next ==
    \/ \E off \in Offsets, ends \in BOOLEAN :
          RunToNewPipe(off, ends) \/ RunToOldPipe(off, ends)
    \/ RunLast \/ WaitDone \/ BuiltIn \/ Exit \/ ChildHandler
    \/ \E c \in Cmds :
          Write(c) \/ Read(c) \/ ReadEof(c) \/ Finish(c) \/ QuitEarly(c)

Spec == Init /\ [][Next]_vars

\* The kernel schedules every process; the user promises nothing.
Fairness ==
    /\ WF_vars(WaitDone)
    /\ \A c \in Cmds : /\ WF_vars(Write(c)) /\ WF_vars(Read(c))
                       /\ WF_vars(ReadEof(c)) /\ WF_vars(Finish(c))

FairSpec == Spec /\ Fairness

-----------------------------------------------------------------------------
(* Properties. *)

\* Every variable has its type.
TypeOK ==
    /\ mode \in {"prompt", "line", "wait", "exited"}
    /\ fdTable \in Seq(Fds \cup {STDIN})
    /\ pipes \subseteq (Fds \X Fds)
    /\ shellFds \in [Fds -> Ends \cup {Closed}]
    /\ pos \in 1 .. (MaxCmds + 1)
    /\ fg \in Cmds \cup {0}
    /\ st \in [Cmds -> {"unborn", "running", "zombie", "reaped", "builtin"}]
    /\ inp \in [Cmds -> PipeIds] /\ out \in [Cmds -> PipeIds]
    /\ held \in [Cmds -> SUBSET Ends]
    /\ todo \in [Cmds -> 0 .. Work]
    /\ eof \in [Cmds -> BOOLEAN]
    /\ buf \in [Cmds -> Seq(Cmds)]
    /\ got \in [Cmds -> [Cmds -> Nat]]
    /\ target \in [Cmds -> Nat]

\* Entry i of a table; past its end nothing is connected.
Entry(t, i) == IF i <= Len(t) THEN t[i] ELSE STDIN

\* The pipe that command k reads, will read or (a built-in) should have read.
InPipe(k) ==
    IF k < pos THEN inp[k] ELSE PipeOn(shellFds, Entry(fdTable, k - pos + 1))

\* Shifting the table, reusing descriptor numbers and joining an existing
\* pipe never misdirect output: what command c writes is what command c + n
\* reads, and nobody else reads it (until the shell itself has gone).
Routing ==
    mode # "exited" =>
      \A c \in Cmds : c < pos /\ out[c] # NoPipe =>
        \A k \in 1 .. (MaxCmds + Len(fdTable)) :
            InPipe(k) = out[c] <=> k = target[c]

\* The table always covers every offset the user may type, whatever number of
\* built-ins has shortened it: fd_table[n] is never past the end.
OffsetInTable ==
    mode \in {"prompt", "line"} => \A off \in Offsets : off < Len(fdTable)

\* Once a command reads a pipe, only the commands piped to it can still hold
\* its write end; the shell and unrelated children have closed theirs, so
\* end-of-file will come.
EofReachable ==
    \A c \in Cmds : st[c] \in {"running", "zombie", "reaped"} /\ inp[c] # NoPipe =>
      /\ ~ ShellHolds(<<"w", inp[c]>>) /\ ~ ShellHolds(<<"r", inp[c]>>)
      /\ \A d \in Holders(<<"w", inp[c]>>) : target[d] = c
      /\ Holders(<<"r", inp[c]>>) \subseteq {c}

\* The shell keeps a pipe open only while a coming command is to read it, or
\* for ever when the command that was to read it turned out to be a built-in.
PipesAccounted ==
    mode # "exited" =>
      /\ \A f \in Fds : shellFds[f] # Closed => \E p \in pipes : f \in {p[1], p[2]}
      /\ \A p \in pipes :
           \/ \E i \in 1 .. Len(fdTable) : fdTable[i] = p[1]
           \/ \E c \in Cmds : st[c] = "builtin" /\ inp[c] = PipeOn(shellFds, p[1])

\* A command that reads to end-of-file has received every unit that the
\* commands piped to it wrote, and those commands have ended.
InputComplete ==
    \A c \in Cmds : eof[c] =>
      \A d \in Cmds : target[d] = c =>
        /\ st[d] # "running"
        /\ got[c][d] = Work - todo[d]

\* The prompt comes back after every foreground command: no command of the
\* pipeline waits for ever for input, whatever is still pending behind |n
\* (shell.cpp:213).  And when the shell has gone, every command comes to its
\* end, also one blocked on a pipe a built-in dropped (a command piped to itself
\* by |0 is not one).
NothingHangs ==
    /\ mode = "wait" ~> mode = "prompt"
    /\ \A c \in Cmds :
          mode = "exited" /\ st[c] = "running" /\ (inp[c] = NoPipe \/ inp[c] # out[c])
              ~> st[c] # "running"
=============================================================================
