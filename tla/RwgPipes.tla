------------------------------ MODULE RwgPipes ------------------------------
(***************************************************************************)
(* The pipes of the single-process remote working ground (hw2              *)
(* single_shell.cpp): numbered pipes (|n, !n) of every user, user pipes    *)
(* (>n, <n) between users, and what logging out does to both.              *)
(*                                                                         *)
(* Each user has an fd_table, and user_pipe_in / user_pipe_out hold the    *)
(* ends of the user pipes; but the open ends of everybody's pipes are in   *)
(* one pair of deques, pipe_fd0 and pipe_fd1, where a read end and its     *)
(* write end are recognised by having the same index.                      *)
(*                                                                         *)
(* One process serves all users from one select loop: while a line is      *)
(* being executed, and while waitpid blocks, no other user's line starts.  *)
(* A command group is one action.  That a line is attributed to the right  *)
(* user is the subject of RwgUsers and assumed here.  The sockets are left *)
(* out: Fds are the descriptors that pipes get.  A line is a sequence of   *)
(* groups `[<n] command [|n]', the last of which may end in >n; >n in the  *)
(* middle of a line is not modelled.                                       *)
(***************************************************************************)
EXTENDS Naturals, Sequences, FiniteSets, Functions

CONSTANTS
    MaxUsers,     \* slots: 30 in the code
    InitLen,      \* entries of each fd_table at start: 1500
    PipeNumMax,   \* PIPE_NUM_MAX: 1000
    Offsets,      \* the n of |n
    Fds,          \* descriptors for pipes
    MaxRefused,   \* bound: how far below PIPE_NUM_MAX the refused >n and <n of
                  \* one line may shrink a table
    MaxSessions,  \* bound: logins
    MaxCmds       \* bound: commands, refused ones and built-ins included

ASSUME RwgPipesAssumption ==
    /\ MaxUsers \in Nat /\ MaxSessions \in Nat /\ MaxCmds \in Nat
    /\ InitLen \in Nat /\ PipeNumMax \in Nat /\ MaxRefused \in Nat
    /\ MaxRefused < PipeNumMax /\ PipeNumMax <= InitLen
    /\ Offsets \subseteq 0 .. (PipeNumMax - MaxRefused - 1)
    /\ Fds \subseteq Nat \ {0, 1, 2}

STDIN  == 0
STDOUT == 1
Users  == 1 .. MaxUsers
Nobody == 0
Cmds   == 1 .. MaxCmds
NoPipe == 0
Ends   == {"r", "w"} \X Cmds
Closed == <<"closed", NoPipe>>

VARIABLES
    mode,         \* "select", "line" (between two groups) or "wait"
    user,         \* the user whose line is being executed, or Nobody
    fg,           \* the command waitpid waits for, or 0
    sess,         \* sess[u]: the session in slot u, 0 when the slot is free
    sessions,     \* logins so far
    fdTable,      \* fd_table[u]: input_fd of each entry
    pipeFd0,      \* pipe_fd0: read ends
    pipeFd1,      \* pipe_fd1: write ends
    userPipeIn,   \* user_pipe_in[from, to], STDIN when there is no pipe
    userPipeOut,  \* user_pipe_out[from, to]
    fds,          \* kernel: the end open on each descriptor, or Closed
    cmds,         \* number of the next command
    st,           \* "unborn", "running" or "gone"
    inp, out,     \* pipe on standard input / output of each command
    held,         \* pipe ends a running command has open
    pos,          \* history: which entry of the session comes next
    place,        \* history: session and entry of each command
    target        \* history: session and entry a command was piped to

tables   == <<fdTable, pipeFd0, pipeFd1, userPipeIn, userPipeOut, fds>>
commands == <<cmds, st, inp, out, held, place, target>>
vars == <<mode, user, fg, sess, sessions, fdTable, pipeFd0, pipeFd1, userPipeIn,
          userPipeOut, fds, cmds, st, inp, out, held, pos, place, target>>

\* Entry 0 of a session stands for its user pipes, session 0 for nobody.
Nowhere == <<0, 0>>

Init ==
    /\ mode = "select" /\ user = Nobody /\ fg = 0
    /\ sess = [u \in Users |-> 0] /\ sessions = 0
    /\ fdTable = [u \in Users |-> [i \in 1 .. InitLen |-> STDIN]]
    /\ pipeFd0 = <<>> /\ pipeFd1 = <<>>
    /\ userPipeIn = [e \in Users \X Users |-> STDIN]
    /\ userPipeOut = [e \in Users \X Users |-> STDIN]
    /\ fds = [f \in Fds |-> Closed]
    /\ cmds = 1
    /\ st = [c \in Cmds |-> "unborn"]
    /\ inp = [c \in Cmds |-> NoPipe] /\ out = [c \in Cmds |-> NoPipe]
    /\ held = [c \in Cmds |-> {}]
    /\ pos = [u \in Users |-> 1]
    /\ place = [c \in Cmds |-> Nowhere] /\ target = [c \in Cmds |-> Nowhere]

-----------------------------------------------------------------------------
(* Helpers. *)

Online(u) == sess[u] # 0

\* pipe(2): the two lowest free descriptors.
LowestFree(r, w) ==
    /\ r \in Fds /\ w \in Fds /\ r < w /\ fds[r] = Closed /\ fds[w] = Closed
    /\ \A f \in Fds : f < w /\ f # r => fds[f] # Closed

\* std::find on pipe_fd0, as a position; 0 is end(), which the code does not
\* test for.
Find(list, fd) ==
    LET at == {i \in DOMAIN list : list[i] = fd}
    IN  IF at = {} THEN 0 ELSE CHOOSE i \in at : \A j \in at : i <= j

\* The k-th smallest of a set of positions.
Nth(positions, k) ==
    CHOOSE i \in positions : Cardinality({j \in positions : j <= i}) = k

\* A deque without some of its positions.
Without(list, positions) ==
    LET kept == DOMAIN list \ positions
    IN  [k \in 1 .. Cardinality(kept) |-> list[Nth(kept, k)]]

PipeOn(sfd, fd) == IF fd \in {STDIN, STDOUT} THEN NoPipe ELSE sfd[fd][2]

\* NPloop's refill at the end of a line.
Refill(t) == t \o [i \in 1 .. (PipeNumMax - Len(t)) |-> STDIN]
AtEnd(t, ends) == IF ends THEN Refill(t) ELSE t

\* The user may start a group: a new line, or the next group of the line.
Turn(u) == /\ Online(u) /\ cmds <= MaxCmds
           /\ mode = "select" \/ (mode = "line" /\ user = u)

\* What <n does to the first entry of the user's table: the descriptor that
\* a |n had put there is overwritten.
Received(u, from) ==
    IF from = Nobody THEN fdTable[u]
    ELSE [fdTable[u] EXCEPT ![1] = userPipeIn[<<from, u>>]]

\* Faulty variant of Taken: <n clears the matrices to -1.
TakenToMinusOne(matrix, u, from) ==
    IF from = Nobody THEN matrix ELSE [matrix EXCEPT ![<<from, u>>] = 0 - 1]

\* <n takes the pipe out of user_pipe_in and of user_pipe_out.
Taken(matrix, u, from) ==
    IF from = Nobody THEN matrix ELSE [matrix EXCEPT ![<<from, u>>] = STDIN]

Take(u, from) == /\ userPipeIn' = Taken(userPipeIn, u, from)
                 /\ userPipeOut' = Taken(userPipeOut, u, from)

\* <n is accepted: the sender is there and the pipe exists.
MayReceive(u, from) ==
    \/ from = Nobody
    \/ from \in Users /\ Online(from) /\ userPipeOut[<<from, u>>] # STDIN

\* Faulty variants of CloseConsumed: the write end at the front of pipe_fd1
\* goes; the write end stays open.
CloseFirstWriteEnd(in, list0, list1, sfd) ==
    IF in = STDIN
    THEN pipeFd0' = list0 /\ pipeFd1' = list1 /\ fds' = sfd
    ELSE LET i == Find(list0, in)
         IN  /\ pipeFd0' = Without(list0, {i})
             /\ pipeFd1' = Tail(list1)
             /\ fds' = [sfd EXCEPT ![list0[i]] = Closed, ![list1[1]] = Closed]

CloseReadEndOnly(in, list0, list1, sfd) ==
    IF in = STDIN
    THEN pipeFd0' = list0 /\ pipeFd1' = list1 /\ fds' = sfd
    ELSE LET i == Find(list0, in)
         IN  /\ pipeFd0' = Without(list0, {i})
             /\ pipeFd1' = Without(list1, {i})
             /\ fds' = [sfd EXCEPT ![list0[i]] = Closed]

\* After the fork: both ends at the position of the consumed read end are
\* closed and taken off the deques.
CloseConsumed(in, list0, list1, sfd) ==
    IF in = STDIN
    THEN pipeFd0' = list0 /\ pipeFd1' = list1 /\ fds' = sfd
    ELSE LET i == Find(list0, in)
         IN  /\ pipeFd0' = Without(list0, {i})
             /\ pipeFd1' = Without(list1, {i})
             /\ fds' = [sfd EXCEPT ![list0[i]] = Closed, ![list1[i]] = Closed]

\* fork_process and what follows it.  The child closes pipe_fd0[i] and
\* pipe_fd1[i] for every i below the length of pipe_fd1: when pipe_fd0 is
\* shorter it reads past its end, and may close any descriptor of its own.
Fork(u, tab, list0, list1, sfd, o, to, ends) ==
    LET own == {sfd[f] : f \in {tab[1], o} \ {STDIN, STDOUT}}
    IN  /\ st' = [st EXCEPT ![cmds] = "running"]
        /\ inp' = [inp EXCEPT ![cmds] = PipeOn(sfd, tab[1])]
        /\ out' = [out EXCEPT ![cmds] = PipeOn(sfd, o)]
        /\ \E kept \in IF Len(list0) < Len(list1) THEN SUBSET own ELSE {own} :
              held' = [held EXCEPT ![cmds] = kept]
        /\ place' = [place EXCEPT ![cmds] = <<sess[u], pos[u]>>]
        /\ target' = [target EXCEPT ![cmds] = to]
        /\ cmds' = cmds + 1
        /\ pos' = [pos EXCEPT ![u] = @ + 1]
        /\ CloseConsumed(tab[1], list0, list1, sfd)
        /\ fdTable' = [fdTable EXCEPT ![u] = AtEnd(Append(Tail(tab), STDIN), ends)]
        /\ UNCHANGED <<sess, sessions>>

Continue(u, ends) ==
    /\ mode' = IF ends THEN "select" ELSE "line"
    /\ user' = IF ends THEN Nobody ELSE u
    /\ fg' = 0

-----------------------------------------------------------------------------
(* Sessions. *)

\* Into the lowest free slot; the slot's fd_table is left as it is.
Login ==
    /\ mode = "select" /\ sessions < MaxSessions
    /\ \E u \in Users :
        /\ ~ Online(u) /\ \A v \in Users : v < u => Online(v)
        /\ sess' = [sess EXCEPT ![u] = sessions + 1]
        /\ pos' = [pos EXCEPT ![u] = 1]
    /\ sessions' = sessions + 1
    /\ UNCHANGED <<mode, user, fg, tables, commands>>

\* Positions in the deques of the user pipes to and from u.
UserPipesOf(u) ==
    {Find(pipeFd0, userPipeIn[e]) :
        e \in {d \in Users \X Users : u \in {d[1], d[2]} /\ userPipeIn[d] # STDIN}}

\* Faulty variant of EraseUser: only the pipes the user sent are closed.
EraseSentOnly(u) ==
    LET both  == {Find(pipeFd0, userPipeIn[e]) :
                    e \in {d \in Users \X Users : u = d[1] /\ userPipeIn[d] # STDIN}}
        reads == {Find(pipeFd0, f) : f \in Range(fdTable[u]) \ {STDIN}}
        shut  == {pipeFd0[i] : i \in both \cup reads} \cup {pipeFd1[i] : i \in both}
    IN  /\ pipeFd0' = Without(pipeFd0, both \cup reads)
        /\ pipeFd1' = Without(pipeFd1, both)
        /\ fds' = [f \in Fds |-> IF f \in shut THEN Closed ELSE fds[f]]
        /\ userPipeIn' = [e \in Users \X Users |-> IF u = e[1] THEN STDIN ELSE userPipeIn[e]]
        /\ userPipeOut' = [e \in Users \X Users |-> IF u = e[1] THEN STDIN ELSE userPipeOut[e]]
        /\ fdTable' = [fdTable EXCEPT ![u] = [i \in DOMAIN @ |-> STDIN]]

\* erase_user's part about pipes.  User pipes: both ends are closed and both
\* deques shortened.  Numbered pipes: the read ends in the user's table are
\* closed and taken off pipe_fd0; the write ends stay open and on pipe_fd1,
\* because output_fd, by which the code looks for them, is set only while a
\* group is being executed.
EraseUser(u) ==
    LET both  == UserPipesOf(u)
        reads == {Find(pipeFd0, f) : f \in Range(fdTable[u]) \ {STDIN}}
        shut  == {pipeFd0[i] : i \in both \cup reads} \cup {pipeFd1[i] : i \in both}
    IN  /\ pipeFd0' = Without(pipeFd0, both \cup reads)
        /\ pipeFd1' = Without(pipeFd1, both)
        /\ fds' = [f \in Fds |-> IF f \in shut THEN Closed ELSE fds[f]]
        /\ userPipeIn' = [e \in Users \X Users |->
                             IF u \in {e[1], e[2]} THEN STDIN ELSE userPipeIn[e]]
        /\ userPipeOut' = [e \in Users \X Users |->
                             IF u \in {e[1], e[2]} THEN STDIN ELSE userPipeOut[e]]
        /\ fdTable' = [fdTable EXCEPT ![u] = [i \in DOMAIN @ |-> STDIN]]

Logout(u) ==
    /\ mode = "select" /\ Online(u)
    /\ EraseUser(u)
    /\ sess' = [sess EXCEPT ![u] = 0]
    /\ UNCHANGED <<mode, user, fg, sessions, pos, commands>>

-----------------------------------------------------------------------------
(* Lines. *)

\* A group that ends in |n, when nothing feeds its target yet.
PipeToNew(u, from, off, ends) ==
    /\ Turn(u) /\ MayReceive(u, from)
    /\ LET tab == Received(u, from)
       IN  /\ tab[off + 1] = STDIN
           /\ \E r, w \in Fds :
                /\ LowestFree(r, w)
                /\ Fork(u, [tab EXCEPT ![off + 1] = r],
                        Append(pipeFd0, r), Append(pipeFd1, w),
                        [fds EXCEPT ![r] = <<"r", cmds>>, ![w] = <<"w", cmds>>],
                        w, <<sess[u], pos[u] + off>>, ends)
    /\ Take(u, from)
    /\ Continue(u, ends)

\* Faulty variant of PipeToOld: the write end made last.
PipeToLast(u, from, off, ends) ==
    /\ Turn(u) /\ MayReceive(u, from)
    /\ LET tab == Received(u, from)
       IN  /\ tab[off + 1] # STDIN
           /\ Fork(u, tab, pipeFd0, pipeFd1, fds, pipeFd1[Len(pipeFd1)],
                   <<sess[u], pos[u] + off>>, ends)
    /\ Take(u, from)
    /\ Continue(u, ends)

\* The same when its target has a pipe: the write end at the position that
\* the read end has in pipe_fd0.
PipeToOld(u, from, off, ends) ==
    /\ Turn(u) /\ MayReceive(u, from)
    /\ LET tab == Received(u, from)
       IN  /\ tab[off + 1] # STDIN
           /\ Fork(u, tab, pipeFd0, pipeFd1, fds,
                   pipeFd1[Find(pipeFd0, tab[off + 1])],
                   <<sess[u], pos[u] + off>>, ends)
    /\ Take(u, from)
    /\ Continue(u, ends)

\* The last group of a line, ending in >n: accepted when user n is there and
\* has no pipe from u yet.  The server does not wait for it.
PipeToUser(u, from, v) ==
    /\ Turn(u) /\ MayReceive(u, from) /\ Online(v)
    /\ Taken(userPipeOut, u, from)[<<u, v>>] = STDIN
    /\ \E r, w \in Fds :
        /\ LowestFree(r, w)
        /\ Fork(u, Received(u, from), Append(pipeFd0, r), Append(pipeFd1, w),
                [fds EXCEPT ![r] = <<"r", cmds>>, ![w] = <<"w", cmds>>],
                w, <<sess[v], 0>>, TRUE)
        /\ userPipeIn' = [Taken(userPipeIn, u, from) EXCEPT ![<<u, v>>] = r]
        /\ userPipeOut' = [Taken(userPipeOut, u, from) EXCEPT ![<<u, v>>] = w]
    /\ Continue(u, TRUE)

\* The last group of a line: the server waits in waitpid, serving nobody.
RunLast(u, from) ==
    /\ Turn(u) /\ MayReceive(u, from)
    /\ Fork(u, Received(u, from), pipeFd0, pipeFd1, fds, STDOUT, Nowhere, FALSE)
    /\ Take(u, from)
    /\ mode' = "wait" /\ user' = u /\ fg' = cmds

WaitDone ==
    /\ mode = "wait" /\ st[fg] = "gone"
    /\ fdTable' = [fdTable EXCEPT ![user] = Refill(@)]
    /\ Continue(user, TRUE)
    /\ UNCHANGED <<sess, sessions, pipeFd0, pipeFd1, userPipeIn, userPipeOut, fds,
                   commands, pos>>

\* <n or >n is refused: the entry goes, with whatever was to be its input, and
\* the rest of the line carries on.  Nothing is pushed at the back before the
\* line ends.  A number that no user has is always refused.  A <n of the same
\* group that was accepted before has already taken its pipe, which is then the
\* input of nothing.
Refused(u, from, ends) ==
    /\ Turn(u) /\ MayReceive(u, from)
    /\ Len(fdTable[u]) > PipeNumMax - MaxRefused
    /\ fdTable' = [fdTable EXCEPT ![u] = AtEnd(Tail(@), ends)]
    /\ Take(u, from)
    /\ pos' = [pos EXCEPT ![u] = @ + 1]
    /\ cmds' = cmds + 1
    /\ Continue(u, ends)
    /\ UNCHANGED <<sess, sessions, pipeFd0, pipeFd1, fds, st, inp, out, held, place, target>>

\* who, tell, yell, name, printenv, setenv: the entry goes and that is all.
BuiltIn(u) == mode = "select" /\ Refused(u, Nobody, TRUE)

\* A command ends, and the kernel closes what it held.
CommandEnds(c) ==
    /\ st[c] = "running"
    /\ st' = [st EXCEPT ![c] = "gone"]
    /\ held' = [held EXCEPT ![c] = {}]
    /\ UNCHANGED <<mode, user, fg, sess, sessions, tables, cmds, inp, out, pos,
                   place, target>>

Next ==
    \/ Login \/ WaitDone
    \/ \E u \in Users :
        \/ Logout(u) \/ BuiltIn(u)
        \/ \E from \in Users \cup {Nobody} :
            \/ RunLast(u, from)
            \/ \E ends \in BOOLEAN : Refused(u, from, ends)
            \/ \E v \in Users : PipeToUser(u, from, v)
            \/ \E off \in Offsets, ends \in BOOLEAN :
                  PipeToNew(u, from, off, ends) \/ PipeToOld(u, from, off, ends)
    \/ \E c \in Cmds : CommandEnds(c)

Spec == Init /\ [][Next]_vars

-----------------------------------------------------------------------------
(* Properties. *)

Places == (0 .. MaxSessions) \X Nat

\* Every variable has its type.
TypeOK ==
    /\ mode \in {"select", "line", "wait"}
    /\ user \in Users \cup {Nobody} /\ fg \in Cmds \cup {0}
    /\ sess \in [Users -> 0 .. MaxSessions] /\ sessions \in 0 .. MaxSessions
    /\ fdTable \in [Users -> Seq(Fds \cup {STDIN})]
    /\ pipeFd0 \in Seq(Fds) /\ pipeFd1 \in Seq(Fds)
    /\ userPipeIn \in [Users \X Users -> Fds \cup {STDIN}]
    /\ userPipeOut \in [Users \X Users -> Fds \cup {STDIN}]
    /\ fds \in [Fds -> Ends \cup {Closed}]
    /\ cmds \in 1 .. (MaxCmds + 1)
    /\ st \in [Cmds -> {"unborn", "running", "gone"}]
    /\ inp \in [Cmds -> Cmds \cup {NoPipe}] /\ out \in [Cmds -> Cmds \cup {NoPipe}]
    /\ held \in [Cmds -> SUBSET Ends]
    /\ pos \in [Users -> Nat]
    /\ place \in [Cmds -> Places] /\ target \in [Cmds -> Places]

\* The deques are paired by position as long as nobody has left with a
\* numbered pipe pending: from then on pipe_fd1 is the longer one for ever.
Aligned == Len(pipeFd0) = Len(pipeFd1)

\* No std::find of the code, whose result is never compared with end(), fails,
\* whoever has left with whatever pending: every input waiting in a table or a
\* matrix is on pipe_fd0, open for reading, and pipe_fd1 is long enough.  No
\* descriptor is the input of two entries, of one user or of two.  While the
\* deques have the same length, equal positions hold the two ends of one pipe.
LookupsFind ==
    LET entries == {e \in Users \X (1 .. (InitLen + PipeNumMax)) :
                      e[2] <= Len(fdTable[e[1]]) /\ fdTable[e[1]][e[2]] # STDIN}
        sent    == {e \in Users \X Users : userPipeIn[e] # STDIN}
        inputs  == {fdTable[e[1]][e[2]] : e \in entries} \cup {userPipeIn[e] : e \in sent}
    IN  /\ inputs \subseteq Range(pipeFd0)
        /\ \A f \in inputs : fds[f][1] = "r"
        /\ Cardinality(inputs) = Cardinality(entries) + Cardinality(sent)
        /\ Len(pipeFd0) <= Len(pipeFd1)
        /\ Aligned => \A i \in DOMAIN pipeFd0 :
              /\ fds[pipeFd0[i]][1] = "r" /\ fds[pipeFd1[i]][1] = "w"
              /\ fds[pipeFd0[i]][2] = fds[pipeFd1[i]][2]

\* Whoever logs in finds no pipe of the slot's former users: a free slot has
\* no pending input, and no user pipe leads to or from it.
NothingInherited ==
    \A u \in Users : ~ Online(u) =>
        /\ Range(fdTable[u]) \subseteq {STDIN}
        /\ \A e \in Users \X Users : u \in {e[1], e[2]} =>
              userPipeIn[e] = STDIN /\ userPipeOut[e] = STDIN

\* Command c was piped to command d: |n names the entry, >n the session.
PipedTo(c, d) ==
    IF target[c][2] = 0 THEN target[c][1] = place[d][1] ELSE target[c] = place[d]

\* Output reaches the command it was piped to and no other, of the same user
\* or of another, whatever descriptors and slots are reused.
Delivered ==
    \A c, d \in Cmds : out[c] # NoPipe /\ inp[d] = out[c] => PipedTo(c, d)

DeliveredWhileAligned == Aligned => Delivered

\* The one server process holds no end of the pipe that a command it has
\* started reads, and no other user's command does: nobody's pipeline, and so
\* nobody's waitpid, which stops the service of all, waits for an end-of-file
\* that cannot come.
ServerLetsGo ==
    Aligned => \A d \in Cmds : st[d] = "running" /\ inp[d] # NoPipe =>
        /\ \A f \in Fds : fds[f] # Closed => fds[f][2] # inp[d]
        /\ \A c \in Cmds : <<"w", inp[d]>> \in held[c] => PipedTo(c, d)
=============================================================================
