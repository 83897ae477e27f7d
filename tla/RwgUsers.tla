------------------------------ MODULE RwgUsers ------------------------------
(***************************************************************************)
(* The table of users of the single-process remote working ground (hw2     *)
(* single_shell.cpp): logging in, out, name, setenv, and the two look-ups  *)
(* every command starts with.  One process serves every client from one    *)
(* select loop, so a handler is one action.                                *)
(*                                                                         *)
(* A slot is free when its id is -1.  Logging out does not reset the slot's*)
(* descriptor: line 258 is the expression statement `users[i].fd -1;'.     *)
(* The slot keeps the number of a descriptor that the kernel is free to    *)
(* give to the next client or pipe, and find_user_byfd, erase_user, name   *)
(* and who compare descriptors in free slots too.                          *)
(*                                                                         *)
(* Descriptors taken and given back by the users' pipes (module RwgPipes)  *)
(* appear here as the steps OpenPipe and ClosePipe.  A login into a full   *)
(* table writes users[-1], which is undefined; the model has no such login.*)
(***************************************************************************)
EXTENDS Integers, FiniteSets

CONSTANTS
    MaxUsers,     \* slots of the table: 30 in the code
    Fds,          \* descriptors above the listening socket
    Saved,        \* descriptors a command keeps 0, 1 and 2 in: 3 in the code
    Names,        \* nicknames that can be typed
    NoName,       \* "(no name)": it holds a blank, nobody can type it
    Vars, Values, \* environment variables and their values
    DefaultEnv,   \* the environment of a new user: PATH is bin:.
    MaxSessions   \* bound: connections accepted

ASSUME RwgUsersAssumption ==
    /\ MaxUsers \in Nat /\ MaxSessions \in Nat /\ Saved \in Nat
    /\ Fds \subseteq Nat
    /\ NoName \notin Names
    /\ DefaultEnv \in [Vars -> Values]

Slots      == 1 .. MaxUsers
Sessions   == 1 .. MaxSessions
NoSession  == 0

VARIABLES
    id,        \* users[s].id: s itself, or -1 when the slot is free
    fd,        \* users[s].fd: -1 until the slot's first use
    nickname,  \* users[s].nickname
    env,       \* env_table[s]
    client,    \* kernel: the connection open on each descriptor, or NoSession
    pipeFds,   \* kernel: the descriptors that are ends of pipes
    sessions,  \* connections accepted so far
    ownEnv     \* history: what each connection's user has set

userVars == <<id, fd, nickname, env>>
vars == <<id, fd, nickname, env, client, pipeFds, sessions, ownEnv>>

\* init_users
Init ==
    /\ id = [s \in Slots |-> -1]
    /\ fd = [s \in Slots |-> -1]
    /\ nickname = [s \in Slots |-> NoName]
    /\ env = [s \in Slots |-> DefaultEnv]
    /\ client = [f \in Fds |-> NoSession]
    /\ pipeFds = {}
    /\ sessions = 0
    /\ ownEnv = [c \in Sessions |-> DefaultEnv]

-----------------------------------------------------------------------------

Live(s) == id[s] # -1

\* find_user_byfd: the first slot, free or not, that holds the descriptor.
\* A set of at most one slot; the code returns -1 for the empty set.
FindUserByFd(f) ==
    {s \in Slots : fd[s] = f /\ \A r \in Slots : r < s => fd[r] # f}

\* find_user_byid
FindUserById(n) ==
    {s \in Slots : id[s] = n /\ \A r \in Slots : r < s => id[r] # n}

Free == {f \in Fds : client[f] = NoSession /\ f \notin pipeFds}

\* The kernel hands out the lowest free descriptor; n are taken before f.
FreeRank(f, n) == f \in Free /\ Cardinality({g \in Free : g < f}) = n

-----------------------------------------------------------------------------

\* rwg_loop: accept a connection and give it the lowest free slot.
Login ==
    /\ sessions < MaxSessions
    /\ \E s \in Slots, f \in Fds :
        /\ ~ Live(s) /\ \A r \in Slots : r < s => Live(r)
        /\ FreeRank(f, 0)
        /\ id' = [id EXCEPT ![s] = s]
        /\ fd' = [fd EXCEPT ![s] = f]
        /\ nickname' = [nickname EXCEPT ![s] = NoName]
        /\ client' = [client EXCEPT ![f] = sessions + 1]
    /\ sessions' = sessions + 1
    /\ UNCHANGED <<env, pipeFds, ownEnv>>

\* Faulty variant of EraseUser: the id is cleared to 0.
EraseToZero(f) ==
    /\ id' = [s \in Slots |-> IF fd[s] = f THEN 0 ELSE id[s]]
    /\ nickname' = [s \in Slots |-> IF fd[s] = f THEN NoName ELSE nickname[s]]
    /\ env' = [s \in Slots |-> IF fd[s] = f THEN DefaultEnv ELSE env[s]]
    /\ client' = [client EXCEPT ![f] = NoSession]
    /\ UNCHANGED fd

\* Faulty variant of EraseUser: the environment of the slot survives.
EraseKeepsEnv(f) ==
    /\ id' = [s \in Slots |-> IF fd[s] = f THEN -1 ELSE id[s]]
    /\ nickname' = [s \in Slots |-> IF fd[s] = f THEN NoName ELSE nickname[s]]
    /\ client' = [client EXCEPT ![f] = NoSession]
    /\ UNCHANGED <<fd, env>>

\* Faulty variant of EraseUser: the socket stays open.
EraseKeepsSocket(f) ==
    /\ id' = [s \in Slots |-> IF fd[s] = f THEN -1 ELSE id[s]]
    /\ nickname' = [s \in Slots |-> IF fd[s] = f THEN NoName ELSE nickname[s]]
    /\ env' = [s \in Slots |-> IF fd[s] = f THEN DefaultEnv ELSE env[s]]
    /\ UNCHANGED <<fd, client>>

\* Faulty variant of EraseUser: the socket is closed, the slot stays taken.
EraseClosesOnly(f) ==
    /\ client' = [client EXCEPT ![f] = NoSession]
    /\ UNCHANGED userVars

\* erase_user: every slot that holds the descriptor, and fd stays as it is.
EraseUser(f) ==
    /\ id' = [s \in Slots |-> IF fd[s] = f THEN -1 ELSE id[s]]
    /\ nickname' = [s \in Slots |-> IF fd[s] = f THEN NoName ELSE nickname[s]]
    /\ env' = [s \in Slots |-> IF fd[s] = f THEN DefaultEnv ELSE env[s]]
    /\ client' = [client EXCEPT ![f] = NoSession]
    /\ UNCHANGED fd

\* NPexit on descriptor f: the line was exit, or reading it failed.
NPexit(f) ==
    /\ client[f] # NoSession /\ FindUserByFd(f) # {}
    /\ EraseUser(f)
    /\ UNCHANGED <<pipeFds, sessions, ownEnv>>

\* NPname: refused when any slot, the caller's own too, has the name.
NPname(f, name) ==
    /\ client[f] # NoSession
    /\ \A s \in Slots : nickname[s] # name
    /\ nickname' = [s \in Slots |-> IF s \in FindUserByFd(f) THEN name
                                                              ELSE nickname[s]]
    /\ UNCHANGED <<id, fd, env, client, pipeFds, sessions, ownEnv>>

\* NPsetenv: into the caller's env_table, from which user_env rebuilds the
\* process environment before each command.
NPsetenv(f, v, x) ==
    /\ client[f] # NoSession
    /\ env' = [s \in Slots |-> IF s \in FindUserByFd(f)
                               THEN [env[s] EXCEPT ![v] = x] ELSE env[s]]
    /\ ownEnv' = [ownEnv EXCEPT ![client[f]] = [@ EXCEPT ![v] = x]]
    /\ UNCHANGED <<id, fd, nickname, client, pipeFds, sessions>>

\* A command of some user makes a pipe, while 0, 1 and 2 are saved in the
\* lowest free descriptors.
OpenPipe ==
    /\ \E s \in Slots : Live(s)
    /\ \E r, w \in Fds : /\ FreeRank(r, Saved) /\ FreeRank(w, Saved + 1)
                         /\ pipeFds' = pipeFds \cup {r, w}
    /\ UNCHANGED <<userVars, client, sessions, ownEnv>>

\* Ends of pipes are closed, one or both.
ClosePipe(ends) ==
    /\ ends # {}
    /\ pipeFds' = pipeFds \ ends
    /\ UNCHANGED <<userVars, client, sessions, ownEnv>>

Next ==
    \/ Login
    \/ \E f \in Fds : \/ NPexit(f)
                      \/ \E name \in Names : NPname(f, name)
                      \/ \E v \in Vars, x \in Values : NPsetenv(f, v, x)
    \/ OpenPipe
    \/ \E ends \in SUBSET pipeFds : ClosePipe(ends)

Spec == Init /\ [][Next]_vars

-----------------------------------------------------------------------------
(* Properties. *)

\* Every variable has its type.
TypeOK ==
    /\ id \in [Slots -> Slots \cup {-1}]
    /\ fd \in [Slots -> Fds \cup {-1}]
    /\ nickname \in [Slots -> Names \cup {NoName}]
    /\ env \in [Slots -> [Vars -> Values]]
    /\ client \in [Fds -> 0 .. MaxSessions]
    /\ pipeFds \subseteq Fds
    /\ sessions \in 0 .. MaxSessions
    /\ ownEnv \in [Sessions -> [Vars -> Values]]

\* Whatever stale descriptors free slots still hold, a command that arrives
\* on a client's socket is run for the user who logged in on that socket:
\* no lower slot, free or taken, has the same descriptor.
LookupFindsCaller ==
    \A t \in Slots : Live(t) => FindUserByFd(fd[t]) = {t}

\* The users who are logged in and the open connections are the same: each
\* broadcast reaches every client once, and no tell goes to a descriptor that
\* was closed or has become a pipe.
UsersAreConnections ==
    /\ \A t \in Slots : Live(t) => fd[t] \in Fds /\ client[fd[t]] # NoSession
    /\ \A s, t \in Slots : Live(s) /\ Live(t) /\ fd[s] = fd[t] => s = t
    /\ \A f \in Fds : client[f] # NoSession => \E t \in Slots : Live(t) /\ fd[t] = f

\* Two users who are logged in never have the same chosen name.
NamesUnique ==
    \A s, t \in Slots :
        Live(s) /\ Live(t) /\ s # t /\ nickname[s] = nickname[t] => nickname[s] = NoName

\* A user's environment is what that user set since logging in, whoever had
\* the slot or the descriptor before.
EnvIsOwn ==
    \A t \in Slots : Live(t) => env[t] = ownEnv[client[fd[t]]]

\* NPwho's lines for the caller on descriptor f: <<id shown, marked as me>>.
WhoRows(f) ==
    {<<id[s], fd[s] = f>> : s \in {r \in Slots : fd[r] = f \/ id[r] # -1}}

\* who lists the users who are logged in, each under its id, with the caller
\* and nobody else marked.  erase_user says that it clears the user's
\* information; a slot it has cleared is not a user to list.
WhoListsOnlineUsers ==
    \A t \in Slots : Live(t) =>
        WhoRows(fd[t]) = {<<s, s = t>> : s \in {r \in Slots : Live(r)}}
=============================================================================
