--------------------------- MODULE RwgInputProofs ---------------------------
(***************************************************************************)
(* Proofs about RwgUsers and RwgInput: the invariants of the user table    *)
(* hold for every number of slots, descriptors, names and connections, and *)
(* whatever std::cin makes of the clients' lines, the server does nothing  *)
(* to its table that RwgUsers does not allow.  So RwgInput implements      *)
(* RwgUsers and has its invariants.  Attribution, of the lines themselves, *)
(* is proved from InputInv.                                                *)
(*                                                                         *)
(* The invariants are not inductive one by one.  That no lower slot shares *)
(* the descriptor of a user (LowSlots) survives a logout only because the  *)
(* users' descriptors are distinct and open, and survives a login only     *)
(* because the login takes the lowest free slot: every slot below is then  *)
(* taken, on an open descriptor, and the new one was free.                 *)
(***************************************************************************)
EXTENDS RwgInput, SequenceTheorems, TLAPS

-----------------------------------------------------------------------------
(* The table of users: RwgUsers. *)

\* A taken slot shows its own number.
IdsOK == \A s \in Slots : Live(s) => id[s] = s

\* No slot below a taken one has its descriptor.
LowSlots == \A s, t \in Slots : Live(t) /\ s < t => fd[s] # fd[t]

\* A descriptor is never both a connection and a pipe; connections are numbered
\* by arrival and are open on one descriptor.
ClientsOK ==
    /\ \A f \in Fds : client[f] # NoSession => f \notin pipeFds /\ client[f] <= sessions
    /\ \A f, g \in Fds : client[f] = client[g] /\ client[f] # NoSession => f = g

\* Free slots and connections to come have the default environment.
EnvsOK ==
    /\ \A s \in Slots : ~ Live(s) => env[s] = DefaultEnv
    /\ \A c \in Sessions : c > sessions => ownEnv[c] = DefaultEnv

\* Users have distinct open descriptors, every connection has a user.
UsersOK ==
    /\ \A t \in Slots : Live(t) => fd[t] \in Fds /\ client[fd[t]] # NoSession
    /\ \A f \in Fds : client[f] # NoSession => \E t \in Slots : Live(t) /\ fd[t] = f

IInv == TypeOK /\ IdsOK /\ LowSlots /\ ClientsOK /\ EnvsOK /\ UsersOK
        /\ NamesUnique /\ EnvIsOwn

\* LowSlots is what the look-up needs, and makes descriptors distinct.
LEMMA LookupFromLowSlots ==
    ASSUME TypeOK, LowSlots
    PROVE  LookupFindsCaller
  BY DEF LookupFindsCaller, LowSlots, FindUserByFd, Slots, TypeOK

LEMMA DistinctFds ==
    ASSUME TypeOK, LowSlots
    PROVE  \A s, t \in Slots : Live(s) /\ Live(t) /\ fd[s] = fd[t] => s = t
  BY DEF LowSlots, Slots

LEMMA InitInv == Init => IInv
  <1> SUFFICES ASSUME Init PROVE IInv
      OBVIOUS
  <1>1. TypeOK
      BY RwgUsersAssumption DEF Init, TypeOK, Sessions, NoSession
  <1>2. \A s \in Slots : ~ Live(s)
      BY DEF Init, Live
  <1>3. IdsOK /\ LowSlots /\ UsersOK /\ NamesUnique /\ EnvIsOwn
      BY <1>2 DEF Init, IdsOK, LowSlots, UsersOK, NamesUnique, EnvIsOwn
  <1>4. ClientsOK /\ EnvsOK
      BY DEF Init, ClientsOK, EnvsOK
  <1> QED BY <1>1, <1>3, <1>4 DEF IInv

LEMMA LoginInv == IInv /\ Login => IInv'
  <1> SUFFICES ASSUME IInv, Login PROVE IInv'
      OBVIOUS
  <1> USE DEF IInv
  <1>1. PICK s \in Slots, f \in Fds :
            /\ ~ Live(s) /\ \A r \in Slots : r < s => Live(r)
            /\ FreeRank(f, 0)
            /\ id' = [id EXCEPT ![s] = s]
            /\ fd' = [fd EXCEPT ![s] = f]
            /\ nickname' = [nickname EXCEPT ![s] = NoName]
            /\ client' = [client EXCEPT ![f] = sessions + 1]
      BY DEF Login
  <1>2. sessions < MaxSessions /\ sessions' = sessions + 1
        /\ env' = env /\ pipeFds' = pipeFds /\ ownEnv' = ownEnv
      BY DEF Login
  <1>3. client[f] = NoSession /\ f \notin pipeFds
      BY <1>1 DEF FreeRank, Free
  <1>4. TypeOK'
      BY <1>1, <1>2, RwgUsersAssumption DEF TypeOK, Slots
  <1>5. \A t \in Slots : Live(t)' <=> (t = s \/ Live(t))
      BY <1>1 DEF Live, TypeOK, Slots
  <1>6. \A t \in Slots : Live(t) => fd[t] # f
      BY <1>3 DEF UsersOK
  <1>7. IdsOK'
      BY <1>1, <1>5 DEF IdsOK, TypeOK
  <1>8. LowSlots'
    <2> SUFFICES ASSUME NEW r \in Slots, NEW t \in Slots, Live(t)', r < t
                 PROVE  fd'[r] # fd'[t]
        BY DEF LowSlots
    <2>1. CASE t = s
      <3>1. Live(r) /\ r # s
          BY <2>1, <1>1 DEF Slots
      <3> QED BY <3>1, <2>1, <1>1, <1>6 DEF TypeOK
    <2>2. CASE t # s
      <3>1. Live(t) /\ fd'[t] = fd[t] /\ fd[t] # f
          BY <2>2, <1>1, <1>5, <1>6 DEF TypeOK
      <3>2. CASE r = s
          BY <3>1, <3>2, <1>1 DEF TypeOK
      <3>3. CASE r # s
          BY <3>1, <3>3, <1>1 DEF TypeOK, LowSlots
      <3> QED BY <3>2, <3>3
    <2> QED BY <2>1, <2>2
  <1>9. ClientsOK'
      BY <1>1, <1>2, <1>3, RwgUsersAssumption DEF ClientsOK, TypeOK, NoSession
  <1>10. EnvsOK'
      BY <1>2, <1>5 DEF EnvsOK, TypeOK, Sessions
  <1>11. UsersOK'
    <2>1. ASSUME NEW t \in Slots, Live(t)'
          PROVE  fd'[t] \in Fds /\ client'[fd'[t]] # NoSession
      <3>1. CASE t = s
          BY <3>1, <1>1, <1>2 DEF TypeOK, NoSession
      <3>2. CASE t # s
          BY <3>2, <2>1, <1>1, <1>5, <1>6 DEF TypeOK, UsersOK
      <3> QED BY <3>1, <3>2
    <2>2. ASSUME NEW g \in Fds, client'[g] # NoSession
          PROVE  \E t \in Slots : Live(t)' /\ fd'[t] = g
      <3>1. CASE g = f
          BY <3>1, <1>1, <1>5 DEF TypeOK
      <3>2. CASE g # f
        <4>1. PICK t \in Slots : Live(t) /\ fd[t] = g
            BY <2>2, <3>2, <1>1 DEF TypeOK, UsersOK
        <4> QED BY <4>1, <1>1, <1>5 DEF TypeOK
      <3> QED BY <3>1, <3>2
    <2> QED BY <2>1, <2>2 DEF UsersOK
  <1>12. NamesUnique'
      BY <1>1, <1>5 DEF NamesUnique, TypeOK
  <1>13. EnvIsOwn'
    <2> SUFFICES ASSUME NEW t \in Slots, Live(t)'
                 PROVE  env[t] = ownEnv[client'[fd'[t]]]
        BY <1>2 DEF EnvIsOwn
    <2>1. CASE t = s
      <3>1. client'[fd'[t]] = sessions + 1
          BY <2>1, <1>1 DEF TypeOK
      <3>2. sessions + 1 \in Sessions /\ sessions + 1 > sessions
          BY <1>2, RwgUsersAssumption DEF TypeOK, Sessions
      <3> QED BY <2>1, <3>1, <3>2, <1>1 DEF EnvsOK
    <2>2. CASE t # s
        BY <2>2, <1>1, <1>5, <1>6 DEF TypeOK, UsersOK, EnvIsOwn
    <2> QED BY <2>1, <2>2
  <1> QED BY <1>4, <1>7, <1>8, <1>9, <1>10, <1>11, <1>12, <1>13

\* Logging out frees exactly one taken slot: the descriptor of a user is shared
\* only with free slots, which stay as they are.
LEMMA NPexitInv == ASSUME NEW f \in Fds PROVE IInv /\ NPexit(f) => IInv'
  <1> SUFFICES ASSUME IInv, NPexit(f) PROVE IInv'
      OBVIOUS
  <1> USE DEF IInv
  <1>1. /\ client[f] # NoSession
        /\ id' = [s \in Slots |-> IF fd[s] = f THEN -1 ELSE id[s]]
        /\ nickname' = [s \in Slots |-> IF fd[s] = f THEN NoName ELSE nickname[s]]
        /\ env' = [s \in Slots |-> IF fd[s] = f THEN DefaultEnv ELSE env[s]]
        /\ client' = [client EXCEPT ![f] = NoSession]
        /\ fd' = fd /\ pipeFds' = pipeFds /\ sessions' = sessions /\ ownEnv' = ownEnv
      BY DEF NPexit, EraseUser
  <1>2. TypeOK'
      BY <1>1, RwgUsersAssumption DEF TypeOK, NoSession
  <1>3. \A t \in Slots : Live(t)' <=> (Live(t) /\ fd[t] # f)
      BY <1>1 DEF Live
  <1>4. IdsOK' /\ LowSlots'
      BY <1>1, <1>3 DEF IdsOK, LowSlots
  <1>5. ClientsOK'
      BY <1>1 DEF ClientsOK, TypeOK
  <1>6. EnvsOK'
      BY <1>1, <1>3 DEF EnvsOK
  <1>7. UsersOK'
    <2>1. \A t \in Slots : Live(t)' => fd'[t] \in Fds /\ client'[fd'[t]] # NoSession
        BY <1>1, <1>3 DEF UsersOK, TypeOK
    <2>2. ASSUME NEW g \in Fds, client'[g] # NoSession
          PROVE  \E t \in Slots : Live(t)' /\ fd'[t] = g
      <3>1. g # f /\ client[g] # NoSession
          BY <2>2, <1>1 DEF TypeOK
      <3> QED BY <3>1, <1>1, <1>3 DEF UsersOK
    <2> QED BY <2>1, <2>2 DEF UsersOK
  <1>8. NamesUnique'
      BY <1>1, <1>3 DEF NamesUnique
  <1>9. EnvIsOwn'
      BY <1>1, <1>3 DEF EnvIsOwn, UsersOK, TypeOK
  <1> QED BY <1>2, <1>4, <1>5, <1>6, <1>7, <1>8, <1>9

LEMMA NPnameInv ==
    ASSUME NEW f \in Fds, NEW name \in Names PROVE IInv /\ NPname(f, name) => IInv'
  <1> SUFFICES ASSUME IInv, NPname(f, name) PROVE IInv'
      OBVIOUS
  <1> USE DEF IInv
  <1>1. /\ client[f] # NoSession
        /\ \A s \in Slots : nickname[s] # name
        /\ nickname' = [s \in Slots |-> IF s \in FindUserByFd(f) THEN name
                                                                  ELSE nickname[s]]
        /\ UNCHANGED <<id, fd, env, client, pipeFds, sessions, ownEnv>>
      BY DEF NPname
  <1>2. \A t \in Slots : Live(t)' <=> Live(t)
      BY <1>1 DEF Live
  <1>3. TypeOK'
      BY <1>1 DEF TypeOK
  <1>4. IdsOK' /\ LowSlots' /\ ClientsOK' /\ EnvsOK' /\ UsersOK' /\ EnvIsOwn'
      BY <1>1, <1>2 DEF IdsOK, LowSlots, ClientsOK, EnvsOK, UsersOK, EnvIsOwn
  <1>5. NamesUnique'
    <2>1. \A s, t \in FindUserByFd(f) : s = t
        BY DEF FindUserByFd, Slots
    <2> QED BY <2>1, <1>1, <1>2 DEF NamesUnique
  <1> QED BY <1>3, <1>4, <1>5

\* The slot that setenv writes is the slot of the connection it came on.
LEMMA NPsetenvInv ==
    ASSUME NEW f \in Fds, NEW v \in Vars, NEW x \in Values
    PROVE  IInv /\ NPsetenv(f, v, x) => IInv'
  <1> SUFFICES ASSUME IInv, NPsetenv(f, v, x) PROVE IInv'
      OBVIOUS
  <1> USE DEF IInv
  <1>1. /\ client[f] # NoSession
        /\ env' = [s \in Slots |-> IF s \in FindUserByFd(f)
                                   THEN [env[s] EXCEPT ![v] = x] ELSE env[s]]
        /\ ownEnv' = [ownEnv EXCEPT ![client[f]] = [@ EXCEPT ![v] = x]]
        /\ UNCHANGED <<id, fd, nickname, client, pipeFds, sessions>>
      BY DEF NPsetenv
  <1>2. \A t \in Slots : Live(t)' <=> Live(t)
      BY <1>1 DEF Live
  <1>3. client[f] \in Sessions /\ client[f] <= sessions
      BY <1>1, RwgUsersAssumption DEF TypeOK, ClientsOK, Sessions, NoSession
  <1>4. PICK u \in Slots : Live(u) /\ fd[u] = f
      BY <1>1 DEF UsersOK
  <1>5. FindUserByFd(f) = {u}
      BY <1>4, LookupFromLowSlots DEF LookupFindsCaller
  <1>6. TypeOK'
    <2>1. env' \in [Slots -> [Vars -> Values]]
        BY <1>1 DEF TypeOK
    <2>2. ownEnv' \in [Sessions -> [Vars -> Values]]
        BY <1>1, <1>3 DEF TypeOK
    <2> QED BY <1>1, <2>1, <2>2 DEF TypeOK
  <1>7. IdsOK' /\ LowSlots' /\ ClientsOK' /\ UsersOK' /\ NamesUnique'
      BY <1>1, <1>2 DEF IdsOK, LowSlots, ClientsOK, UsersOK, NamesUnique
  <1>8. EnvsOK'
    <2>1. \A s \in Slots : ~ Live(s)' => env'[s] = DefaultEnv
        BY <1>1, <1>2, <1>4, <1>5 DEF EnvsOK
    <2>2. \A c \in Sessions : c > sessions' => ownEnv'[c] = DefaultEnv
        BY <1>1, <1>3 DEF EnvsOK, TypeOK, Sessions
    <2> QED BY <2>1, <2>2 DEF EnvsOK
  <1>9. EnvIsOwn'
    <2> SUFFICES ASSUME NEW t \in Slots, Live(t)
                 PROVE  env'[t] = ownEnv'[client[fd[t]]]
        BY <1>1, <1>2 DEF EnvIsOwn
    <2>0. client[fd[t]] \in Sessions
      <3>1. fd[t] \in Fds /\ client[fd[t]] # 0
          BY DEF UsersOK, NoSession
      <3>2. client[fd[t]] \in 0 .. MaxSessions
          BY <3>1 DEF TypeOK
      <3> QED BY <3>1, <3>2, RwgUsersAssumption DEF Sessions
    <2>1. CASE t = u
      <3>1. env'[t] = [env[t] EXCEPT ![v] = x]
          BY <2>1, <1>1, <1>5
      <3>2. ownEnv'[client[f]] = [ownEnv[client[f]] EXCEPT ![v] = x]
          BY <1>1, <1>3 DEF TypeOK
      <3> QED BY <3>1, <3>2, <2>1, <1>4 DEF EnvIsOwn
    <2>2. CASE t # u
      <3>1. client[fd[t]] # client[f]
          BY <2>2, <1>4, DistinctFds DEF ClientsOK, UsersOK
      <3>2. ownEnv'[client[fd[t]]] = ownEnv[client[fd[t]]]
          BY <3>1, <2>0, <1>1, <1>3 DEF TypeOK
      <3> QED BY <3>2, <2>2, <1>1, <1>5 DEF EnvIsOwn
    <2> QED BY <2>1, <2>2
  <1> QED BY <1>6, <1>7, <1>8, <1>9

LEMMA OpenPipeInv == IInv /\ OpenPipe => IInv'
  <1> SUFFICES ASSUME IInv, OpenPipe PROVE IInv'
      OBVIOUS
  <1> USE DEF IInv
  <1>1. PICK r \in Fds, w \in Fds : /\ r \in Free /\ w \in Free
                                    /\ pipeFds' = pipeFds \cup {r, w}
      BY DEF OpenPipe, FreeRank
  <1>2. UNCHANGED <<id, fd, nickname, env, client, sessions, ownEnv>>
      BY DEF OpenPipe, userVars
  <1>3. \A t \in Slots : Live(t)' <=> Live(t)
      BY <1>2 DEF Live
  <1>4. TypeOK'
      BY <1>1, <1>2 DEF TypeOK
  <1>5. IdsOK' /\ LowSlots' /\ EnvsOK' /\ UsersOK' /\ NamesUnique' /\ EnvIsOwn'
      BY <1>2, <1>3 DEF IdsOK, LowSlots, EnvsOK, UsersOK, NamesUnique, EnvIsOwn
  <1>6. ClientsOK'
      BY <1>1, <1>2 DEF ClientsOK, Free
  <1> QED BY <1>4, <1>5, <1>6

LEMMA ClosePipeInv ==
    ASSUME NEW ends \in SUBSET pipeFds PROVE IInv /\ ClosePipe(ends) => IInv'
  <1> SUFFICES ASSUME IInv, ClosePipe(ends) PROVE IInv'
      OBVIOUS
  <1> USE DEF IInv
  <1>1. /\ pipeFds' = pipeFds \ ends
        /\ UNCHANGED <<id, fd, nickname, env, client, sessions, ownEnv>>
      BY DEF ClosePipe, userVars
  <1>2. \A t \in Slots : Live(t)' <=> Live(t)
      BY <1>1 DEF Live
  <1>3. TypeOK' /\ ClientsOK'
      BY <1>1 DEF TypeOK, ClientsOK
  <1>4. IdsOK' /\ LowSlots' /\ EnvsOK' /\ UsersOK' /\ NamesUnique' /\ EnvIsOwn'
      BY <1>1, <1>2 DEF IdsOK, LowSlots, EnvsOK, UsersOK, NamesUnique, EnvIsOwn
  <1> QED BY <1>3, <1>4

\* The inductive invariant holds in every reachable state.
THEOREM Invariance == Spec => []IInv
  <1>1. Init => IInv
      BY InitInv
  <1>2. IInv /\ [Next]_vars => IInv'
    <2> SUFFICES ASSUME IInv, [Next]_vars PROVE IInv'
        OBVIOUS
    <2>1. CASE Login
        BY <2>1, LoginInv
    <2>2. ASSUME NEW f \in Fds, NPexit(f) PROVE IInv'
        BY <2>2, NPexitInv
    <2>3. ASSUME NEW f \in Fds, NEW name \in Names, NPname(f, name) PROVE IInv'
        BY <2>3, NPnameInv
    <2>4. ASSUME NEW f \in Fds, NEW v \in Vars, NEW x \in Values, NPsetenv(f, v, x)
          PROVE  IInv'
        BY <2>4, NPsetenvInv
    <2>5. CASE OpenPipe
        BY <2>5, OpenPipeInv
    <2>6. ASSUME NEW ends \in SUBSET pipeFds, ClosePipe(ends) PROVE IInv'
        BY <2>6, ClosePipeInv
    <2>7. CASE UNCHANGED vars
        BY <2>7 DEF vars, IInv, TypeOK, IdsOK, LowSlots, ClientsOK, EnvsOK, UsersOK,
                    NamesUnique, EnvIsOwn, Live
    <2> QED BY <2>1, <2>2, <2>3, <2>4, <2>5, <2>6, <2>7 DEF Next
  <1> QED BY <1>1, <1>2, PTL DEF Spec

\* Every variable of the table of users keeps its type.
THEOREM TypeCorrect == Spec => []TypeOK
  <1>1. IInv => TypeOK
      BY DEF IInv
  <1> QED BY <1>1, Invariance, PTL

\* A command that arrives on a client's socket is always run for the user who
\* logged in on it, although free slots keep descriptors that were reused.
THEOREM LookupCorrect == Spec => []LookupFindsCaller
  <1>1. IInv => LookupFindsCaller
      BY LookupFromLowSlots DEF IInv
  <1> QED BY <1>1, Invariance, PTL

\* The users who are logged in are exactly the open connections.
THEOREM ConnectionsCorrect == Spec => []UsersAreConnections
  <1>1. IInv => UsersAreConnections
      BY DistinctFds DEF IInv, UsersOK, UsersAreConnections
  <1> QED BY <1>1, Invariance, PTL

\* Chosen names of logged-in users are never equal.
THEOREM NamesCorrect == Spec => []NamesUnique
  <1>1. IInv => NamesUnique
      BY DEF IInv
  <1> QED BY <1>1, Invariance, PTL

\* No user sees a variable that another user, or an earlier one, has set.
THEOREM EnvironmentsCorrect == Spec => []EnvIsOwn
  <1>1. IInv => EnvIsOwn
      BY DEF IInv
  <1> QED BY <1>1, Invariance, PTL

-----------------------------------------------------------------------------
(* The input: RwgInput. *)

\* A turn of rwg_loop, and what clients do, is a step of the user table or none.
THEOREM InputImplementsUsers == InputSpec => Spec
  <1>1. InputInit => Init
      BY DEF InputInit
  <1>2. [InputNext]_allVars => [Next]_vars
    <2> SUFFICES ASSUME InputNext PROVE Next \/ UNCHANGED vars
        BY DEF allVars
    <2>1. CASE (Login \/ OpenPipe \/ \E ends \in SUBSET pipeFds : ClosePipe(ends))
        BY <2>1 DEF Next
    <2>2. ASSUME NEW f \in Fds, Type(f) \/ Hangup(f) \/ CommandReads(f) PROVE UNCHANGED vars
        BY <2>2 DEF Type, Hangup, CommandReads
    <2>3. CASE TypeTerminal \/ ServeTerminal \/ \E c \in Sessions : CommandEnds(c)
        BY <2>3 DEF TypeTerminal, ServeTerminal, CommandEnds
    <2>4. ASSUME NEW f \in Fds, ServeEnd(f) PROVE Next
        BY <2>4 DEF ServeEnd, Next
    <2>5. ASSUME NEW f \in Fds, ServeLine(f) PROVE Next \/ UNCHANGED vars
        BY <2>5 DEF ServeLine, Run, Next
    <2> QED
        BY <2>1, <2>2, <2>3, <2>4, <2>5 DEF InputNext
  <1> QED
      BY <1>1, <1>2, PTL DEF InputSpec, Spec

\* The user table keeps its types, however lines arrive.
THEOREM InputTypeCorrect == InputSpec => []TypeOK
  BY InputImplementsUsers, TypeCorrect, PTL

\* A line is run for the user whose socket was readable (single_shell.cpp:133).
THEOREM InputLookupCorrect == InputSpec => []LookupFindsCaller
  BY InputImplementsUsers, LookupCorrect, PTL

\* Also with users who are logged out by std::cin's end-of-file state, the users
\* in the table are those connected (single_shell.cpp:336).
THEOREM InputConnectionsCorrect == InputSpec => []UsersAreConnections
  BY InputImplementsUsers, ConnectionsCorrect, PTL

\* Names stay unique, and environments their users' own.
THEOREM InputNamesCorrect == InputSpec => []NamesUnique /\ []EnvIsOwn
  BY InputImplementsUsers, NamesCorrect, EnvironmentsCorrect, PTL

-----------------------------------------------------------------------------
(* Whose line is run. *)

Line == Sessions \X Nat


\* Lines, said of one line at a time; n is the length of q.
LinesAt(q, n, c, lo, hi) ==
    /\ \A i \in 1 .. n : q[i][1] = c => q[i][2] \in lo + 1 .. hi
    /\ \A m \in lo + 1 .. hi : \E i \in 1 .. n : q[i][1] = c /\ q[i][2] = m
    /\ \A i, j \in 1 .. n :
          q[i][1] = c /\ q[j][1] = c /\ i < j => q[i][2] < q[j][2]

LEMMA LinesAre ==
    ASSUME NEW q, NEW n, DOMAIN q = 1 .. n, NEW c, NEW lo, NEW hi
    PROVE  Lines(q, c, lo, hi) <=> LinesAt(q, n, c, lo, hi)
  <1> DEFINE here == {i \in DOMAIN q : q[i][1] = c}
             R == lo + 1 .. hi
  <1>1. Lines(q, c, lo, hi) <=> /\ {q[i][2] : i \in here} = R
                                /\ \A i, j \in here : i < j => q[i][2] < q[j][2]
      BY DEF Lines
  <1>2. {q[i][2] : i \in here} = R <=> /\ \A i \in here : q[i][2] \in R
                                      /\ \A m \in R : \E i \in here : q[i][2] = m
    <2> HIDE DEF R, here
    <2> QED OBVIOUS
  <1>3. LinesAt(q, n, c, lo, hi) <=>
            /\ \A i \in here : q[i][2] \in R
            /\ \A m \in R : \E i \in here : q[i][2] = m
            /\ \A i, j \in here : i < j => q[i][2] < q[j][2]
    <2> HIDE DEF R
    <2>1. LinesAt(q, n, c, lo, hi) <=>
              /\ \A i \in 1 .. n : q[i][1] = c => q[i][2] \in R
              /\ \A m \in R : \E i \in 1 .. n : q[i][1] = c /\ q[i][2] = m
              /\ \A i, j \in 1 .. n :
                    q[i][1] = c /\ q[j][1] = c /\ i < j => q[i][2] < q[j][2]
        BY DEF LinesAt, R
    <2> DEFINE D == 1 .. n
    <2>2. here = {i \in D : q[i][1] = c}
        OBVIOUS
    <2> HIDE DEF here, D
    <2>3. \A i : i \in here <=> i \in D /\ q[i][1] = c
        BY <2>2
    <2> QED BY <2>1, <2>3 DEF D
  <1> QED BY <1>1, <1>2, <1>3

\* One more line is typed.
LEMMA LinesAppend ==
    ASSUME NEW q \in Seq(Line), NEW c \in Sessions, NEW lo \in Nat, NEW hi \in Nat, lo <= hi,
           Lines(q, c, lo, hi)
    PROVE  Lines(Append(q, <<c, hi + 1>>), c, lo, hi + 1)
  <1> DEFINE l == <<c, hi + 1>>
             a == Append(q, l)
  <1>1. PICK n \in Nat : n = Len(q)
      OBVIOUS
  <1>2. l \in Line /\ l[1] = c /\ l[2] = hi + 1
      BY DEF Line
  <1> HIDE DEF l
  <1>3. /\ DOMAIN a = 1 .. (n + 1) /\ DOMAIN q = 1 .. n
        /\ \A i \in 1 .. n : a[i] = q[i]
        /\ a[n + 1] = l
      BY <1>1, <1>2, AppendProperties
  <1>4. /\ \A i \in 1 .. n : q[i][1] = c => q[i][2] \in lo + 1 .. hi
        /\ \A m \in lo + 1 .. hi : \E i \in 1 .. n : q[i][1] = c /\ q[i][2] = m
        /\ \A i, j \in 1 .. n : q[i][1] = c /\ q[j][1] = c /\ i < j => q[i][2] < q[j][2]
    <2>1. LinesAt(q, n, c, lo, hi)
        BY <1>3, LinesAre
    <2> QED BY <2>1 DEF LinesAt
  <1> HIDE DEF a
  <1>5. \A i \in 1 .. (n + 1) : a[i][1] = c => a[i][2] \in lo + 1 .. (hi + 1)
    <2>1. \A i \in 1 .. n : a[i][1] = c => a[i][2] \in lo + 1 .. (hi + 1)
        BY <1>3, <1>4
    <2>2. a[n + 1][2] \in lo + 1 .. (hi + 1)
        BY <1>2, <1>3
    <2>3. \A i \in 1 .. (n + 1) : i \in 1 .. n \/ i = n + 1
        OBVIOUS
    <2> QED BY <2>1, <2>2, <2>3
  <1>6. ASSUME NEW m \in lo + 1 .. (hi + 1)
        PROVE  \E i \in 1 .. (n + 1) : a[i][1] = c /\ a[i][2] = m
    <2>1. CASE m = hi + 1
        BY <2>1, <1>2, <1>3
    <2>2. CASE m # hi + 1
      <3>1. m \in lo + 1 .. hi
          BY <2>2
      <3>2. PICK i \in 1 .. n : q[i][1] = c /\ q[i][2] = m
          BY <3>1, <1>4
      <3> QED BY <3>2, <1>3
    <2> QED BY <2>1, <2>2
  <1>7. ASSUME NEW i \in 1 .. (n + 1), NEW j \in 1 .. (n + 1), a[i][1] = c, a[j][1] = c, i < j
        PROVE  a[i][2] < a[j][2]
    <2>1. i \in 1 .. n /\ a[i] = q[i]
        BY <1>3, <1>7
    <2>2. CASE j \in 1 .. n
        BY <2>1, <2>2, <1>3, <1>4, <1>7
    <2>3. CASE j = n + 1
      <3>1. q[i][2] \in lo + 1 .. hi
          BY <2>1, <1>4, <1>7
      <3> QED BY <3>1, <2>1, <2>3, <1>2, <1>3
    <2> QED BY <2>2, <2>3, <1>3
  <1>8. LinesAt(a, n + 1, c, lo, hi + 1)
      BY <1>5, <1>6, <1>7 DEF LinesAt
  <1>9. Lines(a, c, lo, hi + 1)
      BY <1>3, <1>8, LinesAre
  <1> QED BY <1>9 DEF a, l

\* The first line is taken.
LEMMA LinesTail ==
    ASSUME NEW q \in Seq(Line), q # << >>, NEW c, NEW lo \in Nat, NEW hi \in Nat,
           Lines(q, c, lo, hi)
    PROVE  /\ Head(q)[1] # c => Lines(Tail(q), c, lo, hi)
           /\ Head(q)[1] = c => /\ Head(q)[2] = lo + 1 /\ lo + 1 <= hi
                                /\ Lines(Tail(q), c, lo + 1, hi)
  <1> DEFINE t == Tail(q)
  <1>1. PICK n \in Nat : n = Len(q)
      OBVIOUS
  <1>2. /\ n >= 1 /\ DOMAIN q = 1 .. n /\ Head(q) = q[1]
        /\ DOMAIN t = 1 .. (n - 1) /\ \A i \in 1 .. (n - 1) : t[i] = q[i + 1]
      BY <1>1
  <1>3. /\ \A i \in 1 .. n : q[i][1] = c => q[i][2] \in lo + 1 .. hi
        /\ \A m \in lo + 1 .. hi : \E i \in 1 .. n : q[i][1] = c /\ q[i][2] = m
        /\ \A i, j \in 1 .. n : q[i][1] = c /\ q[j][1] = c /\ i < j => q[i][2] < q[j][2]
    <2>1. LinesAt(q, n, c, lo, hi)
        BY <1>2, LinesAre
    <2> QED BY <2>1 DEF LinesAt
  <1> HIDE DEF t
  <1>4. \A i \in 1 .. (n - 1) : i + 1 \in 1 .. n
      OBVIOUS
  <1>5. ASSUME NEW i \in 1 .. (n - 1), NEW j \in 1 .. (n - 1), t[i][1] = c, t[j][1] = c, i < j
        PROVE  t[i][2] < t[j][2]
    <2>1. i + 1 \in 1 .. n /\ j + 1 \in 1 .. n /\ i + 1 < j + 1
        BY <1>4, <1>5
    <2>2. t[i] = q[i + 1] /\ t[j] = q[j + 1]
        BY <1>2
    <2> QED BY <2>1, <2>2, <1>3, <1>5
  <1>6. ASSUME q[1][1] # c PROVE Lines(t, c, lo, hi)
    <2>1. \A i \in 1 .. (n - 1) : t[i][1] = c => t[i][2] \in lo + 1 .. hi
        BY <1>2, <1>3, <1>4
    <2>2. ASSUME NEW m \in lo + 1 .. hi
          PROVE  \E i \in 1 .. (n - 1) : t[i][1] = c /\ t[i][2] = m
      <3>1. PICK i \in 1 .. n : q[i][1] = c /\ q[i][2] = m
          BY <1>3
      <3>2. i # 1 /\ i - 1 \in 1 .. (n - 1) /\ (i - 1) + 1 = i
          BY <3>1, <1>6
      <3> QED BY <3>1, <3>2, <1>2
    <2>3. LinesAt(t, n - 1, c, lo, hi)
        BY <2>1, <2>2, <1>5 DEF LinesAt
    <2> QED BY <2>3, <1>2, LinesAre
  <1>7. ASSUME q[1][1] = c PROVE q[1][2] = lo + 1 /\ lo + 1 <= hi /\ Lines(t, c, lo + 1, hi)
    <2>1. q[1][2] \in lo + 1 .. hi /\ 1 \in 1 .. n
        BY <1>2, <1>3, <1>7
    <2>2. lo + 1 \in lo + 1 .. hi
        BY <2>1
    <2>3. PICK k \in 1 .. n : q[k][1] = c /\ q[k][2] = lo + 1
        BY <2>2, <1>3
    <2>4. k = 1
      <3> SUFFICES ASSUME 1 < k PROVE FALSE
          BY <2>3
      <3>1. q[1][2] < lo + 1
          BY <2>1, <2>3, <1>3, <1>7
      <3> QED BY <3>1, <2>1
    <2>5. q[1][2] = lo + 1
        BY <2>3, <2>4
    <2>6. ASSUME NEW i \in 1 .. (n - 1), t[i][1] = c PROVE t[i][2] \in (lo + 1) + 1 .. hi
      <3>1. q[i + 1][2] \in lo + 1 .. hi /\ t[i] = q[i + 1]
          BY <2>6, <1>2, <1>3, <1>4
      <3>2. i + 1 \in 1 .. n /\ 1 < i + 1
          BY <1>2, <1>4
      <3>3. q[1][2] < q[i + 1][2]
          BY <3>1, <3>2, <2>1, <2>6, <1>3, <1>7
      <3> QED BY <3>1, <3>3, <2>5
    <2>7. ASSUME NEW m \in (lo + 1) + 1 .. hi
          PROVE  \E i \in 1 .. (n - 1) : t[i][1] = c /\ t[i][2] = m
      <3>1. m \in lo + 1 .. hi
          OBVIOUS
      <3>2. PICK i \in 1 .. n : q[i][1] = c /\ q[i][2] = m
          BY <3>1, <1>3
      <3>3. i # 1
          BY <3>2, <2>5
      <3>4. i - 1 \in 1 .. (n - 1) /\ (i - 1) + 1 = i
          BY <3>3
      <3> QED BY <3>2, <3>4, <1>2
    <2>8. LinesAt(t, n - 1, c, lo + 1, hi)
        BY <2>6, <2>7, <1>5 DEF LinesAt
    <2>9. Lines(t, c, lo + 1, hi)
        BY <2>8, <1>2, LinesAre
    <2> QED BY <2>1, <2>5, <2>9
  <1> QED BY <1>2, <1>6, <1>7 DEF t

\* Lines of others in front make no difference.
LEMMA LinesBehind ==
    ASSUME NEW a \in Seq(Line), NEW b \in Seq(Line), NEW c, NEW lo \in Nat, NEW hi \in Nat,
           \A i \in DOMAIN a : a[i][1] # c,
           Lines(b, c, lo, hi)
    PROVE  Lines(a \o b, c, lo, hi)
  <1> DEFINE q == a \o b
  <1>1. PICK n \in Nat, m \in Nat : n = Len(a) /\ m = Len(b)
      OBVIOUS
  <1>2. /\ DOMAIN a = 1 .. n /\ DOMAIN b = 1 .. m /\ DOMAIN q = 1 .. (n + m)
        /\ \A i \in 1 .. n : q[i] = a[i]
        /\ \A i \in 1 .. m : q[n + i] = b[i]
    <2>1. /\ q \in Seq(Line) /\ Len(q) = n + m
          /\ \A i \in 1 .. (n + m) : q[i] = IF i <= n THEN a[i] ELSE b[i - n]
        BY <1>1, ConcatProperties
    <2> HIDE DEF q
    <2>2. \A i \in 1 .. m : n + i \in 1 .. (n + m) /\ ~ (n + i <= n) /\ (n + i) - n = i
        OBVIOUS
    <2>3. \A i \in 1 .. n : i \in 1 .. (n + m) /\ i <= n
        OBVIOUS
    <2>4. \A i \in 1 .. n : q[i] = a[i]
        BY <2>1, <2>3
    <2>5. \A i \in 1 .. m : q[n + i] = b[i]
        BY <2>1, <2>2
    <2>6. DOMAIN q = 1 .. (n + m)
        BY <2>1
    <2> QED BY <1>1, <2>4, <2>5, <2>6
  <1> HIDE DEF q
  <1>3. /\ \A i \in 1 .. m : b[i][1] = c => b[i][2] \in lo + 1 .. hi
        /\ \A k \in lo + 1 .. hi : \E i \in 1 .. m : b[i][1] = c /\ b[i][2] = k
        /\ \A i, j \in 1 .. m : b[i][1] = c /\ b[j][1] = c /\ i < j => b[i][2] < b[j][2]
    <2>1. LinesAt(b, m, c, lo, hi)
        BY <1>2, LinesAre
    <2> QED BY <2>1 DEF LinesAt
  <1>4. \A i \in 1 .. (n + m) : q[i][1] = c => i - n \in 1 .. m /\ q[i] = b[i - n]
    <2> SUFFICES ASSUME NEW i \in 1 .. (n + m), q[i][1] = c
                 PROVE  i - n \in 1 .. m /\ q[i] = b[i - n]
        BY <1>2
    <2>1. i \notin 1 .. n
        BY <1>2
    <2>2. i - n \in 1 .. m /\ n + (i - n) = i
        BY <2>1
    <2> QED BY <2>2, <1>2
  <1>5. ASSUME NEW i \in 1 .. (n + m), q[i][1] = c PROVE q[i][2] \in lo + 1 .. hi
    <2>1. i - n \in 1 .. m /\ q[i] = b[i - n]
        BY <1>4, <1>5
    <2> QED BY <2>1, <1>3, <1>5
  <1>6. ASSUME NEW k \in lo + 1 .. hi PROVE \E i \in 1 .. (n + m) : q[i][1] = c /\ q[i][2] = k
    <2>1. PICK i \in 1 .. m : b[i][1] = c /\ b[i][2] = k
        BY <1>3
    <2>2. n + i \in 1 .. (n + m)
        BY <1>2
    <2> QED BY <2>1, <2>2, <1>2
  <1>7. ASSUME NEW i \in 1 .. (n + m), NEW j \in 1 .. (n + m), q[i][1] = c, q[j][1] = c, i < j
        PROVE  q[i][2] < q[j][2]
    <2>1. i - n \in 1 .. m /\ q[i] = b[i - n] /\ j - n \in 1 .. m /\ q[j] = b[j - n]
        BY <1>4, <1>7
    <2>2. i - n < j - n
        BY <1>7
    <2>3. b[i - n][1] = c /\ b[j - n][1] = c
        BY <2>1, <1>7
    <2>4. b[i - n][2] < b[j - n][2]
        BY <2>1, <2>2, <2>3, <1>3
    <2> QED BY <2>1, <2>4
  <1>8. LinesAt(q, n + m, c, lo, hi)
      BY <1>5, <1>6, <1>7 DEF LinesAt
  <1>9. Lines(q, c, lo, hi)
      BY <1>2, <1>8, LinesAre
  <1> QED BY <1>9 DEF q


\* None waits.
LEMMA LinesNone ==
    ASSUME NEW q \in Seq(Line), NEW c, NEW n \in Nat, \A i \in DOMAIN q : q[i][1] # c
    PROVE  Lines(q, c, n, n)
  <1>1. PICK m \in Nat : DOMAIN q = 1 .. m
      BY LenProperties
  <1>2. LinesAt(q, m, c, n, n)
    <2>1. n + 1 .. n = {}
        OBVIOUS
    <2> QED BY <1>1, <2>1 DEF LinesAt
  <1> QED BY <1>1, <1>2, LinesAre

\* A line that is not the only one waiting.
LEMMA LinesTwo ==
    ASSUME NEW q \in Seq(Line), NEW c, NEW lo \in Nat, NEW hi \in Nat, Lines(q, c, lo, hi)
    PROVE  /\ \A i \in DOMAIN q : q[i][1] = c => q[i][2] >= 1 /\ q[i][2] <= hi
           /\ \A i, j \in DOMAIN q : q[i][1] = c /\ q[j][1] = c /\ i < j => lo + 2 <= hi
  <1>1. PICK m \in Nat : DOMAIN q = 1 .. m
      BY LenProperties
  <1>2. LinesAt(q, m, c, lo, hi)
      BY <1>1, LinesAre
  <1>3. \A i \in 1 .. m : q[i][1] = c => q[i][2] \in lo + 1 .. hi
      BY <1>2 DEF LinesAt
  <1>4. \A i, j \in 1 .. m :
           q[i][1] = c /\ q[j][1] = c /\ i < j => q[i][2] < q[j][2]
      BY <1>2 DEF LinesAt
  <1>5. ASSUME NEW i \in 1 .. m, NEW j \in 1 .. m, q[i][1] = c, q[j][1] = c, i < j
        PROVE  lo + 2 <= hi
    <2>1. q[i][2] \in lo + 1 .. hi /\ q[j][2] \in lo + 1 .. hi /\ q[i][2] < q[j][2]
        BY <1>3, <1>4, <1>5
    <2> QED BY <2>1
  <1>6. \A i \in 1 .. m : q[i][1] = c => q[i][2] >= 1 /\ q[i][2] <= hi
      BY <1>3
  <1> QED BY <1>1, <1>5, <1>6

\* The socket is read after the buffer.
LEMMA BufferFirst ==
    ASSUME NEW b \in Seq(Line), NEW s \in Seq(Line)
    PROVE  /\ \A e \in Line : b \o Append(s, e) = Append(b \o s, e)
           /\ b # <<>> => /\ b \o s # <<>> /\ Head(b \o s) = Head(b)
                          /\ Tail(b \o s) = Tail(b) \o s
  <1>1. ASSUME NEW e \in Line PROVE b \o Append(s, e) = Append(b \o s, e)
    <2>1. Append(s, e) = s \o <<e>> /\ <<e>> \in Seq(Line) /\ b \o s \in Seq(Line)
        BY AppendIsConcat, ConcatProperties
    <2>2. Append(b \o s, e) = (b \o s) \o <<e>>
        BY <2>1, AppendIsConcat
    <2> QED BY <2>1, <2>2, ConcatAssociative
  <1>2. ASSUME b # <<>>
        PROVE  b \o s # <<>> /\ Head(b \o s) = Head(b) /\ Tail(b \o s) = Tail(b) \o s
    <2>1. /\ Head(b) \in Line /\ Tail(b) \in Seq(Line)
          /\ <<Head(b)>> \in Seq(Line)
        BY <1>2, HeadTailProperties
    <2>2. b = <<Head(b)>> \o Tail(b)
        BY <1>2
    <2>3. b \o s = <<Head(b)>> \o (Tail(b) \o s)
        BY <2>1, <2>2, ConcatAssociative
    <2>4. Tail(b) \o s \in Seq(Line)
        BY <2>1, ConcatProperties
    <2> DEFINE t == Tail(b) \o s
               h == Head(b)
    <2>5. h \in Line /\ t \in Seq(Line) /\ b \o s = <<h>> \o t
        BY <2>1, <2>3, <2>4
    <2> HIDE DEF h, t
    <2>6. <<h>> \o t # <<>> /\ Head(<<h>> \o t) = h /\ Tail(<<h>> \o t) = t
        BY <2>5
    <2> QED BY <2>5, <2>6 DEF h, t
  <1> QED BY <1>1, <1>2

-----------------------------------------------------------------------------
(* The inductive invariant. *)

\* Every variable of the input has its type, and no more is run than was typed.
InputTypeOK ==
    /\ socket \in [Fds -> Seq(Line)] /\ buffer \in Seq(Line)
    /\ typed \in [Sessions -> Nat] /\ done \in [Sessions -> Nat]
    /\ \A c \in Sessions : done[c] <= typed[c]

\* On the way to a socket is what the client on it typed.
SocketOwn == \A f \in Fds : \A i \in DOMAIN socket[f] : socket[f][i][1] = client[f]

\* The buffer holds lines that were typed, by clients who had typed ahead.
BufferOK ==
    \A i \in DOMAIN buffer : /\ buffer[i][2] >= 1 /\ buffer[i][2] <= typed[buffer[i][1]]
                             /\ buffer[i][1] \in ahead

\* Who has not connected yet has typed nothing.
NotYet == \A c \in Sessions : c > sessions => typed[c] = 0 /\ done[c] = 0

\* Who has never typed ahead has at most one line waiting.
OneAtATime == \A c \in Sessions : c \notin ahead => typed[c] <= done[c] + 1

\* The end-of-file state is set by somebody who has hung up, or by the terminal.
EofByHangup == eof => hung # {} \/ detached

\* The parts of Attribution: the line taken last, and the lines that wait.
LastOK ==
    /\ last[1] \notin {0, last[2]} => last[1] \in ahead
    /\ last[1] = 0 /\ last[2] # 0 => hung # {} \/ detached

LinesOK ==
    \A f \in Fds : client[f] # NoSession =>
        Lines(buffer \o socket[f], client[f], done[client[f]], typed[client[f]])

InputInv == /\ InputTypeOK /\ SocketOwn /\ BufferOK /\ NotYet /\ OneAtATime
            /\ EofByHangup /\ LastOK /\ LinesOK

LEMMA AttributionParts == Attribution <=> LastOK /\ LinesOK
  BY DEF Attribution, LastOK, LinesOK

\* A connection is one that was accepted, and is open on one descriptor.
LEMMA ClientFacts ==
    ASSUME IInv, NEW f \in Fds, client[f] # NoSession
    PROVE  /\ client[f] \in Sessions /\ client[f] <= sessions
           /\ \A g \in Fds : client[g] = client[f] => g = f
  <1>1. client \in [Fds -> 0 .. MaxSessions] /\ MaxSessions \in Nat
      BY RwgUsersAssumption DEF IInv, TypeOK
  <1>2. client[f] \in 0 .. MaxSessions /\ client[f] # 0
      BY <1>1 DEF NoSession
  <1>3. client[f] \in Sessions
      BY <1>1, <1>2 DEF Sessions
  <1>4. client[f] <= sessions /\ \A g \in Fds : client[g] = client[f] => g = f
      BY DEF IInv, ClientsOK
  <1> QED BY <1>3, <1>4

\* Nothing is on the way where there is no client.
LEMMA NothingOnTheWay ==
    ASSUME InputInv, NEW f \in Fds, client[f] = NoSession
    PROVE  socket[f] = <<>>
  <1>1. socket[f] \in Seq(Line) /\ 0 \notin Sessions
      BY DEF InputInv, InputTypeOK, Sessions
  <1>2. SUFFICES ASSUME socket[f] # <<>> PROVE FALSE
      OBVIOUS
  <1>3. 1 \in DOMAIN socket[f] /\ socket[f][1] \in Line
      BY <1>1, <1>2
  <1>4. socket[f][1][1] = NoSession
      BY <1>3 DEF InputInv, SocketOwn
  <1> QED BY <1>1, <1>3, <1>4 DEF Line, NoSession

LEMMA InputInitInv == InputInit => InputInv
  <1> SUFFICES ASSUME InputInit PROVE InputInv
      OBVIOUS
  <1> USE DEF InputInit
  <1>1. <<>> \in Seq(Line) /\ DOMAIN <<>> = {}
      OBVIOUS
  <1>2. InputTypeOK
      BY <1>1 DEF InputTypeOK
  <1>3. SocketOwn /\ BufferOK
      BY <1>1 DEF SocketOwn, BufferOK
  <1>4. NotYet /\ OneAtATime /\ EofByHangup /\ LastOK
      BY DEF NotYet, OneAtATime, EofByHangup, LastOK
  <1>5. LinesOK
      BY DEF LinesOK, Init, NoSession
  <1> QED BY <1>2, <1>3, <1>4, <1>5 DEF InputInv

\* Steps that leave the lines alone and let nobody in.
LEMMA LinesKept ==
    ASSUME InputInv, UNCHANGED <<buffer, done, typed, ahead, sessions>>,
           NEW gone \in SUBSET Fds,
           client' = [f \in Fds |-> IF f \in gone THEN NoSession ELSE client[f]],
           socket' = [f \in Fds |-> IF f \in gone THEN <<>> ELSE socket[f]],
           EofByHangup', LastOK'
    PROVE  InputInv'
  <1> USE DEF InputInv
  <1>1. InputTypeOK'
    <2>1. socket' \in [Fds -> Seq(Line)]
        BY DEF InputTypeOK
    <2> QED BY <2>1 DEF InputTypeOK
  <1>2. SocketOwn'
    <2> SUFFICES ASSUME NEW f \in Fds, NEW i \in DOMAIN socket'[f]
                 PROVE  socket'[f][i][1] = client'[f]
        BY DEF SocketOwn
    <2>1. f \notin gone
        OBVIOUS
    <2> QED BY <2>1 DEF SocketOwn
  <1>3. BufferOK' /\ OneAtATime'
      BY DEF BufferOK, OneAtATime
  <1>4. NotYet'
      BY DEF NotYet
  <1>5. LinesOK'
      BY DEF LinesOK
  <1> QED BY <1>1, <1>2, <1>3, <1>4, <1>5

\* rwg_loop: the newcomer has typed nothing, and none of its lines is about.
LEMMA LoginInput ==
    ASSUME IInv, InputInv, Login, UNCHANGED inputs
    PROVE  InputInv'
  <1> USE DEF InputInv, inputs, terminals
  <1> DEFINE c == sessions + 1
  <1>1. PICK f \in Fds : /\ client[f] = NoSession
                         /\ client' = [client EXCEPT ![f] = c]
      BY DEF Login, FreeRank, Free
  <1>2. c \in Sessions /\ c > sessions /\ sessions' = c /\ sessions \in Nat
    <2>1. sessions \in 0 .. MaxSessions /\ MaxSessions \in Nat /\ sessions < MaxSessions
        BY RwgUsersAssumption DEF IInv, TypeOK, Login
    <2> QED BY <2>1 DEF Sessions, Login
  <1> HIDE DEF c
  <1>3. /\ client'[f] = c
        /\ \A g \in Fds : g # f => client'[g] = client[g]
      BY <1>1 DEF IInv, TypeOK
  <1>4. socket[f] = <<>>
      BY <1>1, NothingOnTheWay
  <1>5. InputTypeOK' /\ BufferOK' /\ OneAtATime' /\ EofByHangup' /\ LastOK'
      BY DEF InputTypeOK, BufferOK, OneAtATime, EofByHangup, LastOK
  <1>6. SocketOwn'
    <2> SUFFICES ASSUME NEW g \in Fds, NEW i \in DOMAIN socket[g]
                 PROVE  socket[g][i][1] = client'[g]
        BY DEF SocketOwn
    <2>1. g # f
        BY <1>4
    <2> QED BY <1>3, <2>1 DEF SocketOwn
  <1>7. NotYet'
    <2> SUFFICES ASSUME NEW d \in Sessions, d > sessions' PROVE typed[d] = 0 /\ done[d] = 0
        BY DEF NotYet
    <2>1. d > sessions
        BY <1>2 DEF Sessions
    <2> QED BY <2>1 DEF NotYet
  <1>8. LinesOK'
    <2> SUFFICES ASSUME NEW g \in Fds, client'[g] # NoSession
                 PROVE  Lines(buffer \o socket[g], client'[g], done[client'[g]], typed[client'[g]])
        BY DEF LinesOK
    <2>1. CASE g = f
      <3>1. typed[c] = 0 /\ done[c] = 0
          BY <1>2 DEF NotYet
      <3>2. buffer \in Seq(Line) /\ buffer \o socket[f] = buffer
          BY <1>4, ConcatEmptySeq DEF InputTypeOK
      <3>3. ASSUME NEW i \in DOMAIN buffer, buffer[i][1] = c PROVE FALSE
        <4>1. buffer[i][2] >= 1 /\ buffer[i][2] <= 0
            BY <3>1, <3>3 DEF BufferOK
        <4>2. buffer[i] \in Line /\ buffer[i][2] \in Nat
            BY <3>2 DEF Line
        <4> QED BY <4>1, <4>2
      <3>4. Lines(buffer, c, 0, 0)
          BY <3>2, <3>3, LinesNone
      <3> QED BY <2>1, <3>1, <3>2, <3>4, <1>3
    <2>2. CASE g # f
        BY <1>3, <2>2 DEF LinesOK
    <2> QED BY <2>1, <2>2
  <1> QED BY <1>5, <1>6, <1>7, <1>8

\* A client types one line more.
LEMMA TypeInput ==
    ASSUME IInv, InputInv, NEW f \in Fds, Type(f)
    PROVE  InputInv'
  <1> USE DEF InputInv
  <1> DEFINE c == client[f]
             l == <<c, typed[c] + 1>>
  <1>1. /\ c # NoSession
        /\ typed' = [typed EXCEPT ![c] = @ + 1]
        /\ socket' = [socket EXCEPT ![f] = Append(socket[f], l)]
        /\ ahead' = IF done[c] < typed[c] THEN ahead \cup {c} ELSE ahead
        /\ UNCHANGED <<vars, buffer, eof, hung, detached, done, last>>
      BY DEF Type, terminals
  <1>2. c \in Sessions /\ c <= sessions /\ \A g \in Fds : client[g] = c => g = f
      BY <1>1, ClientFacts
  <1>3. /\ socket \in [Fds -> Seq(Line)] /\ typed \in [Sessions -> Nat]
        /\ done \in [Sessions -> Nat] /\ buffer \in Seq(Line)
        /\ typed[c] \in Nat /\ done[c] \in Nat /\ done[c] <= typed[c]
      BY <1>2 DEF InputTypeOK
  <1>4. l \in Line /\ l[1] = c
      BY <1>2, <1>3 DEF Line
  <1>5. /\ typed'[c] = typed[c] + 1
        /\ \A d \in Sessions : d # c => typed'[d] = typed[d]
        /\ socket'[f] = Append(socket[f], l)
        /\ \A g \in Fds : g # f => socket'[g] = socket[g]
        /\ ahead \subseteq ahead'
      BY <1>1, <1>2, <1>3
  <1>6. client' = client /\ sessions' = sessions
      BY <1>1 DEF vars
  <1> HIDE DEF c, l
  <1>7. socket[f] \in Seq(Line) /\ Append(socket[f], l) \in Seq(Line)
      BY <1>3, <1>4, AppendProperties
  <1>8. InputTypeOK'
    <2>1. socket' \in [Fds -> Seq(Line)]
        BY <1>1, <1>3, <1>7
    <2>2. typed' \in [Sessions -> Nat]
        BY <1>1, <1>2, <1>3
    <2>3. ASSUME NEW d \in Sessions PROVE done[d] <= typed'[d]
      <3>1. CASE d = c
          BY <3>1, <1>3, <1>5
      <3>2. CASE d # c
          BY <3>2, <1>5 DEF InputTypeOK
      <3> QED BY <3>1, <3>2
    <2> QED BY <1>1, <1>3, <2>1, <2>2, <2>3 DEF InputTypeOK
  <1>9. SocketOwn'
    <2> SUFFICES ASSUME NEW g \in Fds, NEW i \in DOMAIN socket'[g]
                 PROVE  socket'[g][i][1] = client[g]
        BY <1>6 DEF SocketOwn
    <2>1. CASE g = f
      <3>1. PICK n \in Nat : n = Len(socket[f])
          BY <1>7
      <3>2. /\ DOMAIN socket'[f] = 1 .. (n + 1) /\ DOMAIN socket[f] = 1 .. n
            /\ socket'[f][n + 1] = l
            /\ \A j \in 1 .. n : socket'[f][j] = socket[f][j]
          BY <1>4, <1>5, <1>7, <3>1, AppendProperties, LenProperties
      <3>3. CASE i = n + 1
          BY <2>1, <3>2, <3>3, <1>4 DEF c
      <3>4. CASE i \in 1 .. n
          BY <2>1, <3>2, <3>4 DEF SocketOwn
      <3>5. i = n + 1 \/ i \in 1 .. n
          BY <2>1, <3>2
      <3> QED BY <3>3, <3>4, <3>5
    <2>2. CASE g # f
        BY <1>5, <2>2 DEF SocketOwn
    <2> QED BY <2>1, <2>2
  <1>10. BufferOK'
    <2> SUFFICES ASSUME NEW i \in DOMAIN buffer
                 PROVE  /\ buffer[i][2] >= 1 /\ buffer[i][2] <= typed'[buffer[i][1]]
                        /\ buffer[i][1] \in ahead'
        BY <1>1 DEF BufferOK
    <2>1. buffer[i][1] \in Sessions /\ buffer[i][2] \in Nat
      <3>1. buffer[i] \in Line
          BY <1>3
      <3> QED BY <3>1 DEF Line
    <2>2. typed'[buffer[i][1]] >= typed[buffer[i][1]] /\ typed[buffer[i][1]] \in Nat
      <3> DEFINE d == buffer[i][1]
      <3> HIDE DEF d
      <3>1. d \in Sessions /\ typed[d] \in Nat
          BY <1>3, <2>1 DEF d
      <3>2. ASSUME d = c PROVE typed'[d] >= typed[d]
          BY <1>3, <1>5, <3>2, <3>1
      <3>3. ASSUME d # c PROVE typed'[d] >= typed[d]
          BY <1>5, <3>3, <3>1
      <3> QED BY <3>1, <3>2, <3>3 DEF d
    <2>3. typed'[buffer[i][1]] \in Nat
        BY <1>8, <2>1 DEF InputTypeOK
    <2> QED BY <1>5, <2>1, <2>2, <2>3 DEF BufferOK
  <1>11. NotYet'
    <2> SUFFICES ASSUME NEW d \in Sessions, d > sessions PROVE typed'[d] = 0 /\ done[d] = 0
        BY <1>1, <1>6 DEF NotYet
    <2>1. sessions \in Nat /\ d \in Nat /\ c \in Nat
        BY <1>2 DEF IInv, TypeOK, Sessions
    <2>2. d # c
        BY <1>2, <2>1
    <2> QED BY <1>5, <2>2 DEF NotYet
  <1>12. OneAtATime'
    <2> SUFFICES ASSUME NEW d \in Sessions, d \notin ahead' PROVE typed'[d] <= done[d] + 1
        BY <1>1 DEF OneAtATime
    <2>1. CASE d = c
      <3>1. ~ (done[c] < typed[c])
          BY <1>1, <2>1
      <3>2. done[c] = typed[c]
          BY <1>3, <3>1
      <3> QED BY <1>3, <1>5, <2>1, <3>2
    <2>2. CASE d # c
        BY <1>5, <2>2 DEF OneAtATime
    <2> QED BY <2>1, <2>2
  <1>13. EofByHangup' /\ LastOK'
      BY <1>1, <1>5 DEF EofByHangup, LastOK
  <1>14. LinesOK'
    <2> SUFFICES ASSUME NEW g \in Fds, client[g] # NoSession
                 PROVE  Lines(buffer \o socket'[g], client[g], done[client[g]], typed'[client[g]])
        BY <1>1, <1>6 DEF LinesOK
    <2>1. CASE g = f
      <3> DEFINE q == buffer \o socket[f]
      <3>1. q \in Seq(Line) /\ Lines(q, c, done[c], typed[c])
        <4>1. q \in Seq(Line)
            BY <1>3, <1>7, ConcatProperties
        <4>2. Lines(q, c, done[c], typed[c])
            BY <1>1 DEF LinesOK, c
        <4> QED BY <4>1, <4>2
      <3>2. buffer \o socket'[f] = Append(q, l)
        <4>1. \A e \in Line : buffer \o Append(socket[f], e) = Append(q, e)
            BY <1>3, <1>7, BufferFirst
        <4> QED BY <1>4, <1>5, <4>1
      <3> HIDE DEF q
      <3>3. Lines(Append(q, l), c, done[c], typed[c] + 1)
          BY <1>2, <1>3, <3>1, LinesAppend DEF l
      <3> QED BY <2>1, <3>2, <3>3, <1>5 DEF c
    <2>2. CASE g # f
      <3>1. client[g] # c /\ client[g] \in Sessions
          BY <1>2, <2>2, ClientFacts
      <3> QED BY <1>5, <2>2, <3>1 DEF LinesOK
    <2> QED BY <2>1, <2>2
  <1> QED BY <1>8, <1>9, <1>10, <1>11, <1>12, <1>13, <1>14

\* NPloop and NPexit let nobody in, and at most the caller out.
LEMMA RunClients ==
    ASSUME IInv, NEW f \in Fds, Run(f)
    PROVE  /\ sessions' = sessions
           /\ \/ client' = client
              \/ client' = [client EXCEPT ![f] = NoSession]
  BY DEF Run, NPexit, EraseUser, NPname, NPsetenv, vars

\* Reading has failed: the caller is logged out, and somebody had hung up.
LEMMA ServeEndInput ==
    ASSUME IInv, InputInv, NEW f \in Fds, ServeEnd(f)
    PROVE  InputInv'
  <1>1. /\ UNCHANGED <<buffer, done, typed, ahead, hung, detached, sessions>>
        /\ client' = [client EXCEPT ![f] = NoSession] /\ socket' = [socket EXCEPT ![f] = <<>>]
        /\ last' = <<0, client[f]>>
      BY DEF ServeEnd, NPexit, EraseUser, terminals
  <1>2. hung # {} \/ detached
    <2>1. CASE eof
        BY <2>1 DEF InputInv, EofByHangup
    <2>2. CASE ~ eof
        BY <2>2 DEF ServeEnd, Readable
    <2> QED BY <2>1, <2>2
  <1>3. EofByHangup' /\ LastOK'
      BY <1>1, <1>2 DEF EofByHangup, LastOK
  <1>4. client \in [Fds -> 0 .. MaxSessions] /\ socket \in [Fds -> Seq(Line)]
      BY DEF IInv, TypeOK, InputInv, InputTypeOK
  <1>5. /\ client' = [g \in Fds |-> IF g \in {f} THEN NoSession ELSE client[g]]
        /\ socket' = [g \in Fds |-> IF g \in {f} THEN <<>> ELSE socket[g]]
      BY <1>1, <1>4
  <1>6. {f} \in SUBSET Fds
      OBVIOUS
  <1> QED BY <1>1, <1>3, <1>5, <1>6, LinesKept

\* What taking a line, for w, changes, wherever it comes from.
LEMMA LineTaken ==
    ASSUME IInv, InputInv, NEW l \in Line, NEW w, done' = [done EXCEPT ![l[1]] = l[2]],
           last' = <<l[1], w>>, UNCHANGED <<eof, hung, detached, typed, ahead, sessions>>,
           l[2] <= typed[l[1]], l[1] \in ahead \/ l[2] = done[l[1]] + 1,
           l[1] \in ahead \/ l[1] = w, l[1] <= sessions,
           socket' \in [Fds -> Seq(Line)],
           \A g \in Fds : \/ socket'[g] = <<>>
                          \/ socket'[g] = socket[g] /\ client'[g] = client[g],
           buffer' \in Seq(Line), BufferOK', LinesOK'
    PROVE  InputInv'
  <1> USE DEF InputInv
  <1>2. l[1] \in Sessions /\ l[2] \in Nat
      BY DEF Line
  <1>3. done'[l[1]] = l[2] /\ \A c \in Sessions : c # l[1] => done'[c] = done[c]
      BY <1>2 DEF InputTypeOK
  <1>5. InputTypeOK'
    <2>1. done' \in [Sessions -> Nat]
        BY <1>2 DEF InputTypeOK
    <2>2. \A c \in Sessions : done'[c] <= typed[c]
        BY <1>3 DEF InputTypeOK
    <2> QED BY <2>1, <2>2 DEF InputTypeOK
  <1>6. SocketOwn'
    <2> SUFFICES ASSUME NEW g \in Fds, NEW i \in DOMAIN socket'[g]
                 PROVE  socket'[g][i][1] = client'[g]
        BY DEF SocketOwn
    <2>1. socket'[g] # <<>>
        OBVIOUS
    <2> QED BY <2>1 DEF SocketOwn
  <1>7. NotYet'
    <2>1. sessions \in Nat /\ l[1] \in Nat
        BY <1>2 DEF IInv, TypeOK, Sessions
    <2>2. \A c \in Sessions : c > sessions => c # l[1]
        BY <2>1 DEF Sessions
    <2> QED BY <1>3, <2>2 DEF NotYet
  <1>8. OneAtATime'
    <2> SUFFICES ASSUME NEW c \in Sessions, c \notin ahead PROVE typed[c] <= done'[c] + 1
        BY DEF OneAtATime
    <2>1. CASE c = l[1]
      <3>1. typed[c] <= done[c] + 1 /\ done'[c] = done[c] + 1 /\ typed[c] \in Nat /\ done[c] \in Nat
          BY <1>3, <2>1 DEF OneAtATime, InputTypeOK
      <3> QED BY <3>1
    <2>2. CASE c # l[1]
        BY <1>3, <2>2 DEF OneAtATime
    <2> QED BY <2>1, <2>2
  <1>9. EofByHangup' /\ LastOK'
    <2>1. l[1] # 0
        BY <1>2 DEF Sessions
    <2> QED BY <2>1 DEF EofByHangup, LastOK
  <1> QED BY <1>5, <1>6, <1>7, <1>8, <1>9

\* NPloop with a line: what it does to sockets and connections.
LEMMA ServeLineSockets ==
    ASSUME IInv, InputInv, NEW f \in Fds, ServeLine(f)
    PROVE  /\ sessions' = sessions /\ socket' \in [Fds -> Seq(Line)]
           /\ UNCHANGED <<eof, hung, detached, typed, ahead>>
           /\ \A g \in Fds : \/ socket'[g] = <<>>
                             \/ socket'[g] = socket[g] /\ client'[g] = client[g]
  <1>1. /\ client \in [Fds -> 0 .. MaxSessions] /\ socket \in [Fds -> Seq(Line)]
        /\ sessions' = sessions
        /\ client' = client \/ client' = [client EXCEPT ![f] = NoSession]
        /\ socket' = [socket EXCEPT ![f] =
                         IF buffer = <<>> \/ client'[f] = NoSession THEN <<>> ELSE socket[f]]
      BY RunClients DEF ServeLine, IInv, TypeOK, InputInv, InputTypeOK
  <1>2. \A g \in Fds : g # f => socket'[g] = socket[g] /\ client'[g] = client[g]
      BY <1>1
  <1>3. socket'[f] = <<>> \/ (socket'[f] = socket[f] /\ client'[f] = client[f])
      BY <1>1
  <1>4. socket' \in [Fds -> Seq(Line)]
      BY <1>1
  <1>5. UNCHANGED <<eof, hung, detached, typed, ahead>>
      BY DEF ServeLine, terminals
  <1> QED BY <1>1, <1>2, <1>3, <1>4, <1>5

\* A line that was left in the buffer, by whoever typed ahead, is taken for w.
LEMMA BufferTaken ==
    ASSUME IInv, InputInv, buffer # <<>>, NEW w, buffer' = Tail(buffer),
           done' = [done EXCEPT ![Head(buffer)[1]] = Head(buffer)[2]],
           last' = <<Head(buffer)[1], w>>,
           UNCHANGED <<eof, hung, detached, typed, ahead, sessions>>,
           socket' \in [Fds -> Seq(Line)],
           \A g \in Fds : \/ socket'[g] = <<>>
                          \/ socket'[g] = socket[g] /\ client'[g] = client[g],
           \A g \in Fds : client'[g] # NoSession =>
                              client'[g] = client[g] /\ socket'[g] = socket[g]
    PROVE  InputInv'
  <1> DEFINE l == Head(buffer)
  <1>1. /\ buffer \in Seq(Line) /\ l \in Line /\ l = buffer[1] /\ 1 \in DOMAIN buffer
        /\ Tail(buffer) \in Seq(Line)
    <2>1. buffer \in Seq(Line)
        BY DEF InputInv, InputTypeOK
    <2> QED BY <2>1, HeadTailProperties
  <1>2. done' = [done EXCEPT ![l[1]] = l[2]] /\ last' = <<l[1], w>>
      OBVIOUS
  <1> HIDE DEF l
  <1>4. /\ l[1] \in Sessions /\ l[2] \in Nat /\ l[2] >= 1
        /\ l[2] <= typed[l[1]] /\ l[1] \in ahead
      BY <1>1 DEF Line, InputInv, BufferOK
  <1>5. l[1] <= sessions
    <2>1. l[1] > sessions => typed[l[1]] = 0
        BY <1>4 DEF InputInv, NotYet
    <2>2. l[1] \in Nat /\ sessions \in Nat
        BY <1>4 DEF IInv, TypeOK, Sessions
    <2> QED BY <1>4, <2>1, <2>2
  <1>6. BufferOK'
    <2> SUFFICES ASSUME NEW i \in DOMAIN Tail(buffer)
                 PROVE  /\ Tail(buffer)[i][2] >= 1
                        /\ Tail(buffer)[i][2] <= typed[Tail(buffer)[i][1]]
                        /\ Tail(buffer)[i][1] \in ahead
        BY DEF BufferOK
    <2>1. i + 1 \in DOMAIN buffer /\ Tail(buffer)[i] = buffer[i + 1]
        BY <1>1
    <2> QED BY <2>1 DEF InputInv, BufferOK
  <1>7. LinesOK'
    <2> SUFFICES ASSUME NEW g \in Fds, client'[g] # NoSession
                 PROVE  Lines(Tail(buffer) \o socket'[g], client'[g], done'[client'[g]],
                              typed[client'[g]])
        BY DEF LinesOK
    <2>1. client'[g] = client[g] /\ socket'[g] = socket[g]
        OBVIOUS
    <2> DEFINE c == client[g]
               q == buffer \o socket[g]
    <2>2. /\ c \in Sessions /\ socket[g] \in Seq(Line) /\ q \in Seq(Line)
          /\ done \in [Sessions -> Nat] /\ done[c] \in Nat /\ typed[c] \in Nat
          /\ Lines(q, c, done[c], typed[c])
      <3>1. c \in Sessions
          BY <2>1, ClientFacts
      <3>2. socket[g] \in Seq(Line) /\ done \in [Sessions -> Nat] /\ typed \in [Sessions -> Nat]
          BY DEF InputInv, InputTypeOK
      <3>3. q \in Seq(Line)
          BY <1>1, <3>2, ConcatProperties
      <3> QED BY <2>1, <3>1, <3>2, <3>3 DEF InputInv, LinesOK
    <2>3. q # <<>> /\ Head(q) = l /\ Tail(q) = Tail(buffer) \o socket[g]
        BY <1>1, <2>2, BufferFirst DEF l
    <2> HIDE DEF c, q
    <2>4. CASE l[1] = c
      <3>1. l[2] = done[c] + 1 /\ Lines(Tail(q), c, done[c] + 1, typed[c])
          BY <2>2, <2>3, <2>4, LinesTail
      <3>2. done'[c] = l[2]
          BY <1>2, <2>2, <2>4
      <3> QED BY <2>1, <2>3, <3>1, <3>2 DEF c
    <2>5. CASE l[1] # c
      <3>1. Lines(Tail(q), c, done[c], typed[c])
          BY <2>2, <2>3, <2>5, LinesTail
      <3>2. done'[c] = done[c]
          BY <1>2, <2>2, <2>5
      <3> QED BY <2>1, <2>3, <3>1, <3>2 DEF c
    <2> QED BY <2>4, <2>5
  <1>8. buffer' \in Seq(Line)
      BY <1>1
  <1> QED BY <1>1, <1>2, <1>4, <1>5, <1>6, <1>7, <1>8, LineTaken

\* The line NPloop takes was in the buffer.
LEMMA ServeBuffered ==
    ASSUME IInv, InputInv, NEW f \in Fds, ServeLine(f), buffer # <<>>
    PROVE  InputInv'
  <1>1. /\ buffer' = Tail(buffer) /\ done' = [done EXCEPT ![Head(buffer)[1]] = Head(buffer)[2]]
        /\ last' = <<Head(buffer)[1], client[f]>>
        /\ socket' = [socket EXCEPT ![f] = IF client'[f] = NoSession THEN <<>> ELSE socket[f]]
      BY DEF ServeLine, Kept, Incoming
  <1>2. ASSUME NEW g \in Fds, client'[g] # NoSession
        PROVE  client'[g] = client[g] /\ socket'[g] = socket[g]
    <2>1. client \in [Fds -> 0 .. MaxSessions] /\ socket \in [Fds -> Seq(Line)]
        BY DEF IInv, TypeOK, InputInv, InputTypeOK
    <2>2. client' = client \/ client' = [client EXCEPT ![f] = NoSession]
        BY RunClients DEF ServeLine
    <2>3. client'[g] = client[g]
        BY <1>2, <2>1, <2>2
    <2>4. socket'[g] = socket[g]
        BY <1>1, <1>2, <2>1
    <2> QED BY <2>3, <2>4
  <1> QED BY <1>1, <1>2, ServeLineSockets, BufferTaken

\* rwg_loop's own fgets: a line from the buffer, from the terminal, or nothing.
LEMMA ServeTerminalInput ==
    ASSUME IInv, InputInv, ServeTerminal
    PROVE  InputInv'
  <1>1. UNCHANGED <<client, sessions, socket, hung, detached, typed, ahead>>
      BY DEF ServeTerminal, vars
  <1>2. CASE buffer # <<>>
    <2>1. /\ buffer' = Tail(buffer) /\ done' = [done EXCEPT ![Head(buffer)[1]] = Head(buffer)[2]]
          /\ last' = <<Head(buffer)[1], 0>> /\ eof' = eof
        BY <1>2 DEF ServeTerminal
    <2>2. socket \in [Fds -> Seq(Line)]
        BY DEF InputInv, InputTypeOK
    <2> QED BY <1>1, <1>2, <2>1, <2>2, BufferTaken
  <1>3. CASE buffer = <<>>
    <2>1. /\ UNCHANGED <<buffer, done>>
          /\ \/ eof' = eof /\ last' = <<0, 0>>
             \/ last' = last /\ detached
        BY <1>3 DEF ServeTerminal
    <2>2. EofByHangup' /\ LastOK'
        BY <1>1, <2>1 DEF InputInv, EofByHangup, LastOK
    <2> QED BY <1>1, <2>1, <2>2 DEF InputInv, InputTypeOK, SocketOwn, BufferOK, NotYet,
                                    OneAtATime, LinesOK
  <1> QED BY <1>2, <1>3

\* The line is read from the caller's socket, and what came with it is buffered.
LEMMA ServeRead ==
    ASSUME IInv, InputInv, NEW f \in Fds, ServeLine(f), buffer = <<>>
    PROVE  InputInv'
  <1> DEFINE s == socket[f]
             l == Head(s)
             d == client[f]
  <1>1. Incoming(f) = s /\ s # <<>> /\ d # NoSession /\ l = Head(Incoming(f))
      BY DEF Incoming, ServeLine, Readable
  <1>2. /\ buffer' = Tail(s) /\ done' = [done EXCEPT ![l[1]] = l[2]]
        /\ socket' = [socket EXCEPT ![f] = <<>>] /\ UNCHANGED <<typed, ahead>>
        /\ last' = <<l[1], d>>
      BY <1>1 DEF ServeLine, Kept
  <1>3. /\ s \in Seq(Line) /\ l \in Line /\ l = s[1] /\ 1 \in DOMAIN s /\ Tail(s) \in Seq(Line)
        /\ \A i \in DOMAIN Tail(s) : i + 1 \in DOMAIN s /\ Tail(s)[i] = s[i + 1] /\ 1 < i + 1
    <2>1. s \in Seq(Line)
        BY DEF InputInv, InputTypeOK
    <2> QED BY <1>1, <2>1, HeadTailProperties
  <1>4. /\ socket \in [Fds -> Seq(Line)] /\ done \in [Sessions -> Nat] /\ typed \in [Sessions -> Nat]
        /\ client \in [Fds -> 0 .. MaxSessions]
        /\ d \in Sessions /\ d <= sessions /\ \A g \in Fds : client[g] = d => g = f
      BY <1>1, ClientFacts DEF IInv, TypeOK, InputInv, InputTypeOK
  <1>5. \A i \in DOMAIN s : s[i][1] = d
      BY DEF InputInv, SocketOwn
  <1>6. Lines(s, d, done[d], typed[d])
    <2>1. Lines(buffer \o s, d, done[d], typed[d])
        BY <1>1 DEF InputInv, LinesOK
    <2>2. buffer \o s = s
        BY <1>3, ConcatEmptySeq
    <2> QED BY <2>1, <2>2
  <1> HIDE DEF s, l, d
  <1>7. /\ l[1] = d /\ l[2] = done[d] + 1 /\ l[2] <= typed[d]
        /\ Lines(Tail(s), d, done[d] + 1, typed[d])
    <2>1. l[1] = d
        BY <1>3, <1>5
    <2> QED BY <1>1, <1>3, <1>4, <1>6, <2>1, LinesTail DEF l
  <1>8. /\ done'[d] = done[d] + 1 /\ \A c \in Sessions : c # d => done'[c] = done[c]
        /\ socket'[f] = <<>> /\ \A g \in Fds : g # f => socket'[g] = socket[g]
      BY <1>2, <1>4, <1>7
  <1>9. BufferOK'
    <2> SUFFICES ASSUME NEW i \in DOMAIN Tail(s)
                 PROVE  /\ Tail(s)[i][2] >= 1 /\ Tail(s)[i][2] <= typed[Tail(s)[i][1]]
                        /\ Tail(s)[i][1] \in ahead
        BY <1>2 DEF BufferOK
    <2>1. i + 1 \in DOMAIN s /\ Tail(s)[i] = s[i + 1] /\ 1 < i + 1 /\ 1 \in DOMAIN s
        BY <1>3
    <2>2. s[i + 1][1] = d /\ s[1][1] = d
        BY <1>5, <2>1
    <2>3. done[d] \in Nat /\ typed[d] \in Nat
        BY <1>4
    <2>4. s[i + 1][2] >= 1 /\ s[i + 1][2] <= typed[d] /\ done[d] + 2 <= typed[d]
        BY <1>3, <1>6, <2>1, <2>2, <2>3, LinesTwo
    <2>5. d \in ahead
        BY <1>4, <2>3, <2>4 DEF InputInv, OneAtATime
    <2> QED BY <2>1, <2>2, <2>4, <2>5
  <1>10. LinesOK'
    <2> SUFFICES ASSUME NEW g \in Fds, client'[g] # NoSession
                 PROVE  Lines(Tail(s) \o socket'[g], client'[g], done'[client'[g]],
                              typed[client'[g]])
        BY <1>2 DEF LinesOK
    <2>1. client'[g] = client[g]
      <3>1. client' = client \/ client' = [client EXCEPT ![f] = NoSession]
          BY RunClients DEF ServeLine
      <3> QED BY <1>4, <3>1
    <2>2. CASE g = f
      <3>1. Tail(s) \o socket'[g] = Tail(s)
          BY <1>3, <1>8, <2>2, ConcatEmptySeq
      <3> QED BY <1>7, <1>8, <2>1, <2>2, <3>1 DEF d
    <2>3. CASE g # f
      <3> DEFINE c == client[g]
      <3>1. c \in Sessions /\ c # d
          BY <1>4, <2>1, <2>3, ClientFacts
      <3>2. socket[g] \in Seq(Line) /\ done[c] \in Nat /\ typed[c] \in Nat
          BY <1>4, <3>1
      <3>3. Lines(socket[g], c, done[c], typed[c])
        <4>1. Lines(buffer \o socket[g], c, done[c], typed[c])
            BY <2>1 DEF InputInv, LinesOK
        <4>2. buffer \o socket[g] = socket[g]
            BY <3>2, ConcatEmptySeq
        <4> QED BY <4>1, <4>2
      <3>4. \A i \in DOMAIN Tail(s) : Tail(s)[i][1] # c
          BY <1>3, <1>5, <3>1
      <3>5. Lines(Tail(s) \o socket[g], c, done[c], typed[c])
          BY <1>3, <3>2, <3>3, <3>4, LinesBehind
      <3> QED BY <1>8, <2>1, <2>3, <3>1, <3>5
    <2> QED BY <2>2, <2>3
  <1>11. buffer' \in Seq(Line)
      BY <1>2, <1>3
  <1> QED BY <1>2, <1>3, <1>4, <1>7, <1>9, <1>10, <1>11, ServeLineSockets, LineTaken

\* The last lines are taken away: those before are still all there.
LEMMA LinesBefore ==
    ASSUME NEW b \in Seq(Line), NEW s \in Seq(Line), s # <<>>, NEW c,
           \A i \in DOMAIN s : s[i][1] = c,
           NEW lo \in Nat, NEW hi \in Nat, Lines(b \o s, c, lo, hi)
    PROVE  /\ Head(s)[2] - 1 \in Nat /\ lo <= Head(s)[2] - 1
           /\ Lines(b, c, lo, Head(s)[2] - 1)
  <1> DEFINE q == b \o s
             h == Head(s)[2]
  <1>1. PICK n \in Nat, m \in Nat : n = Len(b) /\ m = Len(s)
      OBVIOUS
  <1>2. /\ m >= 1 /\ DOMAIN b = 1 .. n /\ DOMAIN q = 1 .. (n + m)
        /\ \A i \in 1 .. n : q[i] = b[i]
        /\ \A i \in 1 .. m : q[n + i] = s[i] /\ q[n + i][1] = c
        /\ h = s[1][2]
    <2>1. /\ q \in Seq(Line) /\ Len(q) = n + m
          /\ \A i \in 1 .. (n + m) : q[i] = IF i <= n THEN b[i] ELSE s[i - n]
        BY <1>1, ConcatProperties
    <2> HIDE DEF q
    <2>2. \A i \in 1 .. m : n + i \in 1 .. (n + m) /\ ~ (n + i <= n) /\ (n + i) - n = i
        OBVIOUS
    <2>3. \A i \in 1 .. n : i \in 1 .. (n + m) /\ i <= n
        OBVIOUS
    <2>4. \A i \in 1 .. n : q[i] = b[i]
        BY <2>1, <2>3
    <2>5. \A i \in 1 .. m : q[n + i] = s[i]
        BY <2>1, <2>2
    <2>6. DOMAIN q = 1 .. (n + m) /\ DOMAIN s = 1 .. m
        BY <1>1, <2>1
    <2>7. m >= 1 /\ h = s[1][2]
        BY <1>1
    <2> QED BY <1>1, <2>4, <2>5, <2>6, <2>7
  <1> HIDE DEF q, h
  <1>3. /\ \A i \in 1 .. (n + m) : q[i][1] = c => q[i][2] \in lo + 1 .. hi
        /\ \A k \in lo + 1 .. hi : \E i \in 1 .. (n + m) : q[i][1] = c /\ q[i][2] = k
        /\ \A i, j \in 1 .. (n + m) :
              q[i][1] = c /\ q[j][1] = c /\ i < j => q[i][2] < q[j][2]
    <2>1. LinesAt(q, n + m, c, lo, hi)
        BY <1>2, LinesAre DEF q
    <2> QED BY <2>1 DEF LinesAt
  <1>4. n + 1 \in 1 .. (n + m) /\ q[n + 1][1] = c /\ q[n + 1][2] = h /\ h \in lo + 1 .. hi
    <2>1. n + 1 \in 1 .. (n + m) /\ 1 \in 1 .. m
        BY <1>2
    <2>2. q[n + 1] = s[1] /\ q[n + 1][1] = c
        BY <1>2, <2>1
    <2> QED BY <1>2, <1>3, <2>1, <2>2
  <1>5. h - 1 \in Nat /\ lo <= h - 1
      BY <1>4
  <1>6. ASSUME NEW i \in 1 .. n, b[i][1] = c PROVE b[i][2] \in lo + 1 .. (h - 1)
    <2>1. i \in 1 .. (n + m) /\ i < n + 1 /\ q[i] = b[i]
        BY <1>2
    <2>2. b[i][2] \in lo + 1 .. hi /\ b[i][2] < h
        BY <1>3, <1>4, <1>6, <2>1
    <2> QED BY <1>4, <2>2
  <1>7. ASSUME NEW k \in lo + 1 .. (h - 1) PROVE \E i \in 1 .. n : b[i][1] = c /\ b[i][2] = k
    <2>1. k \in lo + 1 .. hi /\ k < h
        BY <1>4
    <2>2. PICK i \in 1 .. (n + m) : q[i][1] = c /\ q[i][2] = k
        BY <1>3, <2>1
    <2>3. i # n + 1
        BY <1>4, <2>1, <2>2
    <2>4. ~ (n + 1 < i)
      <3>1. n + 1 < i => q[n + 1][2] < q[i][2]
          BY <1>3, <1>4, <2>2
      <3>2. h \in Int /\ k \in Int /\ k < h
          BY <1>4, <2>1
      <3> QED BY <1>4, <2>2, <3>1, <3>2
    <2>5. i \in 1 .. n
        BY <1>4, <2>3, <2>4
    <2> QED BY <1>2, <2>2, <2>5
  <1>8. ASSUME NEW i \in 1 .. n, NEW j \in 1 .. n, b[i][1] = c, b[j][1] = c, i < j
        PROVE  b[i][2] < b[j][2]
    <2>1. i \in 1 .. (n + m) /\ j \in 1 .. (n + m) /\ q[i] = b[i] /\ q[j] = b[j]
        BY <1>2
    <2> QED BY <1>3, <1>8, <2>1
  <1>9. LinesAt(b, n, c, lo, h - 1)
      BY <1>6, <1>7, <1>8 DEF LinesAt
  <1>10. Lines(b, c, lo, h - 1)
      BY <1>2, <1>9, LinesAre
  <1> QED BY <1>5, <1>10 DEF h

\* A command takes what waits in its user's socket; the lines in the buffer stay.
LEMMA CommandReadsInput ==
    ASSUME IInv, InputInv, NEW f \in Fds, CommandReads(f)
    PROVE  InputInv'
  <1> DEFINE c == client[f]
             s == socket[f]
             t == Head(s)[2] - 1
  <1>1. /\ s # <<>> /\ socket' = [socket EXCEPT ![f] = <<>>]
        /\ typed' = [typed EXCEPT ![c] = t]
        /\ UNCHANGED <<client, sessions, buffer, eof, hung, detached, done, ahead, last>>
      BY DEF CommandReads, vars, terminals
  <1>2. c # NoSession
      BY <1>1, NothingOnTheWay
  <1>3. c \in Sessions /\ c <= sessions /\ \A g \in Fds : client[g] = c => g = f
      BY <1>2, ClientFacts
  <1>4. /\ socket \in [Fds -> Seq(Line)] /\ s \in Seq(Line) /\ buffer \in Seq(Line)
        /\ typed \in [Sessions -> Nat] /\ done \in [Sessions -> Nat]
        /\ typed[c] \in Nat /\ done[c] \in Nat
        /\ \A d \in Sessions : typed[d] \in Nat /\ done[d] \in Nat /\ done[d] <= typed[d]
      BY <1>3 DEF InputInv, InputTypeOK
  <1>5. /\ \A i \in DOMAIN s : s[i][1] = c
        /\ Lines(buffer \o s, c, done[c], typed[c])
      BY <1>2 DEF InputInv, SocketOwn, LinesOK
  <1>6. t \in Nat /\ done[c] <= t /\ Lines(buffer, c, done[c], t)
      BY <1>1, <1>4, <1>5, LinesBefore
  <1>7. t <= typed[c]
    <2>1. buffer \o s \in Seq(Line)
        BY <1>4, ConcatProperties
    <2>2. PICK n \in Nat, m \in Nat : n = Len(buffer) /\ m = Len(s) /\ m >= 1
        BY <1>1, <1>4
    <2>3. n + 1 \in DOMAIN (buffer \o s) /\ (buffer \o s)[n + 1] = s[1] /\ 1 \in DOMAIN s
        BY <1>4, <2>2, ConcatProperties
    <2>4. s[1][2] <= typed[c]
        BY <1>4, <1>5, <2>1, <2>3, LinesTwo
    <2>5. Head(s) = s[1] /\ s[1] \in Line
        BY <1>1, <1>4, <2>3
    <2> QED BY <1>4, <2>4, <2>5 DEF Line
  <1> HIDE DEF c, s, t
  <1>8. /\ typed' \in [Sessions -> Nat] /\ typed'[c] = t
        /\ \A d \in Sessions : d # c => typed'[d] = typed[d]
        /\ socket' \in [Fds -> Seq(Line)]
        /\ socket'[f] = <<>> /\ \A g \in Fds : g # f => socket'[g] = socket[g]
      BY <1>1, <1>3, <1>4, <1>6
  <1>9. InputTypeOK'
    <2>1. \A d \in Sessions : done[d] <= typed'[d]
        BY <1>4, <1>6, <1>8
    <2> QED BY <1>1, <1>4, <1>8, <2>1 DEF InputTypeOK
  <1>10. SocketOwn'
    <2> SUFFICES ASSUME NEW g \in Fds, NEW i \in DOMAIN socket'[g]
                 PROVE  socket'[g][i][1] = client[g]
        BY <1>1 DEF SocketOwn
    <2>1. g # f
        BY <1>8
    <2> QED BY <1>8, <2>1 DEF InputInv, SocketOwn
  <1>11. BufferOK'
    <2> SUFFICES ASSUME NEW i \in DOMAIN buffer
                 PROVE  /\ buffer[i][2] >= 1 /\ buffer[i][2] <= typed'[buffer[i][1]]
                        /\ buffer[i][1] \in ahead
        BY <1>1 DEF BufferOK
    <2>1. buffer[i] \in Line /\ buffer[i][1] \in Sessions
      <3>1. buffer[i] \in Line
          BY <1>4
      <3> QED BY <3>1 DEF Line
    <2>2. CASE buffer[i][1] = c
        BY <1>4, <1>6, <1>8, <2>2, LinesTwo DEF InputInv, BufferOK
    <2>3. CASE buffer[i][1] # c
        BY <1>8, <2>1, <2>3 DEF InputInv, BufferOK
    <2> QED BY <2>2, <2>3
  <1>12. NotYet'
    <2> SUFFICES ASSUME NEW d \in Sessions, d > sessions PROVE typed'[d] = 0 /\ done[d] = 0
        BY <1>1 DEF NotYet
    <2>1. sessions \in Nat /\ d \in Nat /\ c \in Nat
        BY <1>3 DEF IInv, TypeOK, Sessions
    <2>2. d # c
        BY <1>3, <2>1
    <2> QED BY <1>8, <2>2 DEF InputInv, NotYet
  <1>13. OneAtATime'
    <2> SUFFICES ASSUME NEW d \in Sessions, d \notin ahead PROVE typed'[d] <= done[d] + 1
        BY <1>1 DEF OneAtATime
    <2>1. typed[d] <= done[d] + 1
        BY DEF InputInv, OneAtATime
    <2>2. CASE d = c
        BY <1>4, <1>6, <1>7, <1>8, <2>1, <2>2
    <2>3. CASE d # c
        BY <1>8, <2>1, <2>3
    <2> QED BY <2>2, <2>3
  <1>14. EofByHangup' /\ LastOK'
      BY <1>1 DEF InputInv, EofByHangup, LastOK
  <1>15. LinesOK'
    <2> SUFFICES ASSUME NEW g \in Fds, client[g] # NoSession
                 PROVE  Lines(buffer \o socket'[g], client[g], done[client[g]], typed'[client[g]])
        BY <1>1 DEF LinesOK
    <2>1. CASE g = f
      <3>1. buffer \o socket'[g] = buffer
          BY <1>4, <1>8, <2>1, ConcatEmptySeq
      <3> QED BY <1>6, <1>8, <2>1, <3>1 DEF c
    <2>2. CASE g # f
      <3>1. client[g] # c /\ client[g] \in Sessions
          BY <1>3, <2>2, ClientFacts
      <3> QED BY <1>8, <2>2, <3>1 DEF InputInv, LinesOK
    <2> QED BY <2>1, <2>2
  <1> QED BY <1>9, <1>10, <1>11, <1>12, <1>13, <1>14, <1>15 DEF InputInv

\* Descriptors of pipes, and who hangs up, leave the lines as they are.
LEMMA OtherInput ==
    ASSUME IInv, InputInv, UNCHANGED <<client, sessions, socket, buffer, eof, typed, done, ahead, last>>,
           hung \subseteq hung', detached => detached'
    PROVE  InputInv'
  BY DEF InputInv, InputTypeOK, SocketOwn, BufferOK, NotYet, OneAtATime, EofByHangup, LastOK,
         LinesOK

THEOREM InputInvariance == InputSpec => [](IInv /\ InputInv)
  <1>1. InputInit => InputInv
      BY InputInitInv
  <1>2. IInv /\ InputInv /\ [InputNext]_allVars => InputInv'
    <2> SUFFICES ASSUME IInv, InputInv, [InputNext]_allVars PROVE InputInv'
        OBVIOUS
    <2>1. CASE Login /\ UNCHANGED inputs
        BY <2>1, LoginInput
    <2>2. CASE (OpenPipe \/ \E ends \in SUBSET pipeFds : ClosePipe(ends)) /\ UNCHANGED inputs
        BY <2>2, OtherInput DEF OpenPipe, ClosePipe, inputs, terminals
    <2>3. ASSUME NEW f \in Fds, Type(f) PROVE InputInv'
        BY <2>3, TypeInput
    <2>4. ASSUME NEW f \in Fds, Hangup(f) PROVE InputInv'
        BY <2>4, OtherInput DEF Hangup, vars, terminals
    <2>5. ASSUME NEW f \in Fds, ServeEnd(f) PROVE InputInv'
        BY <2>5, ServeEndInput
    <2>6. ASSUME NEW f \in Fds, ServeLine(f) PROVE InputInv'
        BY <2>6, ServeBuffered, ServeRead
    <2>7. CASE UNCHANGED allVars
        BY <2>7, OtherInput DEF allVars, vars, inputs, terminals
    <2>8. ASSUME NEW f \in Fds, CommandReads(f) PROVE InputInv'
        BY <2>8, CommandReadsInput
    <2>9. CASE TypeTerminal \/ \E c \in Sessions : CommandEnds(c)
        BY <2>9, OtherInput DEF TypeTerminal, CommandEnds, vars, terminals
    <2>10. CASE ServeTerminal
        BY <2>10, ServeTerminalInput
    <2> QED BY <2>1, <2>2, <2>3, <2>4, <2>5, <2>6, <2>7, <2>8, <2>9, <2>10 DEF InputNext
  <1> QED BY <1>1, <1>2, InputImplementsUsers, Invariance, PTL DEF InputSpec

\* A line runs for another user, or is taken by rwg_loop itself, only if its typist
\* had typed ahead; nobody is logged out without a line unless somebody has hung up;
\* and the lines of a user who is logged in that no command of the user's reads are
\* taken once each and in order (single_shell.cpp:84 and :336).
THEOREM AttributionCorrect == InputSpec => []Attribution
  <1>1. InputInv => Attribution
      BY AttributionParts DEF InputInv
  <1> QED BY <1>1, InputInvariance, PTL
=============================================================================
