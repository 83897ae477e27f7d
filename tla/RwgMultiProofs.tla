---------------------------- MODULE RwgMultiProofs ----------------------------
(***************************************************************************)
(* Proofs about RwgMulti, for any number of entries, processes, names and  *)
(* lines, and every interleaving of processes, handlers and signals: its   *)
(* types; a process has its own entry, nicknames differ and news reach     *)
(* everybody; who leaves is out of the table; the file descriptors of a    *)
(* user's pipe come to its reader, and processes wait in a circle only     *)
(* after one overwrote another's address on the board.                     *)
(*                                                                         *)
(* User pipes need the whole protocol of an address on the board: from the *)
(* mknod of a FIFO to the end of its open, only its sender, the reader in  *)
(* the table and the signal to that reader may refer to it, and the board  *)
(* keeps it until the reader's handler has looked (PipesHold).             *)
(***************************************************************************)
EXTENDS RwgMulti, FiniteSetTheorems, WellFoundedInduction, TLAPS

Serving == {"reset", "prompt", "copy", "copying", "poke", "tell", "name",
            "look", "kill", "wopen", "unlink", "erase"}

\* A step of one process, its handlers included.
Step(p) ==
    \/ Login(p) \/ Close(p) \/ Crash(p) \/ Leave(p)
    \/ Work(p) \/ ShowNews(p) \/ OpenReader(p)
    \/ NPyell(p)
    \/ \E name \in Names : NPname(p, name)
    \/ \E n \in Slots : \/ NPtell(p, n)
                        \/ PipeRefused(p, n) \/ PipeOut(p, n)
                        \/ ReadRefused(p, n) \/ PipeIn(p, n)

Sending(p) == job[p].address # Words
Leaving(p) == job[p].then = "erase"
Holds(p, i) == users[i].pid = p

-----------------------------------------------------------------------------
(* The inductive invariant. *)

\* What a process works on, by where it is.
JobOK(p) ==
    /\ Sending(p) =>
          /\ job[p].address \in Paths /\ job[p].next = "look" /\ job[p].then = "prompt"
          /\ pc[p] \in {"copy", "copying", "look", "kill", "wopen"}
    /\ pc[p] \in {"look", "kill", "wopen"} => Sending(p)
    /\ pc[p] = "poke" => job[p].next = "poke" /\ job[p].at \in Slots
    /\ pc[p] \in {"copy", "copying"} =>
          /\ job[p].next \in {"poke", "tell", "look"}
          /\ job[p].next = "look" => Sending(p)
          /\ job[p].next = "tell" => job[p].then = "prompt"
    /\ pc[p] \in {"copy", "copying", "poke", "reset", "unlink", "erase"} =>
          job[p].then \in {"prompt", "reset", "unlink", "erase"}
    /\ pc[p] \in {"unlink", "erase"} => job[p].then = pc[p]
    /\ Leaving(p) => /\ pc[p] \in {"copy", "copying", "poke", "erase"}
                     /\ job[p].to \in Slots
    /\ job[p].then = "unlink" => pc[p] \in {"copy", "copying", "poke", "unlink"}

JobsOK == \A p \in Clients : JobOK(p)

\* Nobody has two entries, or one before it enters.  Unless two logins met, who
\* serves has an entry, who enters has a free one chosen, alone, and who leaves
\* knows its own.
EntriesOK ==
    /\ \A p \in Clients, i \in Slots : pc[p] \in {"new", "enter"} => ~ Holds(p, i)
    /\ \A i, j \in Slots : Taken(i) /\ users[i].pid = users[j].pid => i = j
    /\ ~ met =>
          /\ \A p, q \in Clients : pc[p] = "enter" /\ pc[q] = "enter" => p = q
          /\ \A p \in Clients :
                /\ pc[p] = "enter" => job[p].to \in Slots /\ ~ Taken(job[p].to)
                /\ pc[p] \in Serving => \E i \in Slots : Holds(p, i)
                /\ Leaving(p) => Holds(p, job[p].to)
                /\ pc[p] = "exit" => \A i \in Slots : ~ Holds(p, i)

\* A free entry has no name.  Unless two met, one process at most is about to write
\* a name, and nobody has it.
NamesOK ==
    /\ \A i \in Slots : Taken(i) \/ users[i].nick = NoName
    /\ ~ met =>
          /\ \A p, q \in Clients : pc[p] = "name" /\ pc[q] = "name" => p = q
          /\ \A p \in Clients : pc[p] = "name" => job[p].name \in Names /\ NameFree(job[p].name)
          /\ NamesUnique

\* Who owes to show a broadcast and is in an entry that was poked has the signal.
NewsOK ==
    \A q \in Clients, p \in Clients : p \in owes[q] =>
       /\ pc[p] \notin {"new", "enter"}
       /\ Live(p) => \A i \in Slots :
             Holds(p, i) /\ (pc[q] # "poke" \/ i < job[q].at) => "usr1" \in pend[p]

\* The address of a sender on its way: from its own entry to one in use, of a FIFO
\* that exists and that its reader has not got yet.
AddressesHold == \A q \in Clients : Sending(q) =>
    /\ Holds(q, job[q].address[1]) /\ Taken(job[q].address[2])
    /\ job[q].address \in fifos
    /\ \A p \in Clients : pc[p] \in Serving /\ ~ Leaving(p) => job[q].address \notin fdIn[p]
    /\ pc[q] \in {"kill", "wopen"} => Holds(job[q].pid, job[q].address[2])

\* While it waits for its reader the board is its own.
BoardHolds ==
    /\ \A q \in racing : pc[q] = "copying"
    /\ \A q \in Clients : InFlight(q) =>
          /\ q \notin racing
          /\ pc[q] # "copying" => board = job[q].address
          /\ \A r \in Clients \ {q} : pc[r] # "copying" /\ ~ InFlight(r)

\* A signal and a handler's open belong to a sender in its open, which has one or
\* the other.
SignalsHold ==
    /\ \A r \in Clients : opening[r] # Words =>
          \E q \in Clients : /\ pc[q] = "wopen" /\ job[q].pid = r
                             /\ job[q].address = opening[r]
    /\ \A r \in Clients : "usr2" \in pend[r] =>
          \E q \in Clients : pc[q] = "wopen" /\ job[q].pid = r /\ InFlight(q)
    /\ \A q \in Clients : pc[q] = "wopen" =>
          \E r \in Clients : /\ r = job[q].pid
                             /\ opening[r] = job[q].address \/ "usr2" \in pend[r]

\* Read ends are those of pipes to oneself, whose files exist while one stays.
ReadersHold == \A p \in Clients :
    /\ pc[p] \in {"new", "enter"} => fdIn[p] = {}
    /\ pc[p] \in Serving => \A f \in fdIn[p] :
          f \in Paths /\ Holds(p, f[2]) /\ (~ Leaving(p) => f \in fifos)
    /\ job[p].then = "unlink" => job[p].file \in fdIn[p]

\* Entries in use are those of processes that serve their users.
UsersServe == \A i \in Slots : Taken(i) => pc[users[i].pid] \in Serving

InOrder == UsersServe /\ AddressesHold /\ BoardHolds /\ SignalsHold /\ ReadersHold

\* As long as no address was overwritten or lost its reader, and no two met.
Quiet     == ~ (met \/ disturbed)
PipesHold == Quiet => InOrder

IInv == TypeOK /\ JobsOK /\ EntriesOK /\ NamesOK /\ NewsOK /\ PipesHold

-----------------------------------------------------------------------------
(* Entries. *)

\* The first of a set of entries is in it, and 0 stands for no entry.
LEMMA LowestIs ==
  ASSUME NEW S \in SUBSET Slots
  PROVE  IF S = {} THEN Lowest(S) = 0 ELSE Lowest(S) \in S
  <1>1. CASE S = {}
      BY <1>1 DEF Lowest
  <1>2. CASE S # {}
    <2>1. S \subseteq Nat
        BY RwgMultiAssumption DEF RwgMultiAssumption, Slots
    <2>2. \E i \in S : \A j \in S : ~ (<<j, i>> \in {e \in Nat \X Nat : e[1] < e[2]})
        BY <1>2, <2>1, WFMin, NatLessThanWellFounded DEF OpToRel
    <2>4. \A i, j \in S : i <= j \/ <<j, i>> \in {e \in Nat \X Nat : e[1] < e[2]}
        BY <2>1
    <2>5. \E i \in S : \A j \in S : i <= j
        BY <2>2, <2>4
    <2> QED
        BY <1>2, <2>5 DEF Lowest
  <1> QED
      BY <1>1, <1>2

\* find_user_bypid finds an entry of the process if there is one.
LEMMA IdIs ==
  ASSUME NEW p \in Clients
  PROVE  /\ Id(p) \in Slots => Holds(p, Id(p))
         /\ Id(p) \in Slots \cup {0} /\ 0 \notin Slots
         /\ Id(p) = 0 => \A i \in Slots : ~ Holds(p, i)
  <1>1. {i \in Slots : users[i].pid = p} \in SUBSET Slots
      OBVIOUS
  <1>2. 0 \notin Slots
      BY RwgMultiAssumption DEF RwgMultiAssumption, Slots
  <1> QED
      BY <1>1, <1>2, LowestIs DEF Id, Holds

\* A process with an entry is found there.
LEMMA IdOfHolder ==
  ASSUME TypeOK, EntriesOK, NEW p \in Clients, NEW i \in Slots, Holds(p, i)
  PROVE  Id(p) = i
  <1>1. Id(p) \in Slots /\ Holds(p, Id(p))
      BY IdIs
  <1> QED
      BY <1>1, RwgMultiAssumption DEF RwgMultiAssumption, EntriesOK, Holds, Taken

-----------------------------------------------------------------------------
(* Types. *)

\* The work of a process that has none, that broadcasts, and that writes an address.
LEMMA JobTypes ==
  /\ Idle \in Jobs
  /\ \A t \in Pcs : News(t) \in Jobs
  /\ Words \in Board /\ Paths \subseteq Board /\ Slots \subseteq 0 .. MaxUsers
  /\ 0 \in 0 .. MaxUsers /\ Free.pid = Nobody /\ Free.nick = NoName
  <1>1. MaxUsers \in Nat /\ 0 \in 0 .. MaxUsers /\ Slots \subseteq 0 .. MaxUsers
      BY RwgMultiAssumption DEF RwgMultiAssumption, Slots
  <1>2. Words \in Board /\ Paths \subseteq Board
      BY <1>1 DEF Words, Board, Paths
  <1>3. Idle \in Jobs
      BY <1>1, <1>2 DEF Idle, Jobs, Pcs
  <1>4. \A t \in Pcs : News(t) \in Jobs
      BY <1>3 DEF News, Jobs
  <1> QED
      BY <1>1, <1>2, <1>3, <1>4 DEF Free

\* Announce leaves a process at the board, with the work it is given.
LEMMA AnnounceType ==
  ASSUME TypeOK, NEW p \in Clients, NEW j \in Jobs, Announce(p, j)
  PROVE  pc' \in [Clients -> Pcs] /\ job' \in [Clients -> Jobs]
  BY DEF TypeOK, Announce, Pcs

\* kill sends signals only.
LEMMA KillType ==
  ASSUME TypeOK, NEW p, NEW q, NEW s \in {"usr1", "usr2"}, Kill(p, q, s)
  PROVE  pend' \in [Clients -> SUBSET {"usr1", "usr2"}]
  BY DEF TypeOK, Kill

\* A process that is killed is one of the processes still, at its end.
LEMMA DieType == ASSUME TypeOK, NEW p \in Clients, Die(p) PROVE TypeOK'
  <1>1. job' \in [Clients -> Jobs] /\ Words \in Board /\ pc' \in [Clients -> Pcs]
      BY JobTypes DEF TypeOK, Die, Pcs
  <1> QED
      BY <1>1 DEF Die, TypeOK

\* One field of what a process works on is set.
LEMMA JobSet ==
  ASSUME TypeOK, NEW p \in Clients
  PROVE  /\ \A i \in 0 .. MaxUsers : [job EXCEPT ![p].to = i] \in [Clients -> Jobs]
         /\ \A i \in 0 .. MaxUsers : [job EXCEPT ![p].at = i] \in [Clients -> Jobs]
         /\ \A q \in Clients \cup {Nobody} : [job EXCEPT ![p].pid = q] \in [Clients -> Jobs]
         /\ \A n \in Names : [job EXCEPT ![p].name = n] \in [Clients -> Jobs]
         /\ \A j \in Jobs : [job EXCEPT ![p] = j] \in [Clients -> Jobs]
  <1>1. job \in [Clients -> Jobs]
      BY DEF TypeOK
  <1> QED
      BY <1>1 DEF Jobs

\* What a process is to do after a command line.
LEMMA NewJobs ==
  /\ \A a \in Board : [Idle EXCEPT !.address = a, !.next = "look"] \in Jobs
  /\ \A f \in Board : [News("unlink") EXCEPT !.file = f] \in Jobs
  /\ \A i \in Slots : [News("erase") EXCEPT !.to = i] \in Jobs
  /\ \A i \in Slots : [Idle EXCEPT !.to = i, !.next = "tell"] \in Jobs
  <1>1. /\ News("unlink") \in Jobs /\ News("erase") \in Jobs /\ Idle \in Jobs
        /\ Slots \subseteq 0 .. MaxUsers /\ "tell" \in Pcs /\ "look" \in Pcs
      BY JobTypes DEF Pcs
  <1> QED
      BY <1>1 DEF Jobs

\* A line is counted.
LEMMA LinesType ==
  ASSUME TypeOK, NEW p \in Clients, NEW c, Line(p, c)
  PROVE  lines' \in [Clients -> 0 .. MaxLines]
  BY RwgMultiAssumption DEF RwgMultiAssumption, TypeOK, Line

\* Every step keeps the types.
LEMMA TypeStep ==
  ASSUME TypeOK, JobsOK, NEW p \in Clients, Step(p)
  PROVE  TypeOK'
  <1> USE DEF shared, local, history
  <1>1. CASE Login(p)
    <2> USE <1>1
    <2>1. Lowest({i \in Slots : ~ Taken(i)}) \in 0 .. MaxUsers
        BY LowestIs, JobTypes
    <2>2. job' \in [Clients -> Jobs]
        BY <2>1, JobSet DEF Login
    <2>3. pc' \in [Clients -> Pcs]
        BY DEF TypeOK, Login, Pcs
    <2> QED
        BY <2>1, <2>2, <2>3 DEF TypeOK, Login
  <1>2. CASE Enter(p)
    <2> USE <1>2
    <2>1. News("reset") \in Jobs
        BY JobTypes DEF Pcs
    <2>2. job' \in [Clients -> Jobs] /\ pc' \in [Clients -> Pcs]
        BY <2>1, AnnounceType DEF Enter
    <2> QED
        BY <2>1, <2>2 DEF TypeOK, Enter, Free
  <1>3. CASE StartLoop(p)
    <2> USE <1>3
    <2>1. job' \in [Clients -> Jobs]
        BY JobSet, JobTypes DEF StartLoop
    <2>2. pc' \in [Clients -> Pcs]
        BY DEF TypeOK, StartLoop, Pcs
    <2> QED
        BY <2>1, <2>2 DEF TypeOK, StartLoop
  <1>4. CASE Copy(p)
    <2> USE <1>4
    <2>1. board' \in Board
        BY DEF TypeOK, Copy, Mixed, Board, Jobs
    <2>2. pc' \in [Clients -> Pcs]
        BY DEF TypeOK, Copy, Pcs
    <2> QED
        BY <2>1, <2>2 DEF TypeOK, Copy
  <1>5. CASE Copied(p)
    <2> USE <1>5
    <2>1. board' \in Board
        BY DEF TypeOK, Copied, Mixed, Board, Jobs
    <2>2. 1 \in 0 .. MaxUsers /\ 0 \in 0 .. MaxUsers
        BY RwgMultiAssumption DEF RwgMultiAssumption
    <2>3. job' \in [Clients -> Jobs]
        BY <2>2, JobSet DEF Copied
    <2>4. pc' \in [Clients -> Pcs]
        BY DEF TypeOK, Copied, Jobs
    <2>5. owes' \in [Clients -> SUBSET Clients]
        BY DEF TypeOK, Copied, Listed, Taken
    <2> QED
        BY <2>1, <2>2, <2>3, <2>4, <2>5 DEF TypeOK, Copied
  <1>6. CASE Poke(p)
    <2> USE <1>6
    <2>1. pend' \in [Clients -> SUBSET {"usr1", "usr2"}]
        BY KillType DEF TypeOK, Poke
    <2>2. job[p].at < MaxUsers => job[p].at + 1 \in 0 .. MaxUsers
        BY RwgMultiAssumption DEF RwgMultiAssumption, TypeOK, Jobs
    <2>3. job[p] \in Jobs /\ [job[p] EXCEPT !.at = 0] \in Jobs
        BY JobTypes DEF TypeOK, Jobs
    <2>4. job' \in [Clients -> Jobs]
        BY <2>2, <2>3, JobSet, JobTypes DEF Poke
    <2>5. pc' \in [Clients -> Pcs]
        BY DEF TypeOK, Poke, Jobs
    <2> QED
        BY <2>1, <2>2, <2>3, <2>4, <2>5 DEF TypeOK, Poke
  <1>7. CASE MSGHandler(p)
    <2> USE <1>7
    <2>1. conn' \in [Clients -> {"up", "closed", "reset"}]
        BY DEF TypeOK, MSGHandler
    <2> QED
        BY <2>1 DEF TypeOK, MSGHandler
  <1>8. CASE NPyell(p)
    <2> USE <1>8
    <2>1. News("prompt") \in Jobs
        BY JobTypes DEF Pcs
    <2>2. job' \in [Clients -> Jobs] /\ pc' \in [Clients -> Pcs]
        BY <2>1, AnnounceType DEF NPyell
    <2> QED
        BY LinesType, <2>1, <2>2 DEF TypeOK, NPyell
  <1>9. CASE TellKill(p)
    <2> USE <1>9
    <2>1. pend' \in [Clients -> SUBSET {"usr1", "usr2"}]
        BY KillType DEF TypeOK, TellKill
    <2>2. job' \in [Clients -> Jobs]
        BY JobSet, JobTypes DEF TellKill
    <2>3. pc' \in [Clients -> Pcs]
        BY DEF TypeOK, TellKill, Pcs
    <2> QED
        BY <2>1, <2>2, <2>3 DEF TypeOK, TellKill
  <1>10. CASE WriteName(p)
    <2> USE <1>10
    <2>1. News("prompt") \in Jobs
        BY JobTypes DEF Pcs
    <2>2. job' \in [Clients -> Jobs] /\ pc' \in [Clients -> Pcs]
        BY <2>1, AnnounceType DEF WriteName
    <2>3. job[p].name \in Names \cup {NoName}
        BY DEF TypeOK, Jobs
    <2> QED
        BY <2>1, <2>2, <2>3 DEF TypeOK, WriteName
  <1>11. CASE FindPid(p)
    <2> USE <1>11
    <2>1. job[p].address[2] \in Slots
        BY DEF JobsOK, JobOK, FindPid, At, Paths, Sending
    <2>2. users[job[p].address[2]].pid \in Clients \cup {Nobody}
        BY <2>1 DEF TypeOK
    <2>3. job' \in [Clients -> Jobs]
        BY <2>2, JobSet DEF FindPid
    <2>4. pc' \in [Clients -> Pcs]
        BY DEF TypeOK, FindPid, Pcs
    <2> QED
        BY <2>1, <2>2, <2>3, <2>4 DEF TypeOK, FindPid
  <1>12. CASE SignalReader(p)
    <2> USE <1>12
    <2>1. pend' \in [Clients -> SUBSET {"usr1", "usr2"}]
        BY KillType DEF TypeOK, SignalReader
    <2>2. pc' \in [Clients -> Pcs]
        BY DEF TypeOK, SignalReader, Pcs
    <2> QED
        BY <2>1, <2>2 DEF TypeOK, SignalReader
  <1>13. CASE OpenOut(p)
    <2> USE <1>13
    <2>1. News("prompt") \in Jobs
        BY JobTypes DEF Pcs
    <2>2. job' \in [Clients -> Jobs] /\ pc' \in [Clients -> Pcs]
        BY <2>1, AnnounceType DEF OpenOut
    <2>3. Words \in Board /\ job[p].address \in Board
        BY JobTypes DEF TypeOK, Jobs
    <2> QED
        BY <2>1, <2>2, <2>3 DEF TypeOK, OpenOut
  <1>29. CASE OpenFails(p)
    <2> USE <1>29
    <2>1. News("prompt") \in Jobs
        BY JobTypes DEF Pcs
    <2>2. job' \in [Clients -> Jobs] /\ pc' \in [Clients -> Pcs]
        BY <2>1, AnnounceType DEF OpenFails
    <2> QED
        BY <2>2 DEF TypeOK, OpenFails
  <1>14. CASE Unlink(p)
    <2> USE <1>14
    <2>1. job' \in [Clients -> Jobs]
        BY JobSet, JobTypes DEF Unlink
    <2>2. pc' \in [Clients -> Pcs]
        BY DEF TypeOK, Unlink, Pcs
    <2> QED
        BY <2>1, <2>2 DEF TypeOK, Unlink
  <1>15. CASE Erase(p)
    <2> USE <1>15
    <2>1. job' \in [Clients -> Jobs]
        BY JobSet, JobTypes DEF Erase
    <2>2. pc' \in [Clients -> Pcs]
        BY DEF TypeOK, Erase, Pcs
    <2> QED
        BY <2>1, <2>2 DEF TypeOK, Erase, Free
  <1>16. CASE Exit(p)
    <2> USE <1>16
    <2>1. pc' \in [Clients -> Pcs]
        BY DEF TypeOK, Exit, Pcs
    <2> QED
        BY <2>1 DEF TypeOK, Exit
  <1>17. CASE PipeHandler(p)
    <2> USE <1>17
    <2>1. opening' \in [Clients -> Board]
        BY DEF TypeOK, PipeHandler
    <2>2. fdIn' \in [Clients -> SUBSET Board]
        BY DEF TypeOK, PipeHandler
    <2> QED
        BY <2>1, <2>2 DEF TypeOK, PipeHandler
  <1>18. CASE HandlerMisses(p)
    <2> USE <1>18
    <2>1. Die(p) => TypeOK'
        BY DieType
    <2>2. fdIn' \in [Clients -> SUBSET Board] \/ Die(p)
        BY DEF TypeOK, HandlerMisses
    <2> QED
        BY <2>1, <2>2 DEF TypeOK, HandlerMisses
  <1>19. CASE Close(p)
    <2> USE <1>19
    <2>1. lines' \in [Clients -> 0 .. MaxLines]
        BY RwgMultiAssumption DEF RwgMultiAssumption, TypeOK, Close
    <2> QED
        BY <2>1 DEF TypeOK, Close
  <1>20. CASE Leave(p)
    <2> USE <1>20
    <2>1. PICK i \in IF Id(p) = 0 THEN Slots ELSE {Id(p)} :
             /\ fifos' = {f \in fifos : f[2] # i}
             /\ Announce(p, [News("erase") EXCEPT !.to = i])
        BY DEF Leave
    <2>2. i \in Slots
        BY <2>1, IdIs
    <2>3. job' \in [Clients -> Jobs] /\ pc' \in [Clients -> Pcs]
        BY <2>1, <2>2, NewJobs, AnnounceType
    <2> QED
        BY <2>1, <2>3 DEF TypeOK, Leave
  <1>21. ASSUME NEW name \in Names, NPname(p, name) PROVE TypeOK'
    <2> USE <1>21
    <2>1. job' \in [Clients -> Jobs]
        BY JobSet DEF NPname
    <2>2. pc' \in [Clients -> Pcs]
        BY DEF TypeOK, NPname, Pcs
    <2> QED
        BY LinesType, <2>1, <2>2 DEF TypeOK, NPname
  <1>22. ASSUME NEW n \in Slots, NPtell(p, n) PROVE TypeOK'
    <2> USE <1>22
    <2>1. job' \in [Clients -> Jobs] /\ pc' \in [Clients -> Pcs]
        BY NewJobs, AnnounceType DEF NPtell
    <2> QED
        BY LinesType, <2>1 DEF TypeOK, NPtell
  <1>23. ASSUME NEW n \in Slots, PipeOut(p, n) PROVE TypeOK'
    <2> USE <1>23
    <2>1. <<Id(p), n>> \in Paths
        BY IdIs DEF PipeOut, Paths
    <2>2. job' \in [Clients -> Jobs] /\ pc' \in [Clients -> Pcs]
        BY <2>1, JobTypes, NewJobs, AnnounceType DEF PipeOut
    <2> QED
        BY LinesType, <2>1, <2>2 DEF TypeOK, PipeOut
  <1>24. ASSUME NEW n \in Slots, PipeIn(p, n) PROVE TypeOK'
    <2> USE <1>24
    <2>1. <<n, Id(p)>> \in Paths
        BY IdIs DEF PipeIn, Paths
    <2>2. job' \in [Clients -> Jobs] /\ pc' \in [Clients -> Pcs]
        BY <2>1, JobTypes, NewJobs, AnnounceType DEF PipeIn
    <2> QED
        BY LinesType, <2>1, <2>2 DEF TypeOK, PipeIn
  <1>25. ASSUME NEW n \in Slots, PipeRefused(p, n) PROVE TypeOK'
    <2> USE <1>25
    <2> QED
        BY LinesType DEF TypeOK, PipeRefused, local
  <1>26. ASSUME NEW n \in Slots, ReadRefused(p, n) PROVE TypeOK'
    <2> USE <1>26
    <2> QED
        BY LinesType DEF TypeOK, ReadRefused, local
  <1>27. CASE BrokenPipe(p)
    <2> USE <1>27
    <2>1. TypeOK'
        BY DieType DEF BrokenPipe
    <2> QED
        BY <2>1 DEF TypeOK, BrokenPipe
  <1>28. CASE Crash(p)
    <2> USE <1>28
    <2>1. TypeOK'
        BY DieType DEF Crash
    <2> QED
        BY <2>1 DEF TypeOK, Crash
  <1> QED
      BY <1>1, <1>2, <1>3, <1>4, <1>5, <1>6, <1>7, <1>8, <1>9, <1>10, <1>11, <1>12, <1>13,
         <1>14, <1>15, <1>16, <1>17, <1>18, <1>19, <1>20, <1>21, <1>22, <1>23, <1>24,
         <1>25, <1>26, <1>27, <1>28, <1>29
         DEF Step, Work, ShowNews, OpenReader

-----------------------------------------------------------------------------
(* What processes work on. *)

\* Where a process is and what it works on is changed by its own steps only.
LEMMA OwnWork ==
  ASSUME TypeOK, NEW p \in Clients, Step(p), NEW q \in Clients, q # p
  PROVE  pc'[q] = pc[q] /\ job'[q] = job[q]
  <1> USE DEF TypeOK, local, Announce, Die
  <1>1. CASE Login(p) \/ Close(p) \/ Crash(p) \/ Leave(p)
      BY <1>1 DEF Login, Close, Crash, Leave
  <1>2. CASE Work(p)
    <2>1. CASE \/ Enter(p) \/ StartLoop(p) \/ Copy(p) \/ Copied(p) \/ Poke(p)
               \/ TellKill(p) \/ WriteName(p)
        BY <2>1 DEF Enter, StartLoop, Copy, Copied, Poke, TellKill, WriteName
    <2>2. CASE \/ FindPid(p) \/ SignalReader(p) \/ OpenOut(p) \/ OpenFails(p) \/ Unlink(p)
               \/ Erase(p) \/ Exit(p)
        BY <2>2 DEF FindPid, SignalReader, OpenOut, OpenFails, Unlink, Erase, Exit
    <2> QED
        BY <1>2, <2>1, <2>2 DEF Work
  <1>3. CASE ShowNews(p) \/ OpenReader(p)
      BY <1>3 DEF ShowNews, OpenReader, MSGHandler, BrokenPipe, PipeHandler, HandlerMisses
  <1>4. CASE NPyell(p) \/ \E name \in Names : NPname(p, name)
      BY <1>4 DEF NPyell, NPname
  <1>5. CASE \E n \in Slots : \/ NPtell(p, n) \/ PipeRefused(p, n) \/ PipeOut(p, n)
                              \/ ReadRefused(p, n) \/ PipeIn(p, n)
      BY <1>5 DEF NPtell, PipeRefused, PipeOut, ReadRefused, PipeIn
  <1> QED
      BY <1>1, <1>2, <1>3, <1>4, <1>5 DEF Step

\* Every step leaves its process with work that fits where it is.
LEMMA JobsStep ==
  ASSUME TypeOK, JobsOK, NEW p \in Clients, Step(p)
  PROVE  JobsOK'
  <1> SUFFICES JobOK(p)'
      BY OwnWork DEF JobsOK, JobOK, Sending, Leaving
  <1>1. JobOK(p) /\ job[p] \in Jobs /\ job \in [Clients -> Jobs] /\ pc \in [Clients -> Pcs]
      BY DEF JobsOK, TypeOK
  <1>2. Slots \subseteq 0 .. MaxUsers
      BY JobTypes
  <1> USE <1>1 DEF JobOK, Sending, Leaving, At, local, Idle
  <1>3. CASE StartLoop(p) \/ Unlink(p) \/ Erase(p) \/ Exit(p) \/ TellKill(p)
      BY <1>3 DEF StartLoop, Unlink, Erase, Exit, TellKill
  <1>17. CASE Login(p)
      BY <1>17 DEF Login, Jobs
  <1>4. CASE Enter(p) \/ NPyell(p) \/ WriteName(p) \/ OpenOut(p) \/ OpenFails(p)
      BY <1>4 DEF Enter, NPyell, WriteName, OpenOut, OpenFails, Announce, News
  <1>5. CASE Copy(p)
      BY <1>5 DEF Copy
  <1>6. CASE Copied(p)
    <2>1. 1 \in Slots
        BY RwgMultiAssumption DEF RwgMultiAssumption, Slots
    <2>2. /\ job'[p].address = job[p].address /\ job'[p].next = job[p].next
          /\ job'[p].then = job[p].then /\ job'[p].to = job[p].to
          /\ pc'[p] = job[p].next /\ (job[p].next = "poke" => job'[p].at = 1)
        BY <1>6 DEF Copied, Jobs
    <2>3. pc[p] = "copying"
        BY <1>6 DEF Copied
    <2> QED
        BY <2>1, <2>2, <2>3
  <1>7. CASE Poke(p)
      BY <1>7, RwgMultiAssumption DEF RwgMultiAssumption, Slots, Poke, Jobs
  <1>8. CASE FindPid(p) \/ SignalReader(p)
      BY <1>8 DEF FindPid, SignalReader, Jobs
  <1>9. CASE MSGHandler(p) \/ PipeHandler(p) \/ Close(p)
      BY <1>9 DEF MSGHandler, PipeHandler, Close
  <1>10. CASE Crash(p) \/ BrokenPipe(p) \/ HandlerMisses(p)
      BY <1>10 DEF Crash, BrokenPipe, HandlerMisses, Die
  <1>11. CASE Leave(p)
    <2>1. PICK i \in Slots : Announce(p, [News("erase") EXCEPT !.to = i])
        BY <1>11, IdIs DEF Leave
    <2> QED
        BY <2>1 DEF Announce, News
  <1>12. ASSUME NEW n \in Names, NPname(p, n) PROVE JobOK(p)'
      BY <1>12 DEF NPname, Line, Jobs
  <1>13. ASSUME NEW n \in Slots, NPtell(p, n) PROVE JobOK(p)'
      BY <1>13 DEF NPtell, Announce
  <1>14. ASSUME NEW n \in Slots, PipeOut(p, n) PROVE JobOK(p)'
    <2>1. <<Id(p), n>> \in Paths /\ <<Id(p), n>> # Words
        BY <1>14, IdIs DEF PipeOut, Paths, Words
    <2> QED
        BY <1>14, <2>1 DEF PipeOut, Announce
  <1>15. ASSUME NEW n \in Slots, PipeIn(p, n) PROVE JobOK(p)'
      BY <1>15 DEF PipeIn, Announce, News
  <1>16. ASSUME NEW n \in Slots, PipeRefused(p, n) \/ ReadRefused(p, n) PROVE JobOK(p)'
      BY <1>16 DEF PipeRefused, ReadRefused
  <1> QED
      BY <1>3, <1>4, <1>5, <1>6, <1>7, <1>8, <1>9, <1>10, <1>11, <1>12, <1>13, <1>14, <1>15,
         <1>16, <1>17 DEF Step, Work, ShowNews, OpenReader

-----------------------------------------------------------------------------
(* Entries. *)

\* That two met is never forgotten, nor that an address was overwritten.
LEMMA HistoryGrows ==
  ASSUME TypeOK, NEW p \in Clients, Step(p)
  PROVE  (met => met') /\ (disturbed => disturbed')
  BY DEF TypeOK, Step, Work, ShowNews, OpenReader, local, history, Announce, Die,
         Login, Close, Crash, Leave, Enter, StartLoop, Copy, Copied, Poke, TellKill,
         WriteName, FindPid, SignalReader, OpenOut, OpenFails, Unlink, Erase, Exit, MSGHandler,
         BrokenPipe, PipeHandler, HandlerMisses, NPyell, NPname, NPtell, PipeRefused,
         PipeOut, ReadRefused, PipeIn

\* A step that leaves the table alone, and begins or ends nobody's time in it.
LEMMA EntriesKept ==
  ASSUME TypeOK, EntriesOK, NEW p \in Clients, Step(p), UNCHANGED users,
         pc'[p] \in {"new", "enter"} => pc[p] = pc'[p] /\ job'[p].to = job[p].to,
         pc'[p] \in Serving => pc[p] \in Serving,
         pc'[p] = "exit" => pc[p] = "exit",
         Leaving(p)' /\ ~ met => Holds(p, job'[p].to)
  PROVE  EntriesOK'
  <1>1. (met => met') /\ \A q \in Clients \ {p} : pc'[q] = pc[q] /\ job'[q] = job[q]
      BY OwnWork, HistoryGrows
  <1> QED
      BY <1>1 DEF EntriesOK, Holds, Taken, Leaving

\* Every step keeps to each process an entry of its own.
LEMMA EntriesStep ==
  ASSUME TypeOK, JobsOK, EntriesOK, NEW p \in Clients, Step(p)
  PROVE  EntriesOK'
  <1>1. /\ JobOK(p) /\ job[p] \in Jobs /\ job \in [Clients -> Jobs] /\ pc \in [Clients -> Pcs]
        /\ users \in [Slots -> [pid : Clients \cup {Nobody}, nick : Names \cup {NoName}]]
      BY DEF JobsOK, TypeOK
  <1>2. /\ met => met'
        /\ \A q \in Clients \ {p} : pc'[q] = pc[q] /\ job'[q] = job[q]
        /\ \A q \in Clients : Leaving(q) => job[q].to \in Slots
      BY OwnWork, HistoryGrows DEF JobsOK, JobOK
  <1> USE <1>1 DEF At
  <1>3. CASE Login(p)
    <2>1. UNCHANGED users /\ pc[p] = "new" /\ pc' = [pc EXCEPT ![p] = "enter"]
          /\ ~ Leaving(p)'
        BY <1>3 DEF Login, shared, JobOK, Leaving, Jobs
    <2>2. ~ met' => /\ \A q \in Clients : pc[q] # "enter"
                    /\ job'[p].to \in Slots /\ ~ Taken(job'[p].to)
      <3> DEFINE free == {i \in Slots : ~ Taken(i)}
      <3>1. ~ met' => free # {} /\ \A q \in Clients : pc[q] # "enter"
          BY <1>3 DEF Login
      <3>2. job'[p].to = Lowest(free)
          BY <1>3 DEF Login, Jobs
      <3>3. free # {} => Lowest(free) \in free
          BY LowestIs
      <3> QED
          BY <3>1, <3>2, <3>3
    <2> QED
        BY <1>2, <2>1, <2>2 DEF EntriesOK, Holds, Taken, Leaving, Serving
  <1>4. CASE Enter(p)
    <2>1. /\ pc[p] = "enter" /\ pc'[p] = "copy" /\ ~ Leaving(p)' /\ met' = met
          /\ users' = [i \in Slots |-> IF i = job[p].to THEN [pid |-> p, nick |-> NoName]
                                       ELSE users[i]]
        BY <1>4 DEF Enter, Announce, News, Idle, Leaving, history
    <2>2. \A i \in Slots : users'[i].pid = IF i = job[p].to THEN p ELSE users[i].pid
        BY <2>1
    <2>3. p # Nobody /\ \A i \in Slots : ~ Holds(p, i)
        BY <2>1, RwgMultiAssumption DEF RwgMultiAssumption, EntriesOK
    <2> HIDE <1>1
    <2>4. \A q \in Clients, i \in Slots : pc'[q] \in {"new", "enter"} => ~ Holds(q, i)'
        BY <1>2, <2>1, <2>2 DEF EntriesOK, Holds
    <2>5. \A i, j \in Slots : Taken(i)' /\ users'[i].pid = users'[j].pid => i = j
        BY <2>2, <2>3 DEF EntriesOK, Holds, Taken
    <2>6. ASSUME ~ met', NEW q \in Clients
          PROVE  /\ pc'[q] # "enter"
                 /\ pc'[q] \in Serving => \E i \in Slots : Holds(q, i)'
                 /\ Leaving(q)' => Holds(q, job[q].to)'
                 /\ pc'[q] = "exit" => \A i \in Slots : ~ Holds(q, i)'
      <3>1. job[p].to \in Slots /\ ~ Taken(job[p].to)
          BY <2>1, <2>6 DEF EntriesOK
      <3>2. CASE q = p
          BY <2>1, <2>2, <3>1, <3>2 DEF Holds, Serving
      <3>3. CASE q # p
        <4>1. pc'[q] = pc[q] /\ job'[q] = job[q] /\ q # Nobody
            BY <1>2, <3>3, RwgMultiAssumption DEF RwgMultiAssumption
        <4>2. \A i \in Slots : Holds(q, i)' <=> Holds(q, i)
            BY <2>2, <3>1, <3>3, <4>1 DEF Holds, Taken
        <4>3. Leaving(q) => job[q].to \in Slots
            BY <1>2
        <4> QED
            BY <2>1, <2>6, <3>3, <4>1, <4>2, <4>3 DEF EntriesOK, Holds, Leaving
      <3> QED
          BY <3>2, <3>3
    <2> QED
        BY <2>4, <2>5, <2>6 DEF EntriesOK, Serving
  <1>5. CASE Erase(p)
    <2>1. /\ pc[p] = "erase" /\ pc'[p] = "exit" /\ ~ Leaving(p)' /\ Leaving(p)
          /\ job[p].to \in Slots
          /\ users' = [users EXCEPT ![job[p].to] = Free]
        BY <1>5 DEF Erase, Idle, Leaving, JobOK
    <2>2. \A i \in Slots : users'[i].pid = IF i = job[p].to THEN Nobody ELSE users[i].pid
        BY <2>1 DEF Free
    <2>3. \A q \in Clients : q # Nobody
        BY RwgMultiAssumption DEF RwgMultiAssumption
    <2> HIDE <1>1
    <2> QED
        BY <1>2, <2>1, <2>2, <2>3 DEF EntriesOK, Holds, Taken, Leaving, Serving
  <1>6. CASE WriteName(p)
    <2>1. /\ pc[p] = "name" /\ pc'[p] = "copy" /\ ~ Leaving(p)'
          /\ users' = [i \in Slots |-> IF i = Id(p)
                                       THEN [users[i] EXCEPT !.nick = job[p].name]
                                       ELSE users[i]]
        BY <1>6 DEF WriteName, Announce, News, Idle, Leaving
    <2>2. \A i \in Slots : users'[i].pid = users[i].pid
        BY <2>1
    <2> HIDE <1>1
    <2> QED
        BY <1>2, <2>1, <2>2 DEF EntriesOK, Holds, Taken, Leaving, Serving
  <1>7. CASE Leave(p)
    <2>1. PICK i \in IF Id(p) = 0 THEN Slots ELSE {Id(p)} :
             Announce(p, [News("erase") EXCEPT !.to = i])
        BY <1>7 DEF Leave
    <2>2. UNCHANGED users /\ pc[p] = "prompt" /\ pc'[p] = "copy" /\ job'[p].to = i
        BY <1>7, <2>1 DEF Leave, Announce, News, Idle
    <2>3. ~ met => Holds(p, i)
        BY <2>1, <2>2, IdIs DEF EntriesOK, Serving
    <2> QED
        BY <2>2, <2>3, EntriesKept DEF Serving
  <1>8. CASE Copied(p)
      BY <1>8, EntriesKept DEF Copied, JobOK, EntriesOK, Leaving, Serving, Jobs
  <1>9. CASE Poke(p)
      BY <1>9, EntriesKept DEF Poke, JobOK, EntriesOK, Leaving, Serving, Jobs, shared, Idle
  <1>10. CASE Copy(p) \/ SignalReader(p) \/ MSGHandler(p) \/ PipeHandler(p) \/ Close(p)
      BY <1>10, EntriesKept DEF Copy, SignalReader, MSGHandler, PipeHandler, Close,
            EntriesOK, Leaving, Serving, shared
  <1>11. CASE FindPid(p)
      BY <1>11, EntriesKept DEF FindPid, EntriesOK, Leaving, Serving, shared, Jobs
  <1>12. CASE StartLoop(p) \/ TellKill(p) \/ Unlink(p)
      BY <1>12, EntriesKept DEF StartLoop, TellKill, Unlink, Idle, Leaving, Serving, shared
  <1>13. CASE NPyell(p) \/ OpenOut(p) \/ OpenFails(p)
      BY <1>13, EntriesKept DEF NPyell, OpenOut, OpenFails, Line, Announce, News, Idle, Leaving, Serving,
            shared
  <1>14. CASE Exit(p)
      BY <1>14, EntriesKept DEF Exit, JobOK, Leaving, Serving, shared
  <1>15. CASE Crash(p) \/ BrokenPipe(p) \/ HandlerMisses(p)
      BY <1>15, EntriesKept DEF Crash, BrokenPipe, HandlerMisses, Die, Idle, EntriesOK, Leaving,
            Serving, shared
  <1>16. ASSUME NEW n \in Names, NPname(p, n) PROVE EntriesOK'
      BY <1>16, EntriesKept DEF NPname, Line, JobOK, Leaving, Serving, shared, Jobs
  <1>17. ASSUME NEW n \in Slots, NPtell(p, n) \/ PipeOut(p, n) \/ PipeIn(p, n) PROVE EntriesOK'
      BY <1>17, EntriesKept DEF NPtell, PipeOut, PipeIn, Line, Announce, News, Idle, Leaving,
            Serving, shared
  <1>18. ASSUME NEW n \in Slots, PipeRefused(p, n) \/ ReadRefused(p, n) PROVE EntriesOK'
      BY <1>18, EntriesKept DEF PipeRefused, ReadRefused, EntriesOK, Leaving, Serving, shared,
            local
  <1> QED
      BY <1>3, <1>4, <1>5, <1>6, <1>7, <1>8, <1>9, <1>10, <1>11, <1>12, <1>13, <1>14, <1>15,
         <1>16, <1>17, <1>18 DEF Step, Work, ShowNews, OpenReader

-----------------------------------------------------------------------------
(* The first state. *)

\* Everything holds before the first login.
LEMMA InitInv == Init => IInv
  <1> SUFFICES ASSUME Init PROVE IInv
      OBVIOUS
  <1>1. /\ \A p \in Clients : pc[p] = "new" /\ job[p] = Idle /\ pend[p] = {} /\ owes[p] = {}
        /\ \A p \in Clients : opening[p] = Words /\ fdIn[p] = {}
        /\ \A i \in Slots : users[i] = Free /\ ~ Taken(i) /\ \A p \in Clients : ~ Holds(p, i)
        /\ ~ met /\ ~ disturbed
      BY RwgMultiAssumption DEF RwgMultiAssumption, Init, Taken, Holds, Free
  <1>2. TypeOK
    <2>1. Free \in [pid : Clients \cup {Nobody}, nick : Names \cup {NoName}]
        BY DEF Free
    <2>2. 0 \in 0 .. MaxLines
        BY RwgMultiAssumption DEF RwgMultiAssumption
    <2> QED
        BY <2>1, <2>2, JobTypes DEF Init, TypeOK, Pcs
  <1>3. JobsOK
      BY <1>1 DEF JobsOK, JobOK, Sending, Leaving, Idle
  <1>4. EntriesOK
      BY <1>1 DEF EntriesOK, Leaving, Serving, Idle
  <1>5. NamesOK
      BY <1>1 DEF NamesOK, NamesUnique, Free
  <1>6. NewsOK
      BY <1>1 DEF NewsOK
  <1>7. PipesHold
    <2>1. racing = {}
        BY DEF Init
    <2> QED
        BY <1>1, <2>1 DEF PipesHold, InOrder, UsersServe, AddressesHold, BoardHolds, SignalsHold,
              ReadersHold, Sending, InFlight, Serving, Idle
  <1> QED
      BY <1>2, <1>3, <1>4, <1>5, <1>6, <1>7 DEF IInv

-----------------------------------------------------------------------------
(* Nicknames. *)

\* A step that writes no name and brings nobody into the table, and sends nobody
\* to write one.
LEMMA NamesKept ==
  ASSUME TypeOK, NamesOK, NEW p \in Clients, Step(p),
         \A i \in Slots : users'[i] = users[i] \/ users'[i] = Free,
         pc'[p] # "name"
  PROVE  NamesOK'
  <1>1. (met => met') /\ \A q \in Clients \ {p} : pc'[q] = pc[q] /\ job'[q] = job[q]
      BY OwnWork, HistoryGrows
  <1>2. \A i \in Slots : Taken(i)' => Taken(i) /\ users'[i] = users[i]
      BY DEF Taken, Free
  <1>3. \A n : NameFree(n) => NameFree(n)'
      BY <1>2 DEF NameFree
  <1>4. ~ met' => NamesUnique'
    <2> SUFFICES ASSUME ~ met', NEW i \in Slots, NEW j \in Slots, i # j, Taken(i)',
                        users'[i].nick = users'[j].nick
                 PROVE  users'[i].nick = NoName
        BY DEF NamesUnique
    <2>1. users'[i] = users[i] /\ Taken(i) /\ (users'[j] = users[j] \/ users'[j] = Free)
        BY <1>2
    <2>2. Free.nick = NoName
        BY DEF Free
    <2> QED
        BY <1>1, <2>1, <2>2 DEF NamesOK, NamesUnique
  <1>5. \A i \in Slots : Taken(i)' \/ users'[i].nick = NoName
      BY DEF NamesOK, Taken, Free
  <1> QED
      BY <1>1, <1>3, <1>4, <1>5 DEF NamesOK

\* Every step keeps nicknames apart.
LEMMA NamesStep ==
  ASSUME TypeOK, JobsOK, EntriesOK, NamesOK, NEW p \in Clients, Step(p)
  PROVE  NamesOK'
  <1>1. /\ JobOK(p) /\ job[p] \in Jobs /\ job \in [Clients -> Jobs] /\ pc \in [Clients -> Pcs]
        /\ users \in [Slots -> [pid : Clients \cup {Nobody}, nick : Names \cup {NoName}]]
      BY DEF JobsOK, TypeOK
  <1>2. /\ met => met'
        /\ \A q \in Clients \ {p} : pc'[q] = pc[q] /\ job'[q] = job[q]
      BY OwnWork, HistoryGrows
  <1> USE <1>1 DEF At
  <1>3. CASE Enter(p)
    <2>1. /\ pc[p] = "enter" /\ pc'[p] = "copy" /\ met' = met
          /\ users' = [i \in Slots |-> IF i = job[p].to THEN [pid |-> p, nick |-> NoName]
                                       ELSE users[i]]
        BY <1>3 DEF Enter, Announce, history
    <2>2. \A i \in Slots : \/ users'[i] = users[i] /\ (Taken(i)' <=> Taken(i))
                           \/ users'[i].nick = NoName
        BY <2>1 DEF Taken
    <2>3. NoName \notin Names
        BY RwgMultiAssumption DEF RwgMultiAssumption
    <2> HIDE <1>1
    <2>4. \A n \in Names : NameFree(n) => NameFree(n)'
        BY <2>2, <2>3 DEF NameFree
    <2>5. ASSUME ~ met, NamesUnique, NEW i \in Slots, NEW j \in Slots, i # j, Taken(i)',
                 users'[i].nick = users'[j].nick, users'[i].nick # NoName
          PROVE  FALSE
      <3>1. users'[i] = users[i] /\ Taken(i) /\ users'[j] = users[j]
          BY <2>2, <2>5
      <3> QED
          BY <2>5, <3>1 DEF NamesUnique
    <2>6. \A i \in Slots : Taken(i)' \/ users'[i].nick = NoName
        BY <2>2 DEF NamesOK, Taken
    <2> QED
        BY <1>2, <2>1, <2>4, <2>5, <2>6 DEF NamesOK, NamesUnique
  <1>4. CASE WriteName(p)
    <2>1. /\ pc[p] = "name" /\ pc'[p] = "copy" /\ met' = met
          /\ users' = [i \in Slots |-> IF i = Id(p)
                                       THEN [users[i] EXCEPT !.nick = job[p].name]
                                       ELSE users[i]]
        BY <1>4 DEF WriteName, Announce, history
    <2>2. \A i \in Slots : /\ Taken(i)' <=> Taken(i)
                           /\ users'[i].nick = IF i = Id(p) THEN job[p].name ELSE users[i].nick
        BY <2>1 DEF Taken
    <2> HIDE <1>1
    <2>3. Id(p) = 0 \/ Taken(Id(p))
        BY IdIs, RwgMultiAssumption DEF Taken, Holds, RwgMultiAssumption
    <2>4. \A i \in Slots : Taken(i)' \/ users'[i].nick = NoName
        BY <2>2, <2>3, IdIs DEF NamesOK
    <2>5. SUFFICES ASSUME ~ met PROVE NamesOK'
        BY <2>1, <2>4 DEF NamesOK
    <2>6. /\ \A q \in Clients : pc'[q] # "name"
          /\ job[p].name \in Names /\ NameFree(job[p].name) /\ NamesUnique
        BY <1>2, <2>1, <2>5 DEF NamesOK
    <2>7. Id(p) \in Slots /\ Holds(p, Id(p)) /\ p # Nobody
        BY <2>1, <2>5, IdIs, RwgMultiAssumption DEF EntriesOK, Serving, RwgMultiAssumption
    <2>8. Taken(Id(p))
        BY <2>7 DEF Taken, Holds
    <2>9. NamesUnique'
      <3> SUFFICES ASSUME NEW i \in Slots, NEW j \in Slots, i # j, Taken(i)',
                          users'[i].nick = users'[j].nick
                   PROVE  users'[i].nick = NoName
          BY DEF NamesUnique
      <3>1. Taken(i)
          BY <2>2
      <3>2. CASE i # Id(p) /\ j # Id(p)
        <4>1. users'[i].nick = users[i].nick /\ users'[j].nick = users[j].nick
            BY <2>2, <3>2
        <4> QED
            BY <2>5, <2>6, <3>1, <4>1 DEF NamesUnique
      <3>3. CASE j = Id(p)
          BY <2>2, <2>6, <3>1, <3>3 DEF NameFree
      <3>4. CASE i = Id(p)
        <4>1. users[j].nick = job[p].name
            BY <2>2, <3>4
        <4>2. ~ Taken(j)
            BY <2>6, <4>1 DEF NameFree
        <4>3. users[j].nick = NoName /\ NoName \notin Names
            BY <4>2, RwgMultiAssumption DEF NamesOK, RwgMultiAssumption
        <4> QED
            BY <2>6, <4>1, <4>3
      <3> QED
          BY <3>2, <3>3, <3>4
    <2> QED
        BY <2>1, <2>5, <2>6, <2>9, <2>4 DEF NamesOK
  <1>5. ASSUME NEW n \in Names, NPname(p, n) PROVE NamesOK'
    <2>1. /\ pc[p] = "prompt" /\ pc'[p] = "name" /\ NameFree(n) /\ UNCHANGED users
          /\ job'[p].name = n
          /\ ~ met' => ~ met /\ \A q \in Clients : pc[q] # "name"
        BY <1>5 DEF NPname, Line, shared, Jobs
    <2> QED
        BY <1>2, <1>5, <2>1 DEF NamesOK, NameFree, NamesUnique, Taken
  <1>6. CASE Erase(p)
    <2>1. \A i \in Slots : users'[i] = users[i] \/ users'[i] = Free
        BY <1>6 DEF Erase
    <2>2. pc'[p] # "name"
        BY <1>6 DEF Erase
    <2> QED
        BY <2>1, <2>2, NamesKept
  <1>7. CASE Login(p) \/ StartLoop(p) \/ TellKill(p) \/ Unlink(p) \/ Exit(p) \/ FindPid(p)
             \/ SignalReader(p) \/ Copy(p)
      BY <1>7, NamesKept DEF Login, StartLoop, TellKill, Unlink, Exit, FindPid, SignalReader, Copy,
            shared
  <1>8. CASE Copied(p) \/ Poke(p)
      BY <1>8, NamesKept DEF Copied, Poke, JobOK, shared
  <1>9. CASE MSGHandler(p) \/ PipeHandler(p) \/ Close(p) \/ Crash(p) \/ BrokenPipe(p)
             \/ HandlerMisses(p)
    <2>1. CASE pc'[p] # "name"
        BY <1>9, <2>1, NamesKept DEF MSGHandler, PipeHandler, Close, Crash, BrokenPipe,
              HandlerMisses, Die, shared
    <2>2. CASE pc'[p] = "name"
      <3>1. UNCHANGED <<users, pc, job>>
          BY <1>9, <2>2 DEF MSGHandler, PipeHandler, Close, Crash, BrokenPipe, HandlerMisses, Die,
                shared
      <3> QED
          BY <1>2, <3>1 DEF NamesOK, NameFree, NamesUnique, Taken
    <2> QED
        BY <2>1, <2>2
  <1>10. CASE NPyell(p) \/ OpenOut(p) \/ OpenFails(p) \/ Leave(p)
      BY <1>10, NamesKept DEF NPyell, OpenOut, OpenFails, Leave, Announce, shared
  <1>11. ASSUME NEW n \in Slots, NPtell(p, n) \/ PipeOut(p, n) \/ PipeIn(p, n) PROVE NamesOK'
      BY <1>11, NamesKept DEF NPtell, PipeOut, PipeIn, Announce, shared
  <1>12. ASSUME NEW n \in Slots, PipeRefused(p, n) \/ ReadRefused(p, n) PROVE NamesOK'
      BY <1>12, NamesKept DEF PipeRefused, ReadRefused, Line, shared, local
  <1> QED
      BY <1>3, <1>4, <1>5, <1>6, <1>7, <1>8, <1>9, <1>10, <1>11, <1>12
         DEF Step, Work, ShowNews, OpenReader

-----------------------------------------------------------------------------
(* News. *)

\* kill takes no signal away, and the process it is meant for has it if it runs.
LEMMA KillAdds ==
  ASSUME TypeOK, NEW p \in Clients, NEW q \in Clients \cup {Nobody},
         NEW s \in {"usr1", "usr2"}, Kill(p, q, s)
  PROVE  /\ \A r \in Clients : pend[r] \subseteq pend'[r]
         /\ q \in Clients /\ Live(q) => s \in pend'[q]
         /\ q \in Clients => \A r \in Clients : r # q => pend'[r] = pend[r]
  <1>1. pend \in [Clients -> SUBSET {"usr1", "usr2"}] /\ Nobody \notin Clients
      BY RwgMultiAssumption DEF TypeOK, RwgMultiAssumption
  <1> QED
      BY <1>1 DEF Kill

\* A step outside broadcast's loop, or of a handler, that brings nobody into the
\* table and takes no signal from one who owes to show the board.
LEMMA NewsKept ==
  ASSUME TypeOK, NewsOK, NEW p \in Clients, Step(p),
         \A q \in Clients : owes'[q] \subseteq owes[q],
         \A r \in Clients, i \in Slots : Holds(r, i)' => Holds(r, i),
         \A r \in Clients : \/ "usr1" \in pend[r] => "usr1" \in pend'[r]
                            \/ pc'[r] = "gone" \/ \A q \in Clients : r \notin owes'[q],
         \/ pc'[p] = pc[p] /\ job'[p] = job[p]
         \/ pc[p] # "poke" /\ pc'[p] # "poke"
         \/ owes'[p] = {},
         pc'[p] \in {"new", "enter"} => pc'[p] = pc[p] \/ pc[p] = "new",
         pc'[p] # "gone" => pc[p] # "gone"
  PROVE  NewsOK'
  <1>1. \A q \in Clients \ {p} : pc'[q] = pc[q] /\ job'[q] = job[q]
      BY OwnWork
  <1> QED
      BY <1>1 DEF NewsOK, Live

\* Every step keeps the signals that broadcasts sent until they are shown.
LEMMA NewsStep ==
  ASSUME TypeOK, JobsOK, EntriesOK, NewsOK, NEW p \in Clients, Step(p)
  PROVE  NewsOK'
  <1>1. /\ JobOK(p) /\ job[p] \in Jobs /\ job \in [Clients -> Jobs] /\ pc \in [Clients -> Pcs]
        /\ users \in [Slots -> [pid : Clients \cup {Nobody}, nick : Names \cup {NoName}]]
        /\ owes \in [Clients -> SUBSET Clients]
        /\ pend \in [Clients -> SUBSET {"usr1", "usr2"}]
      BY DEF JobsOK, TypeOK
  <1>2. \A q \in Clients \ {p} : pc'[q] = pc[q] /\ job'[q] = job[q]
      BY OwnWork
  <1>3. Nobody \notin Clients
      BY RwgMultiAssumption DEF RwgMultiAssumption
  <1> USE <1>1 DEF At
  <1>4. CASE Enter(p)
    <2>1. /\ pc[p] = "enter" /\ pc'[p] = "copy" /\ UNCHANGED <<pend, owes>>
          /\ users' = [i \in Slots |-> IF i = job[p].to THEN [pid |-> p, nick |-> NoName]
                                       ELSE users[i]]
        BY <1>4 DEF Enter, Announce, history
    <2>2. \A r \in Clients \ {p}, i \in Slots : Holds(r, i)' => Holds(r, i)
        BY <2>1 DEF Holds
    <2>3. \A q \in Clients : p \notin owes[q]
        BY <2>1 DEF NewsOK
    <2> QED
        BY <1>2, <2>1, <2>2, <2>3 DEF NewsOK, Live
  <1>5. CASE Copied(p)
    <2>1. /\ pc[p] = "copying" /\ pc'[p] = job[p].next /\ UNCHANGED <<pend, users>>
          /\ pc'[p] \in {"poke", "tell", "look"}
          /\ pc'[p] = "poke" => job'[p].at = 1 /\ owes'[p] = Listed
          /\ pc'[p] # "poke" => owes'[p] = {}
          /\ \A q \in Clients \ {p} : owes'[q] = owes[q]
        BY <1>5 DEF Copied, JobOK, Jobs
    <2>2. \A i \in Slots : ~ (i < 1)
        BY RwgMultiAssumption DEF RwgMultiAssumption, Slots
    <2>3. \A r \in Clients : r \in Listed => pc[r] \notin {"new", "enter"}
        BY DEF Listed, EntriesOK, Holds
    <2> QED
        BY <1>2, <2>1, <2>2, <2>3 DEF NewsOK, Holds, Live
  <1>6. CASE Poke(p)
    <2> DEFINE i == job[p].at
    <2>1. /\ pc[p] = "poke" /\ UNCHANGED <<users, owes>>
          /\ IF Taken(i) THEN Kill(p, users[i].pid, "usr1") ELSE UNCHANGED pend
          /\ \/ i < MaxUsers /\ pc'[p] = "poke" /\ job'[p].at = i + 1
             \/ ~ (i < MaxUsers) /\ pc'[p] # "poke"
        BY <1>6 DEF Poke, shared, history, JobOK, Jobs
    <2>2. i \in Slots /\ pc'[p] \notin {"new", "enter", "gone"}
        BY <1>6 DEF Poke, JobOK
    <2>3. \A r \in Clients : pend[r] \subseteq pend'[r]
        BY <2>1, <2>2, KillAdds
    <2>4. \A r \in Clients : Holds(r, i) /\ Live(r) => "usr1" \in pend'[r]
        BY <1>3, <2>1, <2>2, KillAdds DEF Holds, Taken
    <2>5. \A j \in Slots : (pc'[p] # "poke" \/ j < job'[p].at) => j < i \/ j = i
        BY <2>1, <2>2, RwgMultiAssumption DEF RwgMultiAssumption, Slots
    <2> HIDE <1>1 DEF i
    <2>6. ASSUME NEW q \in Clients, NEW r \in owes[q]
          PROVE  /\ pc'[r] \notin {"new", "enter"}
                 /\ Live(r)' => \A j \in Slots :
                       Holds(r, j)' /\ (pc'[q] # "poke" \/ j < job'[q].at) => "usr1" \in pend'[r]
      <3>1. r \in Clients /\ (Live(r)' => Live(r)) /\ pc'[r] \notin {"new", "enter"}
          BY <1>1, <1>2, <2>1, <2>2, <2>6 DEF NewsOK, Live
      <3>2. \A j \in Slots : Holds(r, j)' <=> Holds(r, j)
          BY <2>1 DEF Holds
      <3>3. CASE q = p
          BY <2>1, <2>3, <2>4, <2>5, <2>6, <3>1, <3>2, <3>3 DEF NewsOK, i
      <3>4. CASE q # p
          BY <1>2, <2>3, <2>6, <3>1, <3>2, <3>4 DEF NewsOK
      <3> QED
          BY <3>1, <3>3, <3>4
    <2> QED
        BY <2>1, <2>6 DEF NewsOK
  <1>7. CASE MSGHandler(p)
    <2>1. /\ UNCHANGED <<users, pc, job>> /\ owes' = [q \in Clients |-> owes[q] \ {p}]
          /\ \A r \in Clients \ {p} : pend'[r] = pend[r]
          /\ pc[p] # "gone"
        BY <1>7 DEF MSGHandler, shared, Live
    <2> QED
        BY <2>1, NewsKept DEF Holds
  <1>8. CASE PipeHandler(p) \/ (HandlerMisses(p) /\ ~ Die(p))
    <2>1. /\ UNCHANGED <<users, pc, job, owes>>
          /\ pend' = [pend EXCEPT ![p] = @ \ {"usr2"}]
          /\ pc[p] # "gone"
        BY <1>8 DEF PipeHandler, HandlerMisses, shared, history, Live
    <2> QED
        BY <2>1, NewsKept DEF Holds
  <1>9. CASE Die(p)
    <2>1. /\ UNCHANGED users /\ pc'[p] = "gone" /\ owes'[p] = {}
          /\ \A q \in Clients \ {p} : owes'[q] = owes[q] /\ pend'[q] = pend[q]
        BY <1>9 DEF Die
    <2> QED
        BY <1>2, <2>1, NewsKept DEF Holds
  <1>10. CASE Erase(p)
    <2>1. /\ pc[p] = "erase" /\ pc'[p] = "exit" /\ UNCHANGED <<owes, pend>>
          /\ users' = [users EXCEPT ![job[p].to] = Free]
        BY <1>10 DEF Erase
    <2>2. \A r \in Clients, i \in Slots : Holds(r, i)' => Holds(r, i)
        BY <1>3, <2>1 DEF Holds, Free
    <2> QED
        BY <2>1, <2>2, NewsKept
  <1>11. CASE Exit(p)
    <2>1. /\ pc[p] = "exit" /\ pc'[p] = "gone" /\ UNCHANGED <<users, pend>> /\ owes'[p] = {}
          /\ \A q \in Clients \ {p} : owes'[q] = owes[q]
        BY <1>11 DEF Exit, shared
    <2> QED
        BY <2>1, NewsKept DEF Holds
  <1>12. CASE WriteName(p)
    <2>1. /\ pc[p] = "name" /\ pc'[p] = "copy" /\ UNCHANGED <<owes, pend>>
          /\ users' = [i \in Slots |-> IF i = Id(p)
                                       THEN [users[i] EXCEPT !.nick = job[p].name]
                                       ELSE users[i]]
        BY <1>12 DEF WriteName, Announce, history
    <2>2. \A r \in Clients, i \in Slots : Holds(r, i)' => Holds(r, i)
        BY <2>1 DEF Holds
    <2> QED
        BY <2>1, <2>2, NewsKept
  <1>13. CASE TellKill(p) \/ SignalReader(p)
    <2>1. UNCHANGED <<users, owes>> /\ pc[p] \in {"tell", "kill"} /\ pc'[p] \in {"prompt", "wopen"}
        BY <1>13 DEF TellKill, SignalReader, shared, history
    <2>2. \A r \in Clients : pend[r] \subseteq pend'[r]
        BY <1>13 DEF TellKill, SignalReader, Kill
    <2> QED
        BY <2>1, <2>2, NewsKept DEF Holds
  <1>14. CASE Login(p) \/ StartLoop(p) \/ Unlink(p) \/ FindPid(p) \/ Copy(p)
    <2>1. UNCHANGED <<users, owes, pend>>
        BY <1>14 DEF Login, StartLoop, Unlink, FindPid, Copy, shared, history
    <2>2. /\ pc[p] \in {"new", "reset", "unlink", "look", "copy"}
          /\ pc'[p] \in {"enter", "prompt", "kill", "copying"}
          /\ pc'[p] = "enter" => pc[p] = "new"
        BY <1>14 DEF Login, StartLoop, Unlink, FindPid, Copy
    <2> QED
        BY <2>1, <2>2, NewsKept DEF Holds
  <1>15. CASE Close(p)
      BY <1>15, NewsKept DEF Close, shared, history, Holds, Live
  <1>16. CASE NPyell(p) \/ OpenOut(p) \/ OpenFails(p) \/ Leave(p)
    <2>1. /\ UNCHANGED <<users, owes, pend>>
          /\ pc[p] \in {"prompt", "wopen"} /\ pc'[p] = "copy"
        BY <1>16 DEF NPyell, OpenOut, OpenFails, Leave, Line, Announce, shared, history
    <2> QED
        BY <2>1, NewsKept DEF Holds
  <1>17. ASSUME NEW n \in Slots, NPtell(p, n) \/ PipeOut(p, n) \/ PipeIn(p, n) PROVE NewsOK'
    <2>1. UNCHANGED <<users, owes, pend>> /\ pc[p] = "prompt" /\ pc'[p] = "copy"
        BY <1>17 DEF NPtell, PipeOut, PipeIn, Line, Announce, shared, history
    <2> QED
        BY <2>1, NewsKept DEF Holds
  <1>18. ASSUME NEW n \in Slots, PipeRefused(p, n) \/ ReadRefused(p, n) PROVE NewsOK'
    <2>1. UNCHANGED <<users, owes, pend>> /\ pc[p] = "prompt" /\ pc'[p] = "prompt"
        BY <1>18 DEF PipeRefused, ReadRefused, Line, shared, local, history
    <2> QED
        BY <2>1, NewsKept DEF Holds
  <1>19. ASSUME NEW n \in Names, NPname(p, n) PROVE NewsOK'
    <2>1. UNCHANGED <<users, owes, pend>> /\ pc[p] = "prompt" /\ pc'[p] = "name"
        BY <1>19 DEF NPname, Line, shared
    <2> QED
        BY <2>1, NewsKept DEF Holds
  <1> QED
      BY <1>4, <1>5, <1>6, <1>7, <1>8, <1>9, <1>10, <1>11, <1>12, <1>13, <1>14, <1>15, <1>16,
         <1>17, <1>18, <1>19 DEF Step, Work, ShowNews, OpenReader, Crash, BrokenPipe

-----------------------------------------------------------------------------
(* User pipes. *)

\* What is known in a step that disturbs nothing.
LEMMA QuietStep ==
  ASSUME IInv, NEW p \in Clients, Step(p), Quiet'
  PROVE  /\ InOrder /\ Quiet /\ ~ met /\ ~ disturbed /\ Nobody \notin Clients
         /\ JobOK(p) /\ JobOK(p)'
         /\ \A q \in Clients : Sending(q) =>
               /\ job[q].address \in Paths /\ ~ Leaving(q)
               /\ pc[q] \in {"copy", "copying", "look", "kill", "wopen"}
         /\ \A q \in Clients : pc[q] = "wopen" => Sending(q)
         /\ \A q \in Clients \ {p} : pc'[q] = pc[q] /\ job'[q] = job[q]
  <1>1. TypeOK /\ JobsOK /\ PipesHold
      BY DEF IInv
  <1>2. JobsOK'
      BY <1>1, JobsStep
  <1>3. Quiet /\ \A q \in Clients \ {p} : pc'[q] = pc[q] /\ job'[q] = job[q]
      BY <1>1, OwnWork, HistoryGrows DEF Quiet
  <1> QED
      BY <1>1, <1>2, <1>3, RwgMultiAssumption
         DEF RwgMultiAssumption, PipesHold, Quiet, JobsOK, JobOK, Leaving

\* Two senders have two addresses, and two processes two entries.
LEMMA Apart ==
  ASSUME TypeOK, AddressesHold, NEW q \in Clients, NEW r \in Clients, Sending(q), Sending(r),
         job[q].address = job[r].address
  PROVE  q = r
  BY DEF AddressesHold, Holds

\* A step that gives no entry to anybody and after which its process serves on.
LEMMA ServeKept ==
  ASSUME IInv, NEW p \in Clients, Step(p), Quiet',
         \A i \in Slots : users'[i].pid = users[i].pid,
         pc[p] \in Serving => pc'[p] \in Serving
  PROVE  UsersServe'
  <1> SUFFICES ASSUME NEW i \in Slots, Taken(i) PROVE pc'[users[i].pid] \in Serving
      BY DEF UsersServe, Taken
  <1>1. /\ InOrder /\ \A q \in Clients \ {p} : pc'[q] = pc[q] /\ job'[q] = job[q]
      BY QuietStep
  <1>2. pc[users[i].pid] \in Serving /\ users[i].pid \in Clients
      BY <1>1 DEF InOrder, UsersServe, Taken, IInv, TypeOK
  <1> QED
      BY <1>1, <1>2

\* A step that opens no FIFO for reading, and removes none that one may still read.
LEMMA ReadersKept ==
  ASSUME IInv, NEW p \in Clients, Step(p), Quiet',
         \A i \in Slots : users'[i].pid = users[i].pid,
         \A r \in Clients \ {p} : fdIn'[r] = fdIn[r],
         fdIn'[p] \subseteq fdIn[p],
         pc'[p] \in Serving => pc[p] \in Serving /\ (Leaving(p) => Leaving(p)'),
         job'[p].then = "unlink" => job'[p].file \in fdIn'[p],
         pc'[p] \in {"new", "enter"} => pc[p] \in {"new", "enter"},
         \A r \in Clients : pc'[r] \in Serving /\ ~ Leaving(r)' =>
            \A f \in fdIn'[r] : f \in fifos => f \in fifos'
  PROVE  ReadersHold'
  <1> SUFFICES ASSUME NEW r \in Clients
               PROVE  /\ pc'[r] \in {"new", "enter"} => fdIn'[r] = {}
                      /\ pc'[r] \in Serving => \A f \in fdIn'[r] :
                            f \in Paths /\ users'[f[2]].pid = r /\ (~ Leaving(r)' => f \in fifos')
                      /\ job'[r].then = "unlink" => job'[r].file \in fdIn'[r]
      BY DEF ReadersHold, Holds
  <1>1. InOrder /\ \A q \in Clients \ {p} : pc'[q] = pc[q] /\ job'[q] = job[q]
      BY QuietStep
  <1>2. /\ pc'[r] \in {"new", "enter"} => pc[r] \in {"new", "enter"}
        /\ pc'[r] \in Serving => pc[r] \in Serving /\ (Leaving(r) => Leaving(r)')
        /\ fdIn'[r] \subseteq fdIn[r]
        /\ r # p => job'[r] = job[r] /\ fdIn'[r] = fdIn[r]
      BY <1>1 DEF Leaving
  <1>3. \A f \in Paths : f[2] \in Slots
      BY DEF Paths
  <1> QED
      BY <1>1, <1>2, <1>3 DEF InOrder, ReadersHold, Holds

\* A step that leaves pipes, the board and the signals for readers alone.
LEMMA PipesKept ==
  ASSUME IInv, NEW p \in Clients, Step(p), Quiet',
         \A i \in Slots : users'[i].pid = users[i].pid,
         UNCHANGED <<fifos, opening, board, racing>>,
         \A r \in Clients : "usr2" \in pend'[r] <=> "usr2" \in pend[r],
         \A r \in Clients \ {p} : fdIn'[r] = fdIn[r],
         fdIn'[p] \subseteq fdIn[p],
         \/ pc'[p] = pc[p] /\ job'[p] = job[p]
         \/ ~ Sending(p) /\ ~ Sending(p)' /\ pc[p] # "copying" /\ pc'[p] # "copying",
         pc'[p] \in Serving <=> pc[p] \in Serving,
         pc'[p] \in Serving /\ Leaving(p) => Leaving(p)',
         job'[p].then = "unlink" => job'[p].file \in fdIn'[p],
         pc'[p] \in {"new", "enter"} => pc[p] \in {"new", "enter"}
  PROVE  InOrder'
  <1>1. /\ InOrder /\ JobOK(p) /\ JobOK(p)' /\ ~ met
        /\ \A q \in Clients \ {p} : pc'[q] = pc[q] /\ job'[q] = job[q]
      BY QuietStep
  <1>2. \A q \in Clients, i \in Slots : Holds(q, i)' <=> Holds(q, i)
      BY DEF Holds
  <1>3. \A i \in Slots : Taken(i)' <=> Taken(i)
      BY DEF Taken
  <1>4. \A q \in Clients : /\ Sending(q)' <=> Sending(q)
                           /\ Sending(q) => pc'[q] = pc[q] /\ job'[q] = job[q]
                           /\ InFlight(q)' <=> InFlight(q)
      BY <1>1 DEF Sending, InFlight
  <1>5. UsersServe'
      BY ServeKept
  <1>6. AddressesHold'
    <2> SUFFICES ASSUME NEW q \in Clients, Sending(q)
                 PROVE  /\ users'[job[q].address[1]].pid = q
                        /\ users'[job[q].address[2]].pid # Nobody
                        /\ job[q].address \in fifos
                        /\ \A r \in Clients : pc'[r] \in Serving /\ ~ Leaving(r)' =>
                              job[q].address \notin fdIn'[r]
                        /\ pc[q] \in {"kill", "wopen"} =>
                              users'[job[q].address[2]].pid = job[q].pid
        BY <1>4 DEF AddressesHold, Holds, Taken
    <2>1. job[q].address[1] \in Slots /\ job[q].address[2] \in Slots
        BY QuietStep DEF Paths
    <2>2. \A r \in Clients : pc'[r] \in Serving /\ ~ Leaving(r)' =>
             /\ pc[r] \in Serving /\ ~ Leaving(r) /\ fdIn'[r] \subseteq fdIn[r]
        BY <1>1 DEF Leaving
    <2> QED
        BY <1>1, <2>1, <2>2 DEF InOrder, AddressesHold, Holds, Taken
  <1>7. BoardHolds'
    <2>1. \A q \in racing : q \in Clients /\ pc[q] = "copying" => pc'[q] = "copying"
        BY <1>1 DEF InOrder, BoardHolds, IInv, TypeOK
    <2>2. \A q \in Clients : pc'[q] = "copying" <=> pc[q] = "copying"
        BY <1>1
    <2>3. \A q \in Clients : InFlight(q) => Sending(q)
        BY DEF InFlight, Sending
    <2>4. BoardHolds /\ racing' = racing /\ board' = board /\ racing \subseteq Clients
        BY <1>1 DEF InOrder, IInv, TypeOK
    <2>5. \A q \in racing' : pc'[q] = "copying"
        BY <2>1, <2>4 DEF BoardHolds
    <2>6. ASSUME NEW q \in Clients, InFlight(q)'
          PROVE  /\ q \notin racing'
                 /\ pc'[q] # "copying" => board' = job'[q].address
                 /\ \A r \in Clients \ {q} : pc'[r] # "copying" /\ ~ InFlight(r)'
        BY <1>4, <2>2, <2>3, <2>4, <2>6 DEF BoardHolds
    <2> QED
        BY <2>5, <2>6 DEF BoardHolds
  <1>8. SignalsHold'
    <2>1. \A q \in Clients : pc[q] = "wopen" <=> pc'[q] = "wopen"
        BY <1>1 DEF JobOK, Sending
    <2>2. \A q \in Clients : pc[q] = "wopen" => job'[q] = job[q]
        BY <1>4, QuietStep
    <2> QED
        BY <1>1, <1>4, <2>1, <2>2 DEF InOrder, SignalsHold
  <1>9. ReadersHold'
      BY ReadersKept
  <1> QED
      BY <1>5, <1>6, <1>7, <1>8, <1>9 DEF InOrder

\* Enter: the new entry was free, and its process has no read end.
LEMMA EnterInOrder ==
  ASSUME IInv, NEW p \in Clients, Enter(p), Quiet'
  PROVE  InOrder'
  <1>0. Step(p)
      BY DEF Step, Work
  <1>1. /\ InOrder /\ ~ met /\ Nobody \notin Clients /\ JobOK(p)
        /\ \A q \in Clients : Sending(q) => job[q].address \in Paths
        /\ \A q \in Clients \ {p} : pc'[q] = pc[q] /\ job'[q] = job[q]
      BY <1>0, QuietStep
  <1>2. /\ pc[p] = "enter" /\ pc'[p] = "copy" /\ ~ Sending(p)' /\ ~ Leaving(p)'
        /\ job'[p].then # "unlink" /\ job'[p].address = Words
        /\ UNCHANGED <<board, fifos, pend, opening, fdIn, racing>>
        /\ users' = [i \in Slots |-> IF i = job[p].to THEN [pid |-> p, nick |-> NoName]
                                     ELSE users[i]]
      BY DEF Enter, At, Announce, News, Idle, Sending, Leaving, history, IInv, TypeOK
  <1>3. job[p].to \in Slots /\ ~ Taken(job[p].to) /\ ~ Sending(p)
      BY <1>1, <1>2 DEF IInv, EntriesOK, JobOK
  <1>4. /\ \A i \in Slots : Taken(i) => users'[i].pid = users[i].pid /\ i # job[p].to
        /\ \A i \in Slots : ~ Taken(i) => users'[i].pid = users[i].pid \/ i = job[p].to
        /\ users'[job[p].to].pid = p
      BY <1>2, <1>3
  <1>5. \A q \in Clients : /\ Sending(q)' <=> Sending(q)
                           /\ Sending(q) => q # p /\ pc'[q] = pc[q] /\ job'[q] = job[q]
                           /\ InFlight(q)' <=> InFlight(q)
                           /\ InFlight(q) => Sending(q)
      BY <1>1, <1>2, <1>3 DEF Sending, InFlight
  <1>6. UsersServe'
    <2>1. \A i \in Slots : Taken(i) => users[i].pid \in Clients /\ users[i].pid # p
      <3>1. \A i \in Slots : ~ Holds(p, i)
          BY <1>2 DEF IInv, EntriesOK
      <3> QED
          BY <3>1 DEF Taken, Holds, IInv, TypeOK
    <2> QED
        BY <1>1, <1>2, <1>4, <2>1 DEF InOrder, UsersServe, Taken, Serving
  <1>7. AddressesHold'
    <2> SUFFICES ASSUME NEW q \in Clients, Sending(q)
                 PROVE  /\ users'[job[q].address[1]].pid = q
                        /\ users'[job[q].address[2]].pid # Nobody
                        /\ job[q].address \in fifos
                        /\ \A r \in Clients : pc'[r] \in Serving /\ ~ Leaving(r)' =>
                              job[q].address \notin fdIn[r]
                        /\ pc[q] \in {"kill", "wopen"} =>
                              users'[job[q].address[2]].pid = job[q].pid
        BY <1>2, <1>5 DEF AddressesHold, Holds, Taken
    <2>1. job[q].address[1] \in Slots /\ job[q].address[2] \in Slots
        BY <1>1 DEF Paths
    <2>2. fdIn[p] = {} /\ \A r \in Clients : r # p => (Leaving(r)' <=> Leaving(r))
        BY <1>1, <1>2 DEF InOrder, ReadersHold, Leaving
    <2>3. q # Nobody
        BY <1>1
    <2> QED
        BY <1>1, <1>4, <2>1, <2>2, <2>3 DEF InOrder, AddressesHold, Holds, Taken
  <1>8. BoardHolds'
    <2>1. \A q \in Clients : pc'[q] = "copying" <=> pc[q] = "copying"
        BY <1>1, <1>2
    <2>2. racing \subseteq Clients
        BY DEF IInv, TypeOK
    <2> QED
        BY <1>1, <1>2, <1>5, <2>1, <2>2 DEF InOrder, BoardHolds
  <1>9. SignalsHold'
    <2>1. \A q \in Clients : pc[q] = "wopen" <=> pc'[q] = "wopen"
        BY <1>1, <1>2
    <2>2. \A q \in Clients : pc[q] = "wopen" => job'[q] = job[q]
        BY <1>1, <1>2
    <2> QED
        BY <1>1, <1>2, <1>5, <2>1, <2>2 DEF InOrder, SignalsHold
  <1>10. ReadersHold'
    <2> SUFFICES ASSUME NEW r \in Clients
                 PROVE  /\ pc'[r] \in {"new", "enter"} => fdIn[r] = {}
                        /\ pc'[r] \in Serving => \A f \in fdIn[r] :
                              f \in Paths /\ users'[f[2]].pid = r /\ (~ Leaving(r)' => f \in fifos)
                        /\ job'[r].then = "unlink" => job'[r].file \in fdIn[r]
        BY <1>2 DEF ReadersHold, Holds
    <2>1. \A f \in Paths : f[2] \in Slots
        BY DEF Paths
    <2>2. CASE r = p
        BY <1>1, <1>2, <2>2 DEF InOrder, ReadersHold
    <2>3. CASE r # p
        BY <1>1, <1>4, <2>1, <2>3 DEF InOrder, ReadersHold, Holds, Taken, Leaving
    <2> QED
        BY <2>2, <2>3
  <1> QED
      BY <1>6, <1>7, <1>8, <1>9, <1>10 DEF InOrder

\* Erase: no sender is after the entry that becomes free.
LEMMA EraseInOrder ==
  ASSUME IInv, NEW p \in Clients, Erase(p), Quiet'
  PROVE  InOrder'
  <1>0. Step(p)
      BY DEF Step, Work
  <1>1. /\ InOrder /\ ~ met /\ Nobody \notin Clients /\ JobOK(p)
        /\ \A q \in Clients : Sending(q) => job[q].address \in Paths
        /\ \A q \in Clients \ {p} : pc'[q] = pc[q] /\ job'[q] = job[q]
      BY <1>0, QuietStep
  <1>2. /\ pc[p] = "erase" /\ pc'[p] = "exit" /\ ~ Sending(p)' /\ Leaving(p)
        /\ job'[p].then # "unlink" /\ job'[p].address = Words
        /\ UNCHANGED <<board, fifos, pend, opening, fdIn, racing>>
        /\ users' = [users EXCEPT ![job[p].to] = Free]
        /\ ~ Sought(job[p].to)
      BY <1>1 DEF Erase, At, Idle, Sending, Leaving, IInv, TypeOK, Quiet, JobOK
  <1>3. job[p].to \in Slots /\ Holds(p, job[p].to) /\ ~ Sending(p)
      BY <1>1, <1>2 DEF IInv, EntriesOK, JobOK
  <1>4. /\ \A i \in Slots : i # job[p].to => users'[i].pid = users[i].pid
        /\ users'[job[p].to].pid = Nobody
      BY <1>2, <1>3 DEF Free, IInv, TypeOK
  <1>5. \A q \in Clients : /\ Sending(q)' <=> Sending(q)
                           /\ Sending(q) => q # p /\ pc'[q] = pc[q] /\ job'[q] = job[q]
                           /\ InFlight(q)' <=> InFlight(q)
                           /\ InFlight(q) => Sending(q)
      BY <1>1, <1>2, <1>3 DEF Sending, InFlight
  <1>6. UsersServe'
    <2>1. \A i \in Slots : i # job[p].to => users[i].pid # p
        BY <1>1, <1>3 DEF Holds, Taken, IInv, EntriesOK
    <2>2. \A i \in Slots : Taken(i) => users[i].pid \in Clients
        BY DEF Taken, IInv, TypeOK
    <2> QED
        BY <1>1, <1>2, <1>4, <2>1, <2>2 DEF InOrder, UsersServe, Taken
  <1>7. AddressesHold'
    <2> SUFFICES ASSUME NEW q \in Clients, Sending(q)
                 PROVE  /\ users'[job[q].address[1]].pid = q
                        /\ users'[job[q].address[2]].pid # Nobody
                        /\ job[q].address \in fifos
                        /\ \A r \in Clients : pc'[r] \in Serving /\ ~ Leaving(r)' =>
                              job[q].address \notin fdIn[r]
                        /\ pc[q] \in {"kill", "wopen"} =>
                              users'[job[q].address[2]].pid = job[q].pid
        BY <1>2, <1>5 DEF AddressesHold, Holds, Taken
    <2>1. job[q].address[1] \in Slots /\ job[q].address[2] \in Slots
        BY <1>1 DEF Paths
    <2>2. \A r \in Clients : /\ r # p => (Leaving(r)' <=> Leaving(r))
                             /\ r = p => pc'[r] \notin Serving
        BY <1>1, <1>2 DEF Leaving, Serving
    <2>3. job[q].address[2] # job[p].to
        BY <1>2 DEF Sought, Sending
    <2>4. job[q].address[1] # job[p].to
        BY <1>1, <1>3, <1>5 DEF InOrder, AddressesHold, Holds
    <2> QED
        BY <1>1, <1>4, <2>1, <2>2, <2>3, <2>4 DEF InOrder, AddressesHold, Holds, Taken
  <1>8. BoardHolds'
    <2>1. \A q \in Clients : pc'[q] = "copying" <=> pc[q] = "copying"
        BY <1>1, <1>2
    <2>2. racing \subseteq Clients
        BY DEF IInv, TypeOK
    <2> QED
        BY <1>1, <1>2, <1>5, <2>1, <2>2 DEF InOrder, BoardHolds
  <1>9. SignalsHold'
    <2>1. \A q \in Clients : pc[q] = "wopen" <=> pc'[q] = "wopen"
        BY <1>1, <1>2
    <2>2. \A q \in Clients : pc[q] = "wopen" => job'[q] = job[q]
        BY <1>1, <1>2
    <2> QED
        BY <1>1, <1>2, <1>5, <2>1, <2>2 DEF InOrder, SignalsHold
  <1>10. ReadersHold'
    <2> SUFFICES ASSUME NEW r \in Clients
                 PROVE  /\ pc'[r] \in {"new", "enter"} => fdIn[r] = {}
                        /\ pc'[r] \in Serving => \A f \in fdIn[r] :
                              f \in Paths /\ users'[f[2]].pid = r /\ (~ Leaving(r)' => f \in fifos)
                        /\ job'[r].then = "unlink" => job'[r].file \in fdIn[r]
        BY <1>2 DEF ReadersHold, Holds
    <2>1. \A f \in Paths : f[2] \in Slots
        BY DEF Paths
    <2>2. CASE r = p
        BY <1>2, <2>2 DEF Serving
    <2>3. CASE r # p
        BY <1>1, <1>3, <1>4, <2>1, <2>3 DEF InOrder, ReadersHold, Holds, Leaving
    <2> QED
        BY <2>2, <2>3
  <1> QED
      BY <1>6, <1>7, <1>8, <1>9, <1>10 DEF InOrder

\* Leave: the files it removes are those of pipes to the user who leaves, whom
\* nobody is after.
LEMMA LeaveInOrder ==
  ASSUME IInv, NEW p \in Clients, Leave(p), Quiet'
  PROVE  InOrder'
  <1>0. Step(p)
      BY DEF Step
  <1>1. /\ InOrder /\ ~ met /\ Nobody \notin Clients /\ JobOK(p)
        /\ \A q \in Clients : Sending(q) => job[q].address \in Paths
        /\ \A q \in Clients \ {p} : pc'[q] = pc[q] /\ job'[q] = job[q]
      BY <1>0, QuietStep
  <1>2. PICK i \in IF Id(p) = 0 THEN Slots ELSE {Id(p)} :
             /\ fifos' = {f \in fifos : f[2] # i}
             /\ Announce(p, [News("erase") EXCEPT !.to = i])
             /\ disturbed' = (disturbed \/ Sought(i))
      BY DEF Leave
  <1>3. /\ pc[p] = "prompt" /\ pc'[p] = "copy" /\ ~ Sending(p)' /\ Leaving(p)'
        /\ job'[p].address = Words /\ job'[p].then = "erase"
        /\ UNCHANGED <<users, board, pend, opening, fdIn, racing>>
        /\ ~ Sought(i)
      BY <1>2 DEF Leave, At, Announce, News, Idle, Sending, Leaving, IInv, TypeOK, Quiet
  <1>4. i \in Slots /\ Holds(p, i) /\ ~ Sending(p)
      BY <1>1, <1>2, <1>3, IdIs DEF IInv, EntriesOK, JobOK, Serving
  <1>5. \A q \in Clients : /\ Sending(q)' <=> Sending(q)
                           /\ Sending(q) => q # p /\ pc'[q] = pc[q] /\ job'[q] = job[q]
                           /\ InFlight(q)' <=> InFlight(q)
                           /\ InFlight(q) => Sending(q)
      BY <1>1, <1>3, <1>4 DEF Sending, InFlight
  <1>6. UsersServe'
      BY <1>0, <1>3, ServeKept DEF Serving
  <1>7. AddressesHold'
    <2> SUFFICES ASSUME NEW q \in Clients, Sending(q)
                 PROVE  /\ Holds(q, job[q].address[1]) /\ Taken(job[q].address[2])
                        /\ job[q].address \in fifos'
                        /\ \A r \in Clients : pc'[r] \in Serving /\ ~ Leaving(r)' =>
                              job[q].address \notin fdIn[r]
                        /\ pc[q] \in {"kill", "wopen"} => Holds(job[q].pid, job[q].address[2])
        BY <1>3, <1>5 DEF AddressesHold, Holds, Taken
    <2>1. \A r \in Clients : ~ Leaving(r)' => pc'[r] = pc[r] /\ ~ Leaving(r)
        BY <1>1, <1>3 DEF Leaving
    <2>2. job[q].address[2] # i
        BY <1>3 DEF Sought, Sending
    <2> QED
        BY <1>1, <1>2, <2>1, <2>2 DEF InOrder, AddressesHold
  <1>8. BoardHolds'
    <2>1. \A q \in Clients : pc'[q] = "copying" <=> pc[q] = "copying"
        BY <1>1, <1>3
    <2>2. racing \subseteq Clients
        BY DEF IInv, TypeOK
    <2> QED
        BY <1>1, <1>3, <1>5, <2>1, <2>2 DEF InOrder, BoardHolds
  <1>9. SignalsHold'
    <2>1. \A q \in Clients : pc[q] = "wopen" <=> pc'[q] = "wopen"
        BY <1>1, <1>3
    <2>2. \A q \in Clients : pc[q] = "wopen" => job'[q] = job[q]
        BY <1>1, <1>3
    <2> QED
        BY <1>1, <1>3, <1>5, <2>1, <2>2 DEF InOrder, SignalsHold
  <1>10. ReadersHold'
    <2>1. ASSUME NEW r \in Clients, pc'[r] \in Serving, ~ Leaving(r)', NEW f \in fdIn'[r], f \in fifos
          PROVE  f \in fifos'
      <3>1. r # p /\ f[2] \in Slots /\ Holds(r, f[2])
          BY <1>1, <1>3, <2>1 DEF InOrder, ReadersHold, Leaving, Paths
      <3>2. f[2] # i
          BY <1>4, <3>1 DEF Holds
      <3> QED
          BY <1>2, <2>1, <3>2
    <2> QED
        BY <1>0, <1>3, <2>1, ReadersKept DEF Serving
  <1> QED
      BY <1>6, <1>7, <1>8, <1>9, <1>10 DEF InOrder

\* Unlink: nobody is sending the address of the file that is removed.
LEMMA UnlinkInOrder ==
  ASSUME IInv, NEW p \in Clients, Unlink(p), Quiet'
  PROVE  InOrder'
  <1>0. Step(p)
      BY DEF Step, Work
  <1>1. /\ InOrder /\ ~ met /\ Nobody \notin Clients /\ JobOK(p)
        /\ \A q \in Clients : Sending(q) => job[q].address \in Paths
        /\ \A q \in Clients \ {p} : pc'[q] = pc[q] /\ job'[q] = job[q]
      BY <1>0, QuietStep
  <1> DEFINE file == job[p].file
  <1>2. /\ pc[p] = "unlink" /\ pc'[p] = "prompt" /\ ~ Sending(p)' /\ ~ Leaving(p)'
        /\ job'[p].address = Words /\ job'[p].then # "unlink"
        /\ UNCHANGED <<users, board, pend, opening, racing>>
        /\ fdIn' = [fdIn EXCEPT ![p] = @ \ {file}]
        /\ fifos' = fifos \ {file}
      BY DEF Unlink, At, Idle, Sending, Leaving, IInv, TypeOK, history
  <1>3. /\ ~ Sending(p) /\ ~ Leaving(p) /\ file \in fdIn[p]
        /\ file \in Paths /\ Holds(p, file[2]) /\ file[2] \in Slots
      BY <1>1, <1>2 DEF InOrder, ReadersHold, JobOK, Leaving, Serving, Paths
  <1> HIDE DEF file
  <1>4. /\ fdIn'[p] = fdIn[p] \ {file}
        /\ \A r \in Clients \ {p} : fdIn'[r] = fdIn[r]
      BY <1>2 DEF IInv, TypeOK
  <1>5. \A q \in Clients : /\ Sending(q)' <=> Sending(q)
                           /\ Sending(q) => q # p /\ pc'[q] = pc[q] /\ job'[q] = job[q]
                           /\ InFlight(q)' <=> InFlight(q)
                           /\ InFlight(q) => Sending(q)
      BY <1>1, <1>2, <1>3 DEF Sending, InFlight
  <1>6. UsersServe'
      BY <1>0, <1>2, ServeKept DEF Serving
  <1>7. AddressesHold'
    <2> SUFFICES ASSUME NEW q \in Clients, Sending(q)
                 PROVE  /\ Holds(q, job[q].address[1]) /\ Taken(job[q].address[2])
                        /\ job[q].address \in fifos'
                        /\ \A r \in Clients : pc'[r] \in Serving /\ ~ Leaving(r)' =>
                              job[q].address \notin fdIn'[r]
                        /\ pc[q] \in {"kill", "wopen"} => Holds(job[q].pid, job[q].address[2])
        BY <1>2, <1>5 DEF AddressesHold, Holds, Taken
    <2>1. \A r \in Clients : pc'[r] \in Serving /\ ~ Leaving(r)' =>
             pc[r] \in Serving /\ ~ Leaving(r) /\ fdIn'[r] \subseteq fdIn[r]
        BY <1>1, <1>2, <1>3, <1>4 DEF Leaving, Serving
    <2>2. job[q].address # file
        BY <1>1, <1>2, <1>3 DEF InOrder, AddressesHold, Serving
    <2> QED
        BY <1>1, <1>2, <2>1, <2>2 DEF InOrder, AddressesHold
  <1>8. BoardHolds'
    <2>1. \A q \in Clients : pc'[q] = "copying" <=> pc[q] = "copying"
        BY <1>1, <1>2
    <2>2. racing \subseteq Clients
        BY DEF IInv, TypeOK
    <2> QED
        BY <1>1, <1>2, <1>5, <2>1, <2>2 DEF InOrder, BoardHolds
  <1>9. SignalsHold'
    <2>1. \A q \in Clients : pc[q] = "wopen" <=> pc'[q] = "wopen"
        BY <1>1, <1>2
    <2>2. \A q \in Clients : pc[q] = "wopen" => job'[q] = job[q]
        BY <1>1, <1>2
    <2> QED
        BY <1>1, <1>2, <1>5, <2>1, <2>2 DEF InOrder, SignalsHold
  <1>10. ReadersHold'
    <2>1. ASSUME NEW r \in Clients, pc'[r] \in Serving, ~ Leaving(r)', NEW f \in fdIn'[r], f \in fifos
          PROVE  f \in fifos'
      <3>1. CASE r = p
          BY <1>2, <1>4, <2>1, <3>1
      <3>2. CASE r # p
        <4>1. Holds(r, f[2])
            BY <1>1, <1>4, <2>1, <3>2 DEF InOrder, ReadersHold
        <4>2. f # file
            BY <1>3, <3>2, <4>1 DEF Holds
        <4> QED
            BY <1>2, <2>1, <4>2
      <3> QED
          BY <3>1, <3>2
    <2> QED
        BY <1>0, <1>2, <1>3, <1>4, <2>1, ReadersKept DEF Serving
  <1> QED
      BY <1>6, <1>7, <1>8, <1>9, <1>10 DEF InOrder

\* PipeOut: the FIFO is new, from the sender's entry to one in use.
LEMMA PipeOutInOrder ==
  ASSUME IInv, NEW p \in Clients, NEW n \in Slots, PipeOut(p, n), Quiet'
  PROVE  InOrder'
  <1>0. Step(p)
      BY DEF Step
  <1>1. /\ InOrder /\ ~ met /\ Nobody \notin Clients /\ JobOK(p)
        /\ \A q \in Clients : Sending(q) => job[q].address \in Paths
        /\ \A q \in Clients \ {p} : pc'[q] = pc[q] /\ job'[q] = job[q]
      BY <1>0, QuietStep
  <1> DEFINE new == <<Id(p), n>>
  <1>2. /\ pc[p] = "prompt" /\ pc'[p] = "copy" /\ ~ Leaving(p)'
        /\ job'[p].address = new /\ job'[p].then # "unlink"
        /\ UNCHANGED <<users, board, pend, opening, fdIn, racing>>
        /\ new \notin fifos /\ fifos' = fifos \cup {new}
      BY DEF PipeOut, Line, At, Announce, Idle, Leaving, IInv, TypeOK, history
  <1>3. /\ new \in Paths /\ new # Words /\ new[1] = Id(p) /\ new[2] = n
        /\ Holds(p, Id(p)) /\ Taken(n) /\ n \in 1 .. n
      BY IdIs, RwgMultiAssumption DEF PipeOut, Found, Paths, Words, Slots, RwgMultiAssumption
  <1>4. ~ Sending(p) /\ ~ Leaving(p)
      BY <1>1, <1>2 DEF JobOK
  <1> HIDE DEF new
  <1>5. \A q \in Clients : /\ Sending(q)' <=> Sending(q) \/ q = p
                           /\ Sending(q) => q # p /\ pc'[q] = pc[q] /\ job'[q] = job[q]
                           /\ InFlight(q)' <=> InFlight(q)
                           /\ InFlight(q) => Sending(q)
      BY <1>1, <1>2, <1>3, <1>4 DEF Sending, InFlight
  <1>6. UsersServe'
      BY <1>0, <1>2, ServeKept DEF Serving
  <1>7. AddressesHold'
    <2>1. ASSUME NEW q \in Clients, Sending(q)'
          PROVE  /\ users[job'[q].address[1]].pid = q
                 /\ users[job'[q].address[2]].pid # Nobody
                 /\ job'[q].address \in fifos'
                 /\ \A r \in Clients : pc'[r] \in Serving /\ ~ Leaving(r)' =>
                              job'[q].address \notin fdIn[r]
                 /\ pc'[q] \in {"kill", "wopen"} =>
                       users[job'[q].address[2]].pid = job'[q].pid
      <3>1. \A r \in Clients : pc'[r] \in Serving /\ ~ Leaving(r)' =>
               pc[r] \in Serving /\ ~ Leaving(r)
          BY <1>1, <1>2, <1>4 DEF Leaving, Serving
      <3>2. CASE q = p
          BY <1>1, <1>2, <1>3, <3>1, <3>2 DEF InOrder, ReadersHold, Holds, Taken
      <3>3. CASE q # p
          BY <1>1, <1>2, <1>5, <2>1, <3>1, <3>3 DEF InOrder, AddressesHold, Holds, Taken
      <3> QED
          BY <3>2, <3>3
    <2> QED
        BY <1>2, <2>1 DEF AddressesHold, Holds, Taken
  <1>8. BoardHolds'
    <2>1. \A q \in Clients : pc'[q] = "copying" <=> pc[q] = "copying"
        BY <1>1, <1>2
    <2>2. racing \subseteq Clients
        BY DEF IInv, TypeOK
    <2> QED
        BY <1>1, <1>2, <1>5, <2>1, <2>2 DEF InOrder, BoardHolds
  <1>9. SignalsHold'
    <2>1. \A q \in Clients : pc[q] = "wopen" <=> pc'[q] = "wopen"
        BY <1>1, <1>2
    <2>2. \A q \in Clients : pc[q] = "wopen" => job'[q] = job[q]
        BY <1>1, <1>2
    <2> QED
        BY <1>1, <1>2, <1>5, <2>1, <2>2 DEF InOrder, SignalsHold
  <1>10. ReadersHold'
      BY <1>0, <1>2, <1>4, ReadersKept DEF Serving
  <1> QED
      BY <1>6, <1>7, <1>8, <1>9, <1>10 DEF InOrder

\* Copy: in a quiet step nobody else writes the board, and no address waits on it,
\* when an address is written; words are written when no address waits.
LEMMA CopyInOrder ==
  ASSUME IInv, NEW p \in Clients, Copy(p), Quiet'
  PROVE  InOrder'
  <1>0. Step(p)
      BY DEF Step, Work
  <1>1. /\ InOrder /\ ~ met /\ Nobody \notin Clients /\ JobOK(p)
        /\ \A q \in Clients \ {p} : pc'[q] = pc[q] /\ job'[q] = job[q]
      BY <1>0, QuietStep
  <1> DEFINE others == {q \in Clients \ {p} : pc[q] = "copying"}
  <1>2. /\ pc[p] = "copy" /\ pc'[p] = "copying" /\ UNCHANGED <<users, fifos, job, pend, opening, fdIn>>
        /\ racing' = IF others = {} THEN racing ELSE racing \cup others \cup {p}
        /\ \A q \in Clients \ {p} : ~ InFlight(q)
        /\ Sending(p) => others = {}
      BY DEF Copy, At, Sending, IInv, TypeOK, Quiet
  <1>3. /\ \A q \in Clients : pc'[q] = "wopen" <=> pc[q] = "wopen"
        /\ \A q \in Clients : InFlight(q)' => q = p /\ Sending(p)
        /\ \A q \in Clients : InFlight(q)' <=> InFlight(q) \/ (q = p /\ InFlight(q)')
      BY <1>1, <1>2 DEF InFlight, Sending
  <1>4. UsersServe'
      BY <1>0, <1>2, ServeKept DEF Serving
  <1>5. AddressesHold'
      BY <1>1, <1>2 DEF InOrder, AddressesHold, Sending, Holds, Taken, Leaving, Serving
  <1>6. BoardHolds'
    <2>1. racing \subseteq Clients /\ p \notin racing
        BY <1>1, <1>2 DEF IInv, TypeOK, InOrder, BoardHolds
    <2>2. \A q \in racing' : pc'[q] = "copying"
        BY <1>1, <1>2, <2>1 DEF InOrder, BoardHolds
    <2>3. ASSUME NEW q \in Clients, InFlight(q)'
          PROVE  /\ q \notin racing' /\ pc'[q] = "copying"
                 /\ \A r \in Clients \ {q} : pc'[r] # "copying" /\ ~ InFlight(r)'
      <3>1. q = p /\ others = {}
          BY <1>2, <1>3, <2>3
      <3> QED
          BY <1>1, <1>2, <1>3, <2>1, <3>1
    <2> QED
        BY <2>2, <2>3 DEF BoardHolds
  <1>7. SignalsHold'
    <2>1. \A r \in Clients : "usr2" \in pend[r] => r \notin Clients
        BY <1>1, <1>2 DEF InOrder, SignalsHold
    <2> QED
        BY <1>1, <1>2, <1>3, <2>1 DEF InOrder, SignalsHold
  <1>8. ReadersHold'
      BY <1>0, <1>1, <1>2, ReadersKept DEF Serving, Leaving, InOrder, ReadersHold
  <1> QED
      BY <1>4, <1>5, <1>6, <1>7, <1>8 DEF InOrder

\* Copied: an address that was written alone is what the board holds.
LEMMA CopiedInOrder ==
  ASSUME IInv, NEW p \in Clients, Copied(p), Quiet'
  PROVE  InOrder'
  <1>0. Step(p)
      BY DEF Step, Work
  <1>1. /\ InOrder /\ ~ met /\ Nobody \notin Clients /\ JobOK(p) /\ JobOK(p)'
        /\ \A q \in Clients \ {p} : pc'[q] = pc[q] /\ job'[q] = job[q]
      BY <1>0, QuietStep
  <1>2. /\ pc[p] = "copying" /\ pc'[p] = job[p].next /\ UNCHANGED <<users, fifos, pend, opening, fdIn>>
        /\ job'[p].address = job[p].address /\ job'[p].then = job[p].then
        /\ job'[p].file = job[p].file
        /\ racing' = racing \ {p}
        /\ p \notin racing => board' = job[p].address
        /\ pc'[p] \in {"poke", "tell", "look"} /\ (Sending(p) => pc'[p] = "look")
      BY <1>1 DEF Copied, At, JobOK, IInv, TypeOK, Jobs
  <1>3. /\ \A q \in Clients : (pc'[q] = "wopen" <=> pc[q] = "wopen")
        /\ \A q \in Clients : pc[q] = "wopen" => job'[q] = job[q]
        /\ \A q \in Clients : Sending(q)' <=> Sending(q)
        /\ \A q \in Clients : job'[q].address = job[q].address
        /\ \A q \in Clients : Leaving(q)' <=> Leaving(q)
      BY <1>1, <1>2 DEF Sending, Leaving
  <1>4. \A q \in Clients : InFlight(q)' <=> InFlight(q)
      BY <1>1, <1>2, <1>3 DEF InFlight, Sending
  <1>5. \A q \in Clients : InFlight(q) => q = p
      BY <1>1, <1>2 DEF InOrder, BoardHolds
  <1>6. UsersServe'
      BY <1>0, <1>2, ServeKept DEF Serving
  <1>7. AddressesHold'
    <2>1. \A q \in Clients : pc'[q] \in {"kill", "wopen"} => pc[q] = pc'[q] /\ job'[q] = job[q]
        BY <1>1, <1>2
    <2>2. \A q \in Clients : pc'[q] \in Serving => pc[q] \in Serving
        BY <1>1, <1>2 DEF Serving
    <2> QED
        BY <1>1, <1>2, <1>3, <2>1, <2>2 DEF InOrder, AddressesHold, Holds, Taken
  <1>8. BoardHolds'
    <2>1. \A q \in racing' : pc'[q] = "copying"
        BY <1>1, <1>2 DEF InOrder, BoardHolds, IInv, TypeOK
    <2>2. ASSUME NEW q \in Clients, InFlight(q)'
          PROVE  /\ q \notin racing' /\ board' = job'[q].address
                 /\ \A r \in Clients \ {q} : pc'[r] # "copying" /\ ~ InFlight(r)'
      <3>1. q = p /\ InFlight(p)
          BY <1>4, <1>5, <2>2
      <3> QED
          BY <1>1, <1>2, <1>3, <1>4, <1>5, <3>1 DEF InOrder, BoardHolds
    <2> QED
        BY <2>1, <2>2 DEF BoardHolds
  <1>9. SignalsHold'
      BY <1>1, <1>2, <1>3, <1>4 DEF InOrder, SignalsHold
  <1>10. ReadersHold'
      BY <1>0, <1>1, <1>2, <1>3, ReadersKept DEF Serving, InOrder, ReadersHold
  <1> QED
      BY <1>6, <1>7, <1>8, <1>9, <1>10 DEF InOrder

\* FindPid: the pid is that of the entry the address is meant for.
LEMMA FindPidInOrder ==
  ASSUME IInv, NEW p \in Clients, FindPid(p), Quiet'
  PROVE  InOrder'
  <1>0. Step(p)
      BY DEF Step, Work
  <1>1. /\ InOrder /\ ~ met /\ Nobody \notin Clients /\ JobOK(p) /\ JobOK(p)'
        /\ \A q \in Clients \ {p} : pc'[q] = pc[q] /\ job'[q] = job[q]
      BY <1>0, QuietStep
  <1>2. /\ pc[p] = "look" /\ pc'[p] = "kill"
        /\ UNCHANGED <<users, board, fifos, pend, opening, fdIn, racing>>
        /\ job'[p].address = job[p].address /\ job'[p].then = job[p].then
        /\ job'[p].file = job[p].file
        /\ job'[p].pid = users[job[p].address[2]].pid
      BY DEF FindPid, At, IInv, TypeOK, Jobs, shared, history
  <1>3. /\ \A q \in Clients : (pc'[q] = "wopen" <=> pc[q] = "wopen")
        /\ \A q \in Clients : (pc'[q] = "copying" <=> pc[q] = "copying")
        /\ \A q \in Clients : pc[q] = "wopen" => job'[q] = job[q]
        /\ \A q \in Clients : Sending(q)' <=> Sending(q)
        /\ \A q \in Clients : job'[q].address = job[q].address
        /\ \A q \in Clients : Leaving(q)' <=> Leaving(q)
      BY <1>1, <1>2 DEF Sending, Leaving
  <1>4. \A q \in Clients : InFlight(q)' <=> InFlight(q)
      BY <1>1, <1>2, <1>3 DEF InFlight, Sending
  <1>5. UsersServe'
      BY <1>0, <1>2, ServeKept DEF Serving
  <1>6. AddressesHold'
    <2>1. \A q \in Clients : pc'[q] \in {"kill", "wopen"} =>
             q = p \/ (pc[q] = pc'[q] /\ job'[q] = job[q])
        BY <1>1, <1>2
    <2>2. \A q \in Clients : pc'[q] \in Serving => pc[q] \in Serving
        BY <1>1, <1>2 DEF Serving
    <2> QED
        BY <1>1, <1>2, <1>3, <2>1, <2>2 DEF InOrder, AddressesHold, Holds, Taken
  <1>7. BoardHolds'
    <2>1. racing \subseteq Clients
        BY DEF IInv, TypeOK
    <2> QED
        BY <1>1, <1>2, <1>3, <1>4, <2>1 DEF InOrder, BoardHolds
  <1>8. SignalsHold'
      BY <1>1, <1>2, <1>3, <1>4 DEF InOrder, SignalsHold
  <1>9. ReadersHold'
      BY <1>0, <1>1, <1>2, <1>3, ReadersKept DEF Serving, InOrder, ReadersHold
  <1> QED
      BY <1>5, <1>6, <1>7, <1>8, <1>9 DEF InOrder

\* SignalReader: the signal goes to the reader, and to nobody else.
LEMMA SignalInOrder ==
  ASSUME IInv, NEW p \in Clients, SignalReader(p), Quiet'
  PROVE  InOrder'
  <1>0. Step(p)
      BY DEF Step, Work
  <1>1. /\ InOrder /\ ~ met /\ Nobody \notin Clients /\ JobOK(p) /\ JobOK(p)'
        /\ \A q \in Clients \ {p} : pc'[q] = pc[q] /\ job'[q] = job[q]
        /\ \A q \in Clients : pc[q] = "wopen" => Sending(q)
        /\ \A q \in Clients : Sending(q) => job[q].address \in Paths
      BY <1>0, QuietStep
  <1> DEFINE reader == job[p].pid
  <1>2. /\ pc[p] = "kill" /\ pc'[p] = "wopen"
        /\ UNCHANGED <<users, board, fifos, job, opening, fdIn, racing>>
        /\ Kill(p, reader, "usr2")
      BY DEF SignalReader, At, IInv, TypeOK, shared, history
  <1>3. Sending(p) /\ reader \in Clients /\ Live(reader)
    <2>1. Sending(p) /\ job[p].address[2] \in Slots
        BY <1>1, <1>2 DEF JobOK, Paths
    <2>2. Holds(reader, job[p].address[2]) /\ Taken(job[p].address[2])
        BY <1>1, <1>2, <2>1 DEF InOrder, AddressesHold
    <2>3. reader \in Clients /\ pc[reader] \in Serving
        BY <1>1, <2>1, <2>2 DEF InOrder, UsersServe, Holds, Taken, IInv, TypeOK
    <2> QED
        BY <2>1, <2>3 DEF Live, Serving
  <1> HIDE DEF reader
  <1>4. /\ \A r \in Clients : pend[r] \subseteq pend'[r] /\ (r # reader => pend'[r] = pend[r])
        /\ "usr2" \in pend'[reader]
      BY <1>2, <1>3, KillAdds DEF IInv
  <1>5. /\ \A q \in Clients : (pc'[q] = "wopen" <=> pc[q] = "wopen" \/ q = p)
        /\ \A q \in Clients : (pc'[q] = "copying" <=> pc[q] = "copying")
        /\ \A q \in Clients : InFlight(q)' <=> InFlight(q)
      BY <1>1, <1>2 DEF InFlight
  <1>6. InFlight(p)
    <2>1. ASSUME NEW r \in Clients, opening[r] = job[p].address PROVE FALSE
      <3>1. PICK q \in Clients : pc[q] = "wopen" /\ job[q].address = opening[r]
          BY <1>1, <1>3, <2>1 DEF InOrder, SignalsHold, Sending
      <3>2. q = p
          BY <1>1, <1>3, <2>1, <3>1, Apart DEF InOrder, IInv
      <3> QED
          BY <1>2, <3>1, <3>2
    <2> QED
        BY <1>2, <1>3, <2>1 DEF InFlight, Sending
  <1>7. UsersServe'
      BY <1>0, <1>2, ServeKept DEF Serving
  <1>8. AddressesHold'
    <2>1. \A q \in Clients : pc'[q] \in {"kill", "wopen"} <=> pc[q] \in {"kill", "wopen"}
        BY <1>1, <1>2
    <2>2. \A q \in Clients : pc'[q] \in Serving => pc[q] \in Serving
        BY <1>1, <1>2 DEF Serving
    <2> QED
        BY <1>1, <1>2, <2>1, <2>2 DEF InOrder, AddressesHold, Holds, Taken, Sending, Leaving
  <1>9. BoardHolds'
    <2>1. racing \subseteq Clients
        BY DEF IInv, TypeOK
    <2> QED
        BY <1>1, <1>2, <1>5, <2>1 DEF InOrder, BoardHolds
  <1>10. SignalsHold'
      BY <1>1, <1>2, <1>3, <1>4, <1>5, <1>6 DEF InOrder, SignalsHold, reader
  <1>11. ReadersHold'
      BY <1>0, <1>1, <1>2, ReadersKept DEF Serving, InOrder, ReadersHold, Leaving
  <1> QED
      BY <1>7, <1>8, <1>9, <1>10, <1>11 DEF InOrder

\* OpenOut: the reader opens the FIFO too and gets its read end, of a pipe to itself.
LEMMA OpenInOrder ==
  ASSUME IInv, NEW p \in Clients, OpenOut(p), Quiet'
  PROVE  InOrder'
  <1>0. Step(p)
      BY DEF Step, Work
  <1>1. /\ InOrder /\ ~ met /\ Nobody \notin Clients /\ JobOK(p) /\ JobOK(p)'
        /\ \A q \in Clients \ {p} : pc'[q] = pc[q] /\ job'[q] = job[q]
        /\ \A q \in Clients : pc[q] = "wopen" => Sending(q)
        /\ \A q \in Clients : Sending(q) => job[q].address \in Paths
      BY <1>0, QuietStep
  <1> DEFINE file == job[p].address
             readers == {r \in Clients : opening[r] = file}
  <1>2. /\ pc[p] = "wopen" /\ pc'[p] = "copy" /\ readers # {}
        /\ UNCHANGED <<users, board, fifos, pend, racing>>
        /\ opening' = [r \in Clients |-> IF r \in readers THEN Words ELSE opening[r]]
        /\ fdIn' = [r \in Clients |-> IF r \in readers THEN fdIn[r] \cup {file} ELSE fdIn[r]]
        /\ job'[p].address = Words /\ job'[p].then = "prompt"
        /\ ~ Sending(p)' /\ ~ Leaving(p)'
      BY DEF OpenOut, At, Announce, News, Idle, Sending, Leaving, IInv, TypeOK, shared, history
  <1>3. Sending(p) /\ file \in Paths /\ file # Words /\ ~ Leaving(p)
      BY <1>1, <1>2 DEF Sending, JobOK, Leaving
  <1>4. ASSUME NEW r \in readers
        PROVE  r = job[p].pid /\ Holds(r, file[2]) /\ file \in fifos
    <2>1. PICK q \in Clients : pc[q] = "wopen" /\ job[q].address = file /\ job[q].pid = r
        BY <1>1, <1>3, <1>4 DEF InOrder, SignalsHold, Sending
    <2>2. q = p
        BY <1>1, <1>3, <2>1, Apart DEF InOrder, IInv
    <2> QED
        BY <1>1, <1>2, <1>3, <2>1, <2>2 DEF InOrder, AddressesHold
  <1>5. \A q \in Clients : Sending(q) /\ q # p => job[q].address # file
      BY <1>1, <1>3, Apart DEF InOrder, IInv
  <1>6. readers \in SUBSET Clients /\ \A r \in Clients \ readers : opening[r] # file
      OBVIOUS
  <1> HIDE DEF file, readers
  <1>7. /\ \A r \in readers : opening'[r] = Words /\ opening[r] = file /\ fdIn'[r] = fdIn[r] \cup {file}
        /\ \A r \in Clients \ readers : opening'[r] = opening[r] /\ fdIn'[r] = fdIn[r]
        /\ \A r \in Clients : fdIn[r] \subseteq fdIn'[r]
      BY <1>2, <1>6 DEF readers
  <1>8. /\ \A q \in Clients : /\ Sending(q)' <=> Sending(q) /\ q # p
                              /\ pc'[q] = "wopen" <=> pc[q] = "wopen" /\ q # p
                              /\ pc'[q] = "copying" <=> pc[q] = "copying"
                              /\ q # p => job'[q] = job[q] /\ pc'[q] = pc[q]
        /\ ~ InFlight(p)
      BY <1>1, <1>2, <1>6, <1>7 DEF Sending, InFlight, file
  <1>9. \A q \in Clients : InFlight(q)' <=> InFlight(q)
    <2> SUFFICES ASSUME NEW q \in Clients, q # p, Sending(q) PROVE InFlight(q)' <=> InFlight(q)
        BY <1>8 DEF InFlight, Sending
    <2>1. \A r \in Clients : opening'[r] = job[q].address <=> opening[r] = job[q].address
        BY <1>3, <1>5, <1>6, <1>7 DEF Sending
    <2> QED
        BY <1>8, <2>1 DEF InFlight
  <1>10. UsersServe'
      BY <1>0, <1>2, ServeKept DEF Serving
  <1>11. AddressesHold'
    <2> SUFFICES ASSUME NEW q \in Clients, Sending(q), q # p
                 PROVE  /\ Holds(q, job[q].address[1]) /\ Taken(job[q].address[2])
                        /\ job[q].address \in fifos
                        /\ \A r \in Clients : pc'[r] \in Serving /\ ~ Leaving(r)' =>
                              job[q].address \notin fdIn'[r]
                        /\ pc[q] \in {"kill", "wopen"} => Holds(job[q].pid, job[q].address[2])
        BY ZenonT(30), <1>2, <1>8 DEF AddressesHold, Holds, Taken
    <2>1. \A r \in Clients : pc'[r] \in Serving /\ ~ Leaving(r)' => pc[r] \in Serving /\ ~ Leaving(r)
        BY <1>1, <1>2, <1>3 DEF Leaving, Serving
    <2>2. job[q].address # file
        BY <1>5
    <2>3. \A r \in Clients : job[q].address \in fdIn'[r] => job[q].address \in fdIn[r]
        BY <1>6, <1>7, <2>2
    <2> QED
        BY <1>1, <2>1, <2>3 DEF InOrder, AddressesHold
  <1>12. BoardHolds'
    <2>1. racing \subseteq Clients
        BY DEF IInv, TypeOK
    <2> QED
        BY <1>1, <1>2, <1>8, <1>9, <2>1 DEF InOrder, BoardHolds
  <1>13. SignalsHold'
    <2>1. ASSUME NEW r \in Clients, opening'[r] # Words
          PROVE  \E q \in Clients : /\ pc'[q] = "wopen" /\ job'[q].pid = r
                                    /\ job'[q].address = opening'[r]
      <3>1. r \notin readers /\ opening'[r] = opening[r] /\ opening[r] # file
          BY <1>6, <1>7, <2>1
      <3>2. PICK q \in Clients : pc[q] = "wopen" /\ job[q].pid = r /\ job[q].address = opening[r]
          BY <1>1, <2>1, <3>1 DEF InOrder, SignalsHold
      <3>3. q # p
          BY <3>1, <3>2 DEF file
      <3> QED
          BY <1>8, <3>1, <3>2, <3>3
    <2>2. ASSUME NEW r \in Clients, "usr2" \in pend[r]
          PROVE  \E q \in Clients : pc'[q] = "wopen" /\ job'[q].pid = r /\ InFlight(q)'
      <3>1. PICK q \in Clients : pc[q] = "wopen" /\ job[q].pid = r /\ InFlight(q)
          BY <1>1, <2>2 DEF InOrder, SignalsHold
      <3> QED
          BY <1>8, <1>9, <3>1
    <2>3. ASSUME NEW q \in Clients, pc'[q] = "wopen"
          PROVE  \E r \in Clients : /\ r = job'[q].pid
                                    /\ opening'[r] = job'[q].address \/ "usr2" \in pend[r]
      <3>1. q # p /\ pc[q] = "wopen" /\ job'[q] = job[q] /\ job[q].address # file
          BY <1>1, <1>5, <1>8, <2>3
      <3>2. PICK r \in Clients : /\ r = job[q].pid
                                 /\ opening[r] = job[q].address \/ "usr2" \in pend[r]
          BY <1>1, <3>1 DEF InOrder, SignalsHold
      <3>3. opening[r] = job[q].address => opening'[r] = job[q].address
          BY <1>7, <3>1
      <3> QED
          BY <3>1, <3>2, <3>3
    <2> QED
        BY <1>2, <2>1, <2>2, <2>3 DEF SignalsHold
  <1>14. ReadersHold'
    <2> SUFFICES ASSUME NEW r \in Clients
                 PROVE  /\ pc'[r] \in {"new", "enter"} => fdIn'[r] = {}
                        /\ pc'[r] \in Serving => \A f \in fdIn'[r] :
                              f \in Paths /\ Holds(r, f[2]) /\ (~ Leaving(r)' => f \in fifos)
                        /\ job'[r].then = "unlink" => job'[r].file \in fdIn'[r]
      <3>1. \A q, i : Holds(q, i)' <=> Holds(q, i)
          BY <1>2 DEF Holds
      <3> QED
          BY <1>2, <3>1 DEF ReadersHold
    <2>1. r \in readers => pc[r] \notin {"new", "enter"}
        BY <1>3, <1>4 DEF Paths, IInv, EntriesOK
    <2>2. /\ pc'[r] \in {"new", "enter"} => pc[r] \in {"new", "enter"} /\ r \notin readers
          /\ pc'[r] \in Serving => pc[r] \in Serving /\ (Leaving(r) => Leaving(r)')
          /\ job'[r].then = "unlink" => job[r].then = "unlink" /\ job[r].file = job'[r].file
        BY <1>1, <1>2, <1>3, <2>1 DEF Leaving, Serving
    <2>3. pc'[r] \in {"new", "enter"} => fdIn'[r] = {}
        BY <1>1, <1>7, <2>2 DEF InOrder, ReadersHold
    <2>4. pc'[r] \in Serving => \A f \in fdIn'[r] :
             f \in Paths /\ Holds(r, f[2]) /\ (~ Leaving(r)' => f \in fifos)
        BY <1>1, <1>3, <1>4, <1>7, <2>2 DEF InOrder, ReadersHold
    <2>5. job'[r].then = "unlink" => job'[r].file \in fdIn'[r]
        BY <1>1, <1>7, <2>2 DEF InOrder, ReadersHold
    <2> QED
        BY <2>3, <2>4, <2>5
  <1> QED
      BY <1>10, <1>11, <1>12, <1>13, <1>14 DEF InOrder

\* A process with the signal to open a FIFO finds on the board the address of the one
\* sender that waits for it.
LEMMA SignalledReader ==
  ASSUME IInv, NEW p \in Clients, Step(p), Quiet', "usr2" \in pend[p], opening[p] = Words
  PROVE  \E q \in Clients :
            /\ pc[q] = "wopen" /\ job[q].pid = p /\ InFlight(q) /\ Sending(q)
            /\ job[q].address = board /\ board \in Paths /\ board \in fifos
            /\ \A r \in Clients \ {q} :
                  /\ ~ InFlight(r) /\ job[r].address # board
                  /\ ~ (pc[r] = "wopen" /\ job[r].pid = p)
  <1>1. /\ InOrder
        /\ \A q \in Clients : pc[q] = "wopen" => Sending(q)
        /\ \A q \in Clients : Sending(q) => job[q].address \in Paths
      BY QuietStep
  <1>2. PICK q \in Clients : pc[q] = "wopen" /\ job[q].pid = p /\ InFlight(q)
      BY <1>1 DEF InOrder, SignalsHold
  <1>3. /\ Sending(q) /\ job[q].address = board /\ board \in Paths /\ board \in fifos
        /\ \A r \in Clients \ {q} : ~ InFlight(r)
      BY <1>1, <1>2 DEF InOrder, BoardHolds, AddressesHold
  <1>4. board # Words
      BY <1>3 DEF Sending
  <1>5. \A r \in Clients \ {q} : job[r].address # board
      BY <1>1, <1>3, <1>4, Apart DEF InOrder, IInv, Sending
  <1>6. ASSUME NEW r \in Clients \ {q}, pc[r] = "wopen", job[r].pid = p
        PROVE  FALSE
    <2>1. PICK s \in Clients : opening[s] = job[r].address
        BY <1>1, <1>3, <1>6 DEF InFlight, Sending
    <2>2. PICK t \in Clients : pc[t] = "wopen" /\ job[t].pid = s /\ job[t].address = opening[s]
        BY <1>1, <1>6, <2>1 DEF InOrder, SignalsHold, Sending
    <2>3. t = r
        BY <1>1, <1>6, <2>1, <2>2, Apart DEF InOrder, IInv
    <2> QED
        BY <1>1, <1>6, <2>1, <2>2, <2>3 DEF Sending
  <1> QED
      BY <1>2, <1>3, <1>5, <1>6

\* PipeHandler: the reader takes the address that is meant for it off the board.
LEMMA HandlerInOrder ==
  ASSUME IInv, NEW p \in Clients, PipeHandler(p), Quiet'
  PROVE  InOrder'
  <1>0. Step(p)
      BY DEF Step, OpenReader
  <1>1. /\ InOrder /\ JobOK(p)
        /\ \A q \in Clients : pc[q] = "wopen" => Sending(q)
      BY <1>0, QuietStep
  <1>2. /\ "usr2" \in pend[p] /\ opening[p] = Words
        /\ UNCHANGED <<users, board, fifos, pc, job, racing>>
        /\ \A r \in Clients : "usr2" \in pend'[r] <=> "usr2" \in pend[r] /\ r # p
      BY DEF PipeHandler, IInv, TypeOK, shared, history
  <1>3. PICK q \in Clients :
            /\ pc[q] = "wopen" /\ job[q].pid = p /\ InFlight(q) /\ Sending(q)
            /\ job[q].address = board /\ board \in Paths /\ board \in fifos
            /\ \A r \in Clients \ {q} :
                  /\ ~ InFlight(r) /\ job[r].address # board
                  /\ ~ (pc[r] = "wopen" /\ job[r].pid = p)
      BY <1>0, <1>2, SignalledReader
  <1>4. /\ UNCHANGED fdIn
        /\ opening'[p] = board /\ \A r \in Clients \ {p} : opening'[r] = opening[r]
      BY <1>3 DEF PipeHandler, IInv, TypeOK
  <1>5. /\ \A r \in Clients : (Sending(r)' <=> Sending(r)) /\ (Leaving(r)' <=> Leaving(r))
        /\ \A r \in Clients : InFlight(r)' => InFlight(r) /\ r # q
      BY <1>2, <1>3, <1>4 DEF Sending, Leaving, InFlight
  <1>6. UsersServe'
      BY <1>0, <1>2, ServeKept
  <1>7. AddressesHold'
      BY <1>1, <1>2, <1>4, <1>5 DEF InOrder, AddressesHold, Holds, Taken
  <1>8. BoardHolds'
      BY <1>1, <1>2, <1>3, <1>5 DEF InOrder, BoardHolds
  <1>9. SignalsHold'
    <2>1. \A r \in Clients : opening'[r] # Words =>
             \E s \in Clients : pc[s] = "wopen" /\ job[s].pid = r /\ job[s].address = opening'[r]
        BY <1>1, <1>3, <1>4 DEF InOrder, SignalsHold
    <2>2. \A r \in Clients : "usr2" \notin pend'[r]
      <3>1. ASSUME NEW r \in Clients, "usr2" \in pend[r] PROVE r = p
          BY <1>1, <1>3, <3>1 DEF InOrder, SignalsHold
      <3> QED
          BY <1>2, <3>1
    <2>3. ASSUME NEW s \in Clients, pc[s] = "wopen"
          PROVE  \E r \in Clients : /\ r = job[s].pid
                                    /\ opening'[r] = job[s].address \/ "usr2" \in pend'[r]
      <3>1. CASE s = q
          BY <1>3, <1>4, <3>1
      <3>2. CASE s # q
          BY <1>1, <1>2, <1>3, <1>4, <2>3, <3>2 DEF InOrder, SignalsHold
      <3> QED
          BY <3>1, <3>2
    <2> QED
        BY <1>2, <2>1, <2>2, <2>3 DEF SignalsHold
  <1>10. ReadersHold'
      BY <1>0, <1>1, <1>2, <1>4, <1>5, ReadersKept DEF InOrder, ReadersHold
  <1> QED
      BY <1>6, <1>7, <1>8, <1>9, <1>10 DEF InOrder

\* Every step keeps the pipes in order, until one disturbs them.
LEMMA PipesStep ==
  ASSUME IInv, NEW p \in Clients, Step(p)
  PROVE  PipesHold'
  <1> SUFFICES ASSUME Quiet' PROVE InOrder'
      BY DEF PipesHold
  <1>1. /\ InOrder /\ ~ met /\ ~ disturbed /\ JobOK(p) /\ JobOK(p)'
        /\ job[p] \in Jobs /\ job \in [Clients -> Jobs] /\ pc \in [Clients -> Pcs]
        /\ pend \in [Clients -> SUBSET {"usr1", "usr2"}]
        /\ fdIn \in [Clients -> SUBSET Board]
      BY QuietStep DEF IInv, TypeOK
  <1>2. job[p].then = "unlink" => job[p].file \in fdIn[p]
      BY <1>1 DEF InOrder, ReadersHold
  <1> USE <1>1 DEF At
  <1>3. CASE Enter(p) \/ Erase(p) \/ Leave(p) \/ Unlink(p)
      BY <1>3, EnterInOrder, EraseInOrder, LeaveInOrder, UnlinkInOrder
  <1>4. CASE Copy(p) \/ Copied(p) \/ FindPid(p) \/ SignalReader(p)
      BY <1>4, CopyInOrder, CopiedInOrder, FindPidInOrder, SignalInOrder
  <1>5. CASE OpenOut(p) \/ PipeHandler(p)
      BY <1>5, OpenInOrder, HandlerInOrder
  <1>17. CASE OpenFails(p)
    <2>1. pc[p] = "wopen" /\ job[p].address \notin fifos /\ Sending(p)
        BY <1>17 DEF OpenFails, JobOK
    <2> QED
        BY <2>1 DEF InOrder, AddressesHold
  <1>6. ASSUME NEW n \in Slots, PipeOut(p, n) PROVE InOrder'
      BY <1>6, PipeOutInOrder
  <1>7. CASE Crash(p) \/ BrokenPipe(p)
      BY <1>7 DEF Crash, BrokenPipe, Die, Quiet
  <1>8. CASE HandlerMisses(p)
    <2>1. "usr2" \in pend[p] /\ opening[p] = Words /\ board \notin fifos
        BY <1>8 DEF HandlerMisses
    <2> QED
        BY <2>1, SignalledReader
  <1>9. CASE Login(p)
    <2>1. /\ pc[p] = "new" /\ pc'[p] = "enter"
          /\ UNCHANGED <<users, board, fifos, pend, opening, fdIn, racing>>
          /\ job'[p].address = job[p].address /\ job'[p].then = job[p].then
        BY <1>9 DEF Login, shared, Jobs
    <2> QED
        BY <1>1, <1>2, <2>1, PipesKept DEF Sending, Serving, JobOK
  <1>10. CASE StartLoop(p) \/ TellKill(p) \/ NPyell(p)
             \/ \E n \in Slots : NPtell(p, n)
    <2>1. /\ pc[p] \in {"reset", "prompt", "tell"} /\ pc'[p] \in {"prompt", "copy"}
          /\ UNCHANGED <<users, board, fifos, opening, racing>>
          /\ \A r \in Clients : "usr2" \in pend'[r] <=> "usr2" \in pend[r]
          /\ job'[p].address = Words /\ job'[p].then = "prompt"
          /\ fdIn'[p] \subseteq fdIn[p] /\ \A r \in Clients \ {p} : fdIn'[r] = fdIn[r]
      <3>1. CASE StartLoop(p)
          BY <3>1 DEF StartLoop, Idle, shared, history
      <3>2. CASE TellKill(p)
          BY <3>2 DEF TellKill, Kill, Idle, shared, history
      <3>3. CASE NPyell(p)
          BY <3>3 DEF NPyell, Line, Announce, News, Idle, shared, history
      <3>4. ASSUME NEW n \in Slots, NPtell(p, n)
            PROVE  /\ pc[p] = "prompt" /\ pc' = [pc EXCEPT ![p] = "copy"]
                   /\ job' = [job EXCEPT ![p] = [Idle EXCEPT !.to = n, !.next = "tell"]]
                   /\ UNCHANGED <<users, board, fifos, pend, opening, fdIn, racing>>
          BY <3>4 DEF NPtell, Line, Announce, shared, history
      <3>5. ASSUME NEW n \in Slots, NPtell(p, n)
            PROVE  /\ pc'[p] = "copy" /\ job'[p].address = Words /\ job'[p].then = "prompt"
        <4>1. /\ [Idle EXCEPT !.to = n, !.next = "tell"].address = Words
              /\ [Idle EXCEPT !.to = n, !.next = "tell"].then = "prompt"
            BY DEF Idle
        <4>2. job'[p] = [Idle EXCEPT !.to = n, !.next = "tell"] /\ pc'[p] = "copy"
            BY <3>4, <3>5
        <4> QED
            BY <4>1, <4>2
      <3>6. CASE \E n \in Slots : NPtell(p, n)
          BY <3>4, <3>5, <3>6
      <3> QED
          BY <1>10, <3>1, <3>2, <3>3, <3>6
    <2> QED
        BY <1>1, <2>1, PipesKept DEF Sending, Serving, JobOK, Leaving
  <1>11. CASE Poke(p)
    <2>1. /\ pc[p] = "poke" /\ pc'[p] \in {"poke", job[p].then}
          /\ UNCHANGED <<users, board, fifos, opening, racing, fdIn>>
          /\ \A r \in Clients : "usr2" \in pend'[r] <=> "usr2" \in pend[r]
          /\ \/ job'[p].address = job[p].address /\ job'[p].then = job[p].then
                /\ job'[p].file = job[p].file
             \/ job'[p].address = Words /\ job'[p].then = "prompt" /\ job[p].then = "prompt"
        BY <1>11 DEF Poke, Kill, Idle, shared, history, Jobs
    <2>2. job[p].then \in {"prompt", "reset", "unlink", "erase"} /\ ~ Sending(p)
        BY <1>1, <2>1 DEF JobOK
    <2> QED
        BY <1>1, <1>2, <2>1, <2>2, PipesKept DEF Sending, Serving, Leaving
  <1>12. CASE MSGHandler(p) \/ Close(p)
             \/ \E n \in Slots : PipeRefused(p, n) \/ ReadRefused(p, n)
    <2>1. /\ UNCHANGED <<users, board, fifos, opening, racing, fdIn, pc, job>>
          /\ \A r \in Clients : "usr2" \in pend'[r] <=> "usr2" \in pend[r]
        BY <1>12 DEF MSGHandler, Close, PipeRefused, ReadRefused, shared, local, history
    <2> QED
        BY <1>1, <1>2, <2>1, PipesKept DEF Leaving
  <1>13. CASE WriteName(p)
    <2>1. /\ pc[p] = "name" /\ pc'[p] = "copy"
          /\ UNCHANGED <<board, fifos, opening, pend, racing, fdIn>>
          /\ job'[p].address = Words /\ job'[p].then = "prompt"
          /\ users' = [i \in Slots |-> IF i = Id(p)
                                       THEN [users[i] EXCEPT !.nick = job[p].name]
                                       ELSE users[i]]
        BY <1>13 DEF WriteName, Announce, News, Idle, history
    <2>2. \A i \in Slots : users'[i].pid = users[i].pid
        BY <2>1 DEF IInv, TypeOK
    <2> QED
        BY <1>1, <2>1, <2>2, PipesKept DEF Sending, Serving, JobOK, Leaving
  <1>14. ASSUME NEW n \in Names, NPname(p, n) PROVE InOrder'
    <2>1. /\ pc[p] = "prompt" /\ pc'[p] = "name"
          /\ UNCHANGED <<users, board, fifos, opening, pend, racing, fdIn>>
          /\ job'[p].address = job[p].address /\ job'[p].then = job[p].then
        BY <1>14 DEF NPname, Line, shared, Jobs
    <2> QED
        BY <1>1, <2>1, PipesKept DEF Sending, Serving, JobOK, Leaving
  <1>15. ASSUME NEW n \in Slots, PipeIn(p, n) PROVE InOrder'
    <2>1. /\ pc[p] = "prompt" /\ pc'[p] = "copy"
          /\ UNCHANGED <<users, board, fifos, opening, pend, racing, fdIn>>
          /\ job'[p].address = Words /\ job'[p].then = "unlink"
          /\ job'[p].file = <<n, Id(p)>> /\ <<n, Id(p)>> \in fdIn[p]
        BY <1>15 DEF PipeIn, Line, Announce, News, Idle, shared, history
    <2> QED
        BY <1>1, <2>1, PipesKept DEF Sending, Serving, JobOK, Leaving
  <1>16. CASE Exit(p)
    <2>1. /\ pc[p] = "exit" /\ pc'[p] = "gone"
          /\ UNCHANGED <<users, board, fifos, opening, pend, racing, job>>
          /\ fdIn'[p] \subseteq fdIn[p] /\ \A r \in Clients \ {p} : fdIn'[r] = fdIn[r]
        BY <1>16 DEF Exit, shared
    <2> QED
        BY <1>1, <2>1, PipesKept DEF Sending, Serving, JobOK, Leaving
  <1> QED
      BY <1>3, <1>4, <1>5, <1>6, <1>7, <1>8, <1>9, <1>10, <1>11, <1>12, <1>13, <1>14, <1>15,
         <1>16, <1>17 DEF Step, Work, ShowNews, OpenReader

-----------------------------------------------------------------------------
(* Who waits for whom. *)

\* In every set of processes one waits for no other of them.
Unwound == \A S \in (SUBSET Clients) \ {{}} :
               \E p \in S : \A q \in S : Awaits(p, q) => q = p

\* A sender whose address waits on the board is not stopped by a handler, so that the
\* reader that takes the address begins to wait for one that does not wait.
SenderFree == \A q \in Clients : InFlight(q) => opening[q] = Words

WaitsHold == Quiet => SenderFree /\ Unwound

\* A quiet step is a handler's, or changes nothing that waiting depends on, or is one
\* of a process that is not blocked, which frees readers in OpenOut and nobody else.
LEMMA WaitStep ==
  ASSUME IInv, NEW p \in Clients, Step(p), Quiet'
  PROVE  \/ PipeHandler(p)
         \/ UNCHANGED <<pc, job, opening>>
         \/ /\ opening[p] = Words \/ pc'[p] = "enter"
            /\ UNCHANGED opening \/ OpenOut(p)
            /\ pc'[p] = "wopen" => SignalReader(p)
  <1>1. /\ ~ disturbed' /\ JobOK(p) /\ pc \in [Clients -> Pcs]
        /\ \A r \in Clients : opening[r] \in Board
      BY QuietStep DEF Quiet, IInv, TypeOK
  <1> USE <1>1 DEF At, shared, local, history, Announce
  <1>2. CASE Login(p) \/ Close(p) \/ Leave(p) \/ NPyell(p)
      BY <1>2 DEF Login, Close, Leave, NPyell, Line
  <1>3. CASE Crash(p) \/ BrokenPipe(p)
      BY <1>3 DEF Crash, BrokenPipe, Die
  <1>4. CASE MSGHandler(p) \/ OpenReader(p)
      BY <1>4 DEF OpenReader, MSGHandler, HandlerMisses, Die
  <1>5. CASE Enter(p) \/ StartLoop(p) \/ Copy(p) \/ TellKill(p) \/ WriteName(p)
      BY <1>5 DEF Enter, StartLoop, Copy, TellKill, WriteName
  <1>6. CASE Copied(p) \/ Poke(p)
      BY <1>6 DEF Copied, Poke, JobOK
  <1>7. CASE FindPid(p) \/ SignalReader(p) \/ Unlink(p) \/ Erase(p) \/ Exit(p)
      BY <1>7 DEF FindPid, SignalReader, Unlink, Erase, Exit
  <1>8. CASE OpenOut(p) \/ OpenFails(p)
      BY <1>8 DEF OpenOut, OpenFails, News, Idle
  <1>9. CASE \E name \in Names : NPname(p, name)
      BY <1>9 DEF NPname, Line
  <1>10. CASE \E n \in Slots : \/ NPtell(p, n) \/ PipeRefused(p, n) \/ PipeOut(p, n)
                               \/ ReadRefused(p, n) \/ PipeIn(p, n)
      BY <1>10 DEF NPtell, PipeRefused, PipeOut, ReadRefused, PipeIn, Line
  <1> QED
      BY <1>2, <1>3, <1>4, <1>5, <1>6, <1>7, <1>8, <1>9, <1>10 DEF Step, Work, ShowNews

\* What OpenOut ends is the waiting for its own process.
LEMMA OpenEnds ==
  ASSUME IInv, NEW p \in Clients, OpenOut(p), NEW r \in Clients, opening'[r] # opening[r]
  PROVE  opening'[r] = Words /\ opening[r] = job[p].address
  BY DEF OpenOut

\* The handler's open is the one that makes a process wait.
LEMMA NoNewWait ==
  ASSUME IInv, NEW p \in Clients, Step(p), Quiet', ~ PipeHandler(p),
         NEW r \in Clients, NEW q \in Clients, Awaits(r, q)'
  PROVE  Awaits(r, q)
  <1>1. /\ InOrder /\ JobOK(p)'
        /\ \A s \in Clients \ {p} : pc'[s] = pc[s] /\ job'[s] = job[s]
        /\ \A s \in Clients : pc[s] = "wopen" => Sending(s)
      BY QuietStep
  <1>2. pc'[q] = "wopen" /\ opening'[r] = job'[q].address
      BY DEF Awaits
  <1>3. opening'[r] # Words
      BY <1>1, <1>2 DEF JobOK, Sending
  <1>4. CASE UNCHANGED <<pc, job, opening>>
      BY <1>4 DEF Awaits
  <1>5. CASE /\ opening[p] = Words \/ pc'[p] = "enter"
             /\ UNCHANGED opening \/ OpenOut(p)
             /\ pc'[p] = "wopen" => SignalReader(p)
    <2>1. opening'[r] = opening[r]
        BY <1>3, <1>5, OpenEnds
    <2>2. CASE q # p
        BY <1>1, <1>2, <2>1, <2>2 DEF Awaits
    <2>3. CASE q = p
      <3>1. pc[p] = "kill" /\ job'[p] = job[p]
          BY <1>2, <1>5, <2>3 DEF SignalReader, At
      <3>2. PICK s \in Clients : pc[s] = "wopen" /\ job[s].address = opening[r]
          BY <1>1, <1>3, <2>1 DEF InOrder, SignalsHold
      <3>3. s = p
        <4>1. Sending(s) /\ Sending(p) /\ job[s].address = job[p].address
            BY <1>1, <1>2, <1>3, <2>1, <2>3, <3>1, <3>2 DEF Sending
        <4> QED
            BY <1>1, <4>1, Apart DEF InOrder, IInv
      <3> QED
          BY <3>1, <3>2, <3>3
    <2> QED
        BY <2>2, <2>3
  <1> QED
      BY <1>4, <1>5, WaitStep

\* Every step keeps senders free and waiting unwound, until one disturbs them.
LEMMA WaitsStep ==
  ASSUME IInv, WaitsHold, NEW p \in Clients, Step(p)
  PROVE  WaitsHold'
  <1> SUFFICES ASSUME Quiet' PROVE SenderFree' /\ Unwound'
      BY DEF WaitsHold
  <1>1. /\ InOrder /\ SenderFree /\ Unwound
        /\ \A q \in Clients \ {p} : pc'[q] = pc[q] /\ job'[q] = job[q]
        /\ \A q \in Clients : pc[q] = "wopen" => Sending(q)
        /\ \A r \in Clients : opening[r] \in Board
      BY QuietStep DEF WaitsHold, IInv, TypeOK
  <1>2. CASE ~ PipeHandler(p)
    <2>1. ASSUME NEW q \in Clients, InFlight(q)' PROVE opening'[q] = Words
      <3>1. CASE UNCHANGED <<pc, job, opening>>
          BY <1>1, <2>1, <3>1 DEF SenderFree, InFlight
      <3>2. CASE /\ opening[p] = Words \/ pc'[p] = "enter"
                 /\ UNCHANGED opening \/ OpenOut(p)
                 /\ pc'[p] = "wopen" => SignalReader(p)
        <4>1. \A r \in Clients : \/ opening'[r] = opening[r]
                                 \/ opening'[r] = Words /\ opening[r] = job[p].address
            BY <3>2, OpenEnds
        <4>2. CASE q = p
            BY <2>1, <3>2, <4>1, <4>2 DEF InFlight
        <4>3. CASE q # p
          <5>1. pc'[q] = pc[q] /\ job'[q] = job[q] /\ Sending(q)
              BY <1>1, <2>1, <4>3 DEF InFlight, Sending
          <5>2. InFlight(q)
            <6>1. ASSUME NEW r \in Clients, opening[r] = job[q].address PROVE FALSE
              <7>1. opening'[r] # job[q].address
                  BY <2>1, <5>1 DEF InFlight
              <7>2. job[p].address = job[q].address
                  BY <4>1, <6>1, <7>1
              <7>3. Sending(p)
                  BY <5>1, <7>2 DEF Sending
              <7> QED
                  BY <1>1, <4>3, <5>1, <7>2, <7>3, Apart DEF InOrder, IInv
            <6> QED
                BY <2>1, <5>1, <6>1 DEF InFlight
          <5> QED
              BY <1>1, <4>1, <5>2 DEF SenderFree
        <4> QED
            BY <4>2, <4>3
      <3> QED
          BY <1>2, <3>1, <3>2, WaitStep
    <2>2. \A r, q \in Clients : Awaits(r, q)' => Awaits(r, q)
        BY <1>2, NoNewWait
    <2>3. ASSUME NEW S \in (SUBSET Clients) \ {{}}
          PROVE  \E r \in S : \A q \in S : Awaits(r, q)' => q = r
        BY <1>1, <2>2 DEF Unwound
    <2> QED
        BY <2>1, <2>3 DEF SenderFree, Unwound
  <1>3. CASE PipeHandler(p)
    <2>1. /\ "usr2" \in pend[p] /\ opening[p] = Words
          /\ UNCHANGED <<board, pc, job>>
        BY <1>3 DEF PipeHandler, shared
    <2>2. PICK w \in Clients :
              /\ pc[w] = "wopen" /\ job[w].pid = p /\ InFlight(w) /\ Sending(w)
              /\ job[w].address = board /\ board \in Paths /\ board \in fifos
              /\ \A r \in Clients \ {w} :
                    /\ ~ InFlight(r) /\ job[r].address # board
                    /\ ~ (pc[r] = "wopen" /\ job[r].pid = p)
        BY <2>1, SignalledReader
    <2>3. opening'[p] = board /\ \A r \in Clients \ {p} : opening'[r] = opening[r]
        BY <1>3, <2>2 DEF PipeHandler, IInv, TypeOK
    <2>4. ASSUME NEW q \in Clients, InFlight(q)' PROVE FALSE
      <3>1. q # w
          BY <2>1, <2>2, <2>3, <2>4 DEF InFlight
      <3>2. InFlight(q)
          BY <2>1, <2>3, <2>4 DEF InFlight
      <3> QED
          BY <2>2, <3>1, <3>2
    <2>5. /\ \A r \in Clients \ {p}, q \in Clients : Awaits(r, q)' => Awaits(r, q)
          /\ \A q \in Clients : Awaits(p, q)' => q = w
        BY <2>1, <2>2, <2>3 DEF Awaits
    <2>6. w # p => \A q \in Clients : ~ Awaits(w, q)'
      <3>1. opening[w] = Words
          BY <1>1, <2>2 DEF SenderFree
      <3> QED
          BY <1>1, <2>5, <3>1 DEF Awaits, Sending
    <2>7. ASSUME NEW S \in (SUBSET Clients) \ {{}}
          PROVE  \E r \in S : \A q \in S : Awaits(r, q)' => q = r
      <3>1. CASE p \notin S
          BY <1>1, <2>5, <3>1 DEF Unwound
      <3>2. CASE p \in S /\ (w = p \/ w \notin S)
          BY <2>5, <3>2
      <3>3. CASE w \in S /\ w # p
          BY <2>6, <3>3
      <3> QED
          BY <3>1, <3>2, <3>3
    <2> QED
        BY <2>4, <2>7 DEF SenderFree, Unwound
  <1> QED
      BY <1>2, <1>3

-----------------------------------------------------------------------------
(* What follows of every behaviour. *)

\* The invariant holds in the first state and is kept by every step.
THEOREM Invariance == Spec => []IInv
  <1>1. Init => IInv
      BY InitInv
  <1>2. IInv /\ [Next]_vars => IInv'
    <2>1. ASSUME IInv, Next PROVE IInv'
      <3>1. PICK p \in Clients : Step(p)
          BY <2>1 DEF Next, Step
      <3>2. TypeOK' /\ JobsOK' /\ EntriesOK' /\ NamesOK' /\ NewsOK' /\ PipesHold'
          BY <2>1, <3>1, TypeStep, JobsStep, EntriesStep, NamesStep, NewsStep, PipesStep DEF IInv
      <3> QED
          BY <3>2 DEF IInv
    <2>2. ASSUME IInv, UNCHANGED vars PROVE IInv'
      <3> USE <2>2 DEF vars
      <3>1. TypeOK' /\ JobsOK'
          BY DEF IInv, TypeOK, JobsOK, JobOK, Sending, Leaving
      <3>2. EntriesOK' /\ NamesOK' /\ NewsOK'
          BY DEF IInv, EntriesOK, NamesOK, NewsOK, NamesUnique, NameFree, Holds, Taken, Leaving, Live
      <3>3. PipesHold'
          BY DEF IInv, PipesHold, Quiet, InOrder, UsersServe, AddressesHold, BoardHolds, SignalsHold,
                ReadersHold, Sending, Leaving, InFlight, Holds, Taken
      <3> QED
          BY <3>1, <3>2, <3>3 DEF IInv
    <2> QED
        BY <2>1, <2>2
  <1> QED
      BY <1>1, <1>2, PTL DEF Spec

\* Pids, ids and addresses stay in range, in the table, on the board and in every
\* process, whatever the others do to the shared memory in between.
THEOREM TypeCorrect == Spec => []TypeOK
  <1>1. IInv => TypeOK
      BY DEF IInv
  <1> QED
      BY <1>1, Invariance, PTL

\* Unless two logins met or the table was full (multi_server.cpp finds a free entry
\* and writes it later, without a lock), a process that serves its user has one entry.
THEOREM EntryCorrect == Spec => []OwnEntry
  <1>1. IInv => OwnEntry
    <2> SUFFICES ASSUME IInv, ~ met, NEW p \in Clients,
                        pc[p] \notin {"new", "enter", "exit", "gone"}
                 PROVE  Cardinality({i \in Slots : users[i].pid = p}) = 1
        BY DEF OwnEntry
    <2>1. pc[p] \in Serving /\ p # Nobody
        BY RwgMultiAssumption DEF IInv, TypeOK, Pcs, Serving, RwgMultiAssumption
    <2>2. PICK i \in Slots : Holds(p, i)
        BY <2>1 DEF IInv, EntriesOK
    <2>3. {j \in Slots : users[j].pid = p} = {i}
        BY <2>1, <2>2 DEF IInv, EntriesOK, Holds, Taken
    <2> QED
        BY <2>3, FS_Singleton
  <1> QED
      BY <1>1, Invariance, PTL

\* Unless two processes met between NPname's look through the table and its write,
\* no two users have the same nickname.
THEOREM NamesCorrect == Spec => []NamesUnique
  <1>1. IInv => NamesUnique
      BY DEF IInv, NamesOK, NamesUnique
  <1> QED
      BY <1>1, Invariance, PTL

\* When broadcast's loop of kills is over, every user who was in the table when the
\* board was written, and still is, has shown the board or has the signal.
THEOREM NewsCorrect == Spec => []NewsReach
  <1>1. IInv => NewsReach
      BY DEF IInv, NewsOK, NewsReach, Listed, Holds
  <1> QED
      BY <1>1, Invariance, PTL

\* As long as no address on the board was overwritten or lost its reader, what
\* User_pipeHandler opens, and the read ends a process holds, are of pipes to its user.
THEOREM AddressedCorrect == Spec => []PipeAddressed
  <1>1. IInv => PipeAddressed
    <2> SUFFICES ASSUME IInv, ~ (met \/ disturbed), NEW p \in Listed,
                        NEW f \in fdIn[p] \cup ({opening[p]} \ {Words})
                 PROVE  f[2] = Id(p)
        BY DEF PipeAddressed
    <2>1. InOrder /\ TypeOK /\ EntriesOK
        BY DEF IInv, PipesHold, Quiet
    <2>2. p \in Clients /\ pc[p] \in Serving
        BY <2>1 DEF Listed, Taken, InOrder, UsersServe, TypeOK
    <2>3. f[2] \in Slots /\ Holds(p, f[2])
      <3>1. CASE f \in fdIn[p]
          BY <2>1, <2>2, <3>1 DEF InOrder, ReadersHold, Paths
      <3>2. CASE f = opening[p] /\ f # Words
        <4>1. PICK q \in Clients : pc[q] = "wopen" /\ job[q].pid = p /\ job[q].address = f
            BY <2>1, <2>2, <3>2 DEF InOrder, SignalsHold
        <4>2. Sending(q) /\ f \in Paths
            BY <3>2, <4>1 DEF Sending, IInv, JobsOK, JobOK
        <4> QED
            BY <2>1, <4>1, <4>2 DEF InOrder, AddressesHold, Paths
      <3> QED
          BY <3>1, <3>2
    <2> QED
        BY <2>1, <2>2, <2>3, IdOfHolder
  <1> QED
      BY <1>1, Invariance, PTL

\* Under the same condition a sender blocked in open(FIFO, O_WRONLY) has a reader that
\* is opening the FIFO too, or has the signal to do so.
THEOREM ReadEndCorrect == Spec => []ReadEndOpened
  <1>1. IInv => ReadEndOpened
      BY DEF IInv, PipesHold, Quiet, InOrder, SignalsHold, ReadEndOpened
  <1> QED
      BY <1>1, Invariance, PTL

\* multi_shell.cpp:86-98: when a process has exited, user_logout has taken its user out
\* of the table, whatever the handlers did between its steps.
THEOREM LeaversCorrect == Spec => []LeaversErased
  <1>1. IInv => LeaversErased
      BY RwgMultiAssumption DEF RwgMultiAssumption, IInv, PipesHold, Quiet, InOrder, UsersServe,
         LeaversErased, Listed, Serving
  <1> QED
      BY <1>1, Invariance, PTL

\* Processes that wait for each other in a circle in User_pipeHandler and in the open of
\* multi_shell.cpp:467, and a handler whose FIFO no sender is opening, come only after one
\* process overwrote another's address on the board, or an address lost its reader.
THEOREM CircleCorrect == Spec => []CircleNeedsClash
  <1>1. Init => WaitsHold
    <2>1. Init => \A p, q \in Clients : opening[p] = Words /\ ~ Awaits(p, q)
        BY DEF Init, Awaits
    <2> QED
        BY <2>1 DEF WaitsHold, SenderFree, Unwound
  <1>2. IInv /\ WaitsHold /\ [Next]_vars => WaitsHold'
    <2>1. ASSUME IInv, WaitsHold, Next PROVE WaitsHold'
      <3>1. PICK p \in Clients : Step(p)
          BY <2>1 DEF Next, Step
      <3> QED
          BY <2>1, <3>1, WaitsStep
    <2>2. ASSUME WaitsHold, UNCHANGED vars PROVE WaitsHold'
        BY <2>2 DEF WaitsHold, Quiet, SenderFree, Unwound, InFlight, Awaits, vars
    <2> QED
        BY <2>1, <2>2
  <1>3. IInv /\ WaitsHold => CircleNeedsClash
    <2> SUFFICES ASSUME IInv, WaitsHold, Quiet
                 PROVE  /\ \A p \in Clients : opening[p] # Words => \E q \in Clients : Awaits(p, q)
                        /\ Unwound
        BY DEF CircleNeedsClash, Unwound, Quiet
    <2> QED
        BY DEF IInv, PipesHold, InOrder, SignalsHold, WaitsHold, Awaits
  <1> QED
      BY <1>1, <1>2, <1>3, Invariance, PTL DEF Spec
=============================================================================
