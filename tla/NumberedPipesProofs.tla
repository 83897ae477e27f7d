------------------------- MODULE NumberedPipesProofs -------------------------
(***************************************************************************)
(* Proofs about NumberedPipes, for every number of commands, table length, *)
(* set of offsets and of descriptors.                                      *)
(*                                                                         *)
(* TablesOK is what a table of inputs, a list of pipes and a descriptor    *)
(* table must satisfy together; it is stated of any three such values,     *)
(* because a command that makes a pipe goes through an intermediate state  *)
(* (pipe made, command not yet forked) that is not a state of the          *)
(* specification.                                                          *)
(***************************************************************************)
EXTENDS NumberedPipes, SequenceTheorems, TLAPS

Positive == Nat \ {0}

\* The list pairs a read end with the write end of the same pipe.
Paired(sfd, list) ==
    \A p \in list : /\ sfd[p[1]] # Closed /\ sfd[p[1]][1] = "r"
                    /\ sfd[p[2]] = <<"w", sfd[p[1]][2]>>

\* An end is open on at most one descriptor, and every open one is listed.
Listed(sfd, list) ==
    /\ \A f, g \in Fds : sfd[f] = sfd[g] /\ sfd[f] # Closed => f = g
    /\ \A f \in Fds : sfd[f] # Closed => \E p \in list : f \in {p[1], p[2]}

\* The table names listed read ends, each once.
Entered(tab, list) ==
    /\ \A i \in Positive : Entry(tab, i) # STDIN =>
          \E p \in list : p[1] = Entry(tab, i)
    /\ \A i, j \in Positive : Entry(tab, i) = Entry(tab, j) /\ i # j =>
          Entry(tab, i) = STDIN

TablesOK(tab, sfd, list) ==
    /\ tab \in Seq(Fds \cup {STDIN}) /\ Len(tab) >= PipeNumMax
    /\ sfd \in [Fds -> Ends \cup {Closed}]
    /\ list \subseteq (Fds \X Fds)
    /\ Paired(sfd, list) /\ Listed(sfd, list) /\ Entered(tab, list)

-----------------------------------------------------------------------------
(* The tables. *)

LEMMA EntryType ==
    ASSUME NEW tab \in Seq(Fds \cup {STDIN}), NEW i \in Positive
    PROVE  Entry(tab, i) \in Fds \cup {STDIN}
  BY DEF Entry, Positive

\* Refill adds entries that connect nothing.
LEMMA RefillEntries ==
    ASSUME NEW tab \in Seq(Fds \cup {STDIN})
    PROVE  /\ Refill(tab) \in Seq(Fds \cup {STDIN})
           /\ Len(Refill(tab)) >= PipeNumMax
           /\ Len(Refill(tab)) >= Len(tab)
           /\ \A i \in Positive : Entry(Refill(tab), i) = Entry(tab, i)
  <1> DEFINE n == PipeNumMax - Len(tab)
             pad == [i \in 1 .. n |-> STDIN]
  <1>1. PipeNumMax \in Nat /\ Len(tab) \in Nat
      BY NumberedPipesAssumption
  <1>2. Refill(tab) = tab \o pad
      BY Zenon DEF Refill
  <1>3. CASE n \in Nat
    <2>1. pad \in Seq(Fds \cup {STDIN}) /\ Len(pad) = n
        BY <1>3
    <2>2. \A i \in 1 .. n : pad[i] = STDIN
        OBVIOUS
    <2> HIDE DEF pad
    <2>3. /\ tab \o pad \in Seq(Fds \cup {STDIN})
          /\ Len(tab \o pad) = Len(tab) + n
          /\ \A i \in 1 .. (Len(tab) + n) :
                 (tab \o pad)[i] = IF i <= Len(tab) THEN tab[i] ELSE pad[i - Len(tab)]
        BY ZenonT(30), <2>1, ConcatProperties
    <2>4. \A i \in Positive : Entry(tab \o pad, i) = Entry(tab, i)
        BY <2>2, <2>3, <1>1, <1>3 DEF Entry, Positive
    <2>5. Len(tab \o pad) >= PipeNumMax /\ Len(tab \o pad) >= Len(tab)
        BY <2>3, <1>1, <1>3
    <2> QED BY <2>3, <2>4, <2>5, <1>2
  <1>4. CASE n \notin Nat
    <2>1. pad = << >>
        BY <1>1, <1>4
    <2>2. Refill(tab) = tab
        BY <2>1, <1>2, ConcatEmptySeq, Zenon
    <2>3. Len(tab) >= PipeNumMax
        BY <1>1, <1>4
    <2> QED BY <2>2, <2>3, <1>1
  <1> QED BY <1>3, <1>4

\* Moving on by one command moves every entry forward by one.
LEMMA ShiftEntries ==
    ASSUME NEW tab \in Seq(Fds \cup {STDIN}), Len(tab) >= PipeNumMax,
           NEW ends \in BOOLEAN
    PROVE  /\ Shift(tab, ends) \in Seq(Fds \cup {STDIN})
           /\ Len(Shift(tab, ends)) >= PipeNumMax
           /\ \A i \in Positive : Entry(Shift(tab, ends), i) = Entry(tab, i + 1)
  <1> DEFINE u == Append(Tail(tab), STDIN)
  <1>1. Len(tab) \in Nat /\ Len(tab) >= 1
      BY NumberedPipesAssumption
  <1>2. /\ Tail(tab) \in Seq(Fds \cup {STDIN}) /\ Len(Tail(tab)) = Len(tab) - 1
        /\ \A i \in 1 .. (Len(tab) - 1) : Tail(tab)[i] = tab[i + 1]
      BY <1>1
  <1>3. /\ u \in Seq(Fds \cup {STDIN}) /\ Len(u) = Len(tab)
        /\ \A i \in 1 .. (Len(tab) - 1) : u[i] = tab[i + 1]
        /\ u[Len(tab)] = STDIN
      BY <1>1, <1>2, AppendProperties
  <1> HIDE DEF u
  <1>4. \A i \in Positive : Entry(u, i) = Entry(tab, i + 1)
    <2> SUFFICES ASSUME NEW i \in Positive PROVE Entry(u, i) = Entry(tab, i + 1)
        OBVIOUS
    <2>1. CASE i < Len(tab)
        BY <2>1, <1>1, <1>3 DEF Entry, Positive
    <2>2. CASE i = Len(tab)
        BY <2>2, <1>1, <1>3 DEF Entry, Positive
    <2>3. CASE i > Len(tab)
        BY <2>3, <1>1, <1>3 DEF Entry, Positive
    <2> QED BY <2>1, <2>2, <2>3, <1>1 DEF Positive
  <1>5. Shift(tab, ends) = IF ends THEN Refill(u) ELSE u
      BY DEF Shift, u
  <1> QED BY <1>3, <1>4, <1>5, RefillEntries

\* A built-in only takes the first entry away.
LEMMA TailEntries ==
    ASSUME NEW tab \in Seq(Fds \cup {STDIN}), Len(tab) >= PipeNumMax
    PROVE  /\ Refill(Tail(tab)) \in Seq(Fds \cup {STDIN})
           /\ Len(Refill(Tail(tab))) >= PipeNumMax
           /\ \A i \in Positive : Entry(Refill(Tail(tab)), i) = Entry(tab, i + 1)
  <1>1. Len(tab) \in Nat /\ Len(tab) >= 1
      BY NumberedPipesAssumption
  <1>2. /\ Tail(tab) \in Seq(Fds \cup {STDIN}) /\ Len(Tail(tab)) = Len(tab) - 1
        /\ \A i \in 1 .. (Len(tab) - 1) : Tail(tab)[i] = tab[i + 1]
      BY <1>1
  <1>3. \A i \in Positive : Entry(Tail(tab), i) = Entry(tab, i + 1)
      BY <1>1, <1>2 DEF Entry, Positive
  <1> QED BY <1>2, <1>3, RefillEntries

LEMMA PipeIdsAreNat == \A p \in PipeIds : p \in Nat
  BY NumberedPipesAssumption DEF PipeIds, NoPipe, Cmds

LEMMA FdsAreNotStd == \A f \in Fds : f # STDIN /\ f # STDOUT
  BY NumberedPipesAssumption DEF STDIN, STDOUT

\* The write end a listed pipe has is that of the pipe its read end names.
LEMMA PairedEnds ==
    ASSUME NEW sfd \in [Fds -> Ends \cup {Closed}], NEW list \in SUBSET (Fds \X Fds),
           Paired(sfd, list), NEW p \in list
    PROVE  /\ p[1] \in Fds /\ p[2] \in Fds /\ p = <<p[1], p[2]>>
           /\ sfd[p[1]][2] \in Cmds
           /\ sfd[p[1]] = <<"r", sfd[p[1]][2]>> /\ sfd[p[2]] = <<"w", sfd[p[1]][2]>>
           /\ PipeOn(sfd, p[1]) = sfd[p[1]][2] /\ PipeOn(sfd, p[2]) = sfd[p[1]][2]
  <1>1. p[1] \in Fds /\ p[2] \in Fds /\ p = <<p[1], p[2]>>
      OBVIOUS
  <1>2. sfd[p[1]] \in Ends /\ sfd[p[1]][1] = "r"
      BY <1>1 DEF Paired
  <1>3. sfd[p[1]][2] \in Cmds /\ sfd[p[1]] = <<"r", sfd[p[1]][2]>>
      BY <1>2 DEF Ends
  <1>4. sfd[p[2]] = <<"w", sfd[p[1]][2]>>
      BY DEF Paired
  <1>5. PipeOn(sfd, p[1]) = sfd[p[1]][2] /\ PipeOn(sfd, p[2]) = sfd[p[1]][2]
      BY <1>1, <1>3, <1>4, FdsAreNotStd DEF PipeOn
  <1> QED BY <1>1, <1>3, <1>4, <1>5

\* Two listed pipes are the same as soon as their read ends name one pipe.
LEMMA OneListedPipe ==
    ASSUME NEW sfd \in [Fds -> Ends \cup {Closed}], NEW list \in SUBSET (Fds \X Fds),
           Paired(sfd, list), Listed(sfd, list),
           NEW p \in list, NEW q \in list, sfd[p[1]][2] = sfd[q[1]][2]
    PROVE  p = q
  <1>1. /\ p[1] \in Fds /\ p[2] \in Fds /\ p = <<p[1], p[2]>>
        /\ sfd[p[1]] = <<"r", sfd[p[1]][2]>> /\ sfd[p[2]] = <<"w", sfd[p[1]][2]>>
      BY PairedEnds
  <1>2. /\ q[1] \in Fds /\ q[2] \in Fds /\ q = <<q[1], q[2]>>
        /\ sfd[q[1]] = <<"r", sfd[q[1]][2]>> /\ sfd[q[2]] = <<"w", sfd[q[1]][2]>>
      BY PairedEnds
  <1>3. sfd[p[1]] # Closed /\ sfd[p[2]] # Closed
      BY <1>1 DEF Closed
  <1>4. p[1] = q[1] /\ p[2] = q[2]
      BY <1>1, <1>2, <1>3 DEF Listed
  <1> QED BY <1>1, <1>2, <1>4

\* Entries of the table lead to different pipes.
LEMMA EntriesDiffer ==
    ASSUME NEW tab, NEW sfd, NEW list, TablesOK(tab, sfd, list),
           NEW i \in Positive, NEW j \in Positive, i # j
    PROVE  PipeOn(sfd, Entry(tab, i)) = PipeOn(sfd, Entry(tab, j))
              => PipeOn(sfd, Entry(tab, i)) = NoPipe
  <1>1. CASE Entry(tab, i) = STDIN \/ Entry(tab, j) = STDIN
      BY <1>1 DEF PipeOn
  <1>2. CASE Entry(tab, i) # STDIN /\ Entry(tab, j) # STDIN
    <2>1. PICK p \in list : p[1] = Entry(tab, i)
        BY <1>2 DEF TablesOK, Entered
    <2>2. PICK q \in list : q[1] = Entry(tab, j)
        BY <1>2 DEF TablesOK, Entered
    <2>3. PipeOn(sfd, p[1]) = sfd[p[1]][2] /\ PipeOn(sfd, q[1]) = sfd[q[1]][2]
        BY PairedEnds DEF TablesOK
    <2>4. sfd[p[1]][2] = sfd[q[1]][2] => p = q
        BY OneListedPipe DEF TablesOK
    <2>5. Entry(tab, i) # Entry(tab, j)
        BY <1>2 DEF TablesOK, Entered
    <2> QED BY <2>1, <2>2, <2>3, <2>4, <2>5
  <1> QED BY <1>1, <1>2

\* Command n makes a pipe on the free descriptors r and w, for the entry off + 1
\* that nothing feeds yet.
PipeMade(tab, sfd, list, off, r, w, n, tab2, sfd2, list2) ==
    /\ off \in Nat /\ off < Len(tab) /\ tab[off + 1] = STDIN
    /\ r \in Fds /\ w \in Fds /\ r # w /\ sfd[r] = Closed /\ sfd[w] = Closed
    /\ n \in Cmds /\ \A f \in Fds : sfd[f][2] # n
    /\ tab2 = [tab EXCEPT ![off + 1] = r]
    /\ sfd2 = [sfd EXCEPT ![r] = <<"r", n>>, ![w] = <<"w", n>>]
    /\ list2 = list \cup {<<r, w>>}

\* Then that entry leads to the new pipe, and the tables are still in order.
LEMMA MakePipe ==
    ASSUME NEW tab, NEW sfd, NEW list, TablesOK(tab, sfd, list),
           NEW off, NEW r, NEW w, NEW n, NEW tab2, NEW sfd2, NEW list2,
           PipeMade(tab, sfd, list, off, r, w, n, tab2, sfd2, list2)
    PROVE  /\ TablesOK(tab2, sfd2, list2)
           /\ \A i \in Positive : PipeOn(sfd2, Entry(tab2, i)) =
                  IF i = off + 1 THEN n ELSE PipeOn(sfd, Entry(tab, i))
  <1> USE DEF PipeMade
  <1>1. /\ tab \in Seq(Fds \cup {STDIN}) /\ Len(tab) >= PipeNumMax /\ Len(tab) \in Nat
        /\ sfd \in [Fds -> Ends \cup {Closed}] /\ list \in SUBSET (Fds \X Fds)
        /\ Paired(sfd, list) /\ Listed(sfd, list) /\ Entered(tab, list)
      BY DEF TablesOK
  <1>2. off + 1 \in 1 .. Len(tab)
      BY <1>1
  <1>3. /\ tab2 \in Seq(Fds \cup {STDIN}) /\ Len(tab2) = Len(tab)
        /\ \A i \in 1 .. Len(tab) : tab2[i] = IF i = off + 1 THEN r ELSE tab[i]
      BY <1>1, <1>2, ExceptSeq
  <1>4. \A i \in Positive : Entry(tab2, i) = IF i = off + 1 THEN r ELSE Entry(tab, i)
      BY <1>1, <1>2, <1>3 DEF Entry, Positive
  <1>5. /\ sfd2 \in [Fds -> Ends \cup {Closed}]
        /\ sfd2[r] = <<"r", n>> /\ sfd2[w] = <<"w", n>>
        /\ \A f \in Fds : f # r /\ f # w => sfd2[f] = sfd[f]
      BY <1>1 DEF Ends
  <1>6. \A p \in list : /\ p[1] \in Fds /\ p[2] \in Fds
                        /\ sfd[p[1]] # Closed /\ sfd[p[2]] # Closed
                        /\ sfd2[p[1]] = sfd[p[1]] /\ sfd2[p[2]] = sfd[p[2]]
      BY <1>1, <1>5 DEF Paired, Closed
  <1>7. Paired(sfd2, list2)
    <2> SUFFICES ASSUME NEW p \in list2
                 PROVE  /\ sfd2[p[1]] # Closed /\ sfd2[p[1]][1] = "r"
                        /\ sfd2[p[2]] = <<"w", sfd2[p[1]][2]>>
        BY DEF Paired
    <2>1. CASE p \in list
        BY <2>1, <1>1, <1>6 DEF Paired
    <2>2. CASE p = <<r, w>>
        BY <2>2, <1>5 DEF Closed
    <2> QED BY <2>1, <2>2
  <1>8. Listed(sfd2, list2)
    <2>1. ASSUME NEW f \in Fds, NEW g \in Fds, sfd2[f] = sfd2[g], sfd2[f] # Closed
          PROVE  f = g
      <3>1. CASE f \in {r, w} /\ g \in {r, w}
          BY <3>1, <2>1, <1>5
      <3>2. CASE f \in {r, w} /\ g \notin {r, w}
          BY <3>2, <2>1, <1>5
      <3>3. CASE f \notin {r, w} /\ g \in {r, w}
          BY <3>3, <2>1, <1>5
      <3>4. CASE f \notin {r, w} /\ g \notin {r, w}
          BY <3>4, <2>1, <1>1, <1>5 DEF Listed
      <3> QED BY <3>1, <3>2, <3>3, <3>4
    <2>2. ASSUME NEW f \in Fds, sfd2[f] # Closed
          PROVE  \E p \in list2 : f \in {p[1], p[2]}
      <3>1. CASE f \in {r, w}
        <4>1. <<r, w>> \in list2 /\ f \in {<<r, w>>[1], <<r, w>>[2]}
            BY <3>1
        <4> QED BY <4>1
      <3>2. CASE f \notin {r, w}
          BY <3>2, <2>2, <1>1, <1>5 DEF Listed
      <3> QED BY <3>1, <3>2
    <2> QED BY <2>1, <2>2 DEF Listed
  <1>9. \A i \in Positive : Entry(tab, i) # r
      BY <1>1, <1>6, FdsAreNotStd DEF Entered
  <1>10. Entered(tab2, list2)
    <2>1. ASSUME NEW i \in Positive, Entry(tab2, i) # STDIN
          PROVE  \E p \in list2 : p[1] = Entry(tab2, i)
      <3>1. CASE i = off + 1
        <4>1. <<r, w>> \in list2 /\ <<r, w>>[1] = Entry(tab2, i)
            BY <3>1, <1>4
        <4> QED BY <4>1
      <3>2. CASE i # off + 1
          BY <3>2, <2>1, <1>1, <1>4 DEF Entered
      <3> QED BY <3>1, <3>2
    <2>2. \A i, j \in Positive : Entry(tab2, i) = Entry(tab2, j) /\ i # j =>
             Entry(tab2, i) = STDIN
        BY ZenonT(30), <1>1, <1>4, <1>9 DEF Entered
    <2> QED BY <2>1, <2>2 DEF Entered
  <1>11. \A p \in list2 : p \in Fds \X Fds
      BY <1>1
  <1>12. TablesOK(tab2, sfd2, list2)
      BY <1>1, <1>3, <1>5, <1>7, <1>8, <1>10, <1>11 DEF TablesOK
  <1>13. ASSUME NEW i \in Positive
         PROVE  PipeOn(sfd2, Entry(tab2, i)) =
                    IF i = off + 1 THEN n ELSE PipeOn(sfd, Entry(tab, i))
    <2>1. CASE i = off + 1
        BY <2>1, <1>4, <1>5, FdsAreNotStd DEF PipeOn
    <2>2. CASE i # off + 1 /\ Entry(tab, i) = STDIN
        BY <2>2, <1>4 DEF PipeOn
    <2>3. CASE i # off + 1 /\ Entry(tab, i) # STDIN
      <3>1. PICK p \in list : p[1] = Entry(tab, i)
          BY <2>3, <1>1 DEF Entered
      <3>2. sfd2[Entry(tab, i)] = sfd[Entry(tab, i)]
          BY <3>1, <1>6
      <3>3. Entry(tab2, i) = Entry(tab, i)
          BY <2>3, <1>4
      <3>4. PipeOn(sfd2, Entry(tab, i)) = PipeOn(sfd, Entry(tab, i))
          BY <3>2 DEF PipeOn
      <3> QED BY <3>3, <3>4, <2>3
    <2> QED BY <2>1, <2>2, <2>3
  <1> QED BY <1>12, <1>13

\* The parent closes the pipe that the forked command reads and moves on: what
\* is left is in order, later entries lead where they led, and no end of the
\* closed pipe stays open.
LEMMA ReadPipe ==
    ASSUME NEW tab, NEW sfd, NEW list, TablesOK(tab, sfd, list), NEW ends \in BOOLEAN,
           CloseConsumed(sfd, list, tab[1]), fdTable' = Shift(tab, ends)
    PROVE  /\ TablesOK(fdTable', shellFds', pipes')
           /\ \A i \in Positive : PipeOn(shellFds', Entry(fdTable', i)) =
                                     PipeOn(sfd, Entry(tab, i + 1))
           /\ \A f \in Fds : shellFds'[f] \in {Closed, sfd[f]}
           /\ PipeOn(sfd, tab[1]) # NoPipe =>
                 \A f \in Fds : shellFds'[f] # Closed =>
                                    shellFds'[f][2] # PipeOn(sfd, tab[1])
  <1>1. /\ tab \in Seq(Fds \cup {STDIN}) /\ Len(tab) >= PipeNumMax /\ Len(tab) \in Nat
        /\ sfd \in [Fds -> Ends \cup {Closed}] /\ list \in SUBSET (Fds \X Fds)
        /\ Paired(sfd, list) /\ Listed(sfd, list) /\ Entered(tab, list)
      BY DEF TablesOK
  <1>2. /\ fdTable' \in Seq(Fds \cup {STDIN}) /\ Len(fdTable') >= PipeNumMax
        /\ \A i \in Positive : Entry(fdTable', i) = Entry(tab, i + 1)
      BY <1>1, ShiftEntries
  <1>3. tab[1] = Entry(tab, 1) /\ 1 \in Positive
      BY <1>1, NumberedPipesAssumption DEF Entry, Positive
  <1> DEFINE gone == Consumed(list, tab[1])
             dead == {f \in Fds : \E p \in gone : f \in {p[1], p[2]}}
  <1>4. /\ pipes' = list \ gone
        /\ shellFds' = [f \in Fds |-> IF f \in dead THEN Closed ELSE sfd[f]]
      BY DEF CloseConsumed
  <1>5. \A p \in gone : p \in list /\ tab[1] # STDIN /\ p[1] = tab[1]
      BY DEF Consumed
  <1>6. \A p \in list : p \notin gone => p[1] \notin dead /\ p[2] \notin dead
    <2> SUFFICES ASSUME NEW p \in list, p \notin gone, NEW q \in gone,
                        p[1] \in {q[1], q[2]} \/ p[2] \in {q[1], q[2]}
                 PROVE  FALSE
        OBVIOUS
    <2>1. q \in list
        BY <1>5
    <2>2. sfd[p[1]] = <<"r", sfd[p[1]][2]>> /\ sfd[p[2]] = <<"w", sfd[p[1]][2]>>
        BY <1>1, PairedEnds
    <2>3. sfd[q[1]] = <<"r", sfd[q[1]][2]>> /\ sfd[q[2]] = <<"w", sfd[q[1]][2]>>
        BY <1>1, <2>1, PairedEnds
    <2>4. sfd[p[1]][2] = sfd[q[1]][2]
        BY <2>2, <2>3
    <2>5. p = q
        BY <2>1, <2>4, <1>1, OneListedPipe
    <2> QED BY <2>5
  <1> HIDE DEF gone
  <1>7. \A f \in Fds : shellFds'[f] = IF f \in dead THEN Closed ELSE sfd[f]
      BY <1>4
  <1>8. shellFds' \in [Fds -> Ends \cup {Closed}] /\ pipes' \subseteq (Fds \X Fds)
      BY <1>1, <1>4
  <1>9. Paired(shellFds', pipes')
    <2> SUFFICES ASSUME NEW p \in pipes'
                 PROVE  /\ shellFds'[p[1]] # Closed /\ shellFds'[p[1]][1] = "r"
                        /\ shellFds'[p[2]] = <<"w", shellFds'[p[1]][2]>>
        BY DEF Paired
    <2>1. p \in list /\ p[1] \notin dead /\ p[2] \notin dead /\ p[1] \in Fds /\ p[2] \in Fds
        BY <1>1, <1>4, <1>6
    <2>2. shellFds'[p[1]] = sfd[p[1]] /\ shellFds'[p[2]] = sfd[p[2]]
        BY <2>1, <1>7
    <2> QED BY <2>1, <2>2, <1>1 DEF Paired
  <1>10. Listed(shellFds', pipes')
    <2>1. ASSUME NEW f \in Fds, NEW g \in Fds,
                 shellFds'[f] = shellFds'[g], shellFds'[f] # Closed
          PROVE  f = g
        BY <2>1, <1>1, <1>7 DEF Listed
    <2>2. ASSUME NEW f \in Fds, shellFds'[f] # Closed
          PROVE  \E p \in pipes' : f \in {p[1], p[2]}
      <3>1. f \notin dead /\ sfd[f] # Closed
          BY <2>2, <1>7
      <3>2. PICK p \in list : f \in {p[1], p[2]}
          BY <3>1, <1>1 DEF Listed
      <3>3. p \notin gone
          BY <3>1, <3>2
      <3> QED BY <3>2, <3>3, <1>4
    <2> QED BY <2>1, <2>2 DEF Listed
  <1>11. ASSUME NEW i \in Positive, Entry(tab, i + 1) # STDIN
         PROVE  \E p \in list : p \notin gone /\ p[1] = Entry(tab, i + 1)
    <2>1. i + 1 \in Positive /\ i + 1 # 1
        BY DEF Positive
    <2>2. PICK p \in list : p[1] = Entry(tab, i + 1)
        BY <1>11, <2>1, <1>1 DEF Entered
    <2>3. p \notin gone
        BY <1>11, <2>1, <2>2, <1>1, <1>3, <1>5 DEF Entered
    <2> QED BY <2>2, <2>3
  <1>12. Entered(fdTable', pipes')
    <2>1. \A i \in Positive : Entry(fdTable', i) # STDIN =>
             \E p \in pipes' : p[1] = Entry(fdTable', i)
        BY <1>2, <1>4, <1>11
    <2>2. \A i, j \in Positive : Entry(fdTable', i) = Entry(fdTable', j) /\ i # j =>
             Entry(fdTable', i) = STDIN
        BY <1>1, <1>2 DEF Entered, Positive
    <2> QED BY <2>1, <2>2 DEF Entered
  <1>13. ASSUME NEW i \in Positive
         PROVE  PipeOn(shellFds', Entry(fdTable', i)) = PipeOn(sfd, Entry(tab, i + 1))
    <2>1. CASE Entry(tab, i + 1) = STDIN
        BY <2>1, <1>2 DEF PipeOn
    <2>2. CASE Entry(tab, i + 1) # STDIN
      <3>1. PICK p \in list : p \notin gone /\ p[1] = Entry(tab, i + 1)
          BY <2>2, <1>11
      <3>2. p[1] \in Fds /\ p[1] \notin dead
          BY <3>1, <1>1, <1>6
      <3>3. shellFds'[Entry(tab, i + 1)] = sfd[Entry(tab, i + 1)]
          BY <3>1, <3>2, <1>7
      <3> QED BY <3>3, <1>2 DEF PipeOn
    <2> QED BY <2>1, <2>2
  <1>14. ASSUME PipeOn(sfd, tab[1]) # NoPipe, NEW f \in Fds, shellFds'[f] # Closed
         PROVE  shellFds'[f][2] # PipeOn(sfd, tab[1])
    <2>1. tab[1] # STDIN
        BY <1>14 DEF PipeOn
    <2>2. PICK p \in list : p[1] = tab[1]
        BY <2>1, <1>1, <1>3 DEF Entered
    <2>3. p \in gone
        BY <2>1, <2>2 DEF gone, Consumed
    <2>4. f \notin dead /\ shellFds'[f] = sfd[f] /\ sfd[f] # Closed
        BY <1>14, <1>7
    <2>5. PICK q \in list : f \in {q[1], q[2]}
        BY <2>4, <1>1 DEF Listed
    <2>6. p # q
        BY <2>3, <2>4, <2>5
    <2>7. sfd[f][2] = sfd[q[1]][2]
        BY <2>5, <1>1, PairedEnds
    <2>8. PipeOn(sfd, tab[1]) = sfd[p[1]][2]
        BY <2>2, <1>1, PairedEnds
    <2> QED BY <2>4, <2>6, <2>7, <2>8, <1>1, OneListedPipe
  <1>15. TablesOK(fdTable', shellFds', pipes')
      BY <1>2, <1>8, <1>9, <1>10, <1>12 DEF TablesOK
  <1> HIDE DEF dead
  <1>16. \A f \in Fds : shellFds'[f] \in {Closed, sfd[f]}
      BY <1>7
  <1> QED BY <1>13, <1>14, <1>15, <1>16

\* After the fork the child has its own two ends open and nothing else: every
\* other descriptor it inherited was on the list it closes.
LEMMA ChildHasItsOwn ==
    ASSUME NEW tab, NEW sfd, NEW list, TablesOK(tab, sfd, list),
           NEW o, o = STDOUT \/ \E p \in list : o = p[2]
    PROVE  \A e \in ChildEnds(sfd, list, tab[1], o) :
               /\ e \in Ends
               /\ e = <<"r", PipeOn(sfd, tab[1])>> \/ e = <<"w", PipeOn(sfd, o)>>
  <1>1. /\ tab \in Seq(Fds \cup {STDIN}) /\ Len(tab) >= PipeNumMax /\ Len(tab) \in Nat
        /\ sfd \in [Fds -> Ends \cup {Closed}] /\ list \in SUBSET (Fds \X Fds)
        /\ Paired(sfd, list) /\ Listed(sfd, list) /\ Entered(tab, list)
      BY DEF TablesOK
  <1>2. tab[1] = Entry(tab, 1) /\ 1 \in Positive
      BY <1>1, NumberedPipesAssumption DEF Entry, Positive
  <1>3. {g \in Fds : sfd[g] # Closed /\ \A p \in list : g # p[1] /\ g # p[2]} = {}
      BY <1>1 DEF Listed
  <1>4. ASSUME tab[1] # STDIN
        PROVE  sfd[tab[1]] \in Ends /\ sfd[tab[1]] = <<"r", PipeOn(sfd, tab[1])>>
    <2>1. PICK p \in list : p[1] = tab[1]
        BY <1>1, <1>2, <1>4 DEF Entered
    <2> QED BY <2>1, <1>1, PairedEnds DEF Ends
  <1>5. ASSUME o # STDOUT
        PROVE  sfd[o] \in Ends /\ sfd[o] = <<"w", PipeOn(sfd, o)>>
    <2>1. PICK p \in list : o = p[2]
        BY <1>5
    <2> QED BY <2>1, <1>1, PairedEnds DEF Ends
  <1> QED BY <1>3, <1>4, <1>5 DEF ChildEnds

-----------------------------------------------------------------------------
(* The inductive invariant. *)

Alive == mode # "exited"

\* Pipes are numbered by the commands that made them.
PipesOld ==
    /\ \A f \in Fds : shellFds[f][2] < pos
    /\ \A c \in Cmds : inp[c] < pos /\ out[c] < pos

\* A command that has not come yet has nothing; a built-in has no output.
UnbornOK ==
    \A c \in Cmds :
        /\ c >= pos <=> st[c] = "unborn"
        /\ st[c] \in {"unborn", "builtin"} => out[c] = NoPipe /\ held[c] = {}
        /\ st[c] = "unborn" => inp[c] = NoPipe

\* Routing, for commands that have come ...
RoutedPast ==
    \A c \in Cmds : out[c] # NoPipe =>
        \A k \in Cmds : k < pos => (inp[k] = out[c] <=> k = target[c])

\* ... and for those to come.
RoutedToCome ==
    Alive => \A c \in Cmds : out[c] # NoPipe =>
        \A i \in Positive :
            PipeOn(shellFds, Entry(fdTable, i)) = out[c] <=> target[c] = pos + i - 1

\* No pipe is the input of two commands.
InputsDiffer ==
    /\ \A c, d \in Cmds : inp[c] = inp[d] /\ inp[c] # NoPipe => c = d
    /\ Alive => \A c \in Cmds : inp[c] # NoPipe =>
                  \A i \in Positive : PipeOn(shellFds, Entry(fdTable, i)) # inp[c]

\* The shell has closed the pipes that its commands read.
Released ==
    \A c \in Cmds : inp[c] # NoPipe /\ st[c] # "builtin" =>
        \A f \in Fds : shellFds[f] # Closed => shellFds[f][2] # inp[c]

\* A command has at most its own two ends open.
HeldOwn ==
    \A c \in Cmds : \A e \in held[c] :
        /\ e \in Ends
        /\ e = <<"r", inp[c]>> \/ e = <<"w", out[c]>>

\* While the shell waits, it waits for a command it forked.
WaitsForForeground ==
    mode = "wait" => fg \in Cmds /\ st[fg] \notin {"unborn", "builtin"}

IInv ==
    /\ TypeOK
    /\ Alive => TablesOK(fdTable, shellFds, pipes)
    /\ PipesOld /\ UnbornOK /\ RoutedPast /\ RoutedToCome
    /\ InputsDiffer /\ Released /\ HeldOwn /\ WaitsForForeground

LEMMA InitInv == Init => IInv
  <1> SUFFICES ASSUME Init PROVE IInv
      OBVIOUS
  <1>1. /\ InitLen \in Nat /\ PipeNumMax <= InitLen /\ PipeNumMax \in Nat
      BY NumberedPipesAssumption
  <1>2. fdTable \in Seq(Fds \cup {STDIN}) /\ Len(fdTable) = InitLen
    <2>1. fdTable = [i \in 1 .. InitLen |-> STDIN]
        BY DEF Init
    <2> QED BY <2>1, <1>1
  <1>3. \A i \in Positive : Entry(fdTable, i) = STDIN
      BY <1>1, <1>2 DEF Init, Entry, Positive
  <1>4. TypeOK
    <2>1. \A p \in Cmds : buf[p] = << >> /\ << >> \in Seq(Cmds)
        BY DEF Init
    <2>2. buf \in [Cmds -> Seq(Cmds)]
        BY <2>1 DEF Init
    <2> QED BY <1>2, <2>2, NumberedPipesAssumption
            DEF Init, TypeOK, PipeIds, NoPipe, NoTarget, Cmds
  <1>5. TablesOK(fdTable, shellFds, pipes)
      BY <1>1, <1>2, <1>3 DEF Init, TablesOK, Paired, Listed, Entered
  <1>6. PipesOld
      BY DEF Init, PipesOld, Closed, NoPipe
  <1>7. UnbornOK
      BY DEF Init, UnbornOK, Cmds
  <1>8. RoutedPast /\ RoutedToCome /\ InputsDiffer /\ Released /\ HeldOwn
        /\ WaitsForForeground
      BY DEF Init, RoutedPast, RoutedToCome, InputsDiffer, Released, HeldOwn,
             WaitsForForeground
  <1> QED BY <1>4, <1>5, <1>6, <1>7, <1>8 DEF IInv

\* The tables from which command pos is forked, with output o, to feed the
\* command numbered to.
Connected(tab, sfd, list, o, to) ==
    /\ TablesOK(tab, sfd, list)
    /\ o = STDOUT \/ \E p \in list : o = p[2]
    /\ to \in Nat
    \* entries lead where they led, except one that may lead to the new pipe
    /\ \A i \in Positive :
          \/ PipeOn(sfd, Entry(tab, i)) = PipeOn(shellFds, Entry(fdTable, i))
          \/ /\ PipeOn(shellFds, Entry(fdTable, i)) = NoPipe
             /\ PipeOn(sfd, Entry(tab, i)) = pos
    /\ \A f \in Fds : sfd[f] = shellFds[f] \/ (shellFds[f] = Closed /\ sfd[f][2] = pos)
    \* the output is the pipe that the entry of the target leads to
    /\ PipeOn(sfd, o) # NoPipe =>
          /\ to >= pos
          /\ \A i \in Positive :
                 PipeOn(sfd, Entry(tab, i)) = PipeOn(sfd, o) <=> to = pos + i - 1

\* A step that forks command pos.
Forks(tab, sfd, list, o, to, ends) ==
    /\ Alive /\ pos \in Cmds
    /\ Connected(tab, sfd, list, o, to)
    /\ Spawn(sfd, list, tab[1], o) /\ CloseConsumed(sfd, list, tab[1])
    /\ fdTable' = Shift(tab, ends) /\ target' = [target EXCEPT ![pos] = to]
    /\ mode' \in {"prompt", "line", "wait"} /\ fg' \in Cmds \cup {0}
    /\ mode' = "wait" => fg' = pos
    \* the entries of the table stay, and a new pipe is in it
    /\ \A i \in Positive : Entry(fdTable, i) # STDIN => Entry(tab, i) = Entry(fdTable, i)
    /\ \A p \in list : p \in pipes \/ \E i \in Positive : Entry(tab, i) = p[1]

LEMMA SpawnInv ==
    ASSUME IInv, NEW tab, NEW sfd, NEW list, NEW o, NEW to, NEW ends \in BOOLEAN,
           Forks(tab, sfd, list, o, to, ends)
    PROVE  IInv'
  <1>. /\ Alive /\ pos \in Cmds
       /\ Connected(tab, sfd, list, o, to)
       /\ Spawn(sfd, list, tab[1], o) /\ CloseConsumed(sfd, list, tab[1])
       /\ fdTable' = Shift(tab, ends) /\ target' = [target EXCEPT ![pos] = to]
       /\ mode' \in {"prompt", "line", "wait"} /\ fg' \in Cmds \cup {0}
       /\ mode' = "wait" => fg' = pos
      BY DEF Forks
  <1> USE DEF IInv, Connected
  <1>1. /\ tab \in Seq(Fds \cup {STDIN}) /\ Len(tab) >= PipeNumMax /\ Len(tab) \in Nat
        /\ sfd \in [Fds -> Ends \cup {Closed}]
        /\ tab[1] = Entry(tab, 1) /\ 1 \in Positive
      BY NumberedPipesAssumption DEF TablesOK, Entry, Positive
  <1>2. /\ st' = [st EXCEPT ![pos] = "running"]
        /\ inp' = [inp EXCEPT ![pos] = PipeOn(sfd, tab[1])]
        /\ out' = [out EXCEPT ![pos] = PipeOn(sfd, o)]
        /\ held' = [held EXCEPT ![pos] = ChildEnds(sfd, list, tab[1], o)]
        /\ todo' = [todo EXCEPT ![pos] = Work]
        /\ pos' = pos + 1
        /\ UNCHANGED <<eof, buf, got>>
      BY DEF Spawn
  <1>3. /\ TablesOK(fdTable', shellFds', pipes')
        /\ \A i \in Positive : PipeOn(shellFds', Entry(fdTable', i)) =
                                  PipeOn(sfd, Entry(tab, i + 1))
        /\ \A f \in Fds : shellFds'[f] \in {Closed, sfd[f]}
        /\ PipeOn(sfd, tab[1]) # NoPipe =>
              \A f \in Fds : shellFds'[f] # Closed =>
                                 shellFds'[f][2] # PipeOn(sfd, tab[1])
      BY ReadPipe
  <1>4. /\ \A c \in Cmds : c # pos => /\ st'[c] = st[c] /\ inp'[c] = inp[c]
                                      /\ out'[c] = out[c] /\ held'[c] = held[c]
                                      /\ target'[c] = target[c]
        /\ st'[pos] = "running" /\ inp'[pos] = PipeOn(sfd, tab[1])
        /\ out'[pos] = PipeOn(sfd, o) /\ target'[pos] = to
        /\ held'[pos] = ChildEnds(sfd, list, tab[1], o)
      BY <1>2 DEF TypeOK
  <1>5. /\ pos \in Nat /\ pos >= 1 /\ MaxCmds \in Nat /\ pos <= MaxCmds
        /\ \A c \in Cmds : c \in Nat /\ c >= 1
      BY NumberedPipesAssumption DEF Cmds
  <1>6. \A i \in Positive : i + 1 \in Positive /\ i \in Nat /\ i >= 1
      BY DEF Positive
  \* The pipes that have ends in the intermediate tables.
  <1>7. \A f \in Fds \cup {STDIN, STDOUT} : PipeOn(sfd, f) \in PipeIds
    <2>1. \A f \in Fds : sfd[f][2] \in PipeIds
        BY <1>1 DEF Ends, Closed, PipeIds
    <2> QED BY <2>1 DEF PipeOn, PipeIds
  <1>8. PipeOn(sfd, tab[1]) \in PipeIds /\ PipeOn(sfd, o) \in PipeIds
    <2>1. tab[1] \in Fds \cup {STDIN}
        BY <1>1, EntryType
    <2>2. o \in Fds \cup {STDOUT}
        BY DEF TablesOK
    <2> QED BY <2>1, <2>2, <1>7
  <1>9. /\ \A f \in Fds : sfd[f][2] <= pos /\ sfd[f][2] \in Nat
        /\ \A f \in Fds : shellFds'[f][2] <= pos /\ shellFds'[f][2] \in Nat
    <2>1. \A f \in Fds : sfd[f][2] \in Nat
      <3>1. \A f \in Fds : sfd[f][2] \in PipeIds
          BY <1>1 DEF Ends, Closed, PipeIds
      <3> QED BY <3>1, PipeIdsAreNat
    <2>2. \A f \in Fds : sfd[f][2] <= pos
        BY <2>1, <1>5 DEF PipesOld
    <2>3. Closed[2] = 0
        BY DEF Closed, NoPipe
    <2> QED BY <2>1, <2>2, <2>3, <1>3, <1>5
  <1>10. PipeOn(sfd, tab[1]) <= pos /\ PipeOn(sfd, o) <= pos
    <2>1. tab[1] \in Fds \cup {STDIN} /\ o \in Fds \cup {STDOUT}
        BY <1>1, EntryType DEF TablesOK
    <2> QED BY <2>1, <1>5, <1>9 DEF PipeOn, NoPipe
  <1>11. TypeOK'
    <2>1. held' \in [Cmds -> SUBSET Ends]
      <3>1. ChildEnds(sfd, list, tab[1], o) \subseteq Ends
          BY ChildHasItsOwn
      <3> QED BY <3>1, <1>2 DEF TypeOK
    <2>2. inp' \in [Cmds -> PipeIds] /\ out' \in [Cmds -> PipeIds]
        BY <1>2, <1>8 DEF TypeOK
    <2>3. todo' \in [Cmds -> 0 .. Work] /\ pos' \in 1 .. (MaxCmds + 1)
        BY <1>2, <1>5, NumberedPipesAssumption DEF TypeOK
    <2>4. fdTable' \in Seq(Fds \cup {STDIN}) /\ pipes' \subseteq (Fds \X Fds)
          /\ shellFds' \in [Fds -> Ends \cup {Closed}]
        BY <1>3 DEF TablesOK
    <2> QED BY <2>1, <2>2, <2>3, <2>4, <1>2 DEF TypeOK
  <1>12. PipesOld'
    <2>1. \A f \in Fds : shellFds'[f][2] < pos'
        BY <1>2, <1>5, <1>9
    <2>2. \A c \in Cmds : inp'[c] < pos' /\ out'[c] < pos'
      <3> SUFFICES ASSUME NEW c \in Cmds PROVE inp'[c] < pos' /\ out'[c] < pos'
          OBVIOUS
      <3>1. inp[c] \in Nat /\ out[c] \in Nat
          BY PipeIdsAreNat DEF TypeOK
      <3>2. PipeOn(sfd, tab[1]) \in Nat /\ PipeOn(sfd, o) \in Nat
          BY <1>8, PipeIdsAreNat
      <3> QED BY <3>1, <3>2, <1>2, <1>4, <1>5, <1>10 DEF PipesOld
    <2> QED BY <2>1, <2>2 DEF PipesOld
  <1>13. UnbornOK'
      BY <1>2, <1>4, <1>5 DEF UnbornOK
  \* Old output goes nowhere new: the new pipe is not one of the old ones.
  <1>14. \A c \in Cmds : out[c] # NoPipe => c # pos /\ out[c] # pos /\ inp[c] # pos
    <2> SUFFICES ASSUME NEW c \in Cmds, out[c] # NoPipe
                 PROVE  c # pos /\ out[c] # pos /\ inp[c] # pos
        OBVIOUS
    <2>1. c # pos
        BY <1>5 DEF UnbornOK
    <2>2. inp[c] < pos /\ out[c] < pos /\ inp[c] \in Nat /\ out[c] \in Nat
        BY PipeIdsAreNat DEF PipesOld, TypeOK
    <2> QED BY <2>1, <2>2, <1>5
  <1>15. \A c \in Cmds : inp[c] # pos
    <2>1. \A c \in Cmds : inp[c] < pos /\ inp[c] \in Nat
        BY PipeIdsAreNat DEF PipesOld, TypeOK
    <2> QED BY <2>1, <1>5
  <1>16. ASSUME NEW c \in Cmds, out[c] # NoPipe, NEW i \in Positive
         PROVE  PipeOn(sfd, Entry(tab, i)) = out[c] <=> target[c] = pos + i - 1
    <2>1. PipeOn(shellFds, Entry(fdTable, i)) = out[c] <=> target[c] = pos + i - 1
        BY <1>16 DEF RoutedToCome
    <2>2. out[c] # pos
        BY <1>14, <1>16
    <2> QED BY <2>1, <2>2, <1>16
  <1>17. RoutedPast'
    <2> SUFFICES ASSUME NEW c \in Cmds, out'[c] # NoPipe, NEW k \in Cmds, k < pos'
                 PROVE  inp'[k] = out'[c] <=> k = target'[c]
        BY DEF RoutedPast
    <2>0. k <= pos
        BY <1>2, <1>5
    <2>1. CASE c # pos /\ k # pos
      <3>1. k < pos
          BY <2>0, <2>1, <1>5
      <3> QED BY <2>1, <3>1, <1>4 DEF RoutedPast
    <2>2. CASE c # pos /\ k = pos
      <3>1. PipeOn(sfd, Entry(tab, 1)) = out[c] <=> target[c] = pos + 1 - 1
          BY <2>2, <1>1, <1>4, <1>16
      <3>2. pos + 1 - 1 = pos
          BY <1>5
      <3> QED BY <3>1, <3>2, <2>2, <1>1, <1>4
    <2>3. CASE c = pos /\ k = pos
      <3>1. PipeOn(sfd, Entry(tab, 1)) = PipeOn(sfd, o) <=> to = pos + 1 - 1
          BY <2>3, <1>1, <1>4
      <3>2. pos + 1 - 1 = pos
          BY <1>5
      <3> QED BY <3>1, <3>2, <2>3, <1>1, <1>4
    <2>4. CASE c = pos /\ k # pos
      <3>1. to >= pos /\ k < pos /\ to \in Nat
          BY <2>0, <2>4, <1>4, <1>5
      <3>2. k # to
          BY <3>1, <1>5
      <3>3. inp[k] # PipeOn(sfd, o)
        <4>1. to - pos + 1 \in Positive /\ to = pos + (to - pos + 1) - 1
            BY <3>1, <1>5 DEF Positive
        <4>2. PipeOn(sfd, Entry(tab, to - pos + 1)) = PipeOn(sfd, o)
            BY <4>1, <2>4, <1>4
        <4>3. CASE PipeOn(sfd, o) = pos
            BY <4>3, <1>15
        <4>4. CASE PipeOn(sfd, o) # pos
          <5>1. PipeOn(shellFds, Entry(fdTable, to - pos + 1)) = PipeOn(sfd, o)
              BY <4>1, <4>2, <4>4
          <5>2. inp[k] # NoPipe =>
                   PipeOn(shellFds, Entry(fdTable, to - pos + 1)) # inp[k]
              BY <4>1 DEF InputsDiffer
          <5> QED BY <5>1, <5>2, <2>4, <1>4
        <4> QED BY <4>3, <4>4
      <3> QED BY <2>4, <3>2, <3>3, <1>4
    <2> QED BY <2>1, <2>2, <2>3, <2>4
  <1>18. RoutedToCome'
    <2> SUFFICES ASSUME NEW c \in Cmds, out'[c] # NoPipe, NEW i \in Positive
                 PROVE  PipeOn(shellFds', Entry(fdTable', i)) = out'[c]
                           <=> target'[c] = pos' + i - 1
        BY DEF RoutedToCome
    <2>1. PipeOn(shellFds', Entry(fdTable', i)) = PipeOn(sfd, Entry(tab, i + 1))
        BY <1>3
    <2>2. i + 1 \in Positive /\ pos' + i - 1 = pos + (i + 1) - 1
        BY <1>2, <1>5, <1>6
    <2>3. CASE c = pos
        BY <2>1, <2>2, <2>3, <1>4
    <2>4. CASE c # pos
        BY <2>1, <2>2, <2>4, <1>4, <1>16
    <2> QED BY <2>3, <2>4
  <1>19. ASSUME NEW c \in Cmds, inp[c] # NoPipe, NEW i \in Positive
         PROVE  PipeOn(sfd, Entry(tab, i)) # inp[c]
    <2>1. PipeOn(shellFds, Entry(fdTable, i)) # inp[c]
        BY <1>19 DEF InputsDiffer
    <2>2. inp[c] # pos
        BY <1>15
    <2> QED BY <2>1, <2>2
  <1>20. InputsDiffer'
    <2>1. ASSUME NEW c \in Cmds, NEW d \in Cmds, inp'[c] = inp'[d], inp'[c] # NoPipe
          PROVE  c = d
        BY <2>1, <1>1, <1>4, <1>19 DEF InputsDiffer
    <2>2. ASSUME NEW c \in Cmds, inp'[c] # NoPipe, NEW i \in Positive
          PROVE  PipeOn(shellFds', Entry(fdTable', i)) # inp'[c]
      <3>1. PipeOn(shellFds', Entry(fdTable', i)) = PipeOn(sfd, Entry(tab, i + 1))
            /\ i + 1 \in Positive /\ i + 1 # 1
          BY <1>3, <1>6
      <3>2. CASE c = pos
          BY <3>1, <3>2, <2>2, <1>1, <1>4, EntriesDiffer
      <3>3. CASE c # pos
          BY <3>1, <3>3, <2>2, <1>4, <1>19
      <3> QED BY <3>2, <3>3
    <2> QED BY <2>1, <2>2 DEF InputsDiffer
  <1>21. Released'
    <2> SUFFICES ASSUME NEW c \in Cmds, inp'[c] # NoPipe, st'[c] # "builtin",
                        NEW f \in Fds, shellFds'[f] # Closed
                 PROVE  shellFds'[f][2] # inp'[c]
        BY DEF Released
    <2>1. CASE c = pos
        BY <2>1, <1>3, <1>4
    <2>2. CASE c # pos
      <3>1. sfd[f] # Closed /\ shellFds'[f] = sfd[f]
          BY <1>3
      <3>2. CASE sfd[f] = shellFds[f]
          BY <3>1, <3>2, <2>2, <1>4 DEF Released
      <3>3. CASE sfd[f][2] = pos
          BY <3>1, <3>3, <2>2, <1>4, <1>15
      <3> QED BY <3>2, <3>3
    <2> QED BY <2>1, <2>2
  <1>22. HeldOwn'
    <2> SUFFICES ASSUME NEW c \in Cmds, NEW e \in held'[c]
                 PROVE  e \in Ends /\ (e = <<"r", inp'[c]>> \/ e = <<"w", out'[c]>>)
        BY DEF HeldOwn
    <2>1. CASE c = pos
        BY <2>1, <1>4, ChildHasItsOwn
    <2>2. CASE c # pos
        BY <2>2, <1>4 DEF HeldOwn
    <2> QED BY <2>1, <2>2
  <1>23. WaitsForForeground'
      BY <1>4 DEF WaitsForForeground
  <1> QED BY <1>3, <1>11, <1>12, <1>13, <1>17, <1>18, <1>20, <1>21, <1>22, <1>23

\* While the shell lives every offset the user may type is within the table.
LEMMA OffsetsFit ==
    ASSUME IInv, Alive, NEW off \in Offsets
    PROVE  off \in Nat /\ off < Len(fdTable)
  <1>1. off \in 0 .. (PipeNumMax - 1) /\ PipeNumMax \in Nat
      BY NumberedPipesAssumption
  <1>2. Len(fdTable) >= PipeNumMax /\ Len(fdTable) \in Nat
      BY DEF IInv, TablesOK, TypeOK
  <1> QED BY <1>1, <1>2

\* The command whose output goes to a new pipe.
LEMMA NewPipeForks ==
    ASSUME IInv, NEW off \in Offsets, NEW ends \in BOOLEAN, RunToNewPipe(off, ends)
    PROVE  \E tab, sfd, list, o : /\ Forks(tab, sfd, list, o, pos + off, ends)
                                  /\ PipeOn(sfd, o) # NoPipe
  <1>1. /\ Alive /\ pos <= MaxCmds /\ fdTable[off + 1] = STDIN
        /\ target' = [target EXCEPT ![pos] = pos + off]
        /\ mode' \in {"prompt", "line", "wait"} /\ fg' = fg /\ mode' # "wait"
      BY DEF RunToNewPipe, Alive
  <1>2. /\ pos \in Cmds /\ pos \in Nat /\ fg \in Cmds \cup {0}
      BY <1>1, NumberedPipesAssumption DEF IInv, TypeOK, Cmds
  <1>3. off \in Nat /\ off < Len(fdTable) /\ off + 1 \in Positive
      BY <1>1, OffsetsFit DEF Positive
  <1>4. PICK r, w, tab, sfd, list :
            /\ r \in Fds /\ w \in Fds
            /\ LowestFree(r, w)
            /\ tab = [fdTable EXCEPT ![off + 1] = r]
            /\ sfd = [shellFds EXCEPT ![r] = <<"r", pos>>, ![w] = <<"w", pos>>]
            /\ list = pipes \cup {<<r, w>>}
            /\ Spawn(sfd, list, tab[1], w)
            /\ CloseConsumed(sfd, list, tab[1])
            /\ fdTable' = Shift(tab, ends)
      BY Zenon DEF RunToNewPipe
  <1>6. r # w /\ shellFds[r] = Closed /\ shellFds[w] = Closed
      BY <1>4, NumberedPipesAssumption DEF LowestFree
  <1>7. TablesOK(fdTable, shellFds, pipes)
      BY <1>1 DEF IInv
  <1>8. \A f \in Fds : shellFds[f][2] # pos /\ shellFds[f][2] \in Nat
    <2>1. \A f \in Fds : shellFds[f][2] \in PipeIds
        BY DEF IInv, TypeOK, Ends, Closed, PipeIds
    <2> QED BY <2>1, <1>2, PipeIdsAreNat DEF IInv, PipesOld
  <1>9. /\ TablesOK(tab, sfd, list)
        /\ \A i \in Positive : PipeOn(sfd, Entry(tab, i)) =
               IF i = off + 1 THEN pos ELSE PipeOn(shellFds, Entry(fdTable, i))
    <2>1. PipeMade(fdTable, shellFds, pipes, off, r, w, pos, tab, sfd, list)
        BY <1>1, <1>2, <1>3, <1>4, <1>6, <1>8 DEF PipeMade
    <2> QED BY <2>1, <1>7, MakePipe
  <1>10. \A f \in Fds : sfd[f] = shellFds[f] \/ (shellFds[f] = Closed /\ sfd[f][2] = pos)
      BY <1>4, <1>6 DEF IInv, TypeOK
  <1>11. PipeOn(sfd, w) = pos
      BY <1>4, FdsAreNotStd DEF PipeOn, IInv, TypeOK
  <1>12. \E p \in list : w = p[2]
    <2>1. <<r, w>> \in list /\ <<r, w>>[2] = w
        BY <1>4
    <2> QED BY <2>1
  <1>13. PipeOn(shellFds, Entry(fdTable, off + 1)) = NoPipe
      BY <1>1, <1>3 DEF Entry, PipeOn
  <1>14. \A i \in Positive : PipeOn(shellFds, Entry(fdTable, i)) # pos
    <2> SUFFICES ASSUME NEW i \in Positive
                 PROVE  PipeOn(shellFds, Entry(fdTable, i)) # pos
        OBVIOUS
    <2>1. Entry(fdTable, i) \in Fds \cup {STDIN}
        BY <1>7, EntryType DEF TablesOK
    <2>2. pos # 0
        BY <1>2, NumberedPipesAssumption DEF Cmds
    <2> QED BY <2>1, <2>2, <1>8 DEF PipeOn, NoPipe
  <1>15. \A i \in Positive : PipeOn(sfd, Entry(tab, i)) = pos <=> pos + off = pos + i - 1
    <2> SUFFICES ASSUME NEW i \in Positive
                 PROVE  PipeOn(sfd, Entry(tab, i)) = pos <=> pos + off = pos + i - 1
        OBVIOUS
    <2>1. i = off + 1 <=> pos + off = pos + i - 1
        BY <1>2, <1>3 DEF Positive
    <2> QED BY <2>1, <1>9, <1>14
  <1>16. /\ pos + off \in Nat
         /\ PipeOn(sfd, w) # NoPipe =>
               /\ pos + off >= pos
               /\ \A i \in Positive :
                      PipeOn(sfd, Entry(tab, i)) = PipeOn(sfd, w) <=> pos + off = pos + i - 1
      BY <1>2, <1>3, <1>11, <1>15
  <1>17. \A i \in Positive :
            \/ PipeOn(sfd, Entry(tab, i)) = PipeOn(shellFds, Entry(fdTable, i))
            \/ /\ PipeOn(shellFds, Entry(fdTable, i)) = NoPipe
               /\ PipeOn(sfd, Entry(tab, i)) = pos
      BY <1>9, <1>13
  <1>18. /\ mode' \in {"prompt", "line", "wait"} /\ fg' \in Cmds \cup {0}
         /\ w = STDOUT \/ \E p \in list : w = p[2]
      BY <1>1, <1>2, <1>12
  <1>19. Connected(tab, sfd, list, w, pos + off)
      BY <1>9, <1>10, <1>16, <1>17, <1>18 DEF Connected
  <1>20. /\ \A i \in Positive : Entry(fdTable, i) # STDIN => Entry(tab, i) = Entry(fdTable, i)
         /\ Entry(tab, off + 1) = r
    <2>1. /\ fdTable \in Seq(Fds \cup {STDIN}) /\ off + 1 \in 1 .. Len(fdTable)
          /\ Len(fdTable) \in Nat
        BY <1>3, <1>7 DEF TablesOK
    <2>2. /\ Len(tab) = Len(fdTable)
          /\ \A i \in 1 .. Len(fdTable) : tab[i] = IF i = off + 1 THEN r ELSE fdTable[i]
        BY <1>4, <2>1, ExceptSeq
    <2>3. ASSUME NEW i \in Positive, Entry(fdTable, i) # STDIN
          PROVE  Entry(tab, i) = Entry(fdTable, i)
      <3>1. i \in 1 .. Len(fdTable) /\ fdTable[i] # STDIN
          BY <2>1, <2>3 DEF Entry, Positive
      <3>2. i # off + 1
          BY <1>1, <3>1
      <3> QED BY <2>1, <2>2, <3>1, <3>2 DEF Entry
    <2>4. Entry(tab, off + 1) = r
        BY <2>1, <2>2 DEF Entry
    <2> QED BY <2>3, <2>4
  <1>21. \A p \in list : p \in pipes \/ \E i \in Positive : Entry(tab, i) = p[1]
      BY <1>3, <1>4, <1>20
  <1>22. Forks(tab, sfd, list, w, pos + off, ends)
      BY <1>1, <1>2, <1>4, <1>18, <1>19, <1>20, <1>21 DEF Forks
  <1>23. PipeOn(sfd, w) # NoPipe
      BY <1>2, <1>11, NumberedPipesAssumption DEF NoPipe, Cmds
  <1> QED BY <1>22, <1>23

\* The command whose output joins a pipe.
LEMMA OldPipeForks ==
    ASSUME IInv, NEW off \in Offsets, NEW ends \in BOOLEAN, RunToOldPipe(off, ends)
    PROVE  \E tab, sfd, list, o : /\ Forks(tab, sfd, list, o, pos + off, ends)
                                  /\ PipeOn(sfd, o) # NoPipe
  <1>1. /\ Alive /\ pos <= MaxCmds /\ fdTable[off + 1] # STDIN
        /\ CloseConsumed(shellFds, pipes, fdTable[1])
        /\ fdTable' = Shift(fdTable, ends)
        /\ target' = [target EXCEPT ![pos] = pos + off]
        /\ mode' \in {"prompt", "line", "wait"} /\ fg' = fg /\ mode' # "wait"
      BY DEF RunToOldPipe, Alive
  <1>2. PICK p \in pipes : /\ p[1] = fdTable[off + 1]
                           /\ Spawn(shellFds, pipes, fdTable[1], p[2])
      BY DEF RunToOldPipe
  <1>3. /\ pos \in Cmds /\ pos \in Nat /\ fg \in Cmds \cup {0}
      BY <1>1, NumberedPipesAssumption DEF IInv, TypeOK, Cmds
  <1>4. off \in Nat /\ off < Len(fdTable) /\ off + 1 \in Positive
      BY <1>1, OffsetsFit DEF Positive
  <1>5. TablesOK(fdTable, shellFds, pipes)
      BY <1>1 DEF IInv
  <1>6. Entry(fdTable, off + 1) = fdTable[off + 1]
      BY <1>4 DEF Entry
  <1>7. PipeOn(shellFds, p[2]) = PipeOn(shellFds, Entry(fdTable, off + 1))
      BY <1>2, <1>5, <1>6, PairedEnds DEF TablesOK
  <1>8. \A i \in Positive : PipeOn(shellFds, Entry(fdTable, i)) = PipeOn(shellFds, p[2])
                               /\ PipeOn(shellFds, p[2]) # NoPipe => i = off + 1
      BY <1>4, <1>5, <1>7, EntriesDiffer
  <1>9. PipeOn(shellFds, p[2]) # NoPipe =>
          /\ pos + off >= pos
          /\ \A i \in Positive : PipeOn(shellFds, Entry(fdTable, i)) = PipeOn(shellFds, p[2])
                                    <=> pos + off = pos + i - 1
    <2> SUFFICES ASSUME PipeOn(shellFds, p[2]) # NoPipe, NEW i \in Positive
                 PROVE  /\ pos + off >= pos
                        /\ PipeOn(shellFds, Entry(fdTable, i)) = PipeOn(shellFds, p[2])
                              <=> pos + off = pos + i - 1
        BY <1>4
    <2>1. pos + off >= pos /\ (i = off + 1 <=> pos + off = pos + i - 1)
        BY <1>3, <1>4 DEF Positive
    <2> QED BY <2>1, <1>7, <1>8
  <1>10. pos + off \in Nat /\ \E q \in pipes : p[2] = q[2]
      BY <1>3, <1>4
  <1>11. Connected(fdTable, shellFds, pipes, p[2], pos + off)
      BY <1>5, <1>9, <1>10 DEF Connected
  <1>12. Forks(fdTable, shellFds, pipes, p[2], pos + off, ends)
      BY <1>1, <1>2, <1>3, <1>11 DEF Forks
  <1>13. PipeOn(shellFds, p[2]) # NoPipe
    <2>1. PipeOn(shellFds, p[2]) \in Cmds
        BY <1>5, PairedEnds DEF TablesOK
    <2> QED BY <2>1, NumberedPipesAssumption DEF NoPipe, Cmds
  <1> QED BY <1>12, <1>13

\* The command that the shell waits for.
LEMMA LastForks ==
    ASSUME IInv, RunLast
    PROVE  /\ Forks(fdTable, shellFds, pipes, STDOUT, target[pos], FALSE)
           /\ PipeOn(shellFds, STDOUT) = NoPipe
  <1>1. /\ Alive /\ pos <= MaxCmds
        /\ Spawn(shellFds, pipes, fdTable[1], STDOUT)
        /\ CloseConsumed(shellFds, pipes, fdTable[1])
        /\ fdTable' = Shift(fdTable, FALSE)
        /\ mode' \in {"prompt", "line", "wait"} /\ fg' = pos /\ target' = target
      BY DEF RunLast, Alive
  <1>2. pos \in Cmds
      BY <1>1, NumberedPipesAssumption DEF IInv, TypeOK, Cmds
  <1>3. target' = [target EXCEPT ![pos] = target[pos]] /\ target[pos] \in Nat
      BY <1>1, <1>2 DEF IInv, TypeOK
  <1>4. PipeOn(shellFds, STDOUT) = NoPipe
      BY DEF PipeOn
  <1>5. TablesOK(fdTable, shellFds, pipes)
      BY <1>1 DEF IInv
  <1>6. Connected(fdTable, shellFds, pipes, STDOUT, target[pos])
      BY <1>3, <1>4, <1>5 DEF Connected
  <1> QED BY <1>1, <1>2, <1>3, <1>4, <1>6 DEF Forks

\* A built-in takes the first entry away and leaves its pipe open.
LEMMA BuiltInInv == IInv /\ BuiltIn => IInv'
  <1> SUFFICES ASSUME IInv, BuiltIn PROVE IInv'
      OBVIOUS
  <1> USE DEF IInv
  <1>1. /\ Alive /\ Alive' /\ pos <= MaxCmds
        /\ st' = [st EXCEPT ![pos] = "builtin"]
        /\ inp' = [inp EXCEPT ![pos] = PipeOn(shellFds, fdTable[1])]
        /\ fdTable' = Refill(Tail(fdTable)) /\ pos' = pos + 1
        /\ UNCHANGED <<mode, fg, pipes, shellFds, out, target, held, todo, eof, buf, got>>
      BY DEF BuiltIn, Alive, childVars
  <1>2. pos \in Cmds /\ pos \in Nat /\ pos >= 1 /\ \A c \in Cmds : c \in Nat
      BY <1>1, NumberedPipesAssumption DEF TypeOK, Cmds
  <1>3. TablesOK(fdTable, shellFds, pipes)
      BY <1>1
  <1>4. /\ fdTable' \in Seq(Fds \cup {STDIN}) /\ Len(fdTable') >= PipeNumMax
        /\ \A i \in Positive : Entry(fdTable', i) = Entry(fdTable, i + 1)
      BY <1>1, <1>3, TailEntries DEF TablesOK
  <1>5. fdTable[1] = Entry(fdTable, 1) /\ 1 \in Positive
      BY <1>3, NumberedPipesAssumption DEF TablesOK, Entry, Positive
  <1>6. \A i \in Positive : i + 1 \in Positive /\ i + 1 # 1 /\ i \in Nat
      BY DEF Positive
  <1>7. /\ \A c \in Cmds : c # pos => st'[c] = st[c] /\ inp'[c] = inp[c]
        /\ st'[pos] = "builtin" /\ inp'[pos] = PipeOn(shellFds, Entry(fdTable, 1))
      BY <1>1, <1>2, <1>5 DEF TypeOK
  <1>8. Entry(fdTable, 1) \in Fds \cup {STDIN}
      BY <1>3, <1>5, EntryType DEF TablesOK
  <1>9. \A f \in Fds : shellFds[f][2] \in PipeIds
      BY DEF TypeOK, Ends, Closed, PipeIds
  <1>10. PipeOn(shellFds, Entry(fdTable, 1)) \in PipeIds
         /\ PipeOn(shellFds, Entry(fdTable, 1)) < pos
      BY <1>2, <1>8, <1>9 DEF PipeOn, PipesOld, PipeIds, NoPipe
  <1>11. TypeOK'
    <2>1. inp' \in [Cmds -> PipeIds]
        BY <1>1, <1>5, <1>10 DEF TypeOK
    <2>2. pos' \in 1 .. (MaxCmds + 1)
        BY <1>1, <1>2, NumberedPipesAssumption DEF TypeOK
    <2> QED BY <2>1, <2>2, <1>1, <1>4 DEF TypeOK
  <1>12. TablesOK(fdTable', shellFds', pipes')
    <2>1. Entered(fdTable', pipes)
      <3>1. \A i \in Positive : Entry(fdTable', i) # STDIN =>
               \E p \in pipes : p[1] = Entry(fdTable', i)
          BY <1>3, <1>4, <1>6 DEF TablesOK, Entered
      <3>2. \A i, j \in Positive : i # j => i + 1 # j + 1
          BY DEF Positive
      <3>3. \A i, j \in Positive : Entry(fdTable', i) = Entry(fdTable', j) /\ i # j =>
               Entry(fdTable', i) = STDIN
          BY <3>2, <1>3, <1>4, <1>6 DEF TablesOK, Entered
      <3> QED BY <3>1, <3>3 DEF Entered
    <2>2. Paired(shellFds', pipes') /\ Listed(shellFds', pipes')
        BY <1>1, <1>3 DEF TablesOK, Paired, Listed
    <2> QED BY <2>1, <2>2, <1>1, <1>3, <1>4 DEF TablesOK
  <1>13. PipesOld'
    <2>1. \A c \in Cmds : inp[c] \in Nat /\ out[c] \in Nat
        BY PipeIdsAreNat DEF TypeOK
    <2>2. \A f \in Fds : shellFds[f][2] \in Nat
        BY <1>9, PipeIdsAreNat
    <2>3. PipeOn(shellFds, Entry(fdTable, 1)) \in Nat
        BY <1>10, PipeIdsAreNat
    <2> QED BY <2>1, <2>2, <2>3, <1>1, <1>2, <1>7, <1>10 DEF PipesOld
  <1>14. UnbornOK'
      BY <1>1, <1>2, <1>7 DEF UnbornOK
  <1>15. RoutedPast'
    <2> SUFFICES ASSUME NEW c \in Cmds, out[c] # NoPipe, NEW k \in Cmds, k < pos + 1
                 PROVE  inp'[k] = out[c] <=> k = target[c]
        BY <1>1 DEF RoutedPast
    <2>1. CASE k = pos
      <3>1. PipeOn(shellFds, Entry(fdTable, 1)) = out[c] <=> target[c] = pos + 1 - 1
          BY <1>1, <1>5 DEF RoutedToCome
      <3>2. pos + 1 - 1 = pos
          BY <1>2
      <3> QED BY <3>1, <3>2, <2>1, <1>7
    <2>2. CASE k # pos
      <3>1. k < pos
          BY <2>2, <1>2
      <3> QED BY <3>1, <2>2, <1>7 DEF RoutedPast
    <2> QED BY <2>1, <2>2
  <1>16. RoutedToCome'
    <2> SUFFICES ASSUME NEW c \in Cmds, out[c] # NoPipe, NEW i \in Positive
                 PROVE  PipeOn(shellFds, Entry(fdTable', i)) = out[c]
                           <=> target[c] = pos + 1 + i - 1
        BY <1>1 DEF RoutedToCome
    <2>1. PipeOn(shellFds, Entry(fdTable, i + 1)) = out[c] <=> target[c] = pos + (i + 1) - 1
        BY <1>1, <1>6 DEF RoutedToCome
    <2>2. pos + (i + 1) - 1 = pos + 1 + i - 1
        BY <1>2, <1>6
    <2> QED BY <2>1, <2>2, <1>4
  <1>17. InputsDiffer'
    <2>1. ASSUME NEW c \in Cmds, NEW d \in Cmds, inp'[c] = inp'[d], inp'[c] # NoPipe
          PROVE  c = d
        BY <2>1, <1>1, <1>5, <1>7 DEF InputsDiffer
    <2>2. ASSUME NEW c \in Cmds, inp'[c] # NoPipe, NEW i \in Positive
          PROVE  PipeOn(shellFds, Entry(fdTable', i)) # inp'[c]
      <3>1. CASE c = pos
          BY <3>1, <2>2, <1>3, <1>4, <1>5, <1>6, <1>7, EntriesDiffer
      <3>2. CASE c # pos
          BY <3>2, <2>2, <1>1, <1>4, <1>6, <1>7 DEF InputsDiffer
      <3> QED BY <3>1, <3>2
    <2> QED BY <2>1, <2>2, <1>1 DEF InputsDiffer
  <1>18. Released' /\ HeldOwn' /\ WaitsForForeground'
    <2>1. Released'
        BY <1>1, <1>7 DEF Released
    <2>2. \A c \in Cmds : held[c] # {} => c # pos
        BY <1>2 DEF UnbornOK
    <2>3. HeldOwn'
        BY <2>2, <1>1, <1>7 DEF HeldOwn
    <2>4. WaitsForForeground'
        BY <1>1 DEF BuiltIn, WaitsForForeground
    <2> QED BY <2>1, <2>3, <2>4
  <1> QED BY <1>11, <1>12, <1>13, <1>14, <1>15, <1>16, <1>17, <1>18

\* The parts of the invariant that speak of the shell alone, or of what a
\* command is connected to, survive a step that leaves those alone, may end
\* commands and may close what they held.
LEMMA CommandStepInv ==
    ASSUME IInv, TypeOK', UNCHANGED <<shellVars, inp, out, target>>,
           \A c \in Cmds : /\ st'[c] = st[c] \/ (st[c] \notin {"unborn", "builtin"}
                                                  /\ st'[c] \notin {"unborn", "builtin"})
                           /\ held'[c] \subseteq held[c]
    PROVE  IInv'
  <1> USE DEF IInv, shellVars
  <1>1. (Alive => TablesOK(fdTable, shellFds, pipes))'
      BY DEF Alive, TablesOK, Paired, Listed, Entered
  <1>2. PipesOld' /\ RoutedPast' /\ InputsDiffer' /\ RoutedToCome'
      BY DEF PipesOld, RoutedPast, InputsDiffer, RoutedToCome, Alive
  <1>3. UnbornOK' /\ WaitsForForeground'
      BY DEF UnbornOK, WaitsForForeground
  <1>4. Released'
      BY DEF Released
  <1>5. HeldOwn'
      BY DEF HeldOwn
  <1> QED BY <1>1, <1>2, <1>3, <1>4, <1>5

LEMMA WaitDoneInv == IInv /\ WaitDone => IInv'
  <1> SUFFICES ASSUME IInv, WaitDone PROVE IInv'
      OBVIOUS
  <1> USE DEF IInv
  <1>1. /\ mode = "wait" /\ st[fg] # "running" /\ st' = [st EXCEPT ![fg] = "reaped"]
        /\ fdTable' = Refill(fdTable) /\ mode' = "prompt" /\ fg' = 0
        /\ UNCHANGED <<pipes, shellFds, pos, inp, out, target, held, todo, eof, buf, got>>
      BY DEF WaitDone, childVars
  <1>2. Alive /\ Alive' /\ TablesOK(fdTable, shellFds, pipes)
      BY <1>1 DEF Alive
  <1>3. /\ fdTable' \in Seq(Fds \cup {STDIN}) /\ Len(fdTable') >= PipeNumMax
        /\ \A i \in Positive : Entry(fdTable', i) = Entry(fdTable, i)
      BY <1>1, <1>2, RefillEntries DEF TablesOK
  <1>4. /\ fg \in Cmds /\ st[fg] \in {"zombie", "reaped"}
        /\ \A c \in Cmds : c # fg => st'[c] = st[c]
        /\ st'[fg] = "reaped"
      BY <1>1 DEF WaitsForForeground, TypeOK
  <1>5. TypeOK'
      BY <1>1, <1>3 DEF TypeOK
  <1>6. TablesOK(fdTable', shellFds', pipes')
    <2>1. Entered(fdTable', pipes)
        BY <1>2, <1>3 DEF TablesOK, Entered
    <2>2. Paired(shellFds', pipes') /\ Listed(shellFds', pipes')
        BY <1>1, <1>2 DEF TablesOK, Paired, Listed
    <2> QED BY <2>1, <2>2, <1>1, <1>2, <1>3 DEF TablesOK
  <1>7. PipesOld' /\ RoutedPast' /\ HeldOwn'
      BY <1>1 DEF PipesOld, RoutedPast, HeldOwn
  <1>8. UnbornOK' /\ Released' /\ WaitsForForeground'
      BY <1>1, <1>4 DEF UnbornOK, Released, WaitsForForeground
  <1>9. RoutedToCome' /\ InputsDiffer'
      BY <1>1, <1>2, <1>3 DEF RoutedToCome, InputsDiffer
  <1> QED BY <1>5, <1>6, <1>7, <1>8, <1>9

\* The kernel closes the shell's descriptors; its commands keep theirs.
LEMMA ExitInv == IInv /\ Exit => IInv'
  <1> SUFFICES ASSUME IInv, Exit PROVE IInv'
      OBVIOUS
  <1> USE DEF IInv
  <1>1. /\ mode = "prompt" /\ mode' = "exited" /\ shellFds' = [f \in Fds |-> Closed]
        /\ UNCHANGED <<fdTable, pipes, pos, fg, st, inp, out, target,
                       held, todo, eof, buf, got>>
      BY DEF Exit, childVars
  <1>2. TypeOK'
      BY <1>1 DEF TypeOK
  <1>3. ~ Alive'
      BY <1>1 DEF Alive
  <1>4. PipesOld'
    <2>1. pos \in Nat /\ pos >= 1
        BY NumberedPipesAssumption DEF TypeOK
    <2>2. Closed[2] < pos
        BY <2>1 DEF Closed, NoPipe
    <2> QED BY <2>2, <1>1 DEF PipesOld
  <1>5. UnbornOK' /\ RoutedPast' /\ HeldOwn' /\ WaitsForForeground'
      BY <1>1 DEF UnbornOK, RoutedPast, HeldOwn, WaitsForForeground
  <1>6. RoutedToCome'
      BY <1>3 DEF RoutedToCome
  <1>7. InputsDiffer' /\ Released'
      BY <1>1, <1>3 DEF InputsDiffer, Released
  <1> QED BY <1>2, <1>3, <1>4, <1>5, <1>6, <1>7

LEMMA ChildHandlerInv == IInv /\ ChildHandler => IInv'
  <1> SUFFICES ASSUME IInv, ChildHandler PROVE IInv'
      OBVIOUS
  <1>1. /\ st' = [c \in Cmds |-> IF st[c] = "zombie" THEN "reaped" ELSE st[c]]
        /\ UNCHANGED <<shellVars, inp, out, target, held, todo, eof, buf, got>>
      BY DEF ChildHandler, childVars
  <1>2. TypeOK'
      BY <1>1 DEF IInv, TypeOK, shellVars
  <1>3. \A c \in Cmds : /\ \/ st'[c] = st[c]
                           \/ /\ st[c] \notin {"unborn", "builtin"}
                              /\ st'[c] \notin {"unborn", "builtin"}
                        /\ held'[c] \subseteq held[c]
      BY <1>1
  <1> QED BY <1>1, <1>2, <1>3, CommandStepInv

\* A command that ends closes all it held.
LEMMA DieStep ==
    ASSUME IInv, NEW c \in Cmds, st[c] = "running", Die(c)
    PROVE  /\ st' \in [Cmds -> {"unborn", "running", "zombie", "reaped", "builtin"}]
           /\ held' \in [Cmds -> SUBSET Ends]
           /\ \A d \in Cmds : /\ \/ st'[d] = st[d]
                                 \/ /\ st[d] \notin {"unborn", "builtin"}
                                    /\ st'[d] \notin {"unborn", "builtin"}
                              /\ held'[d] \subseteq held[d]
  BY DEF Die, IInv, TypeOK

LEMMA WriteInv ==
    ASSUME NEW c \in Cmds
    PROVE  IInv /\ Write(c) => IInv'
  <1> SUFFICES ASSUME IInv, Write(c) PROVE IInv'
      OBVIOUS
  <1>1. /\ st[c] = "running" /\ todo[c] > 0
        /\ UNCHANGED <<shellVars, inp, out, target, eof, got>>
      BY DEF Write
  <1>2. [todo EXCEPT ![c] = @ - 1] \in [Cmds -> 0 .. Work]
      BY SMTT(30), <1>1, NumberedPipesAssumption DEF IInv, TypeOK
  <1>3. CASE UNCHANGED <<st, held>>
    <2>1. /\ todo' = [todo EXCEPT ![c] = @ - 1]
          /\ buf' = buf \/ (out[c] # NoPipe /\ buf' = [buf EXCEPT ![out[c]] = Append(@, c)])
      <3>1. ~ Die(c)
          BY <1>1, <1>3 DEF Die, IInv, TypeOK
      <3> QED BY <3>1 DEF Write
    <2>2. buf' \in [Cmds -> Seq(Cmds)]
      <3>1. CASE buf' = buf
          BY <3>1 DEF IInv, TypeOK
      <3>2. CASE out[c] # NoPipe /\ buf' = [buf EXCEPT ![out[c]] = Append(@, c)]
        <4>1. out[c] \in Cmds /\ buf[out[c]] \in Seq(Cmds)
            BY <3>2 DEF IInv, TypeOK, PipeIds
        <4>2. Append(buf[out[c]], c) \in Seq(Cmds)
            BY <4>1, AppendProperties
        <4> QED BY <3>2, <4>2 DEF IInv, TypeOK
      <3> QED BY <2>1, <3>1, <3>2
    <2>3. TypeOK'
        BY <1>1, <1>2, <1>3, <2>1, <2>2 DEF IInv, TypeOK, shellVars
    <2> QED BY <1>1, <1>3, <2>3, CommandStepInv
  <1>4. CASE Die(c) /\ UNCHANGED <<todo, buf>>
    <2>1. TypeOK'
        BY <1>1, <1>4, DieStep DEF IInv, TypeOK, shellVars
    <2> QED BY <1>1, <1>4, <2>1, DieStep, CommandStepInv
  <1> QED BY <1>3, <1>4 DEF Write

LEMMA ReadInv ==
    ASSUME NEW c \in Cmds
    PROVE  IInv /\ (Read(c) \/ ReadEof(c)) => IInv'
  <1> SUFFICES ASSUME IInv, Read(c) \/ ReadEof(c) PROVE IInv'
      OBVIOUS
  <1>1. /\ UNCHANGED <<shellVars, st, inp, out, held, todo, target>>
        /\ inp[c] \in Cmds
      BY DEF Read, ReadEof, IInv, TypeOK, PipeIds
  <1>2. ASSUME Read(c) PROVE TypeOK'
    <2>1. /\ buf[inp[c]] \in Seq(Cmds) /\ buf[inp[c]] # << >>
          /\ buf' = [buf EXCEPT ![inp[c]] = Tail(@)]
          /\ got' = [got EXCEPT ![c][Head(buf[inp[c]])] = @ + 1] /\ eof' = eof
        BY <1>1, <1>2 DEF Read, IInv, TypeOK
    <2>2. Head(buf[inp[c]]) \in Cmds /\ Tail(buf[inp[c]]) \in Seq(Cmds)
        BY <2>1
    <2>3. buf' \in [Cmds -> Seq(Cmds)]
        BY <2>1, <2>2 DEF IInv, TypeOK
    <2>4. got' \in [Cmds -> [Cmds -> Nat]]
      <3>1. PICK d \in Cmds : got' = [got EXCEPT ![c][d] = @ + 1]
          BY <2>1, <2>2
      <3>2. got[c] \in [Cmds -> Nat]
          BY DEF IInv, TypeOK
      <3>3. got[c][d] \in Nat
          BY <3>2
      <3>4. [got[c] EXCEPT ![d] = got[c][d] + 1] \in [Cmds -> Nat]
          BY <3>2, <3>3
      <3>5. \A row \in [Cmds -> Nat] : [got EXCEPT ![c] = row] \in [Cmds -> [Cmds -> Nat]]
          BY DEF IInv, TypeOK
      <3>6. got' = [got EXCEPT ![c] = [got[c] EXCEPT ![d] = got[c][d] + 1]]
          BY <3>1
      <3> QED BY <3>4, <3>5, <3>6
    <2> QED BY <1>1, <2>1, <2>3, <2>4 DEF IInv, TypeOK, shellVars
  <1>3. ASSUME ReadEof(c) PROVE TypeOK'
    <2>1. eof' = [eof EXCEPT ![c] = TRUE] /\ UNCHANGED <<buf, got>>
        BY <1>3 DEF ReadEof
    <2> QED BY <1>1, <2>1 DEF IInv, TypeOK, shellVars
  <1>4. TypeOK'
      BY <1>2, <1>3
  <1>5. \A d \in Cmds : st'[d] = st[d] /\ held'[d] \subseteq held[d]
      BY <1>1
  <1> QED BY <1>1, <1>4, <1>5, CommandStepInv

LEMMA EndInv ==
    ASSUME NEW c \in Cmds
    PROVE  IInv /\ (Finish(c) \/ QuitEarly(c)) => IInv'
  <1> SUFFICES ASSUME IInv, Finish(c) \/ QuitEarly(c) PROVE IInv'
      OBVIOUS
  <1>1. /\ st[c] = "running" /\ Die(c)
        /\ UNCHANGED <<shellVars, inp, out, todo, eof, buf, got, target>>
      BY DEF Finish, QuitEarly
  <1>2. TypeOK'
      BY <1>1, DieStep DEF IInv, TypeOK, shellVars
  <1> QED BY <1>1, <1>2, DieStep, CommandStepInv

LEMMA NextInv == IInv /\ [Next]_vars => IInv'
  <1> SUFFICES ASSUME IInv, [Next]_vars PROVE IInv'
      OBVIOUS
  <1>1. ASSUME NEW off \in Offsets, NEW ends \in BOOLEAN,
               RunToNewPipe(off, ends) \/ RunToOldPipe(off, ends)
        PROVE  IInv'
      BY <1>1, NewPipeForks, OldPipeForks, SpawnInv
  <1>2. ASSUME RunLast \/ WaitDone \/ BuiltIn \/ Exit \/ ChildHandler
        PROVE  IInv'
      BY <1>2, LastForks, SpawnInv, WaitDoneInv, BuiltInInv, ExitInv, ChildHandlerInv
  <1>3. ASSUME NEW c \in Cmds,
               Write(c) \/ Read(c) \/ ReadEof(c) \/ Finish(c) \/ QuitEarly(c)
        PROVE  IInv'
      BY <1>3, WriteInv, ReadInv, EndInv
  <1>4. CASE UNCHANGED vars
    <2>1. /\ UNCHANGED <<shellVars, inp, out, target, st, held>>
          /\ UNCHANGED <<todo, eof, buf, got>>
        BY <1>4 DEF vars, shellVars
    <2>2. TypeOK'
        BY <2>1 DEF IInv, TypeOK, shellVars
    <2> QED BY <2>1, <2>2, CommandStepInv
  <1> QED BY <1>1, <1>2, <1>3, <1>4 DEF Next

\* The inductive invariant holds in every reachable state.
THEOREM Invariance == Spec => []IInv
  <1> QED BY InitInv, NextInv, PTL DEF Spec

-----------------------------------------------------------------------------
(* What follows from it. *)

\* Every variable keeps its type.
THEOREM TypeCorrect == Spec => []TypeOK
  <1>1. IInv => TypeOK
      BY DEF IInv
  <1> QED BY <1>1, Invariance, PTL

\* The n of |n never reaches past the end of fd_table, however many built-ins
\* have shortened it: the refill at the end of a line makes up for them.
THEOREM OffsetsCorrect == Spec => []OffsetInTable
  <1>1. IInv => OffsetInTable
    <2> SUFFICES ASSUME IInv, mode \in {"prompt", "line"}, NEW off \in Offsets
                 PROVE  off < Len(fdTable)
        BY DEF OffsetInTable
    <2> QED BY OffsetsFit DEF Alive
  <1> QED BY <1>1, Invariance, PTL

\* What a command writes to |n is what the n-th next command reads, and no
\* other: shifting fd_table, reusing descriptor numbers and joining a pipe that
\* exists never misdirect output.
THEOREM RoutingCorrect == Spec => []Routing
  <1>1. IInv => Routing
    <2> SUFFICES ASSUME IInv, Alive, NEW c \in Cmds, out[c] # NoPipe,
                        NEW k \in 1 .. (MaxCmds + Len(fdTable))
                 PROVE  InPipe(k) = out[c] <=> k = target[c]
        BY DEF Routing, Alive
    <2>1. pos \in Nat /\ pos >= 1 /\ pos <= MaxCmds + 1 /\ MaxCmds \in Nat
          /\ Len(fdTable) \in Nat /\ k \in Nat /\ k >= 1
        BY NumberedPipesAssumption DEF IInv, TypeOK
    <2>2. CASE k < pos
      <3>1. k \in Cmds
          BY <2>1, <2>2 DEF Cmds
      <3> QED BY <2>2, <3>1 DEF InPipe, IInv, RoutedPast
    <2>3. CASE ~ (k < pos)
      <3>1. k - pos + 1 \in Positive /\ pos + (k - pos + 1) - 1 = k
          BY <2>1, <2>3 DEF Positive
      <3>2. PipeOn(shellFds, Entry(fdTable, k - pos + 1)) = out[c]
               <=> target[c] = pos + (k - pos + 1) - 1
          BY <3>1 DEF IInv, RoutedToCome
      <3> QED BY <2>3, <3>1, <3>2 DEF InPipe
    <2> QED BY <2>2, <2>3
  <1> QED BY <1>1, Invariance, PTL

\* Only the commands piped to it can keep a reader waiting: the shell and every
\* unrelated child have closed the write end of the pipe it reads.
THEOREM EofCorrect == Spec => []EofReachable
  <1>1. IInv => EofReachable
    <2> SUFFICES ASSUME IInv, NEW c \in Cmds,
                        st[c] \in {"running", "zombie", "reaped"}, inp[c] # NoPipe
                 PROVE  /\ ~ ShellHolds(<<"w", inp[c]>>) /\ ~ ShellHolds(<<"r", inp[c]>>)
                        /\ \A d \in Holders(<<"w", inp[c]>>) : target[d] = c
                        /\ Holders(<<"r", inp[c]>>) \subseteq {c}
        BY DEF EofReachable
    <2>1. \A f \in Fds : shellFds[f] # Closed => shellFds[f][2] # inp[c]
        BY DEF IInv, Released
    <2>2. \A e \in {"r", "w"} : ~ ShellHolds(<<e, inp[c]>>)
        BY <2>1 DEF ShellHolds, Closed
    <2>3. c < pos /\ c \in Cmds
        BY DEF IInv, UnbornOK, TypeOK, Cmds
    <2>4. ASSUME NEW d \in Holders(<<"w", inp[c]>>) PROVE target[d] = c
      <3>1. d \in Cmds /\ out[d] = inp[c]
          BY <2>4 DEF Holders, IInv, HeldOwn
      <3> QED BY <3>1, <2>3 DEF IInv, RoutedPast
    <2>5. ASSUME NEW d \in Holders(<<"r", inp[c]>>) PROVE d = c
      <3>1. d \in Cmds /\ inp[d] = inp[c]
          BY <2>5 DEF Holders, IInv, HeldOwn
      <3> QED BY <3>1 DEF IInv, InputsDiffer
    <2> QED BY <2>2, <2>4, <2>5
  <1> QED BY <1>1, Invariance, PTL
=============================================================================
