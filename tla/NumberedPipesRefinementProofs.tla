--------------------- MODULE NumberedPipesRefinementProofs ---------------------
(***************************************************************************)
(* Proofs about what NumberedPipes does with the units in its pipes, and   *)
(* that it implements CommandFlow.                                         *)
(*                                                                         *)
(* The invariant of NumberedPipesProofs says which command is connected to *)
(* which.  The one here adds what has become of the output: every unit a   *)
(* command wrote to its pipe is there or has been read by the one command  *)
(* the pipe feeds, and a command that has seen the end of its input has    *)
(* all of it.                                                              *)
(***************************************************************************)
EXTENDS NumberedPipesRefinement, NumberedPipesProofs,
        FunctionTheorems, FiniteSetTheorems

-----------------------------------------------------------------------------
(* Counting the units of one command in the contents of a pipe. *)

\* Where they are in the contents b of a pipe, and how many.
UnitsOf(b, d)   == {i \in 1 .. Len(b) : b[i] = d}
InTransit(b, d) == Cardinality(UnitsOf(b, d))

\* The count is a number; it is 0 just when there is no unit.
LEMMA CountType ==
    ASSUME NEW b \in Seq(Cmds), NEW d
    PROVE  /\ IsFiniteSet(UnitsOf(b, d))
           /\ InTransit(b, d) \in Nat
           /\ InTransit(b, d) = 0 <=> \A i \in 1 .. Len(b) : b[i] # d
  <1>1. Len(b) \in Nat
      OBVIOUS
  <1>2. IsFiniteSet(1 .. Len(b))
      BY <1>1, FS_Interval
  <1>3. UnitsOf(b, d) \subseteq 1 .. Len(b)
      BY DEF UnitsOf
  <1>4. IsFiniteSet(UnitsOf(b, d))
      BY <1>2, <1>3, FS_Subset
  <1>5. InTransit(b, d) \in Nat
      BY <1>4, FS_CardinalityType DEF InTransit
  <1>6. InTransit(b, d) = 0 <=> UnitsOf(b, d) = {}
      BY <1>4, FS_EmptySet DEF InTransit
  <1>7. UnitsOf(b, d) = {} <=> \A i \in 1 .. Len(b) : b[i] # d
      BY DEF UnitsOf
  <1> QED BY <1>4, <1>5, <1>6, <1>7

\* A write adds one unit, of the writer.
LEMMA CountAppend ==
    ASSUME NEW b \in Seq(Cmds), NEW c \in Cmds, NEW d
    PROVE  InTransit(Append(b, c), d) = InTransit(b, d) + (IF c = d THEN 1 ELSE 0)
  <1>1. PICK n \in Nat : n = Len(b)
      OBVIOUS
  <1>2. /\ Append(b, c) \in Seq(Cmds) /\ Len(Append(b, c)) = n + 1
        /\ \A i \in 1 .. n : Append(b, c)[i] = b[i]
        /\ Append(b, c)[n + 1] = c
      BY <1>1, AppendProperties
  <1>3. UnitsOf(b, d) \subseteq 1 .. n /\ n + 1 \notin UnitsOf(b, d)
      BY <1>1 DEF UnitsOf
  <1>4. CASE c = d
    <2>1. UnitsOf(Append(b, c), d) = UnitsOf(b, d) \cup {n + 1}
        BY <1>1, <1>2, <1>4 DEF UnitsOf
    <2>2. IsFiniteSet(UnitsOf(b, d))
        BY CountType
    <2>3. Cardinality(UnitsOf(b, d) \cup {n + 1}) = Cardinality(UnitsOf(b, d)) + 1
        BY <1>3, <2>2, FS_AddElement
    <2> QED BY <1>4, <2>1, <2>3 DEF InTransit
  <1>5. CASE c # d
    <2>1. UnitsOf(Append(b, c), d) = UnitsOf(b, d)
        BY <1>1, <1>2, <1>5 DEF UnitsOf
    <2>2. InTransit(b, d) \in Nat
        BY CountType
    <2> QED BY <1>5, <2>1, <2>2 DEF InTransit
  <1> QED BY <1>4, <1>5

\* A read takes one unit, of the command that wrote it.
LEMMA CountTail ==
    ASSUME NEW b \in Seq(Cmds), b # << >>, NEW d
    PROVE  InTransit(b, d) = InTransit(Tail(b), d) + (IF Head(b) = d THEN 1 ELSE 0)
  <1>1. PICK n \in Nat : n = Len(b)
      OBVIOUS
  <1>2. /\ Tail(b) \in Seq(Cmds) /\ Len(Tail(b)) = n - 1 /\ n >= 1
        /\ \A i \in 1 .. (n - 1) : Tail(b)[i] = b[i + 1]
        /\ Head(b) = b[1]
      BY <1>1
  <1> DEFINE U == UnitsOf(Tail(b), d)
             V == UnitsOf(b, d) \ {1}
             F == [i \in U |-> i + 1]
  <1>3. /\ \A i \in U : i \in Nat /\ i >= 1 /\ i + 1 \in V
        /\ \A j \in V : j \in Nat /\ j - 1 \in U /\ j = (j - 1) + 1
      BY <1>1, <1>2 DEF UnitsOf
  <1>4. IsFiniteSet(U) /\ IsFiniteSet(UnitsOf(b, d))
      BY <1>2, CountType
  <1>5. IsFiniteSet(V)
      BY <1>4, FS_Subset
  <1> HIDE DEF U, V
  <1>6. F \in Bijection(U, V)
    <2>1. F \in [U -> V]
        BY <1>3
    <2>2. \A i, j \in U : F[i] = F[j] => i = j
        BY <1>3
    <2>3. \A j \in V : \E i \in U : F[i] = j
        BY <1>3
    <2> HIDE DEF F
    <2> QED BY <2>1, <2>2, <2>3, Fun_IsBij
  <1> HIDE DEF F
  <1>7. Cardinality(U) = Cardinality(V)
      BY <1>4, <1>5, <1>6, FS_Bijection DEF ExistsBijection
  <1>8. CASE Head(b) = d
    <2>1. 1 \in UnitsOf(b, d)
        BY <1>1, <1>2, <1>8 DEF UnitsOf
    <2>2. Cardinality(V) = Cardinality(UnitsOf(b, d)) - 1
        BY <1>4, <2>1, FS_RemoveElement DEF V
    <2>3. InTransit(b, d) \in Nat
        BY CountType
    <2> QED BY <1>7, <1>8, <2>2, <2>3 DEF InTransit, U
  <1>9. CASE Head(b) # d
    <2>1. UnitsOf(b, d) = V
        BY <1>2, <1>9 DEF UnitsOf, V
    <2>2. InTransit(b, d) \in Nat
        BY CountType
    <2> QED BY <1>7, <1>9, <2>1, <2>2 DEF InTransit, U
  <1> QED BY <1>8, <1>9
-----------------------------------------------------------------------------
(* The invariant of the units. *)

\* The shell waits for a command only in mode "wait".
ForegroundOK == mode # "wait" => fg = 0

\* When it has gone it holds nothing.
ShellGone == ~ Alive => \A f \in Fds : shellFds[f] = Closed

\* A command has a target just when it writes a pipe.
TargetsOK ==
    \A c \in Cmds :
        /\ target[c] # NoTarget <=> out[c] # NoPipe
        /\ out[c] # NoPipe => target[c] \in 1 .. (MaxCmds + PipeNumMax)

\* A command that runs has the pipe it writes open.
HoldsOutput ==
    \A c \in Cmds : st[c] = "running" /\ out[c] # NoPipe => <<"w", out[c]>> \in held[c]

\* What is in a pipe was written by the commands that write to it.
Contents == \A p \in Cmds : \A i \in 1 .. Len(buf[p]) : out[buf[p][i]] = p

\* What a command has read came from the pipe on its input.
ReadOwn == \A c, d \in Cmds : got[c][d] # 0 => inp[c] = out[d] /\ inp[c] # NoPipe

\* What d has written to its pipe is still there or has been read.
NothingLost ==
    \A d \in Cmds : out[d] # NoPipe =>
        /\ \A c \in Cmds : inp[c] = out[d] =>
              got[c][d] + InTransit(buf[out[d]], d) = Work - todo[d]
        /\ (\A c \in Cmds : inp[c] # out[d]) =>
              InTransit(buf[out[d]], d) = Work - todo[d]

\* End-of-file: the commands that write the pipe have ended, and it is empty.
EofOK ==
    \A c \in Cmds : eof[c] =>
        /\ st[c] \notin {"unborn", "builtin"} /\ inp[c] # NoPipe
        /\ \A d \in Cmds : out[d] = inp[c] =>
              st[d] # "running" /\ got[c][d] = Work - todo[d]

\* A listed pipe has a reader to come, or had one that was a built-in.
HasReader(tab, sfd, p) ==
    \/ \E i \in 1 .. Len(tab) : tab[i] = p[1]
    \/ \E c \in Cmds : st[c] = "builtin" /\ inp[c] = PipeOn(sfd, p[1])

PipesKept == Alive => \A p \in pipes : HasReader(fdTable, shellFds, p)

UnitsOK == Contents /\ ReadOwn /\ NothingLost /\ EofOK

FInv ==
    /\ ForegroundOK /\ ShellGone /\ TargetsOK /\ HoldsOutput
    /\ UnitsOK /\ PipesKept

LEMMA InitFlow == Init => FInv
  <1> SUFFICES ASSUME Init PROVE FInv
      OBVIOUS
  <1>1. ForegroundOK /\ ShellGone /\ TargetsOK /\ HoldsOutput
      BY DEF Init, ForegroundOK, ShellGone, Alive, TargetsOK, HoldsOutput
  <1>2. Contents
      BY DEF Init, Contents
  <1>3. ReadOwn /\ NothingLost /\ EofOK
      BY DEF Init, ReadOwn, NothingLost, EofOK
  <1>4. PipesKept
      BY DEF Init, PipesKept
  <1> QED BY <1>1, <1>2, <1>3, <1>4 DEF FInv, UnitsOK

\* The numbers that NothingLost and EofOK add.
LEMMA UnitTypes ==
    ASSUME IInv
    PROVE  /\ \A c, d \in Cmds : got[c][d] \in Nat
           /\ \A d \in Cmds : Work - todo[d] \in Nat /\ todo[d] \in Nat /\ todo[d] <= Work
           /\ \A p \in Cmds : buf[p] \in Seq(Cmds)
           /\ \A d \in Cmds : out[d] # NoPipe => out[d] \in Cmds
           /\ \A d \in Cmds : inp[d] # NoPipe => inp[d] \in Cmds
           /\ Work \in Nat
  <1>1. Work \in Nat
      BY NumberedPipesAssumption
  <1>2. \A d \in Cmds : todo[d] \in 0 .. Work
      BY DEF IInv, TypeOK
  <1>3. \A c, d \in Cmds : got[c][d] \in Nat
      BY DEF IInv, TypeOK
  <1> QED BY <1>1, <1>2, <1>3 DEF IInv, TypeOK, PipeIds

\* Command pos takes its number: it has written and read nothing yet, and so
\* has nobody read its output; if it takes over a pipe, what was in it is all
\* that was written to it.
LEMMA NumberTaken ==
    ASSUME IInv, IInv', FInv, pos \in Cmds, pos' = pos + 1, UNCHANGED <<eof, buf, got>>,
           \A c \in Cmds : c # pos => /\ st'[c] = st[c] /\ inp'[c] = inp[c]
                                      /\ out'[c] = out[c] /\ todo'[c] = todo[c],
           out'[pos] # NoPipe => todo'[pos] = Work /\ target'[pos] >= pos
    PROVE  UnitsOK'
  <1> USE DEF FInv, UnitsOK
  <1>1. pos \in Nat /\ \A c \in Cmds : c \in Nat
      BY NumberedPipesAssumption DEF Cmds
  <1>2. st[pos] = "unborn" /\ inp[pos] = NoPipe /\ out[pos] = NoPipe
      BY <1>1 DEF IInv, UnbornOK
  <1>3. \A c \in Cmds : out[c] # NoPipe => c # pos /\ out'[c] = out[c] /\ todo'[c] = todo[c]
      BY <1>2
  <1>4. \A c \in Cmds : inp[c] # NoPipe => c # pos /\ inp'[c] = inp[c]
      BY <1>2
  <1>5. Contents'
    <2> SUFFICES ASSUME NEW p \in Cmds, NEW i \in 1 .. Len(buf[p])
                 PROVE  out'[buf[p][i]] = p
        BY DEF Contents
    <2>1. buf[p][i] \in Cmds
        BY UnitTypes
    <2>2. out[buf[p][i]] = p /\ p # NoPipe
        BY NumberedPipesAssumption DEF Contents, Cmds, NoPipe
    <2> QED BY <2>1, <2>2, <1>3
  <1>6. ReadOwn'
    <2> SUFFICES ASSUME NEW c \in Cmds, NEW d \in Cmds, got[c][d] # 0
                 PROVE  inp'[c] = out'[d] /\ inp'[c] # NoPipe
        BY DEF ReadOwn
    <2>1. inp[c] = out[d] /\ inp[c] # NoPipe
        BY DEF ReadOwn
    <2> QED BY <2>1, <1>3, <1>4
  <1>7. NothingLost'
    <2> SUFFICES ASSUME NEW d \in Cmds, out'[d] # NoPipe
                 PROVE  /\ \A c \in Cmds : inp'[c] = out'[d] =>
                              got[c][d] + InTransit(buf[out'[d]], d) = Work - todo'[d]
                        /\ (\A c \in Cmds : inp'[c] # out'[d]) =>
                              InTransit(buf[out'[d]], d) = Work - todo'[d]
        BY DEF NothingLost
    <2>0. out'[d] \in Cmds /\ buf[out'[d]] \in Seq(Cmds)
      <3>1. out' \in [Cmds -> PipeIds]
          BY DEF IInv, TypeOK
      <3> QED BY <3>1, UnitTypes DEF PipeIds
    <2>1. CASE d = pos
      <3>1. Work - todo'[d] = 0
          BY <2>1, UnitTypes
      <3>2. \A c \in Cmds : got[c][d] = 0
          BY <2>1, <1>2 DEF ReadOwn
      <3>3. InTransit(buf[out'[d]], d) = 0
        <4>1. \A i \in 1 .. Len(buf[out'[d]]) : out[buf[out'[d]][i]] = out'[d]
            BY <2>0 DEF Contents
        <4>2. \A i \in 1 .. Len(buf[out'[d]]) : buf[out'[d]][i] # d
            BY <4>1, <2>1, <1>2
        <4> QED BY <4>2, <2>0, CountType
      <3> QED BY <3>1, <3>2, <3>3
    <2>2. CASE d # pos
      <3>1. out'[d] = out[d] /\ todo'[d] = todo[d]
          BY <2>2
      <3>2. ASSUME \A c \in Cmds : inp'[c] # out[d]
            PROVE  InTransit(buf[out[d]], d) = Work - todo[d]
        <4>1. \A c \in Cmds : inp[c] # out[d]
            BY <3>1, <3>2, <1>4
        <4> QED BY <4>1, <3>1 DEF NothingLost
      <3>3. ASSUME NEW c \in Cmds, inp'[c] = out[d], c # pos
            PROVE  got[c][d] + InTransit(buf[out[d]], d) = Work - todo[d]
          BY <3>1, <3>3 DEF NothingLost
      <3>4. ASSUME inp'[pos] = out[d]
            PROVE  got[pos][d] + InTransit(buf[out[d]], d) = Work - todo[d]
        <4>1. \A c \in Cmds : inp'[c] = inp'[pos] => c = pos
            BY <3>1, <3>4 DEF IInv, InputsDiffer
        <4>2. \A c \in Cmds : inp[c] # out[d]
            BY <3>1, <3>4, <4>1, <1>4
        <4>3. InTransit(buf[out[d]], d) = Work - todo[d]
            BY <4>2, <3>1 DEF NothingLost
        <4>4. got[pos][d] = 0
            BY <1>2 DEF ReadOwn
        <4> QED BY <4>3, <4>4, UnitTypes
      <3> QED BY <3>1, <3>2, <3>3, <3>4
    <2> QED BY <2>1, <2>2
  <1>8. EofOK'
    <2> SUFFICES ASSUME NEW c \in Cmds, eof[c]
                 PROVE  /\ st'[c] \notin {"unborn", "builtin"} /\ inp'[c] # NoPipe
                        /\ \A d \in Cmds : out'[d] = inp'[c] =>
                              st'[d] # "running" /\ got[c][d] = Work - todo'[d]
        BY DEF EofOK
    <2>1. st[c] \notin {"unborn", "builtin"} /\ inp[c] # NoPipe
        BY DEF EofOK
    <2>2. c # pos /\ ~ (c >= pos) /\ st'[c] = st[c] /\ inp'[c] = inp[c]
      <3>1. c # pos /\ ~ (c >= pos)
          BY <2>1, <1>2 DEF IInv, UnbornOK
      <3> QED BY <3>1
    <2>3. ASSUME NEW d \in Cmds, out'[d] = inp'[c]
          PROVE  st'[d] # "running" /\ got[c][d] = Work - todo'[d]
      <3>1. d # pos
        <4> SUFFICES ASSUME d = pos PROVE FALSE
            OBVIOUS
        <4>1. target'[pos] >= pos /\ target'[pos] \in Nat
            BY <2>1, <2>2, <2>3 DEF IInv, TypeOK
        <4>2. c < pos'
          <5>1. c \in Nat /\ pos \in Nat /\ ~ (c >= pos)
              BY <2>2, <1>1
          <5>2. c < pos + 1
              BY <5>1
          <5> QED BY <5>2
        <4>3. c = target'[pos]
            BY <2>1, <2>2, <2>3, <4>2 DEF IInv, RoutedPast
        <4> QED BY <2>2, <4>1, <4>3
      <3>2. out[d] = inp[c]
          BY <3>1, <2>2, <2>3
      <3> QED BY <3>1, <3>2 DEF EofOK
    <2> QED BY <2>1, <2>2, <2>3
  <1> QED BY <1>5, <1>6, <1>7, <1>8

\* What the commands' steps leave alone.
LEMMA ShellStill ==
    ASSUME FInv, UNCHANGED <<shellVars, inp, out, target>>,
           \A c \in Cmds : st[c] = "builtin" => st'[c] = "builtin"
    PROVE  ForegroundOK' /\ ShellGone' /\ TargetsOK' /\ PipesKept'
  <1> USE DEF FInv, shellVars
  <1>1. ForegroundOK' /\ ShellGone' /\ TargetsOK'
      BY DEF ForegroundOK, ShellGone, Alive, TargetsOK
  <1>2. PipesKept'
      BY DEF PipesKept, HasReader, Alive, PipeOn
  <1> QED BY <1>1, <1>2

\* Commands end, closing what they held, or are reaped.
LEMMA CommandsEnd ==
    ASSUME FInv, UNCHANGED <<inp, out, todo, eof, buf, got>>,
           \A c \in Cmds :
               /\ \/ st'[c] = st[c]
                  \/ /\ st[c] \notin {"unborn", "builtin"}
                     /\ st'[c] \notin {"unborn", "builtin", "running"}
               /\ held'[c] = held[c] \/ st'[c] # "running"
    PROVE  HoldsOutput' /\ UnitsOK'
  <1> USE DEF FInv, UnitsOK
  <1>1. HoldsOutput'
      BY DEF HoldsOutput
  <1>2. Contents' /\ ReadOwn' /\ NothingLost'
      BY DEF Contents, ReadOwn, NothingLost
  <1>3. EofOK'
      BY DEF EofOK
  <1> QED BY <1>1, <1>2, <1>3

LEMMA EndFlow ==
    ASSUME IInv, FInv, NEW c \in Cmds, st[c] = "running", Die(c),
           UNCHANGED <<shellVars, inp, out, todo, eof, buf, got, target>>
    PROVE  FInv'
  <1>1. /\ st' = [st EXCEPT ![c] = "zombie"] /\ held' = [held EXCEPT ![c] = {}]
        /\ st'[c] = "zombie" /\ \A d \in Cmds : d # c => st'[d] = st[d] /\ held'[d] = held[d]
      BY DEF Die, IInv, TypeOK
  <1>2. HoldsOutput' /\ UnitsOK'
      BY <1>1, CommandsEnd
  <1>3. ForegroundOK' /\ ShellGone' /\ TargetsOK' /\ PipesKept'
      BY <1>1, ShellStill
  <1> QED BY <1>2, <1>3 DEF FInv

LEMMA ChildHandlerFlow == IInv /\ FInv /\ ChildHandler => FInv'
  <1> SUFFICES ASSUME IInv, FInv, ChildHandler PROVE FInv'
      OBVIOUS
  <1>1. /\ \A c \in Cmds : st'[c] = IF st[c] = "zombie" THEN "reaped" ELSE st[c]
        /\ UNCHANGED <<shellVars, inp, out, target, held, todo, eof, buf, got>>
      BY DEF ChildHandler, childVars
  <1>2. HoldsOutput' /\ UnitsOK'
      BY <1>1, CommandsEnd
  <1>3. ForegroundOK' /\ ShellGone' /\ TargetsOK' /\ PipesKept'
      BY <1>1, ShellStill
  <1> QED BY <1>2, <1>3 DEF FInv

\* A unit written to a pipe is one more in it and one less to write.
LEMMA WriteFlow ==
    ASSUME NEW c \in Cmds
    PROVE  IInv /\ FInv /\ Write(c) => FInv'
  <1> SUFFICES ASSUME IInv, FInv, Write(c) PROVE FInv'
      OBVIOUS
  <1> USE DEF FInv, UnitsOK
  <1>1. /\ st[c] = "running" /\ todo[c] > 0
        /\ UNCHANGED <<shellVars, inp, out, eof, got, target>>
      BY DEF Write
  <1>2. CASE Die(c) /\ UNCHANGED <<todo, buf>>
      BY <1>1, <1>2, EndFlow
  <1>3. ASSUME todo' = [todo EXCEPT ![c] = @ - 1], UNCHANGED <<st, held>>
        PROVE  /\ \A d \in Cmds : d # c => todo'[d] = todo[d]
               /\ todo'[c] = todo[c] - 1
               /\ ForegroundOK' /\ ShellGone' /\ TargetsOK' /\ PipesKept'
               /\ HoldsOutput' /\ ReadOwn' /\ EofOK'
    <2>1. /\ \A d \in Cmds : d # c => todo'[d] = todo[d]
          /\ todo'[c] = todo[c] - 1
        BY <1>3 DEF IInv, TypeOK
    <2>2. ForegroundOK' /\ ShellGone' /\ TargetsOK' /\ PipesKept'
        BY <1>1, <1>3, ShellStill
    <2>3. HoldsOutput' /\ ReadOwn'
        BY <1>1, <1>3 DEF HoldsOutput, ReadOwn
    <2>4. \A k \in Cmds : eof[k] /\ out[c] = inp[k] => FALSE
        BY <1>1 DEF EofOK
    <2>5. EofOK'
        BY <2>1, <2>4, <1>1, <1>3 DEF EofOK
    <2> QED BY <2>1, <2>2, <2>3, <2>5
  <1>4. CASE /\ out[c] = NoPipe /\ todo' = [todo EXCEPT ![c] = @ - 1]
             /\ UNCHANGED <<st, held, buf>>
    <2>1. Contents' /\ NothingLost'
        BY <1>1, <1>3, <1>4 DEF Contents, NothingLost
    <2> QED BY <2>1, <1>3, <1>4
  <1>5. CASE /\ out[c] # NoPipe /\ todo' = [todo EXCEPT ![c] = @ - 1]
             /\ buf' = [buf EXCEPT ![out[c]] = Append(@, c)]
             /\ UNCHANGED <<st, held>>
    <2>1. out[c] \in Cmds /\ buf[out[c]] \in Seq(Cmds)
        BY <1>5, UnitTypes
    <2>2. /\ buf'[out[c]] = Append(buf[out[c]], c)
          /\ \A p \in Cmds : p # out[c] => buf'[p] = buf[p]
        BY <1>5, <2>1 DEF IInv, TypeOK
    <2>3. Contents'
      <3> SUFFICES ASSUME NEW p \in Cmds PROVE \A i \in 1 .. Len(buf'[p]) : out[buf'[p][i]] = p
          BY <1>1 DEF Contents
      <3>1. CASE p # out[c]
          BY <3>1, <2>2 DEF Contents
      <3>2. CASE p = out[c]
        <4>1. PICK n \in Nat : n = Len(buf[p])
            BY <3>2, <2>1
        <4>2. /\ Len(buf'[p]) = n + 1 /\ buf'[p][n + 1] = c
              /\ \A i \in 1 .. n : buf'[p][i] = buf[p][i]
            BY <3>2, <4>1, <2>1, <2>2, AppendProperties
        <4>3. \A i \in 1 .. n : out[buf[p][i]] = p
            BY <4>1 DEF Contents
        <4> QED BY <3>2, <4>2, <4>3
      <3> QED BY <3>1, <3>2
    <2>4. NothingLost'
      <3> SUFFICES ASSUME NEW d \in Cmds, out[d] # NoPipe
                   PROVE  /\ \A k \in Cmds : inp[k] = out[d] =>
                                got[k][d] + InTransit(buf'[out[d]], d) = Work - todo'[d]
                          /\ (\A k \in Cmds : inp[k] # out[d]) =>
                                InTransit(buf'[out[d]], d) = Work - todo'[d]
          BY <1>1 DEF NothingLost
      <3>1. out[d] \in Cmds /\ buf[out[d]] \in Seq(Cmds)
          BY UnitTypes
      <3>2. PICK x \in Nat : x = InTransit(buf[out[d]], d)
          BY <3>1, CountType
      <3>3. CASE d = c
        <4>1. InTransit(buf'[out[d]], d) = x + 1
            BY <3>1, <3>2, <3>3, <2>2, CountAppend
        <4>2. PICK y \in Nat, z \in Nat : y = todo[d] /\ z = Work /\ y <= z
            BY UnitTypes
        <4>3. todo'[d] = y - 1
            BY <3>3, <4>2, <1>3, <1>5
        <4>4. ASSUME NEW k \in Cmds, inp[k] = out[d]
              PROVE  got[k][d] + InTransit(buf'[out[d]], d) = Work - todo'[d]
          <5>1. PICK g \in Nat : g = got[k][d]
              BY UnitTypes
          <5>2. g + x = z - y
              BY <5>1, <4>2, <3>2, <4>4 DEF NothingLost
          <5>3. g + (x + 1) = z - (y - 1)
              BY <5>2
          <5> QED BY <5>1, <5>3, <4>1, <4>2, <4>3
        <4>5. ASSUME \A k \in Cmds : inp[k] # out[d]
              PROVE  InTransit(buf'[out[d]], d) = Work - todo'[d]
          <5>1. x = z - y
              BY <4>2, <3>2, <4>5 DEF NothingLost
          <5>2. x + 1 = z - (y - 1)
              BY <5>1
          <5> QED BY <5>2, <4>1, <4>2, <4>3
        <4> QED BY <4>4, <4>5
      <3>4. CASE d # c
        <4>1. InTransit(buf'[out[d]], d) = x
          <5>1. CASE out[d] = out[c]
              BY <5>1, <3>1, <3>2, <3>4, <2>2, CountAppend
          <5>2. CASE out[d] # out[c]
              BY <5>2, <3>1, <3>2, <2>2
          <5> QED BY <5>1, <5>2
        <4>2. todo'[d] = todo[d]
            BY <3>4, <1>3, <1>5
        <4> QED BY <4>1, <4>2, <3>2 DEF NothingLost
      <3> QED BY <3>3, <3>4
    <2> QED BY <2>3, <2>4, <1>3, <1>5
  <1>6. ~ (out[c] # NoPipe /\ ~ HasEnd(<<"r", out[c]>>) /\ Die(c) /\ UNCHANGED <<todo, buf>>)
        => \/ /\ out[c] = NoPipe /\ todo' = [todo EXCEPT ![c] = @ - 1]
              /\ UNCHANGED <<st, held, buf>>
           \/ /\ out[c] # NoPipe /\ todo' = [todo EXCEPT ![c] = @ - 1]
              /\ buf' = [buf EXCEPT ![out[c]] = Append(@, c)]
              /\ UNCHANGED <<st, held>>
      BY DEF Write
  <1> QED BY <1>2, <1>4, <1>5, <1>6

\* A unit read leaves the pipe and is added to what its writer got through.
LEMMA ReadFlow ==
    ASSUME NEW c \in Cmds
    PROVE  IInv /\ FInv /\ Read(c) => FInv'
  <1> SUFFICES ASSUME IInv, FInv, Read(c) PROVE FInv'
      OBVIOUS
  <1> USE DEF FInv, UnitsOK
  <1>1. /\ st[c] = "running" /\ inp[c] # NoPipe /\ ~ eof[c] /\ buf[inp[c]] # << >>
        /\ UNCHANGED <<shellVars, st, inp, out, held, todo, eof, target>>
      BY DEF Read
  <1> DEFINE h == Head(buf[inp[c]])
  <1>2. /\ inp[c] \in Cmds /\ buf[inp[c]] \in Seq(Cmds)
        /\ h \in Cmds /\ Tail(buf[inp[c]]) \in Seq(Cmds)
      BY <1>1, UnitTypes
  <1>3. /\ buf'[inp[c]] = Tail(buf[inp[c]])
        /\ \A p \in Cmds : p # inp[c] => buf'[p] = buf[p]
      BY <1>1, <1>2 DEF Read, IInv, TypeOK
  <1>4. /\ got'[c][h] = got[c][h] + 1
        /\ \A d \in Cmds : d # h => got'[c][d] = got[c][d]
        /\ \A k \in Cmds : k # c => got'[k] = got[k]
    <2>1. got' = [got EXCEPT ![c][h] = got[c][h] + 1]
        BY DEF Read
    <2>2. got \in [Cmds -> [Cmds -> Nat]]
        BY DEF IInv, TypeOK
    <2> HIDE DEF h
    <2> QED BY <1>2, <2>1, <2>2
  <1>5. out[h] = inp[c]
    <2>1. 1 \in 1 .. Len(buf[inp[c]]) /\ h = buf[inp[c]][1]
        BY <1>1, <1>2
    <2> QED BY <1>2, <2>1 DEF Contents
  <1> HIDE DEF h
  <1>6. ForegroundOK' /\ ShellGone' /\ TargetsOK' /\ PipesKept'
      BY <1>1, ShellStill
  <1>7. HoldsOutput'
      BY <1>1 DEF HoldsOutput
  <1>8. Contents'
    <2> SUFFICES ASSUME NEW p \in Cmds PROVE \A i \in 1 .. Len(buf'[p]) : out[buf'[p][i]] = p
        BY <1>1 DEF Contents
    <2>1. CASE p # inp[c]
        BY <2>1, <1>3 DEF Contents
    <2>2. CASE p = inp[c]
      <3>1. PICK n \in Nat : n = Len(buf[p])
          BY <2>2, <1>2
      <3>2. /\ Len(buf'[p]) = n - 1
            /\ \A i \in 1 .. (n - 1) : buf'[p][i] = buf[p][i + 1] /\ i + 1 \in 1 .. n
          BY <2>2, <3>1, <1>1, <1>2, <1>3
      <3>3. \A i \in 1 .. n : out[buf[p][i]] = p
          BY <3>1 DEF Contents
      <3> QED BY <3>2, <3>3
    <2> QED BY <2>1, <2>2
  <1>9. ReadOwn'
    <2> SUFFICES ASSUME NEW k \in Cmds, NEW d \in Cmds, got'[k][d] # 0
                 PROVE  inp[k] = out[d] /\ inp[k] # NoPipe
        BY <1>1 DEF ReadOwn
    <2>1. CASE k = c /\ d = h
        BY <2>1, <1>1, <1>5
    <2>2. CASE ~ (k = c /\ d = h)
      <3>1. got[k][d] # 0
          BY <2>2, <1>4
      <3> QED BY <3>1 DEF ReadOwn
    <2> QED BY <2>1, <2>2
  <1>10. NothingLost'
    <2> SUFFICES ASSUME NEW d \in Cmds, out[d] # NoPipe
                 PROVE  /\ \A k \in Cmds : inp[k] = out[d] =>
                              got'[k][d] + InTransit(buf'[out[d]], d) = Work - todo[d]
                        /\ (\A k \in Cmds : inp[k] # out[d]) =>
                              InTransit(buf'[out[d]], d) = Work - todo[d]
        BY <1>1 DEF NothingLost
    <2>1. out[d] \in Cmds /\ buf[out[d]] \in Seq(Cmds)
        BY UnitTypes
    <2>2. CASE out[d] # inp[c]
      <3>1. buf'[out[d]] = buf[out[d]]
          BY <2>1, <2>2, <1>3
      <3>2. \A k \in Cmds : inp[k] = out[d] => got'[k] = got[k]
          BY <2>2, <1>4
      <3> QED BY <3>1, <3>2 DEF NothingLost
    <2>3. CASE out[d] = inp[c]
      <3>1. \A k \in Cmds : inp[k] = out[d] => k = c
          BY <2>3 DEF IInv, InputsDiffer
      <3>2. PICK x \in Nat : x = InTransit(buf'[out[d]], d)
          BY <2>3, <1>2, <1>3, CountType
      <3>3. PICK g \in Nat : g = got[c][d]
          BY UnitTypes
      <3>4. PICK w \in Nat : w = Work - todo[d]
          BY UnitTypes
      <3>5. InTransit(buf[out[d]], d) = x + (IF h = d THEN 1 ELSE 0)
          BY <2>3, <3>2, <1>1, <1>2, <1>3, CountTail DEF h
      <3>6. g + (x + (IF h = d THEN 1 ELSE 0)) = w
          BY <2>3, <3>3, <3>4, <3>5 DEF NothingLost
      <3>7. got'[c][d] = g + (IF h = d THEN 1 ELSE 0)
        <4>1. CASE h = d
            BY <4>1, <3>3, <1>4
        <4>2. CASE h # d
            BY <4>2, <3>3, <1>4
        <4> QED BY <4>1, <4>2
      <3>8. (g + (IF h = d THEN 1 ELSE 0)) + x = w
        <4>1. CASE h = d
            BY <4>1, <3>6
        <4>2. CASE h # d
            BY <4>2, <3>6
        <4> QED BY <4>1, <4>2
      <3>9. got'[c][d] + InTransit(buf'[out[d]], d) = Work - todo[d]
          BY <3>2, <3>4, <3>7, <3>8
      <3> QED BY <2>3, <3>1, <3>9
    <2> QED BY <2>2, <2>3
  <1>11. EofOK'
    <2>1. \A k \in Cmds : eof[k] => got'[k] = got[k]
        BY <1>1, <1>4
    <2> QED BY <2>1, <1>1 DEF EofOK
  <1> QED BY <1>6, <1>7, <1>8, <1>9, <1>10, <1>11

\* End-of-file: no command that runs holds the write end, and nothing is left in
\* the pipe, so everything written to it has been read.
LEMMA ReadEofFlow ==
    ASSUME NEW c \in Cmds
    PROVE  IInv /\ FInv /\ ReadEof(c) => FInv'
  <1> SUFFICES ASSUME IInv, FInv, ReadEof(c) PROVE FInv'
      OBVIOUS
  <1> USE DEF FInv, UnitsOK
  <1>1. /\ st[c] = "running" /\ inp[c] # NoPipe
        /\ buf[inp[c]] = << >> /\ ~ HasEnd(<<"w", inp[c]>>)
        /\ eof' = [eof EXCEPT ![c] = TRUE]
        /\ UNCHANGED <<shellVars, st, inp, out, held, todo, buf, got, target>>
      BY DEF ReadEof
  <1>2. ForegroundOK' /\ ShellGone' /\ TargetsOK' /\ PipesKept'
      BY <1>1, ShellStill
  <1>3. HoldsOutput' /\ Contents' /\ ReadOwn' /\ NothingLost'
      BY <1>1 DEF HoldsOutput, Contents, ReadOwn, NothingLost
  <1>4. ASSUME NEW d \in Cmds, out[d] = inp[c]
        PROVE  st[d] # "running" /\ got[c][d] = Work - todo[d]
    <2>1. <<"w", inp[c]>> \notin held[d]
        BY <1>1 DEF HasEnd, Holders
    <2>2. st[d] # "running"
        BY <1>1, <1>4, <2>1 DEF HoldsOutput
    <2>3. InTransit(buf[out[d]], d) = 0
      <3>1. buf[out[d]] \in Seq(Cmds) /\ Len(buf[out[d]]) = 0
          BY <1>1, <1>4, UnitTypes
      <3> QED BY <3>1, CountType
    <2>4. got[c][d] + InTransit(buf[out[d]], d) = Work - todo[d]
        BY <1>1, <1>4 DEF NothingLost
    <2> QED BY <2>2, <2>3, <2>4, UnitTypes
  <1>5. \A k \in Cmds : eof'[k] => k = c \/ eof[k]
      BY <1>1 DEF IInv, TypeOK
  <1>6. EofOK'
    <2> SUFFICES ASSUME NEW k \in Cmds, eof'[k]
                 PROVE  /\ st[k] \notin {"unborn", "builtin"} /\ inp[k] # NoPipe
                        /\ \A d \in Cmds : out[d] = inp[k] =>
                              st[d] # "running" /\ got[k][d] = Work - todo[d]
        BY <1>1 DEF EofOK
    <2>1. CASE k = c
        BY <2>1, <1>1, <1>4
    <2>2. CASE eof[k]
        BY <2>2 DEF EofOK
    <2> QED BY <2>1, <2>2, <1>5
  <1> QED BY <1>2, <1>3, <1>6

LEMMA EntryInTable ==
    ASSUME NEW tab \in Seq(Fds \cup {STDIN}), NEW f \in Fds
    PROVE  (\E i \in 1 .. Len(tab) : tab[i] = f)
              <=> \E i \in Positive : Entry(tab, i) = f
  <1>1. f # STDIN /\ Len(tab) \in Nat
      BY FdsAreNotStd
  <1> QED BY <1>1 DEF Entry, Positive

\* A command is forked.  The table moves on by one entry: a pipe that had a
\* reader to come has one still, unless the new command reads it, and then it
\* is off the list.
LEMMA ForkFlow ==
    ASSUME IInv, IInv', FInv, NEW tab, NEW sfd, NEW list, NEW o, NEW to, NEW ends \in BOOLEAN,
           Forks(tab, sfd, list, o, to, ends),
           mode' # "wait" => fg' = 0,
           to # NoTarget <=> PipeOn(sfd, o) # NoPipe,
           PipeOn(sfd, o) # NoPipe => to \in 1 .. (MaxCmds + PipeNumMax)
    PROVE  FInv'
  <1> USE DEF FInv
  <1>1. /\ Alive /\ Alive' /\ pos \in Cmds /\ pos \in Nat
        /\ TablesOK(tab, sfd, list) /\ TablesOK(fdTable, shellFds, pipes)
        /\ CloseConsumed(sfd, list, tab[1]) /\ fdTable' = Shift(tab, ends)
      BY NumberedPipesAssumption DEF Forks, Connected, Alive, IInv, Cmds
  <1>2. /\ pos' = pos + 1 /\ UNCHANGED <<eof, buf, got>>
        /\ \A c \in Cmds : c # pos => /\ st'[c] = st[c] /\ inp'[c] = inp[c]
                                      /\ out'[c] = out[c] /\ held'[c] = held[c]
                                      /\ todo'[c] = todo[c] /\ target'[c] = target[c]
        /\ st'[pos] = "running" /\ out'[pos] = PipeOn(sfd, o) /\ target'[pos] = to
        /\ todo'[pos] = Work /\ held'[pos] = ChildEnds(sfd, list, tab[1], o)
      BY <1>1 DEF Forks, Spawn, IInv, TypeOK
  <1>3. ForegroundOK' /\ ShellGone'
      BY <1>1 DEF ForegroundOK, ShellGone
  <1>4. TargetsOK'
      BY <1>2 DEF TargetsOK
  <1>5. HoldsOutput'
    <2>1. ASSUME PipeOn(sfd, o) # NoPipe
          PROVE  <<"w", PipeOn(sfd, o)>> \in ChildEnds(sfd, list, tab[1], o)
      <3>1. PICK p \in list : o = p[2]
          BY <2>1 DEF Forks, Connected, PipeOn
      <3>2. p[2] \in Fds /\ sfd[p[2]] = <<"w", PipeOn(sfd, p[2])>>
          BY <1>1, PairedEnds DEF TablesOK
      <3> QED BY <3>1, <3>2, FdsAreNotStd DEF ChildEnds
    <2> QED BY <1>2, <2>1 DEF HoldsOutput
  <1>6. UnitsOK'
    <2>1. out'[pos] # NoPipe => todo'[pos] = Work /\ target'[pos] >= pos
        BY <1>2 DEF Forks, Connected
    <2> QED BY <1>1, <1>2, <2>1, NumberTaken
  <1>7. PipesKept'
    <2> SUFFICES ASSUME NEW p \in pipes'
                 PROVE  \/ \E i \in 1 .. Len(fdTable') : fdTable'[i] = p[1]
                        \/ \E c \in Cmds : st'[c] = "builtin"
                                              /\ inp'[c] = PipeOn(shellFds', p[1])
        BY DEF PipesKept, HasReader
    <2>1. p \in list /\ p \notin Consumed(list, tab[1]) /\ p[1] \in Fds /\ p[1] # STDIN
        BY <1>1, FdsAreNotStd DEF CloseConsumed, TablesOK
    <2>2. /\ fdTable' \in Seq(Fds \cup {STDIN})
          /\ \A i \in Positive : Entry(fdTable', i) = Entry(tab, i + 1)
        BY <1>1, ShiftEntries DEF TablesOK
    <2>3. tab[1] = Entry(tab, 1) /\ tab[1] # p[1]
        BY <1>1, <2>1, NumberedPipesAssumption DEF TablesOK, Entry, Consumed
    <2>4. ASSUME NEW i \in Positive, Entry(tab, i) = p[1]
          PROVE  \E j \in 1 .. Len(fdTable') : fdTable'[j] = p[1]
      <3>1. i - 1 \in Positive /\ (i - 1) + 1 = i
          BY <2>3, <2>4 DEF Positive
      <3>2. Entry(fdTable', i - 1) = p[1]
          BY <2>2, <2>4, <3>1
      <3> QED BY <2>1, <2>2, <3>1, <3>2, EntryInTable
    <2>5. CASE \E i \in Positive : Entry(tab, i) = p[1]
        BY <2>4, <2>5
    <2>6. CASE p \in pipes /\ \E i \in 1 .. Len(fdTable) : fdTable[i] = p[1]
      <3>1. PICK i \in Positive : Entry(fdTable, i) = p[1]
          BY <1>1, <2>1, <2>6, EntryInTable DEF TablesOK
      <3>2. Entry(tab, i) = p[1]
          BY <2>1, <3>1 DEF Forks
      <3> QED BY <2>4, <3>2
    <2>7. CASE p \in pipes /\ \E c \in Cmds : st[c] = "builtin"
                                                /\ inp[c] = PipeOn(shellFds, p[1])
      <3>1. PICK c \in Cmds : st[c] = "builtin" /\ inp[c] = PipeOn(shellFds, p[1])
          BY <2>7
      <3>2. c # pos
          BY <1>1, <3>1 DEF IInv, UnbornOK
      <3>3. shellFds'[p[1]] = sfd[p[1]]
        <4>1. shellFds'[p[1]] # Closed
            BY <1>1 DEF IInv, TablesOK, Paired
        <4> QED BY <4>1, <1>1, <2>1, ReadPipe
      <3>4. sfd[p[1]] = shellFds[p[1]]
        <4>1. shellFds[p[1]] # Closed
            BY <1>1, <2>7 DEF TablesOK, Paired
        <4> QED BY <4>1, <2>1 DEF Forks, Connected
      <3>5. PipeOn(shellFds', p[1]) = PipeOn(shellFds, p[1])
          BY <3>3, <3>4 DEF PipeOn
      <3> QED BY <1>2, <3>1, <3>2, <3>5
    <2> QED BY <1>1, <2>1, <2>5, <2>6, <2>7 DEF Forks, PipesKept, HasReader
  <1> QED BY <1>3, <1>4, <1>5, <1>6, <1>7

\* What the number typed after | or ! becomes.
LEMMA TargetInRange ==
    ASSUME pos \in Cmds, NEW off \in Offsets
    PROVE  pos + off # NoTarget /\ pos + off \in 1 .. (MaxCmds + PipeNumMax)
  <1>1. /\ pos \in 1 .. MaxCmds /\ off \in 0 .. (PipeNumMax - 1)
        /\ MaxCmds \in Nat /\ PipeNumMax \in Nat
      BY NumberedPipesAssumption DEF Cmds
  <1> QED BY <1>1 DEF NoTarget

LEMMA RunFlow ==
    ASSUME NEW off \in Offsets, NEW ends \in BOOLEAN
    PROVE  IInv /\ IInv' /\ FInv /\ (RunToNewPipe(off, ends) \/ RunToOldPipe(off, ends))
              => FInv'
  <1> SUFFICES ASSUME IInv, IInv', FInv, RunToNewPipe(off, ends) \/ RunToOldPipe(off, ends)
               PROVE  FInv'
      OBVIOUS
  <1>1. PICK tab, sfd, list, o : /\ Forks(tab, sfd, list, o, pos + off, ends)
                                 /\ PipeOn(sfd, o) # NoPipe
      BY NewPipeForks, OldPipeForks
  <1>2. fg' = 0
      BY DEF RunToNewPipe, RunToOldPipe, FInv, ForegroundOK
  <1>3. pos \in Cmds
      BY <1>1 DEF Forks
  <1> QED BY <1>1, <1>2, <1>3, TargetInRange, ForkFlow

LEMMA RunLastFlow == IInv /\ IInv' /\ FInv /\ RunLast => FInv'
  <1> SUFFICES ASSUME IInv, IInv', FInv, RunLast PROVE FInv'
      OBVIOUS
  <1>1. /\ Forks(fdTable, shellFds, pipes, STDOUT, target[pos], FALSE)
        /\ PipeOn(shellFds, STDOUT) = NoPipe
      BY LastForks
  <1>2. pos \in Cmds /\ pos \in Nat
      BY <1>1, NumberedPipesAssumption DEF Forks, Cmds
  <1>3. target[pos] = NoTarget
    <2>1. out[pos] = NoPipe
        BY <1>2 DEF IInv, UnbornOK
    <2> QED BY <1>2, <2>1 DEF FInv, TargetsOK
  <1>4. mode' = "wait"
      BY DEF RunLast
  <1> QED BY <1>1, <1>3, <1>4, ForkFlow

\* A built-in: the first entry goes, and its pipe, if any, is now the one a
\* built-in should have read.
LEMMA BuiltInFlow == IInv /\ IInv' /\ FInv /\ BuiltIn => FInv'
  <1> SUFFICES ASSUME IInv, IInv', FInv, BuiltIn PROVE FInv'
      OBVIOUS
  <1> USE DEF FInv
  <1>1. /\ Alive /\ mode = "prompt" /\ pos <= MaxCmds
        /\ fdTable' = Refill(Tail(fdTable)) /\ pos' = pos + 1
        /\ st' = [st EXCEPT ![pos] = "builtin"]
        /\ inp' = [inp EXCEPT ![pos] = PipeOn(shellFds, fdTable[1])]
        /\ UNCHANGED <<mode, fg, pipes, shellFds, out, target, held, todo, eof, buf, got>>
      BY DEF BuiltIn, Alive, childVars
  <1>2. pos \in Cmds /\ pos \in Nat
      BY <1>1, NumberedPipesAssumption DEF IInv, TypeOK, Cmds
  <1>3. /\ \A c \in Cmds : c # pos => st'[c] = st[c] /\ inp'[c] = inp[c]
        /\ st'[pos] = "builtin" /\ inp'[pos] = PipeOn(shellFds, fdTable[1])
        /\ out[pos] = NoPipe
      BY <1>1, <1>2 DEF IInv, TypeOK, UnbornOK
  <1>4. TablesOK(fdTable, shellFds, pipes)
      BY <1>1 DEF IInv
  <1>5. ForegroundOK' /\ ShellGone' /\ TargetsOK'
      BY <1>1 DEF ForegroundOK, ShellGone, Alive, TargetsOK
  <1>6. HoldsOutput'
      BY <1>1, <1>3 DEF HoldsOutput
  <1>7. UnitsOK'
      BY <1>1, <1>2, <1>3, NumberTaken
  <1>8. PipesKept'
    <2> SUFFICES ASSUME NEW p \in pipes
                 PROVE  \/ \E i \in 1 .. Len(fdTable') : fdTable'[i] = p[1]
                        \/ \E c \in Cmds : st'[c] = "builtin"
                                              /\ inp'[c] = PipeOn(shellFds, p[1])
        BY <1>1 DEF PipesKept, HasReader
    <2>1. p[1] \in Fds
        BY <1>4 DEF TablesOK
    <2>2. /\ fdTable' \in Seq(Fds \cup {STDIN})
          /\ \A i \in Positive : Entry(fdTable', i) = Entry(fdTable, i + 1)
        BY <1>1, <1>4, TailEntries DEF TablesOK
    <2>3. fdTable[1] = Entry(fdTable, 1)
        BY <1>4, NumberedPipesAssumption DEF TablesOK, Entry
    <2>4. ASSUME \E i \in 1 .. Len(fdTable) : fdTable[i] = p[1], fdTable[1] # p[1]
          PROVE  \E i \in 1 .. Len(fdTable') : fdTable'[i] = p[1]
      <3>1. PICK i \in Positive : Entry(fdTable, i) = p[1]
          BY <1>4, <2>1, <2>4, EntryInTable DEF TablesOK
      <3>2. i - 1 \in Positive /\ (i - 1) + 1 = i
          BY <2>3, <2>4, <3>1 DEF Positive
      <3>3. Entry(fdTable', i - 1) = p[1]
          BY <2>2, <3>1, <3>2
      <3> QED BY <2>1, <2>2, <3>2, <3>3, EntryInTable
    <2>5. CASE fdTable[1] = p[1]
        BY <1>2, <1>3, <2>5
    <2>6. ASSUME NEW c \in Cmds, st[c] = "builtin", inp[c] = PipeOn(shellFds, p[1])
          PROVE  st'[c] = "builtin" /\ inp'[c] = PipeOn(shellFds, p[1])
      <3>1. c # pos
          BY <1>2, <2>6 DEF IInv, UnbornOK
      <3> QED BY <1>3, <2>6, <3>1
    <2> QED BY <1>1, <2>4, <2>5, <2>6 DEF PipesKept, HasReader
  <1> QED BY <1>5, <1>6, <1>7, <1>8

LEMMA WaitDoneFlow == IInv /\ FInv /\ WaitDone => FInv'
  <1> SUFFICES ASSUME IInv, FInv, WaitDone PROVE FInv'
      OBVIOUS
  <1> USE DEF FInv
  <1>1. /\ mode = "wait" /\ mode' = "prompt" /\ fg' = 0 /\ Alive /\ Alive'
        /\ st[fg] # "running" /\ st' = [st EXCEPT ![fg] = "reaped"]
        /\ fdTable' = Refill(fdTable)
        /\ UNCHANGED <<pipes, shellFds, pos, inp, out, target, held, todo, eof, buf, got>>
      BY DEF WaitDone, Alive, childVars
  <1>2. fg \in Cmds /\ st[fg] \notin {"unborn", "builtin"}
      BY <1>1 DEF IInv, WaitsForForeground
  <1>3. /\ \A c \in Cmds : c # fg => st'[c] = st[c]
        /\ st'[fg] = "reaped"
      BY <1>1, <1>2 DEF IInv, TypeOK
  <1>4. HoldsOutput' /\ UnitsOK'
    <2>1. \A c \in Cmds :
              /\ \/ st'[c] = st[c]
                 \/ /\ st[c] \notin {"unborn", "builtin"}
                    /\ st'[c] \notin {"unborn", "builtin", "running"}
              /\ held'[c] = held[c] \/ st'[c] # "running"
        BY <1>1, <1>2, <1>3
    <2> QED BY <1>1, <2>1, CommandsEnd
  <1>5. ForegroundOK' /\ ShellGone' /\ TargetsOK'
      BY <1>1 DEF ForegroundOK, ShellGone, TargetsOK
  <1>6. PipesKept'
    <2> SUFFICES ASSUME NEW p \in pipes
                 PROVE  \/ \E i \in 1 .. Len(fdTable') : fdTable'[i] = p[1]
                        \/ \E c \in Cmds : st'[c] = "builtin"
                                              /\ inp[c] = PipeOn(shellFds, p[1])
        BY <1>1 DEF PipesKept, HasReader
    <2>1. TablesOK(fdTable, shellFds, pipes)
        BY <1>1 DEF IInv
    <2>2. p[1] \in Fds
        BY <2>1 DEF TablesOK
    <2>3. /\ fdTable' \in Seq(Fds \cup {STDIN})
          /\ \A i \in Positive : Entry(fdTable', i) = Entry(fdTable, i)
        BY <1>1, <2>1, RefillEntries DEF TablesOK
    <2>4. (\E i \in 1 .. Len(fdTable) : fdTable[i] = p[1])
             => \E i \in 1 .. Len(fdTable') : fdTable'[i] = p[1]
        BY <2>1, <2>2, <2>3, EntryInTable DEF TablesOK
    <2>5. \A c \in Cmds : st[c] = "builtin" => st'[c] = "builtin"
        BY <1>2, <1>3
    <2> QED BY <1>1, <2>4, <2>5 DEF PipesKept, HasReader
  <1> QED BY <1>4, <1>5, <1>6

LEMMA ExitFlow == FInv /\ Exit => FInv'
  <1> SUFFICES ASSUME FInv, Exit PROVE FInv'
      OBVIOUS
  <1> USE DEF FInv
  <1>1. /\ mode = "prompt" /\ ~ Alive' /\ shellFds' = [f \in Fds |-> Closed]
        /\ UNCHANGED <<fg, st, inp, out, target, held, todo, eof, buf, got>>
      BY DEF Exit, Alive, childVars
  <1>2. ForegroundOK' /\ ShellGone' /\ TargetsOK' /\ PipesKept'
      BY <1>1 DEF ForegroundOK, ShellGone, TargetsOK, PipesKept
  <1>3. HoldsOutput' /\ UnitsOK'
      BY <1>1, CommandsEnd
  <1> QED BY <1>2, <1>3

LEMMA NextFlow == IInv /\ IInv' /\ FInv /\ [Next]_vars => FInv'
  <1> SUFFICES ASSUME IInv, IInv', FInv, [Next]_vars PROVE FInv'
      OBVIOUS
  <1>1. ASSUME NEW off \in Offsets, NEW ends \in BOOLEAN,
               RunToNewPipe(off, ends) \/ RunToOldPipe(off, ends)
        PROVE  FInv'
      BY <1>1, RunFlow
  <1>2. ASSUME RunLast \/ WaitDone \/ BuiltIn \/ Exit \/ ChildHandler
        PROVE  FInv'
      BY <1>2, RunLastFlow, WaitDoneFlow, BuiltInFlow, ExitFlow, ChildHandlerFlow
  <1>3. ASSUME NEW c \in Cmds,
               Write(c) \/ Read(c) \/ ReadEof(c) \/ Finish(c) \/ QuitEarly(c)
        PROVE  FInv'
    <2>1. CASE Write(c) \/ Read(c) \/ ReadEof(c)
        BY <2>1, WriteFlow, ReadFlow, ReadEofFlow
    <2>2. CASE Finish(c) \/ QuitEarly(c)
        BY <2>2, EndFlow DEF Finish, QuitEarly
    <2> QED BY <1>3, <2>1, <2>2
  <1>4. CASE UNCHANGED vars
    <2>1. /\ UNCHANGED <<shellVars, inp, out, target, st, held>>
          /\ UNCHANGED <<todo, eof, buf, got>>
        BY <1>4 DEF vars, shellVars
    <2>2. ForegroundOK' /\ ShellGone' /\ TargetsOK' /\ PipesKept'
        BY <2>1, ShellStill
    <2>3. HoldsOutput' /\ UnitsOK'
        BY <2>1, CommandsEnd
    <2> QED BY <2>2, <2>3 DEF FInv
  <1> QED BY <1>1, <1>2, <1>3, <1>4 DEF Next

\* Both invariants hold in every reachable state.
THEOREM FlowInvariance == Spec => [](IInv /\ FInv)
  <1>1. Init => FInv
      BY InitFlow
  <1>2. IInv /\ IInv' /\ FInv /\ [Next]_vars => FInv'
      BY NextFlow
  <1> QED BY <1>1, <1>2, Invariance, PTL DEF Spec

-----------------------------------------------------------------------------
(* What follows from them. *)

\* Every pipe the shell keeps open is on its list, and is waiting for a command
\* to come, unless the command that was to read it turned out to be a built-in.
THEOREM AccountedCorrect == Spec => []PipesAccounted
  <1>1. IInv /\ FInv => PipesAccounted
      BY DEF IInv, FInv, TablesOK, Listed, PipesKept, HasReader, Alive, PipesAccounted
  <1> QED BY <1>1, FlowInvariance, PTL

\* A command that has seen the end of its input has every unit written by the
\* commands piped to it, and none of them runs any more.
THEOREM CompleteCorrect == Spec => []InputComplete
  <1>1. IInv /\ FInv => InputComplete
    <2> SUFFICES ASSUME IInv, FInv, NEW c \in Cmds, eof[c], NEW d \in Cmds, target[d] = c
                 PROVE  st[d] # "running" /\ got[c][d] = Work - todo[d]
        BY DEF InputComplete
    <2>1. st[c] \notin {"unborn", "builtin"} /\ inp[c] # NoPipe
        BY DEF FInv, UnitsOK, EofOK
    <2>2. c \in Nat /\ c # NoTarget /\ pos \in Nat
        BY NumberedPipesAssumption DEF IInv, TypeOK, Cmds, NoTarget
    <2>3. c < pos
        BY <2>1, <2>2 DEF IInv, UnbornOK
    <2>4. out[d] # NoPipe
        BY <2>2 DEF FInv, TargetsOK
    <2>5. out[d] = inp[c]
        BY <2>3, <2>4 DEF IInv, RoutedPast
    <2> QED BY <2>5 DEF FInv, UnitsOK, EofOK
  <1> QED BY <1>1, FlowInvariance, PTL

-----------------------------------------------------------------------------
(* The connections of CommandFlow. *)

\* The commands that have started and write a pipe are those that write one.
WritersOK == Writers = {c \in Cmds : out[c] # NoPipe}

\* The connections are those the user named, as far as they can still be read.
Named == {<<c, target[c]>> : c \in Writers}
ConnectionsOK == Connections = {e \in Named : Alive \/ e[2] < pos}

RInv == IInv /\ FInv /\ WritersOK /\ ConnectionsOK

LEMMA WritersAre == IInv => WritersOK
  <1> SUFFICES ASSUME IInv, NEW c \in Cmds, out[c] # NoPipe PROVE Started(c)
      BY DEF Writers, WritersOK
  <1> QED BY DEF IInv, UnbornOK, TypeOK, Started

\* The pipe on a command's input is the one its writers hold just when it is
\* the command they named.
LEMMA WhoReads ==
    ASSUME IInv, FInv, NEW c \in Cmds, out[c] # NoPipe,
           NEW k \in 1 .. (MaxCmds + PipeNumMax)
    PROVE  InPipe(k) = out[c] <=> k = target[c] /\ (Alive \/ k < pos)
  <1>1. pos \in Nat /\ pos >= 1 /\ pos <= MaxCmds + 1 /\ MaxCmds \in Nat
        /\ PipeNumMax \in Nat /\ k \in Nat /\ k >= 1
      BY NumberedPipesAssumption DEF IInv, TypeOK
  <1>2. CASE k < pos
    <2>1. k \in Cmds
        BY <1>1, <1>2 DEF Cmds
    <2> QED BY <1>2, <2>1 DEF InPipe, IInv, RoutedPast
  <1>3. CASE ~ (k < pos) /\ Alive
    <2>1. k - pos + 1 \in Positive /\ pos + (k - pos + 1) - 1 = k
        BY <1>1, <1>3 DEF Positive
    <2>2. PipeOn(shellFds, Entry(fdTable, k - pos + 1)) = out[c]
             <=> target[c] = pos + (k - pos + 1) - 1
        BY <2>1, <1>3 DEF IInv, RoutedToCome
    <2> QED BY <1>3, <2>1, <2>2 DEF InPipe
  <1>4. CASE ~ (k < pos) /\ ~ Alive
    <2>1. k - pos + 1 \in Positive
        BY <1>1, <1>4 DEF Positive
    <2>2. Entry(fdTable, k - pos + 1) \in Fds \cup {STDIN}
        BY <2>1, EntryType DEF IInv, TypeOK
    <2>3. PipeOn(shellFds, Entry(fdTable, k - pos + 1)) = NoPipe
        BY <2>2, <1>4 DEF PipeOn, FInv, ShellGone, Closed
    <2> QED BY <1>4, <2>3 DEF InPipe
  <1> QED BY <1>2, <1>3, <1>4

LEMMA ConnectionsAre == IInv /\ FInv => ConnectionsOK
  <1> SUFFICES ASSUME IInv, FInv PROVE ConnectionsOK
      OBVIOUS
  <1>1. \A c \in Writers : /\ c \in Cmds /\ out[c] # NoPipe
                           /\ target[c] \in 1 .. (MaxCmds + PipeNumMax)
      BY WritersAre DEF WritersOK, FInv, TargetsOK
  <1>2. ASSUME NEW e \in Connections PROVE e \in Named /\ (Alive \/ e[2] < pos)
    <2>1. /\ e[1] \in Writers /\ e[2] \in 1 .. (MaxCmds + PipeNumMax)
          /\ e = <<e[1], e[2]>> /\ InPipe(e[2]) = out[e[1]]
        BY DEF Connections
    <2>2. e[2] = target[e[1]] /\ (Alive \/ e[2] < pos)
        BY <2>1, <1>1, WhoReads
    <2> QED BY <2>1, <2>2 DEF Named
  <1>3. ASSUME NEW e \in Named, Alive \/ e[2] < pos PROVE e \in Connections
    <2>1. PICK c \in Writers : e = <<c, target[c]>>
        BY DEF Named
    <2>2. InPipe(target[c]) = out[c]
        BY <2>1, <1>1, <1>3, WhoReads
    <2> QED BY <2>1, <2>2, <1>1 DEF Connections
  <1> QED BY <1>2, <1>3 DEF ConnectionsOK

THEOREM ConnectionsCorrect == Spec => []RInv
  <1> QED BY WritersAre, ConnectionsAre, FlowInvariance, PTL DEF RInv

\* They stay the same while the shell does nothing.
LEMMA SameConnections ==
    ASSUME RInv, RInv', UNCHANGED <<pos, out, target>>, Alive' <=> Alive
    PROVE  Connections' = Connections
  <1>1. Writers' = Writers
      BY DEF RInv, WritersOK
  <1>2. Named' = Named
      BY <1>1 DEF Named
  <1> QED BY <1>2 DEF RInv, ConnectionsOK

-----------------------------------------------------------------------------
(* Every step is one of CommandFlow, or leaves it alone. *)

LEMMA InitRefines == Init => Flow!Init
  <1> SUFFICES ASSUME Init PROVE Flow!Init
      OBVIOUS
  <1>1. \A c \in Cmds : st[c] = "unborn" /\ out[c] = NoPipe /\ ~ eof[c]
      BY DEF Init
  <1>2. Connections = {}
      BY <1>1 DEF Connections, Writers
  <1>3. Life = [c \in Cmds |-> "unborn"] /\ Written = [c \in Cmds |-> 0]
      BY <1>1 DEF Life, Written, Started
  <1>4. {c \in Cmds : eof[c]} = {}
      BY <1>1
  <1> QED BY <1>2, <1>3, <1>4 DEF Init, Flow!Init, Flow!Cmds, Cmds

\* A step in which command pos takes its number.
Numbers(how) ==
    /\ Alive /\ Alive' /\ fg = 0 /\ pos \in Cmds /\ pos' = pos + 1
    /\ UNCHANGED <<eof, got>>
    /\ \A c \in Cmds : c # pos => /\ st'[c] = st[c] /\ todo'[c] = todo[c]
                                  /\ out'[c] = out[c] /\ target'[c] = target[c]
    /\ st'[pos] = how /\ how \in {"running", "builtin"}
    /\ how = "running" => todo'[pos] = Work

LEMMA NumbersRefines ==
    ASSUME RInv, NEW how, Numbers(how)
    PROVE  Flow!Take(how)
  <1> USE DEF Numbers
  <1>1. pos \in Nat /\ Work \in Nat
      BY NumberedPipesAssumption DEF Cmds
  <1>2. st[pos] = "unborn"
      BY <1>1 DEF RInv, IInv, UnbornOK
  <1>3. Life' = [Life EXCEPT ![pos] = how]
    <2>1. \A c \in Cmds : Life'[c] = IF c = pos THEN how ELSE Life[c]
        BY DEF Life
    <2> QED BY <2>1 DEF Life
  <1>4. Written' = Written
    <2>1. \A c \in Cmds : Written'[c] = Written[c]
        BY <1>1, <1>2 DEF Written, Started
    <2> QED BY <2>1 DEF Written
  <1>5. (mode = "exited") = FALSE /\ (mode' = "exited") = FALSE
      BY DEF Alive
  <1>6. {c \in Cmds : eof'[c]} = {c \in Cmds : eof[c]} /\ got' = got
      OBVIOUS
  <1>7. pos \in Flow!Cmds
      BY DEF Flow!Cmds, Cmds
  <1> QED BY <1>3, <1>4, <1>5, <1>6, <1>7 DEF Flow!Take

\* The connections when command pos has taken its number.
LEMMA NumbersConnects ==
    ASSUME RInv, RInv', NEW how, Numbers(how)
    PROVE  /\ out'[pos] = NoPipe => Connections' = Connections
           /\ out'[pos] # NoPipe => Connections' = Connections \cup {<<pos, target'[pos]>>}
  <1> USE DEF Numbers
  <1>1. pos \in Nat
      BY NumberedPipesAssumption DEF Cmds
  <1>2. out[pos] = NoPipe
      BY <1>1 DEF RInv, IInv, UnbornOK
  <1>3. /\ Writers = {c \in Cmds : out[c] # NoPipe}
        /\ Writers' = {c \in Cmds : out'[c] # NoPipe}
        /\ Connections = Named /\ Connections' = Named'
      BY DEF RInv, WritersOK, ConnectionsOK
  <1>4. \A c \in Writers : c # pos /\ c \in Writers' /\ target'[c] = target[c]
      BY <1>2, <1>3
  <1>5. \A c \in Writers' : c = pos \/ c \in Writers
      BY <1>3
  <1>6. CASE out'[pos] = NoPipe
    <2>1. Writers' = Writers
        BY <1>3, <1>4, <1>5, <1>6
    <2>2. Named' = Named
        BY <2>1, <1>4 DEF Named
    <2> QED BY <1>3, <1>6, <2>2
  <1>7. CASE out'[pos] # NoPipe
    <2>1. pos \in Writers'
        BY <1>3, <1>7
    <2>2. ASSUME NEW e \in Named' PROVE e \in Named \cup {<<pos, target'[pos]>>}
      <3>1. PICK c \in Writers' : e = <<c, target'[c]>>
          BY DEF Named
      <3> QED BY <3>1, <1>4, <1>5 DEF Named
    <2>3. ASSUME NEW e \in Named \cup {<<pos, target'[pos]>>} PROVE e \in Named'
      <3>1. CASE e \in Named
        <4>1. PICK c \in Writers : e = <<c, target[c]>>
            BY <3>1 DEF Named
        <4> QED BY <4>1, <1>4 DEF Named
      <3>2. CASE e = <<pos, target'[pos]>>
          BY <3>2, <2>1 DEF Named
      <3> QED BY <3>1, <3>2
    <2>4. Named' = Named \cup {<<pos, target'[pos]>>}
        BY <2>2, <2>3
    <2> QED BY <1>3, <1>7, <2>4
  <1> QED BY <1>6, <1>7

LEMMA ForksNumbers ==
    ASSUME RInv, NEW tab, NEW sfd, NEW list, NEW o, NEW to, NEW ends,
           Forks(tab, sfd, list, o, to, ends), fg = 0
    PROVE  Numbers("running") /\ out'[pos] = PipeOn(sfd, o) /\ target'[pos] = to
  BY DEF Forks, Spawn, Numbers, Alive, RInv, IInv, TypeOK

\* A command whose output goes down a pipe, new or shared: a connection.
LEMMA RunRefines ==
    ASSUME RInv, RInv', NEW off \in Offsets, NEW ends \in BOOLEAN,
           RunToNewPipe(off, ends) \/ RunToOldPipe(off, ends)
    PROVE  Flow!Connect(off)
  <1>1. PICK tab, sfd, list, o : /\ Forks(tab, sfd, list, o, pos + off, ends)
                                 /\ PipeOn(sfd, o) # NoPipe
      BY NewPipeForks, OldPipeForks DEF RInv
  <1>2. fg = 0 /\ fg' = fg
      BY DEF RunToNewPipe, RunToOldPipe, RInv, FInv, ForegroundOK
  <1>3. Numbers("running") /\ out'[pos] # NoPipe /\ target'[pos] = pos + off
      BY <1>1, <1>2, ForksNumbers
  <1>4. Flow!Take("running") /\ Connections' = Connections \cup {<<pos, pos + off>>}
      BY <1>3, NumbersRefines, NumbersConnects
  <1> QED BY <1>2, <1>4 DEF Flow!Connect

LEMMA RunLastRefines == RInv /\ RInv' /\ RunLast => Flow!Foreground
  <1> SUFFICES ASSUME RInv, RInv', RunLast PROVE Flow!Foreground
      OBVIOUS
  <1>1. /\ Forks(fdTable, shellFds, pipes, STDOUT, target[pos], FALSE)
        /\ PipeOn(shellFds, STDOUT) = NoPipe
      BY LastForks DEF RInv
  <1>2. fg = 0 /\ fg' = pos
      BY DEF RunLast, RInv, FInv, ForegroundOK
  <1>3. Numbers("running") /\ out'[pos] = NoPipe
      BY <1>1, <1>2, ForksNumbers
  <1>4. Flow!Take("running") /\ Connections' = Connections
      BY <1>3, NumbersRefines, NumbersConnects
  <1> QED BY <1>2, <1>4 DEF Flow!Foreground

LEMMA BuiltInRefines == RInv /\ RInv' /\ BuiltIn => Flow!BuiltIn
  <1> SUFFICES ASSUME RInv, RInv', BuiltIn PROVE Flow!BuiltIn
      OBVIOUS
  <1>1. /\ mode = "prompt" /\ pos <= MaxCmds /\ pos' = pos + 1
        /\ st' = [st EXCEPT ![pos] = "builtin"]
        /\ UNCHANGED <<mode, fg, out, target, todo, eof, got>>
      BY DEF BuiltIn, childVars
  <1>2. pos \in Cmds /\ pos \in Nat
      BY <1>1, NumberedPipesAssumption DEF RInv, IInv, TypeOK, Cmds
  <1>3. fg = 0 /\ Alive /\ Alive'
      BY <1>1 DEF RInv, FInv, ForegroundOK, Alive
  <1>4. st'[pos] = "builtin" /\ \A c \in Cmds : c # pos => st'[c] = st[c]
      BY <1>1, <1>2 DEF RInv, IInv, TypeOK
  <1>5. Numbers("builtin") /\ out'[pos] = NoPipe
      BY <1>1, <1>2, <1>3, <1>4 DEF Numbers, RInv, IInv, UnbornOK
  <1>6. Flow!Take("builtin") /\ Connections' = Connections
      BY <1>5, NumbersRefines, NumbersConnects
  <1> QED BY <1>1, <1>6 DEF Flow!BuiltIn

\* What of the mapped state a step of a command leaves alone.
LEMMA StillSame ==
    ASSUME RInv, RInv', UNCHANGED <<shellVars, inp, out, target>>
    PROVE  /\ Connections' = Connections /\ pos' = pos /\ fg' = fg
           /\ (mode' = "exited") = (mode = "exited")
  BY SameConnections DEF shellVars, Alive

LEMMA WaitDoneRefines == RInv /\ RInv' /\ WaitDone => Flow!Return
  <1> SUFFICES ASSUME RInv, RInv', WaitDone PROVE Flow!Return
      OBVIOUS
  <1>1. /\ mode = "wait" /\ mode' = "prompt" /\ fg' = 0
        /\ st[fg] # "running" /\ st' = [st EXCEPT ![fg] = "reaped"]
        /\ UNCHANGED <<pos, out, target, todo, eof, got>>
      BY DEF WaitDone, childVars
  <1>2. fg \in Cmds /\ st[fg] \in {"zombie", "reaped"}
      BY <1>1 DEF RInv, IInv, WaitsForForeground, TypeOK
  <1>3. fg # 0
      BY <1>2, NumberedPipesAssumption DEF Cmds
  <1>4. st'[fg] = "reaped" /\ \A c \in Cmds : c # fg => st'[c] = st[c]
      BY <1>1, <1>2 DEF RInv, IInv, TypeOK
  <1>5. Life[fg] = "ended"
      BY <1>2 DEF Life
  <1>6. Life' = Life
    <2>1. \A c \in Cmds : Life'[c] = Life[c]
        BY <1>2, <1>4 DEF Life
    <2> QED BY <2>1 DEF Life
  <1>7. Written' = Written
    <2>1. \A c \in Cmds : Written'[c] = Written[c]
        BY <1>1, <1>2, <1>4 DEF Written, Started
    <2> QED BY <2>1 DEF Written
  <1>8. Connections' = Connections /\ (mode' = "exited") = (mode = "exited")
      BY <1>1, SameConnections DEF Alive
  <1>9. {c \in Cmds : eof'[c]} = {c \in Cmds : eof[c]} /\ got' = got
      BY <1>1
  <1> QED BY <1>1, <1>3, <1>5, <1>6, <1>7, <1>8, <1>9 DEF Flow!Return

\* The shell goes, and with it what no command has come to read.
LEMMA ExitRefines == RInv /\ RInv' /\ Exit => Flow!Leave
  <1> SUFFICES ASSUME RInv, RInv', Exit PROVE Flow!Leave
      OBVIOUS
  <1>1. /\ mode = "prompt" /\ mode' = "exited"
        /\ UNCHANGED <<pos, fg, st, out, target, todo, eof, got>>
      BY DEF Exit, childVars
  <1>2. fg = 0
      BY <1>1 DEF RInv, FInv, ForegroundOK
  <1>3. Life' = Life /\ Written' = Written
      BY <1>1 DEF Life, Written, Started
  <1>4. Connections' = {e \in Connections : e[2] < pos}
    <2>1. Writers' = Writers
        BY <1>1 DEF Writers, Started
    <2>2. Named' = Named
        BY <1>1, <2>1 DEF Named
    <2>3. Connections = Named
        BY <1>1 DEF RInv, ConnectionsOK, Alive
    <2>4. Connections' = {e \in Named' : e[2] < pos'}
        BY <1>1 DEF RInv, ConnectionsOK, Alive
    <2> QED BY <1>1, <2>2, <2>3, <2>4
  <1>5. {c \in Cmds : eof'[c]} = {c \in Cmds : eof[c]} /\ got' = got
      BY <1>1
  <1>6. ~ (mode = "exited") /\ (mode' = "exited") = TRUE
      BY <1>1
  <1> QED BY <1>1, <1>2, <1>3, <1>4, <1>5, <1>6 DEF Flow!Leave

\* Reaping a command is no step of CommandFlow.
LEMMA ChildHandlerRefines == RInv /\ RInv' /\ ChildHandler => UNCHANGED Flow!flowVars
  <1> SUFFICES ASSUME RInv, RInv', ChildHandler PROVE UNCHANGED Flow!flowVars
      OBVIOUS
  <1>1. /\ \A c \in Cmds : st'[c] = IF st[c] = "zombie" THEN "reaped" ELSE st[c]
        /\ UNCHANGED <<shellVars, inp, out, target, held, todo, eof, buf, got>>
      BY DEF ChildHandler, childVars
  <1>2. Life' = Life /\ Written' = Written
      BY <1>1 DEF Life, Written, Started
  <1>3. {c \in Cmds : eof'[c]} = {c \in Cmds : eof[c]} /\ got' = got
      BY <1>1
  <1> QED BY <1>1, <1>2, <1>3, StillSame DEF Flow!flowVars

LEMMA EndRefines ==
    ASSUME RInv, RInv', NEW c \in Cmds, st[c] = "running", Die(c),
           UNCHANGED <<shellVars, inp, out, todo, eof, buf, got, target>>
    PROVE  Flow!End(c)
  <1>1. st'[c] = "zombie" /\ \A d \in Cmds : d # c => st'[d] = st[d]
      BY DEF Die, RInv, IInv, TypeOK
  <1>2. Life[c] = "running" /\ Life' = [Life EXCEPT ![c] = "ended"]
    <2>1. \A d \in Cmds : Life'[d] = IF d = c THEN "ended" ELSE Life[d]
        BY <1>1 DEF Life
    <2> QED BY <2>1 DEF Life
  <1>3. Written' = Written
    <2>1. \A d \in Cmds : Written'[d] = Written[d]
        BY <1>1 DEF Written, Started
    <2> QED BY <2>1 DEF Written
  <1>4. {d \in Cmds : eof'[d]} = {d \in Cmds : eof[d]} /\ got' = got
      OBVIOUS
  <1> QED BY <1>2, <1>3, <1>4, StillSame DEF Flow!End

\* Writing a unit, or dying because nobody can read it.
LEMMA WriteRefines ==
    ASSUME RInv, RInv', NEW c \in Cmds, Write(c)
    PROVE  Flow!Produce(c) \/ Flow!End(c)
  <1>1. /\ st[c] = "running" /\ todo[c] > 0
        /\ UNCHANGED <<shellVars, inp, out, eof, got, target>>
      BY DEF Write
  <1>2. CASE Die(c) /\ UNCHANGED <<todo, buf>>
      BY <1>1, <1>2, EndRefines
  <1>3. CASE todo' = [todo EXCEPT ![c] = @ - 1] /\ UNCHANGED <<st, held>>
    <2>1. todo'[c] = todo[c] - 1 /\ \A d \in Cmds : d # c => todo'[d] = todo[d]
        BY <1>3 DEF RInv, IInv, TypeOK
    <2>2. PICK y \in Nat, z \in Nat : y = todo[c] /\ z = Work /\ y <= z
        BY UnitTypes DEF RInv
    <2>3. Written[c] = z - y /\ Written'[c] = z - (y - 1)
        BY <1>1, <1>3, <2>1, <2>2 DEF Written, Started
    <2>4. z - y < z /\ z - (y - 1) = (z - y) + 1
        BY <1>1, <2>2
    <2>5. Written[c] < Work
        BY <2>2, <2>3, <2>4
    <2>6. Written' = [Written EXCEPT ![c] = Written[c] + 1]
      <3>1. \A d \in Cmds : d # c => Written'[d] = Written[d]
          BY <1>3, <2>1 DEF Written, Started
      <3>2. Written'[c] = Written[c] + 1
          BY <2>3, <2>4
      <3> QED BY <3>1, <3>2 DEF Written
    <2>7. Life[c] = "running" /\ Life' = Life
        BY <1>1, <1>3 DEF Life
    <2>8. {d \in Cmds : eof'[d]} = {d \in Cmds : eof[d]} /\ got' = got
        BY <1>1
    <2> QED BY <1>1, <2>5, <2>6, <2>7, <2>8, StillSame DEF Flow!Produce
  <1> QED BY <1>2, <1>3 DEF Write

\* A unit read was written by a command connected to the reader.
LEMMA ReadRefines ==
    ASSUME RInv, RInv', NEW c \in Cmds, Read(c)
    PROVE  \E d \in Flow!Cmds : Flow!Consume(c, d)
  <1> DEFINE h == Head(buf[inp[c]])
  <1>1. /\ st[c] = "running" /\ inp[c] # NoPipe /\ ~ eof[c] /\ buf[inp[c]] # << >>
        /\ got' = [got EXCEPT ![c][h] = got[c][h] + 1]
        /\ UNCHANGED <<shellVars, st, inp, out, held, todo, eof, target>>
      BY DEF Read
  <1>2. inp[c] \in Cmds /\ buf[inp[c]] \in Seq(Cmds) /\ h \in Cmds
      BY <1>1, UnitTypes DEF RInv
  <1>3. /\ 1 \in 1 .. Len(buf[inp[c]]) /\ buf[inp[c]][1] = h
      BY <1>1, <1>2
  <1>4. out[h] = inp[c]
      BY <1>2, <1>3 DEF RInv, FInv, UnitsOK, Contents
  <1> HIDE DEF h
  <1>5. c < pos
    <2>1. c \in Nat /\ pos \in Nat /\ ~ (c >= pos)
        BY <1>1, NumberedPipesAssumption DEF RInv, IInv, TypeOK, UnbornOK, Cmds
    <2> QED BY <2>1
  <1>6. target[h] = c
      BY <1>1, <1>2, <1>4, <1>5 DEF RInv, IInv, RoutedPast
  <1>7. <<h, c>> \in Connections
    <2>1. h \in Writers
        BY <1>1, <1>2, <1>4 DEF RInv, WritersOK
    <2>2. <<h, c>> \in Named
        BY <2>1, <1>6 DEF Named
    <2> QED BY <2>2, <1>5 DEF RInv, ConnectionsOK
  <1>8. got[c][h] < Written[h]
    <2>1. PICK x \in Nat : x = InTransit(buf[out[h]], h)
        BY <1>2, <1>4, CountType
    <2>2. x # 0
        BY <1>2, <1>3, <1>4, <2>1, CountType
    <2>3. PICK g \in Nat : g = got[c][h]
        BY <1>2, UnitTypes DEF RInv
    <2>4. g + x = Work - todo[h]
        BY <1>1, <1>2, <1>4, <2>1, <2>3 DEF RInv, FInv, UnitsOK, NothingLost
    <2>5. Written[h] = Work - todo[h]
        BY <1>1, <1>2, <1>4 DEF Written, RInv, WritersOK, Writers
    <2>6. g < g + x
        BY <2>2
    <2> QED BY <2>3, <2>4, <2>5, <2>6
  <1>9. Life[c] = "running" /\ Life' = Life /\ Written' = Written
      BY <1>1 DEF Life, Written, Started
  <1>10. {d \in Cmds : eof'[d]} = {d \in Cmds : eof[d]} /\ c \notin {d \in Cmds : eof[d]}
      BY <1>1
  <1>11. h \in Flow!Cmds
      BY <1>2 DEF Flow!Cmds, Cmds
  <1>12. Flow!Consume(c, h)
      BY <1>1, <1>7, <1>8, <1>9, <1>10, StillSame DEF Flow!Consume
  <1> QED BY <1>11, <1>12

\* End-of-file comes when the commands connected have ended and all is read.
LEMMA ReadEofRefines ==
    ASSUME RInv, RInv', NEW c \in Cmds, ReadEof(c)
    PROVE  Flow!Complete(c)
  <1>1. /\ st[c] = "running" /\ inp[c] # NoPipe /\ ~ eof[c]
        /\ eof' = [eof EXCEPT ![c] = TRUE]
        /\ UNCHANGED <<shellVars, st, inp, out, held, todo, buf, got, target>>
      BY DEF ReadEof
  <1>2. eof'[c] /\ \A d \in Cmds : d # c => eof'[d] = eof[d]
      BY <1>1 DEF RInv, IInv, TypeOK
  <1>3. {d \in Cmds : eof'[d]} = {d \in Cmds : eof[d]} \cup {c}
      BY <1>2
  <1>4. c < pos
    <2>1. c \in Nat /\ pos \in Nat /\ ~ (c >= pos)
        BY <1>1, NumberedPipesAssumption DEF RInv, IInv, TypeOK, UnbornOK, Cmds
    <2> QED BY <2>1
  <1>5. ASSUME NEW d \in Cmds, <<d, c>> \in Connections
        PROVE  Life[d] = "ended" /\ got[c][d] = Written[d]
    <2>1. d \in Writers /\ out[d] = inp[c]
        BY <1>4, <1>5 DEF Connections, InPipe
    <2>2. st[d] # "running" /\ got[c][d] = Work - todo[d]
        BY <1>1, <1>2, <2>1 DEF RInv, FInv, UnitsOK, EofOK
    <2> QED BY <2>1, <2>2 DEF Life, Written, Writers, Started
  <1>6. Life[c] = "running" /\ Life' = Life /\ Written' = Written
      BY <1>1 DEF Life, Written, Started
  <1>7. c \notin {d \in Cmds : eof[d]} /\ got' = got
      BY <1>1
  <1>8. \A d \in Flow!Cmds : d \in Cmds
      BY DEF Flow!Cmds, Cmds
  <1>9. /\ Connections' = Connections /\ pos' = pos /\ fg' = fg
        /\ (mode' = "exited") = (mode = "exited")
      BY <1>1, StillSame
  <1>10. \A d \in Flow!Cmds : <<d, c>> \in Connections =>
            Life[d] = "ended" /\ got[c][d] = Written[d]
      BY <1>5, <1>8
  <1> QED BY <1>3, <1>6, <1>7, <1>9, <1>10 DEF Flow!Complete

LEMMA NextRefines == RInv /\ RInv' /\ [Next]_vars => [Flow!FlowNext]_(Flow!flowVars)
  <1> SUFFICES ASSUME RInv, RInv', [Next]_vars PROVE [Flow!FlowNext]_(Flow!flowVars)
      OBVIOUS
  <1>1. ASSUME NEW off \in Offsets, NEW ends \in BOOLEAN,
               RunToNewPipe(off, ends) \/ RunToOldPipe(off, ends)
        PROVE  Flow!FlowNext
    <2>1. Flow!Connect(off)
        BY <1>1, RunRefines
    <2> QED BY <2>1 DEF Flow!FlowNext
  <1>2. ASSUME RunLast \/ WaitDone \/ BuiltIn \/ Exit PROVE Flow!FlowNext
      BY <1>2, RunLastRefines, WaitDoneRefines, BuiltInRefines, ExitRefines
      DEF Flow!FlowNext
  <1>3. CASE ChildHandler
      BY <1>3, ChildHandlerRefines
  <1>4. ASSUME NEW c \in Cmds,
               Write(c) \/ Read(c) \/ ReadEof(c) \/ Finish(c) \/ QuitEarly(c)
        PROVE  Flow!FlowNext
    <2>1. c \in Flow!Cmds
        BY DEF Flow!Cmds, Cmds
    <2>2. CASE Write(c)
        BY <2>1, <2>2, WriteRefines DEF Flow!FlowNext
    <2>3. CASE Read(c)
      <3>1. PICK d \in Flow!Cmds : Flow!Consume(c, d)
          BY <2>3, ReadRefines
      <3> QED BY <2>1, <3>1 DEF Flow!FlowNext
    <2>4. CASE ReadEof(c)
      <3>1. Flow!Complete(c)
          BY <2>4, ReadEofRefines
      <3> QED BY <2>1, <3>1 DEF Flow!FlowNext
    <2>5. CASE Finish(c) \/ QuitEarly(c)
      <3>1. Flow!End(c)
          BY <2>5, EndRefines DEF Finish, QuitEarly
      <3> QED BY <2>1, <3>1 DEF Flow!FlowNext
    <2> QED BY <1>4, <2>2, <2>3, <2>4, <2>5
  <1>5. CASE UNCHANGED vars
    <2>1. /\ UNCHANGED <<shellVars, inp, out, target, st, held>>
          /\ UNCHANGED <<todo, eof, buf, got>>
        BY <1>5 DEF vars, shellVars
    <2>2. Life' = Life /\ Written' = Written
        BY <2>1 DEF Life, Written, Started
    <2>3. {c \in Cmds : eof'[c]} = {c \in Cmds : eof[c]} /\ got' = got
        BY <2>1
    <2> QED BY <2>1, <2>2, <2>3, StillSame DEF Flow!flowVars
  <1> QED BY <1>1, <1>2, <1>3, <1>4, <1>5 DEF Next

\* The tables, descriptors and pipes behave as the numbered connections the user
\* asked for: NumberedPipes implements CommandFlow.
THEOREM FlowImplemented == Spec => ImplementsFlow
  <1>1. Spec => Flow!Init /\ [][Flow!FlowNext]_(Flow!flowVars)
      BY InitRefines, NextRefines, ConnectionsCorrect, PTL DEF Spec
  <1> QED BY <1>1 DEF ImplementsFlow, Flow!FlowSpec
=============================================================================
