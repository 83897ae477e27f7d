------------------------ MODULE ConsoleSessionProofs ------------------------
(***************************************************************************)
(* Proofs about ConsoleSession, for any number of sessions, any scripts    *)
(* and any sizes of sockets: its types; a session and its shell take       *)
(* turns; the lines of a script come to the shell in order; the page shows *)
(* all of both.                                                            *)
(*                                                                         *)
(* Whose turn it is is counted (Turns): lines on the way to the shell and  *)
(* prompts on the way from it.  What the session takes off a queue, and    *)
(* what the shell adds to one, is counted by the lemmas about PromptsIn.   *)
(*                                                                         *)
(* What is on the page and what is owed to it together hold what each      *)
(* shell wrote and was sent (PageInv): a write that is done later only     *)
(* moves from one to the other.  It rests on lemmas about FlattenSeq.      *)
(***************************************************************************)
EXTENDS ConsoleSession, SequenceTheorems, FiniteSetTheorems, FunctionTheorems,
        WellFoundedInduction, TLAPS

Turns(s) == Len(toShell[s]) + Len(late[s]) + Cardinality(PromptsIn(fromShell[s]))

\* One of the two has the turn, unless a prompt was cut or a command's output or
\* another user's message looked like one.  A line waits only when there was one too many.
TurnOK(s) ==
    /\ Turns(s) <= 1 \/ noisy[s]
    /\ shell[s] = "up" /\ ~ cut[s] => Turns(s) >= 1
    /\ late[s] # <<>> => noisy[s]

\* Before the shell has started nothing asks for a line; the first thing a SOCKS
\* session reads is the reply.
StartOK(s) ==
    /\ shell[s] \in {"proxy", "starting"} =>
          toShell[s] = <<>> /\ late[s] = <<>> /\ PromptsIn(fromShell[s]) = {}
    /\ shell[s] = "proxy" => fromShell[s] = <<>>
    /\ stage[s] \in {"none", "resolve", "connect"} =>
          /\ fromShell[s] = <<>> /\ ~ cut[s] /\ ~ reply[s]
          /\ shell[s] = IF prog = "socks" THEN "proxy" ELSE "starting"
    /\ reply[s] =>
          /\ ~ cut[s]
          /\ \/ fromShell[s] = <<>> /\ shell[s] \in {"proxy", "gone"}
             \/ Len(fromShell[s]) >= 2 /\ fromShell[s][1] = "r" /\ fromShell[s][2] = "r"

\* What was written to the shell's socket, and what waits, is the script so far.
LinesOK(s) ==
    /\ Len(heard[s]) + Len(late[s]) = line[s]
    /\ \A i \in 1 .. Len(heard[s]) :
          heard[s][i] = Line(s, i) \/ (heard[s][i] = Junk /\ noisy[s])
    /\ \A i \in 1 .. Len(late[s]) : late[s][i] = Line(s, Len(heard[s]) + i)

IInv == TypeOK /\ \A s \in Sessions : StartOK(s) /\ TurnOK(s) /\ LinesOK(s)

-----------------------------------------------------------------------------
(* Writes to the page. *)

\* Two writes at most are flattened to one sequence of units.
LEMMA FlattenTwo ==
  ASSUME NEW T, NEW w \in Seq(T), Len(w) <= 2
  PROVE  /\ Len(w) = 0 => FlattenSeq(w) = <<>>
         /\ Len(w) = 1 => FlattenSeq(w) = w[1]
         /\ Len(w) = 2 => FlattenSeq(w) = w[1] \o w[2]
  <1>1. PICK n : n = Len(w)
      OBVIOUS
  <1> DEFINE Is(f) == f = [i \in 1 .. n |-> IF i = 1 THEN w[i] ELSE f[i - 1] \o w[i]]
             f0 == [i \in 1 .. n |-> IF i = 1 THEN w[1] ELSE w[1] \o w[2]]
             g == CHOOSE f : Is(f)
  <1>2. n \in Nat /\ n <= 2 /\ (n = 0 => w = <<>>)
      BY <1>1, LenProperties, EmptySeq
  <1>3. /\ n = 0 \/ n = 1 \/ n = 2
        /\ \A i \in 1 .. n : i = 1 \/ (i = 2 /\ i - 1 = 1)
        /\ n # 0 => 1 \in 1 .. n
        /\ n = 2 => 2 \in 1 .. n /\ 2 - 1 = 1 /\ 2 # 1
      BY <1>2
  <1>4. FlattenSeq(w) = IF n = 0 THEN w ELSE g[n]
      BY <1>1 DEF FlattenSeq
  <1>5. n # 0 => Is(f0)
    <2> SUFFICES ASSUME n # 0 PROVE Is(f0)
        OBVIOUS
    <2>1. 1 \in 1 .. n /\ f0[1] = w[1]
        BY <1>3
    <2> QED
        BY <1>3, <2>1
  <1>6. n # 0 => Is(g)
      BY <1>5
  <1> HIDE DEF g, f0
  <1>7. ASSUME n # 0 PROVE g[1] = w[1] /\ (n = 2 => g[2] = w[1] \o w[2])
    <2>1. g = [i \in 1 .. n |-> IF i = 1 THEN w[i] ELSE g[i - 1] \o w[i]]
        BY <1>6, <1>7
    <2>2. \A i \in 1 .. n : g[i] = IF i = 1 THEN w[i] ELSE g[i - 1] \o w[i]
        BY <2>1
    <2>3. g[1] = w[1]
        BY <1>3, <1>7, <2>2
    <2>4. ASSUME n = 2 PROVE g[2] = w[1] \o w[2]
      <3>1. g[2] = g[2 - 1] \o w[2]
          BY <1>3, <2>2, <2>4
      <3> QED
          BY <1>3, <2>3, <2>4, <3>1
    <2> QED
        BY <2>3, <2>4
  <1>8. CASE n = 0
      BY <1>1, <1>2, <1>4, <1>8
  <1>9. CASE n = 1
      BY <1>1, <1>4, <1>7, <1>9
  <1>10. CASE n = 2
    <2>1. n # 0 /\ Len(w) = 2 /\ Len(w) # 0 /\ Len(w) # 1
        BY <1>1, <1>10
    <2>2. FlattenSeq(w) = g[2] /\ g[2] = w[1] \o w[2]
        BY <1>4, <1>7, <1>10, <2>1
    <2> QED
        BY <2>1, <2>2
  <1>11. n = 0 \/ n = 1 \/ n = 2
      BY <1>3
  <1> QED
      BY <1>8, <1>9, <1>10, <1>11

-----------------------------------------------------------------------------
(* Prompts in what comes from a shell. *)

\* There is a number of them.
LEMMA PromptsCount ==
  ASSUME NEW q \in Seq(Units)
  PROVE  /\ IsFiniteSet(PromptsIn(q)) /\ Cardinality(PromptsIn(q)) \in Nat
         /\ Cardinality(PromptsIn(q)) = 0 <=> PromptsIn(q) = {}
         /\ PromptsIn(q) = {i \in 1 .. Len(q) - 1 : q[i] = "%" /\ q[i + 1] = "sp"}
  <1>1. Len(q) \in Nat
      OBVIOUS
  <1>2. IsFiniteSet(1 .. Len(q) - 1)
      BY <1>1, FS_Interval
  <1>3. PromptsIn(q) \subseteq 1 .. Len(q) - 1
      BY DEF PromptsIn
  <1>4. IsFiniteSet(PromptsIn(q))
      BY <1>2, <1>3, FS_Subset
  <1> QED
      BY <1>4, FS_CardinalityType, FS_EmptySet DEF PromptsIn, Prompt

\* Text adds none.
LEMMA MoreText ==
  ASSUME NEW q \in Seq(Units), NEW u \in Seq(Units), \A i \in 1 .. Len(u) : u[i] \notin {"%", "sp"}
  PROVE  q \o u \in Seq(Units) /\ PromptsIn(q \o u) = PromptsIn(q)
  <1>1. /\ q \o u \in Seq(Units) /\ Len(q \o u) = Len(q) + Len(u) /\ Len(q) \in Nat /\ Len(u) \in Nat
        /\ \A i \in 1 .. Len(q) + Len(u) : (q \o u)[i] = IF i <= Len(q) THEN q[i] ELSE u[i - Len(q)]
      BY ConcatProperties
  <1>2. \A i \in 1 .. Len(q \o u) - 1 :
           (q \o u)[i] = "%" /\ (q \o u)[i + 1] = "sp" <=> i <= Len(q) - 1 /\ q[i] = "%" /\ q[i + 1] = "sp"
    <2> TAKE i \in 1 .. Len(q \o u) - 1
    <2>1. /\ i \in Nat /\ i \in 1 .. Len(q) + Len(u) /\ i + 1 \in 1 .. Len(q) + Len(u)
          /\ i > Len(q) => i - Len(q) \in 1 .. Len(u)
          /\ i >= Len(q) => i + 1 - Len(q) \in 1 .. Len(u)
        BY <1>1
    <2>2. CASE i <= Len(q) - 1
        BY <1>1, <2>1, <2>2
    <2>3. CASE ~ (i <= Len(q) - 1)
      <3>1. (q \o u)[i + 1] = u[i + 1 - Len(q)]
          BY <1>1, <2>1, <2>3
      <3> QED
          BY <1>1, <2>1, <2>3, <3>1
    <2> QED
        BY <2>2, <2>3
  <1>3. /\ PromptsIn(q \o u) = {i \in 1 .. Len(q \o u) - 1 : (q \o u)[i] = "%" /\ (q \o u)[i + 1] = "sp"}
        /\ PromptsIn(q) = {i \in 1 .. Len(q) - 1 : q[i] = "%" /\ q[i + 1] = "sp"}
      BY <1>1, PromptsCount
  <1>4. 1 .. Len(q) - 1 \subseteq 1 .. Len(q \o u) - 1 /\ \A i \in 1 .. Len(q \o u) - 1 : i <= Len(q) - 1 <=> i \in 1 .. Len(q) - 1
      BY <1>1
  <1> QED
      BY <1>1, <1>2, <1>3, <1>4

\* The shell's asking for a line adds one.
LEMMA MorePrompt ==
  ASSUME NEW q \in Seq(Units)
  PROVE  /\ q \o Prompt \in Seq(Units)
         /\ Cardinality(PromptsIn(q \o Prompt)) = Cardinality(PromptsIn(q)) + 1
  <1>1. /\ Prompt \in Seq(Units) /\ Len(Prompt) = 2 /\ Prompt[1] = "%" /\ Prompt[2] = "sp"
      BY DEF Prompt, Units
  <1>2. /\ q \o Prompt \in Seq(Units) /\ Len(q \o Prompt) = Len(q) + 2 /\ Len(q) \in Nat
        /\ \A i \in 1 .. Len(q) + 2 : (q \o Prompt)[i] = IF i <= Len(q) THEN q[i] ELSE Prompt[i - Len(q)]
    <2>1. /\ q \o Prompt \in Seq(Units) /\ Len(q \o Prompt) = Len(q) + Len(Prompt)
          /\ \A i \in 1 .. Len(q) + Len(Prompt) :
                (q \o Prompt)[i] = IF i <= Len(q) THEN q[i] ELSE Prompt[i - Len(q)]
        BY <1>1, ConcatProperties
    <2> QED
        BY <1>1, <2>1, LenProperties
  <1>3. /\ (q \o Prompt)[Len(q) + 1] = "%" /\ (q \o Prompt)[Len(q) + 2] = "sp"
        /\ \A i \in 1 .. Len(q) : (q \o Prompt)[i] = q[i]
      BY <1>1, <1>2
  <1>4. \A i \in 1 .. Len(q) + 1 : i = Len(q) + 1 \/ i = Len(q) \/ i \in 1 .. Len(q) - 1
      BY <1>2
  <1>5. \A i \in 1 .. Len(q) + 1 :
           (q \o Prompt)[i] = "%" /\ (q \o Prompt)[i + 1] = "sp"
              <=> i = Len(q) + 1 \/ (i \in 1 .. Len(q) - 1 /\ q[i] = "%" /\ q[i + 1] = "sp")
    <2> TAKE i \in 1 .. Len(q) + 1
    <2>1. CASE i = Len(q) + 1
        BY <1>2, <1>3, <2>1
    <2>2. CASE i = Len(q)
        BY <1>2, <1>3, <2>2
    <2>3. CASE i \in 1 .. Len(q) - 1
      <3>1. i \in 1 .. Len(q) /\ i + 1 \in 1 .. Len(q) /\ i # Len(q) + 1
          BY <1>2, <2>3
      <3> QED
          BY <1>3, <2>3, <3>1
    <2> QED
        BY <1>4, <2>1, <2>2, <2>3
  <1>6. /\ PromptsIn(q \o Prompt) = PromptsIn(q) \cup {Len(q) + 1}
        /\ Len(q) + 1 \notin PromptsIn(q)
    <2>1. Len(q \o Prompt) - 1 = Len(q) + 1 /\ Len(q) + 1 \in 1 .. Len(q) + 1
        BY <1>2
    <2>2. 1 .. Len(q) - 1 \subseteq 1 .. Len(q) + 1 /\ Len(q) + 1 \notin 1 .. Len(q) - 1
        BY <1>2
    <2>3. /\ PromptsIn(q) = {i \in 1 .. Len(q) - 1 : q[i] = "%" /\ q[i + 1] = "sp"}
          /\ PromptsIn(q \o Prompt) = {i \in 1 .. Len(q) + 1 :
                                         (q \o Prompt)[i] = "%" /\ (q \o Prompt)[i + 1] = "sp"}
        BY <1>2, <2>1, PromptsCount
    <2> QED
        BY <1>5, <2>1, <2>2, <2>3
  <1> QED
    <2>1. Cardinality(PromptsIn(q) \cup {Len(q) + 1}) = Cardinality(PromptsIn(q)) + 1
        BY <1>6, PromptsCount, FS_AddElement
    <2> QED
        BY <1>2, <1>6, <2>1

\* Two pieces have the prompts of the whole, but for one that is cut.
LEMMA PromptsSplit ==
  ASSUME NEW q \in Seq(Units), NEW n \in 1 .. Len(q)
  PROVE  /\ SubSeq(q, 1, n) \in Seq(Units) /\ SubSeq(q, n + 1, Len(q)) \in Seq(Units)
         /\ Cardinality(PromptsIn(q)) =
               Cardinality(PromptsIn(SubSeq(q, 1, n)))
               + Cardinality(PromptsIn(SubSeq(q, n + 1, Len(q))))
               + (IF n \in PromptsIn(q) THEN 1 ELSE 0)
  <1> DEFINE a == SubSeq(q, 1, n)
             b == SubSeq(q, n + 1, Len(q))
             before == {i \in PromptsIn(q) : i < n}
             after  == {i \in PromptsIn(q) : i > n}
  <1>1. Len(q) \in Nat /\ n \in Nat /\ n >= 1 /\ n <= Len(q) /\ \A i \in 1 .. Len(q) : q[i] \in Units
      OBVIOUS
  <1>2. /\ a \in Seq(Units) /\ Len(a) = n
        /\ \A i \in 1 .. n : a[i] = q[i]
    <2>1. n - 1 + 1 = n /\ \A i \in 1 .. n : i + 1 - 1 = i /\ i \in 1 .. Len(q) /\ 1 + i - 1 = i
        BY <1>1
    <2> QED
        BY <1>1, <2>1, SubSeqProperties
  <1>3. /\ b \in Seq(Units) /\ Len(b) = Len(q) - n
        /\ \A i \in 1 .. Len(q) - n : b[i] = q[n + i]
    <2>1. /\ Len(q) - (n + 1) + 1 = Len(q) - n
          /\ \A i \in 1 .. Len(q) - n : (n + 1) + i - 1 = n + i
          /\ \A i \in n + 1 .. Len(q) : i \in 1 .. Len(q)
          /\ n + 1 <= Len(q) \/ Len(q) - n = 0
        BY <1>1
    <2>2. PICK N \in Nat : N = Len(q)
        BY <1>1
    <2>3. n + 1 \in Int /\ N \in Int /\ \A i \in n + 1 .. N : q[i] \in Units
      <3>1. /\ \A i \in n + 1 .. N : i \in 1 .. N
            /\ \A i \in 1 .. N : q[i] \in Units
          BY <1>1, <2>1, <2>2
      <3> QED
          BY <1>1, <2>2, <3>1
    <2>4. /\ SubSeq(q, n + 1, N) \in Seq(Units)
          /\ Len(SubSeq(q, n + 1, N)) = IF n + 1 <= N THEN N - (n + 1) + 1 ELSE 0
          /\ \A i \in 1 .. N - (n + 1) + 1 : SubSeq(q, n + 1, N)[i] = q[(n + 1) + i - 1]
        BY <2>3, SubSeqProperties
    <2> HIDE DEF b
    <2>5. /\ b \in Seq(Units) /\ Len(b) = IF n + 1 <= N THEN N - (n + 1) + 1 ELSE 0
          /\ \A i \in 1 .. N - (n + 1) + 1 : b[i] = q[(n + 1) + i - 1]
        BY <2>2, <2>4 DEF b
    <2>6. \A i \in 1 .. N - n : b[i] = q[n + i]
        BY <2>1, <2>2, <2>5
    <2> QED
        BY <2>1, <2>2, <2>5, <2>6
  <1> HIDE DEF a, b
  <1>4. PromptsIn(a) = before
    <2>1. \A i \in 1 .. n - 1 : i \in 1 .. Len(q) - 1 /\ i < n /\ i \in 1 .. n /\ i + 1 \in 1 .. n
        BY <1>1
    <2>2. \A i \in 1 .. Len(q) - 1 : i < n => i \in 1 .. n - 1
        BY <1>1
    <2>3. /\ PromptsIn(a) = {i \in 1 .. n - 1 : a[i] = "%" /\ a[i + 1] = "sp"}
          /\ PromptsIn(q) = {i \in 1 .. Len(q) - 1 : q[i] = "%" /\ q[i + 1] = "sp"}
        BY <1>2, PromptsCount
    <2>4. \A i \in 1 .. n - 1 : a[i] = q[i] /\ a[i + 1] = q[i + 1]
        BY <1>2, <2>1
    <2> HIDE DEF before
    <2>5. \A i : i \in PromptsIn(a) <=> i \in PromptsIn(q) /\ i < n
        BY <2>1, <2>2, <2>3, <2>4
    <2> QED
        BY <2>5 DEF before
  <1>5. IsFiniteSet(after) /\ IsFiniteSet(before) /\ IsFiniteSet(PromptsIn(b))
      BY <1>3, PromptsCount, FS_Subset
  <1>6. Cardinality(PromptsIn(b)) = Cardinality(after)
    <2> DEFINE f == [i \in PromptsIn(b) |-> n + i]
    <2>1. \A i \in PromptsIn(b) : i \in Nat /\ n + i \in after
      <3> TAKE i \in PromptsIn(b)
      <3>1. i \in 1 .. Len(q) - n - 1 /\ b[i] = "%" /\ b[i + 1] = "sp"
          BY <1>3, PromptsCount
      <3>2. /\ i \in Nat /\ i \in 1 .. Len(q) - n /\ i + 1 \in 1 .. Len(q) - n
            /\ n + i \in 1 .. Len(q) - 1 /\ n + i > n /\ n + (i + 1) = (n + i) + 1
          BY <1>1, <3>1
      <3>3. q[n + i] = "%" /\ q[(n + i) + 1] = "sp"
          BY <1>3, <3>1, <3>2
      <3> QED
          BY <3>2, <3>3, PromptsCount
    <2>2. \A j \in after : \E i \in PromptsIn(b) : n + i = j
      <3> TAKE j \in after
      <3>1. j \in 1 .. Len(q) - 1 /\ j > n /\ q[j] = "%" /\ q[j + 1] = "sp"
          BY PromptsCount
      <3>2. /\ j - n \in 1 .. (Len(q) - n) - 1 /\ j - n \in 1 .. Len(q) - n
            /\ (j - n) + 1 \in 1 .. Len(q) - n /\ n + (j - n) = j /\ n + ((j - n) + 1) = j + 1
          BY <1>1, <3>1
      <3>3. b[j - n] = "%" /\ b[(j - n) + 1] = "sp"
          BY <1>3, <3>1, <3>2
      <3>4. PromptsIn(b) = {i \in 1 .. (Len(q) - n) - 1 : b[i] = "%" /\ b[i + 1] = "sp"}
          BY <1>3, PromptsCount
      <3>5. j - n \in PromptsIn(b)
          BY <3>2, <3>3, <3>4
      <3> QED
          BY <3>2, <3>5
    <2>3. f \in Bijection(PromptsIn(b), after)
      <3>1. f \in [PromptsIn(b) -> after]
          BY <2>1
      <3>2. \A i, j \in PromptsIn(b) : f[i] = f[j] => i = j
          BY <1>1, <2>1
      <3>3. \A j \in after : \E i \in PromptsIn(b) : f[i] = j
          BY <2>2
      <3> QED
        <4> HIDE DEF f, after
        <4> QED
            BY <3>1, <3>2, <3>3, Fun_IsBij
    <2> QED
        BY <1>5, <2>3, FS_Bijection DEF ExistsBijection
  <1>7. /\ IsFiniteSet(before \cup after)
        /\ Cardinality(before \cup after) = Cardinality(before) + Cardinality(after)
    <2>1. before \cap after = {} /\ Cardinality({}) = 0
        BY FS_EmptySet, PromptsCount
    <2>2. Cardinality(before) \in Nat /\ Cardinality(after) \in Nat
        BY <1>5, FS_CardinalityType
    <2> HIDE DEF before, after
    <2>3. /\ IsFiniteSet(before \cup after)
          /\ Cardinality(before \cup after)
                = Cardinality(before) + Cardinality(after) - Cardinality(before \cap after)
        BY <1>5, FS_Union
    <2>4. Cardinality(before \cap after) = 0
        BY <2>1
    <2> QED
        BY <2>2, <2>3, <2>4
  <1>8. Cardinality(PromptsIn(q)) =
           Cardinality(before \cup after) + (IF n \in PromptsIn(q) THEN 1 ELSE 0)
    <2>1. n \notin before \cup after /\ Cardinality(before \cup after) \in Nat
        BY <1>1, <1>7, FS_CardinalityType
    <2>2. \A i \in PromptsIn(q) : i < n \/ i > n \/ i = n
        BY <1>1, PromptsCount
    <2>3. CASE n \in PromptsIn(q)
      <3>1. PromptsIn(q) = (before \cup after) \cup {n}
          BY <2>2, <2>3
      <3> QED
          BY <1>7, <2>1, <2>3, <3>1, FS_AddElement
    <2>4. CASE n \notin PromptsIn(q)
      <3>1. PromptsIn(q) = before \cup after
          BY <2>2, <2>4
      <3> HIDE DEF before, after
      <3> QED
          BY <2>1, <2>4, <3>1
    <2> QED
        BY <2>3, <2>4
  <1> QED
      BY <1>2, <1>3, <1>4, <1>6, <1>7, <1>8 DEF a, b

-----------------------------------------------------------------------------
(* Types. *)

\* The queues are sequences of units.
LEMMA Queues ==
  ASSUME TypeOK, NEW s \in Sessions
  PROVE  /\ toShell[s] \in Seq(Units) /\ late[s] \in Seq(Units) /\ heard[s] \in Seq(Units)
         /\ fromShell[s] \in Seq(Units) /\ said[s] \in Seq(Units) /\ shown[s] \in Seq(Units)
  BY DEF TypeOK

\* One queue of all sessions' changes.
LEMMA QueueChange ==
  ASSUME NEW q \in [Sessions -> Seq(Units)], NEW s \in Sessions, NEW v \in Seq(Units)
  PROVE  [q EXCEPT ![s] = v] \in [Sessions -> Seq(Units)]
  OBVIOUS

\* A line is a unit.
LEMMA LineUnit ==
  ASSUME NEW s \in Sessions, NEW k \in Nat
  PROVE  Line(s, k + 1) \in Units
  <1>1. CASE k + 1 <= Len(Script[s])
    <2>1. Script[s] \in Seq({"cmd", "exit"})
        BY ConsoleSessionAssumption
    <2>2. k + 1 \in 1 .. Len(Script[s])
      <3>1. PICK m : m = Len(Script[s])
          OBVIOUS
      <3>2. m \in Nat
          BY <2>1, <3>1, LenProperties
      <3> QED
          BY <1>1, <3>1, <3>2
    <2>3. Script[s][k + 1] \in {"cmd", "exit"}
        BY <2>1, <2>2, ElementOfSeq
    <2> QED
        BY <1>1, <2>3 DEF Line, Units
  <1>2. CASE ~ (k + 1 <= Len(Script[s]))
      BY <1>2 DEF Line, Units
  <1> QED
      BY <1>1, <1>2

\* What a piece of a queue and the rest of it are.
LEMMA Piece ==
  ASSUME NEW q \in Seq(Units), NEW n \in 1 .. Len(q)
  PROVE  SubSeq(q, 1, n) \in Seq(Units) /\ SubSeq(q, n + 1, Len(q)) \in Seq(Units)
  BY PromptsSplit

\* A line written to a shell's socket, or put aside.
LEMMA WriteType ==
  ASSUME TypeOK, NEW s \in Sessions, NEW l \in Units, WriteLine(s, l)
  PROVE  /\ toShell' \in [Sessions -> Seq(Units)] /\ late' \in [Sessions -> Seq(Units)]
         /\ heard' \in [Sessions -> Seq(Units)]
         /\ \A r \in Sessions : Len(toShell'[r]) <= LineCap
  <1>1. /\ toShell \in [Sessions -> Seq(Units)] /\ late \in [Sessions -> Seq(Units)]
        /\ heard \in [Sessions -> Seq(Units)] /\ \A r \in Sessions : Len(toShell[r]) <= LineCap
      BY DEF TypeOK
  <1>2. /\ Append(toShell[s], l) \in Seq(Units) /\ Append(late[s], l) \in Seq(Units)
        /\ Append(heard[s], l) \in Seq(Units)
        /\ Len(Append(toShell[s], l)) = Len(toShell[s]) + 1 /\ Len(toShell[s]) \in Nat
      BY Queues, AppendProperties, LenProperties
  <1>3. CASE late[s] = <<>> /\ Len(toShell[s]) < LineCap
    <2>1. /\ toShell' = [toShell EXCEPT ![s] = Append(toShell[s], l)]
          /\ heard' = [heard EXCEPT ![s] = Append(heard[s], l)] /\ late' = late
        BY <1>3 DEF WriteLine
    <2>2. Len(toShell[s]) + 1 <= LineCap
        BY <1>2, <1>3, ConsoleSessionAssumption
    <2>3. ASSUME NEW r \in Sessions PROVE Len(toShell'[r]) <= LineCap
        BY <1>1, <1>2, <2>1, <2>2
    <2> QED
        BY <1>1, <1>2, <2>1, <2>3, QueueChange
  <1>4. CASE ~ (late[s] = <<>> /\ Len(toShell[s]) < LineCap)
    <2>1. late' = [late EXCEPT ![s] = Append(late[s], l)] /\ toShell' = toShell /\ heard' = heard
        BY <1>4 DEF WriteLine
    <2> QED
        BY <1>1, <1>2, <2>1, QueueChange
  <1> QED
      BY <1>3, <1>4

\* What a session shows of a piece: one write, or two.
LEMMA ShowType ==
  ASSUME TypeOK, NEW s \in Sessions, NEW n \in 1 .. Len(fromShell[s])
  PROVE  /\ Show(s, n) \in Seq(Seq(Units)) /\ Len(Show(s, n)) \in {1, 2}
  <1>1. SubSeq(fromShell[s], 1, n) \in Seq(Units) /\ line[s] \in Nat
      BY Queues, Piece, ConsoleSessionAssumption DEF TypeOK
  <1>2. <<Line(s, line[s] + 1)>> \in Seq(Units)
      BY <1>1, LineUnit
  <1>3. \A T, a, b : a \in T /\ b \in T =>
           <<a>> \in Seq(T) /\ <<a, b>> \in Seq(T) /\ Len(<<a>>) = 1 /\ Len(<<a, b>>) = 2
      OBVIOUS
  <1>4. CASE Answered(s, n)
      BY <1>1, <1>2, <1>3, <1>4 DEF Show
  <1>5. CASE ~ Answered(s, n)
      BY <1>1, <1>3, <1>5 DEF Show
  <1> QED
      BY <1>4, <1>5

\* Two writes at most, flattened, are units.
LEMMA FlattenType ==
  ASSUME NEW w \in Seq(Seq(Units)), Len(w) \in {0, 1, 2}
  PROVE  FlattenSeq(w) \in Seq(Units)
  <1>1. PICK T : T = Seq(Units)
      OBVIOUS
  <1>2. w \in Seq(T) /\ Len(w) <= 2
    <2>1. \A k \in {0, 1, 2} : k <= 2
        OBVIOUS
    <2> QED
        BY <1>1, <2>1
  <1>3. /\ Len(w) = 0 => FlattenSeq(w) = <<>>
        /\ Len(w) = 1 => FlattenSeq(w) = w[1]
        /\ Len(w) = 2 => FlattenSeq(w) = w[1] \o w[2]
      BY <1>2, FlattenTwo
  <1>4. \A i \in 1 .. Len(w) : w[i] \in T
      BY <1>2, ElementOfSeq
  <1>5. Len(w) = 1 => w[1] \in T
      BY <1>4
  <1>6. Len(w) = 2 => w[1] \in T /\ w[2] \in T
    <2>1. 1 \in 1 .. 2 /\ 2 \in 1 .. 2
        OBVIOUS
    <2> QED
        BY <1>4, <2>1
  <1>7. Len(w) = 2 => w[1] \o w[2] \in Seq(Units)
      BY <1>1, <1>6, ConcatProperties
  <1>8. <<>> \in Seq(Units)
      OBVIOUS
  <1> QED
      BY <1>1, <1>3, <1>5, <1>7, <1>8

\* The page: what the blocked thread writes.
LEMMA OutputType ==
  ASSUME TypeOK, NEW s \in Sessions, NEW w \in Seq(Seq(Units)), Len(w) \in {1, 2}, Output(s, w)
  PROVE  /\ unread' \in 0 .. PageCap /\ shown' \in [Sessions -> Seq(Units)] /\ owed' = owed
  <1>1. shown[s] \o FlattenSeq(w) \in Seq(Units)
      BY Queues, FlattenType, ConcatProperties
  <1>2. shown \in [Sessions -> Seq(Units)] /\ unread \in 0 .. PageCap /\ PageCap \in Nat
      BY ConsoleSessionAssumption DEF TypeOK
  <1>3. shown' = [shown EXCEPT ![s] = shown[s] \o FlattenSeq(w)] /\ owed' = owed
      BY <1>2 DEF Output
  <1>4. unread' = unread + Len(w) /\ unread + Len(w) <= PageCap
      BY DEF Output
  <1>5. PICK k : k = Len(w)
      OBVIOUS
  <1>6. k \in Nat
      BY <1>5
  <1>7. unread' \in 0 .. PageCap
      BY <1>2, <1>4, <1>5, <1>6
  <1> QED
      BY <1>1, <1>2, <1>3, <1>7, QueueChange

\* The page: units that come on it.
LEMMA OnPageType ==
  ASSUME TypeOK, NEW s \in Sessions, NEW u \in Seq(Units)
  PROVE  [shown EXCEPT ![s] = OnPage(s, u)] \in [Sessions -> Seq(Units)]
  <1>1. shown[s] \o <<>> \in Seq(Units) /\ shown[s] \o u \in Seq(Units)
      BY Queues, ConcatProperties, EmptySeq
  <1>2. OnPage(s, u) \in Seq(Units)
      BY <1>1 DEF OnPage
  <1> QED
      BY <1>2, QueueChange DEF TypeOK

\* The page: what fits at once, and what waits.
LEMMA PostType ==
  ASSUME TypeOK, NEW s \in Sessions, NEW w \in Seq(Seq(Units)), Len(w) \in {1, 2}, Post(s, w)
  PROVE  /\ unread' \in 0 .. PageCap /\ shown' \in [Sessions -> Seq(Units)]
         /\ owed' \in Seq(Sessions \X Seq(Units))
  <1> DEFINE room == IF owed = <<>> THEN PageCap - unread ELSE 0
             fit  == IF room < Len(w) THEN room ELSE Len(w)
             rest == [i \in 1 .. Len(w) - fit |-> <<s, w[fit + i]>>]
  <1>1. PICK k : k = Len(w)
      OBVIOUS
  <1>2. k \in Nat /\ (k = 1 \/ k = 2) /\ unread \in 0 .. PageCap /\ PageCap \in Nat
      BY <1>1, ConsoleSessionAssumption DEF TypeOK
  <1>3. room \in 0 .. PageCap - unread
      BY <1>2
  <1>4. PICK f : f = fit
      OBVIOUS
  <1>5. f \in Nat /\ f <= k /\ unread + f \in 0 .. PageCap /\ k - f \in Nat
      BY <1>1, <1>2, <1>3, <1>4
  <1>6. /\ unread' = unread + f
        /\ shown' = [shown EXCEPT ![s] = OnPage(s, FlattenSeq(SubSeq(w, 1, f)))]
        /\ owed' = owed \o rest
      BY <1>4 DEF Post
  <1>7. \A i \in 1 .. k : w[i] \in Seq(Units)
      BY <1>1, ElementOfSeq
  <1>8. SubSeq(w, 1, f) \in Seq(Seq(Units)) /\ Len(SubSeq(w, 1, f)) \in {0, 1, 2}
    <2>1. \A i \in 1 .. f : w[i] \in Seq(Units)
        BY <1>2, <1>5, <1>7
    <2>2. /\ SubSeq(w, 1, f) \in Seq(Seq(Units))
          /\ Len(SubSeq(w, 1, f)) = IF 1 <= f THEN f - 1 + 1 ELSE 0
        BY <1>5, <2>1, SubSeqProperties
    <2>3. f \in {0, 1, 2} /\ (IF 1 <= f THEN f - 1 + 1 ELSE 0) = f
        BY <1>2, <1>5
    <2> QED
        BY <2>2, <2>3
  <1>9. rest \in Seq(Sessions \X Seq(Units))
    <2>1. rest = [i \in 1 .. k - f |-> <<s, w[f + i]>>]
        BY <1>1, <1>4
    <2>2. \A i \in 1 .. k - f : f + i \in 1 .. k
        BY <1>2, <1>5
    <2>3. \A i \in 1 .. k - f : <<s, w[f + i]>> \in Sessions \X Seq(Units)
        BY <1>7, <2>2
    <2>4. rest \in [1 .. k - f -> Sessions \X Seq(Units)]
      <3> HIDE DEF rest
      <3> QED
          BY <2>1, <2>3
    <2> HIDE DEF rest
    <2> QED
        BY <1>5, <2>4, SeqDef
  <1> HIDE DEF room, fit, rest
  <1>10. owed' \in Seq(Sessions \X Seq(Units))
      BY <1>6, <1>9, ConcatProperties DEF TypeOK
  <1>11. shown' \in [Sessions -> Seq(Units)]
      BY <1>6, <1>8, FlattenType, OnPageType
  <1> QED
      BY <1>5, <1>6, <1>10, <1>11

\* The handler of a read: what it takes and sends.
LEMMA TakeType ==
  ASSUME TypeOK, NEW s \in Sessions, NEW n \in 1 .. Len(fromShell[s]), Take(s, n)
  PROVE  /\ fromShell' \in [Sessions -> Seq(Units)] /\ cut' \in [Sessions -> BOOLEAN]
         /\ line' \in [Sessions -> 0 .. MaxLines]
         /\ toShell' \in [Sessions -> Seq(Units)] /\ late' \in [Sessions -> Seq(Units)]
         /\ heard' \in [Sessions -> Seq(Units)]
         /\ \A r \in Sessions : Len(toShell'[r]) <= LineCap
         /\ UNCHANGED <<prog, stage, reply, shell, noise, said, noisy>>
  <1>1. /\ fromShell' = [fromShell EXCEPT ![s] = SubSeq(fromShell[s], n + 1, Len(fromShell[s]))]
        /\ UNCHANGED <<prog, stage, reply, shell, noise, said, noisy>>
        /\ cut' = [cut EXCEPT ![s] = cut[s] \/ n \in PromptsIn(fromShell[s])]
      BY DEF Take, TypeOK
  <1>2. fromShell' \in [Sessions -> Seq(Units)]
      BY <1>1, Queues, Piece, QueueChange DEF TypeOK
  <1>3. cut' \in [Sessions -> BOOLEAN]
      BY <1>1 DEF TypeOK
  <1>4. CASE Answered(s, n)
    <2>1. /\ line[s] < MaxLines /\ line' = [line EXCEPT ![s] = line[s] + 1]
          /\ WriteLine(s, Line(s, line[s] + 1))
        BY <1>4 DEF Take, TypeOK
    <2>2. line \in [Sessions -> 0 .. MaxLines] /\ MaxLines \in Nat
        BY ConsoleSessionAssumption DEF TypeOK
    <2>3. line' \in [Sessions -> 0 .. MaxLines]
      <3>1. line[s] + 1 \in 0 .. MaxLines
          BY <2>1, <2>2
      <3> QED
          BY <2>1, <2>2, <3>1
    <2>4. Line(s, line[s] + 1) \in Units
        BY <2>2, LineUnit
    <2>5. /\ toShell' \in [Sessions -> Seq(Units)] /\ late' \in [Sessions -> Seq(Units)]
          /\ heard' \in [Sessions -> Seq(Units)]
          /\ \A r \in Sessions : Len(toShell'[r]) <= LineCap
        BY <2>1, <2>4, WriteType
    <2> QED
        BY <1>1, <1>2, <1>3, <2>3, <2>5
  <1>5. CASE ~ Answered(s, n)
    <2>1. UNCHANGED <<line, toShell, late, heard>>
        BY <1>5 DEF Take, ends
    <2>2. /\ line \in [Sessions -> 0 .. MaxLines]
          /\ toShell \in [Sessions -> Seq(Units)] /\ late \in [Sessions -> Seq(Units)]
          /\ heard \in [Sessions -> Seq(Units)]
          /\ \A r \in Sessions : Len(toShell[r]) <= LineCap
        BY DEF TypeOK
    <2> QED
        BY <1>1, <1>2, <1>3, <2>1, <2>2
  <1> QED
      BY <1>4, <1>5

\* More units from a shell.
LEMMA SaysType ==
  ASSUME TypeOK, NEW s \in Sessions, NEW u \in Seq(Units), Says(s, u)
  PROVE  fromShell' \in [Sessions -> Seq(Units)] /\ said' \in [Sessions -> Seq(Units)]
  <1>1. fromShell[s] \o u \in Seq(Units) /\ said[s] \o u \in Seq(Units)
      BY Queues, ConcatProperties
  <1> QED
      BY <1>1, QueueChange DEF Says, TypeOK

\* Every step keeps the types.
LEMMA TypeStep ==
  ASSUME TypeOK, [Next]_vars
  PROVE  TypeOK'
  <1>. USE DEF ends, page
  <1>1. ASSUME NEW s \in Sessions, Resolve(s) PROVE TypeOK'
      BY <1>1 DEF Resolve, TypeOK
  <1>2. ASSUME NEW s \in Sessions, Connect(s) PROVE TypeOK'
      BY <1>2 DEF Connect, TypeOK
  <1>3. ASSUME NEW s \in Sessions, ConnectSocks(s) PROVE TypeOK'
      BY <1>3 DEF ConnectSocks, TypeOK
  <1>4. ASSUME NEW s \in Sessions, Abort(s) PROVE TypeOK'
      BY <1>4 DEF Abort, TypeOK
  <1>5. ASSUME NEW s \in Sessions, NEW n \in 1 .. Len(fromShell[s]), ReadReply(s, n) PROVE TypeOK'
    <2>1. fromShell' = [fromShell EXCEPT ![s] = SubSeq(fromShell[s], n + 1, Len(fromShell[s]))]
        BY <1>5 DEF ReadReply, TypeOK
    <2>2. fromShell' \in [Sessions -> Seq(Units)]
        BY <2>1, Queues, Piece, QueueChange DEF TypeOK
    <2>3. reply' \in [Sessions -> BOOLEAN] /\ cut' \in [Sessions -> BOOLEAN]
        BY <1>5 DEF ReadReply, TypeOK
    <2>4. UNCHANGED <<prog, stage, line, toShell, late, heard, shell, unread, owed, shown, noise, said, noisy>>
        BY <1>5 DEF ReadReply
    <2> QED
        BY <2>2, <2>3, <2>4 DEF TypeOK
  <1>6. ASSUME NEW s \in Sessions, NEW n \in 1 .. Len(fromShell[s]), Take(s, n), Output(s, Show(s, n))
        PROVE  TypeOK'
    <2>1. /\ unread' \in 0 .. PageCap /\ shown' \in [Sessions -> Seq(Units)] /\ owed' = owed
        BY <1>6, ShowType, OutputType
    <2> QED
        BY <1>6, <2>1, TakeType DEF TypeOK
  <1>7. ASSUME NEW s \in Sessions, NEW n \in 1 .. Len(fromShell[s]), Take(s, n), Post(s, Show(s, n))
        PROVE  TypeOK'
    <2>1. /\ unread' \in 0 .. PageCap /\ shown' \in [Sessions -> Seq(Units)]
          /\ owed' \in Seq(Sessions \X Seq(Units))
        BY <1>7, ShowType, PostType
    <2> QED
        BY <1>7, <2>1, TakeType DEF TypeOK
  <1>8. ASSUME NEW s \in Sessions, ReadEnd(s) PROVE TypeOK'
      BY <1>8 DEF ReadEnd, TypeOK
  <1>9. ASSUME NEW s \in Sessions, Flush(s) PROVE TypeOK'
    <2>1. PICK l \in {Head(late[s]), Junk} :
             /\ toShell' = [toShell EXCEPT ![s] = Append(toShell[s], l)]
             /\ heard' = [heard EXCEPT ![s] = Append(heard[s], l)]
        BY <1>9 DEF Flush, TypeOK
    <2>2. late[s] # <<>> /\ Len(toShell[s]) < LineCap /\ late' = [late EXCEPT ![s] = Tail(late[s])]
        BY <1>9 DEF Flush, TypeOK
    <2>3. /\ toShell[s] \in Seq(Units) /\ late[s] \in Seq(Units) /\ heard[s] \in Seq(Units)
          /\ toShell \in [Sessions -> Seq(Units)] /\ late \in [Sessions -> Seq(Units)]
          /\ heard \in [Sessions -> Seq(Units)]
          /\ \A r \in Sessions : Len(toShell[r]) <= LineCap
        BY Queues DEF TypeOK
    <2>4. Head(late[s]) \in Units /\ Tail(late[s]) \in Seq(Units) /\ Junk \in Units
        BY <2>2, <2>3, HeadTailProperties DEF Units
    <2>5. /\ Append(toShell[s], l) \in Seq(Units) /\ Append(heard[s], l) \in Seq(Units)
          /\ Len(Append(toShell[s], l)) = Len(toShell[s]) + 1 /\ Len(toShell[s]) \in Nat
        BY <2>3, <2>4, AppendProperties, LenProperties
    <2>6. Len(toShell[s]) + 1 <= LineCap
        BY <2>2, <2>5, ConsoleSessionAssumption
    <2>7. \A r \in Sessions : Len(toShell'[r]) <= LineCap
        BY <2>1, <2>3, <2>5, <2>6
    <2>8. /\ toShell' \in [Sessions -> Seq(Units)] /\ heard' \in [Sessions -> Seq(Units)]
          /\ late' \in [Sessions -> Seq(Units)]
        BY <2>1, <2>2, <2>3, <2>4, <2>5, QueueChange
    <2>9. UNCHANGED <<prog, stage, reply, line, shell, fromShell, unread, owed, shown, noise, said, cut, noisy>>
        BY <1>9 DEF Flush
    <2> QED
        BY <2>7, <2>8, <2>9 DEF TypeOK
  <1>10. CASE FlushPage
    <2>1. /\ owed # <<>> /\ unread < PageCap /\ unread' = unread + 1 /\ owed' = Tail(owed)
          /\ UNCHANGED <<prog, stage, reply, line, toShell, late, heard, shell, fromShell, noise, said, cut, noisy>>
        BY <1>10 DEF FlushPage
    <2>2. owed \in Seq(Sessions \X Seq(Units))
        BY DEF TypeOK
    <2>3. PICK s \in Sessions, w \in Seq(Units) :
             shown' = [shown EXCEPT ![s] = OnPage(s, w)]
      <3>1. Head(owed) \in Sessions \X Seq(Units)
          BY <2>1, <2>2, HeadTailProperties
      <3>2. Head(owed)[1] \in Sessions /\ Head(owed)[2] \in Seq(Units)
          BY <3>1
      <3>3. <<Junk>> \in Seq(Units)
          BY DEF Units
      <3>4. PICK w \in {Head(owed)[2], <<Junk>>} :
               shown' = [shown EXCEPT ![Head(owed)[1]] = OnPage(Head(owed)[1], w)]
          BY <1>10 DEF FlushPage
      <3> QED
          BY <3>2, <3>3, <3>4
    <2>4. shown' \in [Sessions -> Seq(Units)]
        BY <2>3, OnPageType
    <2>5. owed' \in Seq(Sessions \X Seq(Units))
        BY <2>1, <2>2, HeadTailProperties
    <2>6. unread' \in 0 .. PageCap
        BY <2>1, ConsoleSessionAssumption DEF TypeOK
    <2> QED
        BY ZenonT(30), <2>1, <2>4, <2>5, <2>6 DEF TypeOK
  <1>11. CASE Browse
    <2>1. unread' \in 0 .. PageCap
        BY <1>11, ConsoleSessionAssumption DEF Browse, TypeOK
    <2> QED
        BY <1>11, <2>1 DEF Browse, TypeOK
  <1>12. ASSUME NEW s \in Sessions, ProxyAnswers(s) PROVE TypeOK'
    <2>1. PICK r \in {<<"r", "r">>, <<>>} : fromShell' = [fromShell EXCEPT ![s] = fromShell[s] \o r]
        BY <1>12 DEF ProxyAnswers, TypeOK
    <2>2. r \in Seq(Units)
      <3>1. "r" \in Units
          BY DEF Units
      <3>2. <<"r", "r">> \in Seq(Units) /\ <<>> \in Seq(Units)
          BY <3>1
      <3> QED
          BY <2>1, <3>2
    <2>3. fromShell[s] \o r \in Seq(Units)
        BY <2>2, Queues, ConcatProperties
    <2>4. fromShell' \in [Sessions -> Seq(Units)]
        BY <2>1, <2>3, QueueChange DEF TypeOK
    <2>5. /\ shell' \in [Sessions -> {"proxy", "starting", "up", "gone"}]
          /\ UNCHANGED <<prog, stage, reply, line, toShell, late, heard, unread, owed, shown, noise, said, cut, noisy>>
        BY <1>12 DEF ProxyAnswers, TypeOK
    <2> QED
        BY <2>4, <2>5 DEF TypeOK
  <1>13. ASSUME NEW s \in Sessions, ShellStart(s) PROVE TypeOK'
    <2>1. Prompt \in Seq(Units)
        BY DEF Prompt, Units
    <2>2. fromShell' \in [Sessions -> Seq(Units)] /\ said' \in [Sessions -> Seq(Units)]
        BY <1>13, <2>1, SaysType DEF ShellStart
    <2> QED
        BY ZenonT(30), <1>13, <2>2 DEF ShellStart, TypeOK
  <1>14. ASSUME NEW s \in Sessions, ShellRun(s) PROVE TypeOK'
    <2>1. /\ toShell[s] # <<>> /\ toShell' = [toShell EXCEPT ![s] = Tail(toShell[s])]
          /\ UNCHANGED <<prog, stage, reply, line, late, heard, unread, owed, shown, cut>>
        BY <1>14 DEF ShellRun, TypeOK
    <2>2. /\ toShell[s] \in Seq(Units) /\ toShell \in [Sessions -> Seq(Units)]
          /\ \A r \in Sessions : Len(toShell[r]) <= LineCap
        BY Queues DEF TypeOK
    <2>3. /\ Tail(toShell[s]) \in Seq(Units) /\ Len(Tail(toShell[s])) = Len(toShell[s]) - 1
          /\ Len(toShell[s]) \in Nat
        BY <2>1, <2>2, HeadTailProperties, LenProperties
    <2>4. Len(toShell[s]) - 1 <= LineCap
        BY <2>2, <2>3, ConsoleSessionAssumption
    <2>5. /\ toShell' \in [Sessions -> Seq(Units)]
          /\ \A r \in Sessions : Len(toShell'[r]) <= LineCap
        BY <2>1, <2>2, <2>3, <2>4, QueueChange
    <2>6. shell' \in [Sessions -> {"proxy", "starting", "up", "gone"}]
        BY ZenonT(30), <1>14 DEF ShellRun, TypeOK
    <2>7. fromShell' \in [Sessions -> Seq(Units)] /\ said' \in [Sessions -> Seq(Units)]
      <3>1. Prompt \in Seq(Units) /\ <<"t">> \in Seq(Units) /\ <<>> \in Seq(Units)
          BY DEF Prompt, Units
      <3>2. /\ <<"t">> \o Prompt \in Seq(Units) /\ <<>> \o Prompt \in Seq(Units)
            /\ Prompt \o Prompt \in Seq(Units)
          BY <3>1, ConcatProperties
      <3>3. CASE Head(toShell[s]) = "exit"
          BY <1>14, <3>3 DEF ShellRun, TypeOK
      <3>4. CASE Head(toShell[s]) # "exit"
          BY <1>14, <3>2, <3>4, SaysType DEF ShellRun
      <3> QED
          BY <3>3, <3>4
    <2>8. noise' \in 0 .. MaxNoise /\ noisy' \in [Sessions -> BOOLEAN]
      <3>1. \/ noise' = noise /\ noisy' = noisy
            \/ /\ noise < MaxNoise /\ noise' = noise + 1
               /\ noisy' = [noisy EXCEPT ![s] = TRUE]
          BY Zenon, <1>14 DEF ShellRun
      <3>2. noise \in 0 .. MaxNoise /\ noisy \in [Sessions -> BOOLEAN] /\ MaxNoise \in Nat
          BY ConsoleSessionAssumption DEF TypeOK
      <3>3. noise' \in 0 .. MaxNoise
        <4>1. ASSUME NEW a \in 0 .. MaxNoise, a < MaxNoise PROVE a + 1 \in 0 .. MaxNoise
            BY <3>2, <4>1
        <4> QED
            BY <3>1, <3>2, <4>1
      <3>4. noisy' \in [Sessions -> BOOLEAN]
          BY Zenon, <3>1, <3>2
      <3> QED
          BY <3>3, <3>4
    <2> QED
        BY SMTT(30), <2>1, <2>5, <2>6, <2>7, <2>8 DEF TypeOK
  <1>15. ASSUME NEW s \in Sessions, Noise(s) PROVE TypeOK'
    <2>1. Prompt \in Seq(Units) /\ <<"t">> \in Seq(Units)
        BY DEF Prompt, Units
    <2>2. PICK u \in {<<"t">>, Prompt} :
             Says(s, u) /\ noisy' = [noisy EXCEPT ![s] = noisy[s] \/ u = Prompt]
        BY <1>15 DEF Noise, TypeOK
    <2>3. fromShell' \in [Sessions -> Seq(Units)] /\ said' \in [Sessions -> Seq(Units)]
        BY <2>1, <2>2, SaysType
    <2>4. noise' \in 0 .. MaxNoise /\ noisy' \in [Sessions -> BOOLEAN]
        BY <1>15, <2>2, ConsoleSessionAssumption DEF Noise, TypeOK
    <2>5. UNCHANGED <<prog, stage, reply, line, toShell, late, heard, shell, unread, owed, shown, cut>>
        BY <1>15 DEF Noise
    <2> QED
        BY SMTT(30), <2>3, <2>4, <2>5 DEF TypeOK
  <1>16. CASE UNCHANGED vars
      BY <1>16 DEF vars, TypeOK
  <1> QED
      BY <1>1, <1>2, <1>3, <1>4, <1>5, <1>6, <1>7, <1>8, <1>9, <1>10, <1>11, <1>12, <1>13,
         <1>14, <1>15, <1>16
      DEF Next, Handler, Shell, ReceiveCgi, ReceiveSocks, ReceiveWeb

-----------------------------------------------------------------------------
(* Turns. *)

\* What the invariant of a session is about.
Mine(s) == <<stage[s], reply[s], line[s], toShell[s], late[s], shell[s], fromShell[s],
             heard[s], cut[s], noisy[s]>>

SessionOK(s) == StartOK(s) /\ TurnOK(s) /\ LinesOK(s)

\* A session that a step leaves alone.
LEMMA Still ==
  ASSUME NEW s \in Sessions, SessionOK(s), prog' = prog, Mine(s)' = Mine(s)
  PROVE  SessionOK(s)'
  <1>1. /\ stage'[s] = stage[s] /\ reply'[s] = reply[s] /\ line'[s] = line[s]
        /\ toShell'[s] = toShell[s] /\ late'[s] = late[s] /\ shell'[s] = shell[s]
        /\ fromShell'[s] = fromShell[s] /\ heard'[s] = heard[s] /\ cut'[s] = cut[s]
        /\ noisy'[s] = noisy[s]
      BY DEF Mine
  <1>2. Turns(s)' = Turns(s)
      BY <1>1 DEF Turns
  <1>3. TurnOK(s)'
      BY <1>1, <1>2 DEF SessionOK, TurnOK
  <1>4. StartOK(s)'
      BY <1>1 DEF SessionOK, StartOK
  <1>5. LinesOK(s)'
      BY <1>1 DEF SessionOK, LinesOK
  <1> QED
      BY <1>3, <1>4, <1>5 DEF SessionOK

\* The parts of the count are numbers.
LEMMA Numbers ==
  ASSUME TypeOK, NEW s \in Sessions
  PROVE  /\ Len(toShell[s]) \in Nat /\ Len(late[s]) \in Nat
         /\ Cardinality(PromptsIn(fromShell[s])) \in Nat
         /\ Len(toShell[s]) = 0 <=> toShell[s] = <<>>
         /\ Len(late[s]) = 0 <=> late[s] = <<>>
         /\ Cardinality(PromptsIn(fromShell[s])) = 0 <=> PromptsIn(fromShell[s]) = {}
  BY Queues, PromptsCount, LenProperties, EmptySeq

\* A session's stage changes: it connects, gets its shell, or is over.
LEMMA StageStep ==
  ASSUME TypeOK, NEW s \in Sessions, SessionOK(s), prog' = prog,
         /\ UNCHANGED <<line[s], toShell[s], late[s], shell[s], fromShell[s], heard[s], cut[s], noisy[s]>>
         /\ reply'[s] = reply[s] \/ (stage[s] = "connect" /\ prog = "socks" /\ stage'[s] = "relay"),
         stage'[s] \in {"relay", "over"} \/ (stage[s] = "resolve" /\ stage'[s] = "connect")
  PROVE  SessionOK(s)'
  <1>1. Turns(s)' = Turns(s)
      BY DEF Turns
  <1>2. TurnOK(s)' /\ LinesOK(s)'
      BY <1>1 DEF SessionOK, TurnOK, LinesOK
  <1>3. StartOK(s)'
      BY DEF SessionOK, StartOK
  <1> QED
      BY <1>2, <1>3 DEF SessionOK

\* The reply is read: it holds no prompt.
LEMMA ReplyStep ==
  ASSUME TypeOK, NEW s \in Sessions, SessionOK(s), prog' = prog,
         NEW n \in 1 .. Len(fromShell[s]), ReadReply(s, n)
  PROVE  SessionOK(s)'
  <1> DEFINE q == fromShell[s]
             rest == SubSeq(q, n + 1, Len(q))
  <1>1. /\ stage[s] = "relay" /\ reply[s] /\ n \in 1 .. 2
        /\ reply'[s] = FALSE /\ fromShell'[s] = rest /\ cut'[s] = (n = 1)
        /\ UNCHANGED <<stage[s], line[s], toShell[s], late[s], shell[s], heard[s], noisy[s]>>
      BY DEF ReadReply, TypeOK, ends
  <1>2. q \in Seq(Units)
      BY Queues
  <1>3. q # <<>>
      BY <1>2, EmptySeq
  <1>4. /\ ~ cut[s] /\ Len(q) >= 2 /\ q[1] = "r" /\ q[2] = "r" /\ shell[s] # "proxy"
      BY <1>1, <1>3 DEF SessionOK, StartOK
  <1>5. q[n] = "r"
      BY <1>1, <1>4
  <1>6. n \notin PromptsIn(q)
      BY <1>2, <1>5, PromptsCount
  <1>7. PromptsIn(SubSeq(q, 1, n)) = {}
    <2>1. \A i \in 1 .. n : q[i] = "r" /\ q[i] \in Units
        BY <1>1, <1>4 DEF Units
    <2>2. n \in Int /\ 1 \in Int /\ 1 <= n /\ n - 1 + 1 = n /\ \A i \in 1 .. n : 1 + i - 1 = i
        BY <1>1
    <2>3. /\ SubSeq(q, 1, n) \in Seq(Units) /\ Len(SubSeq(q, 1, n)) = n
          /\ \A i \in 1 .. n : SubSeq(q, 1, n)[i] = q[i]
        BY <2>1, <2>2, SubSeqProperties
    <2>4. \A i \in 1 .. n - 1 : i \in 1 .. n
        BY <2>2
    <2>5. \A i \in 1 .. n - 1 : SubSeq(q, 1, n)[i] # "%"
        BY <2>1, <2>3, <2>4
    <2> QED
        BY <2>3, <2>5, PromptsCount
  <1>8. Cardinality(PromptsIn(rest)) = Cardinality(PromptsIn(q)) /\ rest \in Seq(Units)
    <2>1. /\ rest \in Seq(Units)
          /\ Cardinality(PromptsIn(q)) = Cardinality(PromptsIn(SubSeq(q, 1, n))) + Cardinality(PromptsIn(rest)) + 0
        BY <1>2, <1>6, PromptsSplit
    <2>2. Cardinality(PromptsIn(SubSeq(q, 1, n))) = 0 /\ Cardinality(PromptsIn(rest)) \in Nat
        BY <1>7, <2>1, FS_EmptySet, PromptsCount
    <2> QED
        BY <2>1, <2>2
  <1>9. PromptsIn(rest) = {} <=> PromptsIn(q) = {}
      BY <1>2, <1>8, PromptsCount
  <1> HIDE DEF q, rest
  <1>10. Turns(s)' = Turns(s)
      BY <1>1, <1>8 DEF Turns, q
  <1>11. TurnOK(s)'
      BY <1>1, <1>4, <1>10 DEF SessionOK, TurnOK
  <1>12. StartOK(s)'
      BY <1>1, <1>4, <1>9 DEF SessionOK, StartOK, q
  <1>13. LinesOK(s)'
      BY <1>1 DEF SessionOK, LinesOK
  <1> QED
      BY <1>11, <1>12, <1>13 DEF SessionOK

\* What a line written does to the queues and to the lines so far.
LEMMA WriteStep ==
  ASSUME TypeOK, NEW s \in Sessions, SessionOK(s), line'[s] = line[s] + 1, noisy'[s] = noisy[s],
         WriteLine(s, Line(s, line[s] + 1))
  PROVE  /\ LinesOK(s)'
         /\ Len(toShell'[s]) \in Nat /\ Len(late'[s]) \in Nat
         /\ Len(toShell'[s]) + Len(late'[s]) = Len(toShell[s]) + Len(late[s]) + 1
         /\ late'[s] # <<>> => Len(toShell[s]) + Len(late[s]) >= 1
  <1> DEFINE l == Line(s, line[s] + 1)
  <1>1. /\ toShell[s] \in Seq(Units) /\ late[s] \in Seq(Units) /\ heard[s] \in Seq(Units)
        /\ line[s] \in Nat
      BY Queues, ConsoleSessionAssumption DEF TypeOK
  <1>2. l \in Units
      BY <1>1, LineUnit
  <1> HIDE DEF l
  <1>3. /\ Len(Append(toShell[s], l)) = Len(toShell[s]) + 1 /\ Len(toShell[s]) \in Nat
        /\ Len(Append(late[s], l)) = Len(late[s]) + 1 /\ Len(late[s]) \in Nat
        /\ Len(Append(heard[s], l)) = Len(heard[s]) + 1 /\ Len(heard[s]) \in Nat
        /\ \A i \in 1 .. Len(heard[s]) : Append(heard[s], l)[i] = heard[s][i]
        /\ Append(heard[s], l)[Len(heard[s]) + 1] = l
        /\ \A i \in 1 .. Len(late[s]) : Append(late[s], l)[i] = late[s][i]
        /\ Append(late[s], l)[Len(late[s]) + 1] = l
      BY <1>1, <1>2, AppendProperties, LenProperties
  <1>4. /\ Len(heard[s]) + Len(late[s]) = line[s]
        /\ \A i \in 1 .. Len(heard[s]) :
              heard[s][i] = Line(s, i) \/ (heard[s][i] = Junk /\ noisy[s])
        /\ \A i \in 1 .. Len(late[s]) : late[s][i] = Line(s, Len(heard[s]) + i)
      BY DEF SessionOK, LinesOK
  <1>5. CASE late[s] = <<>> /\ Len(toShell[s]) < LineCap
    <2>1. /\ toShell'[s] = Append(toShell[s], l) /\ heard'[s] = Append(heard[s], l)
          /\ late'[s] = late[s]
        BY <1>5 DEF WriteLine, TypeOK, l
    <2>2. Len(late[s]) = 0 /\ Len(heard[s]) = line[s]
        BY <1>3, <1>4, <1>5, EmptySeq
    <2>3. /\ Len(heard'[s]) + Len(late'[s]) = line'[s]
          /\ \A i \in 1 .. Len(late'[s]) : late'[s][i] = Line(s, Len(heard'[s]) + i)
        BY <1>3, <2>1, <2>2
    <2>4. ASSUME NEW i \in 1 .. Len(heard'[s])
          PROVE  heard'[s][i] = Line(s, i) \/ (heard'[s][i] = Junk /\ noisy'[s])
      <3>1. i \in 1 .. Len(heard[s]) \/ i = Len(heard[s]) + 1
          BY <1>3, <2>1
      <3>2. CASE i \in 1 .. Len(heard[s])
          BY <1>3, <1>4, <2>1, <3>2
      <3>3. CASE i = Len(heard[s]) + 1
          BY <1>3, <2>1, <2>2, <3>3 DEF l
      <3> QED
          BY <3>1, <3>2, <3>3
    <2>5. LinesOK(s)'
        BY <2>3, <2>4 DEF LinesOK, Line
    <2> QED
        BY <1>3, <1>5, <2>1, <2>2, <2>5
  <1>6. CASE ~ (late[s] = <<>> /\ Len(toShell[s]) < LineCap)
    <2>1. late'[s] = Append(late[s], l) /\ toShell'[s] = toShell[s] /\ heard'[s] = heard[s]
        BY <1>6 DEF WriteLine, TypeOK, l
    <2> DEFINE x == Len(heard[s])
               y == Len(late[s])
               z == Len(toShell[s])
    <2>2. x \in Nat /\ y \in Nat /\ z \in Nat /\ x + y = line[s] /\ Len(Append(late[s], l)) = y + 1
        BY <1>3, <1>4
    <2>3. x + (y + 1) = line[s] + 1 /\ z + (y + 1) = z + y + 1
      <3> HIDE DEF x, y, z
      <3> QED
          BY <2>2
    <2>4. Len(heard'[s]) + Len(late'[s]) = line'[s]
        BY <2>1, <2>2, <2>3
    <2>5. ASSUME NEW i \in 1 .. Len(late'[s])
          PROVE  late'[s][i] = Line(s, Len(heard'[s]) + i)
      <3>1. i \in 1 .. Len(late[s]) \/ i = Len(late[s]) + 1
          BY <1>3, <2>1
      <3>2. CASE i \in 1 .. Len(late[s])
          BY <1>3, <1>4, <2>1, <3>2
      <3>3. CASE i = Len(late[s]) + 1
        BY <1>3, <2>1, <2>3, <3>3 DEF l
      <3> QED
          BY <3>1, <3>2, <3>3
    <2>6. LinesOK(s)'
        BY <1>4, <2>1, <2>4, <2>5 DEF LinesOK, Line
    <2>7. Len(toShell[s]) + Len(late[s]) >= 1
      <3>1. CASE late[s] # <<>>
        <4>1. y # 0
            BY <1>1, <3>1, Numbers
        <4> HIDE DEF y, z
        <4>2. z + y >= 1
            BY <2>2, <4>1
        <4> QED
            BY <4>2 DEF y, z
      <3>2. CASE late[s] = <<>>
          BY <1>3, <1>6, <3>2, ConsoleSessionAssumption
      <3> QED
          BY <3>1, <3>2
    <2>8. Len(toShell'[s]) = z /\ Len(late'[s]) = y + 1 /\ y + 1 \in Nat
        BY <2>1, <2>2
    <2> QED
        BY <2>6, <2>7, <2>2, <2>3, <2>8
  <1> QED
      BY <1>5, <1>6

\* A piece of what the shell wrote is taken, and answered when a prompt is in it.
LEMMA TakeStep ==
  ASSUME TypeOK, NEW s \in Sessions, SessionOK(s), prog' = prog,
         NEW n \in 1 .. Len(fromShell[s]), Take(s, n)
  PROVE  SessionOK(s)'
  <1> DEFINE q == fromShell[s]
             piece == SubSeq(q, 1, n)
             rest == SubSeq(q, n + 1, Len(q))
             old == Cardinality(PromptsIn(q))
             seen == Cardinality(PromptsIn(piece))
             new == Cardinality(PromptsIn(rest))
             was == Len(toShell[s]) + Len(late[s])
             now == Len(toShell'[s]) + Len(late'[s])
  <1>1. /\ stage[s] = "relay" /\ ~ reply[s]
        /\ fromShell'[s] = rest /\ cut'[s] = (cut[s] \/ n \in PromptsIn(q))
        /\ UNCHANGED <<stage[s], reply[s], shell[s], noisy[s]>>
      BY DEF Take, TypeOK
  <1>2. q \in Seq(Units) /\ piece \in Seq(Units) /\ rest \in Seq(Units)
      BY Queues, Piece
  <1>3. /\ old \in Nat /\ seen \in Nat /\ new \in Nat /\ was \in Nat
        /\ seen = 0 <=> PromptsIn(piece) = {}
        /\ new = 0 <=> PromptsIn(rest) = {}
        /\ old = 0 <=> PromptsIn(q) = {}
    <2>1. was \in Nat
      <3>1. Len(toShell[s]) \in Nat /\ Len(late[s]) \in Nat
          BY Numbers
      <3>2. \A x, y \in Nat : x + y \in Nat
          OBVIOUS
      <3> QED
          BY <3>1, <3>2
    <2> HIDE DEF was, q, piece, rest
    <2> QED
        BY <1>2, <2>1, PromptsCount
  <1>4. old = seen + new + (IF n \in PromptsIn(q) THEN 1 ELSE 0)
      BY <1>2, PromptsSplit
  <1>5. /\ Turns(s) = was + old /\ Turns(s)' = now + new
      BY <1>1 DEF Turns
  <1>6. q # <<>> /\ shell[s] # "proxy"
    <2>1. q # <<>>
        BY <1>2, EmptySeq
    <2> QED
        BY <2>1 DEF SessionOK, StartOK
  <1> HIDE DEF q, piece, rest, old, seen, new, was, now
  <1>7. CASE Answered(s, n)
    <2>1. line'[s] = line[s] + 1 /\ WriteLine(s, Line(s, line[s] + 1))
        BY <1>7 DEF Take, TypeOK
    <2>2. /\ LinesOK(s)' /\ now \in Nat /\ now = was + 1
          /\ late'[s] # <<>> => was >= 1
      <3>1. /\ LinesOK(s)' /\ now = was + 1
            /\ late'[s] # <<>> => was >= 1
          BY <1>1, <2>1, WriteStep DEF was, now
      <3>2. now \in Nat
          BY <1>3, <3>1
      <3> QED
          BY <3>1, <3>2
    <2>3. seen >= 1
        BY <1>3, <1>7 DEF Answered, piece, q
    <2>4. shell[s] \notin {"proxy", "starting"}
      <3>1. old # 0
          BY <1>3, <1>4, <2>3
      <3> QED
          BY <1>3, <3>1 DEF SessionOK, StartOK, q
    <2>5. /\ Turns(s)' <= Turns(s) /\ Turns(s)' >= 1 /\ Turns(s) \in Nat
          /\ was >= 1 => ~ (Turns(s) <= 1)
        BY <1>3, <1>4, <1>5, <2>2, <2>3
    <2>6. TurnOK(s)'
      <3>1. Turns(s) <= 1 \/ noisy[s]
          BY DEF SessionOK, TurnOK
      <3>2. Turns(s)' <= 1 \/ noisy'[s]
          BY <1>1, <1>3, <1>5, <2>2, <2>5, <3>1
      <3>3. late'[s] # <<>> => noisy'[s]
          BY <1>1, <2>2, <2>5, <3>1
      <3> QED
          BY <2>5, <3>2, <3>3 DEF TurnOK
    <2>7. StartOK(s)'
        BY <1>1, <2>4 DEF StartOK
    <2> QED
        BY <2>2, <2>6, <2>7 DEF SessionOK
  <1>8. CASE ~ Answered(s, n)
    <2>1. UNCHANGED <<line[s], toShell[s], late[s], heard[s]>>
        BY <1>8 DEF Take, ends
    <2>2. seen = 0 /\ now = was
        BY <1>3, <1>8, <2>1 DEF Answered, piece, q, was, now
    <2>3. /\ Turns(s)' <= Turns(s) /\ Turns(s) \in Nat /\ Turns(s)' \in Nat
          /\ ~ cut'[s] => Turns(s)' = Turns(s)
      <3>1. CASE n \in PromptsIn(q)
        <4>1. cut'[s]
            BY <1>1, <3>1
        <4>2. Turns(s)' <= Turns(s) /\ Turns(s) \in Nat /\ Turns(s)' \in Nat
            BY <1>3, <1>4, <1>5, <2>2, <3>1
        <4> QED
            BY <4>1, <4>2
      <3>2. CASE n \notin PromptsIn(q)
          BY <1>3, <1>4, <1>5, <2>2, <3>2
      <3> QED
          BY <3>1, <3>2
    <2>4. TurnOK(s)'
      <3>1. /\ Turns(s) <= 1 \/ noisy[s]
            /\ shell[s] = "up" /\ ~ cut[s] => Turns(s) >= 1
            /\ late[s] # <<>> => noisy[s]
          BY DEF SessionOK, TurnOK
      <3>2. Turns(s)' <= 1 \/ noisy'[s]
          BY <1>1, <2>3, <3>1
      <3>3. shell'[s] = "up" /\ ~ cut'[s] => Turns(s)' >= 1
          BY <1>1, <2>3, <3>1
      <3> QED
          BY <1>1, <2>1, <3>1, <3>2, <3>3 DEF TurnOK
    <2>5. PromptsIn(q) = {} => PromptsIn(rest) = {}
        BY <1>3, <1>4, <2>2
    <2>6. StartOK(s)'
        BY <1>1, <1>6, <2>1, <2>5 DEF SessionOK, StartOK, q
    <2>7. LinesOK(s)'
        BY <1>1, <2>1 DEF SessionOK, LinesOK
    <2> QED
        BY <2>4, <2>6, <2>7 DEF SessionOK
  <1> QED
      BY <1>7, <1>8

\* A line that waited is written, or what is in its place by then.
LEMMA FlushStep ==
  ASSUME TypeOK, NEW s \in Sessions, SessionOK(s), prog' = prog, Flush(s)
  PROVE  SessionOK(s)'
  <1>1. PICK l \in {Head(late[s]), Junk} :
           /\ toShell'[s] = Append(toShell[s], l) /\ heard'[s] = Append(heard[s], l)
      BY DEF Flush, TypeOK
  <1>2. /\ late[s] # <<>> /\ late'[s] = Tail(late[s])
        /\ UNCHANGED <<stage[s], reply[s], line[s], shell[s], fromShell[s], cut[s], noisy[s]>>
      BY DEF Flush, TypeOK
  <1>3. /\ toShell[s] \in Seq(Units) /\ late[s] \in Seq(Units) /\ heard[s] \in Seq(Units)
      BY Queues
  <1>4. /\ Head(late[s]) \in Units /\ Head(late[s]) = late[s][1] /\ Junk \in Units
        /\ Len(Tail(late[s])) = Len(late[s]) - 1
        /\ \A i \in 1 .. Len(Tail(late[s])) : Tail(late[s])[i] = late[s][i + 1]
      BY <1>2, <1>3, HeadTailProperties DEF Units
  <1>5. /\ Len(Append(toShell[s], l)) = Len(toShell[s]) + 1
        /\ Len(Append(heard[s], l)) = Len(heard[s]) + 1
        /\ \A i \in 1 .. Len(heard[s]) : Append(heard[s], l)[i] = heard[s][i]
        /\ Append(heard[s], l)[Len(heard[s]) + 1] = l
      BY <1>1, <1>3, <1>4, AppendProperties
  <1>6. PICK x \in Nat, y \in Nat, z \in Nat, c \in Nat :
           /\ x = Len(heard[s]) /\ y = Len(late[s]) /\ z = Len(toShell[s])
           /\ c = Cardinality(PromptsIn(fromShell[s]))
    <2>1. Len(heard[s]) \in Nat
        BY <1>3, LenProperties
    <2> QED
        BY <2>1, Numbers
  <1>7. y # 0 /\ y - 1 \in Nat
    <2>1. y # 0
        BY <1>2, <1>6, Numbers
    <2> QED
        BY <1>6, <2>1
  <1>8. /\ x + y = line[s]
        /\ \A i \in 1 .. x : heard[s][i] = Line(s, i) \/ (heard[s][i] = Junk /\ noisy[s])
        /\ \A i \in 1 .. y : late[s][i] = Line(s, x + i)
        /\ noisy[s]
      BY <1>2, <1>6 DEF SessionOK, LinesOK, TurnOK
  <1>9. Len(toShell'[s]) = z + 1 /\ Len(heard'[s]) = x + 1 /\ Len(late'[s]) = y - 1
      BY <1>1, <1>2, <1>4, <1>5, <1>6
  <1>10. Turns(s)' = Turns(s)
    <2>1. Turns(s) = z + y + c /\ Turns(s)' = (z + 1) + (y - 1) + c
        BY <1>2, <1>6, <1>9 DEF Turns
    <2>2. z + y + c = (z + 1) + (y - 1) + c
        OBVIOUS
    <2> QED
        BY <2>1, <2>2
  <1>11. TurnOK(s)'
      BY <1>2, <1>8, <1>10 DEF SessionOK, TurnOK
  <1>12. StartOK(s)'
      BY <1>2 DEF SessionOK, StartOK
  <1>13. LinesOK(s)'
    <2>1. (x + 1) + (y - 1) = line[s]
      <3>1. (x + 1) + (y - 1) = x + y
          OBVIOUS
      <3> QED
          BY <1>8, <3>1
    <2>2. ASSUME NEW i \in 1 .. x + 1
          PROVE  heard'[s][i] = Line(s, i) \/ (heard'[s][i] = Junk /\ noisy'[s])
      <3>1. i \in 1 .. x \/ i = x + 1
          BY <1>6
      <3>2. CASE i \in 1 .. x
          BY <1>1, <1>2, <1>5, <1>6, <1>8, <3>2
      <3>3. CASE i = x + 1
        <4>1. 1 \in 1 .. y
            BY <1>6, <1>7
        <4>2. Head(late[s]) = Line(s, x + 1)
            BY <1>4, <1>8, <4>1
        <4>3. heard'[s][i] = l
            BY <1>1, <1>5, <1>6, <3>3
        <4> QED
            BY <1>1, <1>2, <1>8, <3>3, <4>2, <4>3
      <3> QED
          BY <3>1, <3>2, <3>3
    <2>3. ASSUME NEW i \in 1 .. y - 1
          PROVE  late'[s][i] = Line(s, (x + 1) + i)
      <3>1. i + 1 \in 1 .. y /\ x + (i + 1) = (x + 1) + i
          OBVIOUS
      <3>2. late'[s][i] = late[s][i + 1]
          BY <1>2, <1>4, <1>6
      <3> QED
          BY <1>8, <3>1, <3>2
    <2> QED
        BY <1>2, <1>9, <2>1, <2>2, <2>3 DEF LinesOK, Line
  <1> QED
      BY <1>11, <1>12, <1>13 DEF SessionOK

\* The first two units of a queue stay when more come.
LEMMA FirstTwoStay ==
  ASSUME NEW q \in Seq(Units), NEW u \in Seq(Units), Len(q) >= 2
  PROVE  Len(q \o u) >= 2 /\ (q \o u)[1] = q[1] /\ (q \o u)[2] = q[2]
  <1>1. PICK x \in Nat, y \in Nat : x = Len(q) /\ y = Len(u)
      BY LenProperties
  <1>2. /\ Len(q \o u) = x + y
        /\ \A i \in 1 .. x + y : (q \o u)[i] = IF i <= x THEN q[i] ELSE u[i - x]
      BY <1>1, ConcatProperties
  <1>3. x >= 2 /\ x + y >= 2 /\ 1 \in 1 .. x + y /\ 2 \in 1 .. x + y /\ 1 <= x /\ 2 <= x
      BY <1>1
  <1> QED
      BY <1>2, <1>3

\* A reply comes, or the SOCKS server goes away.
LEMMA ProxyStep ==
  ASSUME TypeOK, NEW s \in Sessions, SessionOK(s), prog' = prog, ProxyAnswers(s)
  PROVE  SessionOK(s)'
  <1>1. PICK next \in {"starting", "gone"}, r \in {<<"r", "r">>, <<>>} :
           /\ next = "starting" => r # <<>>
           /\ shell'[s] = next /\ fromShell'[s] = fromShell[s] \o r
      BY DEF ProxyAnswers, TypeOK
  <1>2. /\ stage[s] = "relay" /\ shell[s] = "proxy"
        /\ UNCHANGED <<stage[s], reply[s], line[s], toShell[s], late[s], heard[s], cut[s], noisy[s]>>
      BY DEF ProxyAnswers, ends
  <1>3. /\ fromShell[s] = <<>> /\ toShell[s] = <<>> /\ late[s] = <<>>
      BY <1>2 DEF SessionOK, StartOK
  <1>4. "r" \in Units /\ <<"r", "r">> \in Seq(Units) /\ <<>> \in Seq(Units)
    <2>1. "r" \in Units
        BY DEF Units
    <2> QED
        BY <2>1
  <1>5. fromShell'[s] = r /\ r \in Seq(Units)
      BY <1>1, <1>3, <1>4, ConcatEmptySeq
  <1>6. \/ r = <<>>
        \/ Len(r) = 2 /\ r[1] = "r" /\ r[2] = "r"
      BY <1>1
  <1>7. PromptsIn(r) = {}
    <2>1. CASE r = <<>>
      <3>1. Len(r) = 0 /\ 1 .. 0 - 1 = {}
          BY <2>1
      <3> QED
          BY <3>1 DEF PromptsIn
    <2>2. CASE Len(r) = 2 /\ r[1] = "r" /\ r[2] = "r"
      <3>1. 1 .. 2 - 1 = {1}
          OBVIOUS
      <3>2. PromptsIn(r) = {i \in {1} : r[i] = "%" /\ r[i + 1] = "sp"}
          BY <1>5, <2>2, <3>1, PromptsCount
      <3> QED
          BY <2>2, <3>2
    <2> QED
        BY <1>6, <2>1, <2>2
  <1>8. Turns(s)' = 0
    <2>1. Cardinality(PromptsIn(r)) = 0 /\ Len(toShell[s]) = 0 /\ Len(late[s]) = 0
        BY <1>3, <1>5, <1>7, Numbers, PromptsCount
    <2> QED
        BY <1>2, <1>5, <2>1 DEF Turns
  <1>9. TurnOK(s)'
      BY <1>1, <1>2, <1>3, <1>8 DEF TurnOK
  <1>10. StartOK(s)'
    <2>1. Len(r) = 2 => Len(r) >= 2
        OBVIOUS
    <2>2. reply[s] => ~ cut[s]
        BY DEF SessionOK, StartOK
    <2>3. \/ r = <<>> /\ next = "gone"
          \/ Len(r) >= 2 /\ r[1] = "r" /\ r[2] = "r"
        BY <1>1, <1>6, <2>1
    <2> QED
        BY <1>1, <1>2, <1>3, <1>5, <1>7, <2>2, <2>3 DEF StartOK
  <1>11. LinesOK(s)'
      BY <1>2 DEF SessionOK, LinesOK
  <1> QED
      BY <1>9, <1>10, <1>11 DEF SessionOK

\* The shell asks for its first line.
LEMMA StartStep ==
  ASSUME TypeOK, NEW s \in Sessions, SessionOK(s), prog' = prog, ShellStart(s)
  PROVE  SessionOK(s)'
  <1> DEFINE q == fromShell[s]
  <1>1. /\ stage[s] = "relay" /\ shell[s] = "starting" /\ shell'[s] = "up"
        /\ fromShell'[s] = q \o Prompt
        /\ UNCHANGED <<stage[s], reply[s], line[s], toShell[s], late[s], heard[s], cut[s], noisy[s]>>
      BY DEF ShellStart, Says, TypeOK, ends
  <1>2. toShell[s] = <<>> /\ late[s] = <<>> /\ PromptsIn(q) = {} /\ q \in Seq(Units)
      BY <1>1, Queues DEF SessionOK, StartOK
  <1>3. Prompt \in Seq(Units)
      BY DEF Prompt, Units
  <1> HIDE DEF q
  <1>4. Cardinality(PromptsIn(q \o Prompt)) = 1
    <2>1. Cardinality(PromptsIn(q)) = 0
        BY <1>2, PromptsCount
    <2>2. Cardinality(PromptsIn(q \o Prompt)) = Cardinality(PromptsIn(q)) + 1
        BY <1>2, MorePrompt
    <2> QED
        BY <2>1, <2>2
  <1>5. Turns(s)' = 1
    <2>1. Len(toShell[s]) = 0 /\ Len(late[s]) = 0
        BY <1>2, EmptySeq
    <2> QED
        BY <1>1, <1>4, <2>1 DEF Turns
  <1>6. TurnOK(s)'
      BY <1>1, <1>2, <1>5 DEF TurnOK
  <1>7. StartOK(s)'
    <2>1. reply[s] => ~ cut[s] /\ Len(q) >= 2 /\ q[1] = "r" /\ q[2] = "r"
        BY <1>1 DEF SessionOK, StartOK, q
    <2>2. reply[s] => Len(q \o Prompt) >= 2 /\ (q \o Prompt)[1] = "r" /\ (q \o Prompt)[2] = "r"
        BY <1>2, <1>3, <2>1, FirstTwoStay
    <2> QED
        BY <1>1, <2>1, <2>2 DEF StartOK
  <1>8. LinesOK(s)'
      BY <1>1 DEF SessionOK, LinesOK
  <1> QED
      BY <1>6, <1>7, <1>8 DEF SessionOK

\* The shell reads a line, and asks for the next one or exits.
LEMMA RunStep ==
  ASSUME TypeOK, NEW s \in Sessions, SessionOK(s), prog' = prog, ShellRun(s)
  PROVE  SessionOK(s)'
  <1> DEFINE q == fromShell[s]
  <1>1. /\ shell[s] = "up" /\ toShell[s] # <<>> /\ toShell'[s] = Tail(toShell[s])
        /\ UNCHANGED <<stage[s], reply[s], line[s], late[s], heard[s], cut[s]>>
      BY DEF ShellRun, TypeOK
  <1>2. noisy[s] => noisy'[s]
      BY DEF ShellRun, TypeOK
  <1>3. q \in Seq(Units) /\ Prompt \in Seq(Units)
      BY Queues DEF Prompt, Units
  <1>4. PICK y \in Nat, z \in Nat, c \in Nat :
           /\ y = Len(late[s]) /\ z = Len(toShell[s]) /\ c = Cardinality(PromptsIn(q))
      BY Numbers
  <1>5. z # 0 /\ z - 1 \in Nat
    <2>1. z # 0
        BY <1>1, <1>4, Numbers
    <2> QED
        BY <2>1
  <1>6. Len(toShell'[s]) = z - 1
      BY <1>1, <1>4, Queues, HeadTailProperties
  <1>7. /\ z + y + c <= 1 \/ noisy[s]
        /\ ~ cut[s] => z + y + c >= 1
        /\ late[s] # <<>> => noisy[s]
        /\ shell[s] = "up" /\ stage[s] \notin {"none", "resolve", "connect"}
        /\ reply[s] => ~ cut[s] /\ Len(q) >= 2 /\ q[1] = "r" /\ q[2] = "r"
    <2>1. Turns(s) = z + y + c
        BY <1>4 DEF Turns
    <2>2. stage[s] \notin {"none", "resolve", "connect"}
        BY <1>1 DEF SessionOK, StartOK
    <2> QED
        BY <1>1, <2>1, <2>2 DEF SessionOK, StartOK, TurnOK
  <1>8. LinesOK(s)'
      BY <1>1, <1>2 DEF SessionOK, LinesOK
  <1>9. CASE Head(toShell[s]) = "exit"
    <2>1. shell'[s] = "gone" /\ fromShell'[s] = q
        BY <1>9 DEF ShellRun, TypeOK
    <2>2. Turns(s)' = (z - 1) + y + c
        BY <1>1, <1>4, <1>6, <2>1 DEF Turns
    <2>3. z + y + c <= 1 => (z - 1) + y + c <= 1
        OBVIOUS
    <2>4. TurnOK(s)'
        BY <1>1, <1>2, <1>7, <2>1, <2>2, <2>3 DEF TurnOK
    <2>5. StartOK(s)'
        BY <1>1, <1>7, <2>1 DEF StartOK
    <2> QED
        BY <1>8, <2>4, <2>5 DEF SessionOK
  <1>10. ASSUME NEW u \in Seq(Units),
                \/ Cardinality(PromptsIn(q \o u)) = c
                \/ Cardinality(PromptsIn(q \o u)) = c + 1 /\ noisy'[s],
                shell'[s] = shell[s], fromShell'[s] = q \o (u \o Prompt)
         PROVE  SessionOK(s)'
    <2>0. PICK k \in {0, 1} : Cardinality(PromptsIn(q \o u)) = c + k /\ (k = 1 => noisy'[s])
        BY <1>10
    <2> HIDE DEF q
    <2>1. /\ u \o Prompt \in Seq(Units) /\ q \o (u \o Prompt) = (q \o u) \o Prompt
      <3>1. u \o Prompt \in Seq(Units)
          BY <1>3, ConcatProperties
      <3>2. (q \o u) \o Prompt = q \o (u \o Prompt)
          BY <1>3, ConcatAssociative
      <3> QED
          BY <3>1, <3>2
    <2>2. Cardinality(PromptsIn((q \o u) \o Prompt)) = (c + k) + 1
      <3>1. q \o u \in Seq(Units)
          BY <1>3, ConcatProperties
      <3> QED
          BY <2>0, <3>1, MorePrompt
    <2>3. Turns(s)' = (z - 1) + y + ((c + k) + 1)
        BY <1>1, <1>4, <1>6, <1>10, <2>1, <2>2 DEF Turns
    <2>4. (z - 1) + y + ((c + k) + 1) = (z + y + c) + k
        BY <2>0
    <2>5. /\ (z + y + c) + k <= 1 \/ noisy'[s]
          /\ ~ cut[s] => (z + y + c) + k >= 1
        BY <1>2, <1>7, <2>0
    <2>6. TurnOK(s)'
        BY <1>1, <1>2, <1>7, <2>3, <2>4, <2>5 DEF TurnOK
    <2>7. reply[s] =>
             /\ Len(fromShell'[s]) >= 2 /\ fromShell'[s][1] = "r" /\ fromShell'[s][2] = "r"
        BY <1>3, <1>7, <1>10, <2>1, FirstTwoStay
    <2>8. StartOK(s)'
        BY <1>1, <1>7, <1>10, <2>7 DEF StartOK
    <2> QED
        BY <1>8, <2>6, <2>8 DEF SessionOK
  <1>11. CASE Head(toShell[s]) # "exit"
    <2>1. /\ shell'[s] = shell[s]
          /\ \/ fromShell'[s] = q \o (<<"t">> \o Prompt)
             \/ fromShell'[s] = q \o (<<>> \o Prompt)
             \/ fromShell'[s] = q \o (Prompt \o Prompt) /\ noisy'[s]
        BY <1>11 DEF ShellRun, Says, TypeOK
    <2> HIDE DEF q
    <2>2. /\ <<"t">> \in Seq(Units) /\ <<>> \in Seq(Units)
          /\ \A i \in 1 .. Len(<<"t">>) : <<"t">>[i] \notin {"%", "sp"}
          /\ \A i \in 1 .. Len(<<>>) : FALSE
      <3>1. /\ "t" \in Units /\ Len(<<"t">>) = 1 /\ <<"t">>[1] = "t"
            /\ \A i \in 1 .. 1 : i = 1
          BY DEF Units
      <3> QED
          BY <3>1
    <2>3. ASSUME NEW u \in Seq(Units), \A i \in 1 .. Len(u) : u[i] \notin {"%", "sp"},
                 fromShell'[s] = q \o (u \o Prompt)
          PROVE  SessionOK(s)'
      <3>1. PromptsIn(q \o u) = PromptsIn(q)
          BY <1>3, <2>3, MoreText
      <3>2. Cardinality(PromptsIn(q \o u)) = c
          BY <1>4, <3>1
      <3> QED
          BY <1>10, <2>1, <2>3, <3>2
    <2>4. CASE fromShell'[s] = q \o (Prompt \o Prompt) /\ noisy'[s]
      <3>1. Cardinality(PromptsIn(q \o Prompt)) = c + 1
          BY <1>3, <1>4, MorePrompt
      <3> QED
          BY <1>3, <1>10, <2>1, <2>4, <3>1
    <2> QED
        BY <2>1, <2>2, <2>3, <2>4
  <1> QED
      BY <1>9, <1>11

\* A message of another user, which may look like a prompt.
LEMMA NoiseStep ==
  ASSUME TypeOK, NEW s \in Sessions, SessionOK(s), prog' = prog, Noise(s)
  PROVE  SessionOK(s)'
  <1> DEFINE q == fromShell[s]
  <1>1. PICK u \in {<<"t">>, Prompt} :
           /\ fromShell'[s] = q \o u /\ noisy'[s] = (noisy[s] \/ u = Prompt)
      BY DEF Noise, Says, TypeOK
  <1>2. /\ shell[s] = "up"
        /\ UNCHANGED <<stage[s], reply[s], line[s], toShell[s], late[s], shell[s], heard[s], cut[s]>>
      BY DEF Noise, ends
  <1>3. q \in Seq(Units) /\ Prompt \in Seq(Units) /\ <<"t">> \in Seq(Units)
      BY Queues DEF Prompt, Units
  <1>4. noisy[s] => noisy'[s]
      BY <1>1
  <1>5. PICK y \in Nat, z \in Nat, c \in Nat :
           /\ y = Len(late[s]) /\ z = Len(toShell[s]) /\ c = Cardinality(PromptsIn(q))
      BY Numbers
  <1>6. /\ z + y + c <= 1 \/ noisy[s]
        /\ ~ cut[s] => z + y + c >= 1
        /\ late[s] # <<>> => noisy[s]
        /\ stage[s] \notin {"none", "resolve", "connect"}
        /\ reply[s] => ~ cut[s] /\ Len(q) >= 2 /\ q[1] = "r" /\ q[2] = "r"
    <2>1. Turns(s) = z + y + c
        BY <1>5 DEF Turns
    <2>2. stage[s] \notin {"none", "resolve", "connect"}
        BY <1>2 DEF SessionOK, StartOK
    <2> QED
        BY <1>2, <2>1, <2>2 DEF SessionOK, StartOK, TurnOK
  <1> HIDE DEF q
  <1>7. TurnOK(s)'
    <2>1. CASE u = <<"t">>
      <3>1. Len(<<"t">>) = 1 /\ <<"t">>[1] = "t" /\ \A i \in 1 .. 1 : i = 1
          OBVIOUS
      <3>2. \A i \in 1 .. Len(u) : u[i] \notin {"%", "sp"}
          BY <2>1, <3>1
      <3>3. Cardinality(PromptsIn(q \o u)) = c
          BY <1>3, <1>5, <2>1, <3>2, MoreText
      <3>4. Turns(s)' = z + y + c
          BY <1>1, <1>2, <1>5, <3>3 DEF Turns
      <3> QED
          BY <1>2, <1>4, <1>6, <3>4 DEF TurnOK
    <2>2. CASE u = Prompt
      <3>1. Cardinality(PromptsIn(q \o u)) = c + 1 /\ noisy'[s]
          BY <1>1, <1>3, <1>5, <2>2, MorePrompt
      <3>2. Turns(s)' = z + y + (c + 1)
          BY <1>1, <1>2, <1>5, <3>1 DEF Turns
      <3>3. z + y + (c + 1) >= 1
          OBVIOUS
      <3> QED
          BY <3>1, <3>2, <3>3 DEF TurnOK
    <2> QED
        BY <1>1, <2>1, <2>2
  <1>8. StartOK(s)'
    <2>1. reply[s] => Len(q \o u) >= 2 /\ (q \o u)[1] = "r" /\ (q \o u)[2] = "r"
        BY <1>1, <1>3, <1>6, FirstTwoStay
    <2> QED
        BY <1>1, <1>2, <1>6, <2>1 DEF StartOK
  <1>9. LinesOK(s)'
      BY <1>2, <1>4 DEF SessionOK, LinesOK
  <1> QED
      BY <1>7, <1>8, <1>9 DEF SessionOK

-----------------------------------------------------------------------------
(* The invariant. *)

\* A step of one session leaves the others alone.
LEMMA OthersStill ==
  ASSUME IInv, NEW s \in Sessions, prog' = prog, SessionOK(s)',
         \A r \in Sessions \ {s} : Mine(r)' = Mine(r)
  PROVE  \A r \in Sessions : SessionOK(r)'
  BY Still DEF IInv, SessionOK

\* A read changes nothing of other sessions.
LEMMA TakeMine ==
  ASSUME TypeOK, NEW s \in Sessions, NEW n, Take(s, n), NEW r \in Sessions \ {s}
  PROVE  Mine(r)' = Mine(r) /\ prog' = prog
  <1>1. UNCHANGED <<prog, stage[r], reply[r], shell[r], noisy[r], fromShell[r], cut[r]>>
      BY DEF Take, TypeOK
  <1>2. UNCHANGED <<line[r], toShell[r], late[r], heard[r]>>
    <2>1. CASE Answered(s, n)
        BY <2>1 DEF Take, TypeOK, WriteLine
    <2>2. CASE ~ Answered(s, n)
        BY <2>2 DEF Take, ends
    <2> QED
        BY <2>1, <2>2
  <1> QED
      BY <1>1, <1>2 DEF Mine

\* The invariant holds at the start.
LEMMA InitInv == ASSUME Init PROVE IInv
  <1>1. TypeOK
    <2>1. <<>> \in Seq(Units) /\ <<>> \in Seq(Sessions \X Seq(Units)) /\ Len(<<>>) = 0
        OBVIOUS
    <2>2. /\ line \in [Sessions -> 0 .. MaxLines] /\ unread \in 0 .. PageCap /\ noise \in 0 .. MaxNoise
        BY ConsoleSessionAssumption DEF Init
    <2>3. \A s \in Sessions : Len(toShell[s]) <= LineCap
        BY <2>1, ConsoleSessionAssumption DEF Init
    <2>4. /\ toShell \in [Sessions -> Seq(Units)] /\ late \in [Sessions -> Seq(Units)]
          /\ heard \in [Sessions -> Seq(Units)] /\ fromShell \in [Sessions -> Seq(Units)]
          /\ said \in [Sessions -> Seq(Units)] /\ shown \in [Sessions -> Seq(Units)]
        BY <2>1 DEF Init
    <2>5. stage \in [Sessions -> {"none", "resolve", "connect", "relay", "over"}]
      <3>1. PICK asked \in SUBSET Sessions :
               stage = [s \in Sessions |-> IF s \in asked THEN "resolve" ELSE "none"]
          BY DEF Init
      <3> QED
          BY <3>1
    <2>6. /\ prog \in Programs /\ owed \in Seq(Sessions \X Seq(Units))
          /\ shell \in [Sessions -> {"proxy", "starting", "up", "gone"}]
          /\ reply \in [Sessions -> BOOLEAN]
          /\ cut \in [Sessions -> BOOLEAN] /\ noisy \in [Sessions -> BOOLEAN]
        BY <2>1 DEF Init
    <2> QED
        BY <2>2, <2>3, <2>4, <2>5, <2>6 DEF TypeOK
  <1>2. ASSUME NEW s \in Sessions PROVE SessionOK(s)
    <2>1. /\ stage[s] \in {"none", "resolve"} /\ ~ reply[s] /\ line[s] = 0
          /\ toShell[s] = <<>> /\ late[s] = <<>> /\ fromShell[s] = <<>> /\ heard[s] = <<>>
          /\ shell[s] = (IF prog = "socks" THEN "proxy" ELSE "starting")
          /\ ~ cut[s] /\ ~ noisy[s]
      <3>1. stage[s] \in {"none", "resolve"}
          BY DEF Init
      <3> QED
          BY <3>1 DEF Init
    <2>2. Len(<<>>) = 0 /\ \A i \in 1 .. 0 : FALSE
        OBVIOUS
    <2>3. PromptsIn(fromShell[s]) = {}
      <3>1. 1 .. 0 - 1 = {}
          OBVIOUS
      <3> QED
          BY <2>1, <2>2, <3>1 DEF PromptsIn
    <2>4. Turns(s) = 0
      <3>1. /\ Len(toShell[s]) = 0 /\ Len(late[s]) = 0
            /\ Cardinality(PromptsIn(fromShell[s])) = 0
          BY <2>1, <2>2, <2>3, FS_EmptySet
      <3> QED
          BY <3>1 DEF Turns
    <2>5. TurnOK(s)
        BY <2>1, <2>4 DEF TurnOK
    <2>6. StartOK(s)
        BY <2>1, <2>3 DEF StartOK
    <2>7. LinesOK(s)
        BY <2>1, <2>2 DEF LinesOK
    <2> QED
        BY <2>5, <2>6, <2>7 DEF SessionOK
  <1> QED
      BY <1>1, <1>2 DEF IInv, SessionOK

\* Every step keeps it.
LEMMA StepInv == ASSUME IInv, [Next]_vars PROVE IInv'
  <1>1. TypeOK /\ \A s \in Sessions : SessionOK(s)
      BY DEF IInv, SessionOK
  <1>2. TypeOK'
      BY <1>1, TypeStep
  <1> DEFINE Good == \A s \in Sessions : SessionOK(s)'
  <1>3. ASSUME NEW s \in Sessions, Resolve(s) \/ Connect(s) \/ ConnectSocks(s) \/ ReadEnd(s)
        PROVE  Good
    <2>1. /\ prog' = prog
          /\ UNCHANGED <<line[s], toShell[s], late[s], shell[s], fromShell[s], heard[s], cut[s], noisy[s]>>
        BY <1>3 DEF Resolve, Connect, ConnectSocks, ReadEnd, ends
    <2>2. \/ stage'[s] \in {"relay", "over"}
          \/ stage[s] = "resolve" /\ stage'[s] = "connect"
        BY <1>1, <1>3 DEF Resolve, Connect, ConnectSocks, ReadEnd, TypeOK
    <2>3. \/ reply'[s] = reply[s]
          \/ stage[s] = "connect" /\ prog = "socks" /\ stage'[s] = "relay"
        BY <1>1, <1>3 DEF Resolve, Connect, ConnectSocks, ReadEnd, TypeOK
    <2>4. \A r \in Sessions \ {s} : Mine(r)' = Mine(r)
        BY <1>1, <1>3 DEF Resolve, Connect, ConnectSocks, ReadEnd, ends, TypeOK, Mine
    <2>5. SessionOK(s)'
        BY <1>1, <2>1, <2>2, <2>3, StageStep
    <2> QED
        BY <2>1, <2>4, <2>5, OthersStill
  <1>4. ASSUME NEW s \in Sessions, Abort(s) PROVE Good
    <2> SUFFICES ASSUME NEW r \in Sessions PROVE SessionOK(r)'
        OBVIOUS
    <2>1. /\ UNCHANGED <<prog, line, toShell, late, shell, fromShell, heard, cut, noisy, reply>>
        BY <1>4 DEF Abort, ends
    <2>2. stage'[r] = IF stage[r] = "none" THEN "none" ELSE "over"
        BY <1>4 DEF Abort
    <2>3. CASE stage[r] = "none"
        BY <1>1, <2>1, <2>2, <2>3, Still DEF Mine
    <2>4. CASE stage[r] # "none"
        BY <1>1, <2>1, <2>2, <2>4, StageStep
    <2> QED
        BY <2>3, <2>4
  <1>5. ASSUME NEW s \in Sessions, NEW n \in 1 .. Len(fromShell[s]), ReadReply(s, n) PROVE Good
    <2>1. prog' = prog /\ \A r \in Sessions \ {s} : Mine(r)' = Mine(r)
        BY <1>1, <1>5 DEF ReadReply, ends, TypeOK, Mine
    <2>2. SessionOK(s)'
        BY <1>1, <1>5, <2>1, ReplyStep
    <2> QED
        BY <2>1, <2>2, OthersStill
  <1>6. ASSUME NEW s \in Sessions, NEW n \in 1 .. Len(fromShell[s]), Take(s, n) PROVE Good
    <2>1. prog' = prog
        BY <1>6 DEF Take
    <2>2. \A r \in Sessions \ {s} : Mine(r)' = Mine(r)
        BY <1>1, <1>6, TakeMine
    <2>3. SessionOK(s)'
        BY <1>1, <1>6, <2>1, TakeStep
    <2> QED
        BY <2>1, <2>2, <2>3, OthersStill
  <1>7. ASSUME NEW s \in Sessions, Flush(s) PROVE Good
    <2>1. prog' = prog /\ \A r \in Sessions \ {s} : Mine(r)' = Mine(r)
        BY <1>1, <1>7 DEF Flush, TypeOK, Mine
    <2> QED
        BY <1>1, <1>7, <2>1, FlushStep, OthersStill
  <1>8. ASSUME FlushPage \/ Browse \/ UNCHANGED vars PROVE Good
    <2>1. UNCHANGED <<prog, stage, reply, line, toShell, late, shell, fromShell, heard, cut, noisy>>
        BY <1>8 DEF FlushPage, Browse, vars, ends
    <2>2. prog' = prog /\ \A r \in Sessions : Mine(r)' = Mine(r)
        BY <2>1 DEF Mine
    <2> SUFFICES ASSUME NEW r \in Sessions PROVE SessionOK(r)'
        OBVIOUS
    <2> QED
        BY <1>1, <2>2, Still
  <1>9. ASSUME NEW s \in Sessions, ProxyAnswers(s) PROVE Good
    <2>1. prog' = prog /\ \A r \in Sessions \ {s} : Mine(r)' = Mine(r)
        BY <1>1, <1>9 DEF ProxyAnswers, ends, TypeOK, Mine
    <2> QED
        BY <1>1, <1>9, <2>1, ProxyStep, OthersStill
  <1>10. ASSUME NEW s \in Sessions, ShellStart(s) PROVE Good
    <2>1. prog' = prog /\ \A r \in Sessions \ {s} : Mine(r)' = Mine(r)
        BY <1>1, <1>10 DEF ShellStart, Says, ends, TypeOK, Mine
    <2> QED
        BY <1>1, <1>10, <2>1, StartStep, OthersStill
  <1>11. ASSUME NEW s \in Sessions, ShellRun(s) PROVE Good
    <2>1. prog' = prog /\ \A r \in Sessions \ {s} : Mine(r)' = Mine(r)
        BY <1>1, <1>11 DEF ShellRun, Says, TypeOK, Mine
    <2> QED
        BY <1>1, <1>11, <2>1, RunStep, OthersStill
  <1>12. ASSUME NEW s \in Sessions, Noise(s) PROVE Good
    <2>1. prog' = prog /\ \A r \in Sessions \ {s} : Mine(r)' = Mine(r)
        BY <1>1, <1>12 DEF Noise, Says, ends, TypeOK, Mine
    <2> QED
        BY <1>1, <1>12, <2>1, NoiseStep, OthersStill
  <1> HIDE DEF Good
  <1>13. Good
      BY <1>3, <1>4, <1>5, <1>6, <1>7, <1>8, <1>9, <1>10, <1>11, <1>12
      DEF Next, Handler, Shell, ReceiveCgi, ReceiveSocks, ReceiveWeb
  <1> QED
      BY <1>2, <1>13 DEF IInv, SessionOK, Good

\* Together: the invariant of every session, in every reachable state.
THEOREM Invariance == Spec => []IInv
  <1>1. Init => IInv
      BY InitInv
  <1>2. IInv /\ [Next]_vars => IInv'
      BY StepInv
  <1> QED
      BY <1>1, <1>2, PTL DEF Spec

\* The types, and the sockets' limits, hold for every set of sessions, script and
\* size of a socket buffer.
THEOREM TypeCorrect == Spec => []TypeOK
  <1>1. IInv => TypeOK
      BY DEF IInv
  <1> QED
      BY <1>1, Invariance, PTL

\* The length of two queues together.
LEMMA BothLengths ==
  ASSUME NEW a \in Seq(Units), NEW b \in Seq(Units)
  PROVE  Len(a \o b) = Len(a) + Len(b)
  BY ConcatProperties

\* A session and its shell never both wait, and the session sends no line that it
\* was not asked for (hw4 console.cpp:234).
THEOREM TurnCorrect == Spec => []OneTurn
  <1>1. IInv => OneTurn
    <2> SUFFICES ASSUME IInv, NEW s \in Sessions,
                        stage[s] = "relay", ~ reply[s], shell[s] = "up", ~ cut[s]
                 PROVE  LET turns == Len(toShell[s] \o late[s]) + Cardinality(PromptsIn(fromShell[s]))
                        IN  turns >= 1 /\ (turns = 1 \/ noisy[s])
        BY DEF OneTurn
    <2>1. TypeOK /\ TurnOK(s)
        BY DEF IInv
    <2>2. PICK y \in Nat, z \in Nat, c \in Nat :
             /\ y = Len(late[s]) /\ z = Len(toShell[s])
             /\ c = Cardinality(PromptsIn(fromShell[s]))
        BY <2>1, Numbers
    <2>3. Len(toShell[s] \o late[s]) = z + y
        BY <2>1, <2>2, Queues, BothLengths
    <2>4. z + y + c >= 1 /\ (z + y + c <= 1 \/ noisy[s])
        BY <2>1, <2>2 DEF TurnOK, Turns
    <2>5. z + y + c >= 1 /\ z + y + c <= 1 => z + y + c = 1
        OBVIOUS
    <2> QED
        BY <2>2, <2>3, <2>4, <2>5
  <1> QED
      BY <1>1, Invariance, PTL

\* The lines of a script come to the shell in order and whole (hw4
\* console.cpp:243, the buffer is a local), as long as nobody's message looks
\* like a prompt.
THEOREM LinesCorrect == Spec => []LinesInOrder
  <1>1. IInv => LinesInOrder
    <2> SUFFICES ASSUME IInv, NEW s \in Sessions
                 PROVE  LET sent == heard[s] \o late[s]
                        IN  /\ Len(sent) = line[s]
                            /\ \A i \in DOMAIN sent :
                                  sent[i] = Line(s, i) \/ (sent[i] = Junk /\ noisy[s])
        BY DEF LinesInOrder
    <2> DEFINE sent == heard[s] \o late[s]
    <2>1. TypeOK /\ LinesOK(s)
        BY DEF IInv
    <2>2. heard[s] \in Seq(Units) /\ late[s] \in Seq(Units)
        BY <2>1, Queues
    <2>3. PICK x \in Nat, y \in Nat : x = Len(heard[s]) /\ y = Len(late[s])
        BY <2>2, LenProperties
    <2>4. /\ x + y = line[s]
          /\ \A i \in 1 .. x : heard[s][i] = Line(s, i) \/ (heard[s][i] = Junk /\ noisy[s])
          /\ \A i \in 1 .. y : late[s][i] = Line(s, x + i)
        BY <2>1, <2>3 DEF LinesOK
    <2>5. /\ sent \in Seq(Units) /\ Len(sent) = x + y
          /\ \A i \in 1 .. x + y : sent[i] = IF i <= x THEN heard[s][i] ELSE late[s][i - x]
        BY <2>2, <2>3, ConcatProperties
    <2> HIDE DEF sent
    <2>6. DOMAIN sent = 1 .. x + y
        BY <2>5, LenProperties
    <2>7. ASSUME NEW i \in 1 .. x + y
          PROVE  sent[i] = Line(s, i) \/ (sent[i] = Junk /\ noisy[s])
      <3>1. CASE i <= x
        <4>1. i \in 1 .. x
            BY <3>1
        <4> QED
            BY <2>4, <2>5, <3>1, <4>1
      <3>2. CASE ~ (i <= x)
        <4>1. i - x \in 1 .. y /\ x + (i - x) = i
            BY <3>2
        <4> QED
            BY <2>4, <2>5, <3>2, <4>1
      <3> QED
          BY <3>1, <3>2
    <2> QED
        BY <2>4, <2>5, <2>6, <2>7 DEF sent
  <1> QED
      BY <1>1, Invariance, PTL

-----------------------------------------------------------------------------
(* Sequences of writes joined to one. *)

\* A set that has 0, and of each number the next, has all of them.
LEMMA AllNumbers ==
  ASSUME NEW S, 0 \in S, \A n \in Nat : n \in S => n + 1 \in S
  PROVE  \A n \in Nat : n \in S
  <1> DEFINE out == Nat \ S
  <1>1. SUFFICES ASSUME out # {} PROVE FALSE
      OBVIOUS
  <1>2. PICK m \in out : \A n \in out : ~ (<<n, m>> \in {e \in Nat \X Nat : e[1] < e[2]})
      BY <1>1, WFMin, NatLessThanWellFounded DEF OpToRel
  <1>3. m # 0 /\ m - 1 \in Nat /\ (m - 1) + 1 = m /\ m - 1 < m
      BY <1>2
  <1>4. m - 1 \in S
      BY <1>2, <1>3
  <1> QED
      BY <1>2, <1>3, <1>4

\* Nth(g, i) is what the first i of the sequences in a are, joined.
Nth(g, i) == g[i]
Joins(T, a, n, g) ==
    /\ Nth(g, 0) = <<>>
    /\ \A i \in 1 .. n : Nth(g, i) \in Seq(T) /\ Nth(g, i) = Nth(g, i - 1) \o a[i]

\* The joins of every sequence exist.
LEMMA JoinsExist ==
  ASSUME NEW T, NEW a \in Seq(Seq(T))
  PROVE  \A n \in Nat : n <= Len(a) => \E g : Joins(T, a, n, g)
  <1> DEFINE S == {n \in Nat : n <= Len(a) => \E g : Joins(T, a, n, g)}
  <1>1. 0 \in S
    <2> DEFINE g0 == [i \in 0 .. 0 |-> <<>>]
    <2>1. Joins(T, a, 0, g0)
        BY DEF Joins, Nth
    <2> QED
        BY <2>1
  <1>2. ASSUME NEW n \in Nat, n \in S, n + 1 <= Len(a)
        PROVE  \E g : Joins(T, a, n + 1, g)
    <2>1. PICK g : Joins(T, a, n, g)
        BY <1>2
    <2>2. PICK x \in Seq(T) : x = Nth(g, n)
      <3>1. n = 0 \/ n \in 1 .. n
          OBVIOUS
      <3> QED
          BY <2>1, <3>1, EmptySeq DEF Joins
    <2>3. PICK y \in Seq(T) : y = a[n + 1]
      <3>1. n + 1 \in 1 .. Len(a)
          BY <1>2
      <3> QED
          BY <3>1, ElementOfSeq
    <2>4. x \o y \in Seq(T)
        BY ConcatProperties
    <2> DEFINE h == [i \in 0 .. n + 1 |-> IF i <= n THEN Nth(g, i) ELSE x \o y]
    <2>5. \A i \in 0 .. n + 1 : Nth(h, i) = IF i <= n THEN Nth(g, i) ELSE x \o y
        BY DEF Nth
    <2> HIDE DEF h
    <2>6. ASSUME NEW i \in 1 .. n + 1 PROVE Nth(h, i) \in Seq(T) /\ Nth(h, i) = Nth(h, i - 1) \o a[i]
      <3>1. /\ i \in 0 .. n + 1 /\ i - 1 \in 0 .. n + 1 /\ i - 1 <= n
            /\ i <= n => i \in 1 .. n
            /\ ~ (i <= n) => i = n + 1 /\ i - 1 = n
          BY <2>6
      <3>2. Nth(h, i - 1) = Nth(g, i - 1)
          BY <2>5, <3>1
      <3>3. CASE i <= n
          BY <2>1, <2>5, <3>1, <3>2, <3>3 DEF Joins
      <3>4. CASE ~ (i <= n)
          BY <2>2, <2>3, <2>4, <2>5, <3>1, <3>2, <3>4
      <3> QED
          BY <3>3, <3>4
    <2>7. Nth(h, 0) = <<>>
        BY <2>1, <2>5 DEF Joins
    <2> QED
        BY <2>6, <2>7 DEF Joins
  <1>3. ASSUME NEW n \in Nat, n \in S PROVE n + 1 \in S
    <2>1. n + 1 \in Nat
        OBVIOUS
    <2> QED
        BY <1>2, <1>3, <2>1, Zenon
  <1> HIDE DEF S
  <1>4. \A n \in Nat : n \in S
      BY <1>1, <1>3, AllNumbers
  <1> QED
      BY <1>4 DEF S

\* FlattenSeq gives the last of them.
LEMMA FlattenIs ==
  ASSUME NEW T, NEW a \in Seq(Seq(T))
  PROVE  \E g : Joins(T, a, Len(a), g) /\ FlattenSeq(a) = Nth(g, Len(a))
  <1>1. PICK n \in Nat : n = Len(a)
      BY LenProperties
  <1>2. PICK g : Joins(T, a, n, g)
      BY <1>1, JoinsExist
  <1> DEFINE Is(f) == f = [i \in 1 .. n |-> IF i = 1 THEN a[i] ELSE f[i - 1] \o a[i]]
             f0 == [i \in 1 .. n |-> Nth(g, i)]
             h == CHOOSE f : Is(f)
  <1>3. FlattenSeq(a) = IF n = 0 THEN a ELSE h[n]
      BY <1>1 DEF FlattenSeq
  <1>4. ASSUME NEW i \in 1 .. n PROVE Nth(g, i) = IF i = 1 THEN a[i] ELSE Nth(g, i - 1) \o a[i]
    <2>1. i = 1 => i - 1 = 0
        OBVIOUS
    <2>2. Nth(g, i) = Nth(g, i - 1) \o a[i] /\ Nth(g, 0) = <<>>
        BY <1>2, <1>4 DEF Joins
    <2>3. PICK y \in Seq(T) : y = a[i]
      <3>1. i \in 1 .. Len(a)
          BY <1>1, <1>4
      <3> QED
          BY <3>1, ElementOfSeq
    <2>4. <<>> \o y = y
        BY ConcatEmptySeq
    <2> QED
        BY <2>1, <2>2, <2>3, <2>4
  <1>5. Is(f0)
    <2>1. \A i \in 1 .. n : i # 1 => i - 1 \in 1 .. n
        OBVIOUS
    <2> QED
        BY <1>4, <2>1
  <1>6. Is(h)
      BY <1>5
  <1> HIDE DEF h
  <1>7. \A i \in 1 .. n : Nth(h, i) = IF i = 1 THEN a[i] ELSE Nth(h, i - 1) \o a[i]
      BY <1>6 DEF Nth
  <1> DEFINE S == {i \in Nat : i \in 1 .. n => Nth(h, i) = Nth(g, i)}
  <1>8. 0 \in S
      OBVIOUS
  <1>9. ASSUME NEW i \in Nat, i \in S PROVE i + 1 \in S
    <2> SUFFICES ASSUME i + 1 \in 1 .. n PROVE Nth(h, i + 1) = Nth(g, i + 1)
        OBVIOUS
    <2>1. /\ i + 1 # 1 => i \in 1 .. n
          /\ (i + 1) - 1 = i
        OBVIOUS
    <2>2. Nth(g, i + 1) = IF i + 1 = 1 THEN a[i + 1] ELSE Nth(g, i) \o a[i + 1]
        BY <1>4, <2>1
    <2>3. Nth(h, i + 1) = IF i + 1 = 1 THEN a[i + 1] ELSE Nth(h, i) \o a[i + 1]
        BY <1>7, <2>1
    <2>4. i + 1 # 1 => Nth(h, i) = Nth(g, i)
        BY <1>9, <2>1
    <2> QED
        BY <2>2, <2>3, <2>4
  <1>10. \A i \in Nat : i \in S
    <2> HIDE DEF S
    <2> QED
        BY <1>8, <1>9, AllNumbers
  <1>11. n # 0 => Nth(h, n) = Nth(g, n)
    <2>1. n # 0 => n \in 1 .. n
        OBVIOUS
    <2> QED
        BY <1>10, <2>1
  <1>12. n = 0 => a = <<>> /\ Nth(g, n) = <<>>
      BY <1>1, <1>2, EmptySeq DEF Joins
  <1>13. h[n] = Nth(h, n)
      BY DEF Nth
  <1> HIDE DEF S
  <1> QED
      BY <1>1, <1>2, <1>3, <1>11, <1>12, <1>13

\* What sequences that begin alike are joined to begins alike.
LEMMA JoinsAgree ==
  ASSUME NEW T, NEW a, NEW b, NEW n \in Nat, NEW g, NEW h, Joins(T, a, n, g), Joins(T, b, n, h),
         \A i \in 1 .. n : a[i] = b[i]
  PROVE  Nth(g, n) = Nth(h, n)
  <1> DEFINE S == {i \in Nat : i <= n => Nth(g, i) = Nth(h, i)}
  <1>1. 0 \in S
      BY DEF Joins
  <1>2. ASSUME NEW i \in Nat, i \in S PROVE i + 1 \in S
    <2> SUFFICES ASSUME i + 1 <= n PROVE Nth(g, i + 1) = Nth(h, i + 1)
        OBVIOUS
    <2>1. i + 1 \in 1 .. n /\ (i + 1) - 1 = i /\ i <= n
        OBVIOUS
    <2> QED
        BY <1>2, <2>1 DEF Joins
  <1> HIDE DEF S
  <1>4. n \in S
      BY <1>1, <1>2, AllNumbers
  <1> QED
      BY <1>4 DEF S

\* FlattenSeq of no write, and of one.
LEMMA FlattenFew ==
  ASSUME NEW T, NEW a \in Seq(Seq(T))
  PROVE  /\ FlattenSeq(a) \in Seq(T)
         /\ a = <<>> => FlattenSeq(a) = <<>>
         /\ Len(a) = 1 => FlattenSeq(a) = a[1]
  <1>1. PICK n \in Nat : n = Len(a)
      BY LenProperties
  <1>2. PICK g : Joins(T, a, n, g) /\ FlattenSeq(a) = Nth(g, n)
      BY <1>1, FlattenIs
  <1>3. (n = 0 => Nth(g, n) = <<>>) /\ Nth(g, n) \in Seq(T)
    <2>1. n = 0 \/ n \in 1 .. n
        OBVIOUS
    <2> QED
        BY <1>2, <2>1, EmptySeq DEF Joins
  <1>4. ASSUME n = 1 PROVE Nth(g, n) = a[1]
    <2>1. 1 \in 1 .. Len(a) /\ 1 \in 1 .. n /\ 1 - 1 = 0
        BY <1>1, <1>4
    <2>2. PICK y \in Seq(T) : y = a[1]
        BY <2>1, ElementOfSeq
    <2>3. Nth(g, 1) = Nth(g, 0) \o a[1] /\ Nth(g, 0) = <<>>
        BY <1>2, <2>1 DEF Joins
    <2>4. <<>> \o y = y
        BY ConcatEmptySeq
    <2> QED
        BY <1>4, <2>2, <2>3, <2>4
  <1>5. a = <<>> => n = 0
      BY <1>1, EmptySeq
  <1> QED
      BY <1>1, <1>2, <1>3, <1>4, <1>5

\* FlattenSeq of writes and more.
LEMMA FlattenMore ==
  ASSUME NEW T, NEW a \in Seq(Seq(T)), NEW b \in Seq(Seq(T))
  PROVE  FlattenSeq(a \o b) = FlattenSeq(a) \o FlattenSeq(b)
  <1>1. PICK m \in Nat, n \in Nat : m = Len(a) /\ n = Len(b)
      BY LenProperties
  <1>2. PICK g : Joins(T, a, m, g) /\ FlattenSeq(a) = Nth(g, m)
      BY <1>1, FlattenIs
  <1>3. PICK h : Joins(T, b, n, h) /\ FlattenSeq(b) = Nth(h, n)
      BY <1>1, FlattenIs
  <1>4. PICK c \in Seq(Seq(T)) :
            /\ c = a \o b /\ Len(c) = m + n
            /\ \A i \in 1 .. m + n : c[i] = IF i <= m THEN a[i] ELSE b[i - m]
    <2>1. /\ a \o b \in Seq(Seq(T)) /\ Len(a \o b) = Len(a) + Len(b)
          /\ \A i \in 1 .. Len(a) + Len(b) : (a \o b)[i] = IF i <= Len(a) THEN a[i] ELSE b[i - Len(a)]
        BY ConcatProperties
    <2> QED
        BY <1>1, <2>1
  <1>5. PICK k : Joins(T, c, m + n, k) /\ FlattenSeq(c) = Nth(k, m + n)
      BY <1>4, FlattenIs
  <1>6. Nth(k, m) = Nth(g, m)
    <2>1. Joins(T, c, m, k)
      <3>1. 1 .. m \subseteq 1 .. m + n
          OBVIOUS
      <3> QED
          BY <1>5, <3>1 DEF Joins
    <2>2. \A i \in 1 .. m : c[i] = a[i]
      <3>1. \A i \in 1 .. m : i \in 1 .. m + n /\ i <= m
          OBVIOUS
      <3> QED
          BY <1>4, <3>1
    <2> QED
        BY <1>2, <2>1, <2>2, JoinsAgree
  <1>7. PICK x \in Seq(T) : x = Nth(g, m)
      BY <1>2, FlattenFew
  <1> DEFINE S == {j \in Nat : j <= n => Nth(k, m + j) = x \o Nth(h, j)}
  <1>8. 0 \in S
    <2>1. m + 0 = m /\ Nth(h, 0) = <<>> /\ x \o <<>> = x
        BY <1>3, ConcatEmptySeq DEF Joins
    <2> QED
        BY <1>6, <1>7, <2>1
  <1>9. ASSUME NEW j \in Nat, j \in S PROVE j + 1 \in S
    <2> SUFFICES ASSUME j + 1 <= n PROVE Nth(k, m + (j + 1)) = x \o Nth(h, j + 1)
        OBVIOUS
    <2>1. /\ m + (j + 1) \in 1 .. m + n /\ (m + (j + 1)) - 1 = m + j /\ ~ (m + (j + 1) <= m)
          /\ (m + (j + 1)) - m = j + 1 /\ j + 1 \in 1 .. n /\ (j + 1) - 1 = j /\ j <= n
          /\ j = 0 \/ j \in 1 .. n
        OBVIOUS
    <2>2. PICK y \in Seq(T) : y = Nth(h, j)
        BY <1>3, <2>1, EmptySeq DEF Joins
    <2>3. PICK z \in Seq(T) : z = b[j + 1]
      <3>1. j + 1 \in 1 .. Len(b)
          BY <1>1, <2>1
      <3> QED
          BY <3>1, ElementOfSeq
    <2>4. Nth(k, m + (j + 1)) = Nth(k, m + j) \o z
      <3>1. c[m + (j + 1)] = z
          BY <1>4, <2>1, <2>3
      <3> QED
          BY <1>5, <2>1, <3>1 DEF Joins
    <2>5. Nth(h, j + 1) = y \o z
        BY <1>3, <2>1, <2>2, <2>3 DEF Joins
    <2>6. (x \o y) \o z = x \o (y \o z)
        BY ConcatAssociative
    <2>7. Nth(k, m + j) = x \o y
        BY <1>9, <2>1, <2>2
    <2> QED
        BY <2>4, <2>5, <2>6, <2>7
  <1>10. n \in S
    <2> HIDE DEF S
    <2> QED
        BY <1>8, <1>9, AllNumbers
  <1>11. Nth(k, m + n) = x \o Nth(h, n)
      BY <1>10
  <1> HIDE DEF S
  <1> QED
      BY <1>2, <1>3, <1>4, <1>5, <1>7, <1>11

(* A sequence each of whose elements stands for some units. *)

Of(F, x)      == F[x]
Image(F, q)   == [i \in DOMAIN q |-> Of(F, q[i])]
Through(F, q) == FlattenSeq(Image(F, q))
Stands(F, Q, T) == \A x \in Q : Of(F, x) \in Seq(T)

\* Its elements.
LEMMA ImageIs ==
  ASSUME NEW Q, NEW T, NEW F, Stands(F, Q, T),
         NEW q \in Seq(Q), NEW n \in Nat, n = Len(q)
  PROVE  /\ Image(F, q) \in Seq(Seq(T)) /\ Len(Image(F, q)) = n
         /\ \A i \in 1 .. n : Image(F, q)[i] = Of(F, q[i])
  <1>1. DOMAIN q = 1 .. n
      BY LenProperties
  <1>2. \A i \in 1 .. n : Of(F, q[i]) \in Seq(T)
    <2>1. \A i \in 1 .. n : q[i] \in Q
        BY ElementOfSeq
    <2> QED
        BY <2>1 DEF Stands
  <1>3. Image(F, q) = [i \in 1 .. n |-> Of(F, q[i])]
      BY <1>1 DEF Image
  <1>4. Image(F, q) \in [1 .. n -> Seq(T)]
      BY <1>2, <1>3
  <1>5. Image(F, q) \in Seq(Seq(T))
      BY <1>4, SeqDef
  <1>6. Len(Image(F, q)) = n
    <2>1. PICK e \in Seq(Seq(T)) : e = Image(F, q)
        BY <1>5
    <2>2. DOMAIN e = 1 .. n
        BY <1>4, <2>1
    <2>3. PICK m \in Nat : m = Len(e) /\ DOMAIN e = 1 .. m
        BY LenProperties
    <2> QED
        BY <2>1, <2>2, <2>3
  <1> QED
      BY <1>3, <1>5, <1>6

\* Two sequences of the same length with the same elements are one.
LEMMA SameSeq ==
  ASSUME NEW T, NEW a \in Seq(T), NEW b \in Seq(T), Len(a) = Len(b),
         \A i \in 1 .. Len(a) : a[i] = b[i]
  PROVE  a = b
  BY SeqEqual

\* Of a sequence and another.
LEMMA ThroughMore ==
  ASSUME NEW Q, NEW T, NEW F, Stands(F, Q, T), NEW p \in Seq(Q), NEW q \in Seq(Q)
  PROVE  /\ Through(F, p) \in Seq(T) /\ Through(F, q) \in Seq(T)
         /\ Through(F, p \o q) = Through(F, p) \o Through(F, q)
  <1>1. PICK m \in Nat, n \in Nat : m = Len(p) /\ n = Len(q)
      BY LenProperties
  <1>2. PICK c \in Seq(Q) : /\ c = p \o q /\ Len(c) = m + n
                            /\ \A i \in 1 .. m + n : c[i] = IF i <= m THEN p[i] ELSE q[i - m]
    <2>1. /\ p \o q \in Seq(Q) /\ Len(p \o q) = Len(p) + Len(q)
          /\ \A i \in 1 .. Len(p) + Len(q) : (p \o q)[i] = IF i <= Len(p) THEN p[i] ELSE q[i - Len(p)]
        BY ConcatProperties
    <2> QED
        BY <1>1, <2>1
  <1>3. PICK k \in Nat : k = m + n /\ k = Len(c)
      BY <1>2
  <1>4. PICK a \in Seq(Seq(T)) : /\ a = Image(F, p) /\ Len(a) = m
                                 /\ \A i \in 1 .. m : a[i] = Of(F, p[i])
      BY <1>1, ImageIs
  <1>5. PICK b \in Seq(Seq(T)) : /\ b = Image(F, q) /\ Len(b) = n
                                 /\ \A i \in 1 .. n : b[i] = Of(F, q[i])
      BY <1>1, ImageIs
  <1>6. PICK d \in Seq(Seq(T)) : /\ d = Image(F, c) /\ Len(d) = k
                                 /\ \A i \in 1 .. k : d[i] = Of(F, c[i])
    <2>1. k = Len(c)
        BY <1>3
    <2> QED
        BY <2>1, ImageIs
  <1>7. PICK e \in Seq(Seq(T)) : /\ e = a \o b /\ Len(e) = k
                                 /\ \A i \in 1 .. k : e[i] = IF i <= m THEN a[i] ELSE b[i - m]
    <2>1. /\ a \o b \in Seq(Seq(T)) /\ Len(a \o b) = Len(a) + Len(b)
          /\ \A i \in 1 .. Len(a) + Len(b) : (a \o b)[i] = IF i <= Len(a) THEN a[i] ELSE b[i - Len(a)]
        BY ConcatProperties
    <2> QED
        BY <1>3, <1>4, <1>5, <2>1
  <1>8. d = e
    <2>1. ASSUME NEW i \in 1 .. k PROVE d[i] = e[i]
      <3>1. /\ d[i] = Of(F, c[i])
            /\ c[i] = IF i <= m THEN p[i] ELSE q[i - m]
            /\ e[i] = IF i <= m THEN a[i] ELSE b[i - m]
          BY <1>2, <1>3, <1>6, <1>7
      <3>2. /\ i <= m => i \in 1 .. m
            /\ ~ (i <= m) => i - m \in 1 .. n
          BY <1>3
      <3>3. /\ i <= m => a[i] = Of(F, p[i])
            /\ ~ (i <= m) => b[i - m] = Of(F, q[i - m])
          BY <1>4, <1>5, <3>2
      <3> QED
          BY <3>1, <3>3
    <2> QED
        BY <1>6, <1>7, <2>1, SameSeq
  <1>9. FlattenSeq(e) = FlattenSeq(a) \o FlattenSeq(b)
      BY <1>7, FlattenMore
  <1>10. FlattenSeq(a) \in Seq(T) /\ FlattenSeq(b) \in Seq(T)
      BY FlattenFew
  <1> QED
      BY <1>2, <1>4, <1>5, <1>6, <1>8, <1>9, <1>10 DEF Through

\* Of one element.
LEMMA ThroughOne ==
  ASSUME NEW Q, NEW T, NEW F, Stands(F, Q, T), NEW x \in Q
  PROVE  Through(F, <<x>>) = Of(F, x)
  <1>1. <<x>> \in Seq(Q) /\ Len(<<x>>) = 1 /\ <<x>>[1] = x
      OBVIOUS
  <1>2. PICK q \in Seq(Q) : q = <<x>> /\ Len(q) = 1 /\ q[1] = x
      BY <1>1
  <1>3. PICK n \in Nat : n = 1 /\ 1 \in 1 .. n /\ n = Len(q)
      BY <1>2
  <1>4. PICK a \in Seq(Seq(T)) : /\ a = Image(F, q) /\ Len(a) = n
                                 /\ \A i \in 1 .. n : a[i] = Of(F, q[i])
    <2>1. n = Len(q)
        BY <1>3
    <2> QED
        BY <2>1, ImageIs
  <1>5. FlattenSeq(a) = a[1]
      BY <1>3, <1>4, FlattenFew
  <1>6. a[1] = Of(F, x)
      BY <1>2, <1>3, <1>4
  <1> QED
      BY <1>2, <1>4, <1>5, <1>6 DEF Through

\* Of elements that stand for nothing.
LEMMA ThroughNone ==
  ASSUME NEW Q, NEW T, NEW F, Stands(F, Q, T), NEW q \in Seq(Q),
         \A i \in 1 .. Len(q) : Of(F, q[i]) = <<>>
  PROVE  Through(F, q) = <<>>
  <1>1. PICK n \in Nat : n = Len(q)
      BY LenProperties
  <1>2. PICK a \in Seq(Seq(T)) : /\ a = Image(F, q) /\ Len(a) = n
                                 /\ \A i \in 1 .. n : a[i] = Of(F, q[i])
      BY <1>1, ImageIs
  <1>3. \A i \in 1 .. n : a[i] = <<>>
      BY <1>1, <1>2
  <1>4. PICK g : Joins(T, a, n, g) /\ FlattenSeq(a) = Nth(g, n)
      BY <1>2, FlattenIs
  <1> DEFINE S == {i \in Nat : i <= n => Nth(g, i) = <<>>}
  <1>5. 0 \in S
      BY <1>4 DEF Joins
  <1>6. ASSUME NEW i \in Nat, i \in S PROVE i + 1 \in S
    <2> SUFFICES ASSUME i + 1 <= n PROVE Nth(g, i + 1) = <<>>
        OBVIOUS
    <2>1. i + 1 \in 1 .. n /\ (i + 1) - 1 = i /\ i <= n
        OBVIOUS
    <2>2. Nth(g, i + 1) = Nth(g, i) \o a[i + 1]
        BY <1>4, <2>1 DEF Joins
    <2>3. Nth(g, i) = <<>> /\ a[i + 1] = <<>>
        BY <1>3, <1>6, <2>1
    <2>4. <<>> \o <<>> = <<>>
        OBVIOUS
    <2> QED
        BY <2>2, <2>3, <2>4
  <1> HIDE DEF S
  <1>7. n \in S
      BY <1>5, <1>6, AllNumbers
  <1> QED
      BY <1>2, <1>4, <1>7 DEF S, Through

-----------------------------------------------------------------------------
(* What is on the page of text and of lines, and what is owed to it. *)

Keeps(U) == [x \in Units |-> IF x \in U THEN <<x>> ELSE <<>>]
Owes(s)  == [e \in Sessions \X Seq(Units) |-> IF e[1] = s THEN e[2] ELSE <<>>]

\* What a unit stands for.
LEMMA KeepsIs ==
  ASSUME NEW U
  PROVE  /\ \A x \in Units : Of(Keeps(U), x) = IF x \in U THEN <<x>> ELSE <<>>
         /\ Stands(Keeps(U), Units, Units)
  <1>1. \A x \in Units : Of(Keeps(U), x) = IF x \in U THEN <<x>> ELSE <<>>
      BY DEF Of, Keeps
  <1>2. <<>> \in Seq(Units) /\ \A x \in Units : <<x>> \in Seq(Units)
      OBVIOUS
  <1> QED
      BY <1>1, <1>2 DEF Stands

\* What a write stands for.
LEMMA OwesIs ==
  ASSUME NEW s
  PROVE  /\ \A r \in Sessions, w \in Seq(Units) :
               Of(Owes(s), <<r, w>>) = IF r = s THEN w ELSE <<>>
         /\ \A e \in Sessions \X Seq(Units) : Of(Owes(s), e) = IF e[1] = s THEN e[2] ELSE <<>>
         /\ Stands(Owes(s), Sessions \X Seq(Units), Units)
  <1>1. \A e \in Sessions \X Seq(Units) : Of(Owes(s), e) = IF e[1] = s THEN e[2] ELSE <<>>
      BY DEF Of, Owes
  <1>2. \A e \in Sessions \X Seq(Units) : e[2] \in Seq(Units) /\ <<>> \in Seq(Units)
      OBVIOUS
  <1>3. \A r \in Sessions, w \in Seq(Units) :
           <<r, w>> \in Sessions \X Seq(Units) /\ <<r, w>>[1] = r /\ <<r, w>>[2] = w
      OBVIOUS
  <1>4. \A e \in Sessions \X Seq(Units) : Of(Owes(s), e) \in Seq(Units)
      BY <1>1, <1>2
  <1>5. ASSUME NEW r \in Sessions, NEW w \in Seq(Units)
        PROVE  Of(Owes(s), <<r, w>>) = IF r = s THEN w ELSE <<>>
      BY <1>1, <1>3
  <1> QED
      BY <1>1, <1>4, <1>5 DEF Stands

\* The units of U are what each unit stands for.
LEMMA OnlyIs ==
  ASSUME NEW U, NEW q \in Seq(Units)
  PROVE  Only(U, q) = Through(Keeps(U), q)
  <1>1. \A i \in DOMAIN q : q[i] \in Units
      OBVIOUS
  <1>2. [i \in DOMAIN q |-> IF q[i] \in U THEN <<q[i]>> ELSE <<>>] = Image(Keeps(U), q)
      BY <1>1, KeepsIs DEF Image
  <1> QED
      BY <1>2 DEF Only, Through

\* What the writes of s hold is what each write stands for.
LEMMA WritesIs ==
  ASSUME NEW s, NEW o \in Seq(Sessions \X Seq(Units))
  PROVE  Writes(s, o) = Through(Owes(s), o)
  <1>1. \A i \in DOMAIN o : o[i] \in Sessions \X Seq(Units)
      OBVIOUS
  <1>2. [i \in DOMAIN o |-> IF o[i][1] = s THEN o[i][2] ELSE <<>>] = Image(Owes(s), o)
      BY <1>1, OwesIs DEF Image
  <1> QED
      BY <1>2 DEF Writes, Through

\* Of more.
LEMMA OnlyMore ==
  ASSUME NEW U, NEW p \in Seq(Units), NEW q \in Seq(Units)
  PROVE  /\ Only(U, p) \in Seq(Units) /\ Only(U, q) \in Seq(Units)
         /\ Only(U, p \o q) = Only(U, p) \o Only(U, q)
  <1>1. p \o q \in Seq(Units)
      BY ConcatProperties
  <1>2. PICK F : F = Keeps(U)
      OBVIOUS
  <1>3. PICK Q : Q = Units
      OBVIOUS
  <1>4. Stands(F, Q, Units) /\ p \in Seq(Q) /\ q \in Seq(Q)
      BY <1>2, <1>3, KeepsIs
  <1>5. /\ Through(F, p) \in Seq(Units) /\ Through(F, q) \in Seq(Units)
        /\ Through(F, p \o q) = Through(F, p) \o Through(F, q)
      BY <1>4, ThroughMore
  <1> QED
      BY <1>1, <1>2, <1>3, <1>5, OnlyIs

\* Of one unit.
LEMMA OnlyOne ==
  ASSUME NEW U, NEW x \in Units
  PROVE  Only(U, <<x>>) = IF x \in U THEN <<x>> ELSE <<>>
  <1>1. <<x>> \in Seq(Units)
      OBVIOUS
  <1>2. Through(Keeps(U), <<x>>) = Of(Keeps(U), x)
      BY KeepsIs, ThroughOne
  <1> QED
      BY <1>1, <1>2, KeepsIs, OnlyIs

\* Of units that are not in U.
LEMMA OnlyNone ==
  ASSUME NEW U, NEW q \in Seq(Units), \A i \in 1 .. Len(q) : q[i] \notin U
  PROVE  Only(U, q) = <<>>
  <1>1. \A i \in 1 .. Len(q) : Of(Keeps(U), q[i]) = <<>>
    <2>1. \A i \in 1 .. Len(q) : q[i] \in Units
        BY ElementOfSeq
    <2> QED
        BY <2>1, KeepsIs
  <1>2. Through(Keeps(U), q) = <<>>
      BY <1>1, KeepsIs, ThroughNone
  <1> QED
      BY <1>2, OnlyIs

\* What is owed to the page, and more.
LEMMA WritesMore ==
  ASSUME NEW s, NEW o \in Seq(Sessions \X Seq(Units)), NEW u \in Seq(Sessions \X Seq(Units))
  PROVE  /\ Writes(s, o) \in Seq(Units) /\ Writes(s, u) \in Seq(Units)
         /\ Writes(s, o \o u) = Writes(s, o) \o Writes(s, u)
  <1>1. o \o u \in Seq(Sessions \X Seq(Units))
      BY ConcatProperties
  <1>2. PICK Q : Q = Sessions \X Seq(Units)
      OBVIOUS
  <1>3. PICK F : F = Owes(s)
      OBVIOUS
  <1>4. Stands(F, Q, Units) /\ o \in Seq(Q) /\ u \in Seq(Q)
      BY <1>2, <1>3, OwesIs
  <1>5. /\ Through(F, o) \in Seq(Units) /\ Through(F, u) \in Seq(Units)
        /\ Through(F, o \o u) = Through(F, o) \o Through(F, u)
      BY <1>4, ThroughMore
  <1> QED
      BY <1>1, <1>3, <1>5, WritesIs

\* What is owed of one write.
LEMMA WritesOne ==
  ASSUME NEW s, NEW r \in Sessions, NEW w \in Seq(Units)
  PROVE  Writes(s, <<<<r, w>>>>) = IF r = s THEN w ELSE <<>>
  <1>1. PICK Q : Q = Sessions \X Seq(Units)
      OBVIOUS
  <1>2. PICK F : F = Owes(s)
      OBVIOUS
  <1>3. <<r, w>> \in Q
      BY <1>1
  <1>4. PICK e \in Q : e = <<r, w>>
      BY <1>3
  <1>5. Stands(F, Q, Units)
      BY <1>1, <1>2, OwesIs
  <1>6. Through(F, <<e>>) = Of(F, e)
      BY <1>5, ThroughOne
  <1>7. <<e>> \in Seq(Q)
      OBVIOUS
  <1>8. Writes(s, <<e>>) = Through(F, <<e>>)
      BY <1>1, <1>2, <1>7, WritesIs
  <1>9. Of(F, e) = IF r = s THEN w ELSE <<>>
      BY <1>2, <1>4, OwesIs
  <1> QED
      BY <1>4, <1>6, <1>8, <1>9

\* Nothing is owed, of nothing and of other sessions' writes.
LEMMA WritesNone ==
  ASSUME NEW s, NEW o \in Seq(Sessions \X Seq(Units)), \A i \in 1 .. Len(o) : o[i][1] # s
  PROVE  Writes(s, o) = <<>>
  <1>1. \A i \in 1 .. Len(o) : Of(Owes(s), o[i]) = <<>>
    <2>1. \A i \in 1 .. Len(o) : o[i] \in Sessions \X Seq(Units)
        BY ElementOfSeq
    <2> QED
        BY <2>1, OwesIs
  <1>2. PICK Q : Q = Sessions \X Seq(Units)
      OBVIOUS
  <1>3. PICK F : F = Owes(s)
      OBVIOUS
  <1>4. Stands(F, Q, Units) /\ o \in Seq(Q)
      BY <1>2, <1>3, OwesIs
  <1>5. Through(F, o) = <<>>
      BY <1>1, <1>3, <1>4, ThroughNone
  <1> QED
      BY <1>3, <1>5, WritesIs

-----------------------------------------------------------------------------
(* What is on the page is what the shell wrote and the lines sent. *)

Text  == {"t", "%", "sp"}
Lines == {"cmd", "exit", "blank"}

\* The first k lines of the session.
Written(s, k) == [i \in 1 .. k |-> Line(s, i)]

\* v, on the page or owed to it, and then f, on the way from the shell, hold the
\* text a, and v the first k lines.
Faithful(s, v, f, a, k) ==
    /\ Only(Text, v) \o Only(Text, f) = a
    /\ Only(Lines, v) = Written(s, k)

\* d is on the page, o owed to it; g: a program that owes nothing.
Fine(s, g, d, o, f, a, k) ==
    /\ \A i \in 1 .. Len(f) : f[i] \in Text \cup {"r"}
    /\ g => Junk \notin Range(d)
    /\ Junk \notin Range(d) => Faithful(s, d \o o, f, a, k)

PageOK(s) ==
    Fine(s, prog # "web", shown[s], Writes(s, owed), fromShell[s], said[s], line[s])

\* Only the web server owes the page anything.
PageInv == (prog # "web" => owed = <<>>) /\ \A s \in Sessions : PageOK(s)

\* A line is no text.
LEMMA LineKind ==
  ASSUME NEW s \in Sessions, NEW k \in Nat
  PROVE  Line(s, k + 1) \in Lines /\ Line(s, k + 1) \in Units /\ Line(s, k + 1) \notin Text
  <1>1. CASE k + 1 <= Len(Script[s])
    <2>1. Script[s] \in Seq({"cmd", "exit"})
        BY ConsoleSessionAssumption
    <2>2. k + 1 \in 1 .. Len(Script[s])
        BY <1>1, <2>1, LenProperties
    <2>3. Script[s][k + 1] \in {"cmd", "exit"}
        BY <2>1, <2>2, ElementOfSeq
    <2> QED
        BY <1>1, <2>3 DEF Line, Units, Lines, Text
  <1>2. CASE ~ (k + 1 <= Len(Script[s]))
      BY <1>2 DEF Line, Units, Lines, Text
  <1> QED
      BY <1>1, <1>2

\* One line more.
LEMMA WrittenMore ==
  ASSUME NEW s \in Sessions, NEW k \in Nat
  PROVE  /\ Written(s, k) \in Seq(Units)
         /\ Written(s, k + 1) = Written(s, k) \o <<Line(s, k + 1)>>
  <1>1. \A i \in 1 .. k + 1 : Line(s, i) \in Units
    <2> TAKE i \in 1 .. k + 1
    <2>1. i - 1 \in Nat /\ (i - 1) + 1 = i
        OBVIOUS
    <2>2. Line(s, (i - 1) + 1) \in Units
        BY <2>1, LineKind
    <2> QED
        BY <2>1, <2>2
  <1>2. PICK a \in Seq(Units) : /\ a = Written(s, k) /\ Len(a) = k
                                /\ \A i \in 1 .. k : a[i] = Line(s, i)
    <2>1. Written(s, k) \in [1 .. k -> Units]
        BY <1>1 DEF Written
    <2>2. Written(s, k) \in Seq(Units)
        BY <2>1, SeqDef
    <2>3. DOMAIN Written(s, k) = 1 .. k /\ \A i \in 1 .. k : Written(s, k)[i] = Line(s, i)
        BY DEF Written
    <2>4. PICK b \in Seq(Units) : b = Written(s, k)
        BY <2>2
    <2>5. PICK n \in Nat : n = Len(b) /\ DOMAIN b = 1 .. n
        BY LenProperties
    <2> QED
        BY <2>3, <2>4, <2>5
  <1>3. PICK b \in Seq(Units) : /\ b = Written(s, k + 1) /\ Len(b) = k + 1
                                /\ \A i \in 1 .. k + 1 : b[i] = Line(s, i)
    <2>1. Written(s, k + 1) \in [1 .. k + 1 -> Units] /\ k + 1 \in Nat
        BY <1>1 DEF Written
    <2>2. Written(s, k + 1) \in Seq(Units)
        BY <2>1, SeqDef
    <2>3. DOMAIN Written(s, k + 1) = 1 .. k + 1 /\ \A i \in 1 .. k + 1 : Written(s, k + 1)[i] = Line(s, i)
        BY DEF Written
    <2>4. PICK c \in Seq(Units) : c = Written(s, k + 1)
        BY <2>2
    <2>5. PICK n \in Nat : n = Len(c) /\ DOMAIN c = 1 .. n
        BY LenProperties
    <2> QED
        BY <2>1, <2>3, <2>4, <2>5
  <1>4. PICK l \in Units : l = Line(s, k + 1)
      BY LineKind
  <1>5. Append(a, l) = b
    <2>1. /\ Append(a, l) \in Seq(Units) /\ Len(Append(a, l)) = k + 1
          /\ \A i \in 1 .. k : Append(a, l)[i] = a[i]
          /\ Append(a, l)[k + 1] = l
        BY <1>2, AppendProperties
    <2>2. \A i \in 1 .. k + 1 : i \in 1 .. k \/ i = k + 1
        OBVIOUS
    <2>3. \A i \in 1 .. k + 1 : Append(a, l)[i] = b[i]
        BY <1>2, <1>3, <1>4, <2>1, <2>2
    <2> QED
        BY <1>3, <2>1, <2>3, SameSeq
  <1>6. a \o <<l>> = Append(a, l)
      BY AppendIsConcat
  <1> QED
      BY <1>2, <1>3, <1>4, <1>5, <1>6

\* The text that a shell writes is text.
LEMMA TextIs ==
  ASSUME NEW u \in {Prompt, <<"t">>, <<"t">> \o Prompt, <<>> \o Prompt, Prompt \o Prompt}
  PROVE  /\ u \in Seq(Units) /\ Only(Text, u) = u
         /\ \A i \in 1 .. Len(u) : u[i] \in Text
  <1>1. /\ "%" \in Units /\ "sp" \in Units /\ "t" \in Units
        /\ "%" \in Text /\ "sp" \in Text /\ "t" \in Text
      BY DEF Units, Text
  <1>2. /\ <<"%">> \in Seq(Units) /\ <<"sp">> \in Seq(Units) /\ <<"t">> \in Seq(Units)
        /\ <<>> \in Seq(Units) /\ Prompt \in Seq(Units)
      BY <1>1 DEF Prompt
  <1>3. Only(Text, <<"%">>) = <<"%">> /\ Only(Text, <<"sp">>) = <<"sp">> /\ Only(Text, <<"t">>) = <<"t">>
      BY <1>1, OnlyOne
  <1>4. Prompt = <<"%">> \o <<"sp">>
      BY DEF Prompt
  <1>10. ASSUME NEW x \in Seq(Units), NEW y \in Seq(Units), Only(Text, x) = x, Only(Text, y) = y
         PROVE  x \o y \in Seq(Units) /\ Only(Text, x \o y) = x \o y
    <2>1. Only(Text, x \o y) = Only(Text, x) \o Only(Text, y)
        BY OnlyMore
    <2> QED
        BY <1>10, <2>1, ConcatProperties
  <1>5. Only(Text, Prompt) = Prompt
      BY <1>2, <1>3, <1>4, <1>10
  <1>6. /\ <<"t">> \o Prompt \in Seq(Units) /\ Only(Text, <<"t">> \o Prompt) = <<"t">> \o Prompt
        /\ Prompt \o Prompt \in Seq(Units) /\ Only(Text, Prompt \o Prompt) = Prompt \o Prompt
      BY <1>2, <1>3, <1>5, <1>10
  <1>7. <<>> \o Prompt = Prompt
      BY <1>2, ConcatEmptySeq
  <1>8. Prompt \in Seq(Text) /\ <<"t">> \in Seq(Text)
      BY <1>1 DEF Prompt
  <1>9. <<"t">> \o Prompt \in Seq(Text) /\ Prompt \o Prompt \in Seq(Text)
      BY <1>8, ConcatProperties
  <1>11. u \in Seq(Text)
      BY <1>7, <1>8, <1>9
  <1>12. \A i \in 1 .. Len(u) : u[i] \in Text
      BY <1>11, ElementOfSeq
  <1> QED
      BY <1>2, <1>3, <1>5, <1>6, <1>7, <1>12

\* Of three.
LEMMA Joined ==
  ASSUME NEW x \in Seq(Units), NEW y \in Seq(Units), NEW z \in Seq(Units)
  PROVE  x \o (y \o z) = (x \o y) \o z
  OBVIOUS

\* Of three pieces.
LEMMA OnlyThree ==
  ASSUME NEW U, NEW v \in Seq(Units), NEW f \in Seq(Units), NEW u \in Seq(Units)
  PROVE  Only(U, v) \o Only(U, f \o u) = (Only(U, v) \o Only(U, f)) \o Only(U, u)
  <1>1. /\ Only(U, v) \in Seq(Units) /\ Only(U, f) \in Seq(Units) /\ Only(U, u) \in Seq(Units)
        /\ Only(U, f \o u) = Only(U, f) \o Only(U, u)
      BY OnlyMore
  <1>2. PICK x \in Seq(Units) : x = Only(U, v)
      BY <1>1
  <1>3. PICK y \in Seq(Units) : y = Only(U, f)
      BY <1>1
  <1>4. PICK z \in Seq(Units) : z = Only(U, u)
      BY <1>1
  <1>5. x \o (y \o z) = (x \o y) \o z
      BY Joined
  <1> QED
      BY <1>1, <1>2, <1>3, <1>4, <1>5

\* Text that the shell writes is on its way.
LEMMA FaithfulSays ==
  ASSUME NEW s, NEW v \in Seq(Units), NEW f \in Seq(Units), NEW u \in Seq(Units), NEW a, NEW k,
         Faithful(s, v, f, a, k)
  PROVE  Faithful(s, v, f \o u, a \o Only(Text, u), k)
  <1>1. Only(Text, v) \o Only(Text, f \o u) = (Only(Text, v) \o Only(Text, f)) \o Only(Text, u)
      BY OnlyThree
  <1> QED
      BY <1>1 DEF Faithful

\* The shell writes text.
LEMMA FineSays ==
  ASSUME NEW s, NEW g, NEW d \in Seq(Units), NEW o \in Seq(Units), NEW f \in Seq(Units),
         NEW a \in Seq(Units), NEW k, Fine(s, g, d, o, f, a, k),
         NEW u \in Seq(Units), \A i \in 1 .. Len(u) : u[i] \in Text
  PROVE  Fine(s, g, d, o, f \o u, a \o Only(Text, u), k)
  <1>1. \A i \in 1 .. Len(f \o u) : (f \o u)[i] \in Text \cup {"r"}
    <2>1. PICK m \in Nat, n \in Nat : m = Len(f) /\ n = Len(u)
        BY LenProperties
    <2>2. /\ Len(f \o u) = m + n
          /\ \A i \in 1 .. m + n : (f \o u)[i] = IF i <= m THEN f[i] ELSE u[i - m]
        BY <2>1, ConcatProperties
    <2>3. \A i \in 1 .. m + n : /\ i <= m => i \in 1 .. m
                                /\ ~ (i <= m) => i - m \in 1 .. n
        OBVIOUS
    <2>4. \A i \in 1 .. m : f[i] \in Text \cup {"r"}
        BY <2>1 DEF Fine
    <2> QED
        BY <2>1, <2>2, <2>3, <2>4
  <1>2. PICK v \in Seq(Units) : v = d \o o
      BY ConcatProperties
  <1>3. Faithful(s, v, f, a, k) => Faithful(s, v, f \o u, a \o Only(Text, u), k)
      BY FaithfulSays, Zenon
  <1> QED
      BY <1>1, <1>2, <1>3 DEF Fine

\* A SOCKS server writes its reply.
LEMMA FineReplies ==
  ASSUME NEW s, NEW g, NEW d \in Seq(Units), NEW o \in Seq(Units), NEW f \in Seq(Units),
         NEW a, NEW k, Fine(s, g, d, o, f, a, k), NEW u \in {<<"r", "r">>, <<>>}
  PROVE  Fine(s, g, d, o, f \o u, a, k)
  <1>1. u \in Seq(Units) /\ \A i \in 1 .. Len(u) : u[i] = "r"
    <2>1. "r" \in Units
        BY DEF Units
    <2>2. /\ <<"r", "r">> \in Seq(Units) /\ <<>> \in Seq(Units)
          /\ \A i \in 1 .. Len(<<"r", "r">>) : <<"r", "r">>[i] = "r"
          /\ \A i \in 1 .. Len(<<>>) : FALSE
        BY <2>1
    <2> QED
        BY <2>2
  <1>2. \A i \in 1 .. Len(f \o u) : (f \o u)[i] \in Text \cup {"r"}
    <2>1. PICK m \in Nat, n \in Nat : m = Len(f) /\ n = Len(u)
        BY <1>1, LenProperties
    <2>2. /\ Len(f \o u) = m + n
          /\ \A i \in 1 .. m + n : (f \o u)[i] = IF i <= m THEN f[i] ELSE u[i - m]
        BY <1>1, <2>1, ConcatProperties
    <2>3. \A i \in 1 .. m + n : /\ i <= m => i \in 1 .. m
                                /\ ~ (i <= m) => i - m \in 1 .. n
        OBVIOUS
    <2>4. \A i \in 1 .. m : f[i] \in Text \cup {"r"}
        BY <2>1 DEF Fine
    <2> QED
        BY <1>1, <2>1, <2>2, <2>3, <2>4
  <1>3. Only(Text, f \o u) = Only(Text, f)
    <2>1. \A i \in 1 .. Len(u) : u[i] \notin Text
        BY <1>1 DEF Text
    <2>2. Only(Text, u) = <<>>
        BY <1>1, <2>1, OnlyNone
    <2>4. Only(Text, f) \in Seq(Units) /\ Only(Text, f \o u) = Only(Text, f) \o Only(Text, u)
        BY <1>1, OnlyMore
    <2>3. Only(Text, f) \in Seq(Units) /\ Only(Text, f \o u) = Only(Text, f) \o <<>>
        BY <2>2, <2>4
    <2> QED
        BY <2>3, ConcatEmptySeq
  <1> QED
      BY <1>2, <1>3 DEF Fine, Faithful

\* The two pieces of a queue.
LEMMA TwoPieces ==
  ASSUME NEW T, NEW q \in Seq(T), NEW n \in 0 .. Len(q)
  PROVE  /\ SubSeq(q, 1, n) \in Seq(T) /\ SubSeq(q, n + 1, Len(q)) \in Seq(T)
         /\ SubSeq(q, 1, n) \o SubSeq(q, n + 1, Len(q)) = q
         /\ Len(SubSeq(q, 1, n)) = n /\ \A i \in 1 .. n : SubSeq(q, 1, n)[i] = q[i]
         /\ Len(SubSeq(q, n + 1, Len(q))) = Len(q) - n
         /\ \A i \in 1 .. Len(q) - n : SubSeq(q, n + 1, Len(q))[i] = q[n + i]
  <1>1. PICK N \in Nat : N = Len(q)
      BY LenProperties
  <1>2. n \in Nat /\ n <= N /\ 1 \in Int /\ n \in Int /\ n + 1 \in Int /\ N \in Int
      BY <1>1
  <1>3. \A i \in 1 .. N : q[i] \in T
      BY <1>1, ElementOfSeq
  <1>4. PICK a : a = SubSeq(q, 1, n)
      OBVIOUS
  <1>5. PICK b : b = SubSeq(q, n + 1, N)
      OBVIOUS
  <1>6. /\ a \in Seq(T) /\ Len(a) = (IF 1 <= n THEN n - 1 + 1 ELSE 0)
        /\ \A i \in 1 .. n - 1 + 1 : a[i] = q[1 + i - 1]
    <2>1. \A i \in 1 .. n : q[i] \in T
        BY <1>2, <1>3
    <2> QED
        BY <1>2, <1>4, <2>1, SubSeqProperties
  <1>7. /\ b \in Seq(T) /\ Len(b) = (IF n + 1 <= N THEN N - (n + 1) + 1 ELSE 0)
        /\ \A i \in 1 .. N - (n + 1) + 1 : b[i] = q[n + 1 + i - 1]
    <2>1. \A i \in n + 1 .. N : q[i] \in T
        BY <1>2, <1>3
    <2> QED
        BY <1>2, <1>5, <2>1, SubSeqProperties
  <1>8. Len(a) = n /\ \A i \in 1 .. n : a[i] = q[i]
    <2>1. n - 1 + 1 = n /\ \A i \in 1 .. n : 1 + i - 1 = i
        BY <1>2
    <2>2. ~ (1 <= n) => n = 0
        BY <1>2
    <2> QED
        BY <1>6, <2>1, <2>2
  <1>9. Len(b) = N - n /\ \A i \in 1 .. N - n : b[i] = q[n + i]
    <2>1. N - (n + 1) + 1 = N - n /\ \A i \in 1 .. N - n : n + 1 + i - 1 = n + i
        BY <1>2
    <2>2. ~ (n + 1 <= N) => N - n = 0
        BY <1>2
    <2> QED
        BY <1>7, <2>1, <2>2
  <1>10. a \o b = q
    <2>1. a \o b \in Seq(T) /\ Len(a \o b) = Len(a) + Len(b)
          /\ \A i \in 1 .. Len(a) + Len(b) : (a \o b)[i] = IF i <= Len(a) THEN a[i] ELSE b[i - Len(a)]
        BY <1>6, <1>7, ConcatProperties
    <2>2. Len(a) + Len(b) = N
        BY <1>2, <1>8, <1>9
    <2>3. ASSUME NEW i \in 1 .. N PROVE (a \o b)[i] = q[i]
      <3>1. /\ i <= n => i \in 1 .. n
            /\ ~ (i <= n) => i - n \in 1 .. N - n /\ n + (i - n) = i
          BY <1>2
      <3>2. (a \o b)[i] = IF i <= n THEN a[i] ELSE b[i - n]
          BY <1>8, <2>1, <2>2
      <3>3. /\ i <= n => a[i] = q[i]
            /\ ~ (i <= n) => b[i - n] = q[i]
          BY <1>8, <1>9, <3>1
      <3> QED
          BY <3>2, <3>3
    <2> QED
        BY <1>1, <2>1, <2>2, <2>3, SameSeq
  <1> QED
      BY <1>1, <1>4, <1>5, <1>6, <1>7, <1>8, <1>9, <1>10

\* No junk.
Clean(q) == \A i \in 1 .. Len(q) : q[i] # Junk

\* Two pieces have none when neither has.
LEMMA CleanMore ==
  ASSUME NEW p \in Seq(Units), NEW q \in Seq(Units)
  PROVE  Clean(p \o q) <=> Clean(p) /\ Clean(q)
  <1>1. PICK m \in Nat, n \in Nat : m = Len(p) /\ n = Len(q)
      BY LenProperties
  <1>2. PICK c \in Seq(Units) : /\ c = p \o q /\ Len(c) = m + n
                                /\ \A i \in 1 .. m + n : c[i] = IF i <= m THEN p[i] ELSE q[i - m]
    <2>1. /\ p \o q \in Seq(Units) /\ Len(p \o q) = Len(p) + Len(q)
          /\ \A i \in 1 .. Len(p) + Len(q) : (p \o q)[i] = IF i <= Len(p) THEN p[i] ELSE q[i - Len(p)]
        BY ConcatProperties
    <2> QED
        BY <1>1, <2>1
  <1>3. ASSUME Clean(c) PROVE Clean(p) /\ Clean(q)
    <2>1. \A i \in 1 .. m : i \in 1 .. m + n /\ i <= m
        OBVIOUS
    <2>2. \A i \in 1 .. n : m + i \in 1 .. m + n /\ ~ (m + i <= m) /\ (m + i) - m = i
        OBVIOUS
    <2>3. \A i \in 1 .. m + n : c[i] # Junk
        BY <1>2, <1>3 DEF Clean
    <2>4. \A i \in 1 .. m : p[i] # Junk
        BY <1>2, <2>1, <2>3
    <2>5. \A i \in 1 .. n : q[i] # Junk
        BY <1>2, <2>2, <2>3
    <2> QED
        BY <1>1, <2>4, <2>5 DEF Clean
  <1>4. ASSUME Clean(p), Clean(q) PROVE Clean(c)
    <2>1. \A i \in 1 .. m + n : /\ i <= m => i \in 1 .. m
                                /\ ~ (i <= m) => i - m \in 1 .. n
        OBVIOUS
    <2>2. (\A i \in 1 .. m : p[i] # Junk) /\ (\A i \in 1 .. n : q[i] # Junk)
        BY <1>1, <1>4 DEF Clean
    <2>3. \A i \in 1 .. m + n : c[i] # Junk
        BY <1>2, <2>1, <2>2
    <2> QED
        BY <1>2, <2>3 DEF Clean
  <1> QED
      BY <1>2, <1>3, <1>4

\* That is: junk is not in it.
LEMMA CleanIs ==
  ASSUME NEW q \in Seq(Units)
  PROVE  Junk \notin Range(q) <=> Clean(q)
  <1>1. DOMAIN q = 1 .. Len(q)
      BY LenProperties
  <1> QED
      BY <1>1 DEF Range, Clean

\* A piece is shown.
LEMMA FaithfulTake ==
  ASSUME NEW s, NEW v \in Seq(Units), NEW p \in Seq(Units), NEW r \in Seq(Units), NEW a, NEW k,
         Faithful(s, v, p \o r, a, k), \A i \in 1 .. Len(p) : p[i] \notin Lines
  PROVE  Faithful(s, v \o p, r, a, k)
  <1>1. Only(Text, v) \o Only(Text, p \o r) = (Only(Text, v) \o Only(Text, p)) \o Only(Text, r)
      BY OnlyThree, Zenon
  <1>2. Only(Text, v \o p) = Only(Text, v) \o Only(Text, p)
      BY OnlyMore, Zenon
  <1>3. Only(Lines, v \o p) = Only(Lines, v) \o Only(Lines, p) /\ Only(Lines, v) \in Seq(Units)
      BY OnlyMore, Zenon
  <1>4. Only(Lines, p) = <<>>
      BY OnlyNone
  <1>5. Only(Lines, v) \o <<>> = Only(Lines, v)
      BY <1>3, ConcatEmptySeq
  <1> QED
      BY <1>1, <1>2, <1>3, <1>4, <1>5 DEF Faithful

\* The line that answers it is shown.
LEMMA FaithfulLine ==
  ASSUME NEW s \in Sessions, NEW v \in Seq(Units), NEW r, NEW a, NEW k \in Nat,
         Faithful(s, v, r, a, k)
  PROVE  Faithful(s, v \o <<Line(s, k + 1)>>, r, a, k + 1)
  <1>1. PICK l \in Units : l = Line(s, k + 1) /\ l \in Lines /\ l \notin Text
      BY LineKind
  <1>2. PICK y \in Seq(Units) : y = <<l>>
    <2>1. <<l>> \in Seq(Units)
        OBVIOUS
    <2> QED
        BY <2>1
  <1>3. Only(Text, y) = <<>> /\ Only(Lines, y) = y
      BY <1>1, <1>2, OnlyOne
  <1>4. Only(Text, v \o y) = Only(Text, v) \o Only(Text, y) /\ Only(Text, v) \in Seq(Units)
      BY OnlyMore, Zenon
  <1>5. Only(Lines, v \o y) = Only(Lines, v) \o Only(Lines, y)
      BY OnlyMore, Zenon
  <1>6. Only(Text, v) \o <<>> = Only(Text, v)
      BY <1>4, ConcatEmptySeq
  <1>7. Written(s, k + 1) = Written(s, k) \o y
      BY <1>1, <1>2, WrittenMore
  <1>8. Faithful(s, v \o y, r, a, k + 1)
      BY <1>3, <1>4, <1>5, <1>6, <1>7 DEF Faithful
  <1> QED
      BY <1>1, <1>2, <1>8

\* A piece and the line are.
LEMMA FaithfulBoth ==
  ASSUME NEW s \in Sessions, NEW v \in Seq(Units), NEW p \in Seq(Units), NEW r \in Seq(Units),
         NEW a, NEW k \in Nat,
         Faithful(s, v, p \o r, a, k), \A i \in 1 .. Len(p) : p[i] \notin Lines
  PROVE  Faithful(s, v \o (p \o <<Line(s, k + 1)>>), r, a, k + 1)
  <1>1. PICK z \in Seq(Units) : z = v \o p
      BY ConcatProperties
  <1>2. Faithful(s, z, r, a, k)
      BY <1>1, FaithfulTake, Zenon
  <1>3. Faithful(s, z \o <<Line(s, k + 1)>>, r, a, k + 1)
      BY <1>2, FaithfulLine, Zenon
  <1>4. <<Line(s, k + 1)>> \in Seq(Units)
    <2>1. Line(s, k + 1) \in Units
        BY LineKind
    <2> QED
        BY <2>1
  <1>5. PICK x \in Seq(Units) : x = <<Line(s, k + 1)>>
      BY <1>4
  <1>6. v \o (p \o x) = (v \o p) \o x
      BY Joined, Zenon
  <1> QED
      BY <1>1, <1>3, <1>5, <1>6

\* What is not text is thrown away.
LEMMA FaithfulSkip ==
  ASSUME NEW s, NEW v \in Seq(Units), NEW p \in Seq(Units), NEW r \in Seq(Units), NEW a, NEW k,
         Faithful(s, v, p \o r, a, k), \A i \in 1 .. Len(p) : p[i] \notin Text
  PROVE  Faithful(s, v, r, a, k)
  <1>1. Only(Text, p \o r) = Only(Text, p) \o Only(Text, r) /\ Only(Text, r) \in Seq(Units)
      BY OnlyMore, Zenon
  <1>2. Only(Text, p) = <<>>
      BY OnlyNone
  <1>3. <<>> \o Only(Text, r) = Only(Text, r)
      BY <1>1, ConcatEmptySeq
  <1> QED
      BY <1>1, <1>2, <1>3 DEF Faithful

\* What a read shows.
LEMMA ShowUnits ==
  ASSUME TypeOK, NEW s \in Sessions, NEW n \in 1 .. Len(fromShell[s])
  PROVE  FlattenSeq(Show(s, n)) = IF Answered(s, n)
                                  THEN SubSeq(fromShell[s], 1, n) \o <<Line(s, line[s] + 1)>>
                                  ELSE SubSeq(fromShell[s], 1, n)
  <1>1. PICK T : T = Seq(Units)
      OBVIOUS
  <1>2. PICK w \in Seq(T) : w = Show(s, n)
      BY <1>1, ShowType
  <1>3. CASE Answered(s, n)
    <2>1. Len(w) = 2 /\ w[1] = SubSeq(fromShell[s], 1, n) /\ w[2] = <<Line(s, line[s] + 1)>>
        BY <1>2, <1>3 DEF Show
    <2>2. FlattenSeq(w) = w[1] \o w[2]
      <3>1. Len(w) <= 2
          BY <2>1
      <3> QED
          BY <2>1, <3>1, FlattenTwo, Zenon
    <2> QED
        BY <1>2, <1>3, <2>1, <2>2
  <1>4. CASE ~ Answered(s, n)
    <2>1. Len(w) = 1 /\ w[1] = SubSeq(fromShell[s], 1, n)
        BY <1>2, <1>4 DEF Show
    <2>2. FlattenSeq(w) = w[1]
      <3>1. Len(w) <= 2
          BY <2>1
      <3> QED
          BY <2>1, <3>1, FlattenTwo, Zenon
    <2> QED
        BY <1>2, <1>4, <2>1, <2>2
  <1> QED
      BY <1>3, <1>4

\* A read shows what it takes.
LEMMA TakeShows ==
  ASSUME TypeOK, NEW s \in Sessions, NEW n \in 1 .. Len(fromShell[s]), Take(s, n),
         \A i \in 1 .. Len(fromShell[s]) : fromShell[s][i] \in Text \cup {"r"}
  PROVE  /\ \A i \in 1 .. Len(fromShell'[s]) : fromShell'[s][i] \in Text \cup {"r"}
         /\ FlattenSeq(Show(s, n)) \in Seq(Units)
         /\ Clean(FlattenSeq(Show(s, n)))
         /\ \A v \in Seq(Units) :
               Faithful(s, v, fromShell[s], said[s], line[s])
                  => Faithful(s, v \o FlattenSeq(Show(s, n)), fromShell'[s], said'[s], line'[s])
  <1>1. PICK q \in Seq(Units) : q = fromShell[s]
      BY Queues
  <1>2. PICK p \in Seq(Units), r \in Seq(Units) :
           /\ p = SubSeq(q, 1, n) /\ r = SubSeq(q, n + 1, Len(q)) /\ p \o r = q
           /\ Len(p) = n /\ \A i \in 1 .. n : p[i] = q[i]
           /\ Len(r) = Len(q) - n /\ \A i \in 1 .. Len(q) - n : r[i] = q[n + i]
    <2>1. n \in 0 .. Len(q)
        BY <1>1
    <2>2. /\ SubSeq(q, 1, n) \in Seq(Units) /\ SubSeq(q, n + 1, Len(q)) \in Seq(Units)
          /\ SubSeq(q, 1, n) \o SubSeq(q, n + 1, Len(q)) = q
          /\ Len(SubSeq(q, 1, n)) = n /\ \A i \in 1 .. n : SubSeq(q, 1, n)[i] = q[i]
          /\ Len(SubSeq(q, n + 1, Len(q))) = Len(q) - n
          /\ \A i \in 1 .. Len(q) - n : SubSeq(q, n + 1, Len(q))[i] = q[n + i]
        BY <2>1, TwoPieces
    <2> QED
        BY <2>2
  <1>3. fromShell'[s] = r /\ said'[s] = said[s]
      BY <1>1, <1>2 DEF Take, TypeOK
  <1>4. PICK k \in Nat : k = line[s] /\ line'[s] = IF Answered(s, n) THEN k + 1 ELSE k
    <2>1. line[s] \in Nat
        BY ConsoleSessionAssumption DEF TypeOK
    <2>2. line'[s] = IF Answered(s, n) THEN line[s] + 1 ELSE line[s]
        BY DEF Take, TypeOK
    <2> QED
        BY <2>1, <2>2
  <1>5. PICK x \in Seq(Units) : x = <<Line(s, k + 1)>>
    <2>1. Line(s, k + 1) \in Units
        BY LineKind
    <2>2. <<Line(s, k + 1)>> \in Seq(Units)
        BY <2>1
    <2> QED
        BY <2>2
  <1>6. FlattenSeq(Show(s, n)) = IF Answered(s, n) THEN p \o x ELSE p
      BY <1>1, <1>2, <1>4, <1>5, ShowUnits
  <1>7. PICK y \in Seq(Units) : y = FlattenSeq(Show(s, n))
    <2>1. p \o x \in Seq(Units)
        BY ConcatProperties
    <2> QED
        BY <1>6, <2>1
  <1>8. PICK N \in Nat : N = Len(q) /\ n \in 1 .. N
      BY <1>1, LenProperties
  <1>9. \A i \in 1 .. Len(r) : r[i] \in Text \cup {"r"}
    <2>1. \A i \in 1 .. N - n : n + i \in 1 .. N
        BY <1>8
    <2>2. \A i \in 1 .. N : q[i] \in Text \cup {"r"}
        BY <1>1, <1>8
    <2> QED
        BY <1>2, <1>8, <2>1, <2>2
  <1>10. \A i \in 1 .. Len(p) : p[i] \in Text \cup {"r"}
    <2>1. \A i \in 1 .. n : i \in 1 .. N
        BY <1>8
    <2>2. \A i \in 1 .. N : q[i] \in Text \cup {"r"}
        BY <1>1, <1>8
    <2> QED
        BY <1>2, <2>1, <2>2
  <1>11. \A i \in 1 .. Len(p) : p[i] \notin Lines /\ p[i] # Junk
      BY <1>10 DEF Text, Lines, Junk
  <1>12. Clean(y)
    <2>1. Clean(p)
        BY <1>11 DEF Clean
    <2>2. Line(s, k + 1) # Junk
        BY LineKind DEF Lines, Junk
    <2>3. Clean(x)
        BY <1>5, <2>2 DEF Clean
    <2>4. Clean(p \o x)
        BY <2>1, <2>3, CleanMore, Zenon
    <2> QED
        BY <1>6, <1>7, <2>1, <2>4
  <1>13. ASSUME NEW v \in Seq(Units), NEW a, Faithful(s, v, q, a, k)
         PROVE  Faithful(s, v \o y, r, a, IF Answered(s, n) THEN k + 1 ELSE k)
    <2>1. Faithful(s, v, p \o r, a, k)
        BY <1>2, <1>13
    <2>2. \A i \in 1 .. Len(p) : p[i] \notin Lines
        BY <1>11
    <2>3. Faithful(s, v \o p, r, a, k)
        BY <2>1, <2>2, FaithfulTake, Zenon
    <2>4. CASE Answered(s, n)
      <3>1. Faithful(s, v \o (p \o <<Line(s, k + 1)>>), r, a, k + 1)
          BY <2>1, <2>2, FaithfulBoth, Zenon
      <3> QED
          BY <1>5, <1>6, <1>7, <2>4, <3>1
    <2>5. CASE ~ Answered(s, n)
        BY <1>6, <1>7, <2>3, <2>5
    <2> QED
        BY <2>4, <2>5
  <1>14. ASSUME NEW v \in Seq(Units), Faithful(s, v, fromShell[s], said[s], line[s])
         PROVE  Faithful(s, v \o FlattenSeq(Show(s, n)), fromShell'[s], said'[s], line'[s])
      BY <1>1, <1>3, <1>4, <1>7, <1>13, <1>14
  <1> QED
      BY <1>3, <1>7, <1>9, <1>12, <1>14

\* The n writes of b, of s.
Waiting(s, b, n) == [i \in 1 .. n |-> <<s, b[i]>>]

\* They hold what is in them, for s and for no other.
LEMMA WritesWait ==
  ASSUME NEW s \in Sessions, NEW b \in Seq(Seq(Units)), NEW n \in Nat, n = Len(b)
  PROVE  /\ Waiting(s, b, n) \in Seq(Sessions \X Seq(Units))
         /\ Writes(s, Waiting(s, b, n)) = FlattenSeq(b)
         /\ \A r \in Sessions : r # s => Writes(r, Waiting(s, b, n)) = <<>>
  <1>1. PICK Q : Q = Sessions \X Seq(Units)
      OBVIOUS
  <1>2. \A i \in 1 .. n : b[i] \in Seq(Units)
      BY ElementOfSeq
  <1>3. \A i \in 1 .. n : <<s, b[i]>> \in Q /\ <<s, b[i]>>[1] = s /\ <<s, b[i]>>[2] = b[i]
      BY <1>1, <1>2
  <1>4. /\ Waiting(s, b, n) \in [1 .. n -> Q]
        /\ DOMAIN Waiting(s, b, n) = 1 .. n
        /\ \A i \in 1 .. n : Waiting(s, b, n)[i] = <<s, b[i]>>
      BY <1>3 DEF Waiting
  <1>5. Waiting(s, b, n) \in Seq(Q)
      BY <1>4, SeqDef
  <1>6. PICK v \in Seq(Q) : /\ v = Waiting(s, b, n) /\ Len(v) = n
                            /\ \A i \in 1 .. n : v[i] = <<s, b[i]>>
    <2>1. PICK v \in Seq(Q) : v = Waiting(s, b, n)
        BY <1>5
    <2>2. PICK m \in Nat : m = Len(v) /\ DOMAIN v = 1 .. m
        BY LenProperties
    <2> QED
        BY <1>4, <2>1, <2>2
  <1>7. Writes(s, v) = FlattenSeq(b)
    <2>1. PICK F : F = Owes(s)
        OBVIOUS
    <2>2. Stands(F, Q, Units)
        BY <1>1, <2>1, OwesIs
    <2>3. n = Len(v)
        BY <1>6
    <2>4. /\ Image(F, v) \in Seq(Seq(Units)) /\ Len(Image(F, v)) = n
          /\ \A i \in 1 .. n : Image(F, v)[i] = Of(F, v[i])
        BY <2>2, <2>3, ImageIs
    <2>5. \A i \in 1 .. n : Of(F, v[i]) = b[i]
      <3> TAKE i \in 1 .. n
      <3>1. PICK w \in Seq(Units) : w = b[i]
          BY <1>2
      <3>2. v[i] = <<s, w>>
          BY <1>6, <3>1
      <3>3. Of(F, <<s, w>>) = w
          BY <2>1, OwesIs
      <3> QED
          BY <3>1, <3>2, <3>3
    <2>6. PICK a \in Seq(Seq(Units)) : a = Image(F, v)
        BY <2>4
    <2>7. Len(a) = Len(b) /\ \A i \in 1 .. Len(a) : a[i] = b[i]
        BY <2>4, <2>5, <2>6
    <2>8. a = b
        BY <2>7, SameSeq
    <2>9. Writes(s, v) = Through(F, v)
        BY <1>1, <2>1, WritesIs
    <2> QED
        BY <2>6, <2>8, <2>9 DEF Through
  <1>8. ASSUME NEW r \in Sessions, r # s PROVE Writes(r, v) = <<>>
    <2>1. \A i \in 1 .. Len(v) : v[i][1] # r
        BY <1>3, <1>6, <1>8
    <2>2. v \in Seq(Sessions \X Seq(Units))
        BY <1>1
    <2> QED
        BY <2>1, <2>2, WritesNone
  <1> QED
      BY <1>1, <1>5, <1>6, <1>7, <1>8

\* Nothing is owed of no writes.
LEMMA WritesEmpty ==
  ASSUME NEW s
  PROVE  Writes(s, <<>>) = <<>>
  <1>1. <<>> \in Seq(Sessions \X Seq(Units)) /\ \A i \in 1 .. Len(<<>>) : FALSE
      OBVIOUS
  <1>2. PICK o \in Seq(Sessions \X Seq(Units)) : o = <<>>
      BY <1>1
  <1>3. Writes(s, o) = <<>>
      BY <1>1, <1>2, WritesNone
  <1> QED
      BY <1>2, <1>3

\* The order of two pieces does not matter when one is empty.
LEMMA Swapped ==
  ASSUME NEW d \in Seq(Units), NEW x \in Seq(Units), NEW y \in Seq(Units), NEW z \in Seq(Units)
  PROVE  x = <<>> \/ y = <<>> => (d \o y) \o (x \o z) = (d \o x) \o (y \o z)
  <1>1. CASE x = <<>>
    <2>1. <<>> \o z = z /\ d \o <<>> = d /\ (d \o y) \o z = d \o (y \o z)
        OBVIOUS
    <2> QED
        BY <1>1, <2>1
  <1>2. CASE y = <<>>
    <2>1. <<>> \o z = z /\ d \o <<>> = d /\ (d \o x) \o z = d \o (x \o z)
        OBVIOUS
    <2> QED
        BY <1>2, <2>1
  <1> QED
      BY <1>1, <1>2

\* The writes of w behind the first of them.
Behind(s, w, fit) == [i \in 1 .. Len(w) - fit |-> <<s, w[fit + i]>>]

\* d on the page, o owed: behind them comes all of w.
AllThere(s, o, w, fit, d, u) ==
    /\ FlattenSeq(SubSeq(w, 1, fit)) \in Seq(Units) /\ FlattenSeq(w) \in Seq(Units)
    /\ (d \o FlattenSeq(SubSeq(w, 1, fit))) \o Writes(s, o \o u)
          = (d \o Writes(s, o)) \o FlattenSeq(w)
    /\ \A r \in Sessions : r # s => Writes(r, o \o u) = Writes(r, o)

\* Writes to the page of which the first fit at once are all on it or owed to it,
\* behind those that are owed already.
LEMMA PostWrites ==
  ASSUME NEW s \in Sessions, NEW o \in Seq(Sessions \X Seq(Units)), NEW w \in Seq(Seq(Units)),
         NEW fit \in 0 .. Len(w), fit = 0 \/ o = <<>>, NEW d \in Seq(Units), NEW u,
         u = Behind(s, w, fit)
  PROVE  AllThere(s, o, w, fit, d, u)
  <1>1. PICK S : S = Seq(Units)
      OBVIOUS
  <1>2. /\ SubSeq(w, 1, fit) \in Seq(S) /\ SubSeq(w, fit + 1, Len(w)) \in Seq(S)
        /\ SubSeq(w, 1, fit) \o SubSeq(w, fit + 1, Len(w)) = w
        /\ Len(SubSeq(w, 1, fit)) = fit
        /\ Len(SubSeq(w, fit + 1, Len(w))) = Len(w) - fit
        /\ \A i \in 1 .. Len(w) - fit : SubSeq(w, fit + 1, Len(w))[i] = w[fit + i]
    <2>1. w \in Seq(S)
        BY <1>1
    <2> QED
        BY <2>1, TwoPieces
  <1>3. PICK a \in Seq(Seq(Units)), b \in Seq(Seq(Units)), n \in Nat :
           /\ a = SubSeq(w, 1, fit) /\ b = SubSeq(w, fit + 1, Len(w)) /\ w = a \o b
           /\ Len(a) = fit /\ n = Len(b)
           /\ u = Waiting(s, b, n)
    <2>1. Len(w) - fit \in Nat
        BY LenProperties
    <2>2. u = [i \in 1 .. Len(w) - fit |-> <<s, SubSeq(w, fit + 1, Len(w))[i]>>]
        BY <1>2 DEF Behind
    <2>3. u = Waiting(s, SubSeq(w, fit + 1, Len(w)), Len(w) - fit)
        BY <2>2 DEF Waiting
    <2> QED
        BY <1>1, <1>2, <2>1, <2>3
  <1>4. /\ u \in Seq(Sessions \X Seq(Units))
        /\ Writes(s, u) = FlattenSeq(b)
        /\ \A r \in Sessions : r # s => Writes(r, u) = <<>>
    <2>1. n = Len(b)
        BY <1>3
    <2>2. /\ Waiting(s, b, n) \in Seq(Sessions \X Seq(Units))
          /\ Writes(s, Waiting(s, b, n)) = FlattenSeq(b)
          /\ \A r \in Sessions : r # s => Writes(r, Waiting(s, b, n)) = <<>>
        BY <2>1, WritesWait, Zenon
    <2> QED
        BY <1>3, <2>2
  <1>5. FlattenSeq(w) = FlattenSeq(a) \o FlattenSeq(b)
      BY <1>3, FlattenMore, Zenon
  <1>6. FlattenSeq(a) \in Seq(Units) /\ FlattenSeq(b) \in Seq(Units) /\ FlattenSeq(w) \in Seq(Units)
      BY FlattenFew, Zenon
  <1>7. fit = 0 => FlattenSeq(a) = <<>>
    <2>1. fit = 0 => a = <<>>
        BY <1>3, EmptySeq
    <2> QED
        BY <2>1, FlattenFew
  <1>8. ASSUME NEW r \in Sessions
        PROVE  /\ Writes(r, o \o u) = Writes(r, o) \o Writes(r, u)
               /\ Writes(r, o) \in Seq(Units)
               /\ o = <<>> => Writes(r, o) = <<>>
      BY <1>4, WritesMore, WritesEmpty, Zenon
  <1>9. PICK x \in Seq(Units), y \in Seq(Units), z \in Seq(Units) :
           x = Writes(s, o) /\ y = FlattenSeq(a) /\ z = FlattenSeq(b)
      BY <1>6, <1>8
  <1>10. (d \o y) \o (x \o z) = (d \o x) \o (y \o z)
    <2>1. x = <<>> \/ y = <<>>
        BY <1>7, <1>8, <1>9
    <2>2. x = <<>> \/ y = <<>> => (d \o y) \o (x \o z) = (d \o x) \o (y \o z)
      <3>1. \A d1, x1, y1, z1 \in Seq(Units) :
               x1 = <<>> \/ y1 = <<>> => (d1 \o y1) \o (x1 \o z1) = (d1 \o x1) \o (y1 \o z1)
          BY Swapped
      <3>2. \A x1, y1, z1 \in Seq(Units) :
               x1 = <<>> \/ y1 = <<>> => (d \o y1) \o (x1 \o z1) = (d \o x1) \o (y1 \o z1)
          BY <3>1, Zenon
      <3>3. \A y1, z1 \in Seq(Units) :
               x = <<>> \/ y1 = <<>> => (d \o y1) \o (x \o z1) = (d \o x) \o (y1 \o z1)
          BY <3>2, Zenon
      <3>4. \A z1 \in Seq(Units) :
               x = <<>> \/ y = <<>> => (d \o y) \o (x \o z1) = (d \o x) \o (y \o z1)
          BY <3>3, Zenon
      <3> QED
        BY <3>4, Zenon
    <2> QED
        BY <2>1, <2>2, Zenon
  <1>11. (d \o y) \o Writes(s, o \o u) = (d \o x) \o FlattenSeq(w)
      BY <1>4, <1>5, <1>8, <1>9, <1>10
  <1>12. ASSUME NEW r \in Sessions, r # s PROVE Writes(r, o \o u) = Writes(r, o)
    <2>1. Writes(r, u) = <<>>
        BY <1>4, <1>12
    <2>2. Writes(r, o) \o <<>> = Writes(r, o)
        BY <1>8, ConcatEmptySeq
    <2> QED
        BY <1>8, <2>1, <2>2
  <1> QED
      BY <1>3, <1>6, <1>9, <1>11, <1>12 DEF AllThere

-----------------------------------------------------------------------------
(* The steps. *)
\* What PageOK says of a session.
OfPage(s) == <<prog, shown[s], fromShell[s], said[s], line[s], Writes(s, owed)>>

\* A session nothing of which changes.
LEMMA PageStill ==
  ASSUME NEW s \in Sessions, PageOK(s), OfPage(s)' = OfPage(s)
  PROVE  PageOK(s)'
  <1>1. /\ prog' = prog /\ shown'[s] = shown[s] /\ fromShell'[s] = fromShell[s]
        /\ said'[s] = said[s] /\ line'[s] = line[s] /\ Writes(s, owed') = Writes(s, owed)
      BY DEF OfPage
  <1> QED
      BY <1>1 DEF PageOK

\* The types of what it speaks of.
LEMMA PageTypes ==
  ASSUME TypeOK, NEW s \in Sessions
  PROVE  /\ shown[s] \in Seq(Units) /\ fromShell[s] \in Seq(Units) /\ said[s] \in Seq(Units)
         /\ owed \in Seq(Sessions \X Seq(Units)) /\ Writes(s, owed) \in Seq(Units)
         /\ line[s] \in Nat
  <1>1. owed \in Seq(Sessions \X Seq(Units)) /\ line[s] \in Nat
      BY ConsoleSessionAssumption DEF TypeOK
  <1> QED
      BY <1>1, Queues, WritesMore, Zenon

\* A read that shows what it takes at once.
LEMMA OutputPage ==
  ASSUME TypeOK, PageInv, NEW s \in Sessions, NEW n \in 1 .. Len(fromShell[s]), prog # "web",
         Take(s, n), Output(s, Show(s, n))
  PROVE  PageInv'
  <1> DEFINE w == FlattenSeq(Show(s, n))
  <1>1. PageOK(s) /\ owed = <<>> /\ owed' = owed /\ prog' = prog
      BY DEF PageInv, Take, Output
  <1>2. shown'[s] = shown[s] \o w
      BY DEF Output, TypeOK
  <1>3. Writes(s, owed) = <<>> /\ Writes(s, owed') = <<>>
      BY <1>1, WritesEmpty
  <1>4. \A i \in 1 .. Len(fromShell[s]) : fromShell[s][i] \in Text \cup {"r"}
      BY <1>1 DEF PageOK, Fine
  <1>5. /\ \A i \in 1 .. Len(fromShell'[s]) : fromShell'[s][i] \in Text \cup {"r"}
        /\ w \in Seq(Units) /\ Clean(w)
        /\ \A v \in Seq(Units) :
              Faithful(s, v, fromShell[s], said[s], line[s])
                 => Faithful(s, v \o w, fromShell'[s], said'[s], line'[s])
      BY <1>4, TakeShows
  <1> HIDE DEF w
  <1>6. PICK d \in Seq(Units) : d = shown[s] /\ d \o <<>> = d
    <2>1. shown[s] \in Seq(Units)
        BY PageTypes
    <2> QED
        BY <2>1, ConcatEmptySeq
  <1>7. Junk \notin Range(d) /\ Faithful(s, d, fromShell[s], said[s], line[s])
      BY <1>1, <1>3, <1>6 DEF PageOK, Fine
  <1>8. d \o w \in Seq(Units) /\ (d \o w) \o <<>> = d \o w
      BY <1>5, ConcatProperties, ConcatEmptySeq
  <1>9. Clean(d \o w)
      BY <1>5, <1>7, CleanIs, CleanMore, Zenon
  <1>10. Junk \notin Range(d \o w)
      BY <1>8, <1>9, CleanIs, Zenon
  <1>11. Faithful(s, d \o w, fromShell'[s], said'[s], line'[s])
      BY <1>5, <1>7
  <1>12. PageOK(s)'
      BY <1>2, <1>3, <1>5, <1>6, <1>8, <1>10, <1>11 DEF PageOK, Fine
  <1>13. ASSUME NEW r \in Sessions, r # s PROVE PageOK(r)'
    <2>1. OfPage(r)' = OfPage(r)
      <3>1. shown'[r] = shown[r] /\ fromShell'[r] = fromShell[r] /\ said'[r] = said[r]
          BY <1>13 DEF Output, Take, TypeOK
      <3>2. line'[r] = line[r]
          BY <1>13 DEF Take, TypeOK
      <3> QED
          BY <1>1, <3>1, <3>2 DEF OfPage
    <2>2. PageOK(r)
        BY DEF PageInv
    <2> QED
        BY <2>1, <2>2, PageStill
  <1> QED
      BY <1>1, <1>12, <1>13 DEF PageInv

\* A read of which what does not fit waits.
LEMMA PostPage ==
  ASSUME TypeOK, PageInv, NEW s \in Sessions, NEW n \in 1 .. Len(fromShell[s]), prog = "web",
         Take(s, n), Post(s, Show(s, n))
  PROVE  PageInv'
  <1>1. PageOK(s) /\ prog' = prog
      BY DEF PageInv, Take
  <1>2. PICK w \in Seq(Seq(Units)) : w = Show(s, n)
      BY ShowType
  <1>3. PICK fit \in 0 .. Len(w) :
           /\ fit = 0 \/ owed = <<>>
           /\ shown' = [shown EXCEPT ![s] = OnPage(s, FlattenSeq(SubSeq(w, 1, fit)))]
           /\ owed' = owed \o Behind(s, w, fit)
    <2> DEFINE room == IF owed = <<>> THEN PageCap - unread ELSE 0
               fit  == IF room < Len(w) THEN room ELSE Len(w)
    <2>1. Len(w) \in Nat /\ PageCap - unread \in Nat
        BY LenProperties, ConsoleSessionAssumption DEF TypeOK
    <2>2. fit \in 0 .. Len(w) /\ (fit = 0 \/ owed = <<>>)
        BY <2>1
    <2>3. /\ shown' = [shown EXCEPT ![s] = OnPage(s, FlattenSeq(SubSeq(w, 1, fit)))]
          /\ owed' = owed \o Behind(s, w, fit)
        BY <1>2 DEF Post, Behind
    <2> HIDE DEF fit
    <2> QED
        BY <2>2, <2>3
  <1>4. PICK u : u = Behind(s, w, fit) /\ owed' = owed \o u
      BY <1>3
  <1>5. PICK d \in Seq(Units), o \in Seq(Sessions \X Seq(Units)) : d = shown[s] /\ o = owed
      BY PageTypes
  <1>6. PICK p : p = FlattenSeq(SubSeq(w, 1, fit))
      OBVIOUS
  <1>7. /\ p \in Seq(Units) /\ FlattenSeq(w) \in Seq(Units)
        /\ (d \o p) \o Writes(s, owed') = (d \o Writes(s, owed)) \o FlattenSeq(w)
        /\ \A r \in Sessions : r # s => Writes(r, owed') = Writes(r, owed)
    <2>1. fit = 0 \/ o = <<>>
        BY <1>3, <1>5
    <2>2. u = Behind(s, w, fit)
        BY <1>4
    <2>3. AllThere(s, o, w, fit, d, u)
        BY <2>1, <2>2, PostWrites, Zenon
    <2> QED
        BY <1>4, <1>5, <1>6, <2>3 DEF AllThere
  <1>8. shown'[s] = d \o (IF Junk \in Range(d) THEN <<>> ELSE p)
      BY <1>3, <1>5, <1>6 DEF OnPage, TypeOK
  <1>9. \A i \in 1 .. Len(fromShell[s]) : fromShell[s][i] \in Text \cup {"r"}
      BY <1>1 DEF PageOK, Fine
  <1>10. /\ \A i \in 1 .. Len(fromShell'[s]) : fromShell'[s][i] \in Text \cup {"r"}
         /\ \A v \in Seq(Units) :
               Faithful(s, v, fromShell[s], said[s], line[s])
                  => Faithful(s, v \o FlattenSeq(w), fromShell'[s], said'[s], line'[s])
      BY <1>2, <1>9, TakeShows
  <1>11. ASSUME Junk \notin Range(d)
         PROVE  Faithful(s, shown'[s] \o Writes(s, owed'), fromShell'[s], said'[s], line'[s])
    <2>1. PICK v \in Seq(Units) : v = d \o Writes(s, owed)
      <3>1. Writes(s, owed) \in Seq(Units)
          BY PageTypes
      <3> QED
          BY <3>1, ConcatProperties
    <2>2. Faithful(s, v, fromShell[s], said[s], line[s])
        BY <1>1, <1>5, <1>11, <2>1 DEF PageOK, Fine
    <2>3. Faithful(s, v \o FlattenSeq(w), fromShell'[s], said'[s], line'[s])
        BY <1>10, <2>2
    <2>4. shown'[s] \o Writes(s, owed') = v \o FlattenSeq(w)
        BY <1>7, <1>8, <1>11, <2>1
    <2> QED
        BY <2>3, <2>4
  <1>12. Junk \in Range(d) => Junk \in Range(shown'[s])
    <2>1. d \o <<>> = d
        BY ConcatEmptySeq
    <2> QED
        BY <1>8, <2>1
  <1>13. PageOK(s)'
      BY <1>1, <1>10, <1>11, <1>12 DEF PageOK, Fine
  <1>14. ASSUME NEW r \in Sessions, r # s PROVE PageOK(r)'
    <2>1. OfPage(r)' = OfPage(r)
      <3>1. shown'[r] = shown[r] /\ fromShell'[r] = fromShell[r] /\ said'[r] = said[r]
          BY <1>3, <1>14 DEF Take, TypeOK
      <3>2. line'[r] = line[r]
          BY <1>14 DEF Take, TypeOK
      <3> QED
          BY <1>1, <1>7, <1>14, <3>1, <3>2 DEF OfPage
    <2>2. PageOK(r)
        BY DEF PageInv
    <2> QED
        BY <2>1, <2>2, PageStill
  <1> QED
      BY <1>1, <1>13, <1>14 DEF PageInv

\* What is owed first is owed with the rest.
LEMMA WritesFirst ==
  ASSUME NEW o \in Seq(Sessions \X Seq(Units)), o # <<>>, NEW s, s = Head(o)[1]
  PROVE  /\ s \in Sessions /\ Head(o)[2] \in Seq(Units)
         /\ Tail(o) \in Seq(Sessions \X Seq(Units))
         /\ Writes(s, o) = Head(o)[2] \o Writes(s, Tail(o))
         /\ \A r \in Sessions : r # s => Writes(r, o) = Writes(r, Tail(o))
  <1>1. /\ Head(o) \in Sessions \X Seq(Units) /\ Tail(o) \in Seq(Sessions \X Seq(Units))
      BY HeadTailProperties
  <1>2. PICK w \in Seq(Units) : w = Head(o)[2] /\ Head(o) = <<s, w>> /\ s \in Sessions
      BY <1>1
  <1>3. PICK a \in Seq(Sessions \X Seq(Units)) : a = <<Head(o)>>
    <2>1. <<Head(o)>> \in Seq(Sessions \X Seq(Units))
        BY <1>1
    <2> QED
        BY <2>1
  <1>4. PICK b \in Seq(Sessions \X Seq(Units)) : b = Tail(o)
      BY <1>1
  <1>5. o = a \o b
    <2>1. PICK Q : Q = Sessions \X Seq(Units)
        OBVIOUS
    <2>2. o \in Seq(Q)
        BY <2>1
    <2>3. o = <<Head(o)>> \o Tail(o)
        BY <2>2
    <2> QED
        BY <1>3, <1>4, <2>3
  <1>6. ASSUME NEW r
        PROVE  Writes(r, o) = Writes(r, a) \o Writes(r, b) /\ Writes(r, b) \in Seq(Units)
      BY <1>5, WritesMore, Zenon
  <1>7. ASSUME NEW r PROVE Writes(r, a) = IF r = s THEN w ELSE <<>>
    <2>1. Writes(r, <<<<s, w>>>>) = IF s = r THEN w ELSE <<>>
        BY <1>2, WritesOne, Zenon
    <2> QED
        BY <1>2, <1>3, <2>1
  <1>8. ASSUME NEW r, r # s PROVE Writes(r, o) = Writes(r, b)
    <2>1. Writes(r, a) = <<>>
        BY <1>7, <1>8
    <2>2. <<>> \o Writes(r, b) = Writes(r, b)
        BY <1>6, ConcatEmptySeq
    <2> QED
        BY <1>6, <2>1, <2>2
  <1>9. Writes(s, o) = w \o Writes(s, b)
      BY <1>6, <1>7
  <1> QED
      BY <1>1, <1>2, <1>4, <1>8, <1>9

\* A write that waited is done.
LEMMA FlushPageStep ==
  ASSUME TypeOK, PageInv, FlushPage
  PROVE  PageInv'
  <1>1. PICK s : s = Head(owed)[1]
      OBVIOUS
  <1>2. /\ owed # <<>> /\ owed' = Tail(owed)
        /\ UNCHANGED <<prog, fromShell, said, line>>
      BY DEF FlushPage
  <1>3. PICK w \in {Head(owed)[2], <<Junk>>} : shown' = [shown EXCEPT ![s] = OnPage(s, w)]
      BY <1>1 DEF FlushPage
  <1>4. PICK o \in Seq(Sessions \X Seq(Units)) : o = owed
      BY DEF TypeOK
  <1>5. /\ s \in Sessions /\ Head(o)[2] \in Seq(Units)
        /\ Tail(o) \in Seq(Sessions \X Seq(Units))
        /\ Writes(s, o) = Head(o)[2] \o Writes(s, Tail(o))
        /\ \A r \in Sessions : r # s => Writes(r, o) = Writes(r, Tail(o))
      BY <1>1, <1>2, <1>4, WritesFirst
  <1>6. prog = "web" /\ PageOK(s)
      BY <1>2, <1>5 DEF PageInv
  <1>7. PICK d \in Seq(Units), h \in Seq(Units), t \in Seq(Units) :
           d = shown[s] /\ h = Head(o)[2] /\ t = Writes(s, Tail(o))
    <2>1. shown[s] \in Seq(Units)
        BY <1>5, PageTypes
    <2>2. Writes(s, Tail(o)) \in Seq(Units)
        BY <1>5, WritesMore, Zenon
    <2> QED
        BY <1>5, <2>1, <2>2
  <1>8. shown'[s] = d \o (IF Junk \in Range(d) THEN <<>> ELSE w)
      BY <1>3, <1>5, <1>7 DEF OnPage, TypeOK
  <1>9. Junk \in Range(d) => Junk \in Range(shown'[s])
    <2>1. d \o <<>> = d
        BY ConcatEmptySeq
    <2> QED
        BY <1>8, <2>1
  <1>10. ASSUME Junk \notin Range(d), w # h PROVE Junk \in Range(shown'[s])
    <2>1. PICK j \in Seq(Units) : j = <<Junk>> /\ ~ Clean(j)
      <3>1. /\ <<Junk>> \in Seq(Units) /\ 1 \in 1 .. Len(<<Junk>>) /\ <<Junk>>[1] = Junk
          BY DEF Units
      <3> QED
          BY <3>1 DEF Clean
    <2>2. shown'[s] = d \o j
        BY <1>3, <1>4, <1>7, <1>8, <1>10, <2>1
    <2>3. ~ Clean(d \o j)
        BY <2>1, CleanMore, Zenon
    <2>4. d \o j \in Seq(Units)
        BY ConcatProperties
    <2> QED
        BY <2>2, <2>3, <2>4, CleanIs, Zenon
  <1>11. ASSUME Junk \notin Range(d), w = h
         PROVE  Faithful(s, shown'[s] \o Writes(s, owed'), fromShell'[s], said'[s], line'[s])
    <2>1. Faithful(s, d \o (h \o t), fromShell[s], said[s], line[s])
        BY <1>4, <1>5, <1>6, <1>7, <1>11 DEF PageOK, Fine
    <2>2. d \o (h \o t) = (d \o h) \o t
        BY Joined, Zenon
    <2>3. shown'[s] = d \o h /\ Writes(s, owed') = t
        BY <1>2, <1>4, <1>7, <1>8, <1>11
    <2> QED
        BY <1>2, <2>1, <2>2, <2>3
  <1>12. \A i \in 1 .. Len(fromShell'[s]) : fromShell'[s][i] \in Text \cup {"r"}
      BY <1>2, <1>6 DEF PageOK, Fine
  <1>13. PageOK(s)'
      BY <1>2, <1>6, <1>9, <1>10, <1>11, <1>12 DEF PageOK, Fine
  <1>14. ASSUME NEW r \in Sessions, r # s PROVE PageOK(r)'
    <2>1. shown'[r] = shown[r] /\ Writes(r, owed') = Writes(r, owed)
        BY <1>2, <1>3, <1>4, <1>5, <1>14 DEF TypeOK
    <2>2. OfPage(r)' = OfPage(r)
        BY <1>2, <2>1 DEF OfPage
    <2>3. PageOK(r)
        BY DEF PageInv
    <2> QED
        BY <2>2, <2>3, PageStill
  <1> QED
      BY <1>2, <1>6, <1>13, <1>14 DEF PageInv

\* A shell says something.
LEMMA SaysPage ==
  ASSUME TypeOK, PageInv, NEW s \in Sessions,
         NEW u \in {Prompt, <<"t">>, <<"t">> \o Prompt, <<>> \o Prompt, Prompt \o Prompt}, Says(s, u),
         UNCHANGED <<prog, shown, owed, line>>
  PROVE  PageInv'
  <1>1. fromShell'[s] = fromShell[s] \o u /\ said'[s] = said[s] \o u
      BY DEF Says, TypeOK
  <1>2. u \in Seq(Units) /\ Only(Text, u) = u /\ \A i \in 1 .. Len(u) : u[i] \in Text
      BY TextIs
  <1>3. /\ shown[s] \in Seq(Units) /\ fromShell[s] \in Seq(Units) /\ said[s] \in Seq(Units)
        /\ Writes(s, owed) \in Seq(Units)
      BY PageTypes
  <1>4. Fine(s, prog # "web", shown[s], Writes(s, owed), fromShell[s], said[s], line[s])
      BY DEF PageInv, PageOK
  <1>5. Fine(s, prog # "web", shown[s], Writes(s, owed), fromShell[s] \o u, said[s] \o Only(Text, u),
             line[s])
      BY <1>2, <1>3, <1>4, FineSays, Zenon
  <1>6. PageOK(s)'
      BY <1>1, <1>2, <1>5 DEF PageOK
  <1>7. ASSUME NEW r \in Sessions, r # s PROVE PageOK(r)'
    <2>1. OfPage(r)' = OfPage(r)
        BY <1>7 DEF OfPage, Says, TypeOK
    <2>2. PageOK(r)
        BY DEF PageInv
    <2> QED
        BY <2>1, <2>2, PageStill
  <1> QED
      BY <1>6, <1>7 DEF PageInv

\* A SOCKS server answers.
LEMMA ProxyPage ==
  ASSUME TypeOK, PageInv, NEW s \in Sessions, ProxyAnswers(s)
  PROVE  PageInv'
  <1>1. PICK u \in {<<"r", "r">>, <<>>} : fromShell' = [fromShell EXCEPT ![s] = fromShell[s] \o u]
      BY DEF ProxyAnswers, TypeOK
  <1>2. UNCHANGED <<prog, said, line, shown, owed>>
      BY DEF ProxyAnswers, page
  <1>3. /\ shown[s] \in Seq(Units) /\ fromShell[s] \in Seq(Units)
        /\ Writes(s, owed) \in Seq(Units)
      BY PageTypes
  <1>4. Fine(s, prog # "web", shown[s], Writes(s, owed), fromShell[s], said[s], line[s])
      BY DEF PageInv, PageOK
  <1>5. Fine(s, prog # "web", shown[s], Writes(s, owed), fromShell[s] \o u, said[s], line[s])
      BY <1>3, <1>4, FineReplies, Zenon
  <1>6. PageOK(s)'
      BY <1>1, <1>2, <1>5 DEF PageOK, TypeOK
  <1>7. ASSUME NEW r \in Sessions, r # s PROVE PageOK(r)'
    <2>1. OfPage(r)' = OfPage(r)
        BY <1>1, <1>2, <1>7 DEF OfPage, TypeOK
    <2>2. PageOK(r)
        BY DEF PageInv
    <2> QED
        BY <2>1, <2>2, PageStill
  <1> QED
      BY <1>2, <1>6, <1>7 DEF PageInv

\* The reply is read, and nothing else.
LEMMA ReplyPage ==
  ASSUME IInv, PageInv, NEW s \in Sessions, NEW n \in 1 .. Len(fromShell[s]), ReadReply(s, n)
  PROVE  PageInv'
  <1>1. TypeOK /\ StartOK(s) /\ reply[s] /\ n \in 1 .. 2 /\ n <= Len(fromShell[s])
      BY DEF IInv, ReadReply
  <1>2. PICK q \in Seq(Units) : q = fromShell[s]
      BY <1>1, Queues
  <1>3. PICK p \in Seq(Units), r \in Seq(Units) :
           /\ p = SubSeq(q, 1, n) /\ r = SubSeq(q, n + 1, Len(q)) /\ p \o r = q
           /\ Len(p) = n /\ \A i \in 1 .. n : p[i] = q[i]
           /\ Len(r) = Len(q) - n /\ \A i \in 1 .. Len(q) - n : r[i] = q[n + i]
    <2>1. n \in 0 .. Len(q)
        BY <1>2
    <2>2. /\ SubSeq(q, 1, n) \in Seq(Units) /\ SubSeq(q, n + 1, Len(q)) \in Seq(Units)
          /\ SubSeq(q, 1, n) \o SubSeq(q, n + 1, Len(q)) = q
          /\ Len(SubSeq(q, 1, n)) = n /\ \A i \in 1 .. n : SubSeq(q, 1, n)[i] = q[i]
          /\ Len(SubSeq(q, n + 1, Len(q))) = Len(q) - n
          /\ \A i \in 1 .. Len(q) - n : SubSeq(q, n + 1, Len(q))[i] = q[n + i]
        BY <2>1, TwoPieces
    <2> QED
        BY <2>2
  <1>4. PICK N \in Nat : N = Len(q) /\ n \in 1 .. N /\ (n = 1 \/ n = 2)
      BY <1>1, <1>2, LenProperties
  <1>5. q[1] = "r" /\ q[2] = "r"
    <2>1. q # <<>>
        BY <1>4, EmptySeq
    <2> QED
        BY <1>1, <1>2, <2>1 DEF StartOK
  <1>6. \A i \in 1 .. Len(p) : p[i] \notin Text
    <2>1. \A i \in 1 .. n : i = 1 \/ i = 2
        BY <1>4
    <2>2. \A i \in 1 .. n : p[i] = "r"
        BY <1>3, <1>5, <2>1
    <2> QED
        BY <1>3, <2>2 DEF Text
  <1>7. \A i \in 1 .. Len(r) : r[i] \in Text \cup {"r"}
    <2>1. \A i \in 1 .. N - n : n + i \in 1 .. N
        BY <1>4
    <2>2. \A i \in 1 .. N : q[i] \in Text \cup {"r"}
        BY <1>2, <1>4 DEF PageInv, PageOK, Fine
    <2> QED
        BY <1>3, <1>4, <2>1, <2>2
  <1>8. /\ fromShell'[s] = r /\ \A i \in Sessions \ {s} : fromShell'[i] = fromShell[i]
        /\ UNCHANGED <<prog, said, line, shown, owed>>
      BY <1>1, <1>2, <1>3 DEF ReadReply, page, TypeOK
  <1>9. PICK v \in Seq(Units) : v = shown[s] \o Writes(s, owed)
    <2>1. shown[s] \in Seq(Units) /\ Writes(s, owed) \in Seq(Units)
        BY <1>1, PageTypes
    <2> QED
        BY <2>1, ConcatProperties
  <1>10. ASSUME NEW a, NEW k, Faithful(s, v, q, a, k) PROVE Faithful(s, v, r, a, k)
    <2>1. Faithful(s, v, p \o r, a, k)
        BY <1>3, <1>10
    <2> QED
        BY <1>6, <2>1, FaithfulSkip, Zenon
  <1>11. PageOK(s)'
    <2>1. Fine(s, prog # "web", shown[s], Writes(s, owed), q, said[s], line[s])
        BY <1>2 DEF PageInv, PageOK
    <2>2. Fine(s, prog # "web", shown[s], Writes(s, owed), r, said[s], line[s])
        BY <1>7, <1>9, <1>10, <2>1 DEF Fine
    <2> QED
        BY <1>8, <2>2 DEF PageOK
  <1>12. ASSUME NEW i \in Sessions, i # s PROVE PageOK(i)'
    <2>1. OfPage(i)' = OfPage(i)
        BY <1>8, <1>12 DEF OfPage
    <2>2. PageOK(i)
        BY DEF PageInv
    <2> QED
        BY <2>1, <2>2, PageStill
  <1> QED
      BY <1>8, <1>11, <1>12 DEF PageInv

\* At the start nothing is on the page, and nothing was written.
LEMMA PageInit == ASSUME Init PROVE PageInv
  <1> SUFFICES ASSUME NEW s \in Sessions PROVE PageOK(s)
      BY DEF PageInv, Init
  <1>1. shown[s] = <<>> /\ owed = <<>> /\ fromShell[s] = <<>> /\ said[s] = <<>> /\ line[s] = 0
      BY DEF Init
  <1>2. PICK e \in Seq(Units) : e = <<>> /\ Len(e) = 0
      BY EmptySeq
  <1>3. Only(Text, e) = e /\ Only(Lines, e) = e
    <2>1. \A i \in 1 .. Len(e) : FALSE
        BY <1>2
    <2> QED
        BY <1>2, <2>1, OnlyNone
  <1>4. e \o e = e
      BY <1>2, ConcatEmptySeq
  <1>5. Written(s, 0) = e
      BY <1>2 DEF Written
  <1>6. Writes(s, owed) = e
      BY <1>1, <1>2, WritesEmpty
  <1>7. Faithful(s, e \o e, e, e, 0)
      BY <1>3, <1>4, <1>5 DEF Faithful
  <1>8. Junk \notin Range(e) /\ \A i \in 1 .. Len(e) : e[i] \in Text \cup {"r"}
    <2>1. Clean(e)
        BY <1>2 DEF Clean
    <2>2. Junk \notin Range(e)
        BY <2>1, CleanIs, Zenon
    <2> QED
        BY <1>2, <2>2
  <1> QED
      BY <1>1, <1>2, <1>6, <1>7, <1>8 DEF PageOK, Fine

\* Every step keeps it.
LEMMA PageStep == ASSUME IInv, PageInv, [Next]_vars PROVE PageInv'
  <1>1. TypeOK
      BY DEF IInv
  <1>2. ASSUME UNCHANGED <<prog, shown, owed, fromShell, said, line>> PROVE PageInv'
    <2>1. ASSUME NEW r \in Sessions PROVE PageOK(r)'
      <3>1. OfPage(r)' = OfPage(r)
          BY <1>2 DEF OfPage
      <3>2. PageOK(r)
          BY DEF PageInv
      <3> QED
          BY <3>1, <3>2, PageStill
    <2> QED
        BY <1>2, <2>1 DEF PageInv
  <1>3. ASSUME NEW s \in Sessions,
               Resolve(s) \/ Connect(s) \/ ConnectSocks(s) \/ Abort(s) \/ ReadEnd(s) \/ Flush(s)
        PROVE  PageInv'
    <2>1. UNCHANGED <<prog, shown, owed, fromShell, said, line>>
        BY <1>3 DEF Resolve, Connect, ConnectSocks, Abort, ReadEnd, Flush, page
    <2> QED
        BY <1>2, <2>1
  <1>4. ASSUME Browse \/ UNCHANGED vars PROVE PageInv'
    <2>1. UNCHANGED <<prog, shown, owed, fromShell, said, line>>
        BY <1>4 DEF Browse, vars, page
    <2> QED
        BY <1>2, <2>1
  <1>5. ASSUME NEW s \in Sessions, NEW n \in 1 .. Len(fromShell[s]),
               ReadReply(s, n) \/ ReceiveCgi(s, n) \/ ReceiveSocks(s, n) \/ ReceiveWeb(s, n)
        PROVE  PageInv'
    <2>1. CASE ReadReply(s, n)
        BY <2>1, ReplyPage
    <2>2. CASE ReceiveCgi(s, n) \/ ReceiveSocks(s, n)
      <3>1. prog # "web" /\ Take(s, n) /\ Output(s, Show(s, n))
          BY <2>2 DEF ReceiveCgi, ReceiveSocks
      <3> QED
          BY <1>1, <3>1, OutputPage
    <2>3. CASE ReceiveWeb(s, n)
      <3>1. prog = "web" /\ Take(s, n) /\ Post(s, Show(s, n))
          BY <2>3 DEF ReceiveWeb
      <3> QED
          BY <1>1, <3>1, PostPage
    <2> QED
        BY <1>5, <2>1, <2>2, <2>3
  <1>6. ASSUME NEW s \in Sessions, ShellStart(s) PROVE PageInv'
    <2>1. Says(s, Prompt) /\ UNCHANGED <<prog, shown, owed, line>>
        BY <1>6 DEF ShellStart, page
    <2> QED
        BY <1>1, <2>1, SaysPage
  <1>7. ASSUME NEW s \in Sessions, ShellRun(s) PROVE PageInv'
    <2>1. UNCHANGED <<prog, shown, owed, line>>
        BY <1>7 DEF ShellRun, page
    <2>2. CASE Head(toShell[s]) = "exit"
      <3>1. UNCHANGED <<fromShell, said>>
          BY <1>7, <2>2 DEF ShellRun
      <3> QED
          BY <1>2, <2>1, <3>1
    <2>3. CASE Head(toShell[s]) # "exit"
      <3>1. PICK u \in {<<"t">> \o Prompt, <<>> \o Prompt, Prompt \o Prompt} : Says(s, u)
          BY <1>7, <2>3 DEF ShellRun
      <3> QED
          BY <1>1, <2>1, <3>1, SaysPage
    <2> QED
        BY <2>2, <2>3
  <1>8. ASSUME NEW s \in Sessions, Noise(s) PROVE PageInv'
    <2>1. UNCHANGED <<prog, shown, owed, line>>
        BY <1>8 DEF Noise, page
    <2>2. PICK u \in {<<"t">>, Prompt} : Says(s, u)
        BY <1>8 DEF Noise
    <2> QED
        BY <1>1, <2>1, <2>2, SaysPage
  <1>9. ASSUME NEW s \in Sessions, ProxyAnswers(s) PROVE PageInv'
      BY <1>1, <1>9, ProxyPage
  <1>10. ASSUME FlushPage PROVE PageInv'
      BY <1>1, <1>10, FlushPageStep
  <1> QED
      BY <1>3, <1>4, <1>5, <1>6, <1>7, <1>8, <1>9, <1>10 DEF Next, Handler, Shell

\* The page shows all that was read of the shells, in order, and the lines sent
\* where they were sent, whatever handlers of other sessions run in between and
\* however long the browser does not read; only a page of the web server may miss
\* an end that waited, or have a write from dead memory on it (main.cpp:554, :565).
THEOREM PageCorrect == Spec => []PageFaithful
  <1>1. Init => PageInv
      BY PageInit
  <1>2. IInv /\ PageInv /\ [Next]_vars => PageInv'
      BY PageStep
  <1>3. IInv /\ PageInv => PageFaithful
    <2> SUFFICES ASSUME IInv, PageInv, NEW s \in Sessions
                 PROVE  IF Junk \in Range(shown[s]) THEN prog = "web"
                        ELSE /\ Writes(s, owed) # <<>> => prog = "web"
                             /\ Only(Text, (shown[s] \o Writes(s, owed)) \o fromShell[s]) = said[s]
                             /\ Only(Lines, shown[s] \o Writes(s, owed)) = Written(s, line[s])
        BY DEF PageFaithful, Text, Lines, Written
    <2>1. Fine(s, prog # "web", shown[s], Writes(s, owed), fromShell[s], said[s], line[s])
        BY DEF PageInv, PageOK
    <2>2. TypeOK
        BY DEF IInv
    <2>3. PICK v \in Seq(Units), f \in Seq(Units) : v = shown[s] \o Writes(s, owed) /\ f = fromShell[s]
      <3>1. shown[s] \in Seq(Units) /\ Writes(s, owed) \in Seq(Units) /\ fromShell[s] \in Seq(Units)
          BY <2>2, PageTypes
      <3> QED
          BY <3>1, ConcatProperties
    <2>4. Only(Text, v \o f) = Only(Text, v) \o Only(Text, f)
        BY OnlyMore, Zenon
    <2>5. CASE Junk \in Range(shown[s])
        BY <2>1, <2>5 DEF Fine
    <2>6. Writes(s, owed) # <<>> => prog = "web"
        BY WritesEmpty DEF PageInv
    <2>7. CASE Junk \notin Range(shown[s])
        BY <2>1, <2>3, <2>4, <2>6, <2>7 DEF Fine, Faithful
    <2> QED
        BY <2>5, <2>7
  <1> QED
      BY <1>1, <1>2, <1>3, Invariance, PTL DEF Spec
=============================================================================
