--------------------------- MODULE RwgPipesProofs ---------------------------
(***************************************************************************)
(* Proofs about RwgPipes: its safety invariants hold for every number of   *)
(* users, descriptors, entries, logins and commands.                       *)
(*                                                                         *)
(* Fits is what the tables of all users, the matrix of user pipes, the two *)
(* deques and the descriptors must satisfy together.  It is stated of any  *)
(* five such values, because a group goes through intermediate states (<n  *)
(* taken, pipe made, command not yet forked) that are no states of the     *)
(* specification.  One lemma each says what receiving, making a pipe,      *)
(* closing ends, moving up and forking make of it; the actions then put    *)
(* these together.                                                         *)
(***************************************************************************)
EXTENDS RwgPipes, SequenceTheorems, FiniteSetTheorems, FunctionTheorems, TLAPS

-----------------------------------------------------------------------------
(* Inputs that wait. *)

\* What entry i of u's table holds; entry 0 for each v stands for the user pipe
\* from v.
Entry(t, i) == IF i <= Len(t) THEN t[i] ELSE STDIN
In(tabs, matrix, u, v, i) == IF i = 0 THEN matrix[<<v, u>>] ELSE Entry(tabs[u], i)

\* The deques: read ends are on one, write ends on the other, each once; while
\* they have the same length, equal positions hold the ends of one pipe.
Listed(l0, l1, sfd) ==
    /\ l0 \in Seq(Fds) /\ l1 \in Seq(Fds) /\ sfd \in [Fds -> Ends \cup {Closed}]
    /\ \A i, j \in DOMAIN l0 : l0[i] = l0[j] => i = j
    /\ \A i, j \in DOMAIN l1 : l1[i] = l1[j] => i = j
    /\ \A i \in DOMAIN l0 : sfd[l0[i]][1] = "r"
    /\ \A i \in DOMAIN l1 : sfd[l1[i]][1] = "w"
    /\ \A f \in Fds : sfd[f][1] = "r" => \E i \in DOMAIN l0 : l0[i] = f
    /\ \A f \in Fds : sfd[f][1] = "w" => \E i \in DOMAIN l1 : l1[i] = f
    /\ \A f, g \in Fds : sfd[f] = sfd[g] /\ sfd[f] # Closed => f = g
    /\ Len(l0) <= Len(l1)

Paired(l0, l1, sfd) == \A i \in DOMAIN l0 : sfd[l0[i]][2] = sfd[l1[i]][2]

\* Inputs are read ends on the deque, and no descriptor is the input of two
\* entries, of one user or of two.
Inputs(tabs, matrix, l0) ==
    /\ \A u, v \in Users, i \in Nat : In(tabs, matrix, u, v, i) # STDIN =>
          \E k \in DOMAIN l0 : l0[k] = In(tabs, matrix, u, v, i)
    /\ \A u, v, w, x \in Users, i, j \in Nat :
          /\ In(tabs, matrix, u, v, i) = In(tabs, matrix, w, x, j)
          /\ In(tabs, matrix, u, v, i) # STDIN
          => u = w /\ i = j /\ (i = 0 => v = x)

\* t is where entry i of u is: its place, or, for user pipes, its session.
Aims(t, p) == IF t[2] = 0 THEN t[1] = p[1] ELSE t = p

Leads(t, ss, ps, u, i) == IF i = 0 THEN t = <<ss[u], 0>> ELSE Aims(t, <<ss[u], ps[u] + i - 1>>)

\* Who writes to the pipe of an input was told to write there.
Routed(tabs, matrix, sfd, outs, tgts, ss, ps) ==
    \A u, v \in Users, i \in Nat : In(tabs, matrix, u, v, i) # STDIN =>
        \A c \in Cmds : outs[c] = sfd[In(tabs, matrix, u, v, i)][2] =>
            Leads(tgts[c], ss, ps, u, i)

\* A table is never shorter than what |n can name.
LongTables == \A u \in Users : Len(fdTable[u]) >= PipeNumMax - MaxRefused /\ pos[u] >= 1

\* Pipes and ends are those of commands that have come.
Old ==
    /\ \A f \in Fds : fds[f] # Closed => fds[f][2] < cmds
    /\ \A c \in Cmds : inp[c] < cmds /\ out[c] < cmds
    /\ \A c \in Cmds : c >= cmds => inp[c] = NoPipe /\ out[c] = NoPipe /\ held[c] = {}

\* A command holds at most its own two ends.
HeldOwn == \A c \in Cmds : held[c] \subseteq {<<"r", inp[c]>>, <<"w", out[c]>>}
HeldReal == \A c \in Cmds : \A e \in held[c] : e[2] # NoPipe

\* Pipes are there for reading and for writing, or for neither.
Matrices == \A e \in Users \X Users : userPipeIn[e] = STDIN <=> userPipeOut[e] = STDIN

\* The server has closed what its commands read.
Released(sfd) == \A d \in Cmds : inp[d] # NoPipe =>
                    \A f \in Fds : sfd[f] # Closed => sfd[f][2] # inp[d]

\* Tables, matrix, deques and descriptors fit together and with the commands.
Fits(tabs, matrix, l0, l1, sfd) ==
    /\ Listed(l0, l1, sfd) /\ Inputs(tabs, matrix, l0)
    /\ Len(l0) = Len(l1) => /\ Paired(l0, l1, sfd) /\ Released(sfd)
                            /\ Routed(tabs, matrix, sfd, out, target, sess, pos)

IInv ==
    /\ TypeOK /\ LongTables /\ Old /\ HeldOwn /\ HeldReal /\ Matrices /\ NothingInherited
    /\ Fits(fdTable, userPipeIn, pipeFd0, pipeFd1, fds) /\ DeliveredWhileAligned

-----------------------------------------------------------------------------
(* Taking positions out of a deque. *)

\* Nth enumerates a finite set of positions.
LEMMA NthAre ==
    ASSUME NEW S \in SUBSET Nat, IsFiniteSet(S)
    PROVE  /\ Cardinality(S) \in Nat
           /\ \A k \in 1 .. Cardinality(S) : Nth(S, k) \in S
           /\ \A k, m \in 1 .. Cardinality(S) : Nth(S, k) = Nth(S, m) => k = m
           /\ \A i \in S : \E k \in 1 .. Cardinality(S) : Nth(S, k) = i
  <1> DEFINE upto(i) == {j \in S : j <= i}
             rank == [i \in S |-> Cardinality(upto(i))]
  <1>1. PICK n \in Nat : n = Cardinality(S)
      BY FS_CardinalityType
  <1>2. \A i \in S : /\ IsFiniteSet(upto(i)) /\ Cardinality(upto(i)) \in 1 .. n
    <2> TAKE i \in S
    <2>1. upto(i) \in SUBSET S /\ upto(i) # {}
        OBVIOUS
    <2>2. IsFiniteSet(upto(i)) /\ Cardinality(upto(i)) <= n
        BY <2>1, <1>1, FS_Subset
    <2>3. Cardinality(upto(i)) \in Nat /\ Cardinality(upto(i)) # 0
        BY <2>1, <2>2, FS_CardinalityType, FS_EmptySet
    <2> QED BY <2>2, <2>3
  <1>3. ASSUME NEW i \in S, NEW j \in S, i < j PROVE Cardinality(upto(i)) # Cardinality(upto(j))
    <2>1. upto(i) \in SUBSET upto(j) /\ j \in upto(j) /\ j \notin upto(i)
      <3>1. i \in Nat /\ j \in Nat /\ j <= j /\ ~ (j <= i)
          BY <1>3
      <3>2. \A x \in S : x <= i => x <= j
          BY <1>3, <3>1
      <3> QED BY <3>1, <3>2
    <2> HIDE DEF upto
    <2>2. Cardinality(upto(j)) = Cardinality(upto(i)) => upto(j) = upto(i)
        BY <1>2, <2>1, FS_Subset
    <2> QED BY <2>1, <2>2
  <1> HIDE DEF upto
  <1>4. rank \in [S -> 1 .. n] /\ \A i \in S : rank[i] = Cardinality(upto(i))
      BY <1>2
  <1>5. \A i, j \in S : rank[i] = rank[j] => i = j
    <2> TAKE i \in S, j \in S
    <2>1. i < j \/ j < i \/ i = j
        OBVIOUS
    <2> QED BY <1>3, <1>4, <2>1
  <1> HIDE DEF rank
  <1>6. rank \in Surjection(S, 1 .. n)
    <2>1. rank \in Injection(S, 1 .. n)
        BY <1>4, <1>5 DEF Injection, IsInjective
    <2>2. IsFiniteSet(1 .. n) /\ Cardinality(1 .. n) = n
        BY FS_Interval
    <2> QED BY <1>1, <2>1, <2>2, FS_Injection
  <1>7. \A k \in 1 .. n : \E i \in S : rank[i] = k
      BY <1>6 DEF Surjection
  <1>8. \A k \in 1 .. n : Nth(S, k) \in S /\ rank[Nth(S, k)] = k
    <2> TAKE k \in 1 .. n
    <2>1. \E i \in S : Cardinality(upto(i)) = k
        BY <1>4, <1>7
    <2>2. Nth(S, k) = CHOOSE i \in S : Cardinality(upto(i)) = k
        BY DEF Nth, upto
    <2>3. Nth(S, k) \in S /\ Cardinality(upto(Nth(S, k))) = k
        BY <2>1, <2>2
    <2> QED BY <1>4, <2>3
  <1>9. ASSUME NEW i \in S PROVE \E k \in 1 .. n : Nth(S, k) = i
    <2>1. rank[i] \in 1 .. n
        BY <1>4
    <2>2. Nth(S, rank[i]) \in S /\ rank[Nth(S, rank[i])] = rank[i]
        BY <1>8, <2>1
    <2> QED BY <1>5, <2>1, <2>2
  <1>10. \A k, m \in 1 .. n : Nth(S, k) = Nth(S, m) => k = m
      BY <1>8
  <1> QED BY <1>1, <1>8, <1>9, <1>10

\* m is l at the positions of kept, in the order g.
Picks(l, kept, m, g) ==
    /\ m \in Seq(Fds) /\ g \in [DOMAIN m -> kept] /\ kept \subseteq DOMAIN l
    /\ \A k \in DOMAIN m : m[k] = l[g[k]]
    /\ \A k, n \in DOMAIN m : g[k] = g[n] => k = n
    /\ \A i \in kept : \E k \in DOMAIN m : g[k] = i
    /\ IsFiniteSet(kept) /\ Len(m) = Cardinality(kept) /\ Len(m) \in Nat

Order(kept) == [k \in 1 .. Cardinality(kept) |-> Nth(kept, k)]

\* What Without leaves.
LEMMA WithoutIs ==
    ASSUME NEW l \in Seq(Fds), NEW P
    PROVE  Picks(l, DOMAIN l \ P, Without(l, P), Order(DOMAIN l \ P))
  <1>1. DOMAIN l = 1 .. Len(l) /\ Len(l) \in Nat /\ \A i \in DOMAIN l : l[i] \in Fds
      BY LenProperties
  <1> DEFINE kept == DOMAIN l \ P
  <1>2. IsFiniteSet(kept) /\ kept \in SUBSET Nat /\ kept \subseteq DOMAIN l
    <2>1. IsFiniteSet(1 .. Len(l))
        BY <1>1, FS_Interval
    <2>2. kept \in SUBSET (1 .. Len(l))
        BY <1>1
    <2> QED BY <1>1, <2>1, <2>2, FS_Subset
  <1>11. Without(l, P) = [k \in 1 .. Cardinality(kept) |-> l[Nth(kept, k)]]
      BY DEF Without
  <1> HIDE DEF kept
  <1>3. /\ Cardinality(kept) \in Nat
        /\ \A k \in 1 .. Cardinality(kept) : Nth(kept, k) \in kept
        /\ \A k, m \in 1 .. Cardinality(kept) : Nth(kept, k) = Nth(kept, m) => k = m
        /\ \A i \in kept : \E k \in 1 .. Cardinality(kept) : Nth(kept, k) = i
      BY <1>2, NthAre
  <1>4. PICK n \in Nat : n = Cardinality(kept)
      BY <1>3
  <1> DEFINE w == [k \in 1 .. n |-> l[Nth(kept, k)]]
             g == [k \in 1 .. n |-> Nth(kept, k)]
  <1>5. w \in [1 .. n -> Fds] /\ \A k \in 1 .. n : w[k] = l[Nth(kept, k)]
      BY <1>1, <1>2, <1>3, <1>4
  <1>6. g \in [1 .. n -> kept] /\ \A k \in 1 .. n : g[k] = Nth(kept, k)
      BY <1>3, <1>4
  <1>7. Without(l, P) = w /\ Order(kept) = g
      BY <1>4, <1>11 DEF Order
  <1> HIDE DEF w, g
  <1>8. w \in Seq(Fds) /\ Len(w) = n /\ DOMAIN w = 1 .. n
      BY <1>5
  <1>9. /\ \A k, m \in 1 .. n : g[k] = g[m] => k = m
        /\ \A i \in kept : \E k \in 1 .. n : g[k] = i
      BY <1>3, <1>4, <1>6
  <1>10. Picks(l, kept, w, g)
      BY <1>2, <1>4, <1>5, <1>6, <1>8, <1>9 DEF Picks
  <1> QED BY <1>7, <1>10 DEF kept

\* Descriptors after the ends at some positions were closed.
Shut(sfd, l0, P0, l1, P1) ==
    [f \in Fds |-> IF f \in {l0[i] : i \in P0} \cup {l1[i] : i \in P1} THEN Closed ELSE sfd[f]]

\* Ends are closed and taken off the deques: some read ends, and write ends at
\* some of the same positions.
LEMMA CloseEnds ==
    ASSUME NEW l0, NEW l1, NEW sfd, Listed(l0, l1, sfd),
           NEW P0 \in SUBSET (DOMAIN l0), NEW P1 \in SUBSET P0,
           NEW m0, m0 = Without(l0, P0), NEW m1, m1 = Without(l1, P1),
           NEW sfd2, sfd2 = Shut(sfd, l0, P0, l1, P1)
    PROVE  /\ Listed(m0, m1, sfd2)
           /\ \A f \in Fds : sfd2[f] = sfd[f] \/ sfd2[f] = Closed
           /\ \A i \in DOMAIN l0 \ P0 :
                 sfd2[l0[i]] = sfd[l0[i]] /\ \E k \in DOMAIN m0 : m0[k] = l0[i]
           /\ \A i \in P0 : sfd2[l0[i]] = Closed
           /\ \A i \in P1 : sfd2[l1[i]] = Closed
           /\ Len(m0) = Len(m1) => /\ Len(l0) = Len(l1) /\ P0 = P1
                                   /\ Paired(l0, l1, sfd) => Paired(m0, m1, sfd2)
  <1> DEFINE r0 == DOMAIN l0 \ P0
             r1 == DOMAIN l1 \ P1
  <1>0. r0 = DOMAIN l0 \ P0 /\ r1 = DOMAIN l1 \ P1
      OBVIOUS
  <1> HIDE DEF r0, r1
  <1>1. /\ l0 \in Seq(Fds) /\ l1 \in Seq(Fds) /\ sfd \in [Fds -> Ends \cup {Closed}]
        /\ \A i, j \in DOMAIN l0 : l0[i] = l0[j] => i = j
        /\ \A i, j \in DOMAIN l1 : l1[i] = l1[j] => i = j
        /\ \A i \in DOMAIN l0 : sfd[l0[i]][1] = "r"
        /\ \A i \in DOMAIN l1 : sfd[l1[i]][1] = "w"
        /\ \A f \in Fds : sfd[f][1] = "r" => \E i \in DOMAIN l0 : l0[i] = f
        /\ \A f \in Fds : sfd[f][1] = "w" => \E i \in DOMAIN l1 : l1[i] = f
        /\ \A f, g \in Fds : sfd[f] = sfd[g] /\ sfd[f] # Closed => f = g
        /\ Len(l0) <= Len(l1)
      BY DEF Listed
  <1>2. PICK a \in Nat, b \in Nat : /\ a = Len(l0) /\ b = Len(l1) /\ a <= b
                                    /\ DOMAIN l0 = 1 .. a /\ DOMAIN l1 = 1 .. b
      BY <1>1, LenProperties
  <1>3. /\ \A i \in DOMAIN l0 : l0[i] \in Fds
        /\ \A i \in DOMAIN l1 : l1[i] \in Fds
        /\ Closed[1] = "closed" /\ Closed \in Ends \cup {Closed}
      BY <1>1, <1>2 DEF Closed
  <1> DEFINE g0 == Order(DOMAIN l0 \ P0)
             g1 == Order(DOMAIN l1 \ P1)
  <1>13. Picks(l0, r0, m0, g0) /\ Picks(l1, r1, m1, g1)
      BY <1>0, <1>1, WithoutIs
  <1>14. r0 = r1 => g0 = g1
      BY <1>0
  <1> HIDE DEF g0, g1
  <1>4. /\ m0 \in Seq(Fds) /\ g0 \in [DOMAIN m0 -> r0]
        /\ \A k \in DOMAIN m0 : g0[k] \in r0 /\ m0[k] = l0[g0[k]]
        /\ \A k, m \in DOMAIN m0 : g0[k] = g0[m] => k = m
        /\ \A i \in r0 : \E k \in DOMAIN m0 : g0[k] = i
        /\ IsFiniteSet(r0) /\ Len(m0) = Cardinality(r0) /\ DOMAIN m0 = 1 .. Len(m0) /\ Len(m0) \in Nat
      BY <1>13 DEF Picks
  <1>5. /\ m1 \in Seq(Fds) /\ g1 \in [DOMAIN m1 -> r1]
        /\ \A k \in DOMAIN m1 : g1[k] \in r1 /\ m1[k] = l1[g1[k]]
        /\ \A k, m \in DOMAIN m1 : g1[k] = g1[m] => k = m
        /\ \A i \in r1 : \E k \in DOMAIN m1 : g1[k] = i
        /\ IsFiniteSet(r1) /\ Len(m1) = Cardinality(r1) /\ DOMAIN m1 = 1 .. Len(m1) /\ Len(m1) \in Nat
      BY <1>13 DEF Picks
  <1>6. P1 \subseteq DOMAIN l1 /\ r0 \subseteq r1 /\ r0 \subseteq DOMAIN l0 /\ r1 \subseteq DOMAIN l1
      BY <1>0, <1>2
  <1>7. /\ \A i \in P0 : sfd2[l0[i]] = Closed
        /\ \A i \in P1 : sfd2[l1[i]] = Closed
        /\ \A f \in Fds : sfd2[f] = sfd[f] \/ sfd2[f] = Closed
        /\ \A f \in Fds : sfd2[f] # sfd[f] =>
              (\E i \in P0 : f = l0[i]) \/ (\E i \in P1 : f = l1[i])
        /\ sfd2 \in [Fds -> Ends \cup {Closed}]
      BY <1>1, <1>3, <1>6 DEF Shut
  <1>8. \A i \in r0 : sfd2[l0[i]] = sfd[l0[i]]
      BY <1>0, <1>1, <1>3, <1>6, <1>7
  <1>9. \A i \in r1 : sfd2[l1[i]] = sfd[l1[i]]
      BY <1>0, <1>1, <1>3, <1>6, <1>7
  <1>10. Listed(m0, m1, sfd2)
    <2>1. ASSUME NEW k \in DOMAIN m0, NEW m \in DOMAIN m0, m0[k] = m0[m] PROVE k = m
      <3>1. g0[k] \in DOMAIN l0 /\ g0[m] \in DOMAIN l0
          BY <1>4, <1>6
      <3>2. l0[g0[k]] = l0[g0[m]]
          BY <1>4, <2>1
      <3>3. g0[k] = g0[m]
          BY <1>1, <3>1, <3>2
      <3> QED BY <1>4, <3>3
    <2>2. ASSUME NEW k \in DOMAIN m1, NEW m \in DOMAIN m1, m1[k] = m1[m] PROVE k = m
      <3>1. g1[k] \in DOMAIN l1 /\ g1[m] \in DOMAIN l1
          BY <1>5, <1>6
      <3>2. l1[g1[k]] = l1[g1[m]]
          BY <1>5, <2>2
      <3>3. g1[k] = g1[m]
          BY <1>1, <3>1, <3>2
      <3> QED BY <1>5, <3>3
    <2>3. ASSUME NEW k \in DOMAIN m0 PROVE sfd2[m0[k]][1] = "r"
      <3>1. g0[k] \in r0 /\ g0[k] \in DOMAIN l0
          BY <1>4, <1>6
      <3>2. m0[k] = l0[g0[k]]
          BY <1>4
      <3>3. sfd[l0[g0[k]]][1] = "r"
          BY <1>1, <3>1
      <3> QED BY <1>8, <3>1, <3>2, <3>3
    <2>4. ASSUME NEW k \in DOMAIN m1 PROVE sfd2[m1[k]][1] = "w"
      <3>1. g1[k] \in r1 /\ g1[k] \in DOMAIN l1
          BY <1>5, <1>6
      <3>2. m1[k] = l1[g1[k]]
          BY <1>5
      <3>3. sfd[l1[g1[k]]][1] = "w"
          BY <1>1, <3>1
      <3> QED BY <1>9, <3>1, <3>2, <3>3
    <2>5. ASSUME NEW f \in Fds, sfd2[f][1] = "r" PROVE \E k \in DOMAIN m0 : m0[k] = f
      <3>1. sfd2[f] = sfd[f] /\ sfd2[f] # Closed
          BY <1>3, <1>7, <2>5
      <3>2. PICK i \in DOMAIN l0 : l0[i] = f
          BY <1>1, <2>5, <3>1
      <3>3. i \in r0
          BY <1>7, <3>1, <3>2 DEF r0
      <3> QED BY <1>4, <3>2, <3>3
    <2>6. ASSUME NEW f \in Fds, sfd2[f][1] = "w" PROVE \E k \in DOMAIN m1 : m1[k] = f
      <3>1. sfd2[f] = sfd[f] /\ sfd2[f] # Closed
          BY <1>3, <1>7, <2>6
      <3>2. PICK i \in DOMAIN l1 : l1[i] = f
          BY <1>1, <2>6, <3>1
      <3>3. i \in r1
          BY <1>7, <3>1, <3>2 DEF r1
      <3> QED BY <1>5, <3>2, <3>3
    <2>7. \A f, g \in Fds : sfd2[f] = sfd2[g] /\ sfd2[f] # Closed => f = g
        BY <1>1, <1>7
    <2>8. Len(m0) <= Len(m1)
        BY <1>4, <1>5, <1>6, FS_Subset
    <2> QED BY <1>4, <1>5, <1>7, <2>1, <2>2, <2>3, <2>4, <2>5, <2>6, <2>7, <2>8 DEF Listed
  <1>11. ASSUME Len(m0) = Len(m1)
         PROVE  /\ a = b /\ P0 = P1 /\ r0 = r1
                /\ Paired(l0, l1, sfd) => Paired(m0, m1, sfd2)
    <2>1. r0 = r1
      <3>1. Cardinality(r0) = Cardinality(r1) /\ r0 \in SUBSET r1 /\ IsFiniteSet(r1)
          BY <1>4, <1>5, <1>6, <1>11
      <3> QED BY <3>1, FS_Subset
    <2>2. a = b
      <3>1. SUFFICES ASSUME a < b PROVE FALSE
          BY <1>2
      <3>2. b \in DOMAIN l1 /\ b \notin DOMAIN l0
          BY <1>2, <3>1
      <3> QED BY <2>1, <3>2 DEF r0, r1
    <2>3. P0 = P1
        BY <1>2, <2>1, <2>2 DEF r0, r1
    <2>4. ASSUME Paired(l0, l1, sfd) PROVE Paired(m0, m1, sfd2)
      <3> SUFFICES ASSUME NEW k \in DOMAIN m0 PROVE sfd2[m0[k]][2] = sfd2[m1[k]][2]
          BY DEF Paired
      <3>1. PICK i \in r0 : m0[k] = l0[i] /\ m1[k] = l1[i]
          BY <1>4, <1>5, <1>11, <1>14, <2>1
      <3>2. sfd[l0[i]][2] = sfd[l1[i]][2]
          BY <2>4 DEF Paired, r0
      <3> QED BY <1>8, <1>9, <2>1, <3>1, <3>2
    <2> QED BY <2>1, <2>2, <2>3, <2>4
  <1>12. \A i \in r0 : \E k \in DOMAIN m0 : m0[k] = l0[i]
      BY <1>4
  <1> QED BY <1>2, <1>7, <1>8, <1>10, <1>11, <1>12 DEF r0

-----------------------------------------------------------------------------
(* The tables. *)

Slot == Fds \cup {STDIN}

\* Padding a table changes none of its entries.
LEMMA RefillIs ==
    ASSUME NEW t \in Seq(Slot)
    PROVE  /\ Refill(t) \in Seq(Slot) /\ Len(Refill(t)) \in Nat
           /\ Len(Refill(t)) >= Len(t) /\ Len(Refill(t)) >= PipeNumMax
           /\ \A i \in Nat \ {0} : Entry(Refill(t), i) = Entry(t, i)
  <1>1. PICK n \in Nat : n = Len(t) /\ DOMAIN t = 1 .. n
      BY LenProperties
  <1>2. PipeNumMax \in Nat /\ STDIN \in Slot
      BY RwgPipesAssumption DEF Slot
  <1>3. PICK m \in Nat : (n >= PipeNumMax /\ m = 0) \/ (n < PipeNumMax /\ m = PipeNumMax - n)
    <2>1. CASE n >= PipeNumMax
        BY <2>1
    <2>2. CASE n < PipeNumMax
        BY <1>2, <2>2
    <2> QED BY <1>2, <2>1, <2>2
  <1>4. 1 .. (PipeNumMax - n) = 1 .. m
      BY <1>2, <1>3
  <1> DEFINE pad == [i \in 1 .. m |-> STDIN]
  <1>5. Refill(t) = t \o pad
      BY <1>1, <1>4 DEF Refill
  <1>6. pad \in [1 .. m -> Slot] /\ \A i \in 1 .. m : pad[i] = STDIN
      BY <1>2
  <1> HIDE DEF pad
  <1>7. pad \in Seq(Slot) /\ Len(pad) = m
      BY <1>6
  <1>8. /\ t \o pad \in Seq(Slot) /\ Len(t \o pad) = n + m
        /\ \A i \in 1 .. (n + m) : (t \o pad)[i] = IF i <= n THEN t[i] ELSE pad[i - n]
      BY <1>1, <1>7, ConcatProperties
  <1>9. ASSUME NEW i \in Nat \ {0} PROVE Entry(t \o pad, i) = Entry(t, i)
    <2>1. CASE i <= n
        BY <1>1, <1>8, <2>1 DEF Entry
    <2>2. CASE n < i /\ i <= n + m
      <3>1. i - n \in 1 .. m
          BY <2>2
      <3> QED BY <1>1, <1>6, <1>8, <2>2, <3>1 DEF Entry
    <2>3. CASE n + m < i
        BY <1>1, <1>8, <2>3 DEF Entry
    <2> QED BY <2>1, <2>2, <2>3
  <1> QED BY <1>1, <1>2, <1>3, <1>5, <1>8, <1>9

\* The first entry goes: the others move up by one.
LEMMA TailIs ==
    ASSUME NEW t \in Seq(Slot), t # <<>>, NEW ends, NEW t2, t2 = AtEnd(Tail(t), ends)
    PROVE  /\ t2 \in Seq(Slot) /\ Len(t2) \in Nat /\ Len(t2) >= Len(t) - 1
           /\ ends => Len(t2) >= PipeNumMax
           /\ \A i \in Nat \ {0} : Entry(t2, i) = Entry(t, i + 1)
  <1>1. PICK n \in Nat : n = Len(t) /\ n >= 1
    <2>1. Len(t) \in Nat /\ Len(t) # 0
        BY LenProperties, EmptySeq
    <2> QED BY <2>1
  <1>2. /\ Tail(t) \in Seq(Slot) /\ Len(Tail(t)) = n - 1
        /\ \A i \in 1 .. (n - 1) : Tail(t)[i] = t[i + 1]
      BY <1>1, HeadTailProperties
  <1>3. \A i \in Nat \ {0} : Entry(Tail(t), i) = Entry(t, i + 1)
      BY <1>1, <1>2 DEF Entry
  <1>4. CASE ends
      BY <1>1, <1>2, <1>3, <1>4, RefillIs DEF AtEnd
  <1>5. CASE ~ ends
      BY <1>1, <1>2, <1>3, <1>5 DEF AtEnd
  <1> QED BY <1>4, <1>5

\* The first entry goes and an empty one comes at the back.
LEMMA ShiftIs ==
    ASSUME NEW t \in Seq(Slot), t # <<>>, NEW ends,
           NEW t2, t2 = AtEnd(Append(Tail(t), STDIN), ends)
    PROVE  /\ t2 \in Seq(Slot) /\ Len(t2) \in Nat /\ Len(t2) >= Len(t)
           /\ \A i \in Nat \ {0} : Entry(t2, i) = Entry(t, i + 1)
  <1>1. PICK n \in Nat : n = Len(t) /\ n >= 1
    <2>1. Len(t) \in Nat /\ Len(t) # 0
        BY LenProperties, EmptySeq
    <2> QED BY <2>1
  <1> DEFINE tl == Tail(t)
             ap == Append(tl, STDIN)
  <1>2. /\ tl \in Seq(Slot) /\ Len(tl) = n - 1
        /\ \A i \in 1 .. (n - 1) : tl[i] = t[i + 1]
      BY <1>1, HeadTailProperties
  <1> HIDE DEF tl
  <1>3. STDIN \in Slot
      BY DEF Slot
  <1>4. /\ ap \in Seq(Slot) /\ Len(ap) = n /\ ap[n] = STDIN
        /\ \A i \in 1 .. (n - 1) : ap[i] = tl[i]
      BY <1>1, <1>2, <1>3, AppendProperties
  <1>5. t2 = AtEnd(ap, ends)
      BY DEF tl
  <1> HIDE DEF ap
  <1>6. ASSUME NEW i \in Nat \ {0} PROVE Entry(ap, i) = Entry(t, i + 1)
    <2>1. CASE i <= n - 1
        BY <1>1, <1>2, <1>4, <2>1 DEF Entry
    <2>2. CASE i = n
        BY <1>1, <1>4, <2>2 DEF Entry
    <2>3. CASE n < i
        BY <1>1, <1>4, <2>3 DEF Entry
    <2> QED BY <1>1, <2>1, <2>2, <2>3
  <1>7. CASE ends
      BY <1>1, <1>4, <1>5, <1>6, <1>7, RefillIs DEF AtEnd
  <1>8. CASE ~ ends
    <2>1. t2 = ap
        BY <1>5, <1>8 DEF AtEnd
    <2>2. ap \in Seq(Slot) /\ Len(ap) \in Nat /\ Len(ap) >= Len(t)
        BY <1>1, <1>4
    <2> QED BY <1>6, <2>1, <2>2
  <1> QED BY <1>7, <1>8

Put(f, x, e) == [f EXCEPT ![x] = e]

Overwritten(t, t2, k, r) == \A i \in Nat \ {0} : Entry(t2, i) = IF i = k THEN r ELSE Entry(t, i)

\* One entry is overwritten.
LEMMA PutIs ==
    ASSUME NEW t \in Seq(Slot), NEW k \in Nat \ {0}, k <= Len(t), NEW r \in Slot,
           NEW t2, t2 = Put(t, k, r)
    PROVE  /\ t2 \in Seq(Slot) /\ Len(t2) = Len(t) /\ Len(t2) \in Nat
           /\ Overwritten(t, t2, k, r)
  <1>1. PICK n \in Nat : n = Len(t) /\ DOMAIN t = 1 .. n /\ k \in 1 .. n
      BY LenProperties
  <1>2. t2 \in Seq(Slot) /\ Len(t2) = n /\ \A i \in 1 .. n : t2[i] = IF i = k THEN r ELSE t[i]
      BY <1>1, ExceptSeq DEF Put
  <1> QED BY <1>1, <1>2 DEF Entry, Overwritten

\* An entry of a table is a descriptor, or STDIN.
LEMMA EntryIs ==
    ASSUME NEW t \in Seq(Slot), NEW i \in Nat \ {0}
    PROVE  /\ Entry(t, i) \in Slot
           /\ Entry(t, i) # STDIN => /\ i \in DOMAIN t /\ Entry(t, i) = t[i]
                                     /\ Entry(t, i) \in Range(t)
           /\ i \in DOMAIN t => Entry(t, i) = t[i]
  <1>1. PICK n \in Nat : n = Len(t) /\ DOMAIN t = 1 .. n
      BY LenProperties
  <1>2. CASE i <= n
    <2>1. t[i] \in Slot /\ Entry(t, i) = t[i] /\ i \in DOMAIN t
        BY <1>1, <1>2 DEF Entry
    <2>2. t[i] \in Range(t)
        BY <2>1 DEF Range
    <2> QED BY <2>1, <2>2
  <1>3. CASE i > n
      BY <1>1, <1>3 DEF Entry, Slot
  <1> QED BY <1>1, <1>2, <1>3

-----------------------------------------------------------------------------
(* The inputs that wait. *)

TabsOK(tabs) == tabs \in [Users -> Seq(Slot)]
MatOK(matrix) == matrix \in [Users \X Users -> Slot]

\* An input is a descriptor, or STDIN.
LEMMA InIs ==
    ASSUME NEW tabs, NEW matrix, TabsOK(tabs), MatOK(matrix),
           NEW u \in Users, NEW v \in Users, NEW i \in Nat
    PROVE  In(tabs, matrix, u, v, i) \in Slot
  <1>1. tabs[u] \in Seq(Slot) /\ matrix[<<v, u>>] \in Slot
      BY DEF TabsOK, MatOK
  <1>2. i # 0 => Entry(tabs[u], i) \in Slot
      BY <1>1, EntryIs
  <1> QED BY <1>1, <1>2 DEF In

Receives(tabs, matrix, tabs2, matrix2, u, from) ==
    \A w, x \in Users, i \in Nat :
        In(tabs2, matrix2, w, x, i) =
            IF w = u /\ x = from /\ i = 0 THEN STDIN
            ELSE IF w = u /\ i = 1 THEN In(tabs, matrix, u, from, 0)
            ELSE In(tabs, matrix, w, x, i)

\* <n moves the input of entry 0 from the sender to entry 1, over what was there.
LEMMA ReceiveIs ==
    ASSUME NEW tabs, NEW matrix, TabsOK(tabs), MatOK(matrix),
           NEW u \in Users, NEW from \in Users, tabs[u] # <<>>,
           NEW t2, t2 = Put(tabs[u], 1, matrix[<<from, u>>]), NEW tabs2, tabs2 = Put(tabs, u, t2),
           NEW matrix2, matrix2 = Put(matrix, <<from, u>>, STDIN)
    PROVE  /\ t2 \in Seq(Slot) /\ Len(t2) = Len(tabs[u]) /\ MatOK(matrix2)
           /\ Receives(tabs, matrix, tabs2, matrix2, u, from)
  <1>1. tabs[u] \in Seq(Slot) /\ matrix[<<from, u>>] \in Slot /\ 1 <= Len(tabs[u])
      BY EmptySeq DEF TabsOK, MatOK
  <1>2. /\ t2 \in Seq(Slot) /\ Len(t2) = Len(tabs[u])
        /\ \A i \in Nat \ {0} : Entry(t2, i) = IF i = 1 THEN matrix[<<from, u>>] ELSE Entry(tabs[u], i)
    <2>1. 1 \in Nat \ {0} /\ t2 = Put(tabs[u], 1, matrix[<<from, u>>])
        OBVIOUS
    <2>2. t2 \in Seq(Slot) /\ Len(t2) = Len(tabs[u]) /\ Overwritten(tabs[u], t2, 1, matrix[<<from, u>>])
        BY <1>1, <2>1, PutIs
    <2> QED BY <2>2 DEF Overwritten
  <1>4. tabs2[u] = t2 /\ \A w \in Users \ {u} : tabs2[w] = tabs[w]
      BY DEF TabsOK, Put
  <1>5. /\ MatOK(matrix2)
        /\ \A w, x \in Users : matrix2[<<x, w>>] = IF w = u /\ x = from THEN STDIN ELSE matrix[<<x, w>>]
      BY DEF MatOK, Slot, Put
  <1>6. ASSUME NEW w \in Users, NEW x \in Users, NEW i \in Nat
        PROVE  In(tabs2, matrix2, w, x, i) =
                    IF w = u /\ x = from /\ i = 0 THEN STDIN
                    ELSE IF w = u /\ i = 1 THEN In(tabs, matrix, u, from, 0)
                    ELSE In(tabs, matrix, w, x, i)
    <2>1. CASE i = 0
        BY <1>5, <2>1 DEF In
    <2>2. CASE i # 0 /\ w = u
      <3>1. /\ In(tabs2, matrix2, w, x, i) = Entry(t2, i)
            /\ In(tabs, matrix, u, from, 0) = matrix[<<from, u>>]
            /\ In(tabs, matrix, w, x, i) = Entry(tabs[u], i)
          BY <1>4, <2>2 DEF In
      <3> QED BY <1>2, <2>2, <3>1
    <2>3. CASE i # 0 /\ w # u
        BY <1>4, <2>3 DEF In
    <2> QED BY <2>1, <2>2, <2>3
  <1> QED BY <1>2, <1>5, <1>6 DEF Receives

\* r is the input of an entry, or of the user pipe from y.
NewSlot(tabs, matrix, tabs2, matrix2, u, y, k, r) ==
    \A w, x \in Users, i \in Nat :
        In(tabs2, matrix2, w, x, i) =
            IF w = u /\ i = k /\ (k = 0 => x = y) THEN r ELSE In(tabs, matrix, w, x, i)

\* An input is put into an entry.
LEMMA PutInputIs ==
    ASSUME NEW tabs, NEW matrix, TabsOK(tabs), NEW u \in Users, NEW y,
           NEW t \in Seq(Slot), NEW k \in Nat \ {0}, k <= Len(t), NEW r \in Slot,
           NEW tabs1, tabs1 = Put(tabs, u, t), NEW t2, t2 = Put(t, k, r),
           NEW tabs2, tabs2 = Put(tabs, u, t2)
    PROVE  t2 \in Seq(Slot) /\ Len(t2) = Len(t) /\ NewSlot(tabs1, matrix, tabs2, matrix, u, y, k, r)
  <1>1. /\ t2 \in Seq(Slot) /\ Len(t2) = Len(t)
        /\ \A i \in Nat \ {0} : Entry(t2, i) = IF i = k THEN r ELSE Entry(t, i)
    <2>1. t2 \in Seq(Slot) /\ Len(t2) = Len(t) /\ Overwritten(t, t2, k, r)
        BY PutIs
    <2> QED BY <2>1 DEF Overwritten
  <1>2. tabs1[u] = t /\ tabs2[u] = t2 /\ \A w \in Users \ {u} : tabs2[w] = tabs[w] /\ tabs1[w] = tabs[w]
      BY DEF TabsOK, Put
  <1>3. ASSUME NEW w \in Users, NEW x \in Users, NEW i \in Nat
        PROVE  In(tabs2, matrix, w, x, i) =
                  IF w = u /\ i = k /\ (k = 0 => x = y) THEN r ELSE In(tabs1, matrix, w, x, i)
    <2>1. CASE i = 0
        BY <2>1 DEF In
    <2>2. CASE i # 0 /\ w = u
      <3>1. In(tabs2, matrix, w, x, i) = Entry(t2, i) /\ In(tabs1, matrix, w, x, i) = Entry(t, i)
          BY <1>2, <2>2 DEF In
      <3> QED BY <1>1, <2>2, <3>1
    <2>3. CASE i # 0 /\ w # u
        BY <1>2, <2>3 DEF In
    <2> QED BY <2>1, <2>2, <2>3
  <1> QED BY <1>1, <1>3 DEF NewSlot

\* A user pipe is put into the matrix.
LEMMA PutPipeIs ==
    ASSUME NEW tabs, NEW matrix, MatOK(matrix),
           NEW u \in Users, NEW v \in Users, NEW r \in Slot,
           NEW matrix2, matrix2 = Put(matrix, <<u, v>>, r)
    PROVE  MatOK(matrix2) /\ NewSlot(tabs, matrix, tabs, matrix2, v, u, 0, r)
  <1>1. /\ MatOK(matrix2)
        /\ \A w, x \in Users : matrix2[<<x, w>>] = IF w = v /\ x = u THEN r ELSE matrix[<<x, w>>]
      BY DEF MatOK, Put
  <1> QED BY <1>1 DEF In, NewSlot

MovedUp(t, t2) == \A i \in Nat \ {0} : Entry(t2, i) = Entry(t, i + 1)

Shifts(tabs1, tabs2, matrix, u) ==
    \A w, x \in Users, i, j \in Nat : j = (IF w = u /\ i # 0 THEN i + 1 ELSE i) =>
        In(tabs2, matrix, w, x, i) = In(tabs1, matrix, w, x, j)

\* A new table of u moves the entries up by one.
LEMMA MoveUpIs ==
    ASSUME NEW tabs, NEW matrix, TabsOK(tabs), NEW u \in Users, NEW t \in Seq(Slot),
           NEW t2 \in Seq(Slot), MovedUp(t, t2),
           NEW tabs1, tabs1 = Put(tabs, u, t),
           NEW tabs2, tabs2 = Put(tabs, u, t2)
    PROVE  /\ TabsOK(tabs2) /\ TabsOK(tabs1)
           /\ Shifts(tabs1, tabs2, matrix, u)
  <1>1. /\ TabsOK(tabs1) /\ TabsOK(tabs2)
        /\ tabs1[u] = t /\ tabs2[u] = t2 /\ \A w \in Users \ {u} : tabs1[w] = tabs[w] /\ tabs2[w] = tabs[w]
      BY DEF TabsOK, Put
  <1>2. ASSUME NEW w \in Users, NEW x \in Users, NEW i \in Nat, NEW j \in Nat,
               j = (IF w = u /\ i # 0 THEN i + 1 ELSE i)
        PROVE  In(tabs2, matrix, w, x, i) = In(tabs1, matrix, w, x, j)
    <2>1. CASE i = 0
        BY <1>2, <2>1 DEF In
    <2>2. CASE i # 0 /\ w = u
      <3>1. In(tabs2, matrix, w, x, i) = Entry(t2, i)
          BY <1>1, <2>2 DEF In
      <3>2. j = i + 1 /\ j # 0 /\ In(tabs1, matrix, w, x, j) = Entry(t, j)
          BY <1>1, <1>2, <2>2 DEF In
      <3> QED BY <2>2, <3>1, <3>2 DEF MovedUp
    <2>3. CASE i # 0 /\ w # u
        BY <1>1, <1>2, <2>3 DEF In
    <2> QED BY <2>1, <2>2, <2>3
  <1>3. Shifts(tabs1, tabs2, matrix, u)
      BY <1>2 DEF Shifts
  <1> QED BY <1>1, <1>3

\* The numbered or user pipe that is received stays the input it was, of another
\* entry.
LEMMA ReceiveKeeps ==
    ASSUME NEW tabs, NEW matrix, NEW tabs2, NEW matrix2, NEW l0, NEW l1, NEW sfd,
           NEW u \in Users, NEW from \in Users, Fits(tabs, matrix, l0, l1, sfd),
           Receives(tabs, matrix, tabs2, matrix2, u, from)
    PROVE  Fits(tabs2, matrix2, l0, l1, sfd)
  <1>1. \A w, x \in Users, i \in Nat : In(tabs2, matrix2, w, x, i) # STDIN =>
           \/ /\ w = u /\ i = 1 /\ In(tabs2, matrix2, w, x, i) = In(tabs, matrix, u, from, 0)
           \/ /\ ~ (w = u /\ i = 1) /\ ~ (w = u /\ x = from /\ i = 0)
              /\ In(tabs2, matrix2, w, x, i) = In(tabs, matrix, w, x, i)
      BY DEF Receives
  <1>2. Inputs(tabs2, matrix2, l0)
    <2>1. ASSUME NEW w \in Users, NEW x \in Users, NEW i \in Nat, In(tabs2, matrix2, w, x, i) # STDIN
          PROVE  \E k \in DOMAIN l0 : l0[k] = In(tabs2, matrix2, w, x, i)
        BY <1>1, <2>1 DEF Fits, Inputs
    <2>2. ASSUME NEW w \in Users, NEW x \in Users, NEW y \in Users, NEW z \in Users,
                 NEW i \in Nat, NEW j \in Nat,
                 In(tabs2, matrix2, w, x, i) = In(tabs2, matrix2, y, z, j),
                 In(tabs2, matrix2, w, x, i) # STDIN
          PROVE  w = y /\ i = j /\ (i = 0 => x = z)
        BY <1>1, <2>2 DEF Fits, Inputs
    <2>3. \A w, x \in Users, i \in Nat : In(tabs2, matrix2, w, x, i) # STDIN =>
             \E k \in DOMAIN l0 : l0[k] = In(tabs2, matrix2, w, x, i)
        BY <2>1
    <2>4. \A w, x, y, z \in Users, i, j \in Nat :
             /\ In(tabs2, matrix2, w, x, i) = In(tabs2, matrix2, y, z, j)
             /\ In(tabs2, matrix2, w, x, i) # STDIN
             => w = y /\ i = j /\ (i = 0 => x = z)
        BY <2>2
    <2> QED BY <2>3, <2>4 DEF Inputs
  <1>3. ASSUME Routed(tabs, matrix, sfd, out, target, sess, pos)
        PROVE  Routed(tabs2, matrix2, sfd, out, target, sess, pos)
    <2> SUFFICES ASSUME NEW w \in Users, NEW x \in Users, NEW i \in Nat,
                        In(tabs2, matrix2, w, x, i) # STDIN, NEW c \in Cmds,
                        out[c] = sfd[In(tabs2, matrix2, w, x, i)][2]
                 PROVE  Leads(target[c], sess, pos, w, i)
        BY DEF Routed
    <2>1. CASE w = u /\ i = 1
      <3>1. Leads(target[c], sess, pos, u, 0)
          BY <1>1, <1>3, <2>1 DEF Routed
      <3> QED BY <2>1, <3>1 DEF Leads, Aims
    <2>2. CASE ~ (w = u /\ i = 1)
        BY <1>1, <1>3, <2>2 DEF Routed
    <2> QED BY <2>1, <2>2
  <1> QED BY <1>2, <1>3 DEF Fits

\* std::find finds what is there.
LEMMA FindIs ==
    ASSUME NEW l, NEW fd, \A i, j \in DOMAIN l : l[i] = l[j] => i = j,
           \E k \in DOMAIN l : l[k] = fd, l \in Seq(Fds)
    PROVE  Find(l, fd) \in DOMAIN l /\ l[Find(l, fd)] = fd
  <1>1. PICK k \in DOMAIN l : l[k] = fd
      OBVIOUS
  <1> DEFINE at == {i \in DOMAIN l : l[i] = fd}
  <1>2. at = {k} /\ k \in Nat
      BY <1>1, LenProperties
  <1>3. \E i \in at : \A j \in at : i <= j
      BY <1>2
  <1>4. Find(l, fd) = CHOOSE i \in at : \A j \in at : i <= j
      BY <1>2 DEF Find
  <1> HIDE DEF at
  <1>5. Find(l, fd) \in at
      BY <1>3, <1>4
  <1> QED BY <1>1, <1>2, <1>5

NewEnds(sfd, r, w, c) == [sfd EXCEPT ![r] = <<"r", c>>, ![w] = <<"w", c>>]

AtBack(l, f) == Append(l, f)

\* r and w are free, and no descriptor is of pipe c.
Fresh(sfd, c) == \A f \in Fds : sfd[f] # Closed => sfd[f][2] # c
Usable(sfd, r, w, c) == r # w /\ sfd[r] = Closed /\ sfd[w] = Closed /\ Fresh(sfd, c)

\* f comes at the back of l, on which it was not.
Appended(l, m, f) ==
    /\ \A k \in DOMAIN l : l[k] # f /\ k \in DOMAIN m /\ m[k] = l[k]
    /\ \E k \in DOMAIN m : m[k] = f

SameOn(l, sfd, sfd2) == \A k \in DOMAIN l : sfd2[l[k]] = sfd[l[k]]

\* A pipe is made: its ends come at the back of the deques.
LEMMA NewPipe ==
    ASSUME NEW l0, NEW l1, NEW sfd, Listed(l0, l1, sfd), NEW r \in Fds, NEW w \in Fds, r # w,
           sfd[r] = Closed, sfd[w] = Closed, NEW c \in Cmds,
           Fresh(sfd, c), NEW m0, m0 = AtBack(l0, r), NEW m1, m1 = AtBack(l1, w),
           NEW sfd2, sfd2 = NewEnds(sfd, r, w, c)
    PROVE  /\ Listed(m0, m1, sfd2)
           /\ Appended(l0, m0, r) /\ Appended(l1, m1, w) /\ SameOn(l0, sfd, sfd2)
           /\ Len(m0) = Len(m1) => /\ Len(l0) = Len(l1)
                                   /\ Paired(l0, l1, sfd) => Paired(m0, m1, sfd2)
  <1>1. /\ l0 \in Seq(Fds) /\ l1 \in Seq(Fds) /\ sfd \in [Fds -> Ends \cup {Closed}]
        /\ \A i, j \in DOMAIN l0 : l0[i] = l0[j] => i = j
        /\ \A i, j \in DOMAIN l1 : l1[i] = l1[j] => i = j
        /\ \A i \in DOMAIN l0 : sfd[l0[i]][1] = "r"
        /\ \A i \in DOMAIN l1 : sfd[l1[i]][1] = "w"
        /\ \A f \in Fds : sfd[f][1] = "r" => \E i \in DOMAIN l0 : l0[i] = f
        /\ \A f \in Fds : sfd[f][1] = "w" => \E i \in DOMAIN l1 : l1[i] = f
        /\ \A f, g \in Fds : sfd[f] = sfd[g] /\ sfd[f] # Closed => f = g
        /\ Len(l0) <= Len(l1)
      BY DEF Listed
  <1>2. PICK a \in Nat, b \in Nat : /\ a = Len(l0) /\ b = Len(l1) /\ a <= b
                                    /\ DOMAIN l0 = 1 .. a /\ DOMAIN l1 = 1 .. b
      BY <1>1, LenProperties
  <1>3. /\ m0 \in Seq(Fds) /\ DOMAIN m0 = 1 .. (a + 1) /\ Len(m0) = a + 1
        /\ m0[a + 1] = r /\ \A i \in 1 .. a : m0[i] = l0[i]
      BY <1>1, <1>2, AppendProperties, LenProperties DEF AtBack
  <1>12. /\ \A i \in 1 .. a : l0[i] \in Fds /\ sfd[l0[i]][1] = "r"
         /\ \A i, j \in 1 .. a : l0[i] = l0[j] => i = j
         /\ \A f \in Fds : sfd[f][1] = "r" => \E i \in 1 .. a : l0[i] = f
    <2>1. \A i \in 1 .. a : i \in DOMAIN l0 /\ l0[i] \in Fds
        BY <1>1, <1>2, LenProperties
    <2> QED BY <1>1, <1>2, <2>1
  <1>13. /\ \A i \in 1 .. b : l1[i] \in Fds /\ sfd[l1[i]][1] = "w"
         /\ \A i, j \in 1 .. b : l1[i] = l1[j] => i = j
         /\ \A f \in Fds : sfd[f][1] = "w" => \E i \in 1 .. b : l1[i] = f
    <2>1. \A i \in 1 .. b : i \in DOMAIN l1 /\ l1[i] \in Fds
        BY <1>1, <1>2, LenProperties
    <2> QED BY <1>1, <1>2, <2>1
  <1>4. /\ m1 \in Seq(Fds) /\ DOMAIN m1 = 1 .. (b + 1) /\ Len(m1) = b + 1
        /\ m1[b + 1] = w /\ \A i \in 1 .. b : m1[i] = l1[i]
      BY <1>1, <1>2, AppendProperties, LenProperties DEF AtBack
  <1>5. \A f \in Fds : sfd2[f] = IF f = r THEN <<"r", c>> ELSE IF f = w THEN <<"w", c>> ELSE sfd[f]
      BY <1>1 DEF NewEnds
  <1>6. /\ sfd2 \in [Fds -> Ends \cup {Closed}]
        /\ sfd2[r][1] = "r" /\ sfd2[w][1] = "w" /\ sfd2[r][2] = c /\ sfd2[w][2] = c
        /\ sfd2[r] # Closed /\ sfd2[w] # Closed
    <2>1. <<"r", c>> \in Ends /\ <<"w", c>> \in Ends
        BY DEF Ends
    <2>2. sfd2 \in [Fds -> Ends \cup {Closed}]
        BY <1>1, <2>1 DEF NewEnds
    <2> QED BY <1>5, <2>2 DEF Closed
  <1>7. /\ \A i \in 1 .. a : l0[i] \in Fds /\ l0[i] # r /\ l0[i] # w
        /\ \A i \in 1 .. b : l1[i] \in Fds /\ l1[i] # r /\ l1[i] # w
    <2>1. Closed[1] = "closed"
        BY DEF Closed
    <2> QED BY <1>12, <1>13, <2>1
  <1>8. /\ \A i \in 1 .. a : sfd2[l0[i]] = sfd[l0[i]]
        /\ \A i \in 1 .. b : sfd2[l1[i]] = sfd[l1[i]]
      BY <1>5, <1>7
  <1>9. Listed(m0, m1, sfd2)
    <2>1. \A i, j \in DOMAIN m0 : m0[i] = m0[j] => i = j
      <3> SUFFICES ASSUME NEW i \in 1 .. (a + 1), NEW j \in 1 .. (a + 1), m0[i] = m0[j] PROVE i = j
          BY <1>3
      <3>1. (i \in 1 .. a \/ i = a + 1) /\ (j \in 1 .. a \/ j = a + 1)
          OBVIOUS
      <3>2. CASE i \in 1 .. a /\ j \in 1 .. a
          BY <1>3, <1>12, <3>2
      <3>3. CASE i = a + 1 \/ j = a + 1
          BY <1>3, <1>7, <3>1, <3>3
      <3> QED BY <3>1, <3>2, <3>3
    <2>2. \A i, j \in DOMAIN m1 : m1[i] = m1[j] => i = j
      <3> SUFFICES ASSUME NEW i \in 1 .. (b + 1), NEW j \in 1 .. (b + 1), m1[i] = m1[j] PROVE i = j
          BY <1>4
      <3>1. (i \in 1 .. b \/ i = b + 1) /\ (j \in 1 .. b \/ j = b + 1)
          OBVIOUS
      <3>2. CASE i \in 1 .. b /\ j \in 1 .. b
          BY <1>4, <1>13, <3>2
      <3>3. CASE i = b + 1 \/ j = b + 1
          BY <1>4, <1>7, <3>1, <3>3
      <3> QED BY <3>1, <3>2, <3>3
    <2>3. ASSUME NEW i \in DOMAIN m0 PROVE sfd2[m0[i]][1] = "r"
      <3>1. i \in 1 .. a \/ i = a + 1
          BY <1>3
      <3>2. CASE i \in 1 .. a
        <4>1. m0[i] = l0[i] /\ sfd2[l0[i]] = sfd[l0[i]]
            BY <1>3, <1>8, <3>2
        <4>2. sfd[l0[i]][1] = "r"
            BY <1>12, <3>2
        <4> QED BY <4>1, <4>2
      <3>3. CASE i = a + 1
          BY <1>3, <1>6, <3>3
      <3> QED BY <3>1, <3>2, <3>3
    <2>4. ASSUME NEW i \in DOMAIN m1 PROVE sfd2[m1[i]][1] = "w"
      <3>1. i \in 1 .. b \/ i = b + 1
          BY <1>4
      <3>2. CASE i \in 1 .. b
        <4>1. m1[i] = l1[i] /\ sfd2[l1[i]] = sfd[l1[i]]
            BY <1>4, <1>8, <3>2
        <4>2. sfd[l1[i]][1] = "w"
            BY <1>13, <3>2
        <4> QED BY <4>1, <4>2
      <3>3. CASE i = b + 1
          BY <1>4, <1>6, <3>3
      <3> QED BY <3>1, <3>2, <3>3
    <2>5. ASSUME NEW f \in Fds, sfd2[f][1] = "r" PROVE \E i \in DOMAIN m0 : m0[i] = f
      <3>1. CASE f = r
          BY <1>3, <3>1
      <3>2. CASE f # r
        <4>1. sfd[f][1] = "r"
            BY <1>5, <1>6, <2>5, <3>2
        <4>2. PICK i \in 1 .. a : l0[i] = f
            BY <1>12, <4>1
        <4>3. i \in DOMAIN m0 /\ m0[i] = f
            BY <1>3, <4>2
        <4> QED BY <4>3
      <3> QED BY <3>1, <3>2
    <2>6. ASSUME NEW f \in Fds, sfd2[f][1] = "w" PROVE \E i \in DOMAIN m1 : m1[i] = f
      <3>1. CASE f = w
          BY <1>4, <3>1
      <3>2. CASE f # w
        <4>1. sfd[f][1] = "w"
            BY <1>5, <1>6, <2>6, <3>2
        <4>2. PICK i \in 1 .. b : l1[i] = f
            BY <1>13, <4>1
        <4>3. i \in DOMAIN m1 /\ m1[i] = f
            BY <1>4, <4>2
        <4> QED BY <4>3
      <3> QED BY <3>1, <3>2
    <2>7. ASSUME NEW f \in Fds, NEW g \in Fds, sfd2[f] = sfd2[g], sfd2[f] # Closed PROVE f = g
      <3>1. CASE f \in {r, w} \/ g \in {r, w}
        <4>1. sfd2[r] # sfd2[w] /\ \A e \in Fds \ {r, w} : sfd2[e] # sfd2[r] /\ sfd2[e] # sfd2[w]
          <5>1. ASSUME NEW e \in Fds \ {r, w} PROVE sfd2[e] = Closed \/ sfd2[e][2] # c
              BY <1>5, <5>1 DEF Fresh
          <5> QED BY <1>6, <5>1
        <4> QED BY <2>7, <3>1, <4>1
      <3>2. CASE f \notin {r, w} /\ g \notin {r, w}
          BY <1>1, <1>5, <2>7, <3>2
      <3> QED BY <3>1, <3>2
    <2>8. Len(m0) <= Len(m1)
        BY <1>2, <1>3, <1>4
    <2>9. m0 \in Seq(Fds) /\ m1 \in Seq(Fds) /\ sfd2 \in [Fds -> Ends \cup {Closed}]
        BY <1>3, <1>4, <1>6
    <2>10. /\ \A f \in Fds : sfd2[f][1] = "r" => \E i \in DOMAIN m0 : m0[i] = f
           /\ \A f \in Fds : sfd2[f][1] = "w" => \E i \in DOMAIN m1 : m1[i] = f
        BY <2>5, <2>6
    <2>11. \A f, g \in Fds : sfd2[f] = sfd2[g] /\ sfd2[f] # Closed => f = g
        BY <2>7
    <2> QED BY <2>1, <2>2, <2>3, <2>4, <2>8, <2>9, <2>10, <2>11 DEF Listed
  <1>10. ASSUME Len(m0) = Len(m1) PROVE Len(l0) = Len(l1) /\ (Paired(l0, l1, sfd) => Paired(m0, m1, sfd2))
    <2>1. a = b
        BY <1>2, <1>3, <1>4, <1>10
    <2>2. ASSUME Paired(l0, l1, sfd), NEW i \in DOMAIN m0 PROVE sfd2[m0[i]][2] = sfd2[m1[i]][2]
      <3>1. i \in 1 .. a \/ i = a + 1
          BY <1>3
      <3>2. CASE i = a + 1
          BY <1>3, <1>4, <1>6, <2>1, <3>2
      <3>3. CASE i \in 1 .. a
        <4>1. sfd[l0[i]][2] = sfd[l1[i]][2]
            BY <1>2, <2>2, <3>3 DEF Paired
        <4>2. m0[i] = l0[i] /\ m1[i] = l1[i]
            BY <1>3, <1>4, <2>1, <3>3
        <4>3. sfd2[l0[i]] = sfd[l0[i]] /\ sfd2[l1[i]] = sfd[l1[i]]
            BY <1>8, <2>1, <3>3
        <4> QED BY <4>1, <4>2, <4>3
      <3> QED BY <3>1, <3>2, <3>3
    <2> QED BY <1>2, <2>1, <2>2 DEF Paired
  <1>11. /\ \E k \in DOMAIN m0 : m0[k] = r
         /\ \E k \in DOMAIN m1 : m1[k] = w
         /\ \A k \in DOMAIN l0 : k \in DOMAIN m0 /\ m0[k] = l0[k]
         /\ \A k \in DOMAIN l1 : k \in DOMAIN m1 /\ m1[k] = l1[k]
    <2>1. a + 1 \in 1 .. (a + 1) /\ b + 1 \in 1 .. (b + 1) /\ \A k \in 1 .. a : k \in 1 .. (a + 1)
        OBVIOUS
    <2> QED BY <1>2, <1>3, <1>4, <2>1
  <1>14. Appended(l0, m0, r) /\ Appended(l1, m1, w) /\ SameOn(l0, sfd, sfd2)
      BY <1>2, <1>7, <1>8, <1>11 DEF Appended, SameOn
  <1> QED BY <1>9, <1>10, <1>14

\* The read end of a new pipe becomes the input of an entry that had none.
LEMMA NewInputKeeps ==
    ASSUME NEW tabs, NEW matrix, NEW tabs2, NEW matrix2, NEW l0, NEW m0,
           NEW u \in Users, NEW y \in Users, NEW k \in Nat, NEW r \in Fds,
           Inputs(tabs, matrix, l0),
           Appended(l0, m0, r), NewSlot(tabs, matrix, tabs2, matrix2, u, y, k, r),
           NEW sfd, NEW sfd2, SameOn(l0, sfd, sfd2),
           \A c \in Cmds : out[c] # sfd2[r][2]
    PROVE  /\ Inputs(tabs2, matrix2, m0)
           /\ Routed(tabs, matrix, sfd, out, target, sess, pos)
              => Routed(tabs2, matrix2, sfd2, out, target, sess, pos)
  <1> DEFINE New(w, x, i) == w = u /\ i = k /\ (k = 0 => x = y)
             I2(w, x, i) == In(tabs2, matrix2, w, x, i)
             I(w, x, i) == In(tabs, matrix, w, x, i)
  <1>9. /\ \A n \in DOMAIN l0 : l0[n] # r /\ n \in DOMAIN m0 /\ m0[n] = l0[n]
        /\ \E n \in DOMAIN m0 : m0[n] = r
        /\ \A n \in DOMAIN l0 : sfd2[l0[n]] = sfd[l0[n]]
      BY DEF Appended, SameOn
  <1>1. \A w, x \in Users, i \in Nat :
           (New(w, x, i) /\ I2(w, x, i) = r) \/ (~ New(w, x, i) /\ I2(w, x, i) = I(w, x, i))
      BY DEF NewSlot
  <1>2. /\ \A w, x \in Users, i \in Nat : I(w, x, i) # STDIN => \E n \in DOMAIN l0 : l0[n] = I(w, x, i)
        /\ \A w, x, z, q \in Users, i, j \in Nat :
              I(w, x, i) = I(z, q, j) /\ I(w, x, i) # STDIN => w = z /\ i = j /\ (i = 0 => x = q)
      BY DEF Inputs
  <1>3. \A w, x \in Users, i \in Nat : I(w, x, i) # r
    <2> SUFFICES ASSUME NEW w \in Users, NEW x \in Users, NEW i \in Nat, I(w, x, i) = r PROVE FALSE
        OBVIOUS
    <2>1. r # STDIN
        BY RwgPipesAssumption DEF STDIN
    <2> QED BY <1>2, <1>9, <2>1
  <1>4. \A w, x, z, q \in Users, i, j \in Nat :
           New(w, x, i) /\ New(z, q, j) => w = z /\ i = j /\ (i = 0 => x = q)
      OBVIOUS
  <1>5. ASSUME NEW w \in Users, NEW x \in Users, NEW i \in Nat, I2(w, x, i) # STDIN
        PROVE  \E n \in DOMAIN m0 : m0[n] = I2(w, x, i)
    <2> HIDE DEF New, I2, I
    <2>1. CASE I2(w, x, i) = r
        BY <1>9, <2>1
    <2>2. CASE I2(w, x, i) = I(w, x, i)
        BY <1>2, <1>5, <1>9, <2>2
    <2> QED BY <1>1, <2>1, <2>2
  <1>6. ASSUME NEW w \in Users, NEW x \in Users, NEW z \in Users, NEW q \in Users,
               NEW i \in Nat, NEW j \in Nat, I2(w, x, i) = I2(z, q, j), I2(w, x, i) # STDIN
        PROVE  w = z /\ i = j /\ (i = 0 => x = q)
    <2> HIDE DEF New, I2, I
    <2>1. (New(w, x, i) /\ I2(w, x, i) = r) \/ (~ New(w, x, i) /\ I2(w, x, i) = I(w, x, i))
        BY <1>1
    <2>2. (New(z, q, j) /\ I2(z, q, j) = r) \/ (~ New(z, q, j) /\ I2(z, q, j) = I(z, q, j))
        BY <1>1
    <2>3. I(w, x, i) # r /\ I(z, q, j) # r
        BY <1>3
    <2>4. CASE New(w, x, i) /\ New(z, q, j)
        BY <1>4, <2>4
    <2>5. CASE I2(w, x, i) = I(w, x, i) /\ I2(z, q, j) = I(z, q, j)
      <3>1. I(w, x, i) = I(z, q, j) /\ I(w, x, i) # STDIN
          BY <1>6, <2>5
      <3> QED BY <1>2, <3>1
    <2> QED BY <1>6, <2>1, <2>2, <2>3, <2>4, <2>5
  <1>7. Inputs(tabs2, matrix2, m0)
    <2>1. \A w, x \in Users, i \in Nat : In(tabs2, matrix2, w, x, i) # STDIN =>
             \E n \in DOMAIN m0 : m0[n] = In(tabs2, matrix2, w, x, i)
        BY <1>5
    <2>2. \A w, x, z, q \in Users, i, j \in Nat :
             /\ In(tabs2, matrix2, w, x, i) = In(tabs2, matrix2, z, q, j)
             /\ In(tabs2, matrix2, w, x, i) # STDIN
             => w = z /\ i = j /\ (i = 0 => x = q)
        BY <1>6
    <2> QED BY <2>1, <2>2 DEF Inputs
  <1>8. ASSUME Routed(tabs, matrix, sfd, out, target, sess, pos)
        PROVE  Routed(tabs2, matrix2, sfd2, out, target, sess, pos)
    <2>1. ASSUME NEW w \in Users, NEW x \in Users, NEW i \in Nat, I2(w, x, i) # STDIN,
                 NEW c \in Cmds, out[c] = sfd2[I2(w, x, i)][2]
          PROVE  Leads(target[c], sess, pos, w, i)
      <3>1. \A a, b \in Users, j \in Nat : I(a, b, j) # STDIN =>
              \A d \in Cmds : out[d] = sfd[I(a, b, j)][2] => Leads(target[d], sess, pos, a, j)
          BY <1>8 DEF Routed
      <3> HIDE DEF New, I2, I
      <3>2. I2(w, x, i) = I(w, x, i)
          BY <1>1, <2>1
      <3>3. sfd2[I(w, x, i)] = sfd[I(w, x, i)]
          BY <1>2, <1>9, <2>1, <3>2
      <3> QED BY <2>1, <3>1, <3>2, <3>3
    <2> QED BY <2>1 DEF Routed
  <1> QED BY <1>7, <1>8

NotUsed(c) == \A d \in Cmds : inp[d] # c /\ out[d] # c

\* Only entry k of u is an input of pipe c.
OnlyInput(tabs, matrix, sfd, c, u, k) ==
    \A a, b \in Users, i \in Nat :
        In(tabs, matrix, a, b, i) # STDIN /\ sfd[In(tabs, matrix, a, b, i)][2] = c => a = u /\ i = k

\* The pipe c of r and w is new, and r the input of an entry that had none.
Enters(tabs, matrix, tabs2, matrix2, l0, l1, sfd, u, y, k, r, w, c) ==
    /\ Fits(tabs, matrix, l0, l1, sfd) /\ NewSlot(tabs, matrix, tabs2, matrix2, u, y, k, r)
    /\ u \in Users /\ y \in Users /\ k \in Nat /\ r \in Fds /\ w \in Fds /\ c \in Cmds
    /\ Usable(sfd, r, w, c) /\ NotUsed(c)

\* A new pipe whose read end becomes an input fits in.
LEMMA NewFits ==
    ASSUME NEW tabs, NEW matrix, NEW tabs2, NEW matrix2, NEW l0, NEW l1, NEW sfd,
           NEW u, NEW y, NEW k, NEW r, NEW w, NEW c,
           Enters(tabs, matrix, tabs2, matrix2, l0, l1, sfd, u, y, k, r, w, c),
           NEW m0, m0 = AtBack(l0, r), NEW m1, m1 = AtBack(l1, w),
           NEW sfd2, sfd2 = NewEnds(sfd, r, w, c)
    PROVE  /\ Fits(tabs2, matrix2, m0, m1, sfd2)
           /\ Len(m0) = Len(m1) => Len(l0) = Len(l1)
           /\ Appended(l1, m1, w) /\ OnlyInput(tabs2, matrix2, sfd2, c, u, k)
  <1>11. /\ Fits(tabs, matrix, l0, l1, sfd) /\ NewSlot(tabs, matrix, tabs2, matrix2, u, y, k, r)
         /\ u \in Users /\ y \in Users /\ k \in Nat /\ r \in Fds /\ w \in Fds /\ c \in Cmds
         /\ Usable(sfd, r, w, c) /\ NotUsed(c)
      BY DEF Enters
  <1>10. r # w /\ sfd[r] = Closed /\ sfd[w] = Closed /\ Fresh(sfd, c)
      BY <1>11 DEF Usable
  <1>1. /\ Listed(l0, l1, sfd) /\ Inputs(tabs, matrix, l0)
        /\ Len(l0) = Len(l1) => /\ Paired(l0, l1, sfd) /\ Released(sfd)
                                /\ Routed(tabs, matrix, sfd, out, target, sess, pos)
      BY <1>11 DEF Fits
  <1>2. /\ Listed(m0, m1, sfd2)
        /\ Appended(l0, m0, r) /\ Appended(l1, m1, w) /\ SameOn(l0, sfd, sfd2)
        /\ Len(m0) = Len(m1) => /\ Len(l0) = Len(l1)
                                /\ Paired(l0, l1, sfd) => Paired(m0, m1, sfd2)
      BY <1>11, <1>1, <1>10, NewPipe
  <1>3. \A f \in Fds : /\ f = r => sfd2[f] = <<"r", c>>
                       /\ f = w => sfd2[f] = <<"w", c>>
                       /\ f # r /\ f # w => sfd2[f] = sfd[f]
      BY <1>11, <1>1, <1>10 DEF NewEnds, Listed
  <1>8. sfd2[r][2] = c /\ sfd2[w][2] = c
      BY <1>11, <1>3
  <1>4. /\ Inputs(tabs2, matrix2, m0)
        /\ Routed(tabs, matrix, sfd, out, target, sess, pos)
           => Routed(tabs2, matrix2, sfd2, out, target, sess, pos)
      BY <1>11, <1>1, <1>2, <1>8, NewInputKeeps DEF NotUsed
  <1>5. ASSUME Released(sfd) PROVE Released(sfd2)
    <2> SUFFICES ASSUME NEW d \in Cmds, inp[d] # NoPipe, NEW f \in Fds, sfd2[f] # Closed
                 PROVE  sfd2[f][2] # inp[d]
        BY DEF Released
    <2>1. CASE f = r \/ f = w
        BY <1>11, <1>8, <2>1 DEF NotUsed
    <2>2. CASE f # r /\ f # w
        BY <1>11, <1>3, <1>5, <2>2 DEF Released
    <2> QED BY <1>11, <2>1, <2>2
  <1>6. ASSUME NEW a \in Users, NEW b \in Users, NEW i \in Nat,
               In(tabs2, matrix2, a, b, i) # STDIN, sfd2[In(tabs2, matrix2, a, b, i)][2] = c
        PROVE  a = u /\ i = k
    <2>1. SUFFICES ASSUME In(tabs2, matrix2, a, b, i) = In(tabs, matrix, a, b, i) PROVE FALSE
        BY <1>11 DEF NewSlot
    <2>2. PICK n \in DOMAIN l0 : l0[n] = In(tabs, matrix, a, b, i)
        BY <1>11, <1>1, <1>6, <2>1 DEF Inputs
    <2>3. l0[n] \in Fds /\ sfd[l0[n]][1] = "r" /\ sfd2[l0[n]] = sfd[l0[n]]
        BY <1>11, <1>1, <1>2, LenProperties DEF Listed, SameOn
    <2>4. sfd[l0[n]] # Closed
        BY <1>11, <2>3 DEF Closed
    <2> QED BY <1>11, <1>6, <1>10, <2>1, <2>2, <2>3, <2>4 DEF Fresh
  <1>7. Fits(tabs2, matrix2, m0, m1, sfd2)
      BY <1>11, <1>1, <1>2, <1>4, <1>5 DEF Fits
  <1>9. OnlyInput(tabs2, matrix2, sfd2, c, u, k)
      BY <1>11, <1>6 DEF OnlyInput
  <1> QED BY <1>11, <1>2, <1>7, <1>9

\* After the fork the ends of the pipe that was consumed are gone.
LEMMA CloseConsumedIs ==
    ASSUME NEW in, NEW l0, NEW l1, NEW sfd, Listed(l0, l1, sfd),
           in # STDIN => \E k \in DOMAIN l0 : l0[k] = in,
           CloseConsumed(in, l0, l1, sfd)
    PROVE  /\ Listed(pipeFd0', pipeFd1', fds')
           /\ \A f \in Fds : fds'[f] = sfd[f] \/ fds'[f] = Closed
           /\ \A k \in DOMAIN l0 : l0[k] # in =>
                 fds'[l0[k]] = sfd[l0[k]] /\ \E n \in DOMAIN pipeFd0' : pipeFd0'[n] = l0[k]
           /\ Len(pipeFd0') = Len(pipeFd1') =>
                 /\ Len(l0) = Len(l1)
                 /\ Paired(l0, l1, sfd) =>
                       /\ Paired(pipeFd0', pipeFd1', fds')
                       /\ in # STDIN => \A f \in Fds : fds'[f] # Closed => fds'[f][2] # sfd[in][2]
  <1>1. CASE in = STDIN
    <2>1. pipeFd0' = l0 /\ pipeFd1' = l1 /\ fds' = sfd
        BY <1>1 DEF CloseConsumed
    <2> QED BY <1>1, <2>1
  <1>2. CASE in # STDIN
    <2>1. /\ l0 \in Seq(Fds) /\ l1 \in Seq(Fds) /\ sfd \in [Fds -> Ends \cup {Closed}]
          /\ \A i, j \in DOMAIN l0 : l0[i] = l0[j] => i = j
          /\ \A i \in DOMAIN l0 : sfd[l0[i]][1] = "r"
          /\ \A i \in DOMAIN l1 : sfd[l1[i]][1] = "w"
          /\ \A f, g \in Fds : sfd[f] = sfd[g] /\ sfd[f] # Closed => f = g
          /\ Len(l0) <= Len(l1)
        BY DEF Listed
    <2>2. Find(l0, in) \in DOMAIN l0 /\ l0[Find(l0, in)] = in
        BY <1>2, <2>1, FindIs
    <2>3. PICK i \in DOMAIN l0 : i = Find(l0, in) /\ l0[i] = in
        BY <2>2
    <2>4. /\ pipeFd0' = Without(l0, {i}) /\ pipeFd1' = Without(l1, {i})
          /\ fds' = [sfd EXCEPT ![l0[i]] = Closed, ![l1[i]] = Closed]
        BY <1>2, <2>3 DEF CloseConsumed
    <2>5. DOMAIN l0 \subseteq DOMAIN l1 /\ in \in Fds /\ l1[i] \in Fds
      <3>1. /\ DOMAIN l0 = 1 .. Len(l0) /\ DOMAIN l1 = 1 .. Len(l1) /\ Len(l0) \in Nat /\ Len(l1) \in Nat
            /\ \A k \in 1 .. Len(l0) : l0[k] \in Fds
            /\ \A k \in 1 .. Len(l1) : l1[k] \in Fds
          BY <2>1, LenProperties
      <3>2. \A k \in 1 .. Len(l0) : k \in 1 .. Len(l1)
          BY <2>1, <3>1
      <3> QED BY <2>3, <3>1, <3>2
    <2>6. fds' = Shut(sfd, l0, {i}, l1, {i})
      <3>1. {l0[k] : k \in {i}} \cup {l1[k] : k \in {i}} = {l0[i], l1[i]}
          OBVIOUS
      <3> QED BY <2>1, <2>3, <2>4, <2>5, <3>1 DEF Shut
    <2>14. PICK P : P = {i}
        OBVIOUS
    <2>7. /\ P \in SUBSET (DOMAIN l0) /\ P \in SUBSET P
          /\ pipeFd0' = Without(l0, P) /\ pipeFd1' = Without(l1, P)
          /\ fds' = Shut(sfd, l0, P, l1, P)
        BY <2>3, <2>4, <2>6, <2>14
    <2>12. /\ Listed(pipeFd0', pipeFd1', fds')
           /\ \A f \in Fds : fds'[f] = sfd[f] \/ fds'[f] = Closed
           /\ \A k \in DOMAIN l0 \ P :
                 fds'[l0[k]] = sfd[l0[k]] /\ \E n \in DOMAIN pipeFd0' : pipeFd0'[n] = l0[k]
           /\ \A k \in P : fds'[l0[k]] = Closed
           /\ \A k \in P : fds'[l1[k]] = Closed
           /\ Len(pipeFd0') = Len(pipeFd1') =>
                 /\ Len(l0) = Len(l1)
                 /\ Paired(l0, l1, sfd) => Paired(pipeFd0', pipeFd1', fds')
        BY <2>7, CloseEnds
    <2>8. i \in P /\ \A k \in DOMAIN l0 : l0[k] # in => k \in DOMAIN l0 \ P
        BY <2>3, <2>14
    <2>13. /\ \A f \in Fds : fds'[f] = sfd[f] \/ fds'[f] = Closed
           /\ fds'[l0[i]] = Closed /\ fds'[l1[i]] = Closed
        BY <2>1, <2>8, <2>12
    <2>9. ASSUME Paired(l0, l1, sfd), NEW f \in Fds, fds'[f] # Closed, fds'[f][2] = sfd[in][2]
          PROVE  FALSE
      <3>1. fds'[f] = sfd[f] /\ sfd[f] # Closed /\ sfd[f] \in Ends
          BY <2>1, <2>9, <2>13
      <3>2. sfd[in][2] = sfd[l1[i]][2] /\ sfd[in][1] = "r" /\ sfd[l1[i]][1] = "w"
          BY <2>1, <2>3, <2>5, <2>9 DEF Paired
      <3>3. /\ Closed[1] = "closed"
            /\ sfd[in] \in Ends /\ sfd[l1[i]] \in Ends
          BY <2>1, <2>5, <3>2 DEF Closed
      <3>4. sfd[f] = sfd[in] \/ sfd[f] = sfd[l1[i]]
          BY <2>9, <3>1, <3>2, <3>3 DEF Ends
      <3>5. f = in \/ f = l1[i]
          BY <2>1, <2>5, <3>1, <3>4
      <3> QED BY <2>3, <2>9, <2>13, <3>5
    <2>10. \A k \in DOMAIN l0 : l0[k] # in =>
             fds'[l0[k]] = sfd[l0[k]] /\ \E n \in DOMAIN pipeFd0' : pipeFd0'[n] = l0[k]
        BY <2>8, <2>12
    <2>11. Paired(l0, l1, sfd) => \A f \in Fds : fds'[f] # Closed => fds'[f][2] # sfd[in][2]
        BY <2>9
    <2> QED BY <2>10, <2>11, <2>12
  <1> QED BY <1>1, <1>2

-----------------------------------------------------------------------------
(* A command is started. *)

ModesOK == mode \in {"select", "line", "wait"} /\ user \in Users \cup {Nobody} /\ fg \in Cmds \cup {0}

\* The user pipes have both ends or none, and users at both.
PipesOK ==
    /\ MatOK(userPipeIn) /\ MatOK(userPipeOut) /\ Matrices
    /\ \A e \in Users \X Users : ~ Online(e[1]) \/ ~ Online(e[2]) =>
          userPipeIn[e] = STDIN /\ userPipeOut[e] = STDIN

\* Descriptors are of pipes of this command and of earlier ones.
Bounded(sfd) == \A f \in Fds : sfd[f] # Closed => sfd[f][2] <= cmds

\* o is standard output, or a write end whose pipe is where to says.
Goes(tabs, matrix, l0, l1, sfd, o, to) == o # STDOUT =>
    /\ o \in Fds /\ \E k \in DOMAIN l1 : l1[k] = o
    /\ Len(l0) = Len(l1) => \A w, x \in Users, i \in Nat :
          /\ In(tabs, matrix, w, x, i) # STDIN
          /\ sfd[In(tabs, matrix, w, x, i)][2] = sfd[o][2]
          => Leads(to, sess, pos, w, i)

\* fork_process, and the closing of what was consumed, when the tables, the
\* matrix, the deques and the descriptors fit together before.
LEMMA ForkKeeps ==
    ASSUME IInv, NEW u \in Users, Turn(u),
           NEW tab, tab \in Seq(Slot), Len(tab) = Len(fdTable[u]),
           NEW tabs, tabs = Put(fdTable, u, tab), NEW list0, NEW list1, NEW sfd,
           Fits(tabs, userPipeIn', list0, list1, sfd),
           Len(list0) = Len(list1) => Aligned, Bounded(sfd),
           NEW o, NEW to, to \in Places, Goes(tabs, userPipeIn', list0, list1, sfd, o, to),
           NEW ends, Fork(u, tab, list0, list1, sfd, o, to, ends),
           ModesOK', PipesOK'
    PROVE  IInv'
  <1> DEFINE in == tab[1]
             p == PipeOn(sfd, in)
             q == PipeOn(sfd, o)
             J(w, x, i) == In(tabs, userPipeIn', w, x, i)
  <1>29. /\ \A f \in Fds : sfd[f] # Closed => sfd[f][2] <= cmds
         /\ o # STDOUT => o \in Fds /\ \E k \in DOMAIN list1 : list1[k] = o
         /\ Len(list0) = Len(list1) /\ o # STDOUT => \A w, x \in Users, i \in Nat :
               J(w, x, i) # STDIN /\ sfd[J(w, x, i)][2] = sfd[o][2] => Leads(to, sess, pos, w, i)
      BY DEF Bounded, Goes
  <1>1. /\ TypeOK /\ LongTables /\ Old /\ HeldOwn /\ HeldReal /\ Matrices /\ NothingInherited
        /\ DeliveredWhileAligned
      BY DEF IInv
  <1>2. /\ TabsOK(fdTable) /\ MatOK(userPipeIn') /\ cmds \in Cmds /\ cmds \in Nat /\ Online(u)
        /\ \A w \in Users : fdTable[w] \in Seq(Slot)
    <2>1. TabsOK(fdTable)
        BY <1>1 DEF TypeOK, TabsOK, Slot
    <2>2. MatOK(userPipeIn')
        BY DEF PipesOK
    <2>3. cmds \in Cmds /\ cmds \in Nat /\ Online(u)
        BY <1>1, RwgPipesAssumption DEF TypeOK, Turn, Cmds
    <2> QED BY <2>1, <2>2, <2>3 DEF TabsOK
  <1>3. /\ tab # <<>> /\ 1 \in DOMAIN tab /\ in \in Slot /\ in = Entry(tab, 1) /\ Len(tab) \in Nat
        /\ Len(tab) >= PipeNumMax - MaxRefused
    <2>1. Len(fdTable[u]) >= PipeNumMax - MaxRefused /\ PipeNumMax - MaxRefused > 0
        BY <1>1, RwgPipesAssumption DEF LongTables
    <2>2. PICK n \in Nat : n = Len(tab) /\ DOMAIN tab = 1 .. n /\ n >= 1
        BY <2>1, LenProperties, RwgPipesAssumption
    <2>3. tab # <<>>
        BY <2>2, EmptySeq
    <2> QED BY <2>1, <2>2, <2>3 DEF Entry
  <1>4. tabs[u] = tab /\ TabsOK(tabs) /\ \A w \in Users \ {u} : tabs[w] = fdTable[w]
      BY <1>2 DEF TabsOK, Put
  <1>5. /\ \A x \in Users : J(u, x, 1) = in
        /\ \A w, x \in Users, i \in Nat : J(w, x, i) \in Slot
    <2>1. \A x \in Users : J(u, x, 1) = in
      <3>1. \A x \in Users : J(u, x, 1) = Entry(tabs[u], 1)
          BY DEF In
      <3> QED BY <1>3, <1>4, <3>1
    <2>2. \A w, x \in Users, i \in Nat : J(w, x, i) \in Slot
        BY <1>2, <1>4, InIs
    <2> QED BY <2>1, <2>2
  <1> HIDE DEF in, J
  <1>6. /\ Listed(list0, list1, sfd)
        /\ \A w, x \in Users, i \in Nat : J(w, x, i) # STDIN => \E k \in DOMAIN list0 : list0[k] = J(w, x, i)
        /\ \A w, x, z, y \in Users, i, j \in Nat :
              J(w, x, i) = J(z, y, j) /\ J(w, x, i) # STDIN => w = z /\ i = j /\ (i = 0 => x = y)
        /\ Len(list0) = Len(list1) =>
              /\ Paired(list0, list1, sfd) /\ Released(sfd)
              /\ Routed(tabs, userPipeIn', sfd, out, target, sess, pos)
              /\ \A w, x \in Users, i \in Nat : J(w, x, i) # STDIN =>
                    \A c \in Cmds : out[c] = sfd[J(w, x, i)][2] => Leads(target[c], sess, pos, w, i)
      BY DEF Fits, Inputs, Routed, J
  <1>7. in # STDIN => \E k \in DOMAIN list0 : list0[k] = in
      BY <1>5, <1>6
  <1>8. /\ list0 \in Seq(Fds) /\ list1 \in Seq(Fds) /\ sfd \in [Fds -> Ends \cup {Closed}]
        /\ \A i \in DOMAIN list0 : sfd[list0[i]][1] = "r"
        /\ \A i \in DOMAIN list1 : sfd[list1[i]][1] = "w"
        /\ Closed[1] = "closed"
      BY <1>6 DEF Listed, Closed
  <1>9. /\ in # STDIN => in \in Fds /\ sfd[in] \in Ends /\ sfd[in][1] = "r"
        /\ o # STDOUT => o \in Fds /\ sfd[o] \in Ends /\ sfd[o][1] = "w"
        /\ \A f \in Fds : f # STDIN /\ f # STDOUT
    <2>1. \A f \in Fds : f # STDIN /\ f # STDOUT
        BY RwgPipesAssumption DEF STDIN, STDOUT
    <2>2. ASSUME in # STDIN PROVE in \in Fds /\ sfd[in] \in Ends /\ sfd[in][1] = "r"
        BY <1>3, <1>7, <1>8, <2>2 DEF Slot
    <2>3. ASSUME o # STDOUT PROVE o \in Fds /\ sfd[o] \in Ends /\ sfd[o][1] = "w"
        BY <1>8, <1>29, <2>3
    <2> QED BY <2>1, <2>2, <2>3
  <1>10. /\ in = STDIN => p = NoPipe
         /\ in # STDIN => p \in Cmds /\ p <= cmds /\ sfd[in] = <<"r", p>> /\ p = sfd[in][2]
         /\ o = STDOUT => q = NoPipe
         /\ o # STDOUT => q \in Cmds /\ q <= cmds /\ sfd[o] = <<"w", q>> /\ q = sfd[o][2]
    <2>1. ASSUME in # STDIN PROVE p \in Cmds /\ p <= cmds /\ sfd[in] = <<"r", p>> /\ p = sfd[in][2]
      <3>1. p = sfd[in][2] /\ sfd[in] # Closed
          BY <1>8, <1>9, <2>1 DEF PipeOn
      <3> QED BY <1>9, <1>29, <2>1, <3>1 DEF Ends
    <2>2. ASSUME o # STDOUT PROVE q \in Cmds /\ q <= cmds /\ sfd[o] = <<"w", q>> /\ q = sfd[o][2]
      <3>1. q = sfd[o][2] /\ sfd[o] # Closed
          BY <1>8, <1>9, <2>2 DEF PipeOn
      <3> QED BY <1>9, <1>29, <2>2, <3>1 DEF Ends
    <2>3. (in = STDIN => p = NoPipe) /\ (o = STDOUT => q = NoPipe)
        BY DEF PipeOn
    <2> QED BY <2>1, <2>2, <2>3
  <1>11. NoPipe \notin Cmds /\ NoPipe < cmds + 1 /\ p < cmds + 1 /\ q < cmds + 1
         /\ p \in Cmds \cup {NoPipe} /\ q \in Cmds \cup {NoPipe}
      BY <1>2, <1>10 DEF NoPipe, Cmds
  <1>12. /\ st' = [st EXCEPT ![cmds] = "running"]
         /\ inp' = [inp EXCEPT ![cmds] = p] /\ out' = [out EXCEPT ![cmds] = q]
         /\ place' = [place EXCEPT ![cmds] = <<sess[u], pos[u]>>]
         /\ target' = [target EXCEPT ![cmds] = to]
         /\ cmds' = cmds + 1 /\ pos' = [pos EXCEPT ![u] = @ + 1]
         /\ CloseConsumed(in, list0, list1, sfd)
         /\ fdTable' = [fdTable EXCEPT ![u] = AtEnd(Append(Tail(tab), STDIN), ends)]
         /\ sess' = sess /\ sessions' = sessions
      BY DEF Fork, in
  <1>13. PICK kept : /\ held' = [held EXCEPT ![cmds] = kept]
                     /\ kept \subseteq {sfd[f] : f \in {in, o} \ {STDIN, STDOUT}}
      BY DEF Fork, in
  <1>14. kept \subseteq {<<"r", p>>, <<"w", q>>} /\ \A e \in kept : e[2] # NoPipe /\ e \in Ends
    <2> SUFFICES ASSUME NEW e \in kept PROVE e \in {<<"r", p>>, <<"w", q>>} /\ e[2] # NoPipe /\ e \in Ends
        OBVIOUS
    <2>1. (in # STDIN /\ e = sfd[in]) \/ (o # STDOUT /\ e = sfd[o])
        BY <1>13
    <2> QED BY <1>9, <1>10, <1>11, <2>1
  <1>15. /\ Listed(pipeFd0', pipeFd1', fds')
         /\ \A f \in Fds : fds'[f] = sfd[f] \/ fds'[f] = Closed
         /\ \A k \in DOMAIN list0 : list0[k] # in =>
               fds'[list0[k]] = sfd[list0[k]] /\ \E n \in DOMAIN pipeFd0' : pipeFd0'[n] = list0[k]
         /\ Len(pipeFd0') = Len(pipeFd1') =>
               /\ Len(list0) = Len(list1)
               /\ Paired(list0, list1, sfd) =>
                     /\ Paired(pipeFd0', pipeFd1', fds')
                     /\ in # STDIN => \A f \in Fds : fds'[f] # Closed => fds'[f][2] # sfd[in][2]
      BY <1>6, <1>7, <1>12, CloseConsumedIs
  <1> DEFINE t2 == AtEnd(Append(Tail(tab), STDIN), ends)
             K(w, x, i) == In(fdTable', userPipeIn', w, x, i)
  <1>16. /\ t2 \in Seq(Slot) /\ Len(t2) \in Nat /\ Len(t2) >= Len(tab)
         /\ \A i \in Nat \ {0} : Entry(t2, i) = Entry(tab, i + 1)
      BY <1>3, ShiftIs
  <1>17. fdTable' = [fdTable EXCEPT ![u] = t2]
      BY <1>12
  <1> HIDE DEF t2, K, p, q
  <1>18. /\ TabsOK(fdTable') /\ fdTable'[u] = t2 /\ \A w \in Users \ {u} : fdTable'[w] = fdTable[w]
      BY <1>2, <1>16, <1>17 DEF TabsOK
  <1>19. \A w, x \in Users, i, j \in Nat : j = (IF w = u /\ i # 0 THEN i + 1 ELSE i) =>
            K(w, x, i) = J(w, x, j)
    <2>1. Shifts(tabs, fdTable', userPipeIn', u)
      <3>1. TabsOK(fdTable) /\ MovedUp(tab, t2)
          BY <1>2, <1>16 DEF MovedUp
      <3>2. tabs = Put(fdTable, u, tab) /\ tab \in Seq(Slot) /\ t2 \in Seq(Slot)
          BY <1>16
      <3>3. fdTable' = Put(fdTable, u, t2)
          BY <1>17 DEF Put
      <3> QED BY <3>1, <3>2, <3>3, MoveUpIs
    <2> QED BY <2>1 DEF J, K, Shifts
  <1>20. TypeOK'
    <2>1. fdTable' \in [Users -> Seq(Fds \cup {STDIN})]
        BY <1>18 DEF TabsOK, Slot
    <2>2. pipeFd0' \in Seq(Fds) /\ pipeFd1' \in Seq(Fds) /\ fds' \in [Fds -> Ends \cup {Closed}]
        BY <1>15 DEF Listed
    <2>3. /\ userPipeIn' \in [Users \X Users -> Fds \cup {STDIN}]
          /\ userPipeOut' \in [Users \X Users -> Fds \cup {STDIN}]
        BY DEF PipesOK, MatOK, Slot
    <2>4. sess' \in [Users -> 0 .. MaxSessions] /\ sessions' \in 0 .. MaxSessions /\ pos' \in [Users -> Nat]
        BY <1>1, <1>12 DEF TypeOK
    <2>5. /\ cmds' \in 1 .. (MaxCmds + 1) /\ st' \in [Cmds -> {"unborn", "running", "gone"}]
          /\ inp' \in [Cmds -> Cmds \cup {NoPipe}] /\ out' \in [Cmds -> Cmds \cup {NoPipe}]
        BY <1>1, <1>2, <1>11, <1>12, RwgPipesAssumption DEF TypeOK, Cmds
    <2>6. held' \in [Cmds -> SUBSET Ends]
        BY <1>1, <1>13, <1>14 DEF TypeOK
    <2>7. place' \in [Cmds -> Places] /\ target' \in [Cmds -> Places]
      <3>1. <<sess[u], pos[u]>> \in Places
          BY <1>1 DEF TypeOK, Places
      <3> QED BY <1>1, <1>12, <3>1 DEF TypeOK
    <2> QED BY <2>1, <2>2, <2>3, <2>4, <2>5, <2>6, <2>7 DEF TypeOK, ModesOK
  <1>21. LongTables'
    <2> SUFFICES ASSUME NEW w \in Users PROVE Len(fdTable'[w]) >= PipeNumMax - MaxRefused /\ pos'[w] >= 1
        BY DEF LongTables
    <2>1. pos'[w] >= 1
        BY <1>1, <1>12 DEF TypeOK, LongTables
    <2>2. Len(fdTable'[w]) >= PipeNumMax - MaxRefused
      <3>1. CASE w = u
        <4>1. PICK m \in Nat, n \in Nat : m = Len(t2) /\ n = Len(tab) /\ m >= n
            BY <1>3, <1>16
        <4>2. n >= PipeNumMax - MaxRefused /\ Len(fdTable'[w]) = m
            BY <1>3, <1>18, <3>1, <4>1
        <4> QED BY <4>1, <4>2, RwgPipesAssumption
      <3>2. CASE w # u
          BY <1>1, <1>18, <3>2 DEF LongTables
      <3> QED BY <3>1, <3>2
    <2> QED BY <2>1, <2>2
  <1>22. Old'
    <2>1. ASSUME NEW f \in Fds, fds'[f] # Closed PROVE fds'[f][2] < cmds + 1
      <3>1. fds'[f] = sfd[f] /\ sfd[f] \in Ends
          BY <1>8, <1>15, <2>1
      <3>2. fds'[f][2] <= cmds /\ fds'[f][2] \in Nat
          BY <1>29, <2>1, <3>1 DEF Ends, Cmds
      <3> QED BY <1>2, <3>2
    <2>2. \A c \in Cmds : inp'[c] < cmds + 1 /\ out'[c] < cmds + 1
      <3> TAKE c \in Cmds
      <3>1. inp[c] < cmds /\ out[c] < cmds /\ inp[c] \in Nat /\ out[c] \in Nat
        <4>1. inp[c] \in Cmds \cup {NoPipe} /\ out[c] \in Cmds \cup {NoPipe}
            BY <1>1 DEF TypeOK
        <4>2. inp[c] < cmds /\ out[c] < cmds
            BY <1>1 DEF Old
        <4> QED BY <4>1, <4>2 DEF Cmds, NoPipe
      <3>2. inp[c] < cmds + 1 /\ out[c] < cmds + 1
          BY <1>2, <3>1
      <3>3. inp'[c] = (IF c = cmds THEN p ELSE inp[c]) /\ out'[c] = (IF c = cmds THEN q ELSE out[c])
          BY <1>1, <1>12 DEF TypeOK
      <3> QED BY <1>11, <3>2, <3>3
    <2>3. \A c \in Cmds : c >= cmds + 1 => inp'[c] = NoPipe /\ out'[c] = NoPipe /\ held'[c] = {}
      <3> SUFFICES ASSUME NEW c \in Cmds, c >= cmds + 1
                   PROVE inp'[c] = NoPipe /\ out'[c] = NoPipe /\ held'[c] = {}
          OBVIOUS
      <3>1. c >= cmds /\ c # cmds
          BY <1>2 DEF Cmds
      <3> QED BY <1>1, <1>12, <1>13, <3>1 DEF Old, TypeOK
    <2> QED BY <1>12, <2>1, <2>2, <2>3 DEF Old
  <1>23. HeldOwn' /\ HeldReal'
    <2> SUFFICES ASSUME NEW c \in Cmds
                 PROVE  /\ held'[c] \subseteq {<<"r", inp'[c]>>, <<"w", out'[c]>>}
                        /\ \A e \in held'[c] : e[2] # NoPipe
        BY DEF HeldOwn, HeldReal
    <2>1. CASE c = cmds
      <3>1. held'[c] = kept /\ inp'[c] = p /\ out'[c] = q
          BY <1>1, <1>12, <1>13, <2>1 DEF TypeOK
      <3> QED BY <1>14, <3>1
    <2>2. CASE c # cmds
      <3>1. held'[c] = held[c] /\ inp'[c] = inp[c] /\ out'[c] = out[c]
          BY <1>1, <1>12, <1>13, <2>2 DEF TypeOK
      <3> QED BY <1>1, <3>1 DEF HeldOwn, HeldReal
    <2> QED BY <2>1, <2>2
  <1>24. Matrices' /\ NothingInherited'
    <2>1. Matrices'
        BY DEF PipesOK
    <2>2. ASSUME NEW w \in Users, sess[w] = 0
          PROVE  /\ Range(fdTable'[w]) \subseteq {STDIN}
                 /\ \A e \in Users \X Users : w \in {e[1], e[2]} =>
                       userPipeIn'[e] = STDIN /\ userPipeOut'[e] = STDIN
      <3>1. w # u /\ fdTable'[w] = fdTable[w]
          BY <1>2, <1>18, <2>2 DEF Online
      <3>2. Range(fdTable[w]) \subseteq {STDIN}
          BY <1>1, <2>2 DEF NothingInherited, Online
      <3>3. \A e \in Users \X Users : w \in {e[1], e[2]} => userPipeIn'[e] = STDIN /\ userPipeOut'[e] = STDIN
          BY <1>12, <2>2 DEF PipesOK, Online
      <3> QED BY <3>1, <3>2, <3>3
    <2> QED BY <1>12, <2>1, <2>2 DEF NothingInherited, Online
  <1>25. \A w, x \in Users, i \in Nat : K(w, x, i) # STDIN =>
            /\ K(w, x, i) # in
            /\ fds'[K(w, x, i)] = sfd[K(w, x, i)]
            /\ \E n \in DOMAIN pipeFd0' : pipeFd0'[n] = K(w, x, i)
    <2> SUFFICES ASSUME NEW w \in Users, NEW x \in Users, NEW i \in Nat, K(w, x, i) # STDIN
                 PROVE  /\ K(w, x, i) # in
                        /\ fds'[K(w, x, i)] = sfd[K(w, x, i)]
                        /\ \E n \in DOMAIN pipeFd0' : pipeFd0'[n] = K(w, x, i)
        OBVIOUS
    <2>1. PICK j \in Nat : j = (IF w = u /\ i # 0 THEN i + 1 ELSE i) /\ (w = u => j # 1)
        OBVIOUS
    <2>2. K(w, x, i) = J(w, x, j)
      <3>1. \A a \in Nat : a = (IF w = u /\ i # 0 THEN i + 1 ELSE i) => K(w, x, i) = J(w, x, a)
          BY <1>19
      <3> QED BY <2>1, <3>1
    <2>3. K(w, x, i) # in
        BY <1>5, <1>6, <2>1, <2>2
    <2>4. PICK k \in DOMAIN list0 : list0[k] = K(w, x, i)
        BY <1>6, <2>2
    <2> QED BY <1>15, <2>3, <2>4
  <1>26. Inputs(fdTable', userPipeIn', pipeFd0')
    <2>1. ASSUME NEW w \in Users, NEW x \in Users, NEW y \in Users, NEW z \in Users,
                 NEW i \in Nat, NEW j \in Nat, K(w, x, i) = K(y, z, j), K(w, x, i) # STDIN
          PROVE  w = y /\ i = j /\ (i = 0 => x = z)
      <3>1. PICK m \in Nat : m = IF w = u /\ i # 0 THEN i + 1 ELSE i
          OBVIOUS
      <3>2. PICK n \in Nat : n = IF y = u /\ j # 0 THEN j + 1 ELSE j
          OBVIOUS
      <3>5. \A a \in Nat : a = (IF w = u /\ i # 0 THEN i + 1 ELSE i) => K(w, x, i) = J(w, x, a)
          BY <1>19
      <3>6. \A a \in Nat : a = (IF y = u /\ j # 0 THEN j + 1 ELSE j) => K(y, z, j) = J(y, z, a)
          BY <1>19
      <3>3. K(w, x, i) = J(w, x, m) /\ K(y, z, j) = J(y, z, n)
          BY <3>1, <3>2, <3>5, <3>6
      <3>4. w = y /\ m = n /\ (m = 0 => x = z)
        <4>1. J(w, x, m) = J(y, z, n) /\ J(w, x, m) # STDIN
            BY <2>1, <3>3
        <4> QED BY <1>6, <4>1
      <3> QED BY <3>1, <3>2, <3>4
    <2>2. \A w, x \in Users, i \in Nat : K(w, x, i) # STDIN =>
             \E n \in DOMAIN pipeFd0' : pipeFd0'[n] = K(w, x, i)
        BY <1>25
    <2>3. \A w, x, y, z \in Users, i, j \in Nat : K(w, x, i) = K(y, z, j) /\ K(w, x, i) # STDIN =>
             w = y /\ i = j /\ (i = 0 => x = z)
        BY <2>1
    <2> QED BY <2>2, <2>3 DEF Inputs, K
  <1>27. ASSUME Len(pipeFd0') = Len(pipeFd1')
         PROVE  /\ Paired(pipeFd0', pipeFd1', fds') /\ Released(fds)'
                /\ Routed(fdTable', userPipeIn', fds', out', target', sess', pos') /\ Delivered'
    <2>1. /\ Len(list0) = Len(list1) /\ Aligned
          /\ Paired(list0, list1, sfd) /\ Released(sfd) /\ Delivered
          /\ \A w, x \in Users, i \in Nat : J(w, x, i) # STDIN =>
                \A c \in Cmds : out[c] = sfd[J(w, x, i)][2] => Leads(target[c], sess, pos, w, i)
          /\ o # STDOUT => \A w, x \in Users, i \in Nat :
                J(w, x, i) # STDIN /\ sfd[J(w, x, i)][2] = q => Leads(to, sess, pos, w, i)
      <3>1. Len(list0) = Len(list1) /\ Aligned
          BY <1>15, <1>27
      <3>2. o # STDOUT => \A w, x \in Users, i \in Nat :
                J(w, x, i) # STDIN /\ sfd[J(w, x, i)][2] = q => Leads(to, sess, pos, w, i)
          BY <1>10, <1>29, <3>1
      <3> QED BY <1>1, <1>6, <3>1, <3>2 DEF DeliveredWhileAligned
    <2>2. /\ Paired(pipeFd0', pipeFd1', fds')
          /\ in # STDIN => \A f \in Fds : fds'[f] # Closed => fds'[f][2] # p
        BY <1>10, <1>15, <1>27, <2>1
    <2>3. /\ \A c \in Cmds : inp'[c] = IF c = cmds THEN p ELSE inp[c]
          /\ \A c \in Cmds : out'[c] = IF c = cmds THEN q ELSE out[c]
          /\ \A c \in Cmds : place'[c] = IF c = cmds THEN <<sess[u], pos[u]>> ELSE place[c]
          /\ \A c \in Cmds : target'[c] = IF c = cmds THEN to ELSE target[c]
        BY <1>1, <1>12 DEF TypeOK
    <2>4. Released(fds)'
      <3> SUFFICES ASSUME NEW d \in Cmds, inp'[d] # NoPipe, NEW f \in Fds, fds'[f] # Closed
                   PROVE  fds'[f][2] # inp'[d]
          BY DEF Released
      <3>1. CASE d = cmds
          BY <1>10, <2>2, <2>3, <3>1
      <3>2. CASE d # cmds
        <4>1. inp'[d] = inp[d] /\ fds'[f] = sfd[f]
            BY <1>15, <2>3, <3>2
        <4> QED BY <2>1, <4>1 DEF Released
      <3> QED BY <3>1, <3>2
    <2>5. \A w, x \in Users, i \in Nat : J(w, x, i) # STDIN =>
             sfd[J(w, x, i)][2] \in Cmds /\ sfd[J(w, x, i)] # Closed
      <3> SUFFICES ASSUME NEW w \in Users, NEW x \in Users, NEW i \in Nat, J(w, x, i) # STDIN
                   PROVE  sfd[J(w, x, i)][2] \in Cmds /\ sfd[J(w, x, i)] # Closed
          OBVIOUS
      <3>1. PICK k \in DOMAIN list0 : list0[k] = J(w, x, i)
          BY <1>6
      <3>2. J(w, x, i) \in Fds
          BY <1>5 DEF Slot
      <3>3. sfd[J(w, x, i)] \in Ends /\ sfd[J(w, x, i)][1] = "r"
          BY <1>8, <3>1, <3>2
      <3> QED BY <1>8, <3>3 DEF Ends
    <2>6. ASSUME NEW w \in Users, NEW x \in Users, NEW i \in Nat, K(w, x, i) # STDIN,
                 NEW c \in Cmds, out'[c] = fds'[K(w, x, i)][2]
          PROVE  Leads(target'[c], sess', pos', w, i)
      <3>1. PICK j \in Nat : j = IF w = u /\ i # 0 THEN i + 1 ELSE i
          OBVIOUS
      <3>2. K(w, x, i) = J(w, x, j) /\ out'[c] = sfd[J(w, x, j)][2] /\ J(w, x, j) # STDIN
        <4>1. \A a \in Nat : a = (IF w = u /\ i # 0 THEN i + 1 ELSE i) => K(w, x, i) = J(w, x, a)
            BY <1>19
        <4>2. K(w, x, i) = J(w, x, j)
            BY <3>1, <4>1
        <4>3. fds'[K(w, x, i)] = sfd[K(w, x, i)]
            BY <1>25, <2>6
        <4> QED BY <2>6, <4>2, <4>3
      <3>3. Leads(target'[c], sess, pos, w, j)
        <4>1. CASE c = cmds
          <5>1. o # STDOUT
              BY <1>10, <1>11, <2>3, <2>5, <3>2, <4>1
          <5> QED BY <2>1, <2>3, <3>2, <4>1, <5>1
        <4>2. CASE c # cmds
            BY <2>1, <2>3, <3>2, <4>2
        <4> QED BY <4>1, <4>2
      <3>4. CASE w = u /\ i # 0
        <4>1. pos'[u] = pos[u] + 1 /\ pos[u] \in Nat
            BY <1>1, <1>12 DEF TypeOK
        <4>2. pos'[u] + i - 1 = pos[u] + j - 1
            BY <3>1, <3>4, <4>1
        <4>3. j # 0
            BY <3>1, <3>4
        <4> QED BY <1>12, <3>3, <3>4, <4>2, <4>3 DEF Leads
      <3>5. CASE w # u \/ i = 0
        <4>1. j = i /\ (w # u => pos'[w] = pos[w])
            BY <1>1, <1>12, <3>1, <3>5 DEF TypeOK
        <4> QED BY <1>12, <3>3, <3>5, <4>1 DEF Leads
      <3> QED BY <3>4, <3>5
    <2>7. Routed(fdTable', userPipeIn', fds', out', target', sess', pos')
        BY <2>6 DEF Routed, K
    <2>8. ASSUME NEW c \in Cmds, NEW d \in Cmds, out'[c] # NoPipe, inp'[d] = out'[c]
          PROVE  PipedTo(c, d)'
      <3>1. CASE d = cmds
        <4>1. in # STDIN /\ out'[c] = p
            BY <1>10, <2>3, <2>8, <3>1
        <4>2. out'[c] = sfd[J(u, u, 1)][2] /\ J(u, u, 1) # STDIN
            BY <1>5, <1>10, <4>1
        <4>3. Leads(target'[c], sess, pos, u, 1)
          <5>1. CASE c = cmds
            <6>1. o # STDOUT
                BY <1>10, <2>3, <2>8, <5>1
            <6> QED BY <2>1, <2>3, <4>2, <5>1, <6>1
          <5>2. CASE c # cmds
              BY <2>1, <2>3, <4>2, <5>2
          <5> QED BY <5>1, <5>2
        <4>4. pos[u] + 1 - 1 = pos[u]
            BY <1>1 DEF TypeOK
        <4>5. Aims(target'[c], <<sess[u], pos[u]>>)
            BY <4>3, <4>4 DEF Leads
        <4>6. place'[d] = <<sess[u], pos[u]>>
            BY <2>3, <3>1
        <4> QED BY <4>5, <4>6 DEF Aims, PipedTo
      <3>2. CASE d # cmds /\ c = cmds
        <4>1. o # STDOUT /\ inp[d] = sfd[o][2] /\ inp[d] # NoPipe
            BY <1>10, <2>3, <2>8, <3>2
        <4>2. o \in Fds /\ sfd[o] # Closed
            BY <1>8, <1>9, <4>1
        <4> QED BY <2>1, <4>1, <4>2 DEF Released
      <3>3. CASE d # cmds /\ c # cmds
        <4>1. out[c] # NoPipe /\ inp[d] = out[c] /\ target'[c] = target[c] /\ place'[d] = place[d]
            BY <2>3, <2>8, <3>3
        <4> QED BY <2>1, <4>1 DEF Delivered, PipedTo
      <3> QED BY <3>1, <3>2, <3>3
    <2>9. Delivered'
        BY <2>8 DEF Delivered
    <2> QED BY <2>2, <2>4, <2>7, <2>9
  <1>28. Fits(fdTable, userPipeIn, pipeFd0, pipeFd1, fds)' /\ DeliveredWhileAligned'
      BY <1>15, <1>26, <1>27 DEF Fits, DeliveredWhileAligned, Aligned
  <1> QED BY <1>20, <1>21, <1>22, <1>23, <1>24, <1>28 DEF IInv

-----------------------------------------------------------------------------
(* The actions. *)

\* What <n leaves of the table and of the matrix fits.
LEMMA ReceiveFits ==
    ASSUME IInv, NEW u \in Users, NEW from \in Users \cup {Nobody},
           NEW tab, tab = Received(u, from), NEW tabs, tabs = Put(fdTable, u, tab),
           NEW matrix, matrix = Taken(userPipeIn, u, from)
    PROVE  /\ tab \in Seq(Slot) /\ Len(tab) = Len(fdTable[u]) /\ MatOK(matrix)
           /\ TabsOK(tabs) /\ Fits(tabs, matrix, pipeFd0, pipeFd1, fds)
  <1>1. /\ TabsOK(fdTable) /\ MatOK(userPipeIn) /\ fdTable[u] \in Seq(Slot)
        /\ Fits(fdTable, userPipeIn, pipeFd0, pipeFd1, fds)
      BY DEF IInv, TypeOK, TabsOK, MatOK, Slot
  <1>2. fdTable[u] # <<>>
    <2>1. Len(fdTable[u]) >= PipeNumMax - MaxRefused /\ PipeNumMax - MaxRefused > 0
        BY RwgPipesAssumption DEF IInv, LongTables
    <2>2. Len(fdTable[u]) # 0
        BY <2>1, RwgPipesAssumption
    <2> QED BY <2>2, EmptySeq
  <1>3. CASE from = Nobody
    <2>1. tab = fdTable[u] /\ matrix = userPipeIn
        BY <1>3 DEF Received, Taken
    <2>2. tabs = fdTable
        BY <1>1, <2>1 DEF Put, TabsOK
    <2> QED BY <1>1, <2>1, <2>2
  <1>4. CASE from # Nobody
    <2>1. from \in Users
        BY <1>4
    <2>2. tab = Put(fdTable[u], 1, userPipeIn[<<from, u>>]) /\ matrix = Put(userPipeIn, <<from, u>>, STDIN)
        BY <1>4 DEF Received, Taken, Put
    <2>3. /\ tab \in Seq(Slot) /\ Len(tab) = Len(fdTable[u]) /\ MatOK(matrix)
          /\ Receives(fdTable, userPipeIn, tabs, matrix, u, from)
        BY <1>1, <1>2, <2>1, <2>2, ReceiveIs
    <2>4. Fits(tabs, matrix, pipeFd0, pipeFd1, fds)
        BY <1>1, <2>1, <2>3, ReceiveKeeps
    <2>5. TabsOK(tabs)
        BY <1>1, <2>3 DEF TabsOK, Put
    <2> QED BY <2>3, <2>4, <2>5
  <1> QED BY <1>3, <1>4

\* <n takes both ends of a pipe out of the matrices.
LEMMA TakenIs ==
    ASSUME IInv, NEW u \in Users, NEW from \in Users \cup {Nobody}
    PROVE  /\ MatOK(Taken(userPipeIn, u, from)) /\ MatOK(Taken(userPipeOut, u, from))
           /\ \A e \in Users \X Users :
                 Taken(userPipeIn, u, from)[e] = STDIN <=> Taken(userPipeOut, u, from)[e] = STDIN
           /\ \A e \in Users \X Users : ~ Online(e[1]) \/ ~ Online(e[2]) =>
                 Taken(userPipeIn, u, from)[e] = STDIN /\ Taken(userPipeOut, u, from)[e] = STDIN
  <1>1. /\ MatOK(userPipeIn) /\ MatOK(userPipeOut) /\ Matrices /\ NothingInherited
      BY DEF IInv, TypeOK, MatOK, Slot
  <1>2. \A e \in Users \X Users : ~ Online(e[1]) \/ ~ Online(e[2]) =>
           userPipeIn[e] = STDIN /\ userPipeOut[e] = STDIN
    <2> SUFFICES ASSUME NEW e \in Users \X Users, ~ Online(e[1]) \/ ~ Online(e[2])
                 PROVE  userPipeIn[e] = STDIN /\ userPipeOut[e] = STDIN
        OBVIOUS
    <2>1. e[1] \in Users /\ e[2] \in Users /\ e[1] \in {e[1], e[2]} /\ e[2] \in {e[1], e[2]}
        OBVIOUS
    <2> QED BY <1>1, <2>1 DEF NothingInherited
  <1>3. ASSUME NEW m, MatOK(m)
        PROVE  /\ MatOK(Taken(m, u, from))
               /\ \A e \in Users \X Users : Taken(m, u, from)[e] = IF from # Nobody /\ e = <<from, u>> THEN STDIN ELSE m[e]
    <2>1. CASE from = Nobody
        BY <1>3, <2>1 DEF Taken
    <2>2. CASE from # Nobody
        BY <1>3, <2>2 DEF Taken, MatOK, Slot
    <2> QED BY <2>1, <2>2
  <1>4. MatOK(Taken(userPipeIn, u, from)) /\ MatOK(Taken(userPipeOut, u, from))
      BY <1>1, <1>3
  <1>5. ASSUME NEW e \in Users \X Users
        PROVE  \/ Taken(userPipeIn, u, from)[e] = STDIN /\ Taken(userPipeOut, u, from)[e] = STDIN
               \/ /\ Taken(userPipeIn, u, from)[e] = userPipeIn[e]
                  /\ Taken(userPipeOut, u, from)[e] = userPipeOut[e]
      BY <1>1, <1>3
  <1> QED BY <1>1, <1>2, <1>4, <1>5 DEF Matrices

\* <n leaves the matrices right.
LEMMA TakeKeeps ==
    ASSUME IInv, NEW u \in Users, NEW from \in Users \cup {Nobody}, Take(u, from), sess' = sess
    PROVE  PipesOK'
  <1>1. userPipeIn' = Taken(userPipeIn, u, from) /\ userPipeOut' = Taken(userPipeOut, u, from)
      BY DEF Take
  <1>2. /\ MatOK(userPipeIn') /\ MatOK(userPipeOut')
        /\ \A e \in Users \X Users : userPipeIn'[e] = STDIN <=> userPipeOut'[e] = STDIN
        /\ \A e \in Users \X Users : ~ Online(e[1]) \/ ~ Online(e[2]) =>
              userPipeIn'[e] = STDIN /\ userPipeOut'[e] = STDIN
      BY <1>1, TakenIs
  <1> QED BY <1>2 DEF PipesOK, MatOK, Matrices, Online

\* After a group the server selects, or goes on with the line.
LEMMA ContinueModes ==
    ASSUME NEW u \in Users, NEW ends, Continue(u, ends)
    PROVE  ModesOK'
  <1> QED BY DEF Continue, ModesOK

\* Facts of the reachable states that the actions below share.
LEMMA AtTurn ==
    ASSUME IInv, NEW u \in Users, Turn(u)
    PROVE  /\ cmds \in Cmds /\ cmds \in Nat /\ sess[u] \in 0 .. MaxSessions /\ pos[u] \in Nat /\ pos[u] >= 1
           /\ Online(u) /\ Bounded(fds) /\ Fresh(fds, cmds) /\ Nowhere \in Places
           /\ \A d \in Cmds : inp[d] # cmds /\ out[d] # cmds
           /\ Fits(fdTable, userPipeIn, pipeFd0, pipeFd1, fds) /\ TypeOK
  <1>1. TypeOK /\ LongTables /\ Old /\ Fits(fdTable, userPipeIn, pipeFd0, pipeFd1, fds)
      BY DEF IInv
  <1>2. cmds \in Cmds /\ cmds \in Nat /\ Online(u)
      BY <1>1, RwgPipesAssumption DEF TypeOK, Turn, Cmds
  <1>3. sess[u] \in 0 .. MaxSessions /\ pos[u] \in Nat /\ pos[u] >= 1
      BY <1>1 DEF TypeOK, LongTables
  <1>6. Nowhere \in Places
      BY RwgPipesAssumption DEF Nowhere, Places
  <1>4. ASSUME NEW f \in Fds, fds[f] # Closed PROVE fds[f][2] <= cmds /\ fds[f][2] # cmds
    <2>1. fds[f] \in Ends /\ fds[f][2] < cmds
        BY <1>1, <1>4 DEF TypeOK, Old
    <2>2. fds[f][2] \in Nat
        BY <2>1 DEF Ends, Cmds
    <2> QED BY <1>2, <2>1, <2>2
  <1>5. ASSUME NEW d \in Cmds PROVE inp[d] # cmds /\ out[d] # cmds
    <2>1. inp[d] < cmds /\ out[d] < cmds
        BY <1>1 DEF Old
    <2> QED BY <1>2, <2>1
  <1> QED BY <1>1, <1>2, <1>3, <1>4, <1>5, <1>6 DEF Bounded, Fresh

\* The last group of a line.
LEMMA RunLastKeeps ==
    ASSUME IInv, NEW u \in Users, NEW from \in Users \cup {Nobody}, RunLast(u, from)
    PROVE  IInv'
  <1>1. /\ Turn(u) /\ Take(u, from) /\ mode' = "wait" /\ user' = u /\ fg' = cmds
        /\ Fork(u, Received(u, from), pipeFd0, pipeFd1, fds, STDOUT, Nowhere, FALSE)
      BY DEF RunLast
  <1>2. cmds \in Cmds /\ Bounded(fds) /\ Nowhere \in Places /\ sess' = sess
      BY <1>1, AtTurn DEF Fork
  <1>3. ModesOK' /\ PipesOK'
      BY <1>1, <1>2, TakeKeeps DEF ModesOK
  <1>4. PICK tab, tabs : tab = Received(u, from) /\ tabs = Put(fdTable, u, tab)
      OBVIOUS
  <1>5. /\ tab \in Seq(Slot) /\ Len(tab) = Len(fdTable[u])
        /\ Fits(tabs, userPipeIn', pipeFd0, pipeFd1, fds)
      BY <1>1, <1>4, ReceiveFits DEF Take
  <1>6. /\ Goes(tabs, userPipeIn', pipeFd0, pipeFd1, fds, STDOUT, Nowhere)
        /\ Len(pipeFd0) = Len(pipeFd1) => Aligned
      BY DEF Goes, Aligned
  <1> QED BY <1>1, <1>2, <1>3, <1>4, <1>5, <1>6, ForkKeeps

\* The entry that |n names is in the table.
LEMMA Named ==
    ASSUME IInv, NEW u \in Users, NEW off \in Offsets, NEW t \in Seq(Slot), Len(t) = Len(fdTable[u])
    PROVE  /\ off \in Nat /\ off + 1 \in Nat \ {0} /\ off + 1 <= Len(t) /\ off + 1 \in DOMAIN t
           /\ Entry(t, off + 1) = t[off + 1]
  <1>1. PICK n \in Nat : n = Len(t) /\ DOMAIN t = 1 .. n
      BY LenProperties
  <1>2. n >= PipeNumMax - MaxRefused
      BY <1>1 DEF IInv, LongTables
  <1>3. off \in Nat /\ off + 1 <= PipeNumMax - MaxRefused
      BY RwgPipesAssumption
  <1>4. off + 1 \in Nat \ {0} /\ off + 1 <= n
      BY <1>2, <1>3, RwgPipesAssumption
  <1> QED BY <1>1, <1>3, <1>4 DEF Entry

\* |n when its target has a pipe: the write end beside the target's read end.
LEMMA PipeToOldKeeps ==
    ASSUME IInv, NEW u \in Users, NEW from \in Users \cup {Nobody}, NEW off \in Offsets,
           NEW ends \in BOOLEAN, PipeToOld(u, from, off, ends)
    PROVE  IInv'
  <1>1. PICK tab, tabs : tab = Received(u, from) /\ tabs = Put(fdTable, u, tab)
      OBVIOUS
  <1> DEFINE o == pipeFd1[Find(pipeFd0, tab[off + 1])]
             to == <<sess[u], pos[u] + off>>
  <1>2. /\ Turn(u) /\ Take(u, from) /\ Continue(u, ends) /\ tab[off + 1] # STDIN
        /\ Fork(u, tab, pipeFd0, pipeFd1, fds, o, to, ends)
      BY <1>1 DEF PipeToOld
  <1>3. /\ cmds \in Cmds /\ Bounded(fds) /\ sess' = sess /\ sess[u] \in 0 .. MaxSessions
        /\ pos[u] \in Nat
      BY <1>2, AtTurn DEF Fork
  <1>4. ModesOK' /\ PipesOK'
      BY <1>2, <1>3, TakeKeeps, ContinueModes
  <1>5. /\ tab \in Seq(Slot) /\ Len(tab) = Len(fdTable[u]) /\ TabsOK(tabs)
        /\ Fits(tabs, userPipeIn', pipeFd0, pipeFd1, fds)
      BY <1>1, <1>2, ReceiveFits DEF Take
  <1>6. /\ off \in Nat /\ off + 1 \in Nat \ {0} /\ Entry(tab, off + 1) = tab[off + 1]
      BY <1>5, Named
  <1>7. to \in Places
      BY <1>3, <1>6 DEF Places
  <1>8. In(tabs, userPipeIn', u, u, off + 1) = tab[off + 1]
    <2>1. tabs[u] = tab
        BY <1>1 DEF IInv, TypeOK, Put
    <2> QED BY <1>6, <2>1 DEF In
  <1>9. Listed(pipeFd0, pipeFd1, fds) /\ Inputs(tabs, userPipeIn', pipeFd0)
      BY <1>5 DEF Fits
  <1>10. PICK k : k = Find(pipeFd0, tab[off + 1]) /\ k \in DOMAIN pipeFd0 /\ pipeFd0[k] = tab[off + 1]
    <2>1. \E n \in DOMAIN pipeFd0 : pipeFd0[n] = tab[off + 1]
        BY <1>2, <1>6, <1>8, <1>9 DEF Inputs
    <2>2. pipeFd0 \in Seq(Fds) /\ \A i, j \in DOMAIN pipeFd0 : pipeFd0[i] = pipeFd0[j] => i = j
        BY <1>9 DEF Listed
    <2> QED BY <2>1, <2>2, FindIs
  <1>11. o = pipeFd1[k] /\ k \in DOMAIN pipeFd1 /\ o \in Fds
    <2>1. /\ pipeFd0 \in Seq(Fds) /\ pipeFd1 \in Seq(Fds) /\ Len(pipeFd0) <= Len(pipeFd1)
        BY <1>9 DEF Listed
    <2>2. PICK a \in Nat, b \in Nat : a = Len(pipeFd0) /\ b = Len(pipeFd1)
                                      /\ DOMAIN pipeFd0 = 1 .. a /\ DOMAIN pipeFd1 = 1 .. b
        BY <2>1, LenProperties
    <2>3. k \in 1 .. b
        BY <1>10, <2>1, <2>2
    <2> QED BY <1>10, <2>1, <2>2, <2>3
  <1> HIDE DEF o
  <1>12. ASSUME Len(pipeFd0) = Len(pipeFd1), NEW w \in Users, NEW x \in Users, NEW i \in Nat,
                In(tabs, userPipeIn', w, x, i) # STDIN,
                fds[In(tabs, userPipeIn', w, x, i)][2] = fds[o][2]
         PROVE  Leads(to, sess, pos, w, i)
    <2>1. fds[pipeFd0[k]][2] = fds[o][2]
        BY <1>5, <1>10, <1>11, <1>12 DEF Fits, Paired
    <2>2. PICK n \in DOMAIN pipeFd0 : pipeFd0[n] = In(tabs, userPipeIn', w, x, i)
        BY <1>9, <1>12 DEF Inputs
    <2>3. /\ pipeFd0[n] \in Fds /\ pipeFd0[k] \in Fds
          /\ fds[pipeFd0[n]][1] = "r" /\ fds[pipeFd0[k]][1] = "r"
          /\ fds \in [Fds -> Ends \cup {Closed}]
        BY <1>9, <1>10, <2>2, LenProperties DEF Listed
    <2>4. fds[pipeFd0[n]] \in Ends /\ fds[pipeFd0[k]] \in Ends /\ fds[pipeFd0[n]] # Closed
        BY <2>3 DEF Closed
    <2>5. fds[pipeFd0[n]] = fds[pipeFd0[k]]
        BY <1>12, <2>1, <2>2, <2>3, <2>4 DEF Ends
    <2>6. pipeFd0[n] = pipeFd0[k]
        BY <1>9, <2>3, <2>4, <2>5 DEF Listed
    <2>7. w = u /\ i = off + 1
      <3>1. /\ In(tabs, userPipeIn', w, x, i) = In(tabs, userPipeIn', u, u, off + 1)
            /\ In(tabs, userPipeIn', w, x, i) # STDIN /\ off + 1 \in Nat
          BY <1>6, <1>8, <1>10, <1>12, <2>2, <2>6
      <3> QED BY <1>9, <3>1 DEF Inputs
    <2>8. pos[u] + i - 1 = pos[u] + off /\ i # 0
        BY <1>3, <1>6, <2>7
    <2> QED BY <2>7, <2>8 DEF Leads, Aims
  <1>13. Goes(tabs, userPipeIn', pipeFd0, pipeFd1, fds, o, to)
      BY <1>11, <1>12 DEF Goes
  <1>14. Len(pipeFd0) = Len(pipeFd1) => Aligned
      BY DEF Aligned
  <1> HIDE DEF to
  <1> QED BY <1>1, <1>2, <1>3, <1>4, <1>5, <1>7, <1>13, <1>14, ForkKeeps

\* A pipe that fork_process is given new ends of.
LEMMA NewPipeKeeps ==
    ASSUME IInv, NEW u \in Users, Turn(u), NEW r, NEW w, LowestFree(r, w),
           NEW matrix, NEW tabs0, NEW tab, tab \in Seq(Slot), Len(tab) = Len(fdTable[u]),
           NEW tabs, tabs = Put(fdTable, u, tab), Fits(tabs0, matrix, pipeFd0, pipeFd1, fds),
           NEW v \in Users, NEW y \in Users, NEW k \in Nat,
           NewSlot(tabs0, matrix, tabs, userPipeIn', v, y, k, r),
           NEW to, to \in Places, Leads(to, sess, pos, v, k), NEW ends,
           Fork(u, tab, AtBack(pipeFd0, r), AtBack(pipeFd1, w), NewEnds(fds, r, w, cmds), w, to, ends),
           ModesOK', PipesOK'
    PROVE  IInv'
  <1>1. /\ cmds \in Cmds /\ cmds \in Nat /\ Bounded(fds) /\ Fresh(fds, cmds)
        /\ NotUsed(cmds) /\ TypeOK
      BY AtTurn DEF NotUsed
  <1>2. r \in Fds /\ w \in Fds /\ r # w /\ fds[r] = Closed /\ fds[w] = Closed
      BY RwgPipesAssumption DEF LowestFree
  <1>3. PICK list0, list1, sfd : /\ list0 = AtBack(pipeFd0, r) /\ list1 = AtBack(pipeFd1, w)
                                 /\ sfd = NewEnds(fds, r, w, cmds)
      OBVIOUS
  <1>10. \A f \in Fds : /\ f = r => sfd[f] = <<"r", cmds>>
                        /\ f = w => sfd[f] = <<"w", cmds>>
                        /\ f # r /\ f # w => sfd[f] = fds[f]
      BY <1>1, <1>2, <1>3 DEF NewEnds, TypeOK
  <1>4. /\ Fits(tabs, userPipeIn', list0, list1, sfd)
        /\ Len(list0) = Len(list1) => Len(pipeFd0) = Len(pipeFd1)
        /\ Appended(pipeFd1, list1, w) /\ OnlyInput(tabs, userPipeIn', sfd, cmds, v, k)
    <2>1. Usable(fds, r, w, cmds)
        BY <1>1, <1>2 DEF Usable
    <2>2. Enters(tabs0, matrix, tabs, userPipeIn', pipeFd0, pipeFd1, fds, v, y, k, r, w, cmds)
        BY <1>1, <1>2, <2>1 DEF Enters
    <2> QED BY <1>3, <2>2, NewFits
  <1>5. sfd[w] = <<"w", cmds>> /\ sfd[w][2] = cmds
      BY <1>2, <1>10
  <1>6. Bounded(sfd)
    <2> SUFFICES ASSUME NEW f \in Fds, sfd[f] # Closed PROVE sfd[f][2] <= cmds
        BY DEF Bounded
    <2>1. CASE f = r \/ f = w
        BY <1>1, <1>10, <2>1
    <2>2. CASE f # r /\ f # w
        BY <1>1, <1>10, <2>2 DEF Bounded
    <2> QED BY <2>1, <2>2
  <1>7. Goes(tabs, userPipeIn', list0, list1, sfd, w, to)
      BY <1>2, <1>4, <1>5 DEF Goes, Appended, OnlyInput
  <1>8. Len(list0) = Len(list1) => Aligned
      BY <1>4 DEF Aligned
  <1>9. Fork(u, tab, list0, list1, sfd, w, to, ends)
      BY <1>3
  <1> QED BY <1>4, <1>6, <1>7, <1>8, <1>9, ForkKeeps

\* |n when nothing feeds its target yet.
LEMMA PipeToNewKeeps ==
    ASSUME IInv, NEW u \in Users, NEW from \in Users \cup {Nobody}, NEW off \in Offsets,
           NEW ends \in BOOLEAN, PipeToNew(u, from, off, ends)
    PROVE  IInv'
  <1>1. PICK tab0, tabs0 : tab0 = Received(u, from) /\ tabs0 = Put(fdTable, u, tab0)
      OBVIOUS
  <1>2. PICK to : to = <<sess[u], pos[u] + off>>
      OBVIOUS
  <1>3. PICK r \in Fds, w \in Fds :
           /\ LowestFree(r, w)
           /\ Fork(u, Put(tab0, off + 1, r), AtBack(pipeFd0, r), AtBack(pipeFd1, w),
                   NewEnds(fds, r, w, cmds), w, to, ends)
      BY <1>1, <1>2 DEF PipeToNew, Put, AtBack, NewEnds
  <1>4. PICK tab, tabs : tab = Put(tab0, off + 1, r) /\ tabs = Put(fdTable, u, tab)
      OBVIOUS
  <1>5. Turn(u) /\ Take(u, from) /\ Continue(u, ends) /\ userPipeIn' = Taken(userPipeIn, u, from)
      BY DEF PipeToNew, Take
  <1>6. /\ sess' = sess /\ sess[u] \in 0 .. MaxSessions /\ pos[u] \in Nat
      BY <1>3, <1>5, AtTurn DEF Fork
  <1>7. ModesOK' /\ PipesOK'
      BY <1>5, <1>6, TakeKeeps, ContinueModes
  <1>8. /\ tab0 \in Seq(Slot) /\ Len(tab0) = Len(fdTable[u])
        /\ Fits(tabs0, userPipeIn', pipeFd0, pipeFd1, fds)
      BY <1>1, <1>5, ReceiveFits
  <1>9. off \in Nat /\ off + 1 \in Nat \ {0} /\ off + 1 <= Len(tab0)
      BY <1>8, Named
  <1>10. /\ tab \in Seq(Slot) /\ Len(tab) = Len(fdTable[u])
         /\ NewSlot(tabs0, userPipeIn', tabs, userPipeIn', u, u, off + 1, r)
    <2>1. TabsOK(fdTable) /\ r \in Slot
        BY DEF IInv, TypeOK, TabsOK, Slot
    <2> QED BY <1>1, <1>4, <1>8, <1>9, <2>1, PutInputIs
  <1>11. to \in Places
      BY <1>2, <1>6, <1>9 DEF Places
  <1>12. Leads(to, sess, pos, u, off + 1)
    <2>1. pos[u] + (off + 1) - 1 = pos[u] + off
        BY <1>6, <1>9
    <2> QED BY <1>2, <1>9, <2>1 DEF Leads, Aims
  <1>13. Fork(u, tab, AtBack(pipeFd0, r), AtBack(pipeFd1, w), NewEnds(fds, r, w, cmds), w, to, ends)
      BY <1>3, <1>4
  <1> QED BY <1>3, <1>4, <1>5, <1>7, <1>8, <1>9, <1>10, <1>11, <1>12, <1>13, NewPipeKeeps

\* >n: the read end goes into the matrix.
LEMMA PipeToUserKeeps ==
    ASSUME IInv, NEW u \in Users, NEW from \in Users \cup {Nobody}, NEW v \in Users,
           PipeToUser(u, from, v)
    PROVE  IInv'
  <1>1. PICK tab, tabs : tab = Received(u, from) /\ tabs = Put(fdTable, u, tab)
      OBVIOUS
  <1>2. PICK matrix, to : matrix = Taken(userPipeIn, u, from) /\ to = <<sess[v], 0>>
      OBVIOUS
  <1>3. Turn(u) /\ Online(v) /\ Continue(u, TRUE)
      BY DEF PipeToUser
  <1>4. PICK r \in Fds, w \in Fds :
           /\ LowestFree(r, w)
           /\ Fork(u, tab, AtBack(pipeFd0, r), AtBack(pipeFd1, w), NewEnds(fds, r, w, cmds), w, to, TRUE)
           /\ userPipeIn' = Put(matrix, <<u, v>>, r)
           /\ userPipeOut' = Put(Taken(userPipeOut, u, from), <<u, v>>, w)
      BY <1>1, <1>2 DEF PipeToUser, Put, AtBack, NewEnds
  <1>5. sess' = sess /\ Online(u) /\ to \in Places
    <2>1. sess[v] \in 0 .. MaxSessions
        BY DEF IInv, TypeOK
    <2> QED BY <1>2, <1>3, <1>4, <2>1, AtTurn DEF Fork, Places
  <1>6. /\ tab \in Seq(Slot) /\ Len(tab) = Len(fdTable[u]) /\ MatOK(matrix)
        /\ Fits(tabs, matrix, pipeFd0, pipeFd1, fds)
      BY <1>1, <1>2, ReceiveFits
  <1>7. NewSlot(tabs, matrix, tabs, userPipeIn', v, u, 0, r)
      BY <1>4, <1>6, PutPipeIs DEF Slot
  <1>8. Leads(to, sess, pos, v, 0)
      BY <1>2 DEF Leads
  <1>9. PipesOK'
    <2>1. /\ MatOK(matrix) /\ MatOK(Taken(userPipeOut, u, from))
          /\ \A e \in Users \X Users : matrix[e] = STDIN <=> Taken(userPipeOut, u, from)[e] = STDIN
          /\ \A e \in Users \X Users : ~ Online(e[1]) \/ ~ Online(e[2]) =>
                 matrix[e] = STDIN /\ Taken(userPipeOut, u, from)[e] = STDIN
        BY <1>2, TakenIs
    <2>2. r # STDIN /\ w # STDIN /\ r \in Slot /\ w \in Slot
        BY RwgPipesAssumption DEF STDIN, Slot
    <2>3. /\ MatOK(userPipeIn') /\ MatOK(userPipeOut')
          /\ \A e \in Users \X Users : e # <<u, v>> =>
                userPipeIn'[e] = matrix[e] /\ userPipeOut'[e] = Taken(userPipeOut, u, from)[e]
          /\ \A e \in Users \X Users : e = <<u, v>> => userPipeIn'[e] # STDIN /\ userPipeOut'[e] # STDIN
        BY <1>4, <2>1, <2>2 DEF MatOK, Put
    <2>4. Matrices'
        BY <2>1, <2>3 DEF Matrices
    <2>5. ASSUME NEW e \in Users \X Users, sess[e[1]] = 0 \/ sess[e[2]] = 0
          PROVE  userPipeIn'[e] = STDIN /\ userPipeOut'[e] = STDIN
      <3>1. e # <<u, v>>
          BY <1>3, <1>5, <2>5 DEF Online
      <3> QED BY <2>1, <2>3, <2>5, <3>1 DEF Online
    <2> QED BY <1>5, <2>3, <2>4, <2>5 DEF PipesOK, Online, MatOK
  <1>10. ModesOK'
      BY <1>3, ContinueModes
  <1> QED BY <1>1, <1>3, <1>4, <1>5, <1>6, <1>7, <1>8, <1>9, <1>10, NewPipeKeeps

\* The entries of u move up by one, and u's next entry is the one after.
LEMMA ShiftFits ==
    ASSUME NEW tabs, NEW tabs2, NEW matrix, NEW l0, NEW sfd, NEW ps, NEW ps2, NEW u \in Users,
           Shifts(tabs, tabs2, matrix, u), Inputs(tabs, matrix, l0),
           ps[u] \in Nat, ps2[u] = ps[u] + 1, \A w \in Users \ {u} : ps2[w] = ps[w]
    PROVE  /\ Inputs(tabs2, matrix, l0)
           /\ Routed(tabs, matrix, sfd, out, target, sess, ps)
              => Routed(tabs2, matrix, sfd, out, target, sess, ps2)
  <1> DEFINE J(w, x, i) == In(tabs, matrix, w, x, i)
             K(w, x, i) == In(tabs2, matrix, w, x, i)
  <1>1. \A w, x \in Users, i, j \in Nat : j = (IF w = u /\ i # 0 THEN i + 1 ELSE i) =>
           K(w, x, i) = J(w, x, j)
      BY DEF Shifts
  <1>2. /\ \A w, x \in Users, i \in Nat : J(w, x, i) # STDIN => \E n \in DOMAIN l0 : l0[n] = J(w, x, i)
        /\ \A w, x, z, q \in Users, i, j \in Nat :
              J(w, x, i) = J(z, q, j) /\ J(w, x, i) # STDIN => w = z /\ i = j /\ (i = 0 => x = q)
      BY DEF Inputs
  <1> HIDE DEF J, K
  <1>3. ASSUME NEW w \in Users, NEW x \in Users, NEW i \in Nat, K(w, x, i) # STDIN
        PROVE  \E n \in DOMAIN l0 : l0[n] = K(w, x, i)
    <2>1. PICK j \in Nat : j = (IF w = u /\ i # 0 THEN i + 1 ELSE i)
        OBVIOUS
    <2>2. K(w, x, i) = J(w, x, j)
        BY <1>1, <2>1
    <2> QED BY <1>2, <1>3, <2>2
  <1>4. ASSUME NEW w \in Users, NEW x \in Users, NEW y \in Users, NEW z \in Users,
               NEW i \in Nat, NEW j \in Nat, K(w, x, i) = K(y, z, j), K(w, x, i) # STDIN
        PROVE  w = y /\ i = j /\ (i = 0 => x = z)
    <2>1. PICK m \in Nat : m = IF w = u /\ i # 0 THEN i + 1 ELSE i
        OBVIOUS
    <2>2. PICK n \in Nat : n = IF y = u /\ j # 0 THEN j + 1 ELSE j
        OBVIOUS
    <2>3. \A a \in Nat : a = (IF w = u /\ i # 0 THEN i + 1 ELSE i) => K(w, x, i) = J(w, x, a)
        BY <1>1
    <2>4. \A a \in Nat : a = (IF y = u /\ j # 0 THEN j + 1 ELSE j) => K(y, z, j) = J(y, z, a)
        BY <1>1
    <2>5. K(w, x, i) = J(w, x, m) /\ K(y, z, j) = J(y, z, n)
        BY <2>1, <2>2, <2>3, <2>4
    <2>6. J(w, x, m) = J(y, z, n) /\ J(w, x, m) # STDIN
        BY <1>4, <2>5
    <2>7. w = y /\ m = n /\ (m = 0 => x = z)
        BY <1>2, <2>6
    <2> QED BY <2>1, <2>2, <2>7
  <1>5. ASSUME Routed(tabs, matrix, sfd, out, target, sess, ps)
        PROVE  Routed(tabs2, matrix, sfd, out, target, sess, ps2)
    <2>1. \A w, x \in Users, j \in Nat : J(w, x, j) # STDIN =>
             \A c \in Cmds : out[c] = sfd[J(w, x, j)][2] => Leads(target[c], sess, ps, w, j)
        BY <1>5 DEF Routed, J
    <2>2. ASSUME NEW w \in Users, NEW x \in Users, NEW i \in Nat, K(w, x, i) # STDIN,
                 NEW c \in Cmds, out[c] = sfd[K(w, x, i)][2]
          PROVE  Leads(target[c], sess, ps2, w, i)
      <3>1. PICK j \in Nat : j = (IF w = u /\ i # 0 THEN i + 1 ELSE i)
          OBVIOUS
      <3>2. K(w, x, i) = J(w, x, j)
          BY <1>1, <3>1
      <3>3. Leads(target[c], sess, ps, w, j)
          BY <2>1, <2>2, <3>2
      <3>4. CASE w = u /\ i # 0
        <4>1. ps2[u] + i - 1 = ps[u] + j - 1 /\ j # 0
            BY <3>1, <3>4
        <4> QED BY <3>3, <3>4, <4>1 DEF Leads
      <3>5. CASE w # u \/ i = 0
        <4>1. j = i /\ (w # u => ps2[w] = ps[w])
            BY <3>1, <3>5
        <4> QED BY <3>3, <3>5, <4>1 DEF Leads
      <3> QED BY <3>4, <3>5
    <2> QED BY <2>2 DEF Routed, K
  <1>6. Inputs(tabs2, matrix, l0)
    <2>1. \A w, x \in Users, i \in Nat : K(w, x, i) # STDIN => \E n \in DOMAIN l0 : l0[n] = K(w, x, i)
        BY <1>3
    <2>2. \A w, x, y, z \in Users, i, j \in Nat : K(w, x, i) = K(y, z, j) /\ K(w, x, i) # STDIN =>
             w = y /\ i = j /\ (i = 0 => x = z)
        BY <1>4
    <2> QED BY <2>1, <2>2 DEF Inputs, K
  <1> QED BY <1>5, <1>6

\* A matrix with fewer pipes than another gives fewer inputs.
LEMMA FewerFit ==
    ASSUME NEW tabs, NEW matrix, NEW fewer, NEW l0, NEW sfd, NEW ps,
           \A e \in Users \X Users : fewer[e] = STDIN \/ fewer[e] = matrix[e],
           Inputs(tabs, matrix, l0)
    PROVE  /\ Inputs(tabs, fewer, l0)
           /\ Routed(tabs, matrix, sfd, out, target, sess, ps)
              => Routed(tabs, fewer, sfd, out, target, sess, ps)
  <1>1. ASSUME NEW w \in Users, NEW x \in Users, NEW i \in Nat
        PROVE  \/ In(tabs, fewer, w, x, i) = STDIN
               \/ In(tabs, fewer, w, x, i) = In(tabs, matrix, w, x, i)
    <2>1. <<x, w>> \in Users \X Users
        OBVIOUS
    <2> QED BY <2>1 DEF In
  <1>2. Inputs(tabs, fewer, l0)
      BY <1>1 DEF Inputs
  <1>3. ASSUME Routed(tabs, matrix, sfd, out, target, sess, ps)
        PROVE  Routed(tabs, fewer, sfd, out, target, sess, ps)
      BY <1>1, <1>3 DEF Routed
  <1> QED BY <1>2, <1>3

\* Refused pipes and built-ins: an entry goes, and perhaps a user pipe.
LEMMA RefusedKeeps ==
    ASSUME IInv, NEW u \in Users, NEW from \in Users \cup {Nobody}, NEW ends \in BOOLEAN,
           Refused(u, from, ends)
    PROVE  IInv'
  <1>1. /\ TypeOK /\ LongTables /\ Old /\ HeldOwn /\ HeldReal /\ Matrices /\ NothingInherited
        /\ DeliveredWhileAligned /\ Fits(fdTable, userPipeIn, pipeFd0, pipeFd1, fds)
      BY DEF IInv
  <1> DEFINE t == fdTable[u]
             t2 == AtEnd(Tail(t), ends)
  <1>2. /\ Turn(u) /\ Len(t) > PipeNumMax - MaxRefused /\ Continue(u, ends)
        /\ fdTable' = [fdTable EXCEPT ![u] = t2]
        /\ pos' = [pos EXCEPT ![u] = @ + 1] /\ cmds' = cmds + 1
        /\ sess' = sess /\ sessions' = sessions /\ pipeFd0' = pipeFd0 /\ pipeFd1' = pipeFd1
        /\ Take(u, from) /\ fds' = fds /\ st' = st
        /\ inp' = inp /\ out' = out /\ held' = held /\ place' = place /\ target' = target
      BY DEF Refused
  <1>3. cmds \in Cmds /\ cmds \in Nat /\ Online(u) /\ pos[u] \in Nat /\ pos[u] >= 1
      BY <1>2, AtTurn
  <1>4. /\ TabsOK(fdTable) /\ t \in Seq(Slot) /\ fdTable = Put(fdTable, u, t)
        /\ fdTable \in [Users -> Seq(Slot)]
      BY <1>1 DEF TypeOK, TabsOK, Slot, Put
  <1>5. PICK m \in Nat : m = Len(t) /\ m >= PipeNumMax - MaxRefused + 1
    <2>1. PICK m \in Nat : m = Len(t)
        BY <1>4, LenProperties
    <2> QED BY <1>2, <2>1, RwgPipesAssumption
  <1>6. t # <<>>
    <2>1. Len(t) # 0
        BY <1>5, RwgPipesAssumption
    <2> QED BY <2>1, EmptySeq
  <1>7. t2 \in Seq(Slot) /\ Len(t2) \in Nat /\ Len(t2) >= m - 1 /\ MovedUp(t, t2)
      BY <1>4, <1>5, <1>6, TailIs DEF MovedUp
  <1>18. /\ MatOK(userPipeIn') /\ MatOK(userPipeOut') /\ Matrices'
         /\ \A e \in Users \X Users : ~ Online(e[1]) \/ ~ Online(e[2]) =>
               userPipeIn'[e] = STDIN /\ userPipeOut'[e] = STDIN
    <2>1. PipesOK'
        BY <1>2, TakeKeeps
    <2> QED BY <1>2, <2>1 DEF PipesOK, MatOK, Online
  <1>19. \A e \in Users \X Users : userPipeIn'[e] = STDIN \/ userPipeIn'[e] = userPipeIn[e]
    <2>1. userPipeIn' = Taken(userPipeIn, u, from) /\ userPipeIn \in [Users \X Users -> Fds \cup {STDIN}]
        BY <1>1, <1>2 DEF Take, TypeOK
    <2> QED BY <2>1 DEF Taken
  <1> HIDE DEF t2
  <1>8. TabsOK(fdTable') /\ Shifts(fdTable, fdTable', userPipeIn', u)
    <2>1. fdTable' = Put(fdTable, u, t2)
        BY <1>2 DEF Put
    <2> QED BY <1>4, <1>7, <2>1, MoveUpIs
  <1>9. fdTable'[u] = t2 /\ \A w \in Users \ {u} : fdTable'[w] = fdTable[w]
      BY <1>2, <1>4
  <1> HIDE DEF t
  <1>10. pos' \in [Users -> Nat] /\ pos'[u] = pos[u] + 1 /\ \A w \in Users \ {u} : pos'[w] = pos[w]
    <2>1. pos \in [Users -> Nat]
        BY Zenon, <1>1 DEF TypeOK
    <2>2. pos' = [pos EXCEPT ![u] = pos[u] + 1]
        BY <1>2
    <2>3. pos[u] + 1 \in Nat
        BY <1>3
    <2> QED BY <2>1, <2>2, <2>3
  <1>11. TypeOK'
    <2>1. fdTable' \in [Users -> Seq(Fds \cup {STDIN})]
        BY <1>8 DEF TabsOK, Slot
    <2>2. cmds' \in 1 .. (MaxCmds + 1)
        BY <1>2, <1>3, RwgPipesAssumption DEF Cmds
    <2>3. ModesOK'
        BY <1>2, ContinueModes
    <2> QED BY <1>1, <1>2, <1>10, <1>18, <2>1, <2>2, <2>3 DEF TypeOK, ModesOK, MatOK, Slot
  <1>12. LongTables'
    <2> SUFFICES ASSUME NEW w \in Users PROVE Len(fdTable'[w]) >= PipeNumMax - MaxRefused /\ pos'[w] >= 1
        BY DEF LongTables
    <2>1. CASE w = u
      <3>1. PICK n \in Nat : n = Len(fdTable'[w]) /\ n >= m - 1
          BY <1>7, <1>9, <2>1
      <3>2. n >= PipeNumMax - MaxRefused
          BY <1>5, <3>1, RwgPipesAssumption
      <3>3. pos'[w] >= 1
          BY <1>3, <1>10, <2>1
      <3> QED BY <3>1, <3>2, <3>3
    <2>2. CASE w # u
        BY <1>1, <1>9, <1>10, <2>2 DEF LongTables
    <2> QED BY <2>1, <2>2
  <1>13. Old'
    <2>1. \A f \in Fds : fds[f] # Closed => fds[f][2] < cmds + 1
      <3> SUFFICES ASSUME NEW f \in Fds, fds[f] # Closed PROVE fds[f][2] < cmds + 1
          OBVIOUS
      <3>1. fds[f][2] \in Nat /\ fds[f][2] < cmds
          BY <1>1 DEF TypeOK, Old, Ends, Cmds
      <3> QED BY <1>3, <3>1
    <2>2. \A c \in Cmds : inp[c] < cmds + 1 /\ out[c] < cmds + 1
      <3> TAKE c \in Cmds
      <3>1. inp[c] \in Nat /\ out[c] \in Nat
        <4>1. inp[c] \in Cmds \cup {NoPipe} /\ out[c] \in Cmds \cup {NoPipe}
            BY <1>1 DEF TypeOK
        <4> QED BY <4>1 DEF Cmds, NoPipe
      <3>2. inp[c] < cmds /\ out[c] < cmds
          BY <1>1 DEF Old
      <3> QED BY <1>3, <3>1, <3>2
    <2>3. \A c \in Cmds : c >= cmds + 1 => inp[c] = NoPipe /\ out[c] = NoPipe /\ held[c] = {}
      <3> SUFFICES ASSUME NEW c \in Cmds, c >= cmds + 1
                   PROVE inp[c] = NoPipe /\ out[c] = NoPipe /\ held[c] = {}
          OBVIOUS
      <3>1. c >= cmds
          BY <1>3 DEF Cmds
      <3> QED BY <1>1, <3>1 DEF Old
    <2> QED BY <1>2, <2>1, <2>2, <2>3 DEF Old
  <1>14. HeldOwn' /\ HeldReal' /\ DeliveredWhileAligned'
      BY <1>1, <1>2 DEF HeldOwn, HeldReal, DeliveredWhileAligned, Aligned, Delivered, PipedTo
  <1>15. NothingInherited'
    <2>1. ASSUME NEW w \in Users, sess[w] = 0 PROVE w # u
        BY <1>3, <2>1 DEF Online
    <2>2. ASSUME NEW w \in Users, sess[w] = 0, NEW e \in Users \X Users, w \in {e[1], e[2]}
          PROVE  userPipeIn'[e] = STDIN /\ userPipeOut'[e] = STDIN
      <3>1. ~ Online(e[1]) \/ ~ Online(e[2])
          BY <2>2 DEF Online
      <3> QED BY <1>18, <3>1
    <2> QED BY <1>1, <1>2, <1>9, <2>1, <2>2 DEF NothingInherited, Online
  <1>16. /\ Inputs(fdTable', userPipeIn', pipeFd0)
         /\ Routed(fdTable, userPipeIn, fds, out, target, sess, pos)
            => Routed(fdTable', userPipeIn', fds, out, target, sess, pos')
    <2>1. PICK tabs2, ps2, fewer : tabs2 = fdTable' /\ ps2 = pos' /\ fewer = userPipeIn'
        OBVIOUS
    <2>2. Shifts(fdTable, tabs2, fewer, u) /\ Inputs(fdTable, userPipeIn, pipeFd0)
        BY <1>1, <1>8, <2>1 DEF Fits
    <2>3. ps2[u] = pos[u] + 1 /\ \A w \in Users \ {u} : ps2[w] = pos[w]
        BY <1>10, <2>1
    <2>4. \A e \in Users \X Users : fewer[e] = STDIN \/ fewer[e] = userPipeIn[e]
        BY <1>19, <2>1
    <2>5. /\ Inputs(fdTable, fewer, pipeFd0)
          /\ Routed(fdTable, userPipeIn, fds, out, target, sess, pos)
             => Routed(fdTable, fewer, fds, out, target, sess, pos)
        BY <2>2, <2>4, FewerFit
    <2>6. /\ Inputs(tabs2, fewer, pipeFd0)
          /\ Routed(fdTable, fewer, fds, out, target, sess, pos)
             => Routed(tabs2, fewer, fds, out, target, sess, ps2)
        BY <1>3, <2>2, <2>3, <2>5, ShiftFits
    <2> QED BY <2>1, <2>5, <2>6
  <1>17. Fits(fdTable, userPipeIn, pipeFd0, pipeFd1, fds)'
      BY <1>1, <1>2, <1>16 DEF Fits, Released
  <1> QED BY <1>11, <1>12, <1>13, <1>14, <1>15, <1>17, <1>18 DEF IInv

\* waitpid returns, and the table is padded.
LEMMA WaitDoneKeeps ==
    ASSUME IInv, WaitDone
    PROVE  IInv'
  <1>1. /\ TypeOK /\ LongTables /\ Old /\ HeldOwn /\ HeldReal /\ Matrices /\ NothingInherited
        /\ DeliveredWhileAligned /\ Fits(fdTable, userPipeIn, pipeFd0, pipeFd1, fds)
      BY DEF IInv
  <1>2. /\ fdTable' = [fdTable EXCEPT ![user] = Refill(@)]
        /\ mode' = "select" /\ user' = Nobody /\ fg' = 0 /\ sess' = sess /\ sessions' = sessions
        /\ pipeFd0' = pipeFd0 /\ pipeFd1' = pipeFd1 /\ userPipeIn' = userPipeIn
        /\ userPipeOut' = userPipeOut /\ fds' = fds /\ cmds' = cmds /\ st' = st
        /\ inp' = inp /\ out' = out /\ held' = held /\ place' = place /\ target' = target
        /\ pos' = pos
      BY DEF WaitDone, Continue, commands
  <1>3. ASSUME NEW w \in Users
        PROVE  /\ fdTable[w] \in Seq(Slot) /\ fdTable'[w] \in Seq(Slot)
               /\ Len(fdTable'[w]) >= PipeNumMax - MaxRefused
               /\ \A i \in Nat \ {0} : Entry(fdTable'[w], i) = Entry(fdTable[w], i)
    <2>1. fdTable[w] \in Seq(Slot) /\ fdTable'[w] = IF w = user THEN Refill(fdTable[w]) ELSE fdTable[w]
        BY <1>1, <1>2 DEF TypeOK, Slot
    <2>2. CASE w = user
      <3>1. /\ Refill(fdTable[w]) \in Seq(Slot) /\ Len(Refill(fdTable[w])) \in Nat
            /\ Len(Refill(fdTable[w])) >= PipeNumMax
            /\ \A i \in Nat \ {0} : Entry(Refill(fdTable[w]), i) = Entry(fdTable[w], i)
          BY <2>1, RefillIs
      <3>2. fdTable'[w] = Refill(fdTable[w])
          BY <2>1, <2>2
      <3>3. PICK n \in Nat : n = Len(fdTable'[w]) /\ n >= PipeNumMax
          BY <3>1, <3>2
      <3>4. n >= PipeNumMax - MaxRefused
          BY <3>3, RwgPipesAssumption
      <3> QED BY <2>1, <3>1, <3>2, <3>3, <3>4
    <2>3. CASE w # user
        BY <1>1, <2>1, <2>3 DEF LongTables
    <2> QED BY <2>2, <2>3
  <1>4. fdTable' \in [Users -> Seq(Slot)]
    <2>1. \A w \in Users : fdTable'[w] \in Seq(Slot)
        BY <1>3
    <2>2. fdTable' = [w \in Users |-> fdTable'[w]]
        BY <1>1, <1>2 DEF TypeOK
    <2> QED BY <2>1, <2>2
  <1>5. TypeOK'
      BY <1>1, <1>2, <1>4 DEF TypeOK, Slot
  <1>6. LongTables'
      BY <1>1, <1>2, <1>3 DEF LongTables
  <1>7. Old' /\ HeldOwn' /\ HeldReal' /\ Matrices' /\ DeliveredWhileAligned'
      BY <1>1, <1>2 DEF Old, HeldOwn, HeldReal, Matrices, DeliveredWhileAligned, Aligned, Delivered, PipedTo
  <1>8. NothingInherited'
    <2> SUFFICES ASSUME NEW w \in Users, ~ Online(w)
                 PROVE  /\ Range(fdTable'[w]) \subseteq {STDIN}
                        /\ \A e \in Users \X Users : w \in {e[1], e[2]} =>
                              userPipeIn[e] = STDIN /\ userPipeOut[e] = STDIN
        BY <1>2 DEF NothingInherited, Online
    <2>1. /\ Range(fdTable[w]) \subseteq {STDIN}
          /\ \A e \in Users \X Users : w \in {e[1], e[2]} =>
                userPipeIn[e] = STDIN /\ userPipeOut[e] = STDIN
        BY <1>1 DEF NothingInherited
    <2>2. ASSUME NEW f \in Range(fdTable'[w]) PROVE f = STDIN
      <3>1. PICK i \in DOMAIN fdTable'[w] : f = fdTable'[w][i]
          BY DEF Range
      <3>2. i \in Nat \ {0}
          BY <1>3, LenProperties
      <3>3. Entry(fdTable'[w], i) = f /\ Entry(fdTable'[w], i) = Entry(fdTable[w], i)
          BY <1>3, <3>1, <3>2, EntryIs
      <3>4. Entry(fdTable[w], i) # STDIN => Entry(fdTable[w], i) \in Range(fdTable[w])
          BY <1>3, <3>2, EntryIs
      <3> QED BY <2>1, <3>3, <3>4
    <2> QED BY <2>1, <2>2
  <1>9. \A w, x \in Users, i \in Nat :
           In(fdTable', userPipeIn', w, x, i) = In(fdTable, userPipeIn, w, x, i)
      BY <1>2, <1>3 DEF In
  <1>10. Inputs(fdTable', userPipeIn', pipeFd0')
    <2>1. PICK tabs2 : tabs2 = fdTable'
        OBVIOUS
    <2>2. \A w, x \in Users, i \in Nat :
             In(tabs2, userPipeIn, w, x, i) = In(fdTable, userPipeIn, w, x, i)
        BY <1>2, <1>9, <2>1
    <2>3. Inputs(fdTable, userPipeIn, pipeFd0)
        BY <1>1 DEF Fits
    <2>4. Inputs(tabs2, userPipeIn, pipeFd0)
        BY <2>2, <2>3 DEF Inputs
    <2> QED BY <1>2, <2>1, <2>4
  <1>11. Routed(fdTable, userPipeIn, fds, out, target, sess, pos)
         => Routed(fdTable', userPipeIn', fds', out', target', sess', pos')
      BY <1>2, <1>9 DEF Routed
  <1>12. Fits(fdTable, userPipeIn, pipeFd0, pipeFd1, fds)'
      BY <1>1, <1>2, <1>10, <1>11 DEF Fits, Released
  <1> QED BY <1>5, <1>6, <1>7, <1>8, <1>12 DEF IInv

\* A command ends: it holds nothing any more.
LEMMA CommandEndsKeeps ==
    ASSUME IInv, NEW c \in Cmds, CommandEnds(c)
    PROVE  IInv'
  <1>1. /\ TypeOK /\ LongTables /\ Old /\ HeldOwn /\ HeldReal /\ Matrices /\ NothingInherited
        /\ DeliveredWhileAligned /\ Fits(fdTable, userPipeIn, pipeFd0, pipeFd1, fds)
      BY DEF IInv
  <1>2. /\ st' = [st EXCEPT ![c] = "gone"] /\ held' = [held EXCEPT ![c] = {}]
        /\ mode' = mode /\ user' = user /\ fg' = fg /\ sess' = sess /\ sessions' = sessions
        /\ fdTable' = fdTable /\ pipeFd0' = pipeFd0 /\ pipeFd1' = pipeFd1
        /\ userPipeIn' = userPipeIn /\ userPipeOut' = userPipeOut /\ fds' = fds /\ cmds' = cmds
        /\ inp' = inp /\ out' = out /\ place' = place /\ target' = target /\ pos' = pos
      BY DEF CommandEnds, tables
  <1>3. \A d \in Cmds : held'[d] = held[d] \/ held'[d] = {}
      BY <1>1, <1>2 DEF TypeOK
  <1>4. TypeOK'
      BY <1>1, <1>2 DEF TypeOK
  <1>5. Old' /\ HeldOwn' /\ HeldReal'
      BY <1>1, <1>2, <1>3 DEF Old, HeldOwn, HeldReal
  <1>6. LongTables' /\ Matrices' /\ NothingInherited' /\ DeliveredWhileAligned'
      BY <1>1, <1>2 DEF LongTables, Matrices, NothingInherited, Online, DeliveredWhileAligned,
                        Aligned, Delivered, PipedTo
  <1>7. Fits(fdTable, userPipeIn, pipeFd0, pipeFd1, fds)'
      BY <1>1, <1>2 DEF Fits, Released
  <1> QED BY <1>4, <1>5, <1>6, <1>7 DEF IInv

\* Nothing waits for a slot that is free.
LEMMA NothingWaits ==
    ASSUME IInv, NEW u \in Users, ~ Online(u), NEW x \in Users, NEW i \in Nat
    PROVE  In(fdTable, userPipeIn, u, x, i) = STDIN
  <1>1. /\ fdTable[u] \in Seq(Slot) /\ Range(fdTable[u]) \subseteq {STDIN}
        /\ \A e \in Users \X Users : u \in {e[1], e[2]} => userPipeIn[e] = STDIN
      BY DEF IInv, TypeOK, NothingInherited, Slot
  <1>2. CASE i = 0
    <2>1. <<x, u>> \in Users \X Users /\ u \in {<<x, u>>[1], <<x, u>>[2]}
        OBVIOUS
    <2> QED BY <1>1, <1>2, <2>1 DEF In
  <1>3. CASE i # 0
    <2>1. Entry(fdTable[u], i) # STDIN => Entry(fdTable[u], i) \in Range(fdTable[u])
        BY <1>1, <1>3, EntryIs
    <2> QED BY <1>1, <1>3, <2>1 DEF In
  <1> QED BY <1>2, <1>3

\* A login: nothing waits in the slot, so its new session and entries mislead
\* nobody.
LEMMA LoginKeeps ==
    ASSUME IInv, Login
    PROVE  IInv'
  <1>1. /\ TypeOK /\ LongTables /\ Old /\ HeldOwn /\ HeldReal /\ Matrices /\ NothingInherited
        /\ DeliveredWhileAligned /\ Fits(fdTable, userPipeIn, pipeFd0, pipeFd1, fds)
      BY DEF IInv
  <1>2. PICK u \in Users : /\ ~ Online(u) /\ sess' = [sess EXCEPT ![u] = sessions + 1]
                           /\ pos' = [pos EXCEPT ![u] = 1]
      BY DEF Login
  <1>3. /\ sessions < MaxSessions /\ sessions' = sessions + 1
        /\ mode' = mode /\ user' = user /\ fg' = fg
        /\ fdTable' = fdTable /\ pipeFd0' = pipeFd0 /\ pipeFd1' = pipeFd1
        /\ userPipeIn' = userPipeIn /\ userPipeOut' = userPipeOut /\ fds' = fds /\ cmds' = cmds
        /\ inp' = inp /\ out' = out /\ place' = place /\ target' = target
        /\ st' = st /\ held' = held
      BY DEF Login, tables, commands
  <1>4. /\ sessions + 1 \in 0 .. MaxSessions
        /\ \A w \in Users : w # u => sess'[w] = sess[w] /\ pos'[w] = pos[w]
        /\ sess'[u] = sessions + 1 /\ sess'[u] # 0 /\ pos'[u] = 1
      BY <1>1, <1>2, <1>3, RwgPipesAssumption DEF TypeOK
  <1>5. TypeOK'
    <2>1. sess' \in [Users -> 0 .. MaxSessions] /\ pos' \in [Users -> Nat] /\ sessions' \in 0 .. MaxSessions
        BY <1>1, <1>2, <1>3, <1>4 DEF TypeOK
    <2> QED BY <1>1, <1>3, <2>1 DEF TypeOK
  <1>6. LongTables'
      BY <1>1, <1>3, <1>4 DEF LongTables
  <1>7. Old' /\ HeldOwn' /\ HeldReal' /\ Matrices' /\ DeliveredWhileAligned'
      BY <1>1, <1>3 DEF Old, HeldOwn, HeldReal, Matrices, DeliveredWhileAligned, Aligned, Delivered, PipedTo
  <1>8. NothingInherited'
    <2>1. \A w \in Users : sess'[w] = 0 => sess[w] = 0
        BY <1>4
    <2> QED BY <1>1, <1>3, <2>1 DEF NothingInherited, Online
  <1>9. ASSUME Routed(fdTable, userPipeIn, fds, out, target, sess, pos)
        PROVE  Routed(fdTable, userPipeIn, fds, out, target, sess', pos')
    <2> SUFFICES ASSUME NEW w \in Users, NEW x \in Users, NEW i \in Nat,
                        In(fdTable, userPipeIn, w, x, i) # STDIN, NEW c \in Cmds,
                        out[c] = fds[In(fdTable, userPipeIn, w, x, i)][2]
                 PROVE  Leads(target[c], sess', pos', w, i)
        BY DEF Routed
    <2>1. w # u
        BY <1>2, NothingWaits
    <2>2. Leads(target[c], sess, pos, w, i)
        BY <1>9 DEF Routed
    <2> QED BY <1>4, <2>1, <2>2 DEF Leads
  <1>10. Fits(fdTable, userPipeIn, pipeFd0, pipeFd1, fds)'
      BY <1>1, <1>3, <1>9 DEF Fits, Released
  <1> QED BY <1>5, <1>6, <1>7, <1>8, <1>10 DEF IInv

\* erase_user closes the inputs of the user and of the user's pipes, and these
\* only.
LEMMA LogoutKeeps ==
    ASSUME IInv, NEW u \in Users, Logout(u)
    PROVE  IInv'
  <1>1. /\ TypeOK /\ LongTables /\ Old /\ HeldOwn /\ HeldReal /\ Matrices /\ NothingInherited
        /\ DeliveredWhileAligned /\ Fits(fdTable, userPipeIn, pipeFd0, pipeFd1, fds)
      BY DEF IInv
  <1> DEFINE mine  == {d \in Users \X Users : u \in {d[1], d[2]} /\ userPipeIn[d] # STDIN}
             both  == {Find(pipeFd0, userPipeIn[e]) : e \in mine}
             reads == {Find(pipeFd0, f) : f \in Range(fdTable[u]) \ {STDIN}}
             I(w, x, i) == In(fdTable, userPipeIn, w, x, i)
             K(w, x, i) == In(fdTable', userPipeIn', w, x, i)
  <1>2. PICK P0, P1 : P0 = both \cup reads /\ P1 = both
      OBVIOUS
  <1>3. /\ pipeFd0' = Without(pipeFd0, P0) /\ pipeFd1' = Without(pipeFd1, P1)
        /\ fds' = Shut(fds, pipeFd0, P0, pipeFd1, P1)
        /\ userPipeIn' = [e \in Users \X Users |-> IF u \in {e[1], e[2]} THEN STDIN ELSE userPipeIn[e]]
        /\ userPipeOut' = [e \in Users \X Users |-> IF u \in {e[1], e[2]} THEN STDIN ELSE userPipeOut[e]]
        /\ fdTable' = [fdTable EXCEPT ![u] = [i \in DOMAIN @ |-> STDIN]]
      BY <1>2 DEF Logout, EraseUser, UserPipesOf, Shut
  <1>4. /\ sess' = [sess EXCEPT ![u] = 0] /\ mode' = mode /\ user' = user /\ fg' = fg
        /\ sessions' = sessions /\ pos' = pos /\ cmds' = cmds /\ st' = st /\ inp' = inp
        /\ out' = out /\ held' = held /\ place' = place /\ target' = target
      BY DEF Logout, commands
  <1>5. /\ Listed(pipeFd0, pipeFd1, fds) /\ pipeFd0 \in Seq(Fds)
        /\ \A k, m \in DOMAIN pipeFd0 : pipeFd0[k] = pipeFd0[m] => k = m
        /\ \A w, x \in Users, i \in Nat : I(w, x, i) # STDIN => \E n \in DOMAIN pipeFd0 : pipeFd0[n] = I(w, x, i)
        /\ \A w, x, z, q \in Users, i, j \in Nat :
              I(w, x, i) = I(z, q, j) /\ I(w, x, i) # STDIN => w = z /\ i = j /\ (i = 0 => x = q)
      BY <1>1 DEF Fits, Inputs, Listed
  <1>6. /\ \A w \in Users : fdTable[w] \in Seq(Slot)
        /\ userPipeIn \in [Users \X Users -> Slot]
        /\ \A w, x \in Users : I(w, x, 0) = userPipeIn[<<x, w>>]
        /\ \A w, x \in Users, i \in Nat \ {0} : I(w, x, i) = Entry(fdTable[w], i)
      BY <1>1 DEF TypeOK, Slot, In
  <1> HIDE DEF I
  <1>7. /\ \A k \in P1 : \E w, x \in Users : /\ w = u \/ x = u
                                             /\ I(w, x, 0) # STDIN /\ k = Find(pipeFd0, I(w, x, 0))
        /\ \A k \in P0 \ P1 : \E i \in Nat \ {0} : I(u, u, i) # STDIN /\ k = Find(pipeFd0, I(u, u, i))
    <2>1. ASSUME NEW k \in P1
          PROVE  \E w, x \in Users : /\ w = u \/ x = u
                                     /\ I(w, x, 0) # STDIN /\ k = Find(pipeFd0, I(w, x, 0))
      <3>1. PICK e \in mine : k = Find(pipeFd0, userPipeIn[e])
          BY <1>2
      <3>2. PICK x \in Users, w \in Users : e = <<x, w>>
          OBVIOUS
      <3> QED BY <1>6, <3>1, <3>2
    <2>2. ASSUME NEW k \in P0 \ P1
          PROVE  \E i \in Nat \ {0} : I(u, u, i) # STDIN /\ k = Find(pipeFd0, I(u, u, i))
      <3>1. PICK f \in Range(fdTable[u]) \ {STDIN} : k = Find(pipeFd0, f)
          BY <1>2
      <3>2. PICK i \in DOMAIN fdTable[u] : f = fdTable[u][i]
          BY DEF Range
      <3>3. i \in Nat \ {0}
          BY <1>6, LenProperties
      <3>4. Entry(fdTable[u], i) = f
          BY <1>6, <3>2, <3>3, EntryIs
      <3> QED BY <1>6, <3>1, <3>3, <3>4
    <2> QED BY <2>1, <2>2
  <1> HIDE DEF both, reads, mine
  <1>8. \A k \in P0 : /\ k \in DOMAIN pipeFd0
                      /\ \E w, x \in Users, i \in Nat : /\ w = u \/ (x = u /\ i = 0)
                                                        /\ pipeFd0[k] = I(w, x, i) /\ I(w, x, i) # STDIN
    <2> SUFFICES ASSUME NEW k \in P0
                 PROVE  /\ k \in DOMAIN pipeFd0
                        /\ \E w, x \in Users, i \in Nat : /\ w = u \/ (x = u /\ i = 0)
                                                          /\ pipeFd0[k] = I(w, x, i) /\ I(w, x, i) # STDIN
        OBVIOUS
    <2>1. PICK w \in Users, x \in Users, i \in Nat :
             (w = u \/ (x = u /\ i = 0)) /\ I(w, x, i) # STDIN /\ k = Find(pipeFd0, I(w, x, i))
        BY <1>7
    <2>2. PICK f : f = I(w, x, i)
        OBVIOUS
    <2>3. \E n \in DOMAIN pipeFd0 : pipeFd0[n] = f
        BY <1>5, <2>1, <2>2
    <2>4. Find(pipeFd0, f) \in DOMAIN pipeFd0 /\ pipeFd0[Find(pipeFd0, f)] = f
        BY <1>5, <2>3, FindIs
    <2> QED BY <2>1, <2>2, <2>4
  <1>9. /\ Listed(pipeFd0', pipeFd1', fds')
        /\ \A f \in Fds : fds'[f] = fds[f] \/ fds'[f] = Closed
        /\ \A k \in DOMAIN pipeFd0 \ P0 :
              fds'[pipeFd0[k]] = fds[pipeFd0[k]] /\ \E n \in DOMAIN pipeFd0' : pipeFd0'[n] = pipeFd0[k]
        /\ Len(pipeFd0') = Len(pipeFd1') =>
              /\ Len(pipeFd0) = Len(pipeFd1)
              /\ Paired(pipeFd0, pipeFd1, fds) => Paired(pipeFd0', pipeFd1', fds')
    <2>1. P0 \in SUBSET (DOMAIN pipeFd0) /\ P1 \in SUBSET P0
        BY <1>2, <1>8
    <2>2. PICK m0, m1, sfd2 : /\ m0 = Without(pipeFd0, P0) /\ m1 = Without(pipeFd1, P1)
                              /\ sfd2 = Shut(fds, pipeFd0, P0, pipeFd1, P1)
        OBVIOUS
    <2>3. /\ Listed(m0, m1, sfd2)
          /\ \A f \in Fds : sfd2[f] = fds[f] \/ sfd2[f] = Closed
          /\ \A k \in DOMAIN pipeFd0 \ P0 :
                sfd2[pipeFd0[k]] = fds[pipeFd0[k]] /\ \E n \in DOMAIN m0 : m0[n] = pipeFd0[k]
          /\ Len(m0) = Len(m1) =>
                /\ Len(pipeFd0) = Len(pipeFd1)
                /\ Paired(pipeFd0, pipeFd1, fds) => Paired(m0, m1, sfd2)
      <3>1. Listed(pipeFd0, pipeFd1, fds)
          BY <1>5
      <3> QED BY <2>1, <2>2, <3>1, CloseEnds
    <2>4. pipeFd0' = m0 /\ pipeFd1' = m1 /\ fds' = sfd2
        BY <1>3, <2>2
    <2> QED BY <2>3, <2>4
  <1>10. /\ fdTable'[u] = [i \in DOMAIN fdTable[u] |-> STDIN]
         /\ \A w \in Users : w # u => fdTable'[w] = fdTable[w]
         /\ fdTable' \in [Users -> Seq(Slot)] /\ Len(fdTable'[u]) = Len(fdTable[u])
         /\ Range(fdTable'[u]) \subseteq {STDIN}
    <2>1. PICK n \in Nat : n = Len(fdTable[u]) /\ DOMAIN fdTable[u] = 1 .. n
        BY <1>6, LenProperties
    <2>2. fdTable'[u] = [i \in 1 .. n |-> STDIN] /\ \A w \in Users : w # u => fdTable'[w] = fdTable[w]
        BY <1>1, <1>3, <2>1 DEF TypeOK
    <2>3. PICK t2 : t2 = [i \in 1 .. n |-> STDIN]
        OBVIOUS
    <2>4. t2 \in Seq(Slot) /\ Len(t2) = n /\ Range(t2) \subseteq {STDIN}
        BY <2>3 DEF Slot, Range
    <2>5. fdTable' \in [Users -> Seq(Slot)]
        BY <1>1, <1>3, <2>1, <2>3, <2>4 DEF TypeOK, Slot
    <2> QED BY <2>1, <2>2, <2>3, <2>4, <2>5
  <1>11. \A w, x \in Users, i \in Nat : K(w, x, i) # STDIN =>
            w # u /\ (i = 0 => x # u) /\ K(w, x, i) = I(w, x, i)
    <2> SUFFICES ASSUME NEW w \in Users, NEW x \in Users, NEW i \in Nat, K(w, x, i) # STDIN
                 PROVE  w # u /\ (i = 0 => x # u) /\ K(w, x, i) = I(w, x, i)
        OBVIOUS
    <2>1. CASE i = 0
      <3>1. K(w, x, i) = userPipeIn'[<<x, w>>]
          BY <2>1 DEF In
      <3>2. userPipeIn'[<<x, w>>] = IF u = x \/ u = w THEN STDIN ELSE userPipeIn[<<x, w>>]
          BY <1>3
      <3> QED BY <1>6, <2>1, <3>1, <3>2
    <2>2. CASE i # 0
      <3>1. K(w, x, i) = Entry(fdTable'[w], i)
          BY <2>2 DEF In
      <3>2. w # u
        <4>1. SUFFICES ASSUME w = u PROVE FALSE
            OBVIOUS
        <4>2. Entry(fdTable'[u], i) \in Range(fdTable'[u])
            BY <1>10, <2>2, <3>1, <4>1, EntryIs
        <4> QED BY <1>10, <3>1, <4>1, <4>2
      <3>3. I(w, x, i) = Entry(fdTable[w], i) /\ fdTable'[w] = fdTable[w]
          BY <1>6, <1>10, <2>2, <3>2
      <3> QED BY <2>2, <3>1, <3>2, <3>3
    <2> QED BY <2>1, <2>2
  <1> HIDE DEF K
  <1>12. \A w, x \in Users, i \in Nat : K(w, x, i) # STDIN =>
            /\ fds'[K(w, x, i)] = fds[K(w, x, i)]
            /\ \E n \in DOMAIN pipeFd0' : pipeFd0'[n] = K(w, x, i)
    <2> SUFFICES ASSUME NEW w \in Users, NEW x \in Users, NEW i \in Nat, K(w, x, i) # STDIN
                 PROVE  /\ fds'[K(w, x, i)] = fds[K(w, x, i)]
                        /\ \E n \in DOMAIN pipeFd0' : pipeFd0'[n] = K(w, x, i)
        OBVIOUS
    <2>1. w # u /\ (i = 0 => x # u) /\ K(w, x, i) = I(w, x, i) /\ I(w, x, i) # STDIN
        BY <1>11
    <2>2. PICK k \in DOMAIN pipeFd0 : pipeFd0[k] = I(w, x, i)
        BY <1>5, <2>1
    <2>3. k \notin P0
      <3>1. SUFFICES ASSUME k \in P0 PROVE FALSE
          OBVIOUS
      <3>2. PICK z \in Users, q \in Users, j \in Nat : (z = u \/ (q = u /\ j = 0)) /\ pipeFd0[k] = I(z, q, j)
          BY <1>8, <3>1
      <3>3. I(w, x, i) = I(z, q, j)
          BY <2>2, <3>2
      <3>4. w = z /\ i = j /\ (i = 0 => x = q)
          BY <1>5, <2>1, <3>3
      <3> QED BY <2>1, <3>2, <3>4
    <2> QED BY <1>9, <2>1, <2>2, <2>3
  <1>13. Inputs(fdTable', userPipeIn', pipeFd0')
    <2>1. ASSUME NEW w \in Users, NEW x \in Users, NEW y \in Users, NEW z \in Users,
                 NEW i \in Nat, NEW j \in Nat, K(w, x, i) = K(y, z, j), K(w, x, i) # STDIN
          PROVE  w = y /\ i = j /\ (i = 0 => x = z)
      <3>1. K(w, x, i) = I(w, x, i) /\ K(y, z, j) = I(y, z, j)
          BY <1>11, <2>1
      <3>2. I(w, x, i) = I(y, z, j) /\ I(w, x, i) # STDIN
          BY <2>1, <3>1
      <3> QED BY <1>5, <3>2
    <2> QED BY <1>12, <2>1 DEF Inputs, K
  <1>14. ASSUME Routed(fdTable, userPipeIn, fds, out, target, sess, pos)
         PROVE  Routed(fdTable', userPipeIn', fds', out, target, sess', pos)
    <2>1. \A w, x \in Users, i \in Nat : I(w, x, i) # STDIN =>
             \A c \in Cmds : out[c] = fds[I(w, x, i)][2] => Leads(target[c], sess, pos, w, i)
        BY <1>14 DEF Routed, I
    <2>2. ASSUME NEW w \in Users, NEW x \in Users, NEW i \in Nat, K(w, x, i) # STDIN,
                 NEW c \in Cmds, out[c] = fds'[K(w, x, i)][2]
          PROVE  Leads(target[c], sess', pos, w, i)
      <3>1. w # u /\ K(w, x, i) = I(w, x, i) /\ fds'[K(w, x, i)] = fds[K(w, x, i)]
          BY <1>11, <1>12, <2>2
      <3>2. Leads(target[c], sess, pos, w, i)
          BY <2>1, <2>2, <3>1
      <3>3. sess'[w] = sess[w]
          BY <1>1, <1>4, <3>1 DEF TypeOK
      <3> QED BY <3>2, <3>3 DEF Leads
    <2> QED BY <2>2 DEF Routed, K
  <1>15. Fits(fdTable, userPipeIn, pipeFd0, pipeFd1, fds)' /\ DeliveredWhileAligned'
    <2>1. Released(fds) => Released(fds)'
        BY <1>4, <1>9 DEF Released
    <2>2. DeliveredWhileAligned'
        BY <1>1, <1>4, <1>9 DEF DeliveredWhileAligned, Aligned, Delivered, PipedTo
    <2> QED BY <1>1, <1>4, <1>9, <1>13, <1>14, <2>1, <2>2 DEF Fits
  <1>16. TypeOK'
    <2>1. fdTable' \in [Users -> Seq(Fds \cup {STDIN})]
        BY <1>10 DEF Slot
    <2>2. pipeFd0' \in Seq(Fds) /\ pipeFd1' \in Seq(Fds) /\ fds' \in [Fds -> Ends \cup {Closed}]
        BY <1>9 DEF Listed
    <2>3. /\ userPipeIn' \in [Users \X Users -> Fds \cup {STDIN}]
          /\ userPipeOut' \in [Users \X Users -> Fds \cup {STDIN}]
        BY <1>1, <1>3 DEF TypeOK
    <2>4. sess' \in [Users -> 0 .. MaxSessions]
        BY <1>1, <1>4, RwgPipesAssumption DEF TypeOK
    <2> QED BY <1>1, <1>4, <2>1, <2>2, <2>3, <2>4 DEF TypeOK
  <1>17. LongTables' /\ HeldOwn' /\ HeldReal'
      BY <1>1, <1>4, <1>10 DEF LongTables, HeldOwn, HeldReal
  <1>18. Old'
      BY <1>1, <1>4, <1>9 DEF Old
  <1>19. Matrices'
      BY <1>1, <1>3 DEF Matrices
  <1>20. NothingInherited'
    <2>1. ASSUME NEW w \in Users, sess'[w] = 0
          PROVE  Range(fdTable'[w]) \subseteq {STDIN}
        BY <1>1, <1>4, <1>10, <2>1 DEF NothingInherited, Online, TypeOK
    <2>2. ASSUME NEW w \in Users, sess'[w] = 0, NEW e \in Users \X Users, w \in {e[1], e[2]}
          PROVE  userPipeIn'[e] = STDIN /\ userPipeOut'[e] = STDIN
      <3>1. CASE u \in {e[1], e[2]}
          BY <1>3, <3>1
      <3>2. CASE u \notin {e[1], e[2]}
        <4>1. w # u /\ sess[w] = 0
            BY <1>1, <1>4, <2>2, <3>2 DEF TypeOK
        <4>2. userPipeIn[e] = STDIN /\ userPipeOut[e] = STDIN
            BY <1>1, <2>2, <4>1 DEF NothingInherited, Online
        <4> QED BY <1>3, <3>2, <4>2
      <3> QED BY <3>1, <3>2
    <2> QED BY <2>1, <2>2 DEF NothingInherited, Online
  <1> QED BY <1>15, <1>16, <1>17, <1>18, <1>19, <1>20 DEF IInv

\* At the start nothing waits and nothing is open.
LEMMA InitOK ==
    ASSUME Init
    PROVE  IInv
  <1>1. /\ mode = "select" /\ user = Nobody /\ fg = 0
        /\ sess = [u \in Users |-> 0] /\ sessions = 0
        /\ fdTable = [u \in Users |-> [i \in 1 .. InitLen |-> STDIN]]
        /\ pipeFd0 = <<>> /\ pipeFd1 = <<>>
        /\ userPipeIn = [e \in Users \X Users |-> STDIN]
        /\ userPipeOut = [e \in Users \X Users |-> STDIN]
        /\ fds = [f \in Fds |-> Closed] /\ cmds = 1
        /\ st = [c \in Cmds |-> "unborn"]
        /\ inp = [c \in Cmds |-> NoPipe] /\ out = [c \in Cmds |-> NoPipe]
        /\ held = [c \in Cmds |-> {}] /\ pos = [u \in Users |-> 1]
        /\ place = [c \in Cmds |-> Nowhere] /\ target = [c \in Cmds |-> Nowhere]
      BY DEF Init
  <1>2. PICK t : t = [i \in 1 .. InitLen |-> STDIN]
      OBVIOUS
  <1>3. t \in Seq(Slot) /\ Len(t) = InitLen /\ Range(t) \subseteq {STDIN}
      BY <1>2, RwgPipesAssumption DEF Slot, Range
  <1>4. fdTable = [u \in Users |-> t]
      BY <1>1, <1>2
  <1>5. TypeOK
    <2>1. 1 \in 1 .. (MaxCmds + 1) /\ 0 \in 0 .. MaxSessions /\ Nowhere \in Places
        BY RwgPipesAssumption DEF Nowhere, Places
    <2>2. fdTable \in [Users -> Seq(Fds \cup {STDIN})]
        BY <1>3, <1>4 DEF Slot
    <2>3. pipeFd0 \in Seq(Fds) /\ pipeFd1 \in Seq(Fds)
        BY <1>1
    <2>4. /\ mode \in {"select", "line", "wait"} /\ user \in Users \cup {Nobody} /\ fg \in Cmds \cup {0}
          /\ sess \in [Users -> 0 .. MaxSessions] /\ sessions \in 0 .. MaxSessions
          /\ userPipeIn \in [Users \X Users -> Fds \cup {STDIN}]
          /\ userPipeOut \in [Users \X Users -> Fds \cup {STDIN}]
          /\ fds \in [Fds -> Ends \cup {Closed}]
        BY <1>1, <2>1
    <2>5. /\ cmds \in 1 .. (MaxCmds + 1) /\ st \in [Cmds -> {"unborn", "running", "gone"}]
          /\ inp \in [Cmds -> Cmds \cup {NoPipe}] /\ out \in [Cmds -> Cmds \cup {NoPipe}]
          /\ held \in [Cmds -> SUBSET Ends] /\ pos \in [Users -> Nat]
          /\ place \in [Cmds -> Places] /\ target \in [Cmds -> Places]
        BY <1>1, <2>1
    <2> QED BY <2>2, <2>3, <2>4, <2>5 DEF TypeOK
  <1>6. LongTables
      BY <1>1, <1>3, <1>4, RwgPipesAssumption DEF LongTables
  <1>7. Old /\ HeldOwn /\ HeldReal /\ Matrices
      BY <1>1 DEF Old, HeldOwn, HeldReal, Matrices, NoPipe
  <1>8. NothingInherited
      BY <1>1, <1>3, <1>4 DEF NothingInherited
  <1>9. DeliveredWhileAligned
      BY <1>1 DEF DeliveredWhileAligned, Delivered
  <1>10. Listed(pipeFd0, pipeFd1, fds)
    <2>1. /\ DOMAIN pipeFd0 = {} /\ DOMAIN pipeFd1 = {} /\ pipeFd0 = pipeFd1
          /\ pipeFd0 \in Seq(Fds) /\ pipeFd1 \in Seq(Fds) /\ Len(pipeFd0) = 0 /\ Len(pipeFd1) = 0
        BY <1>1
    <2>2. \A f \in Fds : fds[f] = Closed /\ fds[f][1] # "r" /\ fds[f][1] # "w"
        BY <1>1 DEF Closed
    <2>3. fds \in [Fds -> Ends \cup {Closed}]
        BY <1>1
    <2> QED BY <2>1, <2>2, <2>3 DEF Listed
  <1>11. \A w, x \in Users, i \in Nat : In(fdTable, userPipeIn, w, x, i) = STDIN
    <2> SUFFICES ASSUME NEW w \in Users, NEW x \in Users, NEW i \in Nat
                 PROVE  In(fdTable, userPipeIn, w, x, i) = STDIN
        OBVIOUS
    <2>1. CASE i = 0
        BY <1>1, <2>1 DEF In
    <2>2. CASE i # 0
      <3>1. fdTable[w] = t /\ In(fdTable, userPipeIn, w, x, i) = Entry(t, i)
          BY <1>4, <2>2 DEF In
      <3>2. Entry(t, i) # STDIN => Entry(t, i) \in Range(t)
          BY <1>3, <2>2, EntryIs
      <3> QED BY <1>3, <3>1, <3>2
    <2> QED BY <2>1, <2>2
  <1>12. Inputs(fdTable, userPipeIn, pipeFd0) /\ Routed(fdTable, userPipeIn, fds, out, target, sess, pos)
      BY <1>11 DEF Inputs, Routed
  <1>13. Paired(pipeFd0, pipeFd1, fds) /\ Released(fds)
      BY <1>1 DEF Paired, Released
  <1>14. Fits(fdTable, userPipeIn, pipeFd0, pipeFd1, fds)
      BY <1>10, <1>12, <1>13 DEF Fits
  <1> QED BY <1>5, <1>6, <1>7, <1>8, <1>9, <1>14 DEF IInv

\* Stuttering.
LEMMA StutterKeeps ==
    ASSUME IInv, UNCHANGED vars
    PROVE  IInv'
  <1>1. /\ mode' = mode /\ user' = user /\ fg' = fg /\ sess' = sess /\ sessions' = sessions
        /\ fdTable' = fdTable /\ pipeFd0' = pipeFd0 /\ pipeFd1' = pipeFd1
        /\ userPipeIn' = userPipeIn /\ userPipeOut' = userPipeOut /\ fds' = fds /\ cmds' = cmds
        /\ inp' = inp /\ out' = out /\ place' = place /\ target' = target /\ pos' = pos
        /\ st' = st /\ held' = held
      BY DEF vars
  <1>2. TypeOK' /\ LongTables' /\ Old' /\ HeldOwn' /\ HeldReal' /\ Matrices'
      BY <1>1 DEF IInv, TypeOK, LongTables, Old, HeldOwn, HeldReal, Matrices
  <1>3. NothingInherited' /\ DeliveredWhileAligned'
      BY <1>1 DEF IInv, NothingInherited, Online, DeliveredWhileAligned, Aligned, Delivered, PipedTo
  <1>4. Fits(fdTable, userPipeIn, pipeFd0, pipeFd1, fds)'
      BY <1>1 DEF IInv, Fits, Released
  <1> QED BY <1>2, <1>3, <1>4 DEF IInv

\* IInv is inductive.
LEMMA NextKeeps ==
    ASSUME IInv, [Next]_vars
    PROVE  IInv'
  <1>1. CASE Login
      BY <1>1, LoginKeeps
  <1>2. CASE WaitDone
      BY <1>2, WaitDoneKeeps
  <1>3. ASSUME NEW u \in Users, Logout(u) PROVE IInv'
      BY <1>3, LogoutKeeps
  <1>4. ASSUME NEW u \in Users, BuiltIn(u) PROVE IInv'
      BY <1>4, RefusedKeeps DEF BuiltIn
  <1>5. ASSUME NEW u \in Users, NEW from \in Users \cup {Nobody}, NEW ends \in BOOLEAN,
               Refused(u, from, ends)
        PROVE  IInv'
      BY <1>5, RefusedKeeps
  <1>6. ASSUME NEW u \in Users, NEW from \in Users \cup {Nobody}, RunLast(u, from) PROVE IInv'
      BY <1>6, RunLastKeeps
  <1>7. ASSUME NEW u \in Users, NEW from \in Users \cup {Nobody}, NEW v \in Users,
               PipeToUser(u, from, v)
        PROVE  IInv'
      BY <1>7, PipeToUserKeeps
  <1>8. ASSUME NEW u \in Users, NEW from \in Users \cup {Nobody}, NEW off \in Offsets,
               NEW ends \in BOOLEAN, PipeToNew(u, from, off, ends)
        PROVE  IInv'
      BY <1>8, PipeToNewKeeps
  <1>9. ASSUME NEW u \in Users, NEW from \in Users \cup {Nobody}, NEW off \in Offsets,
               NEW ends \in BOOLEAN, PipeToOld(u, from, off, ends)
        PROVE  IInv'
      BY <1>9, PipeToOldKeeps
  <1>10. ASSUME NEW c \in Cmds, CommandEnds(c) PROVE IInv'
      BY <1>10, CommandEndsKeeps
  <1>11. CASE UNCHANGED vars
      BY <1>11, StutterKeeps
  <1> QED BY <1>1, <1>2, <1>3, <1>4, <1>5, <1>6, <1>7, <1>8, <1>9, <1>10, <1>11 DEF Next

\* What the code keeps true of its tables, matrices, deques and descriptors, in
\* every reachable state, for every number of users, descriptors and commands.
THEOREM PipesInvariance == Spec => []IInv
  <1>1. Init => IInv
      BY InitOK
  <1>2. IInv /\ [Next]_vars => IInv'
      BY NextKeeps
  <1> QED BY <1>1, <1>2, PTL DEF Spec

\* Every variable has its type.
THEOREM TypeCorrect == Spec => []TypeOK
  <1>1. IInv => TypeOK
      BY DEF IInv
  <1> QED BY <1>1, PipesInvariance, PTL

\* Whoever logs in finds no pipe of the slot's former users.
THEOREM InheritedCorrect == Spec => []NothingInherited
  <1>1. IInv => NothingInherited
      BY DEF IInv
  <1> QED BY <1>1, PipesInvariance, PTL

\* Until somebody leaves with a numbered pipe pending, output reaches the
\* command it was piped to and no other, of the same user or of another.
THEOREM DeliveredCorrect == Spec => []DeliveredWhileAligned
  <1>1. IInv => DeliveredWhileAligned
      BY DEF IInv
  <1> QED BY <1>1, PipesInvariance, PTL

\* Until then, the server and other users' commands hold no end of a pipe that
\* a running command reads.
THEOREM LetsGoCorrect == Spec => []ServerLetsGo
  <1>1. ASSUME IInv PROVE ServerLetsGo
    <2> SUFFICES ASSUME Aligned, NEW d \in Cmds, inp[d] # NoPipe
                 PROVE  /\ \A f \in Fds : fds[f] # Closed => fds[f][2] # inp[d]
                        /\ \A c \in Cmds : <<"w", inp[d]>> \in held[c] => PipedTo(c, d)
        BY DEF ServerLetsGo
    <2>1. Released(fds) /\ Delivered /\ HeldOwn
        BY <1>1 DEF IInv, Fits, Aligned, DeliveredWhileAligned
    <2>2. \A f \in Fds : fds[f] # Closed => fds[f][2] # inp[d]
        BY <2>1 DEF Released
    <2>3. ASSUME NEW c \in Cmds, <<"w", inp[d]>> \in held[c] PROVE PipedTo(c, d)
      <3>1. <<"w", inp[d]>> \in {<<"r", inp[c]>>, <<"w", out[c]>>}
          BY <2>1, <2>3 DEF HeldOwn
      <3>2. out[c] = inp[d]
          BY <3>1
      <3> QED BY <2>1, <3>2 DEF Delivered
    <2> QED BY <2>2, <2>3
  <1> QED BY <1>1, PipesInvariance, PTL

\* As many values as arguments.
LEMMA OneToOne ==
    ASSUME NEW S, IsFiniteSet(S), NEW T, NEW f \in [S -> T],
           \A x, y \in S : f[x] = f[y] => x = y, \A y \in T : \E x \in S : f[x] = y
    PROVE  IsFiniteSet(T) /\ Cardinality(T) = Cardinality(S)
  <1>1. f \in Bijection(S, T)
      BY Fun_IsBij
  <1> QED BY <1>1, Fun_ExistsBij, FS_Bijection

\* Every input that waits is found on the deque, open for reading, and no
\* descriptor is the input of two entries, whoever has left.
THEOREM LookupsCorrect == Spec => []LookupsFind
  <1>1. ASSUME IInv PROVE LookupsFind
    <2> DEFINE entries == {e \in Users \X (1 .. (InitLen + PipeNumMax)) :
                             e[2] <= Len(fdTable[e[1]]) /\ fdTable[e[1]][e[2]] # STDIN}
               sent    == {e \in Users \X Users : userPipeIn[e] # STDIN}
               A       == {fdTable[e[1]][e[2]] : e \in entries}
               B       == {userPipeIn[e] : e \in sent}
               I(w, x, i) == In(fdTable, userPipeIn, w, x, i)
    <2>1. /\ Listed(pipeFd0, pipeFd1, fds)
          /\ \A w, x \in Users, i \in Nat : I(w, x, i) # STDIN => \E n \in DOMAIN pipeFd0 : pipeFd0[n] = I(w, x, i)
          /\ \A w, x, z, q \in Users, i, j \in Nat :
                I(w, x, i) = I(z, q, j) /\ I(w, x, i) # STDIN => w = z /\ i = j /\ (i = 0 => x = q)
          /\ Aligned => Paired(pipeFd0, pipeFd1, fds)
        BY <1>1 DEF IInv, Fits, Inputs, Aligned
    <2>2. /\ \A w \in Users, i \in Nat \ {0} : i <= Len(fdTable[w]) => I(w, w, i) = fdTable[w][i]
          /\ \A w, x \in Users : I(w, x, 0) = userPipeIn[<<x, w>>]
        BY DEF In, Entry
    <2> HIDE DEF I
    <2>3. ASSUME NEW e \in entries
          PROVE  /\ e[1] \in Users /\ e[2] \in Nat \ {0}
                 /\ fdTable[e[1]][e[2]] = I(e[1], e[1], e[2]) /\ I(e[1], e[1], e[2]) # STDIN
                 /\ e = <<e[1], e[2]>>
      <3>1. e[1] \in Users /\ e[2] \in 1 .. (InitLen + PipeNumMax) /\ e = <<e[1], e[2]>>
          OBVIOUS
      <3>2. e[2] \in Nat \ {0}
          BY <3>1, RwgPipesAssumption
      <3> QED BY <2>2, <3>1, <3>2
    <2>4. ASSUME NEW e \in sent
          PROVE  /\ e[1] \in Users /\ e[2] \in Users /\ e = <<e[1], e[2]>>
                 /\ userPipeIn[e] = I(e[2], e[1], 0) /\ I(e[2], e[1], 0) # STDIN
      <3>1. e[1] \in Users /\ e[2] \in Users /\ e = <<e[1], e[2]>> /\ userPipeIn[e] # STDIN
          OBVIOUS
      <3> QED BY <2>2, <3>1
    <2>5. IsFiniteSet(entries) /\ IsFiniteSet(sent)
      <3>1. IsFiniteSet(Users) /\ IsFiniteSet(1 .. (InitLen + PipeNumMax))
          BY FS_Interval, RwgPipesAssumption DEF Users
      <3>2. IsFiniteSet(Users \X (1 .. (InitLen + PipeNumMax))) /\ IsFiniteSet(Users \X Users)
          BY <3>1, FS_Product
      <3>3. entries \in SUBSET (Users \X (1 .. (InitLen + PipeNumMax))) /\ sent \in SUBSET (Users \X Users)
          OBVIOUS
      <3> HIDE DEF entries, sent
      <3> QED BY <3>2, <3>3, FS_Subset
    <2> HIDE DEF entries, sent
    <2>6. IsFiniteSet(A) /\ Cardinality(A) = Cardinality(entries)
      <3> DEFINE f == [e \in entries |-> fdTable[e[1]][e[2]]]
      <3>1. f \in [entries -> A] /\ \A y \in A : \E x \in entries : f[x] = y
          OBVIOUS
      <3>2. ASSUME NEW d \in entries, NEW e \in entries, f[d] = f[e] PROVE d = e
        <4>1. I(d[1], d[1], d[2]) = I(e[1], e[1], e[2]) /\ I(d[1], d[1], d[2]) # STDIN
            BY <2>3, <3>2
        <4>2. d[1] = e[1] /\ d[2] = e[2]
            BY <2>1, <2>3, <4>1
        <4>3. d = <<d[1], d[2]>> /\ e = <<e[1], e[2]>>
            BY <2>3
        <4> QED BY <4>2, <4>3
      <3> HIDE DEF f, A
      <3> QED BY <2>5, <3>1, <3>2, OneToOne
    <2>7. IsFiniteSet(B) /\ Cardinality(B) = Cardinality(sent)
      <3> DEFINE f == [e \in sent |-> userPipeIn[e]]
      <3>1. f \in [sent -> B] /\ \A y \in B : \E x \in sent : f[x] = y
          OBVIOUS
      <3>2. ASSUME NEW d \in sent, NEW e \in sent, f[d] = f[e] PROVE d = e
        <4>1. I(d[2], d[1], 0) = I(e[2], e[1], 0) /\ I(d[2], d[1], 0) # STDIN
            BY <2>4, <3>2
        <4>2. d[1] = e[1] /\ d[2] = e[2]
            BY <2>1, <2>4, <4>1
        <4>3. d = <<d[1], d[2]>> /\ e = <<e[1], e[2]>>
            BY <2>4
        <4> QED BY <4>2, <4>3
      <3> HIDE DEF f, B
      <3> QED BY <2>5, <3>1, <3>2, OneToOne
    <2>8. A \cap B = {}
      <3>1. SUFFICES ASSUME NEW y \in A, y \in B PROVE FALSE
          OBVIOUS
      <3>2. PICK d \in entries : y = fdTable[d[1]][d[2]]
          OBVIOUS
      <3>3. PICK e \in sent : y = userPipeIn[e]
          BY <3>1
      <3>4. I(d[1], d[1], d[2]) = I(e[2], e[1], 0) /\ I(d[1], d[1], d[2]) # STDIN
        <4>1. y = I(d[1], d[1], d[2]) /\ I(d[1], d[1], d[2]) # STDIN
            BY <2>3, <3>2
        <4>2. y = I(e[2], e[1], 0)
            BY <2>4, <3>3
        <4> QED BY <4>1, <4>2
      <3>5. d[2] = 0
          BY <2>1, <2>3, <2>4, <3>4
      <3> QED BY <2>3, <3>5
    <2>9. \A y \in A \cup B : \E n \in DOMAIN pipeFd0 : pipeFd0[n] = y
      <3> TAKE y \in A \cup B
      <3>1. CASE y \in A
        <4>1. PICK e \in entries : y = fdTable[e[1]][e[2]]
            BY <3>1
        <4>2. e[1] \in Users /\ e[2] \in Nat /\ y = I(e[1], e[1], e[2]) /\ I(e[1], e[1], e[2]) # STDIN
            BY <2>3, <4>1
        <4> QED BY <2>1, <4>2
      <3>2. CASE y \in B
        <4>1. PICK e \in sent : y = userPipeIn[e]
            BY <3>2
        <4>2. e[1] \in Users /\ e[2] \in Users /\ y = I(e[2], e[1], 0) /\ I(e[2], e[1], 0) # STDIN
            BY <2>4, <4>1
        <4> QED BY <2>1, <4>2
      <3> QED BY <3>1, <3>2
    <2> HIDE DEF A, B
    <2>10. Cardinality(A \cup B) = Cardinality(entries) + Cardinality(sent)
      <3>1. Cardinality(A \cup B) = Cardinality(A) + Cardinality(B) - Cardinality(A \cap B)
          BY <2>6, <2>7, FS_Union
      <3>2. Cardinality(A) \in Nat /\ Cardinality(B) \in Nat /\ Cardinality(A \cap B) = 0
          BY <2>6, <2>7, <2>8, FS_CardinalityType, FS_EmptySet
      <3> QED BY <2>6, <2>7, <3>1, <3>2
    <2>11. A \cup B \subseteq Range(pipeFd0) /\ \A f \in A \cup B : fds[f][1] = "r"
        BY <2>1, <2>9 DEF Range, Listed
    <2>12. Len(pipeFd0) <= Len(pipeFd1)
        BY <2>1 DEF Listed
    <2>13. ASSUME Aligned, NEW i \in DOMAIN pipeFd0
           PROVE  /\ fds[pipeFd0[i]][1] = "r" /\ fds[pipeFd1[i]][1] = "w"
                  /\ fds[pipeFd0[i]][2] = fds[pipeFd1[i]][2]
      <3>1. DOMAIN pipeFd0 = DOMAIN pipeFd1
          BY <2>1, <2>13, LenProperties DEF Listed, Aligned
      <3> QED BY <2>1, <2>13, <3>1 DEF Listed, Paired
    <2> QED BY <2>10, <2>11, <2>12, <2>13 DEF LookupsFind, A, B, entries, sent
  <1> QED BY <1>1, PipesInvariance, PTL
=============================================================================
