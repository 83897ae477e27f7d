---------------------------- MODULE ServersProofs ----------------------------
(***************************************************************************)
(* Proofs about Servers: its types and limits, and what a request opens,   *)
(* for every number of connections, rows and hosts and for every order in  *)
(* which they are accepted and served.                                     *)
(*                                                                         *)
(* What is opened for a request (OpenedOK, from which OpenedAsAsked        *)
(* follows) is right because the table of the web server is, between two   *)
(* requests, what the last request that came with each row had there       *)
(* (TableOK), and because neither a connection's rows change after it was  *)
(* served nor a request without a form counts (FormsOK).                   *)
(***************************************************************************)
EXTENDS Servers, FiniteSetTheorems, SequenceTheorems, TLAPS

\* Who is queued or held has connected, once; a server that forks holds the
\* connection it forks or waits for, and no other.
PlacesOK ==
    /\ \A c \in Conns : c \in Range(queue) \cup mine => client[c] # "out"
    /\ Forking /\ at = <<"accept">> => mine = {}
    /\ \A c \in Conns : at \in {<<"fork", c>>, <<"wait", c>>} => Forking /\ mine = {c}

\* Only a form, or what came of one, has rows, only these programs get requests, and
\* only what was sent is served by them.
FormsOK ==
    /\ \A c \in Conns : /\ request[c] \notin {"form", "cut"} => form[c] = [r \in Rows |-> "absent"]
                        /\ prog \notin {"http", "web"} => request[c] = "none"
    /\ \A i \in DOMAIN served : prog \in {"http", "web"} => request[served[i]] # "none"

\* The web server's table has what the requests so far, as they came, chose last.
TableOK == prog = "web" => \A r \in Rows : Chosen(1, Len(served), r, table[r])

\* What was opened for a request is what it and those before it chose last; those
\* before it count in the web server only.
OpenedOK ==
    \A i \in DOMAIN served : request[served[i]] \in {"form", "cut"} =>
       \A r \in Rows : Chosen(IF prog = "web" THEN 1 ELSE i, i, r, opened[served[i]][r])

IInv == TypeOK /\ PlacesOK /\ FormsOK /\ TableOK /\ OpenedOK

-----------------------------------------------------------------------------
(* Sequences. *)

\* Range after the first element is taken.
LEMMA RangeTail ==
  ASSUME NEW S, NEW q \in Seq(S), q # <<>>, IsInjective(q)
  PROVE  /\ Tail(q) \in Seq(S) /\ Head(q) \in S /\ Head(q) \in Range(q)
         /\ IsInjective(Tail(q))
         /\ Range(Tail(q)) = Range(q) \ {Head(q)}
  <1>1. /\ Len(q) \in Nat \ {0} /\ DOMAIN q = 1 .. Len(q) /\ Head(q) = q[1]
        /\ Tail(q) \in Seq(S) /\ Len(Tail(q)) = Len(q) - 1
        /\ DOMAIN Tail(q) = 1 .. Len(q) - 1
        /\ \A i \in 1 .. Len(q) - 1 : Tail(q)[i] = q[i + 1]
      OBVIOUS
  <1>2. IsInjective(Tail(q))
      BY <1>1 DEF IsInjective
  <1>3. \A x : x \in Range(Tail(q)) => x \in Range(q) \ {Head(q)}
    <2> SUFFICES ASSUME NEW i \in 1 .. Len(q) - 1
                 PROVE  Tail(q)[i] \in Range(q) \ {Head(q)}
        BY <1>1 DEF Range
    <2>1. i + 1 \in DOMAIN q /\ 1 \in DOMAIN q /\ i + 1 # 1
        BY <1>1
    <2> QED
        BY <1>1, <2>1 DEF Range, IsInjective
  <1>4. \A x : x \in Range(q) \ {Head(q)} => x \in Range(Tail(q))
    <2> SUFFICES ASSUME NEW i \in 1 .. Len(q), q[i] # q[1]
                 PROVE  q[i] \in Range(Tail(q))
        BY <1>1 DEF Range
    <2>1. i - 1 \in DOMAIN Tail(q) /\ q[i] = Tail(q)[i - 1]
        BY <1>1
    <2> QED
        BY ONLY <2>1 DEF Range
  <1>5. 1 \in DOMAIN q /\ Head(q) = q[1]
      BY <1>1
  <1>6. Head(q) \in Range(q)
      BY <1>5 DEF Range
  <1>7. Head(q) \in S
      OBVIOUS
  <1>8. Range(Tail(q)) = Range(q) \ {Head(q)}
      BY <1>3, <1>4
  <1> QED
      BY <1>1, <1>2, <1>6, <1>7, <1>8

\* Appending something new.
LEMMA RangeAppend ==
  ASSUME NEW S, NEW q \in Seq(S), NEW x \in S, IsInjective(q), x \notin Range(q)
  PROVE  /\ Append(q, x) \in Seq(S) /\ IsInjective(Append(q, x))
         /\ Range(Append(q, x)) = Range(q) \cup {x}
         /\ Len(Append(q, x)) = Len(q) + 1 /\ Append(q, x)[Len(q) + 1] = x
         /\ \A i \in 1 .. Len(q) : Append(q, x)[i] = q[i]
         /\ DOMAIN q = 1 .. Len(q) /\ DOMAIN Append(q, x) = 1 .. Len(q) + 1
  <1>1. /\ Len(q) \in Nat /\ DOMAIN q = 1 .. Len(q) /\ Append(q, x) \in Seq(S)
        /\ DOMAIN Append(q, x) = 1 .. Len(q) + 1
        /\ Len(Append(q, x)) = Len(q) + 1 /\ Append(q, x)[Len(q) + 1] = x
        /\ \A i \in 1 .. Len(q) : Append(q, x)[i] = q[i]
      OBVIOUS
  <1>2. \A i \in 1 .. Len(q) : q[i] # x
      BY <1>1 DEF Range
  <1>3. IsInjective(Append(q, x))
      BY <1>1, <1>2 DEF IsInjective
  <1>4. \A y : y \in Range(Append(q, x)) <=> y \in Range(q) \cup {x}
    <2>1. ASSUME NEW i \in 1 .. Len(q) + 1 PROVE Append(q, x)[i] \in Range(q) \cup {x}
        BY <1>1 DEF Range
    <2>2. ASSUME NEW i \in 1 .. Len(q) PROVE q[i] \in Range(Append(q, x))
        BY <1>1 DEF Range
    <2>3. x \in Range(Append(q, x))
      <3>1. Len(q) + 1 \in 1 .. Len(q) + 1
          BY <1>1
      <3> QED
          BY <1>1, <3>1 DEF Range
    <2> QED
        BY <1>1, <2>1, <2>2, <2>3 DEF Range
  <1> QED
      BY <1>1, <1>3, <1>4

-----------------------------------------------------------------------------
(* Forms. *)

\* What the query string does to a table of rows.
LEMMA FilledTable ==
  ASSUME NEW t \in Tables, NEW f \in Received
  PROVE  Filled(t, f) \in Tables
  BY DEF Filled, Tables, Received

\* What a browser sends, and what comes of it, are rows.
LEMMA FormsReceived ==
  Forms \subseteq Received /\ Cuts \subseteq Received
  BY DEF Forms, Received, Cuts

\* Nothing was chosen by nobody.
LEMMA ChosenByNone ==
  ASSUME NEW r PROVE Chosen(1, 0, r, "")
  <1>1. 1 .. 0 = {}
      OBVIOUS
  <1> QED
      BY <1>1 DEF Chosen

\* What was chosen depends on the requests served and their forms.
LEMMA ChosenKept ==
  ASSUME NEW m, NEW n, NEW r, NEW h, Chosen(m, n, r, h),
         \A i \in m .. n : form'[served'[i]][r] = form[served[i]][r]
  PROVE  Chosen(m, n, r, h)'
  BY DEF Chosen

\* One more request is served: what it has for the row counts, if it has it.
LEMMA ChosenByNext ==
  ASSUME NEW n \in Nat, NEW m \in 1 .. n + 1, NEW c, NEW r, NEW h, NEW g,
         form' = form, Chosen(m, n, r, h),
         \A i \in 1 .. n : served'[i] = served[i],
         served'[n + 1] = c,
         g = IF form[c][r] = "absent" THEN h ELSE form[c][r]
  PROVE  Chosen(m, n + 1, r, g)'
  <1> DEFINE old == {j \in m .. n : form[served[j]][r] # "absent"}
             new == {j \in m .. n + 1 : form[served'[j]][r] # "absent"}
  <1>1. CASE form[c][r] = "absent"
    <2>1. new = old
        BY <1>1
    <2>2. \A j \in old : served'[j] = served[j]
        OBVIOUS
    <2> HIDE DEF old, new
    <2>3. IF new = {} THEN g = ""
          ELSE \E j \in new : g = form[served'[j]][r] /\ \A k \in new : k <= j
        BY <1>1, <2>1, <2>2 DEF Chosen, old
    <2> QED
        BY <2>3 DEF Chosen, new
  <1>2. CASE form[c][r] # "absent"
    <2>1. n + 1 \in new /\ \A k \in new : k <= n + 1
        BY <1>2
    <2> HIDE DEF old, new
    <2>2. IF new = {} THEN g = ""
          ELSE \E j \in new : g = form[served'[j]][r] /\ \A k \in new : k <= j
        BY <1>2, <2>1
    <2> QED
        BY <2>2 DEF Chosen, new
  <1> QED
      BY <1>1, <1>2

\* A request that has the row is the last that has it, up to itself.
LEMMA ChosenByItself ==
  ASSUME NEW i \in Nat, NEW m \in 1 .. i, NEW r, NEW h,
         Chosen(m, i, r, h), form[served[i]][r] # "absent"
  PROVE  h = form[served[i]][r]
  <1> DEFINE named == {j \in m .. i : form[served[j]][r] # "absent"}
  <1>1. i \in named
      OBVIOUS
  <1>2. PICK j \in named : h = form[served[j]][r] /\ \A k \in named : k <= j
      BY <1>1 DEF Chosen
  <1>3. j = i
      BY <1>1, <1>2
  <1> QED
      BY <1>2, <1>3

\* Before the first of the requests that count nothing was chosen.
LEMMA ChosenNotYet ==
  ASSUME NEW n \in Nat, NEW r PROVE Chosen(n + 1, n, r, "")
  <1>1. (n + 1) .. n = {}
      OBVIOUS
  <1> QED
      BY <1>1 DEF Chosen

-----------------------------------------------------------------------------
(* The invariant. *)

\* Initially nobody has connected and nothing was served.
LEMMA InitInv == Init => IInv
  <1> SUFFICES ASSUME Init PROVE IInv
      OBVIOUS
  <1> USE DEF Init
  <1>1. /\ <<>> \in Seq(Conns) /\ DOMAIN <<>> = {} /\ IsInjective(<<>>)
        /\ Range(<<>>) = {} /\ Len(<<>>) = 0
      BY DEF IsInjective, Range
  <1>2. Cardinality(mine) <= 1
      BY FS_EmptySet
  <1>3. TypeOK
    <2>1. Fresh \in Tables /\ [r \in Rows |-> "absent"] \in Received
        BY DEF Fresh, Tables, Received
    <2>2. form \in [Conns -> Received] /\ table \in Tables /\ opened \in [Conns -> Tables]
        BY <2>1
    <2>3. fails = 0 /\ MaxFails \in Nat
        BY ServersAssumption DEF ServersAssumption
    <2>4. fails \in 0 .. MaxFails
        BY ONLY <2>3
    <2> QED
        BY <1>1, <1>2, <2>2, <2>4 DEF TypeOK, Forking
  <1>4. PlacesOK
      BY <1>1 DEF PlacesOK
  <1>5. FormsOK
      BY <1>1 DEF FormsOK
  <1>6. TableOK
      BY <1>1, ChosenByNone DEF TableOK, Fresh
  <1>7. OpenedOK
      BY <1>1 DEF OpenedOK
  <1> QED
      BY <1>3, <1>4, <1>5, <1>6, <1>7 DEF IInv

\* Steps that serve nobody and change no form and no row: what was opened, and
\* what the table holds, stays right.
LEMMA RowsKept ==
  ASSUME IInv, UNCHANGED <<prog, request, form, rows, served>>
  PROVE  FormsOK' /\ TableOK' /\ OpenedOK'
  <1>1. FormsOK'
      BY DEF IInv, FormsOK
  <1>2. TableOK'
    <2> SUFFICES ASSUME prog = "web", NEW r \in Rows
                 PROVE  Chosen(1, Len(served), r, table[r])'
        BY DEF TableOK
    <2>1. Chosen(1, Len(served), r, table[r])
        BY DEF IInv, TableOK
    <2> QED
        BY <2>1 DEF Chosen, rows
  <1>3. OpenedOK'
    <2> SUFFICES ASSUME NEW i \in DOMAIN served, request[served[i]] \in {"form", "cut"}, NEW r \in Rows
                 PROVE  Chosen(IF prog = "web" THEN 1 ELSE i, i, r, opened[served[i]][r])'
        BY DEF OpenedOK
    <2>1. Chosen(IF prog = "web" THEN 1 ELSE i, i, r, opened[served[i]][r])
        BY DEF IInv, OpenedOK
    <2> QED
        BY <2>1 DEF Chosen, rows
  <1> QED
      BY <1>1, <1>2, <1>3

\* One connection is at most one.
LEMMA OneHeld == ASSUME NEW S, NEW x, S = {x} PROVE Cardinality(S) <= 1
  BY FS_Singleton

\* Connect: the connection is queued, and was nowhere before.
LEMMA ConnectInv == ASSUME IInv, NEW c \in Conns, Connect(c) PROVE IInv'
  <1> USE DEF Connect, procs, rows
  <1>1. c \notin Range(queue) \cup mine
      BY DEF IInv, PlacesOK
  <1>2. /\ queue' \in Seq(Conns) /\ IsInjective(queue')
        /\ Range(queue') = Range(queue) \cup {c}
      BY <1>1, RangeAppend DEF IInv, TypeOK
  <1>3. TypeOK'
      BY <1>1, <1>2 DEF IInv, TypeOK, Forking
  <1>4. PlacesOK'
      BY <1>2 DEF IInv, TypeOK, PlacesOK, Forking
  <1> QED
      BY <1>3, <1>4, RowsKept DEF IInv, rows

\* Leave: who has left has connected.
LEMMA LeaveInv == ASSUME IInv, NEW c \in Conns, Leave(c) PROVE IInv'
  <1> USE DEF Leave, procs, rows
  <1>1. TypeOK'
      BY DEF IInv, TypeOK, Forking
  <1>2. PlacesOK'
      BY DEF IInv, TypeOK, PlacesOK, Forking
  <1> QED
      BY <1>1, <1>2, RowsKept DEF IInv, rows

\* Accept: the first of the queue is the only connection a server that forks holds.
LEMMA AcceptInv == ASSUME IInv, Accept PROVE IInv'
  <1> USE DEF Accept, procs, rows, sent
  <1> DEFINE c == Head(queue)
  <1>1. /\ Tail(queue) \in Seq(Conns) /\ c \in Conns /\ c \in Range(queue)
        /\ IsInjective(Tail(queue)) /\ Range(Tail(queue)) = Range(queue) \ {c}
      BY RangeTail DEF IInv, TypeOK
  <1>2. Forking => mine' = {c}
      BY DEF IInv, PlacesOK
  <1>3. Forking => Cardinality(mine') <= 1
      BY <1>2, OneHeld
  <1>4. TypeOK'
      BY <1>1, <1>3 DEF IInv, TypeOK, Forking
  <1>5. PlacesOK'
      BY <1>1, <1>2 DEF IInv, TypeOK, PlacesOK, Forking
  <1> QED
      BY <1>4, <1>5, RowsKept DEF IInv, rows

\* The server closes its connection: it holds none.
LEMMA Closed ==
  ASSUME IInv, NEW c \in Conns, at \in {<<"fork", c>>, <<"wait", c>>}, Forking, Close(c)
  PROVE  mine' = {} /\ Cardinality(mine') <= 1
  <1>1. mine' = {}
      BY DEF IInv, PlacesOK, Close
  <1> QED
      BY <1>1, FS_EmptySet

\* Fork: np_simple keeps the connection to wait for its process, the others close it.
LEMMA ForkInv == ASSUME IInv, NEW c \in Conns, Forking, Fork(c) PROVE IInv'
  <1> USE DEF Fork, procs, rows, sent
  <1>1. mine = {c}
      BY DEF IInv, PlacesOK
  <1>2. CASE prog = "simple"
    <2>1. <<"wait", c>> \in {"fork", "wait"} \X Conns
        OBVIOUS
    <2>3. TypeOK'
        BY <1>1, <1>2, <2>1 DEF IInv, TypeOK, Forking
    <2>2. PlacesOK'
        BY <1>1, <1>2 DEF IInv, TypeOK, PlacesOK, Forking
    <2> QED
        BY <2>3, <2>2, RowsKept DEF IInv, rows
  <1>3. CASE prog # "simple"
    <2>1. mine' = {} /\ Cardinality(mine') <= 1 /\ at' = <<"accept">>
        BY <1>3, Closed
    <2>2. TypeOK'
        BY <1>1, <2>1 DEF IInv, TypeOK, Forking
    <2>3. PlacesOK'
        BY <1>1, <2>1 DEF IInv, TypeOK, PlacesOK, Forking
    <2> QED
        BY <2>2, <2>3, RowsKept DEF IInv, rows
  <1> QED
      BY <1>2, <1>3

\* ForkFails: the connection is closed or still the one to fork for.
LEMMA ForkFailsInv == ASSUME IInv, NEW c \in Conns, Forking, ForkFails(c) PROVE IInv'
  <1> USE DEF ForkFails, procs, rows, sent
  <1>1. fails' \in 0 .. MaxFails
    <2>1. /\ MaxFails \in Nat /\ fails \in 0 .. MaxFails
          /\ fails < MaxFails /\ fails' = fails + 1
        BY ServersAssumption DEF ServersAssumption, IInv, TypeOK
    <2> QED
        BY ONLY <2>1
  <1>2. CASE prog \in {"simple", "multi"}
    <2>1. TypeOK'
        BY <1>1, <1>2 DEF IInv, TypeOK, Forking
    <2>2. PlacesOK'
        BY <1>2 DEF IInv, TypeOK, PlacesOK, Forking
    <2> QED
        BY <2>1, <2>2, RowsKept DEF IInv, rows
  <1>3. CASE prog \notin {"simple", "multi"}
    <2>1. mine' = {} /\ Cardinality(mine') <= 1 /\ at' = <<"accept">>
        BY <1>3, Closed
    <2>2. TypeOK'
        BY <1>1, <1>3, <2>1 DEF IInv, TypeOK, Forking
    <2>3. PlacesOK'
        BY <2>1 DEF IInv, TypeOK, PlacesOK, Forking
    <2> QED
        BY <2>2, <2>3, RowsKept DEF IInv, rows
  <1> QED
      BY <1>2, <1>3

\* Wait: np_simple holds no connection when it accepts again.
LEMMA WaitInv == ASSUME IInv, NEW c \in Conns, Forking, Wait(c) PROVE IInv'
  <1> USE DEF Wait, rows, sent
  <1>1. mine' = {} /\ Cardinality(mine') <= 1 /\ at' = <<"accept">>
      BY Closed
  <1>2. TypeOK'
      BY <1>1 DEF IInv, TypeOK, Forking
  <1>3. PlacesOK'
      BY <1>1 DEF IInv, TypeOK, PlacesOK, Forking
  <1> QED
      BY <1>2, <1>3, RowsKept DEF IInv, rows

\* ChildHandler: reaping touches no connection.
LEMMA ChildHandlerInv == ASSUME IInv, ChildHandler PROVE IInv'
  <1> USE DEF ChildHandler, Reap, rows, sent
  <1>1. TypeOK'
      BY DEF IInv, TypeOK, Forking
  <1>2. PlacesOK'
      BY DEF IInv, TypeOK, PlacesOK, Forking
  <1> QED
      BY <1>1, <1>2, RowsKept DEF IInv, rows

\* Exit: what a process held is not the server's.
LEMMA ExitInv == ASSUME IInv, NEW c \in Conns, Exit(c) PROVE IInv'
  <1> USE DEF Exit, rows, sent
  <1>1. TypeOK'
      BY DEF IInv, TypeOK, Forking
  <1>2. PlacesOK'
      BY DEF IInv, TypeOK, PlacesOK, Forking
  <1> QED
      BY <1>1, <1>2, RowsKept DEF IInv, rows

\* StartWeb: the web server has gone, with its queue.
LEMMA StartWebInv == ASSUME IInv, NEW c \in Conns, StartWeb(c) PROVE IInv'
  <1> USE DEF StartWeb, rows, sent, procs
  <1>1. <<>> \in Seq(Conns) /\ IsInjective(<<>>) /\ Range(<<>>) = {}
      BY DEF IsInjective, Range
  <1>2. TypeOK'
      BY <1>1 DEF IInv, TypeOK, Forking
  <1>3. PlacesOK'
      BY <1>1 DEF IInv, TypeOK, PlacesOK, Forking
  <1> QED
      BY <1>2, <1>3, RowsKept DEF IInv, rows

\* EndWeb: one connection less, none that is queued.
LEMMA EndWebInv == ASSUME IInv, NEW c \in Conns, EndWeb(c) PROVE IInv'
  <1> USE DEF EndWeb, Close, rows, sent, procs
  <1>1. TypeOK'
      BY DEF IInv, TypeOK, Forking
  <1>2. PlacesOK'
      BY DEF IInv, TypeOK, PlacesOK, Forking
  <1> QED
      BY <1>1, <1>2, RowsKept DEF IInv, rows

\* What a client sends concerns no connection that was served.
LEMMA SendInv == ASSUME IInv, NEW c \in Conns, Send(c) PROVE IInv'
  <1> USE DEF Send, procs, rows
  <1>1. \A i \in DOMAIN served : /\ form'[served[i]] = form[served[i]]
                                /\ request'[served[i]] = request[served[i]]
      BY DEF IInv, TypeOK, FormsOK
  <1>2. served \in Seq(Conns) /\ Len(served) \in Nat /\ DOMAIN served = 1 .. Len(served)
      BY DEF IInv, TypeOK
  <1>3. TypeOK'
    <2>1. form' \in [Conns -> Received]
        BY FormsReceived DEF IInv, TypeOK
    <2>2. request' \in [Conns -> {"none", "start", "path", "panel", "form", "cut"}]
        BY DEF IInv, TypeOK
    <2> QED
        BY <2>1, <2>2 DEF IInv, TypeOK, Forking
  <1>4. PlacesOK'
      BY DEF IInv, TypeOK, PlacesOK, Forking
  <1>5. FormsOK'
    <2>1. \A i \in DOMAIN served' : request'[served'[i]] # "none"
        BY <1>1 DEF IInv, FormsOK
    <2>2. ASSUME NEW d \in Conns, request'[d] \notin {"form", "cut"} PROVE form'[d] = form[d]
        BY <2>2 DEF IInv, TypeOK
    <2>3. ASSUME NEW d \in Conns, request'[d] \notin {"form", "cut"} PROVE request[d] \notin {"form", "cut"}
        BY <2>3 DEF IInv, TypeOK
    <2> QED
        BY <2>1, <2>2, <2>3 DEF IInv, FormsOK
  <1>6. TableOK'
    <2> SUFFICES ASSUME prog = "web", NEW r \in Rows
                 PROVE  Chosen(1, Len(served), r, table[r])'
        BY DEF TableOK
    <2>1. Chosen(1, Len(served), r, table[r])
        BY DEF IInv, TableOK
    <2> QED
        BY <1>1, <1>2, <2>1, ChosenKept
  <1>7. OpenedOK'
    <2> SUFFICES ASSUME NEW i \in DOMAIN served, request[served[i]] \in {"form", "cut"}, NEW r \in Rows
                 PROVE  Chosen(IF prog = "web" THEN 1 ELSE i, i, r, opened[served[i]][r])'
        BY <1>1 DEF OpenedOK
    <2>1. Chosen(IF prog = "web" THEN 1 ELSE i, i, r, opened[served[i]][r])
        BY DEF IInv, OpenedOK
    <2>2. i \in 1 .. Len(served)
        BY <1>2
    <2>3. \A j \in (IF prog = "web" THEN 1 ELSE i) .. i :
             form'[served'[j]][r] = form[served[j]][r]
        BY <1>1, <1>2, <2>2
    <2> QED
        BY <2>1, <2>3, ChosenKept
  <1> QED
      BY <1>3, <1>4, <1>5, <1>6, <1>7 DEF IInv

\* A connection is served; what was opened for those before it stays right.
LEMMA ServeKept ==
  ASSUME IInv, NEW c \in Conns, Serves(c), UNCHANGED <<prog, request, form>>,
         \A d \in Conns : d # c => opened'[d] = opened[d],
         prog \in {"http", "web"} => request[c] # "none",
         request[c] \in {"form", "cut"} =>
            \A r \in Rows : Chosen(IF prog = "web" THEN 1 ELSE Len(served),
                                  Len(served), r, opened[c][r])'
  PROVE  /\ served' \in Seq(Conns) /\ IsInjective(served')
         /\ FormsOK' /\ OpenedOK'
  <1> DEFINE n == Len(served)
  <1>1. /\ served' \in Seq(Conns) /\ IsInjective(served')
        /\ Len(served') = n + 1 /\ served'[n + 1] = c
        /\ \A i \in 1 .. n : served'[i] = served[i]
        /\ DOMAIN served = 1 .. n /\ DOMAIN served' = 1 .. n + 1
      BY RangeAppend DEF IInv, TypeOK, Serves
  <1>2. n \in Nat /\ \A i \in 1 .. n : served[i] \in Conns /\ served[i] # c
    <2>1. served \in Seq(Conns) /\ c \notin Range(served)
        BY DEF IInv, TypeOK, Serves
    <2>2. \A i \in 1 .. n : served[i] \in Range(served)
        BY <1>1 DEF Range
    <2>3. Len(served) \in Nat /\ \A i \in 1 .. Len(served) : served[i] \in Conns
        BY <2>1
    <2> QED
        BY <2>1, <2>2, <2>3
  <1> HIDE DEF n
  <1>3. FormsOK'
      BY <1>1, <1>2 DEF IInv, FormsOK
  <1>4. OpenedOK'
    <2> SUFFICES ASSUME NEW i \in 1 .. n + 1, request[served'[i]] \in {"form", "cut"}, NEW r \in Rows
                 PROVE  Chosen(IF prog = "web" THEN 1 ELSE i, i, r, opened[served[i]][r])'
        BY <1>1 DEF OpenedOK
    <2>1. CASE i = n + 1
      <3>1. request[c] \in {"form", "cut"}
          BY <1>1, <2>1
      <3>2. Chosen(IF prog = "web" THEN 1 ELSE Len(served), Len(served), r, opened[c][r])'
          BY <3>1
      <3>3. Len(served') = i /\ served'[i] = c
          BY <1>1, <2>1
      <3> QED
          BY <3>2, <3>3 DEF Chosen
    <2>2. CASE i \in 1 .. n
      <3>1. Chosen(IF prog = "web" THEN 1 ELSE i, i, r, opened[served[i]][r])
          BY <1>1, <2>2 DEF IInv, OpenedOK
      <3>2. \A j \in (IF prog = "web" THEN 1 ELSE i) .. i :
               form'[served'[j]][r] = form[served[j]][r]
          BY <1>1, <1>2, <2>2
      <3>3. opened'[served'[i]] = opened[served[i]]
          BY <1>1, <1>2, <2>2
      <3> QED
          BY <3>1, <3>2, <3>3, ChosenKept
    <2> QED
        BY <1>2, <2>1, <2>2
  <1> QED
      BY <1>1, <1>3, <1>4

\* Start: the shells and the SOCKS handlers read no form.
LEMMA StartInv == ASSUME IInv, NEW c \in Conns, Start(c) PROVE IInv'
  <1> USE DEF Start, rows, sent, procs
  <1>1. request[c] = "none" /\ prog # "web"
      BY DEF IInv, FormsOK
  <1>2. /\ served' \in Seq(Conns) /\ IsInjective(served')
        /\ FormsOK' /\ OpenedOK'
      BY <1>1, ServeKept
  <1>3. TypeOK'
      BY <1>2 DEF IInv, TypeOK, Forking
  <1>4. PlacesOK'
      BY DEF IInv, TypeOK, PlacesOK, Forking
  <1>5. TableOK'
      BY <1>1 DEF TableOK
  <1> QED
      BY <1>2, <1>3, <1>4, <1>5 DEF IInv

\* The table or the rows opened for c after its request, in one row.
LEMMA FilledRow ==
  ASSUME NEW t \in Tables, NEW f \in Received, NEW r \in Rows
  PROVE  Filled(t, f)[r] = IF f[r] = "absent" THEN t[r] ELSE f[r]
  BY DEF Filled

\* http_server: every program starts with an empty np_server.
LEMMA ReadHttpInv == ASSUME IInv, NEW c \in Conns, ReadHttp(c) PROVE IInv'
  <1> USE DEF ReadHttp, rows, sent, procs
  <1>1. /\ form[c] \in Received /\ Fresh \in Tables /\ opened \in [Conns -> Tables]
        /\ Len(served) \in Nat
    <2>1. Fresh \in Tables
        BY DEF Fresh, Tables
    <2>2. /\ form \in [Conns -> Received] /\ opened \in [Conns -> Tables]
          /\ served \in Seq(Conns)
        BY DEF IInv, TypeOK
    <2> QED
        BY <2>1, <2>2
  <1>2. Filled(Fresh, form[c]) \in Tables
      BY <1>1, FilledTable
  <1>3. opened' \in [Conns -> Tables] /\ opened'[c] = Filled(Fresh, form[c])
      BY <1>1, <1>2
  <1>4. /\ Len(served') = Len(served) + 1 /\ served'[Len(served) + 1] = c
        /\ \A i \in 1 .. Len(served) : served'[i] = served[i]
      BY RangeAppend DEF IInv, TypeOK, Serves
  <1>5. ASSUME NEW r \in Rows PROVE Chosen(Len(served), Len(served), r, opened[c][r])'
    <2>1. Chosen(Len(served) + 1, Len(served), r, "")
        BY <1>1, ChosenNotYet
    <2>2. opened'[c][r] = IF form[c][r] = "absent" THEN "" ELSE form[c][r]
      <3>1. Filled(Fresh, form[c])[r] = IF form[c][r] = "absent" THEN Fresh[r] ELSE form[c][r]
          BY <1>1, FilledRow
      <3>2. Fresh[r] = ""
          BY DEF Fresh
      <3> QED
          BY <1>3, <3>1, <3>2
    <2>3. ASSUME NEW n \in Nat, NEW g, n = Len(served), g = opened'[c][r]
          PROVE  Chosen(n + 1, n + 1, r, g)'
      <3>1. Chosen(n + 1, n, r, "")
          BY <2>1, <2>3
      <3>2. \A i \in 1 .. n : served'[i] = served[i]
          BY <1>4, <2>3
      <3>3. served'[n + 1] = c /\ n + 1 \in 1 .. n + 1
          BY <1>4, <2>3
      <3>4. form' = form /\ g = IF form[c][r] = "absent" THEN "" ELSE form[c][r]
          BY <2>2, <2>3
      <3> QED
          BY ONLY <3>1, <3>2, <3>3, <3>4, ChosenByNext
    <2> QED
        BY <1>1, <1>4, <2>3
  <1>6. /\ served' \in Seq(Conns) /\ IsInjective(served')
        /\ FormsOK' /\ OpenedOK'
      BY <1>5, ServeKept
  <1>7. TypeOK'
      BY <1>3, <1>6 DEF IInv, TypeOK, Forking
  <1>8. PlacesOK'
      BY DEF IInv, TypeOK, PlacesOK, Forking
  <1> QED
      BY <1>6, <1>7, <1>8 DEF IInv, TableOK

\* The web server: the table that every request adds to.
LEMMA ReadWebInv == ASSUME IInv, NEW c \in Conns, ReadWeb(c) PROVE IInv'
  <1> USE DEF ReadWeb, rows, sent, procs
  <1>1. /\ form[c] \in Received /\ table \in Tables /\ opened \in [Conns -> Tables]
        /\ Len(served) \in Nat
    <2>1. /\ form \in [Conns -> Received] /\ opened \in [Conns -> Tables]
          /\ table \in Tables /\ served \in Seq(Conns)
        BY DEF IInv, TypeOK
    <2> QED
        BY <2>1
  <1>2. Filled(table, form[c]) \in Tables
      BY <1>1, FilledTable
  <1>3. /\ table' \in Tables /\ opened' \in [Conns -> Tables]
        /\ \A d \in Conns : d # c => opened'[d] = opened[d]
        /\ request[c] \in {"form", "cut"} => opened'[c] = table'
      BY <1>1, <1>2
  <1>4. /\ Len(served') = Len(served) + 1 /\ served'[Len(served) + 1] = c
        /\ \A i \in 1 .. Len(served) : served'[i] = served[i]
      BY RangeAppend DEF IInv, TypeOK, Serves
  <1>5. ASSUME NEW r \in Rows
        PROVE  table'[r] = IF form[c][r] = "absent" THEN table[r] ELSE form[c][r]
    <2>1. CASE request[c] \in {"form", "cut"}
        BY <1>1, <2>1, FilledRow
    <2>2. CASE request[c] \notin {"form", "cut"}
        BY <2>2 DEF IInv, FormsOK
    <2> QED
        BY <2>1, <2>2
  <1>6. ASSUME NEW r \in Rows PROVE Chosen(1, Len(served), r, table[r])'
    <2>1. Chosen(1, Len(served), r, table[r])
        BY DEF IInv, TableOK
    <2>2. ASSUME NEW n \in Nat, NEW h, NEW g, n = Len(served), h = table[r], g = table'[r]
          PROVE  Chosen(1, n + 1, r, g)'
      <3>1. Chosen(1, n, r, h)
          BY <2>1, <2>2
      <3>2. \A i \in 1 .. n : served'[i] = served[i]
          BY <1>4, <2>2
      <3>3. served'[n + 1] = c /\ 1 \in 1 .. n + 1
          BY <1>4, <2>2
      <3>4. form' = form /\ g = IF form[c][r] = "absent" THEN h ELSE form[c][r]
          BY <1>5, <2>2
      <3> QED
          BY ONLY <3>1, <3>2, <3>3, <3>4, ChosenByNext
    <2> QED
        BY <1>1, <1>4, <2>2
  <1>7. request[c] \in {"form", "cut"} =>
           \A r \in Rows : Chosen(IF prog = "web" THEN 1 ELSE Len(served), Len(served), r,
                                 opened[c][r])'
    <2> SUFFICES ASSUME request[c] \in {"form", "cut"}, NEW r \in Rows
                 PROVE  Chosen(IF prog = "web" THEN 1 ELSE Len(served), Len(served), r,
                               opened[c][r])'
        OBVIOUS
    <2>1. Chosen(1, Len(served), r, table[r])'
        BY <1>6
    <2>2. prog' = "web" /\ opened'[c][r] = table'[r]
        BY <1>3
    <2> QED
        BY <2>1, <2>2 DEF Chosen
  <1>8. /\ served' \in Seq(Conns) /\ IsInjective(served')
        /\ FormsOK' /\ OpenedOK'
      BY <1>3, <1>7, ServeKept
  <1>9. TypeOK'
      BY <1>3, <1>8 DEF IInv, TypeOK, Forking
  <1>10. PlacesOK'
      BY DEF IInv, TypeOK, PlacesOK, Forking
  <1>11. TableOK'
      BY <1>6 DEF TableOK
  <1> QED
      BY <1>8, <1>9, <1>10, <1>11 DEF IInv

-----------------------------------------------------------------------------
(* The theorems. *)

\* The inductive invariant.
THEOREM Invariance == Spec => []IInv
  <1>1. Init => IInv
      BY InitInv
  <1>2. IInv /\ [Next]_vars => IInv'
    <2> SUFFICES ASSUME IInv, [Next]_vars PROVE IInv'
        OBVIOUS
    <2>1. CASE UNCHANGED vars
      <3> USE <2>1 DEF vars, procs, sent, rows
      <3>1. TypeOK'
          BY DEF IInv, TypeOK, Forking
      <3>2. PlacesOK'
          BY DEF IInv, PlacesOK, Forking
      <3> QED
          BY <3>1, <3>2, RowsKept DEF IInv
    <2>2. CASE Accept
        BY <2>2, AcceptInv
    <2>3. CASE ChildHandler
        BY <2>3, ChildHandlerInv
    <2>4. ASSUME NEW c \in Conns, Fork(c) \/ Wait(c) \/ ForkFails(c) PROVE IInv'
      <3>1. Forking
          BY <2>4 DEF IInv, PlacesOK, Fork, Wait, ForkFails
      <3> QED
          BY <2>4, <3>1, ForkInv, WaitInv, ForkFailsInv
    <2>5. ASSUME NEW c \in Conns, ReadWeb(c) \/ StartWeb(c) \/ EndWeb(c) PROVE IInv'
        BY <2>5, ReadWebInv, StartWebInv, EndWebInv
    <2>6. ASSUME NEW c \in Conns, Connect(c) \/ Send(c) \/ Leave(c) PROVE IInv'
        BY <2>6, ConnectInv, SendInv, LeaveInv
    <2>7. ASSUME NEW c \in Conns, Start(c) \/ ReadHttp(c) \/ Exit(c) PROVE IInv'
        BY <2>7, StartInv, ReadHttpInv, ExitInv
    <2> QED
        BY <2>1, <2>2, <2>3, <2>4, <2>5, <2>6, <2>7 DEF Next, Server
  <1> QED
      BY <1>1, <1>2, PTL DEF Spec

\* Every variable keeps its type, and a server that forks holds no connection but
\* the one it is about to hand over (multi_server.cpp:83, http_server.cpp:89).
THEOREM TypeCorrect == Spec => []TypeOK
  <1>1. IInv => TypeOK
      BY DEF IInv
  <1> QED BY <1>1, Invariance, PTL

\* A form that comes whole and with all its rows has exactly those sessions started
\* that it asks for; a row that was left out or cut off is nothing to console.cgi,
\* and to the web server what the last request that came with it had there
\* (main.cpp:467).
THEOREM OpenedCorrect == Spec => []OpenedAsAsked
  <1>1. ASSUME IInv, NEW i \in DOMAIN served, request[served[i]] = "form",
               \A r \in Rows : form[served[i]][r] # "absent"
        PROVE  opened[served[i]] = form[served[i]]
    <2>1. i \in Nat \ {0} /\ served[i] \in Conns
        BY <1>1 DEF IInv, TypeOK
    <2>2. opened[served[i]] \in Tables /\ form[served[i]] \in Received
        BY <1>1, <2>1 DEF IInv, TypeOK
    <2>3. ASSUME NEW r \in Rows PROVE opened[served[i]][r] = form[served[i]][r]
      <3>1. PICK m \in 1 .. i : Chosen(m, i, r, opened[served[i]][r])
          BY <1>1, <2>1 DEF IInv, OpenedOK
      <3> QED
          BY <1>1, <2>1, <3>1, ChosenByItself
    <2>4. /\ opened[served[i]] = [r \in Rows |-> opened[served[i]][r]]
          /\ form[served[i]] = [r \in Rows |-> form[served[i]][r]]
        BY <2>2 DEF Tables, Received
    <2>5. \A f, g : f = [r \in Rows |-> f[r]] /\ g = [r \in Rows |-> g[r]]
                      /\ (\A r \in Rows : f[r] = g[r]) => f = g
        OBVIOUS
    <2> QED
        BY ONLY <2>3, <2>4, <2>5
  <1>2. IInv => OpenedAsAsked
      BY <1>1 DEF IInv, OpenedOK, OpenedAsAsked
  <1> QED BY <1>2, Invariance, PTL
=============================================================================
