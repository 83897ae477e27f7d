-------------------------- MODULE SocksSessionProofs --------------------------
(***************************************************************************)
(* Proofs about SocksSession: streams are intact, end-of-file is the end,  *)
(* only permitted addresses are connected to, and the session implements   *)
(* TwoWayStream, for every number of units, every size of queues and       *)
(* arrays, and every set of rules.                                         *)
(*                                                                         *)
(* What endpoint o reads is compared with Stream(o), the endless sequence  *)
(* of the replies (or what was left of the request) and then the units the *)
(* other endpoint may write.  While the chain that feeds o is alive, what  *)
(* o has read, the kernel's queue to it, the chain's array and the         *)
(* kernel's queue from the other endpoint are, in this order, a beginning  *)
(* of that sequence: FlowOK, stated of plain values, with one lemma for    *)
(* each kind of step.  EofOK says when o may have been told the end.       *)
(***************************************************************************)
EXTENDS SocksSessionRefinement, SequenceTheorems, TLAPS

Positive == Nat \ {0}

Base(o)   == IF o = "client" THEN Replies ELSE Leftover
Stream(o) == [i \in Positive |-> IF i <= Len(Base(o)) THEN Base(o)[i]
                                 ELSE Data(i - Len(Base(o)))]
Length(o) == Len(Base(o)) + sent[Other(o)]

\* Queue q is what stream f has after its first k units.
Agrees(q, f, k) == \A i \in 1 .. Len(q) : q[i] = f[k + i]

\* The array holds something only during a write.
Pending(opx, bf) == IF opx = "write" THEN bf ELSE <<>>

\* A direction: gt read by the receiver, tp on its way to it, bf and opx the
\* array and the operation of the chain, ts on its way from the sender; L units
\* in all, rs and ro whether sender and receiver have reset.
FlowOK(f, L, gt, tp, opx, bf, ts, rs, ro) ==
    /\ Agrees(gt, f, 0) /\ Len(gt) <= L
    /\ ro = "no" => Agrees(tp, f, Len(gt)) /\ Len(gt) + Len(tp) <= L
    /\ ro = "no" /\ opx \in {"read", "write"} =>
         LET p == Pending(opx, bf)
         IN  /\ Agrees(p, f, Len(gt) + Len(tp))
             /\ Agrees(ts, f, Len(gt) + Len(tp) + Len(p))
             /\ Len(gt) + Len(tp) + Len(p) + Len(ts) <= L
             /\ rs = "no" => Len(gt) + Len(tp) + Len(p) + Len(ts) = L

\* The chain that reads from e, when there is one.
Flow(e) ==
    LET o == Other(e)
    IN  op[e] # "off" =>
          FlowOK(Stream(o), Length(o), got[o], toPeer[o], op[e], buf[e],
                 toServer[e], reset[e], reset[o])

EofOK(e) ==
    LET o == Other(e)
    IN  op[e] # "off" =>
          /\ op[e] \in {"read", "write"} => proc = "relay" /\ shut[o] = "open"
          /\ eof[o] => shut[o] = "fin"
          /\ reset[e] = "no" /\ reset[o] = "no" /\ proc = "relay" /\ op[e] = "stopped"
               => shut[o] = "fin"
          /\ reset[e] = "no" /\ reset[o] = "no" /\ shut[o] = "fin"
               => fin[e] /\ Len(got[o]) + Len(toPeer[o]) = Length(o)
          /\ reset[e] = "no" /\ eof[o] => fin[e] /\ Len(got[o]) = Length(o)

\* Both chains start together, when the relay does.
ChainsOK ==
    /\ op["client"] = "off" <=> op["target"] = "off"
    /\ proc = "relay" => op["client"] # "off"
    /\ proc \in {"request", "connect", "bind"} => op["client"] = "off"

\* Before the relay nothing is known of a target.
NoTarget ==
    op["client"] = "off" =>
      /\ sent["client"] = 0 /\ sent["target"] = 0
      /\ got["target"] = <<>> /\ toPeer["target"] = <<>> /\ toServer["target"] = <<>>
      /\ ~ fin["target"] /\ ~ eof["target"]
      /\ reset["target"] = "no" /\ shut["target"] = "open"

\* The client's queues before the relay.
RepliesOK ==
    /\ proc \in {"request", "connect", "bind"} => shut["client"] = "open" /\ ~ eof["client"]
    /\ proc \in {"request", "connect"} => got["client"] = <<>> /\ toPeer["client"] = <<>>
    /\ proc = "bind" => \/ got["client"] = <<>> /\ toPeer["client"] = <<Bound>>
                        \/ got["client"] = <<Bound>> /\ toPeer["client"] = <<>>
                        \/ /\ got["client"] = <<>> /\ toPeer["client"] = <<>>
                           /\ reset["client"] # "no"
    /\ op["client"] = "off" /\ ~ Running =>
         \/ got["client"] = <<>> /\ toPeer["client"] = <<>>
         \/ req.cmd = "bind" /\ got["client"] = <<>> /\ toPeer["client"] = <<Bound>>
         \/ req.cmd = "bind" /\ got["client"] = <<Bound>> /\ toPeer["client"] = <<>>
         \/ got["client"] = <<>> /\ toPeer["client"] = <<Rejected>>
         \/ got["client"] = <<Rejected>> /\ toPeer["client"] = <<>>

\* What is left of the request.
RequestOK ==
    /\ proc = "request" =>
         /\ ~ whole /\ addr = NoHost
         /\ toServer["client"] \in {<<>>, <<Request>>}
         /\ asked = NoRequest => toServer["client"] = <<>>
         /\ reset["client"] = "no" /\ asked # NoRequest => toServer["client"] # <<>>
    /\ proc \in {"connect", "bind"} =>
         /\ toServer["client"] \in {<<>>, Leftover}
         /\ reset["client"] = "no" => toServer["client"] = Leftover

\* What the firewall has let through.
PermittedOK ==
    /\ addr # NoHost => /\ addr = req.host /\ req.cmd = "connect"
                        /\ \E rule \in CWhites : addr \in rule
    /\ proc = "connect" => addr # NoHost /\ req.cmd = "connect"
    /\ proc = "bind" => req.cmd = "bind" /\ addr = NoHost
    /\ (proc = "bind" \/ op["client"] # "off") /\ addr = NoHost =>
         \E rule \in BWhites : req.host \in rule
    /\ whole => req = asked

IInv ==
    /\ TypeOK /\ ChainsOK /\ NoTarget /\ RepliesOK /\ RequestOK /\ PermittedOK
    /\ \A e \in Endpoints : Flow(e) /\ EofOK(e)

-----------------------------------------------------------------------------
(* Queues that agree with a stream. *)

LEMMA AgreesEmpty ==
    ASSUME NEW f, NEW k
    PROVE  Agrees(<<>>, f, k)
  BY DEF Agrees

LEMMA AgreesOne ==
    ASSUME NEW f, NEW k \in Nat, NEW x, x = f[k + 1]
    PROVE  Agrees(<<x>>, f, k)
  <1>1. Len(<<x>>) = 1 /\ <<x>>[1] = x
      OBVIOUS
  <1>2. \A i \in 1 .. 1 : i = 1
      OBVIOUS
  <1> QED
      BY <1>1, <1>2 DEF Agrees

LEMMA AgreesTail ==
    ASSUME NEW S, NEW q \in Seq(S), q # <<>>, NEW f, NEW k \in Nat, Agrees(q, f, k)
    PROVE  /\ Head(q) = f[k + 1] /\ Head(q) \in S
           /\ Tail(q) \in Seq(S) /\ Len(Tail(q)) = Len(q) - 1 /\ Len(q) \in Positive
           /\ Agrees(Tail(q), f, k + 1)
  <1>1. /\ Len(q) \in Nat /\ Len(q) # 0 /\ Head(q) = q[1] /\ Head(q) \in S
        /\ Tail(q) \in Seq(S) /\ Len(Tail(q)) = Len(q) - 1
        /\ \A i \in 1 .. Len(Tail(q)) : Tail(q)[i] = q[i + 1]
      BY HeadTailProperties, EmptySeq, LenProperties
  <1>2. \A i \in 1 .. Len(q) : q[i] = f[k + i]
      BY DEF Agrees
  <1>3. ASSUME NEW i \in 1 .. Len(Tail(q))
        PROVE  Tail(q)[i] = f[(k + 1) + i]
    <2>1. Tail(q)[i] = q[i + 1] /\ i + 1 \in 1 .. Len(q)
        BY <1>1
    <2>2. k + (i + 1) = (k + 1) + i
        BY <1>1
    <2> QED
        BY <2>1, <2>2, <1>2
  <1> QED
      BY <1>1, <1>2, <1>3 DEF Agrees, Positive

LEMMA AgreesAppend ==
    ASSUME NEW S, NEW q \in Seq(S), NEW x \in S, NEW f, NEW k \in Nat,
           Agrees(q, f, k), x = f[k + Len(q) + 1]
    PROVE  /\ Append(q, x) \in Seq(S) /\ Len(Append(q, x)) = Len(q) + 1
           /\ Len(q) \in Nat
           /\ Agrees(Append(q, x), f, k)
  <1>1. /\ Len(q) \in Nat /\ Append(q, x) \in Seq(S) /\ Len(Append(q, x)) = Len(q) + 1
        /\ \A i \in 1 .. Len(q) : Append(q, x)[i] = q[i]
        /\ Append(q, x)[Len(q) + 1] = x
      BY AppendProperties, LenProperties
  <1>2. ASSUME NEW i \in 1 .. (Len(q) + 1)
        PROVE  Append(q, x)[i] = f[k + i]
    <2>1. CASE i = Len(q) + 1
      <3>1. k + Len(q) + 1 = k + i
          BY <1>1, <2>1
      <3> QED
          BY <1>1, <2>1, <3>1
    <2>2. CASE i # Len(q) + 1
      <3>1. i \in 1 .. Len(q)
          BY <1>1, <2>2
      <3> QED
          BY <1>1, <3>1 DEF Agrees
    <2> QED
        BY <2>1, <2>2
  <1> QED
      BY <1>1, <1>2 DEF Agrees

LEMMA AgreesSub ==
    ASSUME NEW S, NEW q \in Seq(S), NEW f, NEW k \in Nat, Agrees(q, f, k),
           NEW n \in 0 .. Len(q)
    PROVE  /\ SubSeq(q, 1, n) \in Seq(S) /\ Len(SubSeq(q, 1, n)) = n
           /\ SubSeq(q, n + 1, Len(q)) \in Seq(S)
           /\ Len(SubSeq(q, n + 1, Len(q))) = Len(q) - n
           /\ Agrees(SubSeq(q, 1, n), f, k)
           /\ Agrees(SubSeq(q, n + 1, Len(q)), f, k + n)
  <1> DEFINE a == SubSeq(q, 1, n)
             b == SubSeq(q, n + 1, Len(q))
  <1>1. Len(q) \in Nat /\ n \in Nat /\ n <= Len(q) /\ \A i \in 1 .. Len(q) : q[i] \in S
      BY LenProperties, ElementOfSeq
  <1>2. a \in Seq(S) /\ Len(a) = n /\ \A i \in 1 .. n : a[i] = q[i]
    <2>1. \A i \in 1 .. n : q[i] \in S
        BY <1>1
    <2>2. /\ a \in Seq(S) /\ Len(a) = (IF 1 <= n THEN n - 1 + 1 ELSE 0)
          /\ \A i \in 1 .. (n - 1 + 1) : a[i] = q[1 + i - 1]
        BY <1>1, <2>1, SubSeqProperties
    <2>3. \A i \in 1 .. n : 1 + i - 1 = i /\ i \in 1 .. (n - 1 + 1)
        BY <1>1
    <2>4. \A i \in 1 .. n : a[i] = q[i]
        BY <2>2, <2>3
    <2> QED
        BY <1>1, <2>2, <2>4
  <1>3. b \in Seq(S) /\ Len(b) = Len(q) - n /\ \A i \in 1 .. (Len(q) - n) : b[i] = q[n + i]
    <2>1. \A i \in (n + 1) .. Len(q) : q[i] \in S
        BY <1>1
    <2>2. /\ b \in Seq(S)
          /\ Len(b) = (IF n + 1 <= Len(q) THEN Len(q) - (n + 1) + 1 ELSE 0)
          /\ \A i \in 1 .. (Len(q) - (n + 1) + 1) : b[i] = q[(n + 1) + i - 1]
        BY <1>1, <2>1, SubSeqProperties
    <2>3. \A i \in 1 .. (Len(q) - n) :
              (n + 1) + i - 1 = n + i /\ i \in 1 .. (Len(q) - (n + 1) + 1)
        BY <1>1
    <2>4. \A i \in 1 .. (Len(q) - n) : b[i] = q[n + i]
        BY <2>2, <2>3
    <2> QED
        BY <1>1, <2>2, <2>4
  <1>4. \A i \in 1 .. Len(q) : q[i] = f[k + i]
      BY DEF Agrees
  <1>5. Agrees(a, f, k)
    <2>1. ASSUME NEW i \in 1 .. n PROVE a[i] = f[k + i]
        BY <1>1, <1>2, <1>4
    <2> QED
        BY <2>1, <1>2 DEF Agrees
  <1>6. Agrees(b, f, k + n)
    <2>1. ASSUME NEW i \in 1 .. (Len(q) - n) PROVE b[i] = f[(k + n) + i]
      <3>1. n + i \in 1 .. Len(q) /\ k + (n + i) = (k + n) + i
          BY <1>1
      <3> QED
          BY <1>3, <1>4, <3>1
    <2> QED
        BY <2>1, <1>3 DEF Agrees
  <1> QED
      BY <1>2, <1>3, <1>5, <1>6

-----------------------------------------------------------------------------
(* The steps of a direction. *)

\* The chain reads n units.
LEMMA FlowRead ==
    ASSUME NEW S, NEW f, NEW L \in Nat, NEW gt \in Seq(S), NEW tp \in Seq(S),
           NEW bf \in Seq(S), NEW ts \in Seq(S), NEW rs, NEW ro,
           FlowOK(f, L, gt, tp, "read", bf, ts, rs, ro), NEW n \in 1 .. Len(ts)
    PROVE  FlowOK(f, L, gt, tp, "write", SubSeq(ts, 1, n), SubSeq(ts, n + 1, Len(ts)), rs, ro)
  <1>1. Len(gt) \in Nat /\ Len(tp) \in Nat /\ Len(ts) \in Nat
      BY LenProperties
  <1>2. SUFFICES ASSUME ro = "no"
                 PROVE  FlowOK(f, L, gt, tp, "write", SubSeq(ts, 1, n),
                               SubSeq(ts, n + 1, Len(ts)), rs, ro)
      BY DEF FlowOK
  <1> DEFINE k == Len(gt) + Len(tp)
  <1>3. /\ Agrees(ts, f, k + Len(<<>>)) /\ Len(<<>>) = 0
        /\ k + Len(<<>>) + Len(ts) <= L
        /\ rs = "no" => k + Len(<<>>) + Len(ts) = L
      BY <1>2 DEF FlowOK, Pending
  <1>4. k + Len(<<>>) = k /\ k \in Nat /\ n \in 0 .. Len(ts)
      BY <1>1, <1>3
  <1>5. Agrees(ts, f, k) /\ k + Len(ts) <= L /\ (rs = "no" => k + Len(ts) = L)
      BY <1>3, <1>4
  <1>6. /\ Len(SubSeq(ts, 1, n)) = n
        /\ Len(SubSeq(ts, n + 1, Len(ts))) = Len(ts) - n
        /\ Agrees(SubSeq(ts, 1, n), f, k)
        /\ Agrees(SubSeq(ts, n + 1, Len(ts)), f, k + n)
      BY <1>4, <1>5, AgreesSub
  <1>7. k + n + (Len(ts) - n) = k + Len(ts)
      BY <1>1, <1>4
  <1> QED
      BY <1>2, <1>5, <1>6, <1>7 DEF FlowOK, Pending

\* The chain writes one unit of its array.
LEMMA FlowWrite ==
    ASSUME NEW S, NEW f, NEW L \in Nat, NEW gt \in Seq(S), NEW tp \in Seq(S),
           NEW bf \in Seq(S), NEW ts \in Seq(S), NEW rs, NEW ro,
           FlowOK(f, L, gt, tp, "write", bf, ts, rs, ro), bf # <<>>, ro = "no"
    PROVE  FlowOK(f, L, gt, Append(tp, Head(bf)), IF Len(bf) = 1 THEN "read" ELSE "write",
                  Tail(bf), ts, rs, ro)
  <1> DEFINE g == Len(gt)
             k == Len(gt) + Len(tp)
             opx == IF Len(bf) = 1 THEN "read" ELSE "write"
  <1>1. Len(gt) \in Nat /\ Len(tp) \in Nat /\ Len(ts) \in Nat /\ Len(bf) \in Nat /\ k \in Nat
      BY LenProperties
  <1>2. /\ Agrees(gt, f, 0) /\ Len(gt) <= L
        /\ Agrees(tp, f, g) /\ Agrees(bf, f, k) /\ Agrees(ts, f, k + Len(bf))
        /\ k + Len(bf) + Len(ts) <= L
        /\ rs = "no" => k + Len(bf) + Len(ts) = L
      BY DEF FlowOK, Pending
  <1>3. /\ Head(bf) = f[k + 1] /\ Head(bf) \in S
        /\ Tail(bf) \in Seq(S) /\ Len(Tail(bf)) = Len(bf) - 1 /\ Len(bf) \in Positive
        /\ Agrees(Tail(bf), f, k + 1)
      BY <1>1, <1>2, AgreesTail
  <1>4. g + Len(tp) + 1 = k + 1
      OBVIOUS
  <1>5. /\ Len(Append(tp, Head(bf))) = Len(tp) + 1
        /\ Agrees(Append(tp, Head(bf)), f, g)
      BY <1>1, <1>2, <1>3, <1>4, AgreesAppend
  <1>6. g + Len(Append(tp, Head(bf))) = k + 1
      BY <1>1, <1>5
  <1>7. opx \in {"read", "write"} /\ Len(Pending(opx, Tail(bf))) = Len(bf) - 1
        /\ Agrees(Pending(opx, Tail(bf)), f, k + 1)
    <2>1. CASE Len(bf) = 1
        BY <2>1, AgreesEmpty, EmptySeq DEF Pending
    <2>2. CASE Len(bf) # 1
        BY <2>2, <1>3 DEF Pending
    <2> QED
        BY <2>1, <2>2
  <1>8. /\ k + 1 + (Len(bf) - 1) = k + Len(bf) /\ k + 1 <= k + Len(bf) + Len(ts)
        /\ k + Len(bf) + Len(ts) \in Nat
      BY <1>1, <1>3 DEF Positive
  <1>9. k + 1 <= L
      BY <1>1, <1>2, <1>8
  <1> HIDE DEF k, g, opx
  <1> QED
      BY <1>2, <1>5, <1>6, <1>7, <1>8, <1>9 DEF FlowOK, g, opx

\* The sender writes one more unit.
LEMMA FlowSend ==
    ASSUME NEW S, NEW f, NEW L \in Nat, NEW gt \in Seq(S), NEW tp \in Seq(S), NEW opx,
           NEW bf \in Seq(S), NEW ts \in Seq(S), NEW rs, NEW ro,
           FlowOK(f, L, gt, tp, opx, bf, ts, rs, ro), rs = "no",
           NEW x \in S, x = f[L + 1]
    PROVE  FlowOK(f, L + 1, gt, tp, opx, bf, Append(ts, x), rs, ro)
  <1> DEFINE p == Pending(opx, bf)
             k == Len(gt) + Len(tp) + Len(p)
  <1>1. p \in Seq(S)
      BY EmptySeq DEF Pending
  <1>2. Len(gt) \in Nat /\ Len(tp) \in Nat /\ Len(ts) \in Nat /\ Len(p) \in Nat /\ k \in Nat
      BY <1>1, LenProperties
  <1>3. /\ Agrees(gt, f, 0) /\ Len(gt) <= L + 1
        /\ ro = "no" => Agrees(tp, f, Len(gt)) /\ Len(gt) + Len(tp) <= L + 1
      BY <1>2 DEF FlowOK
  <1>4. ASSUME ro = "no", opx \in {"read", "write"}
        PROVE  /\ Agrees(p, f, Len(gt) + Len(tp)) /\ Agrees(Append(ts, x), f, k)
               /\ k + Len(Append(ts, x)) = L + 1
    <2>1. /\ Agrees(p, f, Len(gt) + Len(tp)) /\ Agrees(ts, f, k) /\ k + Len(ts) = L
        BY <1>4 DEF FlowOK
    <2>2. k + Len(ts) + 1 = L + 1
        BY <2>1
    <2>3. Len(Append(ts, x)) = Len(ts) + 1 /\ Agrees(Append(ts, x), f, k)
        BY <1>2, <2>1, <2>2, AgreesAppend
    <2> QED
        BY <1>2, <2>1, <2>2, <2>3
  <1> QED
      BY <1>3, <1>4 DEF FlowOK

\* The receiver reads one unit.
LEMMA FlowReceive ==
    ASSUME NEW S, NEW f, NEW L \in Nat, NEW gt \in Seq(S), NEW tp \in Seq(S), NEW opx,
           NEW bf \in Seq(S), NEW ts \in Seq(S), NEW rs, NEW ro,
           FlowOK(f, L, gt, tp, opx, bf, ts, rs, ro), ro = "no", tp # <<>>
    PROVE  FlowOK(f, L, Append(gt, Head(tp)), Tail(tp), opx, bf, ts, rs, ro)
  <1>1. Len(gt) \in Nat /\ Len(tp) \in Nat
      BY LenProperties
  <1>2. Agrees(gt, f, 0) /\ Agrees(tp, f, Len(gt)) /\ Len(gt) + Len(tp) <= L
      BY DEF FlowOK
  <1>3. /\ Head(tp) = f[Len(gt) + 1] /\ Head(tp) \in S
        /\ Len(Tail(tp)) = Len(tp) - 1 /\ Len(tp) \in Positive
        /\ Agrees(Tail(tp), f, Len(gt) + 1)
      BY <1>1, <1>2, AgreesTail
  <1>4. 0 + Len(gt) + 1 = Len(gt) + 1
      BY <1>1
  <1>5. Len(Append(gt, Head(tp))) = Len(gt) + 1 /\ Agrees(Append(gt, Head(tp)), f, 0)
      BY <1>2, <1>3, <1>4, AgreesAppend
  <1>6. Len(Append(gt, Head(tp))) + Len(Tail(tp)) = Len(gt) + Len(tp)
      BY <1>1, <1>3, <1>5
  <1>7. Len(Append(gt, Head(tp))) <= L
      BY <1>1, <1>2, <1>3, <1>5 DEF Positive
  <1> QED
      BY <1>2, <1>3, <1>5, <1>6, <1>7 DEF FlowOK

\* The chain ends; what is on its way to the receiver may be cut short, and
\* either endpoint may be found to have reset.
LEMMA FlowStop ==
    ASSUME NEW S, NEW f, NEW L \in Nat, NEW gt \in Seq(S), NEW tp \in Seq(S), NEW opx,
           NEW bf, NEW ts, NEW rs, NEW ro, FlowOK(f, L, gt, tp, opx, bf, ts, rs, ro),
           NEW n \in 0 .. Len(tp), NEW bf2, NEW ts2, NEW rs2, NEW ro2,
           ro2 = "no" => ro = "no"
    PROVE  FlowOK(f, L, gt, SubSeq(tp, 1, n), "stopped", bf2, ts2, rs2, ro2)
  <1> DEFINE tp2 == SubSeq(tp, 1, n)
  <1>1. Len(gt) \in Nat /\ Len(tp) \in Nat
      BY LenProperties
  <1>2. Agrees(gt, f, 0) /\ Len(gt) <= L
      BY DEF FlowOK
  <1>3. ASSUME ro2 = "no"
        PROVE  Agrees(tp2, f, Len(gt)) /\ Len(gt) + Len(tp2) <= L
    <2>1. Agrees(tp, f, Len(gt)) /\ Len(gt) + Len(tp) <= L
        BY <1>3 DEF FlowOK
    <2>2. Agrees(tp2, f, Len(gt)) /\ Len(tp2) = n
        BY <1>1, <2>1, AgreesSub
    <2> QED
        BY <1>1, <2>1, <2>2
  <1> QED
      BY <1>2, <1>3 DEF FlowOK

\* The sender resets: the end of what it sent may be lost.
LEMMA FlowSenderReset ==
    ASSUME NEW S, NEW f, NEW L \in Nat, NEW gt \in Seq(S), NEW tp \in Seq(S), NEW opx,
           NEW bf \in Seq(S), NEW ts \in Seq(S), NEW rs, NEW ro,
           FlowOK(f, L, gt, tp, opx, bf, ts, rs, ro),
           NEW n \in 0 .. Len(ts), NEW rs2, rs2 # "no"
    PROVE  FlowOK(f, L, gt, tp, opx, bf, SubSeq(ts, 1, n), rs2, ro)
  <1> DEFINE p == Pending(opx, bf)
             k == Len(gt) + Len(tp) + Len(p)
  <1>1. p \in Seq(S)
      BY EmptySeq DEF Pending
  <1>2. Len(gt) \in Nat /\ Len(tp) \in Nat /\ Len(ts) \in Nat /\ Len(p) \in Nat /\ k \in Nat
      BY <1>1, LenProperties
  <1>3. ASSUME ro = "no", opx \in {"read", "write"}
        PROVE  /\ Agrees(p, f, Len(gt) + Len(tp)) /\ Agrees(SubSeq(ts, 1, n), f, k)
               /\ k + Len(SubSeq(ts, 1, n)) <= L
    <2>1. Agrees(p, f, Len(gt) + Len(tp)) /\ Agrees(ts, f, k) /\ k + Len(ts) <= L
        BY <1>3 DEF FlowOK
    <2>2. Agrees(SubSeq(ts, 1, n), f, k) /\ Len(SubSeq(ts, 1, n)) = n
        BY <1>2, <2>1, AgreesSub
    <2> QED
        BY <1>2, <2>1, <2>2
  <1> QED
      BY <1>3 DEF FlowOK

\* The receiver resets, or is found to have reset.
LEMMA FlowReceiverReset ==
    ASSUME NEW f, NEW L, NEW gt, NEW tp, NEW opx, NEW bf, NEW ts, NEW rs, NEW ro,
           FlowOK(f, L, gt, tp, opx, bf, ts, rs, ro),
           NEW tp2, NEW opx2, NEW bf2, NEW ts2, NEW rs2, NEW ro2, ro2 # "no"
    PROVE  FlowOK(f, L, gt, tp2, opx2, bf2, ts2, rs2, ro2)
  BY DEF FlowOK

\* The chain starts: the array is empty.
LEMMA FlowStart ==
    ASSUME NEW S, NEW f, NEW L \in Nat, NEW gt \in Seq(S), NEW tp \in Seq(S), NEW bf,
           NEW ts \in Seq(S), NEW rs, NEW ro, Agrees(gt, f, 0), Len(gt) <= L,
           ro = "no" => /\ Agrees(tp, f, Len(gt)) /\ Agrees(ts, f, Len(gt) + Len(tp))
                        /\ Len(gt) + Len(tp) + Len(ts) <= L
                        /\ rs = "no" => Len(gt) + Len(tp) + Len(ts) = L
    PROVE  FlowOK(f, L, gt, tp, "read", bf, ts, rs, ro)
  <1>1. Len(gt) \in Nat /\ Len(tp) \in Nat /\ Len(ts) \in Nat
      BY LenProperties
  <1>2. Pending("read", bf) = <<>> /\ Len(<<>>) = 0
      BY DEF Pending
  <1>3. Len(gt) + Len(tp) + 0 = Len(gt) + Len(tp)
      BY <1>1
  <1>4. Agrees(<<>>, f, Len(gt) + Len(tp))
      BY AgreesEmpty
  <1>5. ro = "no" => Len(gt) + Len(tp) <= L
      BY <1>1
  <1> QED
      BY <1>2, <1>3, <1>4, <1>5 DEF FlowOK

-----------------------------------------------------------------------------
(* Endpoints, streams and the end of the process. *)

LEMMA EndpointFacts ==
    /\ Endpoints = {"client", "target"}
    /\ Other("client") = "target" /\ Other("target") = "client"
    /\ \A e \in Endpoints : Other(e) \in Endpoints /\ Other(e) # e /\ Other(Other(e)) = e
    /\ \A e, x \in Endpoints : x # e => x = Other(e)
  BY DEF Endpoints, Other

LEMMA UnitFacts ==
    /\ Request \in Units /\ Rest \in Units /\ Bound \in Units /\ Granted \in Units
    /\ Rejected \in Units /\ \A n \in 1 .. MaxUnits : Data(n) \in Units
    /\ Granted # Bound
  BY DEF Units, Granted, Bound

LEMMA StreamFacts ==
    ASSUME TypeOK, NEW o \in Endpoints
    PROVE  /\ Base(o) \in Seq(Units) /\ Len(Base(o)) \in Nat
           /\ sent[Other(o)] \in Nat /\ Length(o) \in Nat
           /\ \A i \in 1 .. Len(Base(o)) : Stream(o)[i] = Base(o)[i]
           /\ Stream(o)[Length(o) + 1] = Data(sent[Other(o)] + 1)
           /\ Base(o) = IF o = "target" THEN Leftover ELSE Replies
           /\ Len(Leftover) \in {0, 1} /\ Len(Replies) \in {1, 2}
  <1>1. Replies \in Seq(Units) /\ Len(Replies) \in {1, 2}
      BY UnitFacts DEF Replies
  <1>2. Leftover \in Seq(Units) /\ Len(Leftover) \in {0, 1}
      BY UnitFacts DEF Leftover
  <1>3. sent[Other(o)] \in Nat
      BY EndpointFacts, SocksSessionAssumption DEF TypeOK
  <1>4. Base(o) \in Seq(Units) /\ Len(Base(o)) \in Nat
      BY <1>1, <1>2 DEF Base
  <1>5. Length(o) \in Nat /\ Length(o) + 1 \in Positive /\ ~ (Length(o) + 1 <= Len(Base(o)))
        /\ Length(o) + 1 - Len(Base(o)) = sent[Other(o)] + 1
      BY <1>3, <1>4 DEF Length, Positive
  <1>6. \A i \in 1 .. Len(Base(o)) : i \in Positive /\ i <= Len(Base(o))
      BY <1>4 DEF Positive
  <1>7. Base(o) = IF o = "target" THEN Leftover ELSE Replies
      BY EndpointFacts DEF Base
  <1> QED
      BY <1>1, <1>2, <1>3, <1>4, <1>5, <1>6, <1>7 DEF Stream

LEMMA StreamSame ==
    ASSUME UNCHANGED <<asked, req, whole>>
    PROVE  \A o \in Endpoints : Stream(o)' = Stream(o) /\ Base(o)' = Base(o)
  BY DEF Stream, Base, Replies, Leftover

\* A queue cut short is the beginning of it.
LEMMA CutFacts ==
    ASSUME NEW q \in Seq(Units), NEW n \in Nat
    PROVE  \E m \in 0 .. Len(q) : Cut(q, n) = SubSeq(q, 1, m)
  <1>1. Len(q) \in Nat
      BY LenProperties
  <1> QED
      BY <1>1 DEF Cut

LEMMA BeginningFacts ==
    ASSUME NEW q \in Seq(Units), NEW m \in 0 .. Len(q)
    PROVE  SubSeq(q, 1, m) \in Seq(Units) /\ Len(SubSeq(q, 1, m)) = m
  <1>1. Len(q) \in Nat /\ m \in Nat /\ m <= Len(q) /\ \A i \in 1 .. m : q[i] \in Units
      BY LenProperties, ElementOfSeq
  <1>2. /\ SubSeq(q, 1, m) \in Seq(Units)
        /\ Len(SubSeq(q, 1, m)) = IF 1 <= m THEN m - 1 + 1 ELSE 0
      BY <1>1, SubSeqProperties
  <1> QED
      BY <1>1, <1>2

\* There is not much to cut from a queue of one.
LEMMA ShortCut ==
    ASSUME NEW q \in Seq(Units), Len(q) \in {0, 1}, NEW m \in 0 .. Len(q)
    PROVE  SubSeq(q, 1, m) \in {<<>>, q}
  <1>1. m = 0 \/ m = Len(q)
    <2>1. \A k \in {0, 1} : \A j \in 0 .. k : j = 0 \/ j = k
        OBVIOUS
    <2> QED
        BY <2>1
  <1>2. CASE m = 0
    <2>1. SubSeq(q, 1, m) \in Seq(Units) /\ Len(SubSeq(q, 1, m)) = 0
        BY <1>2, BeginningFacts
    <2> QED
        BY <2>1, EmptySeq
  <1>3. CASE m = Len(q)
      BY <1>3, SubSeqFull
  <1> QED
      BY <1>1, <1>2, <1>3

LEMMA CloseAllFacts ==
    ASSUME NEW how, NEW unread, NEW queued \in [Endpoints -> Seq(Units)], TypeOK,
           CloseAll(how, unread, queued)
    PROVE  /\ proc' = how
           /\ op' \in [Endpoints -> {"off", "read", "write", "stopped"}]
           /\ \A e \in Endpoints : op'[e] = IF op[e] = "off" THEN "off" ELSE "stopped"
           /\ shut' \in [Endpoints -> {"open", "fin", "rst"}]
           /\ toPeer' \in [Endpoints -> Seq(Units)]
           /\ \A e \in Endpoints :
                /\ \E m \in 0 .. Len(queued[e]) : toPeer'[e] = SubSeq(queued[e], 1, m)
                /\ shut[e] # "open" \/ ~ Connected(e) =>
                     shut'[e] = shut[e] /\ toPeer'[e] = queued[e]
                /\ shut[e] = "open" /\ unread[e] = <<>> => toPeer'[e] = queued[e]
  <1>1. PICK n \in 0 .. (Capacity + 2) :
            toPeer' = [e \in Endpoints |->
                         IF e \in {x \in Endpoints : Connected(x) /\ shut[x] = "open"
                                                       /\ unread[x] # <<>>}
                         THEN Cut(queued[e], n) ELSE queued[e]]
      BY DEF CloseAll
  <1>2. n \in Nat
      BY <1>1, SocksSessionAssumption
  <1>3. \A e \in Endpoints : \E m \in 0 .. Len(queued[e]) : toPeer'[e] = SubSeq(queued[e], 1, m)
    <2> SUFFICES ASSUME NEW e \in Endpoints
                 PROVE  \E m \in 0 .. Len(queued[e]) : toPeer'[e] = SubSeq(queued[e], 1, m)
        OBVIOUS
    <2>1. queued[e] \in Seq(Units) /\ Len(queued[e]) \in 0 .. Len(queued[e])
        BY LenProperties
    <2>2. \E m \in 0 .. Len(queued[e]) : Cut(queued[e], n) = SubSeq(queued[e], 1, m)
        BY <1>2, <2>1, CutFacts
    <2>3. queued[e] = SubSeq(queued[e], 1, Len(queued[e]))
        BY <2>1, SubSeqFull
    <2> QED
        BY <1>1, <2>1, <2>2, <2>3
  <1>4. toPeer' \in [Endpoints -> Seq(Units)]
    <2>1. \A e \in Endpoints : toPeer'[e] \in Seq(Units)
        BY <1>3, BeginningFacts
    <2>2. toPeer' = [e \in Endpoints |-> toPeer'[e]]
        BY <1>1
    <2> QED
        BY <2>1, <2>2
  <1>5. /\ proc' = how
        /\ op' = [e \in Endpoints |-> IF op[e] = "off" THEN "off" ELSE "stopped"]
      BY DEF CloseAll
  <1>6. /\ shut' \in [Endpoints -> {"open", "fin", "rst"}]
        /\ \A e \in Endpoints : shut[e] # "open" \/ ~ Connected(e) => shut'[e] = shut[e]
      BY DEF CloseAll, TypeOK
  <1> QED
      BY <1>1, <1>3, <1>4, <1>5, <1>6

-----------------------------------------------------------------------------
(* Steps and the parts of the invariant they leave alone. *)

\* A direction after a step, of the primed values.
LEMMA FlowPrime ==
    ASSUME NEW e \in Endpoints, NEW f, NEW L,
           Stream(Other(e))' = f, Length(Other(e))' = L,
           FlowOK(f, L, got'[Other(e)], toPeer'[Other(e)], op'[e], buf'[e],
                  toServer'[e], reset'[e], reset'[Other(e)])
    PROVE  Flow(e)'
  BY DEF Flow

\* A direction before a step.
LEMMA FlowNow ==
    ASSUME NEW e \in Endpoints, Flow(e), op[e] # "off", TypeOK
    PROVE  /\ FlowOK(Stream(Other(e)), Length(Other(e)), got[Other(e)],
                     toPeer[Other(e)], op[e], buf[e], toServer[e], reset[e],
                     reset[Other(e)])
           /\ Length(Other(e)) \in Nat /\ Other(e) \in Endpoints
           /\ got[Other(e)] \in Seq(Units) /\ toPeer[Other(e)] \in Seq(Units)
           /\ buf[e] \in Seq(Units) /\ toServer[e] \in Seq(Units)
  BY EndpointFacts, StreamFacts DEF Flow, TypeOK

\* The length of a stream changes with what its sender writes.
LEMMA LengthSame ==
    ASSUME NEW e \in Endpoints, UNCHANGED session, sent'[e] = sent[e]
    PROVE  Stream(Other(e))' = Stream(Other(e)) /\ Length(Other(e))' = Length(Other(e))
  BY StreamSame, EndpointFacts DEF Length, session

\* A step that does not touch a direction.
LEMMA FlowSame ==
    ASSUME NEW e \in Endpoints, Flow(e), UNCHANGED session, sent'[e] = sent[e],
           op'[e] = op[e], buf'[e] = buf[e], toServer'[e] = toServer[e],
           reset'[e] = reset[e],
           got'[Other(e)] = got[Other(e)], toPeer'[Other(e)] = toPeer[Other(e)],
           reset'[Other(e)] = reset[Other(e)]
    PROVE  Flow(e)'
  BY LengthSame, FlowPrime DEF Flow

\* A step of the relay, or one that ends it.
LEMMA RelayFrame ==
    ASSUME IInv, op["client"] # "off", UNCHANGED session,
           proc' \in {proc, "exited", "aborted"},
           \A x \in Endpoints : op'[x] # "off"
    PROVE  ChainsOK' /\ NoTarget' /\ RepliesOK' /\ RequestOK' /\ PermittedOK'
  <1>1. op'["client"] # "off" /\ op'["target"] # "off"
      BY EndpointFacts
  <1>2. proc' \notin {"request", "connect", "bind"}
      BY DEF IInv, ChainsOK
  <1>3. ChainsOK' /\ NoTarget' /\ RepliesOK' /\ RequestOK'
      BY <1>1, <1>2 DEF ChainsOK, NoTarget, RepliesOK, RequestOK
  <1>4. PermittedOK'
      BY <1>2 DEF IInv, PermittedOK, session
  <1> QED
      BY <1>3, <1>4

\* A step in the relay: its chains are there.
LEMMA RelayFacts ==
    ASSUME IInv, proc = "relay" \/ (\E e \in Endpoints : op[e] # "off")
    PROVE  \A e \in Endpoints : op[e] # "off"
  BY EndpointFacts DEF IInv, ChainsOK

-----------------------------------------------------------------------------
(* The invariant holds at first, and while there is no relay. *)

LEMMA InitInv == Init => IInv
  <1> SUFFICES ASSUME Init PROVE IInv
      OBVIOUS
  <1>1. \A e \in Endpoints : op[e] = "off"
      BY DEF Init
  <1>2. TypeOK
    <2>1. <<>> \in Seq(Units) /\ <<Request>> \in Seq(Units)
        BY EmptySeq, UnitFacts
    <2>2. 0 \in 0 .. MaxUnits
        BY SocksSessionAssumption
    <2>3. toServer \in [Endpoints -> Seq(Units)]
        BY <2>1 DEF Init
    <2> QED
        BY <2>1, <2>2, <2>3 DEF Init, TypeOK
  <1>3. ChainsOK
      BY <1>1, EndpointFacts DEF ChainsOK, Init
  <1>4. NoTarget /\ RepliesOK
      BY EndpointFacts DEF NoTarget, RepliesOK, Init, Running
  <1>5. RequestOK
      BY EndpointFacts DEF RequestOK, Init
  <1>6. PermittedOK
      BY EndpointFacts DEF PermittedOK, Init
  <1>7. \A e \in Endpoints : Flow(e) /\ EofOK(e)
      BY <1>1 DEF Flow, EofOK
  <1> QED
      BY <1>2, <1>3, <1>4, <1>5, <1>6, <1>7 DEF IInv

\* No relay before a step that does not start one: nothing is to be shown of
\* the chains.
LEMMA NoRelayFacts ==
    ASSUME IInv, proc \in {"request", "connect", "bind"}
    PROVE  /\ \A e \in Endpoints : op[e] = "off" /\ shut[e] = "open" /\ ~ eof[e]
           /\ ~ Connected("target")
           /\ got["target"] = <<>> /\ toPeer["target"] = <<>> /\ toServer["target"] = <<>>
  BY EndpointFacts DEF IInv, ChainsOK, NoTarget, RepliesOK, Connected

\* The process ends before there is a relay.
LEMMA CloseEarly ==
    ASSUME IInv, proc \in {"request", "connect", "bind"},
           NEW how \in {"exited", "aborted"}, NEW unread,
           NEW queued \in [Endpoints -> Seq(Units)], CloseAll(how, unread, queued),
           queued["target"] = <<>>,
           \/ queued["client"] = toPeer["client"] /\ req' = req
           \/ proc = "request" /\ queued["client"] \in {<<>>, <<Rejected>>},
           UNCHANGED <<asked, buf, endpoints>>,
           req' \in Requests \cup {NoRequest}, whole' \in BOOLEAN, addr' \in Hosts \cup {NoHost},
           toServer' \in [Endpoints -> Seq(Units)], toServer'["target"] = <<>>,
           PermittedOK'
    PROVE  IInv'
  <1>1. TypeOK
      BY DEF IInv
  <1>2. /\ proc' = how
        /\ op' \in [Endpoints -> {"off", "read", "write", "stopped"}]
        /\ \A e \in Endpoints : op'[e] = IF op[e] = "off" THEN "off" ELSE "stopped"
        /\ shut' \in [Endpoints -> {"open", "fin", "rst"}]
        /\ toPeer' \in [Endpoints -> Seq(Units)]
        /\ \A e \in Endpoints :
             /\ \E m \in 0 .. Len(queued[e]) : toPeer'[e] = SubSeq(queued[e], 1, m)
             /\ shut[e] # "open" \/ ~ Connected(e) =>
                  shut'[e] = shut[e] /\ toPeer'[e] = queued[e]
      BY <1>1, CloseAllFacts
  <1>3. \A e \in Endpoints : op'[e] = "off"
      BY <1>2, NoRelayFacts
  <1>4. toPeer'["target"] = <<>> /\ shut'["target"] = "open"
      BY <1>2, NoRelayFacts, EndpointFacts
  <1>5. toPeer'["client"] \in {<<>>, queued["client"]}
      <2>1. queued["client"] \in {<<>>, <<Bound>>, <<Rejected>>}
          BY DEF IInv, RepliesOK
      <2>2. PICK m \in 0 .. Len(queued["client"]) :
                toPeer'["client"] = SubSeq(queued["client"], 1, m)
          BY <1>2, EndpointFacts
      <2>3. Len(queued["client"]) \in {0, 1}
          BY <2>1
      <2> QED
          BY <2>2, <2>3, ShortCut, EndpointFacts
  <1>6. TypeOK'
      BY <1>1, <1>2, <1>3 DEF TypeOK, endpoints
  <1>7. ChainsOK' /\ RequestOK'
      BY <1>2, <1>3, EndpointFacts DEF ChainsOK, RequestOK
  <1>8. NoTarget'
      BY <1>4, NoRelayFacts, EndpointFacts DEF IInv, NoTarget, endpoints
  <1>9. RepliesOK'
    <2>1. CASE proc = "bind"
      <3>1. req' = req /\ req.cmd = "bind" /\ queued["client"] = toPeer["client"]
          BY <2>1 DEF IInv, PermittedOK
      <3>2. toPeer'["client"] \in {<<>>, toPeer["client"]} /\ got' = got
          BY <3>1, <1>5 DEF endpoints
      <3>3. \/ got["client"] = <<>> /\ toPeer["client"] \in {<<>>, <<Bound>>}
            \/ got["client"] = <<Bound>> /\ toPeer["client"] = <<>>
          BY <2>1 DEF IInv, RepliesOK
      <3> QED
          BY <1>2, <3>1, <3>2, <3>3 DEF RepliesOK
    <2>2. CASE proc # "bind"
      <3>1. got["client"] = <<>> /\ toPeer["client"] = <<>> /\ got' = got
          BY <2>2 DEF IInv, RepliesOK, endpoints
      <3>2. toPeer'["client"] \in {<<>>, <<Rejected>>}
          BY <3>1, <1>5
      <3> QED
          BY <1>2, <3>1, <3>2 DEF RepliesOK
    <2> QED
        BY <2>1, <2>2
  <1>10. \A e \in Endpoints : Flow(e)' /\ EofOK(e)'
      BY <1>3 DEF Flow, EofOK
  <1> QED
      BY <1>6, <1>7, <1>8, <1>9, <1>10 DEF IInv

\* The same, by itself: what was there stays.
LEMMA EarlyEnd ==
    ASSUME IInv, proc \in {"connect", "bind"}, NEW how \in {"exited", "aborted"},
           CloseAll(how, toServer, toPeer),
           UNCHANGED <<asked, req, whole, addr, buf, toServer>>, UNCHANGED endpoints
    PROVE  IInv'
  <1>1. /\ TypeOK /\ toPeer["target"] = <<>> /\ toServer["target"] = <<>>
        /\ \A e \in Endpoints : op[e] = "off"
      BY NoRelayFacts DEF IInv
  <1>2. proc' = how /\ op'["client"] = "off"
      BY <1>1, EndpointFacts DEF CloseAll
  <1>3. PermittedOK'
      BY <1>2 DEF IInv, PermittedOK
  <1> QED
      BY <1>1, <1>3, CloseEarly DEF TypeOK

\* The request is handled; l is what stays of it in the kernel's queue.
LEMMA HandleStep ==
    ASSUME IInv, proc = "request", UNCHANGED <<asked, buf, endpoints>>,
           NEW p \in Requests, NEW l \in {<<>>, <<Rest>>},
           whole' \in BOOLEAN, whole' => p = asked,
           l \in {<<>>, Leftover'}, reset["client"] = "no" => l = Leftover',
           NEW left, left = [toServer EXCEPT !["client"] = l],
           \/ reset["client"] = "no" /\ Handle(p, left)
           \/ HandleThrows(p, left)
    PROVE  IInv'
  <1> USE EndpointFacts
  <1>1. TypeOK /\ addr = NoHost /\ shut["client"] = "open" /\ ~ eof["client"]
        /\ got["client"] = <<>> /\ toPeer["client"] = <<>>
      BY DEF IInv, RequestOK, RepliesOK
  <1>2. p.host \in Hosts /\ p.host # NoHost /\ p.cmd \in {"connect", "bind", "other"}
      BY SocksSessionAssumption DEF Requests
  <1>3. /\ left \in [Endpoints -> Seq(Units)] /\ left["target"] = <<>>
        /\ left["client"] = l
    <2>1. <<Rest>> \in Seq(Units) /\ <<>> \in Seq(Units)
        BY UnitFacts
    <2>2. l \in Seq(Units)
        BY <2>1
    <2> QED
        BY <1>1, <2>2, NoRelayFacts DEF TypeOK
  <1>4. toServer' = left /\ req' = p
      BY DEF Handle, HandleThrows
  <1>5. \A e \in Endpoints : op[e] = "off"
      BY NoRelayFacts
  <1>6. CASE reset["client"] = "no" /\ FirewallFilter(p.host, p.cmd) /\ p.cmd = "connect"
             /\ proc' = "connect" /\ addr' = p.host /\ UNCHANGED <<op, toPeer, shut>>
    <2>1. TypeOK'
        BY <1>1, <1>2, <1>3, <1>4, <1>6 DEF TypeOK, endpoints
    <2>2. ChainsOK' /\ RepliesOK' /\ RequestOK'
        BY <1>1, <1>3, <1>4, <1>5, <1>6 DEF ChainsOK, RepliesOK, RequestOK, endpoints, Running
    <2>3. NoTarget'
        BY <1>3, <1>4, <1>6 DEF IInv, NoTarget, endpoints
    <2>4. PermittedOK'
        BY <1>2, <1>4, <1>6 DEF PermittedOK, FirewallFilter
    <2>5. \A e \in Endpoints : Flow(e)' /\ EofOK(e)'
        BY <1>5, <1>6 DEF Flow, EofOK
    <2> QED
        BY <2>1, <2>2, <2>3, <2>4, <2>5 DEF IInv
  <1>7. CASE reset["client"] = "no" /\ FirewallFilter(p.host, p.cmd) /\ p.cmd = "bind"
             /\ proc' = "bind" /\ addr' = NoHost /\ UNCHANGED <<op, shut>>
             /\ toPeer' = [toPeer EXCEPT !["client"] = Append(@, Bound)]
    <2>1. /\ toPeer' \in [Endpoints -> Seq(Units)]
          /\ toPeer'["client"] = <<Bound>> /\ toPeer'["target"] = toPeer["target"]
      <3>1. Append(toPeer["client"], Bound) = <<Bound>> /\ <<Bound>> \in Seq(Units)
          BY <1>1, UnitFacts
      <3> QED
          BY <1>1, <1>7, <3>1 DEF TypeOK
    <2>2. TypeOK'
        BY <1>1, <1>2, <1>3, <1>4, <1>7, <2>1 DEF TypeOK, endpoints
    <2>3. ChainsOK' /\ RepliesOK' /\ RequestOK'
        BY <1>1, <1>3, <1>4, <1>5, <1>7, <2>1
           DEF ChainsOK, RepliesOK, RequestOK, endpoints, Running
    <2>4. NoTarget'
        BY <1>3, <1>4, <1>7, <2>1 DEF IInv, NoTarget, endpoints
    <2>5. PermittedOK'
        BY <1>2, <1>4, <1>5, <1>7 DEF PermittedOK, FirewallFilter
    <2>6. \A e \in Endpoints : Flow(e)' /\ EofOK(e)'
        BY <1>5, <1>7 DEF Flow, EofOK
    <2> QED
        BY <2>2, <2>3, <2>4, <2>5, <2>6 DEF IInv
  <1>8. ASSUME NEW how \in {"exited", "aborted"}, addr' = NoHost,
               NEW queued, CloseAll(how, left, queued),
               queued = toPeer \/ queued = [toPeer EXCEPT !["client"] = Append(@, Rejected)]
        PROVE  IInv'
    <2>1. /\ queued \in [Endpoints -> Seq(Units)] /\ queued["target"] = <<>>
          /\ queued["client"] \in {<<>>, <<Rejected>>}
      <3>1. Append(toPeer["client"], Rejected) = <<Rejected>> /\ <<Rejected>> \in Seq(Units)
          BY <1>1, UnitFacts
      <3>2. toPeer \in [Endpoints -> Seq(Units)] /\ toPeer["target"] = <<>>
          BY <1>1, NoRelayFacts DEF TypeOK
      <3>3. CASE queued = toPeer
          BY <1>1, <3>2, <3>3
      <3>4. CASE queued = [toPeer EXCEPT !["client"] = <<Rejected>>]
          BY <3>1, <3>2, <3>4
      <3> QED
          BY <1>8, <3>1, <3>3, <3>4
    <2>2. proc' = how /\ op'["client"] = "off"
        BY <1>5, <1>8 DEF CloseAll
    <2>3. PermittedOK'
        BY <1>4, <1>8, <2>2 DEF PermittedOK
    <2> QED
        BY <1>3, <1>4, <1>8, <2>1, <2>3, CloseEarly
  <1>9. CASE Handle(p, left) /\ reset["client"] = "no"
    <2>1. CASE ~ FirewallFilter(p.host, p.cmd)
        BY <1>8, <1>9, <2>1 DEF Handle, Refuse
    <2>2. CASE FirewallFilter(p.host, p.cmd)
        BY <1>6, <1>7, <1>9, <2>2 DEF Handle
    <2> QED
        BY <2>1, <2>2
  <1>10. CASE HandleThrows(p, left)
      BY <1>8, <1>10 DEF HandleThrows
  <1> QED
      BY <1>9, <1>10

\* The relay starts: the replies and what was left of the request are all
\* there is.
LEMMA StartStep ==
    ASSUME IInv, proc \in {"connect", "bind"}, StartRelay,
           proc = "bind" => reset["client"] = "no"
    PROVE  IInv'
  <1> USE EndpointFacts
  <1>1. /\ TypeOK /\ UNCHANGED session
        /\ proc' = "relay" /\ op' = [e \in Endpoints |-> "read"]
        /\ UNCHANGED <<asked, req, whole, addr, buf, toServer, shut, sent, fin, reset,
                       got, eof>>
      BY DEF IInv, StartRelay, session, endpoints
  <1>2. /\ shut["client"] = "open" /\ shut["target"] = "open"
        /\ ~ eof["client"] /\ ~ eof["target"]
        /\ got["target"] = <<>> /\ toPeer["target"] = <<>> /\ toServer["target"] = <<>>
        /\ sent["client"] = 0 /\ sent["target"] = 0
      BY NoRelayFacts DEF IInv, NoTarget
  <1>3. toPeer["client"] \in Seq(Units) /\ Granted \in Units
      BY <1>1, UnitFacts DEF TypeOK
  <1>4. /\ toPeer' \in [Endpoints -> Seq(Units)] /\ toPeer'["target"] = <<>>
        /\ reset["client"] = "no" => toPeer'["client"] = Append(toPeer["client"], Granted)
    <2>1. Append(toPeer["client"], Granted) \in Seq(Units)
        BY <1>3, AppendProperties
    <2> QED
        BY <1>1, <1>2, <2>1 DEF StartRelay, TypeOK
  <1>5. TypeOK'
      BY <1>1, <1>4 DEF TypeOK
  <1>6. ChainsOK' /\ NoTarget' /\ RepliesOK' /\ RequestOK'
      BY <1>1 DEF ChainsOK, NoTarget, RepliesOK, RequestOK, Running
  <1>7. PermittedOK'
      BY <1>1 DEF IInv, PermittedOK
  <1>8. Flow("client")'
    <2> DEFINE ts == toServer["client"]
               f == Stream("target")
               L == Length("target")
    <2>1. /\ ts \in {<<>>, Leftover} /\ (reset["client"] = "no" => ts = Leftover)
        BY DEF IInv, RequestOK
    <2>2. /\ Base("target") = Leftover /\ L = Len(Leftover) /\ L \in Nat
          /\ \A i \in 1 .. Len(Leftover) : f[i] = Leftover[i]
        BY <1>1, <1>2, StreamFacts DEF Length
    <2>3. Agrees(ts, f, 0) /\ Len(ts) <= L /\ (reset["client"] = "no" => Len(ts) = L)
        BY <2>1, <2>2 DEF Agrees
    <2>4. ts \in Seq(Units) /\ <<>> \in Seq(Units) /\ Len(ts) \in Nat /\ Len(<<>>) = 0
        BY <1>1, EmptySeq, LenProperties DEF TypeOK
    <2> HIDE DEF f, L, ts
    <2>5. /\ Agrees(<<>>, f, 0) /\ Agrees(<<>>, f, Len(<<>>)) /\ Len(<<>>) <= L
          /\ Agrees(ts, f, Len(<<>>) + Len(<<>>)) /\ Len(<<>>) + Len(<<>>) + Len(ts) <= L
          /\ reset["client"] = "no" => Len(<<>>) + Len(<<>>) + Len(ts) = L
      <3>1. Len(<<>>) + Len(<<>>) = 0 /\ 0 + Len(ts) = Len(ts) /\ 0 <= L
          BY <2>2, <2>4
      <3> QED
          BY <2>3, <2>4, <3>1, AgreesEmpty
    <2>6. FlowOK(f, L, <<>>, <<>>, "read", buf["client"], ts, reset["client"], reset["target"])
        BY ZenonT(30), <2>2, <2>4, <2>5, FlowStart
    <2>7. f = Stream("target")' /\ L = Length("target")'
        BY <1>1, LengthSame DEF f, L
    <2> QED
        BY <1>1, <1>2, <1>4, <2>6, <2>7, FlowPrime DEF ts
  <1>9. Flow("target")'
    <2> DEFINE gt == got["client"]
               tp == toPeer["client"]
               f == Stream("client")
               L == Length("client")
    <2>1. /\ Base("client") = Replies /\ L = Len(Replies) /\ L \in Nat
          /\ \A i \in 1 .. Len(Replies) : f[i] = Replies[i]
        BY SMTT(30), <1>1, <1>2, StreamFacts DEF Length
    <2>2. /\ Agrees(gt, f, 0) /\ Len(gt) <= L
          /\ reset["client"] = "no" =>
               Agrees(tp, f, Len(gt)) /\ Len(gt) + Len(tp) + 1 = L /\ f[L] = Granted
      <3>0. Len(<<>>) = 0 /\ Len(<<Bound>>) = 1
          OBVIOUS
      <3>1. CASE proc = "connect"
        <4>1. req.cmd = "connect" /\ gt = <<>> /\ tp = <<>>
            BY <3>1 DEF IInv, PermittedOK, RepliesOK
        <4>2. Replies = <<Granted>>
            BY <4>1 DEF Replies
        <4>3. L = 1 /\ f[1] = Granted
          <5>1. Len(Replies) = 1 /\ Replies[1] = Granted
              BY <4>2
          <5> QED
              BY <2>1, <5>1
        <4> QED
            BY <3>0, <4>1, <4>3, AgreesEmpty
      <3>2. CASE proc = "bind"
        <4>1. /\ req.cmd = "bind"
              /\ \/ gt = <<>> /\ tp = <<Bound>>
                 \/ gt = <<Bound>> /\ tp = <<>>
            BY <3>2 DEF IInv, PermittedOK, RepliesOK
        <4>2. Replies = <<Bound, Granted>>
            BY <4>1 DEF Replies
        <4>3. L = 2 /\ f[1] = Bound /\ f[2] = Granted
          <5>1. Len(Replies) = 2 /\ Replies[1] = Bound /\ Replies[2] = Granted
              BY <4>2
          <5> QED
              BY <2>1, <5>1
        <4>4. Agrees(<<Bound>>, f, 0)
            BY <4>3, AgreesOne
        <4>5. Agrees(<<>>, f, 0) /\ Agrees(<<>>, f, 1)
            BY AgreesEmpty
        <4>6. CASE gt = <<>> /\ tp = <<Bound>>
            BY <3>0, <4>3, <4>4, <4>5, <4>6
        <4>7. CASE gt = <<Bound>> /\ tp = <<>>
            BY <3>0, <4>3, <4>4, <4>5, <4>7
        <4> QED
            BY <4>1, <4>6, <4>7
      <3> QED
          BY <3>1, <3>2
    <2> DEFINE tp2 == toPeer'["client"]
    <2>3. gt \in Seq(Units) /\ tp \in Seq(Units) /\ tp2 \in Seq(Units)
          /\ <<>> \in Seq(Units) /\ Len(<<>>) = 0
        BY <1>1, <1>4, EmptySeq DEF TypeOK
    <2>4. Len(gt) \in Nat /\ Len(tp) \in Nat /\ Len(tp2) \in Nat
        BY <2>3, LenProperties
    <2>5. reset["client"] = "no" => tp2 = Append(tp, Granted)
        BY <1>4
    <2> HIDE DEF f, L, gt, tp, tp2
    <2>6. reset["client"] = "no" => Agrees(tp2, f, Len(gt)) /\ Len(gt) + Len(tp2) = L
      <3> SUFFICES ASSUME reset["client"] = "no"
                   PROVE  Agrees(tp2, f, Len(gt)) /\ Len(gt) + Len(tp2) = L
          OBVIOUS
      <3>1. Granted = f[Len(gt) + Len(tp) + 1] /\ Agrees(tp, f, Len(gt))
          BY <2>2
      <3>2. Len(Append(tp, Granted)) = Len(tp) + 1 /\ Agrees(Append(tp, Granted), f, Len(gt))
          BY <1>3, <2>3, <2>4, <3>1, AgreesAppend
      <3>3. Len(tp2) = Len(tp) + 1 /\ Agrees(tp2, f, Len(gt))
          BY <2>5, <3>2
      <3>4. Len(gt) + Len(tp) + 1 = L
          BY <2>2
      <3> QED
          BY <2>4, <3>3, <3>4
    <2>7. reset["client"] = "no" =>
            /\ Agrees(<<>>, f, Len(gt) + Len(tp2))
            /\ Len(gt) + Len(tp2) + Len(<<>>) = L /\ Len(gt) + Len(tp2) + Len(<<>>) <= L
        BY <2>1, <2>3, <2>4, <2>6, AgreesEmpty
    <2>8. FlowOK(f, L, gt, tp2, "read", buf["target"], <<>>, reset["target"], reset["client"])
        BY ZenonT(30), <2>1, <2>2, <2>3, <2>6, <2>7, FlowStart
    <2>9. f = Stream("client")' /\ L = Length("client")'
        BY <1>1, LengthSame DEF f, L
    <2> QED
        BY <1>1, <1>2, <1>4, <2>8, <2>9, FlowPrime DEF gt, tp2
  <1>10. \A e \in Endpoints : EofOK(e)'
      BY <1>1, <1>2 DEF EofOK
  <1> QED
      BY <1>5, <1>6, <1>7, <1>8, <1>9, <1>10 DEF IInv

-----------------------------------------------------------------------------
(* The end of the relay. *)

LEMMA CloseStep ==
    ASSUME IInv, proc = "relay", NEW how \in {"exited", "aborted"},
           CloseAll(how, toServer, toPeer), UNCHANGED <<session, buf, toServer, endpoints>>,
           (\A e \in Endpoints : op[e] = "stopped") \/ (\E e \in Endpoints : reset[e] # "no")
    PROVE  IInv'
  <1> USE EndpointFacts
  <1>1. /\ TypeOK /\ UNCHANGED session
        /\ UNCHANGED <<asked, req, whole, addr, buf, toServer, sent, fin, reset, got, eof>>
      BY DEF IInv, session, endpoints
  <1>2. \A e \in Endpoints : op[e] # "off"
      BY RelayFacts
  <1>3. toPeer \in [Endpoints -> Seq(Units)]
      BY <1>1 DEF TypeOK
  <1>4. /\ proc' = how
        /\ op' \in [Endpoints -> {"off", "read", "write", "stopped"}]
        /\ \A e \in Endpoints : op'[e] = "stopped"
        /\ shut' \in [Endpoints -> {"open", "fin", "rst"}]
        /\ toPeer' \in [Endpoints -> Seq(Units)]
        /\ \A e \in Endpoints :
             /\ \E m \in 0 .. Len(toPeer[e]) : toPeer'[e] = SubSeq(toPeer[e], 1, m)
             /\ shut[e] # "open" => shut'[e] = shut[e] /\ toPeer'[e] = toPeer[e]
      BY <1>1, <1>2, <1>3, CloseAllFacts
  <1>5. TypeOK'
      BY <1>1, <1>4 DEF TypeOK
  <1>6. ChainsOK' /\ NoTarget' /\ RepliesOK' /\ RequestOK' /\ PermittedOK'
      BY <1>1, <1>2, <1>4, RelayFrame
  <1>7. ASSUME NEW e \in Endpoints
        PROVE  Flow(e)' /\ EofOK(e)'
    <2> DEFINE o == Other(e)
    <2>1. Flow(e) /\ EofOK(e) /\ op[e] # "off" /\ o \in Endpoints
        BY <1>2 DEF IInv
    <2>2. /\ FlowOK(Stream(o), Length(o), got[o], toPeer[o], op[e], buf[e], toServer[e],
                   reset[e], reset[o])
          /\ Length(o) \in Nat /\ got[o] \in Seq(Units) /\ toPeer[o] \in Seq(Units)
        BY <1>1, <2>1, FlowNow
    <2>3. PICK m \in 0 .. Len(toPeer[o]) : toPeer'[o] = SubSeq(toPeer[o], 1, m)
        BY <1>4, <2>1
    <2> HIDE DEF o
    <2>4. FlowOK(Stream(o), Length(o), got[o], toPeer'[o], "stopped", buf[e], toServer[e],
                 reset[e], reset[o])
      <3>1. FlowOK(Stream(o), Length(o), got[o], SubSeq(toPeer[o], 1, m), "stopped", buf[e],
                   toServer[e], reset[e], reset[o])
          BY <2>2, FlowStop
      <3> QED
          BY <2>3, <3>1
    <2>5. Stream(o)' = Stream(o) /\ Length(o)' = Length(o)
        BY <1>1, LengthSame DEF o
    <2>6. Flow(e)'
        BY <1>1, <1>4, <2>4, <2>5, FlowPrime DEF o
    <2>7. reset[e] = "no" /\ reset[o] = "no" => shut[o] = "fin"
        BY ZenonT(30), <2>1 DEF EofOK, o
    <2>8. shut[o] = "fin" => shut'[o] = "fin" /\ toPeer'[o] = toPeer[o]
        BY <1>4, <2>1
    <2>9. EofOK(e)'
        BY <1>1, <1>4, <2>1, <2>5, <2>7, <2>8 DEF EofOK, o
    <2> QED
        BY <2>6, <2>9
  <1> QED
      BY <1>5, <1>6, <1>7 DEF IInv

-----------------------------------------------------------------------------
(* The steps of a chain. *)

\* A step that does not touch what is told to the receiver of a direction.
LEMMA EofSame ==
    ASSUME NEW e \in Endpoints, EofOK(e), UNCHANGED session, proc' = proc,
           sent'[e] = sent[e], op'[e] = op[e], fin'[e] = fin[e], reset'[e] = reset[e],
           shut'[Other(e)] = shut[Other(e)], eof'[Other(e)] = eof[Other(e)],
           got'[Other(e)] = got[Other(e)], toPeer'[Other(e)] = toPeer[Other(e)],
           reset'[Other(e)] = reset[Other(e)]
    PROVE  EofOK(e)'
  <1>1. Length(Other(e))' = Length(Other(e))
      BY LengthSame
  <1> QED
      BY <1>1 DEF EofOK

\* A step of the relay keeps the invariant when it keeps both directions.
LEMMA RelayStep ==
    ASSUME IInv, \A x \in Endpoints : op[x] # "off" /\ op'[x] # "off",
           UNCHANGED session, proc' = proc, TypeOK', NEW e \in Endpoints,
           Flow(e)', EofOK(e)', Flow(Other(e))', EofOK(Other(e))'
    PROVE  IInv'
  <1>1. ChainsOK' /\ NoTarget' /\ RepliesOK' /\ RequestOK' /\ PermittedOK'
      BY RelayFrame, EndpointFacts
  <1>2. \A x \in Endpoints : x = e \/ x = Other(e)
      BY EndpointFacts
  <1> QED
      BY <1>1, <1>2 DEF IInv

LEMMA ReadSomeStep ==
    ASSUME IInv, NEW e \in Endpoints, ReadSome(e)
    PROVE  IInv'
  <1> DEFINE o == Other(e)
             ts == toServer[e]
  <1>1. /\ TypeOK /\ proc = "relay" /\ op[e] = "read"
        /\ UNCHANGED <<proc, session, toPeer, shut, sent, fin, reset, got, eof>>
        /\ op' = [op EXCEPT ![e] = "write"]
      BY DEF ReadSome, IInv, endpoints
  <1>2. PICK n \in 1 .. Len(ts) :
            /\ buf' = [buf EXCEPT ![e] = SubSeq(ts, 1, n)]
            /\ toServer' = [toServer EXCEPT ![e] = SubSeq(ts, n + 1, Len(ts))]
      BY DEF ReadSome
  <1>3. o \in Endpoints /\ o # e /\ Other(o) = e
      BY EndpointFacts
  <1>4. \A x \in Endpoints : op[x] # "off" /\ op'[x] # "off"
      BY <1>1, RelayFacts DEF TypeOK
  <1>5. /\ ts \in Seq(Units) /\ n \in 0 .. Len(ts)
        /\ SubSeq(ts, 1, n) \in Seq(Units) /\ Len(SubSeq(ts, 1, n)) # 0
        /\ SubSeq(ts, n + 1, Len(ts)) \in Seq(Units)
    <2>1. ts \in Seq(Units) /\ Len(ts) \in Nat
        BY <1>1, LenProperties DEF TypeOK
    <2>2. n \in 0 .. Len(ts) /\ n # 0
        BY <2>1
    <2>3. \A i \in (n + 1) .. Len(ts) : ts[i] \in Units
        BY <2>1, <2>2, ElementOfSeq
    <2>4. SubSeq(ts, n + 1, Len(ts)) \in Seq(Units)
        BY <2>1, <2>2, <2>3, SubSeqProperties
    <2> QED
        BY <2>1, <2>2, <2>4, BeginningFacts
  <1>6. TypeOK'
    <2>1. SubSeq(ts, 1, n) # <<>>
        BY <1>5
    <2>2. \A x \in Endpoints : op'[x] = "write" => buf'[x] # <<>>
        BY <1>1, <1>2, <2>1 DEF TypeOK
    <2> QED
        BY <1>1, <1>2, <1>5, <2>2 DEF TypeOK, session
  <1>7. Flow(e)'
    <2>1. /\ FlowOK(Stream(o), Length(o), got[o], toPeer[o], "read", buf[e], ts, reset[e],
                   reset[o])
          /\ Length(o) \in Nat /\ got[o] \in Seq(Units) /\ toPeer[o] \in Seq(Units)
          /\ buf[e] \in Seq(Units)
        BY <1>1, <1>4, FlowNow DEF IInv
    <2> HIDE DEF o, ts
    <2>2. FlowOK(Stream(o), Length(o), got[o], toPeer[o], "write", SubSeq(ts, 1, n),
                 SubSeq(ts, n + 1, Len(ts)), reset[e], reset[o])
        BY <1>5, <2>1, FlowRead
    <2>3. Stream(o)' = Stream(o) /\ Length(o)' = Length(o)
        BY <1>1, LengthSame DEF o
    <2>4. /\ op'[e] = "write" /\ buf'[e] = SubSeq(ts, 1, n)
          /\ toServer'[e] = SubSeq(ts, n + 1, Len(ts))
        BY <1>1, <1>2 DEF TypeOK
    <2> QED
        BY <1>1, <2>2, <2>3, <2>4, FlowPrime DEF o
  <1>8. Flow(o)'
      BY <1>1, <1>2, <1>3, FlowSame DEF IInv, TypeOK
  <1>9. EofOK(o)'
      BY <1>1, <1>3, EofSame DEF IInv, TypeOK
  <1>10. EofOK(e)'
    <2>1. Length(o)' = Length(o)
        BY <1>1, LengthSame
    <2> QED
        BY <1>1, <2>1 DEF IInv, EofOK, TypeOK
  <1> QED
      BY <1>1, <1>4, <1>6, <1>7, <1>8, <1>9, <1>10, RelayStep

LEMMA ReadEofStep ==
    ASSUME IInv, NEW e \in Endpoints, ReadEof(e)
    PROVE  IInv'
  <1> DEFINE o == Other(e)
  <1>1. /\ TypeOK /\ proc = "relay" /\ op[e] = "read" /\ toServer[e] = <<>>
        /\ fin[e] \/ reset[e] = "seen"
        /\ UNCHANGED <<session, buf, toServer, endpoints>>
        /\ UNCHANGED <<session, buf, toServer, sent, fin, reset, got, eof>>
      BY DEF ReadEof, IInv, endpoints
  <1>2. o \in Endpoints /\ o # e /\ Other(o) = e
      BY EndpointFacts
  <1>3. CASE /\ reset[o] = "no" /\ UNCHANGED <<proc, toPeer>>
             /\ op' = [op EXCEPT ![e] = "stopped"] /\ shut' = [shut EXCEPT ![o] = "fin"]
    <2>1. TypeOK'
        BY <1>1, <1>2, <1>3 DEF TypeOK, session
    <2>2. \A x \in Endpoints : op[x] # "off" /\ op'[x] # "off"
        BY <1>1, <1>3, RelayFacts DEF TypeOK
    <2>3. /\ FlowOK(Stream(o), Length(o), got[o], toPeer[o], "read", buf[e], <<>>, reset[e],
                   "no")
          /\ Length(o) \in Nat /\ got[o] \in Seq(Units) /\ toPeer[o] \in Seq(Units)
        BY <1>1, <1>3, <2>2, FlowNow DEF IInv
    <2>4. Len(got[o]) \in Nat /\ Len(toPeer[o]) \in Nat
        BY <2>3, LenProperties
    <2>5. Stream(o)' = Stream(o) /\ Length(o)' = Length(o)
        BY <1>1, LengthSame
    <2>6. op'[e] = "stopped" /\ shut'[o] = "fin"
        BY <1>1, <1>2, <1>3 DEF TypeOK
    <2>7. Flow(e)'
      <3> HIDE DEF o
      <3>1. Len(toPeer[o]) \in 0 .. Len(toPeer[o])
            /\ SubSeq(toPeer[o], 1, Len(toPeer[o])) = toPeer[o]
          BY <2>3, <2>4, SubSeqFull
      <3>2. FlowOK(Stream(o), Length(o), got[o], SubSeq(toPeer[o], 1, Len(toPeer[o])),
                   "stopped", buf[e], toServer[e], reset[e], "no")
          BY <2>3, <3>1, FlowStop
      <3> QED
          BY <1>1, <1>3, <2>5, <2>6, <3>1, <3>2, FlowPrime DEF o
    <2>8. reset[e] = "no" => fin[e] /\ Len(got[o]) + Len(toPeer[o]) = Length(o)
      <3>1. Len(<<>>) = 0
          OBVIOUS
      <3>2. reset[e] = "no" => Len(got[o]) + Len(toPeer[o]) + Len(<<>>) + Len(<<>>) = Length(o)
          BY <2>3 DEF FlowOK, Pending
      <3>3. Len(got[o]) + Len(toPeer[o]) + Len(<<>>) + Len(<<>>) = Len(got[o]) + Len(toPeer[o])
          BY <2>4, <3>1
      <3>4. reset[e] = "no" => fin[e]
          BY <1>1
      <3> QED
          BY <3>2, <3>3, <3>4
    <2>9. ~ eof[o]
        BY <1>1, <1>2 DEF IInv, EofOK
    <2>10. EofOK(e)'
        BY <1>1, <1>3, <2>5, <2>6, <2>8, <2>9 DEF EofOK
    <2>11. Flow(o)' /\ EofOK(o)'
      <3>1. op'[o] = op[o] /\ shut'[e] = shut[e]
          BY <1>1, <1>2, <1>3 DEF TypeOK
      <3> QED
          BY <1>1, <1>2, <1>3, <3>1, FlowSame, EofSame DEF IInv
    <2> QED
        BY <1>1, <1>3, <2>1, <2>2, <2>7, <2>10, <2>11, RelayStep
  <1>4. CASE reset[o] # "no" /\ Abort
      BY <1>1, <1>2, <1>4, CloseStep DEF Abort
  <1> QED
      BY <1>3, <1>4 DEF ReadEof

LEMMA ReadErrorStep ==
    ASSUME IInv, NEW e \in Endpoints, ReadError(e)
    PROVE  IInv'
  <1> DEFINE o == Other(e)
  <1>1. /\ TypeOK /\ proc = "relay" /\ op[e] = "read" /\ reset[e] = "pending"
        /\ reset' = [reset EXCEPT ![e] = "seen"] /\ op' = [op EXCEPT ![e] = "stopped"]
        /\ UNCHANGED <<proc, session, buf, toServer, toPeer, shut, sent, fin, got, eof>>
      BY DEF ReadError, IInv, kernel
  <1>2. o \in Endpoints /\ o # e /\ Other(o) = e
      BY EndpointFacts
  <1>3. TypeOK'
      BY <1>1 DEF TypeOK, session
  <1>4. \A x \in Endpoints : op[x] # "off" /\ op'[x] # "off"
      BY <1>1, RelayFacts DEF TypeOK
  <1>5. /\ op'[e] = "stopped" /\ reset'[e] = "seen" /\ op'[o] = op[o] /\ reset'[o] = reset[o]
      BY <1>1, <1>2 DEF TypeOK
  <1>6. /\ Stream(o)' = Stream(o) /\ Length(o)' = Length(o)
        /\ Stream(e)' = Stream(e) /\ Length(e)' = Length(e)
      BY <1>1, <1>2, LengthSame
  <1>7. Flow(e)'
    <2>1. /\ FlowOK(Stream(o), Length(o), got[o], toPeer[o], op[e], buf[e], toServer[e],
                   reset[e], reset[o])
          /\ Length(o) \in Nat /\ got[o] \in Seq(Units) /\ toPeer[o] \in Seq(Units)
        BY <1>1, <1>4, FlowNow DEF IInv
    <2> HIDE DEF o
    <2>2. Len(toPeer[o]) \in 0 .. Len(toPeer[o])
          /\ SubSeq(toPeer[o], 1, Len(toPeer[o])) = toPeer[o]
        BY <2>1, SubSeqFull, LenProperties
    <2>3. FlowOK(Stream(o), Length(o), got[o], SubSeq(toPeer[o], 1, Len(toPeer[o])),
                 "stopped", buf[e], toServer[e], "seen", reset[o])
        BY <2>1, <2>2, FlowStop
    <2> QED
        BY <1>1, <1>5, <1>6, <2>2, <2>3, FlowPrime DEF o
  <1>8. Flow(o)'
    <2>1. FlowOK(Stream(e), Length(e), got[e], toPeer[e], op[o], buf[o], toServer[o],
                 reset[o], reset[e])
        BY <1>1, <1>2, <1>4, FlowNow DEF IInv
    <2>2. FlowOK(Stream(e), Length(e), got[e], toPeer[e], op[o], buf[o], toServer[o],
                 reset[o], "seen")
        BY <2>1, FlowReceiverReset
    <2> QED
        BY <1>1, <1>2, <1>5, <1>6, <2>2, FlowPrime
  <1>9. EofOK(e)' /\ EofOK(o)'
    <2>1. EofOK(e) /\ EofOK(o)
        BY <1>2 DEF IInv
    <2>2. EofOK(e)'
        BY <1>1, <1>5, <1>6, <2>1 DEF EofOK
    <2>3. EofOK(o)'
        BY <1>1, <1>2, <1>5, <1>6, <2>1 DEF EofOK
    <2> QED
        BY <2>2, <2>3
  <1> QED
      BY <1>1, <1>3, <1>4, <1>7, <1>8, <1>9, RelayStep

LEMMA WriteSomeStep ==
    ASSUME IInv, NEW e \in Endpoints, WriteSome(e)
    PROVE  IInv'
  <1> DEFINE o == Other(e)
             q == Append(toPeer[o], Head(buf[e]))
             opx == IF Len(buf[e]) = 1 THEN "read" ELSE "write"
  <1>1. /\ TypeOK /\ proc = "relay" /\ op[e] = "write" /\ reset[o] = "no"
        /\ toPeer' = [toPeer EXCEPT ![o] = q] /\ buf' = [buf EXCEPT ![e] = Tail(buf[e])]
        /\ op' = [op EXCEPT ![e] = opx]
        /\ UNCHANGED <<proc, session, toServer, shut, sent, fin, reset, got, eof>>
      BY DEF WriteSome, IInv, endpoints
  <1>2. o \in Endpoints /\ o # e /\ Other(o) = e
      BY EndpointFacts
  <1>3. /\ buf[e] \in Seq(Units) /\ buf[e] # <<>> /\ toPeer[o] \in Seq(Units)
      BY <1>1, <1>2 DEF TypeOK
  <1>4. /\ q \in Seq(Units) /\ Tail(buf[e]) \in Seq(Units) /\ Len(buf[e]) \in Nat
        /\ Len(Tail(buf[e])) = Len(buf[e]) - 1
      BY <1>3, HeadTailProperties, AppendProperties, LenProperties
  <1>5. /\ toPeer'[o] = q /\ toPeer'[e] = toPeer[e]
        /\ buf'[e] = Tail(buf[e]) /\ buf'[o] = buf[o]
        /\ op'[e] = opx /\ op'[o] = op[o] /\ opx \in {"read", "write"}
      BY <1>1, <1>2 DEF TypeOK
  <1>6. TypeOK'
    <2>1. op'[e] = "write" => buf'[e] # <<>>
      <3>1. op'[e] = "write" => Len(Tail(buf[e])) # 0
          BY <1>3, <1>4, <1>5, EmptySeq
      <3> QED
          BY <1>5, <3>1, EmptySeq
    <2>2. \A x \in Endpoints : op'[x] = "write" => buf'[x] # <<>>
        BY <1>1, <2>1 DEF TypeOK
    <2>3. /\ op' \in [Endpoints -> {"off", "read", "write", "stopped"}]
          /\ buf' \in [Endpoints -> Seq(Units)] /\ toPeer' \in [Endpoints -> Seq(Units)]
        BY <1>1, <1>4, <1>5 DEF TypeOK
    <2> QED
        BY <1>1, <2>2, <2>3 DEF TypeOK, session
  <1>7. \A x \in Endpoints : op[x] # "off" /\ op'[x] # "off"
      BY <1>1, <1>5, RelayFacts DEF TypeOK
  <1>8. Stream(o)' = Stream(o) /\ Length(o)' = Length(o)
      BY <1>1, LengthSame
  <1>9. Flow(e)'
    <2>1. /\ FlowOK(Stream(o), Length(o), got[o], toPeer[o], "write", buf[e], toServer[e],
                   reset[e], reset[o])
          /\ Length(o) \in Nat /\ got[o] \in Seq(Units) /\ toPeer[o] \in Seq(Units)
          /\ buf[e] \in Seq(Units) /\ toServer[e] \in Seq(Units)
        BY <1>1, <1>7, FlowNow DEF IInv
    <2>2. FlowOK(Stream(o), Length(o), got[o], q, opx, Tail(buf[e]), toServer[e],
                 reset[e], reset[o])
      <3> HIDE DEF o
      <3> QED
          BY <1>1, <1>3, <2>1, FlowWrite
    <2> QED
        BY <1>1, <1>5, <1>8, <2>2, FlowPrime
  <1>10. Flow(o)' /\ EofOK(o)'
      BY <1>1, <1>2, <1>5, FlowSame, EofSame DEF IInv
  <1>11. EofOK(e)'
      BY <1>1, <1>5, <1>8 DEF IInv, EofOK
  <1> QED
      BY <1>1, <1>6, <1>7, <1>9, <1>10, <1>11, RelayStep

LEMMA WriteErrorStep ==
    ASSUME IInv, NEW e \in Endpoints, WriteError(e)
    PROVE  IInv'
  <1> DEFINE o == Other(e)
  <1>1. /\ TypeOK /\ proc = "relay" /\ op[e] = "write" /\ reset[o] # "no"
        /\ reset' = [reset EXCEPT ![o] = "seen"] /\ op' = [op EXCEPT ![e] = "stopped"]
        /\ UNCHANGED <<proc, session, buf, toServer, toPeer, shut, sent, fin, got, eof>>
      BY DEF WriteError, IInv, kernel
  <1>2. o \in Endpoints /\ o # e /\ Other(o) = e
      BY EndpointFacts
  <1>3. TypeOK'
      BY <1>1, <1>2 DEF TypeOK, session
  <1>4. \A x \in Endpoints : op[x] # "off" /\ op'[x] # "off"
      BY <1>1, RelayFacts DEF TypeOK
  <1>5. /\ op'[e] = "stopped" /\ reset'[o] = "seen" /\ op'[o] = op[o] /\ reset'[e] = reset[e]
      BY <1>1, <1>2 DEF TypeOK
  <1>6. /\ Stream(o)' = Stream(o) /\ Length(o)' = Length(o)
        /\ Stream(e)' = Stream(e) /\ Length(e)' = Length(e)
      BY <1>1, <1>2, LengthSame
  <1>7. Flow(e)'
    <2>1. FlowOK(Stream(o), Length(o), got[o], toPeer[o], op[e], buf[e], toServer[e],
                 reset[e], reset[o])
        BY <1>1, <1>4, FlowNow DEF IInv
    <2>2. FlowOK(Stream(o), Length(o), got[o], toPeer[o], "stopped", buf[e], toServer[e],
                 reset[e], "seen")
        BY <2>1, FlowReceiverReset
    <2> QED
        BY <1>1, <1>5, <1>6, <2>2, FlowPrime
  <1>8. Flow(o)'
    <2>1. FlowOK(Stream(e), Length(e), got[e], toPeer[e], op[o], buf[o], toServer[o],
                 reset[o], reset[e])
        BY <1>1, <1>2, <1>4, FlowNow DEF IInv
    <2>2. FlowOK(Stream(e), Length(e), got[e], toPeer[e], op[o], buf[o], toServer[o],
                 "seen", reset[e])
        BY <1>1, <2>1 DEF FlowOK
    <2> QED
        BY <1>1, <1>2, <1>5, <1>6, <2>2, FlowPrime
  <1>9. EofOK(e)' /\ EofOK(o)'
    <2>1. EofOK(e) /\ EofOK(o)
        BY <1>2 DEF IInv
    <2>2. EofOK(e)'
        BY <1>1, <1>5, <1>6, <2>1 DEF EofOK
    <2>3. EofOK(o)'
        BY <1>1, <1>2, <1>5, <1>6, <2>1 DEF EofOK
    <2> QED
        BY <2>2, <2>3
  <1> QED
      BY <1>1, <1>3, <1>4, <1>7, <1>8, <1>9, RelayStep

-----------------------------------------------------------------------------
(* The steps of the endpoints. *)

\* A step of an endpoint when there is no relay, and was none.
LEMMA OffStep ==
    ASSUME IInv, op["client"] = "off", UNCHANGED <<proc, session, op>>,
           TypeOK', NoTarget', RepliesOK', RequestOK'
    PROVE  IInv'
  <1>1. op["target"] = "off"
      BY DEF IInv, ChainsOK
  <1>2. ChainsOK' /\ PermittedOK'
      BY DEF IInv, ChainsOK, PermittedOK, session
  <1>3. \A e \in Endpoints : Flow(e)' /\ EofOK(e)'
      BY <1>1, EndpointFacts DEF Flow, EofOK
  <1> QED
      BY <1>2, <1>3 DEF IInv

\* Only the client can do something when there is no relay.
LEMMA OffFacts ==
    ASSUME IInv, NEW e \in Endpoints, op[e] = "off"
    PROVE  /\ op["client"] = "off" /\ proc # "relay"
           /\ toPeer["target"] = <<>> /\ shut["target"] = "open"
           /\ ~ MaySend(e)
  <1>1. op["client"] = "off" /\ proc # "relay"
      BY EndpointFacts DEF IInv, ChainsOK
  <1>2. toPeer["target"] = <<>> /\ shut["target"] = "open"
      BY <1>1 DEF IInv, NoTarget
  <1>3. got["client"] \in {<<>>, <<Bound>>, <<Rejected>>}
      BY <1>1 DEF IInv, RepliesOK, Running, TypeOK
  <1>4. Granted \notin Range(got["client"])
    <2>1. Granted # Bound /\ Granted # Rejected
        BY DEF Granted, Bound, Rejected
    <2>2. Range(<<>>) = {} /\ Range(<<Bound>>) = {Bound} /\ Range(<<Rejected>>) = {Rejected}
        BY DEF Range
    <2> QED
        BY <1>3, <2>1, <2>2
  <1> QED
      BY <1>1, <1>2, <1>4, EndpointFacts DEF MaySend

LEMMA SendStep ==
    ASSUME IInv, NEW e \in Endpoints, Send(e)
    PROVE  IInv'
  <1> DEFINE o == Other(e)
             x == Data(sent[e] + 1)
             q == Append(toServer[e], x)
  <1>1. /\ TypeOK /\ MaySend(e) /\ ~ fin[e] /\ reset[e] = "no" /\ sent[e] < MaxUnits
        /\ sent' = [sent EXCEPT ![e] = sent[e] + 1] /\ toServer' = [toServer EXCEPT ![e] = q]
        /\ UNCHANGED <<proc, session, op, buf, toPeer, shut, fin, reset, got, eof>>
      BY DEF Send, IInv
  <1>2. o \in Endpoints /\ o # e /\ Other(o) = e
      BY EndpointFacts
  <1>3. \A y \in Endpoints : op[y] # "off" /\ op'[y] # "off"
    <2>1. op[e] # "off"
        BY <1>1, OffFacts
    <2> QED
        BY <1>1, <2>1, RelayFacts
  <1>4. /\ sent[e] \in Nat /\ sent[e] + 1 \in 0 .. MaxUnits /\ x \in Units
        /\ toServer[e] \in Seq(Units) /\ q \in Seq(Units)
    <2>1. sent[e] \in 0 .. MaxUnits /\ MaxUnits \in Nat /\ toServer[e] \in Seq(Units)
        BY <1>1, SocksSessionAssumption DEF TypeOK
    <2>2. sent[e] + 1 \in 1 .. MaxUnits /\ sent[e] + 1 \in 0 .. MaxUnits /\ sent[e] \in Nat
        BY <1>1, <2>1
    <2>3. x \in Units
        BY <2>2, UnitFacts
    <2> QED
        BY <2>1, <2>2, <2>3, AppendProperties
  <1>5. TypeOK'
      BY <1>1, <1>4 DEF TypeOK, session
  <1>6. /\ sent'[e] = sent[e] + 1 /\ sent'[o] = sent[o]
        /\ toServer'[e] = q /\ toServer'[o] = toServer[o]
      BY <1>1, <1>2 DEF TypeOK
  <1>7. Stream(o)' = Stream(o) /\ Length(o)' = Length(o) + 1
    <2>1. Stream(o)' = Stream(o) /\ Base(o)' = Base(o)
        BY <1>1, <1>2, StreamSame DEF session
    <2>2. Len(Base(o)) \in Nat
        BY <1>1, <1>2, StreamFacts
    <2> QED
        BY <1>2, <1>4, <1>6, <2>1, <2>2 DEF Length
  <1>8. Flow(e)'
    <2>1. /\ FlowOK(Stream(o), Length(o), got[o], toPeer[o], op[e], buf[e], toServer[e],
                   reset[e], reset[o])
          /\ Length(o) \in Nat /\ got[o] \in Seq(Units) /\ toPeer[o] \in Seq(Units)
          /\ buf[e] \in Seq(Units) /\ toServer[e] \in Seq(Units)
        BY <1>1, <1>3, FlowNow DEF IInv
    <2>2. x = Stream(o)[Length(o) + 1]
        BY <1>1, <1>2, StreamFacts
    <2>3. FlowOK(Stream(o), Length(o) + 1, got[o], toPeer[o], op[e], buf[e], q,
                 reset[e], reset[o])
      <3> HIDE DEF o, x
      <3> QED
          BY <1>1, <1>4, <2>1, <2>2, FlowSend
    <2> QED
        BY <1>1, <1>6, <1>7, <2>3, FlowPrime
  <1>9. Flow(o)' /\ EofOK(o)'
      BY <1>1, <1>2, <1>6, FlowSame, EofSame DEF IInv
  <1>10. EofOK(e)'
      BY <1>1, <1>2 DEF IInv, EofOK
  <1> QED
      BY <1>1, <1>3, <1>5, <1>8, <1>9, <1>10, RelayStep

LEMMA FinishStep ==
    ASSUME IInv, NEW e \in Endpoints, Finish(e)
    PROVE  IInv'
  <1> DEFINE o == Other(e)
  <1>1. /\ TypeOK /\ Connected(e) /\ fin' = [fin EXCEPT ![e] = TRUE]
        /\ UNCHANGED <<proc, session, op, buf, toServer, toPeer, shut, sent, reset, got, eof>>
      BY DEF Finish, IInv, kernel
  <1>2. o \in Endpoints /\ o # e /\ Other(o) = e
      BY EndpointFacts
  <1>3. TypeOK'
      BY <1>1 DEF TypeOK, session
  <1>4. fin'[e] = TRUE /\ fin'[o] = fin[o]
      BY <1>1, <1>2 DEF TypeOK
  <1>5. CASE op["client"] = "off"
    <2>1. e = "client"
        BY <1>1, <1>5, EndpointFacts, OffFacts DEF Connected
    <2>2. NoTarget'
        BY <1>1, <1>2, <1>4, <2>1, EndpointFacts DEF IInv, NoTarget
    <2>3. RepliesOK' /\ RequestOK'
        BY <1>1 DEF IInv, RepliesOK, RequestOK, Running, session, Leftover
    <2> QED
        BY <1>1, <1>3, <1>5, <2>2, <2>3, OffStep
  <1>6. CASE op["client"] # "off"
    <2>1. \A x \in Endpoints : op[x] # "off" /\ op'[x] # "off"
        BY <1>1, <1>6, EndpointFacts, RelayFacts
    <2>2. Flow(e)' /\ Flow(o)' /\ EofOK(o)'
        BY <1>1, <1>2, <1>4, FlowSame, EofSame DEF IInv
    <2>3. EofOK(e)'
      <3>1. Length(o)' = Length(o)
          BY <1>1, LengthSame
      <3> QED
          BY <1>1, <1>4, <3>1 DEF IInv, EofOK
    <2> QED
        BY <1>1, <1>3, <2>1, <2>2, <2>3, RelayStep
  <1> QED
      BY <1>5, <1>6

LEMMA ResetStep ==
    ASSUME IInv, NEW e \in Endpoints, Reset(e)
    PROVE  IInv'
  <1> DEFINE o == Other(e)
             ts == toServer[e]
  <1>1. /\ TypeOK /\ Connected(e) /\ Running /\ reset[e] = "no"
        /\ reset' = [reset EXCEPT ![e] = "pending"] /\ toPeer' = [toPeer EXCEPT ![e] = <<>>]
        /\ UNCHANGED <<proc, session, op, buf, shut, sent, fin, got, eof>>
      BY DEF Reset, IInv
  <1>2. PICK n \in 0 .. Len(ts) : toServer' = [toServer EXCEPT ![e] = SubSeq(ts, 1, n)]
      BY DEF Reset
  <1>3. o \in Endpoints /\ o # e /\ Other(o) = e
      BY EndpointFacts
  <1>4. ts \in Seq(Units) /\ SubSeq(ts, 1, n) \in Seq(Units) /\ Len(SubSeq(ts, 1, n)) = n
      BY <1>1, BeginningFacts DEF TypeOK
  <1>5. /\ reset'[e] = "pending" /\ reset'[o] = reset[o]
        /\ toPeer'[e] = <<>> /\ toPeer'[o] = toPeer[o]
        /\ toServer'[e] = SubSeq(ts, 1, n) /\ toServer'[o] = toServer[o]
      BY <1>1, <1>2, <1>3 DEF TypeOK
  <1>6. TypeOK'
      BY <1>1, <1>2, <1>4, EmptySeq DEF TypeOK, session
  <1>7. CASE op["client"] = "off"
    <2>1. e = "client" /\ o = "target"
        BY <1>1, <1>7, EndpointFacts, OffFacts DEF Connected
    <2>2. NoTarget'
        BY <1>1, <1>5, <2>1 DEF IInv, NoTarget
    <2>3. RepliesOK'
        BY <1>1, <1>5, <2>1 DEF IInv, RepliesOK, Running
    <2>4. RequestOK'
      <3>1. ts \in {<<>>, <<Request>>} \/ ts \in {<<>>, <<Rest>>} =>
              SubSeq(ts, 1, n) = <<>> \/ SubSeq(ts, 1, n) = ts
        <4> SUFFICES ASSUME ts \in {<<>>, <<Request>>} \/ ts \in {<<>>, <<Rest>>}
                     PROVE  SubSeq(ts, 1, n) = <<>> \/ SubSeq(ts, 1, n) = ts
            OBVIOUS
        <4>1. Len(ts) \in {0, 1}
            OBVIOUS
        <4>2. n = 0 \/ n = Len(ts)
          <5>1. \A k \in {0, 1} : \A j \in 0 .. k : j = 0 \/ j = k
              OBVIOUS
          <5> QED
              BY <4>1, <5>1
        <4> QED
            BY <1>4, <4>2, EmptySeq, SubSeqFull
      <3>2. proc = "request" => ts \in {<<>>, <<Request>>}
          BY <2>1 DEF IInv, RequestOK
      <3>3. proc \in {"connect", "bind"} => ts \in {<<>>, <<Rest>>} /\ ts \in {<<>>, Leftover}
          BY <2>1 DEF IInv, RequestOK, Leftover
      <3>4. /\ proc = "request" => ~ whole /\ addr = NoHost /\ (asked = NoRequest => ts = <<>>)
            /\ reset'["client"] # "no" /\ Leftover' = Leftover
          BY <1>1, <1>5, <2>1 DEF IInv, RequestOK, session, Leftover
      <3>5. toServer'["client"] = SubSeq(ts, 1, n)
          BY <1>5, <2>1
      <3> HIDE DEF ts
      <3> QED
          BY <1>1, <3>1, <3>2, <3>3, <3>4, <3>5 DEF RequestOK, session
    <2> QED
        BY <1>1, <1>6, <1>7, <2>2, <2>3, <2>4, OffStep
  <1>8. CASE op["client"] # "off"
    <2>1. \A x \in Endpoints : op[x] # "off" /\ op'[x] # "off"
        BY <1>1, <1>8, EndpointFacts, RelayFacts
    <2>2. /\ Stream(o)' = Stream(o) /\ Length(o)' = Length(o)
          /\ Stream(e)' = Stream(e) /\ Length(e)' = Length(e)
        BY <1>1, <1>3, LengthSame
    <2>3. Flow(e)'
      <3>1. /\ FlowOK(Stream(o), Length(o), got[o], toPeer[o], op[e], buf[e], ts, reset[e],
                     reset[o])
            /\ Length(o) \in Nat /\ got[o] \in Seq(Units) /\ toPeer[o] \in Seq(Units)
            /\ buf[e] \in Seq(Units)
          BY <1>1, <2>1, FlowNow DEF IInv
      <3>2. FlowOK(Stream(o), Length(o), got[o], toPeer[o], op[e], buf[e], SubSeq(ts, 1, n),
                   "pending", reset[o])
        <4> HIDE DEF o, ts
        <4> QED
            BY <1>4, <3>1, FlowSenderReset
      <3> QED
          BY <1>1, <1>5, <2>2, <3>2, FlowPrime
    <2>4. Flow(o)'
      <3>1. FlowOK(Stream(e), Length(e), got[e], toPeer[e], op[o], buf[o], toServer[o],
                   reset[o], reset[e])
          BY <1>1, <1>3, <2>1, FlowNow DEF IInv
      <3>2. FlowOK(Stream(e), Length(e), got[e], <<>>, op[o], buf[o], toServer[o],
                   reset[o], "pending")
          BY <3>1, FlowReceiverReset
      <3> QED
          BY <1>1, <1>3, <1>5, <2>2, <3>2, FlowPrime
    <2>5. EofOK(e)' /\ EofOK(o)'
      <3>1. EofOK(e) /\ EofOK(o)
          BY <1>3 DEF IInv
      <3>2. EofOK(e)'
          BY <1>1, <1>5, <2>2, <3>1 DEF EofOK
      <3>3. EofOK(o)'
          BY <1>1, <1>3, <1>5, <2>2, <3>1 DEF EofOK
      <3> QED
          BY <3>2, <3>3
    <2> QED
        BY <1>1, <1>6, <2>1, <2>3, <2>4, <2>5, RelayStep
  <1> QED
      BY <1>7, <1>8

LEMMA ReceiveStep ==
    ASSUME IInv, NEW e \in Endpoints, Receive(e)
    PROVE  IInv'
  <1> DEFINE c == Other(e)
             tp == toPeer[e]
             q == Append(got[e], Head(tp))
  <1>1. /\ TypeOK /\ reset[e] = "no" /\ tp # <<>>
        /\ got' = [got EXCEPT ![e] = q] /\ toPeer' = [toPeer EXCEPT ![e] = Tail(tp)]
        /\ UNCHANGED <<proc, session, op, buf, toServer, shut, sent, fin, reset, eof>>
      BY DEF Receive, IInv
  <1>2. c \in Endpoints /\ c # e /\ Other(c) = e
      BY EndpointFacts
  <1>3. got[e] \in Seq(Units) /\ tp \in Seq(Units)
      BY <1>1 DEF TypeOK
  <1>4. /\ q \in Seq(Units) /\ Tail(tp) \in Seq(Units)
        /\ Len(q) = Len(got[e]) + 1 /\ Len(Tail(tp)) = Len(tp) - 1
        /\ Len(got[e]) \in Nat /\ Len(tp) \in Nat /\ Len(tp) # 0
      BY <1>1, <1>3, HeadTailProperties, AppendProperties, LenProperties, EmptySeq
  <1>5. /\ got'[e] = q /\ got'[c] = got[c]
        /\ toPeer'[e] = Tail(tp) /\ toPeer'[c] = toPeer[c]
      BY <1>1, <1>2 DEF TypeOK
  <1>6. TypeOK'
      BY <1>1, <1>4 DEF TypeOK, session
  <1>7. CASE op["client"] = "off"
    <2>1. e = "client" /\ c = "target"
      <3>1. op[e] = "off"
          BY <1>7, EndpointFacts DEF IInv, ChainsOK
      <3> QED
          BY <1>1, <3>1, EndpointFacts, OffFacts
    <2>2. NoTarget'
        BY <1>1, <1>5, <2>1 DEF IInv, NoTarget
    <2>3. RequestOK'
        BY <1>1 DEF IInv, RequestOK, session, Leftover
    <2>4. RepliesOK'
      <3>1. \A u : Tail(<<u>>) = <<>> /\ Append(<<>>, Head(<<u>>)) = <<u>>
          OBVIOUS
      <3>2. proc \in {"request", "connect", "bind", "exited", "aborted"} /\ tp = toPeer["client"]
          BY <1>1, <1>7, <2>1, OffFacts DEF TypeOK
      <3>3. /\ proc \notin {"request", "connect"} /\ got["client"] = <<>>
            /\ proc = "bind" => tp = <<Bound>>
            /\ ~ Running => tp = <<Rejected>> \/ (req.cmd = "bind" /\ tp = <<Bound>>)
        <4>1. tp # <<>> /\ reset["client"] = "no"
            BY <1>1, <2>1
        <4>2. RepliesOK
            BY DEF IInv
        <4>3. proc \notin {"request", "connect"}
            BY <3>2, <4>1, <4>2 DEF RepliesOK
        <4>4. proc = "bind" => tp = <<Bound>> /\ got["client"] = <<>>
            BY <3>2, <4>1, <4>2 DEF RepliesOK
        <4>5. ~ Running => /\ tp = <<Rejected>> \/ (req.cmd = "bind" /\ tp = <<Bound>>)
                           /\ got["client"] = <<>>
            BY <1>7, <3>2, <4>1, <4>2 DEF RepliesOK
        <4>6. proc = "bind" \/ ~ Running
            BY <3>2, <4>3 DEF Running
        <4> QED
            BY <4>3, <4>4, <4>5, <4>6
      <3>4. /\ got'["client"] = tp /\ toPeer'["client"] = <<>>
        <4>1. \E u : tp = <<u>>
            BY <3>2, <3>3 DEF Running
        <4>2. q = tp /\ Tail(tp) = <<>>
            BY <2>1, <3>1, <3>3, <4>1
        <4> QED
            BY <1>5, <2>1, <4>2
      <3>5. /\ proc \in {"request", "connect", "bind"} => shut["client"] = "open" /\ ~ eof["client"]
            /\ Running' = Running
          BY <1>1 DEF IInv, RepliesOK, Running
      <3> HIDE DEF tp
      <3> QED
          BY <1>1, <3>2, <3>3, <3>4, <3>5 DEF RepliesOK, session
    <2> QED
        BY <1>1, <1>6, <1>7, <2>2, <2>3, <2>4, OffStep
  <1>8. CASE op["client"] # "off"
    <2>1. \A x \in Endpoints : op[x] # "off" /\ op'[x] # "off"
        BY <1>1, <1>8, EndpointFacts, RelayFacts
    <2>2. Stream(e)' = Stream(e) /\ Length(e)' = Length(e)
        BY <1>1, <1>2, LengthSame
    <2>3. Flow(c)'
      <3>1. /\ FlowOK(Stream(e), Length(e), got[e], tp, op[c], buf[c], toServer[c],
                     reset[c], reset[e])
            /\ Length(e) \in Nat /\ buf[c] \in Seq(Units) /\ toServer[c] \in Seq(Units)
          BY <1>1, <1>2, <2>1, FlowNow DEF IInv
      <3>2. FlowOK(Stream(e), Length(e), q, Tail(tp), op[c], buf[c], toServer[c],
                   reset[c], reset[e])
        <4> HIDE DEF c, tp
        <4> QED
            BY <1>1, <1>3, <3>1, FlowReceive
      <3> QED
          BY <1>1, <1>2, <1>5, <2>2, <3>2, FlowPrime
    <2>4. Flow(e)' /\ EofOK(e)'
        BY <1>1, <1>2, <1>5, FlowSame, EofSame DEF IInv
    <2>5. EofOK(c)'
      <3>1. EofOK(c)
          BY <1>2 DEF IInv
      <3>2. Len(q) + Len(Tail(tp)) = Len(got[e]) + Len(tp)
        <4>1. \A i, j \in Nat : (i + 1) + (j - 1) = i + j
            OBVIOUS
        <4> QED
            BY <1>4, <4>1
      <3>3. ~ (reset[c] = "no" /\ eof[e])
        <4> SUFFICES ASSUME reset[c] = "no", eof[e] PROVE FALSE
            OBVIOUS
        <4>1. Len(got[e]) = Length(e) /\ Len(got[e]) + Len(tp) = Length(e)
            BY <1>1, <1>2, <2>1, <3>1 DEF EofOK
        <4> QED
            BY <1>4, <4>1
      <3> HIDE DEF q, tp
      <3> QED
          BY <1>1, <1>2, <1>5, <2>2, <3>1, <3>2, <3>3 DEF EofOK, tp
    <2> QED
        BY <1>1, <1>2, <1>6, <2>1, <2>3, <2>4, <2>5, RelayStep
  <1> QED
      BY <1>7, <1>8

LEMMA ReceiveEofStep ==
    ASSUME IInv, NEW e \in Endpoints, ReceiveEof(e)
    PROVE  IInv'
  <1> DEFINE c == Other(e)
  <1>1. /\ TypeOK /\ reset[e] = "no" /\ toPeer[e] = <<>> /\ shut[e] = "fin"
        /\ eof' = [eof EXCEPT ![e] = TRUE]
        /\ UNCHANGED <<proc, session, op, buf, toServer, toPeer, shut, sent, fin, reset, got>>
      BY DEF ReceiveEof, IInv, kernel
  <1>2. c \in Endpoints /\ c # e /\ Other(c) = e
      BY EndpointFacts
  <1>3. eof'[e] = TRUE /\ eof'[c] = eof[c]
      BY <1>1, <1>2 DEF TypeOK
  <1>4. TypeOK'
      BY <1>1 DEF TypeOK, session
  <1>5. CASE op["client"] = "off"
    <2>1. e = "client" /\ c = "target"
      <3>1. op[e] = "off"
          BY <1>5, EndpointFacts DEF IInv, ChainsOK
      <3> QED
          BY <1>1, <3>1, EndpointFacts, OffFacts
    <2>2. NoTarget'
        BY <1>1, <1>3, <2>1 DEF IInv, NoTarget
    <2>3. RequestOK'
        BY <1>1 DEF IInv, RequestOK, session, Leftover
    <2>4. RepliesOK'
        BY <1>1, <1>5, <2>1 DEF IInv, RepliesOK, Running, session
    <2> QED
        BY <1>1, <1>4, <1>5, <2>2, <2>3, <2>4, OffStep
  <1>6. CASE op["client"] # "off"
    <2>1. \A x \in Endpoints : op[x] # "off" /\ op'[x] # "off"
        BY <1>1, <1>6, EndpointFacts, RelayFacts
    <2>2. Flow(e)' /\ Flow(c)' /\ EofOK(e)'
        BY <1>1, <1>2, <1>3, FlowSame, EofSame DEF IInv
    <2>3. EofOK(c)'
      <3>1. Length(e)' = Length(e)
          BY <1>1, <1>2, LengthSame
      <3>2. Len(got[e]) \in Nat /\ Len(toPeer[e]) = 0
          BY <1>1, LenProperties, EmptySeq DEF TypeOK
      <3>3. reset[c] = "no" => fin[c] /\ Len(got[e]) = Length(e)
        <4> SUFFICES ASSUME reset[c] = "no" PROVE fin[c] /\ Len(got[e]) = Length(e)
            OBVIOUS
        <4>1. fin[c] /\ Len(got[e]) + Len(toPeer[e]) = Length(e)
            BY <1>1, <1>2, <2>1 DEF IInv, EofOK
        <4> QED
            BY <3>2, <4>1
      <3> QED
          BY <1>1, <1>2, <1>3, <3>1, <3>3 DEF IInv, EofOK
    <2> QED
        BY <1>1, <1>2, <1>4, <2>1, <2>2, <2>3, RelayStep
  <1> QED
      BY <1>5, <1>6

-----------------------------------------------------------------------------
(* The theorems. *)

LEMMA StepInv == IInv /\ [Next]_vars => IInv'
  <1> SUFFICES ASSUME IInv, [Next]_vars PROVE IInv'
      OBVIOUS
  <1> USE EndpointFacts
  <1>1. CASE ReadRequest
    <2>1. /\ proc = "request" /\ toServer["client"] # <<>> /\ whole' = TRUE
          /\ UNCHANGED <<asked, buf, endpoints>>
        BY <1>1 DEF ReadRequest
    <2>2. asked \in Requests /\ Leftover' = <<>>
        BY <2>1 DEF IInv, RequestOK, TypeOK, Leftover
    <2>3. LET left == [toServer EXCEPT !["client"] = <<>>]
          IN  (reset["client"] = "no" /\ Handle(asked, left)) \/ HandleThrows(asked, left)
        BY <1>1 DEF ReadRequest
    <2> QED
        BY <2>1, <2>2, <2>3, HandleStep
  <1>2. CASE ReadPiece
    <2> DEFINE l == IF toServer["client"] = <<>> THEN <<>> ELSE <<Rest>>
               left == [toServer EXCEPT !["client"] = l]
    <2>1. /\ proc = "request" /\ whole' = whole /\ asked' = asked
          /\ UNCHANGED <<asked, buf, endpoints>>
        BY <1>2 DEF ReadPiece
    <2>2. ~ whole /\ whole' = FALSE
        BY <2>1 DEF IInv, RequestOK, TypeOK
    <2>3. l \in {<<>>, Leftover'} /\ (reset["client"] = "no" => l = Leftover')
        BY <2>1, <2>2 DEF IInv, RequestOK, Leftover
    <2>4. PICK p \in Requests : \/ reset["client"] = "no" /\ Handle(p, left)
                                \/ HandleThrows(p, left)
      <3>1. toServer["client"] = <<>> => [toServer EXCEPT !["client"] = toServer["client"]] = left
          OBVIOUS
      <3> QED
          BY <1>2, <3>1 DEF ReadPiece
    <2> QED
        BY <2>1, <2>2, <2>3, <2>4, HandleStep
  <1>3. CASE ConnectOk
      BY <1>3, StartStep DEF ConnectOk
  <1>4. CASE ConnectFails
    <2>1. proc = "connect" /\ CloseAll("exited", toServer, toPeer)
          /\ UNCHANGED <<asked, req, whole, addr, buf, toServer>> /\ UNCHANGED endpoints
        BY <1>4 DEF ConnectFails, session
    <2> QED
        BY <2>1, EarlyEnd
  <1>5. CASE BindAccept
    <2>1. CASE reset["client"] = "no" /\ StartRelay
        BY <1>5, <2>1, StartStep DEF BindAccept
    <2>2. CASE Abort /\ UNCHANGED <<session, buf, toServer, endpoints>>
        BY <1>5, <2>2, EarlyEnd DEF BindAccept, Abort, session
    <2> QED
        BY <1>5, <2>1, <2>2 DEF BindAccept
  <1>6. CASE Exit
      BY <1>6, CloseStep DEF Exit
  <1>7. ASSUME NEW e \in Endpoints,
               \/ ReadSome(e) \/ ReadEof(e) \/ ReadError(e) \/ WriteSome(e) \/ WriteError(e)
               \/ Send(e) \/ Finish(e) \/ Reset(e) \/ Receive(e) \/ ReceiveEof(e)
        PROVE  IInv'
      BY <1>7, ReadSomeStep, ReadEofStep, ReadErrorStep, WriteSomeStep, WriteErrorStep,
         SendStep, FinishStep, ResetStep, ReceiveStep, ReceiveEofStep
  <1>8. CASE UNCHANGED vars
    <2>1. /\ UNCHANGED <<proc, asked, req, whole, addr, op, buf, toServer, toPeer, shut,
                         sent, fin, reset, got, eof>> /\ UNCHANGED session
        BY <1>8 DEF vars, session
    <2>2. /\ TypeOK' /\ ChainsOK' /\ NoTarget' /\ RepliesOK' /\ RequestOK' /\ PermittedOK'
      <3>1. TypeOK' /\ ChainsOK' /\ NoTarget'
          BY <2>1 DEF IInv, TypeOK, ChainsOK, NoTarget
      <3>2. RepliesOK' /\ RequestOK' /\ PermittedOK'
          BY <2>1 DEF IInv, RepliesOK, RequestOK, PermittedOK, Running, Leftover
      <3> QED
          BY <3>1, <3>2
    <2>3. \A e \in Endpoints : Flow(e)' /\ EofOK(e)'
        BY <2>1, FlowSame, EofSame DEF IInv
    <2> QED
        BY <2>2, <2>3 DEF IInv
  <1> QED
      BY <1>1, <1>2, <1>3, <1>4, <1>5, <1>6, <1>7, <1>8 DEF Next

\* The invariant from which the theorems below follow.
THEOREM Invariance == Spec => []IInv
  BY InitInv, StepInv, PTL DEF Spec

\* Every variable keeps its type.
THEOREM TypeCorrect == Spec => []TypeOK
  <1>1. IInv => TypeOK
      BY DEF IInv
  <1> QED
      BY <1>1, Invariance, PTL

\* The first m units of an endpoint.
Written(m) == [n \in 1 .. m |-> Data(n)]

LEMMA WrittenFacts ==
    ASSUME NEW m \in 0 .. MaxUnits
    PROVE  /\ Written(m) \in Seq(Units) /\ Len(Written(m)) = m
           /\ \A j \in 1 .. m : Written(m)[j] = Data(j)
  <1>1. m \in Nat /\ \A j \in 1 .. m : Data(j) \in Units
      BY SocksSessionAssumption, UnitFacts
  <1>2. Written(m) \in Seq(Units)
      BY <1>1, IsASeq DEF Written
  <1> QED
      BY <1>1, <1>2, LenProperties DEF Written

LEMMA WrittenMore ==
    ASSUME NEW b \in Seq(Units), NEW m \in Nat, m < MaxUnits
    PROVE  Append(b \o Written(m), Data(m + 1)) = b \o Written(m + 1)
  <1> DEFINE x == Data(m + 1)
             d == Written(m)
             d2 == Written(m + 1)
  <1>1. m \in 0 .. MaxUnits /\ m + 1 \in 0 .. MaxUnits /\ m + 1 \in 1 .. MaxUnits
      BY SocksSessionAssumption
  <1>2. x \in Units /\ d \in Seq(Units) /\ d2 \in Seq(Units) /\ Len(d) = m /\ Len(d2) = m + 1
      BY <1>1, WrittenFacts, UnitFacts
  <1>3. /\ Append(d, x) \in Seq(Units) /\ Len(Append(d, x)) = m + 1
        /\ Append(d, x)[m + 1] = x /\ \A i \in 1 .. m : Append(d, x)[i] = d[i]
    <2> HIDE DEF d, x
    <2> QED
        BY <1>2, AppendProperties
  <1>4. \A i \in 1 .. (m + 1) : Append(d, x)[i] = d2[i]
    <2> SUFFICES ASSUME NEW i \in 1 .. (m + 1) PROVE Append(d, x)[i] = d2[i]
        OBVIOUS
    <2>1. d2[i] = Data(i) /\ (i \in 1 .. m => d[i] = Data(i))
        BY <1>1, WrittenFacts
    <2>2. i = m + 1 \/ i \in 1 .. m
        OBVIOUS
    <2> QED
        BY <1>3, <2>1, <2>2
  <1>5. Append(d, x) = d2
    <2> HIDE DEF d, d2, x
    <2> QED
        BY <1>2, <1>3, <1>4, SeqEqual
  <1>6. <<x>> \in Seq(Units) /\ b \o d \in Seq(Units)
      BY <1>2, ConcatProperties
  <1> HIDE DEF d, d2, x
  <1>7. Append(b \o d, x) = (b \o d) \o <<x>> /\ Append(d, x) = d \o <<x>>
      BY <1>2, <1>6, AppendIsConcat
  <1>8. (b \o d) \o <<x>> = b \o (d \o <<x>>)
      BY <1>2, <1>6, ConcatAssociative
  <1> QED
      BY <1>5, <1>7, <1>8 DEF d, d2, x

\* StreamTo(e) is Stream(e) up to its length.
LEMMA StreamToFacts ==
    ASSUME TypeOK, NEW e \in Endpoints
    PROVE  /\ StreamTo(e) \in Seq(Units) /\ Len(StreamTo(e)) = Length(e)
           /\ Length(e) \in Nat
           /\ \A i \in 1 .. Length(e) : StreamTo(e)[i] = Stream(e)[i]
  <1> DEFINE b == Base(e)
             d == DataOf(Other(e))
             t == StreamTo(e)
             m == sent[Other(e)]
  <1>1. /\ b \in Seq(Units) /\ Len(b) \in Nat /\ m \in Nat
        /\ Length(e) \in Nat /\ Length(e) = Len(b) + m
      BY StreamFacts DEF Length
  <1>2. d \in Seq(Units) /\ Len(d) = m /\ \A j \in 1 .. m : d[j] = Data(j)
    <2>1. m \in 0 .. MaxUnits
        BY EndpointFacts DEF TypeOK
    <2> QED
        BY <2>1, WrittenFacts DEF Written, DataOf
  <1>3. t = b \o d
      BY DEF StreamTo, Base
  <1>4. /\ t \in Seq(Units) /\ Len(t) = Len(b) + Len(d)
        /\ \A i \in 1 .. (Len(b) + Len(d)) :
              t[i] = IF i <= Len(b) THEN b[i] ELSE d[i - Len(b)]
      BY <1>1, <1>2, <1>3, ConcatProperties
  <1>5. ASSUME NEW i \in 1 .. Length(e)
        PROVE  t[i] = Stream(e)[i]
    <2>1. i \in Positive /\ i \in 1 .. (Len(b) + Len(d))
        BY <1>1, <1>2 DEF Positive
    <2>2. Stream(e)[i] = IF i <= Len(b) THEN b[i] ELSE Data(i - Len(b))
        BY <2>1 DEF Stream
    <2>3. ~ (i <= Len(b)) => i - Len(b) \in 1 .. m
        BY <1>1, <2>1
    <2> HIDE DEF b, d, t, m
    <2> QED
        BY <1>2, <1>4, <2>1, <2>2, <2>3
  <1> QED
      BY <1>1, <1>2, <1>4, <1>5

\* What agrees with Stream(e) and is no longer is a beginning of StreamTo(e).
LEMMA PrefixFacts ==
    ASSUME TypeOK, NEW e \in Endpoints, NEW q \in Seq(Units),
           Agrees(q, Stream(e), 0), Len(q) <= Length(e)
    PROVE  IsPrefix(q, StreamTo(e)) /\ (Len(q) = Length(e) => q = StreamTo(e))
  <1> DEFINE t == StreamTo(e)
  <1>1. t \in Seq(Units) /\ Len(t) = Length(e) /\ Len(t) \in Nat
        /\ \A i \in 1 .. Len(t) : t[i] = Stream(e)[i]
      BY StreamToFacts
  <1>2. Len(q) \in Nat
      BY LenProperties
  <1>3. ASSUME NEW i \in 1 .. Len(q)
        PROVE  q[i] = t[i]
    <2>1. i \in 1 .. Len(t) /\ 0 + i = i
        BY <1>1, <1>2
    <2>2. q[i] = Stream(e)[i]
        BY <2>1 DEF Agrees
    <2> QED
        BY <1>1, <2>1, <2>2
  <1> HIDE DEF t
  <1>4. Len(q) <= Len(t) /\ (Len(q) = Length(e) => Len(q) = Len(t))
      BY <1>1
  <1>5. SubSeq(t, 1, Len(q)) = q
    <2>1. Len(q) \in 0 .. Len(t) /\ \A i \in 1 .. Len(q) : t[i] \in Units
      <3>1. Len(t) \in Nat
          BY <1>1, LenProperties
      <3> QED
          BY <1>1, <1>2, <1>4, <3>1, ElementOfSeq
    <2>2. Len(SubSeq(t, 1, Len(q))) = Len(q) /\ SubSeq(t, 1, Len(q)) \in Seq(Units)
        BY <1>1, <2>1, BeginningFacts
    <2>3. \A i \in 1 .. Len(q) : SubSeq(t, 1, Len(q))[i] = t[i]
      <3>1. \A i \in 1 .. (Len(q) - 1 + 1) : SubSeq(t, 1, Len(q))[i] = t[1 + i - 1]
          BY <1>1, <1>2, <2>1, SubSeqProperties
      <3>2. \A i \in 1 .. Len(q) : i \in 1 .. (Len(q) - 1 + 1) /\ 1 + i - 1 = i
          BY <1>2
      <3> QED
          BY <3>1, <3>2
    <2> QED
        BY <1>3, <2>2, <2>3, SeqEqual
  <1>6. SubSeq(q, 1, Len(q)) = q
      BY SubSeqFull
  <1>7. IsPrefix(q, t)
      BY <1>4, <1>5, <1>6 DEF IsPrefix
  <1>8. Len(q) = Length(e) => q = t
    <2> SUFFICES ASSUME Len(q) = Length(e) PROVE q = t
        OBVIOUS
    <2>1. Len(q) = Len(t)
        BY <1>4
    <2>2. \A i \in 1 .. Len(q) : q[i] = t[i]
        BY <1>3
    <2> QED
        BY <1>1, <2>1, <2>2, SeqEqual
  <1> QED
      BY <1>7, <1>8 DEF t

LEMMA StreamIntactInv == IInv => StreamIntact
  <1> SUFFICES ASSUME IInv, NEW e \in Endpoints
               PROVE  \/ IsPrefix(got[e], StreamTo(e))
                      \/ e = "client" /\ got[e] = <<Rejected>> /\ op[e] = "off"
      BY DEF StreamIntact
  <1>1. TypeOK /\ got[e] \in Seq(Units)
      BY DEF IInv, TypeOK
  <1>2. CASE op[e] # "off"
    <2>1. op[Other(e)] # "off" /\ Other(e) \in Endpoints /\ Other(Other(e)) = e
        BY <1>2, RelayFacts, EndpointFacts
    <2>2. Agrees(got[e], Stream(e), 0) /\ Len(got[e]) <= Length(e)
        BY <2>1 DEF IInv, Flow, FlowOK
    <2> QED
        BY <1>1, <2>2, PrefixFacts
  <1>3. CASE op[e] = "off"
    <2>1. op["client"] = "off" /\ proc # "relay"
        BY <1>3, OffFacts
    <2>2. got["target"] = <<>>
        BY <2>1 DEF IInv, NoTarget
    <2>3. \/ got["client"] \in {<<>>, <<Rejected>>}
          \/ got["client"] = <<Bound>> /\ req.cmd = "bind"
        BY <2>1 DEF IInv, RepliesOK, PermittedOK, TypeOK, Running
    <2>4. CASE got[e] = <<>>
      <3>1. Len(<<>>) = 0 /\ Length(e) \in Nat
          BY <1>1, StreamFacts
      <3>2. Agrees(got[e], Stream(e), 0) /\ Len(got[e]) <= Length(e)
          BY <2>4, <3>1, AgreesEmpty
      <3> QED
          BY <1>1, <3>2, PrefixFacts
    <2>5. CASE e = "client" /\ got[e] = <<Bound>> /\ req.cmd = "bind"
      <3>1. Base(e) = <<Bound, Granted>>
          BY <2>5 DEF Base, Replies
      <3>2. Len(Base(e)) = 2 /\ Base(e)[1] = Bound /\ Len(<<Bound>>) = 1
          BY <3>1
      <3>3. Stream(e)[1] = Bound
        <4>1. \A i \in 1 .. Len(Base(e)) : Stream(e)[i] = Base(e)[i]
            BY <1>1, StreamFacts
        <4>2. 1 \in 1 .. Len(Base(e))
            BY <3>2
        <4> QED
            BY <3>2, <4>1, <4>2
      <3>4. Length(e) = Len(Base(e)) + sent[Other(e)] /\ sent[Other(e)] \in Nat
          BY <1>1, StreamFacts DEF Length
      <3>5. 1 <= Length(e)
          BY <3>2, <3>4
      <3>6. Agrees(got[e], Stream(e), 0) /\ Len(got[e]) <= Length(e)
          BY <2>5, <3>2, <3>3, <3>5, AgreesOne
      <3> QED
          BY <1>1, <3>6, PrefixFacts
    <2> QED
        BY <1>3, <2>2, <2>3, <2>4, <2>5, EndpointFacts
  <1> QED
      BY <1>2, <1>3

LEMMA EofCompleteInv == IInv => EofComplete
  <1> SUFFICES ASSUME IInv, NEW e \in Endpoints, eof[e], op[e] # "off", reset[Other(e)] = "no"
               PROVE  fin[Other(e)] /\ got[e] = StreamTo(e)
      BY DEF EofComplete
  <1>1. /\ TypeOK /\ got[e] \in Seq(Units)
        /\ op[Other(e)] # "off" /\ Other(e) \in Endpoints /\ Other(Other(e)) = e
      BY RelayFacts, EndpointFacts DEF IInv, TypeOK
  <1>2. fin[Other(e)] /\ Len(got[e]) = Length(e)
      BY <1>1 DEF IInv, EofOK
  <1>3. Agrees(got[e], Stream(e), 0) /\ Len(got[e]) <= Length(e)
      BY <1>1 DEF IInv, Flow, FlowOK
  <1> QED
      BY <1>1, <1>2, <1>3, PrefixFacts

\* An endpoint reads what the other one wrote, after the replies, in order and
\* with nothing missing before it, however reads and writes are split and
\* wherever a connection breaks or the process ends.
THEOREM StreamCorrect == Spec => []StreamIntact
  BY StreamIntactInv, Invariance, PTL

\* An endpoint that reads end-of-file has read all the other one had written,
\* which did close, unless that one reset its connection.
THEOREM EofCorrect == Spec => []EofComplete
  BY EofCompleteInv, Invariance, PTL

\* The process connects only to what the firewall's rules for the command let
\* through, even when the request was read in pieces.
THEOREM PermittedCorrect == Spec => []OnlyPermitted
  <1>1. IInv => OnlyPermitted
      BY DEF IInv, PermittedOK, OnlyPermitted
  <1> QED
      BY <1>1, Invariance, PTL

-----------------------------------------------------------------------------
(* What TwoWayStream sees of the session. *)

\* The last unit has been read when the end has.
EofEmpty == \A e \in Endpoints : eof[e] => toPeer[e] = <<>>

RInv == IInv /\ EofEmpty

LEMMA EndsAre ==
    /\ TwoWay!Ends = Endpoints
    /\ \A e \in Endpoints : TwoWay!Peer(e) = Other(e)
  BY DEF TwoWay!Ends, TwoWay!Peer, Endpoints, Other

LEMMA ViewFacts ==
    /\ \A e \in Endpoints : Streams[e] = Readable(e) /\ (Lost[e] <=> reset[e] # "no")
    /\ \A e \in Endpoints : Streams'[e] = Readable(e)' /\ (Lost'[e] <=> reset'[e] # "no")
    /\ DOMAIN Streams = Endpoints
  BY DEF Streams, Lost

\* A change of one stream.
LEMMA StreamsChange ==
    ASSUME NEW o \in Endpoints, NEW x, Readable(o)' = x,
           \A e \in Endpoints : e # o => Readable(e)' = Readable(e)
    PROVE  Streams' = [Streams EXCEPT ![o] = x]
  BY DEF Streams

LEMMA StreamsSame ==
    ASSUME \A e \in Endpoints : Readable(e)' = Readable(e)
    PROVE  Streams' = Streams
  BY DEF Streams

LEMMA LostSame ==
    ASSUME \A e \in Endpoints : reset'[e] # "no" <=> reset[e] # "no"
    PROVE  Lost' = Lost
  BY DEF Lost

\* Before the relay it is a matter of the queue,
LEMMA ReadableOff ==
    ASSUME NEW e \in Endpoints, op[e] = "off", op'[e] = "off", got'[e] = got[e],
           reset'[e] = reset[e], reset[e] = "no" => toPeer'[e] = toPeer[e]
    PROVE  Readable(e)' = Readable(e)
  BY DEF Readable

\* later of what the ends have written.
LEMMA ReadableOn ==
    ASSUME NEW e \in Endpoints, op[e] # "off", op'[e] # "off", UNCHANGED session,
           reset'[e] # "no" <=> reset[e] # "no",
           reset[e] # "no" => got'[e] = got[e], sent'[Other(e)] = sent[Other(e)]
    PROVE  Readable(e)' = Readable(e)
  <1>1. StreamTo(e)' = StreamTo(e)
      BY DEF StreamTo, Replies, Leftover, DataOf, session
  <1> QED
      BY <1>1 DEF Readable

\* The stages of the session.
LEMMA PhaseFacts ==
    ASSUME IInv
    PROVE  /\ Phase = "asking" <=> proc \in {"request", "connect", "bind"}
           /\ Phase = "open" <=> proc = "relay"
           /\ Phase = "refused" <=> op["client"] = "off" /\ ~ Running
           /\ Phase = "closed" <=> op["client"] # "off" /\ ~ Running
  BY DEF Phase, Running, IInv, ChainsOK, TypeOK

\* Units moved from the queue to those read.
LEMMA ShiftFacts ==
    ASSUME NEW S, NEW q \in Seq(S), NEW t \in Seq(S), t # <<>>
    PROVE  /\ Append(q, Head(t)) \o Tail(t) = q \o t
           /\ Len(q) < Len(q \o t) /\ (q \o t)[Len(q) + 1] = Head(t)
  <1> DEFINE h == Head(t)
             u == Tail(t)
             a == Append(q, h)
  <1>1. /\ Len(q) \in Nat /\ Len(t) \in Nat /\ Len(t) # 0 /\ h = t[1] /\ h \in S
        /\ u \in Seq(S) /\ Len(u) = Len(t) - 1
        /\ \A i \in 1 .. Len(u) : u[i] = t[i + 1]
      BY HeadTailProperties, EmptySeq, LenProperties
  <1>2. /\ a \in Seq(S) /\ Len(a) = Len(q) + 1 /\ a[Len(q) + 1] = h
        /\ \A i \in 1 .. Len(q) : a[i] = q[i]
      BY <1>1, AppendProperties, LenProperties
  <1>3. /\ q \o t \in Seq(S) /\ Len(q \o t) = Len(q) + Len(t)
        /\ \A i \in 1 .. Len(q) + Len(t) :
              (q \o t)[i] = IF i <= Len(q) THEN q[i] ELSE t[i - Len(q)]
      BY ConcatProperties
  <1>4. /\ a \o u \in Seq(S) /\ Len(a \o u) = Len(a) + Len(u)
        /\ \A i \in 1 .. Len(a) + Len(u) :
              (a \o u)[i] = IF i <= Len(a) THEN a[i] ELSE u[i - Len(a)]
      BY <1>1, <1>2, ConcatProperties
  <1> HIDE DEF a, h, u
  <1>5. Len(a \o u) = Len(q \o t)
      BY <1>1, <1>2, <1>3, <1>4
  <1>6. ASSUME NEW i \in 1 .. Len(a \o u)
        PROVE  (a \o u)[i] = (q \o t)[i]
    <2>1. i \in 1 .. Len(q) + Len(t) /\ i \in 1 .. Len(a) + Len(u)
        BY <1>1, <1>2, <1>3, <1>4
    <2>2. CASE i <= Len(q)
        BY <1>1, <1>2, <1>3, <1>4, <2>1, <2>2
    <2>3. CASE i = Len(q) + 1
        BY <1>1, <1>2, <1>3, <1>4, <2>1, <2>3
    <2>4. CASE i > Len(q) + 1
      <3>1. i - Len(a) \in 1 .. Len(u) /\ (i - Len(a)) + 1 = i - Len(q)
          BY <1>1, <1>2, <2>1, <2>4
      <3>2. ~ (i <= Len(q)) /\ ~ (i <= Len(a))
          BY <1>1, <1>2, <2>1, <2>4
      <3>3. (a \o u)[i] = u[i - Len(a)] /\ (q \o t)[i] = t[i - Len(q)]
          BY <1>3, <1>4, <2>1, <3>2
      <3> QED
          BY <1>1, <3>1, <3>3
    <2>5. i \in Nat /\ \A x, y \in Nat : x <= y \/ x = y + 1 \/ x > y + 1
        BY <1>1, <2>1
    <2> QED
        BY <1>1, <2>2, <2>3, <2>4, <2>5
  <1>7. a \o u = q \o t
      BY <1>3, <1>4, <1>5, <1>6, SeqEqual
  <1>8. Len(q) + 1 \in 1 .. Len(q) + Len(t) /\ Len(q) + 1 - Len(q) = 1
      BY <1>1
  <1>9. (q \o t)[Len(q) + 1] = h
      BY <1>1, <1>3, <1>8
  <1> QED
      BY <1>1, <1>3, <1>7, <1>9 DEF a, h, u

-----------------------------------------------------------------------------
(* Nothing is on its way to who has seen the end. *)

LEMMA CloseEmpty ==
    ASSUME TypeOK, EofEmpty, NEW how, NEW unread, CloseAll(how, unread, toPeer), eof' = eof
    PROVE  EofEmpty'
  <1> SUFFICES ASSUME NEW e \in Endpoints, eof[e] PROVE toPeer'[e] = <<>>
      BY DEF EofEmpty
  <1>1. toPeer[e] = <<>> /\ toPeer \in [Endpoints -> Seq(Units)]
      BY DEF EofEmpty, TypeOK
  <1>2. PICK m \in 0 .. Len(toPeer[e]) : toPeer'[e] = SubSeq(toPeer[e], 1, m)
      BY <1>1, CloseAllFacts
  <1>3. m = 0
      BY <1>1, <1>2
  <1>4. toPeer'[e] \in Seq(Units) /\ Len(toPeer'[e]) = 0
      BY <1>1, <1>2, <1>3, BeginningFacts
  <1> QED
      BY <1>4, EmptySeq

LEMMA EofEmptyStep ==
    ASSUME IInv, EofEmpty, [Next]_vars
    PROVE  EofEmpty'
  <1> USE EndpointFacts
  <1>1. TypeOK
      BY DEF IInv
  <1>2. proc \in {"request", "connect", "bind"} => \A e \in Endpoints : ~ eof[e]
      BY NoRelayFacts
  <1>3. CASE ReadRequest \/ ReadPiece \/ ConnectOk \/ ConnectFails
    <2>1. proc \in {"request", "connect", "bind"} /\ eof' = eof
        BY <1>3 DEF ReadRequest, ReadPiece, ConnectOk, ConnectFails, StartRelay, endpoints
    <2> QED
        BY <1>2, <2>1 DEF EofEmpty
  <1>4. CASE BindAccept
      BY <1>2, <1>4 DEF BindAccept, StartRelay, endpoints, EofEmpty
  <1>5. CASE Exit
      BY <1>1, <1>5, CloseEmpty DEF Exit, endpoints
  <1>6. ASSUME NEW e \in Endpoints, ReadEof(e)
        PROVE  EofEmpty'
    <2>1. CASE UNCHANGED toPeer
        BY <1>6, <2>1 DEF ReadEof, endpoints, EofEmpty
    <2>2. CASE Abort
        BY <1>1, <1>6, <2>2, CloseEmpty DEF Abort, ReadEof, endpoints
    <2> QED
        BY <1>6, <2>1, <2>2 DEF ReadEof
  <1>7. ASSUME NEW e \in Endpoints,
               ReadSome(e) \/ ReadError(e) \/ WriteError(e) \/ Send(e) \/ Finish(e)
        PROVE  EofEmpty'
    <2>1. toPeer' = toPeer /\ eof' = eof
        BY <1>7 DEF ReadSome, ReadError, WriteError, Send, Finish, kernel, endpoints
    <2> QED
        BY <2>1 DEF EofEmpty
  <1>8. ASSUME NEW e \in Endpoints, WriteSome(e)
        PROVE  EofEmpty'
    <2>1. ~ eof[Other(e)]
        BY <1>8 DEF WriteSome, IInv, EofOK
    <2>2. \A x \in Endpoints : x # Other(e) => toPeer'[x] = toPeer[x]
        BY <1>1, <1>8 DEF WriteSome, TypeOK
    <2> QED
        BY <1>8, <2>1, <2>2 DEF WriteSome, endpoints, EofEmpty
  <1>9. ASSUME NEW e \in Endpoints, Reset(e) \/ Receive(e)
        PROVE  EofEmpty'
    <2>1. \A x \in Endpoints : x # e => toPeer'[x] = toPeer[x]
        BY <1>1, <1>9 DEF Reset, Receive, TypeOK
    <2>2. eof' = eof /\ (eof[e] => toPeer'[e] = <<>>)
        BY <1>1, <1>9 DEF Reset, Receive, TypeOK, EofEmpty
    <2> QED
        BY <2>1, <2>2 DEF EofEmpty
  <1>10. ASSUME NEW e \in Endpoints, ReceiveEof(e)
         PROVE  EofEmpty'
      BY <1>1, <1>10 DEF ReceiveEof, kernel, TypeOK, EofEmpty
  <1>11. CASE UNCHANGED vars
      BY <1>11 DEF vars, EofEmpty
  <1> QED
      BY <1>3, <1>4, <1>5, <1>6, <1>7, <1>8, <1>9, <1>10, <1>11 DEF Next

LEMMA RefinementInvariance == Spec => []RInv
  <1>1. Init => RInv
      BY InitInv DEF RInv, Init, EofEmpty
  <1>2. RInv /\ [Next]_vars => RInv'
      BY StepInv, EofEmptyStep DEF RInv
  <1> QED
      BY <1>1, <1>2, PTL DEF Spec

-----------------------------------------------------------------------------
(* Steps before the relay. *)

LEMMA InitRefines == Init => TwoWay!Init
  <1> SUFFICES ASSUME Init PROVE TwoWay!Init
      OBVIOUS
  <1>1. Phase = "asking"
      BY EndpointFacts DEF Init, Phase, Running
  <1>2. Streams = [e \in Endpoints |-> <<>>]
    <2>1. <<>> \o <<>> = <<>>
        BY ConcatEmptySeq, EmptySeq
    <2> QED
        BY <2>1 DEF Init, Streams, Readable
  <1>3. Lost = [e \in Endpoints |-> FALSE]
      BY DEF Init, Lost
  <1> QED
      BY <1>1, <1>2, <1>3, EndsAre DEF Init, TwoWay!Init

\* The session ends before there is a relay: what was written to the client
\* and is neither lost nor the reply Rejected stays.
LEMMA EarlyRefines ==
    ASSUME IInv, IInv', proc \in {"request", "connect", "bind"},
           proc' \in {"exited", "aborted"}, UNCHANGED endpoints,
           \A e \in Endpoints : op'[e] = "off",
           toPeer'["target"] = toPeer["target"],
           \/ reset["client"] # "no"
           \/ toPeer'["client"] = toPeer["client"]
           \/ /\ got["client"] = <<>> /\ toPeer["client"] = <<>>
              /\ toPeer'["client"] = <<Rejected>>
    PROVE  TwoWay!Refuse
  <1> USE EndpointFacts
  <1>1. Phase = "asking" /\ Phase' = "refused"
      BY DEF Phase, Running, IInv, ChainsOK
  <1>2. \A e \in Endpoints : op[e] = "off"
      BY NoRelayFacts
  <1>3. Lost' = Lost /\ UNCHANGED <<got, fin, eof>>
      BY LostSame DEF endpoints
  <1>4. Readable("target")' = Readable("target")
      BY <1>2, ReadableOff DEF endpoints
  <1>5. CASE reset["client"] # "no" \/ toPeer'["client"] = toPeer["client"]
    <2>1. Readable("client")' = Readable("client")
        BY <1>2, <1>5, ReadableOff DEF endpoints
    <2>2. Streams' = Streams
        BY <1>4, <2>1, StreamsSame
    <2> QED
        BY <1>1, <1>3, <2>2 DEF TwoWay!Refuse
  <1>6. CASE /\ reset["client"] = "no" /\ got["client"] = <<>> /\ toPeer["client"] = <<>>
             /\ toPeer'["client"] = <<Rejected>>
    <2>1. <<>> \o <<>> = <<>> /\ <<>> \o <<Rejected>> = <<Rejected>>
        BY UnitFacts, ConcatEmptySeq, EmptySeq
    <2>2. Readable("client") = <<>> /\ Readable("client")' = <<Rejected>>
        BY <1>2, <1>6, <2>1 DEF Readable, endpoints
    <2>3. Streams' = [Streams EXCEPT !["client"] = <<Rejected>>]
        BY <1>4, <2>2, StreamsChange
    <2>4. Streams["client"] = <<>> /\ ~ Lost["client"]
        BY <1>6, <2>2, ViewFacts
    <2> QED
        BY <1>1, <1>3, <2>3, <2>4 DEF TwoWay!Refuse
  <1> QED
      BY <1>5, <1>6

LEMMA StartRefines ==
    ASSUME IInv, IInv', proc \in {"connect", "bind"}, StartRelay
    PROVE  TwoWay!Open
  <1> USE EndpointFacts
  <1>1. /\ proc' = "relay" /\ \A e \in Endpoints : op[e] = "off" /\ op'[e] = "read"
        /\ UNCHANGED <<asked, req, whole, sent, fin, reset, got, eof>>
      BY NoRelayFacts DEF StartRelay, endpoints
  <1>2. Phase = "asking" /\ Phase' = "open"
      BY <1>1, PhaseFacts DEF Phase, Running
  <1>3. Lost' = Lost
      BY <1>1, LostSame
  <1>4. sent["client"] = 0 /\ sent["target"] = 0 /\ reset["target"] = "no"
      BY <1>1 DEF IInv, NoTarget
  <1>5. \A e \in Endpoints : StreamTo(e)' = Base(e) /\ Base(e) \in Seq(Units)
    <2> SUFFICES ASSUME NEW e \in Endpoints
                 PROVE  StreamTo(e)' = Base(e) /\ Base(e) \in Seq(Units)
        OBVIOUS
    <2>1. Base(e) \in Seq(Units)
        BY StreamFacts DEF IInv
    <2>2. DataOf(Other(e))' = <<>>
      <3>1. sent'[Other(e)] = 0
          BY <1>1, <1>4
      <3>2. DataOf(Other(e))' = [n \in 1 .. 0 |-> Data(n)]
          BY <3>1 DEF DataOf
      <3>3. [n \in 1 .. 0 |-> Data(n)] = <<>>
          OBVIOUS
      <3> QED
          BY <3>2, <3>3
    <2>3. StreamTo(e)' = Base(e) \o <<>>
        BY <1>1, <2>2 DEF StreamTo, Base, Replies, Leftover
    <2> QED
        BY <2>1, <2>3, ConcatEmptySeq
  <1>6. Readable("target")' = Leftover /\ Leftover \in {<<>>, <<Rest>>}
      BY <1>1, <1>4, <1>5 DEF Readable, Base, Leftover
  <1>7. Readable("client")' = TwoWay!Give("client", Granted)
    <2>1. CASE reset["client"] # "no"
        BY <1>1, <2>1, ViewFacts DEF Readable, TwoWay!Give
    <2>2. CASE reset["client"] = "no"
      <3>1. Readable("client")' = Replies
          BY <1>1, <1>5, <2>2 DEF Readable, Base
      <3>2. TwoWay!Give("client", Granted) = Append(got["client"] \o toPeer["client"], Granted)
          BY <1>1, <2>2, ViewFacts DEF Readable, TwoWay!Give
      <3>3. CASE proc = "connect"
        <4>1. got["client"] = <<>> /\ toPeer["client"] = <<>> /\ req.cmd = "connect"
            BY <3>3 DEF IInv, RepliesOK, PermittedOK
        <4>2. Append(<<>> \o <<>>, Granted) = <<Granted>>
          <5>1. <<>> \o <<>> = <<>>
              BY ConcatEmptySeq, EmptySeq
          <5> QED
              BY <5>1
        <4> QED
            BY <3>1, <3>2, <4>1, <4>2 DEF Replies
      <3>4. CASE proc = "bind"
        <4>1. /\ req.cmd = "bind"
              /\ \/ got["client"] = <<>> /\ toPeer["client"] = <<Bound>>
                 \/ got["client"] = <<Bound>> /\ toPeer["client"] = <<>>
            BY <2>2, <3>4 DEF IInv, RepliesOK, PermittedOK
        <4>2. <<>> \o <<Bound>> = <<Bound>> /\ <<Bound>> \o <<>> = <<Bound>>
            BY UnitFacts, ConcatEmptySeq
        <4>3. Append(<<Bound>>, Granted) = <<Bound, Granted>>
          <5>1. /\ Append(<<Bound>>, Granted) \in Seq(Units) /\ <<Bound, Granted>> \in Seq(Units)
                /\ Len(Append(<<Bound>>, Granted)) = 2 /\ Len(<<Bound, Granted>>) = 2
                /\ Append(<<Bound>>, Granted)[1] = Bound /\ Append(<<Bound>>, Granted)[2] = Granted
              BY UnitFacts
          <5>2. \A i \in 1 .. 2 : Append(<<Bound>>, Granted)[i] = <<Bound, Granted>>[i]
            <6>1. \A i \in 1 .. 2 : i = 1 \/ i = 2
                OBVIOUS
            <6>2. <<Bound, Granted>>[1] = Bound /\ <<Bound, Granted>>[2] = Granted
                OBVIOUS
            <6> QED
                BY <5>1, <6>1, <6>2
          <5> DEFINE a == Append(<<Bound>>, Granted)
                     b == <<Bound, Granted>>
          <5>3. a \in Seq(Units) /\ b \in Seq(Units) /\ Len(a) = Len(b)
                /\ \A i \in 1 .. Len(a) : a[i] = b[i]
              BY <5>1, <5>2
          <5> HIDE DEF a, b
          <5>4. a = b
              BY <5>3, SeqEqual
          <5> QED
              BY <5>4 DEF a, b
        <4> QED
            BY <3>1, <3>2, <4>1, <4>2, <4>3 DEF Replies
      <3> QED
          BY <3>3, <3>4
    <2> QED
        BY <2>1, <2>2
  <1>8. Streams' = [Streams EXCEPT !["client"] = TwoWay!Give("client", Granted),
                                   !["target"] = Leftover]
      BY <1>6, <1>7 DEF Streams
  <1> QED
      BY <1>1, <1>2, <1>3, <1>6, <1>8 DEF TwoWay!Open

LEMMA HandleRefines ==
    ASSUME IInv, IInv', proc = "request", NEW p, NEW left, UNCHANGED endpoints,
           \/ reset["client"] = "no" /\ Handle(p, left)
           \/ HandleThrows(p, left)
    PROVE  TwoWay!StreamNext \/ UNCHANGED TwoWay!streamVars
  <1> USE EndpointFacts
  <1>1. /\ TypeOK /\ got["client"] = <<>> /\ toPeer["client"] = <<>>
        /\ shut["client"] = "open" /\ toPeer["target"] = <<>>
        /\ \A e \in Endpoints : op[e] = "off"
      BY NoRelayFacts DEF IInv, RepliesOK
  <1>2. UNCHANGED <<sent, fin, reset, got, eof>> /\ Lost' = Lost
      BY LostSame DEF endpoints
  <1>3. Phase = "asking"
      BY PhaseFacts
  <1>4. CASE proc' = "connect" /\ UNCHANGED <<op, toPeer, shut>>
    <2>1. Phase' = "asking"
        BY <1>1, <1>4 DEF Phase, Running
    <2>2. Streams' = Streams
        BY <1>1, <1>2, <1>4, ReadableOff, StreamsSame
    <2> QED
        BY <1>2, <1>3, <2>1, <2>2 DEF TwoWay!streamVars
  <1>5. CASE /\ proc' = "bind" /\ UNCHANGED <<op, shut>> /\ reset["client"] = "no"
             /\ toPeer' = [toPeer EXCEPT !["client"] = Append(@, Bound)]
    <2>1. toPeer'["client"] = <<Bound>> /\ toPeer'["target"] = toPeer["target"]
      <3>1. Append(<<>>, Bound) = <<Bound>>
          OBVIOUS
      <3> QED
          BY <1>1, <1>5, <3>1 DEF TypeOK
    <2>2. Phase' = "asking"
        BY <1>1, <1>5 DEF Phase, Running
    <2>3. Readable("target")' = Readable("target")
        BY <1>1, <1>2, <1>5, <2>1, ReadableOff
    <2>4. Readable("client") = <<>> /\ Readable("client")' = <<Bound>>
      <3>1. <<>> \o <<>> = <<>> /\ <<>> \o <<Bound>> = <<Bound>>
          BY UnitFacts, ConcatEmptySeq, EmptySeq
      <3> QED
          BY <1>1, <1>2, <1>5, <2>1, <3>1 DEF Readable
    <2>5. Streams' = [Streams EXCEPT !["client"] = <<Bound>>]
        BY <2>3, <2>4, StreamsChange
    <2>6. TwoWay!Offer
        BY <1>2, <1>3, <1>5, <2>2, <2>4, <2>5, ViewFacts DEF TwoWay!Offer
    <2> QED
        BY <2>6 DEF TwoWay!StreamNext
  <1>6. ASSUME NEW how \in {"exited", "aborted"}, NEW queued \in [Endpoints -> Seq(Units)],
               CloseAll(how, left, queued), queued["target"] = <<>>,
               queued["client"] \in {<<>>, <<Rejected>>}
        PROVE  TwoWay!StreamNext
    <2>1. /\ proc' = how /\ \A e \in Endpoints : op'[e] = "off"
          /\ toPeer'["target"] = <<>>
      <3>1. ~ Connected("target")
          BY DEF Connected
      <3> QED
          BY <1>1, <1>6, <3>1, CloseAllFacts
    <2>2. toPeer'["client"] \in {<<>>, <<Rejected>>}
      <3>1. PICK m \in 0 .. Len(queued["client"]) :
                toPeer'["client"] = SubSeq(queued["client"], 1, m)
          BY <1>1, <1>6, CloseAllFacts
      <3>2. <<>> \in Seq(Units) /\ <<Rejected>> \in Seq(Units)
            /\ Len(<<>>) = 0 /\ Len(<<Rejected>>) = 1
          BY UnitFacts
      <3>3. queued["client"] \in Seq(Units) /\ Len(queued["client"]) \in {0, 1}
          BY <1>6, <3>2
      <3>4. toPeer'["client"] \in {<<>>, queued["client"]}
          BY <3>1, <3>3, ShortCut
      <3> QED
          BY <1>6, <3>4
    <2>3. TwoWay!Refuse
        BY <1>1, <1>6, <2>1, <2>2, EarlyRefines
    <2> QED
        BY <2>3 DEF TwoWay!StreamNext
  <1>7. CASE reset["client"] = "no" /\ Handle(p, left)
    <2>1. CASE Refuse(left)
      <3> DEFINE queued == [toPeer EXCEPT !["client"] = Append(@, Rejected)]
      <3>1. /\ queued \in [Endpoints -> Seq(Units)] /\ queued["target"] = <<>>
            /\ queued["client"] = <<Rejected>>
        <4>1. Append(<<>>, Rejected) = <<Rejected>> /\ <<Rejected>> \in Seq(Units)
            BY UnitFacts
        <4> QED
            BY <1>1, <4>1 DEF TypeOK
      <3>2. CloseAll("exited", left, queued)
          BY <2>1 DEF Refuse
      <3> HIDE DEF queued
      <3> QED
          BY <1>6, <3>1, <3>2
    <2> QED
        BY <1>4, <1>5, <1>7, <2>1 DEF Handle
  <1>8. CASE HandleThrows(p, left)
    <2>1. CloseAll("aborted", left, toPeer) /\ toPeer \in [Endpoints -> Seq(Units)]
        BY <1>1, <1>8 DEF HandleThrows, TypeOK
    <2> QED
        BY <1>1, <1>6, <2>1
  <1> QED
      BY <1>7, <1>8

-----------------------------------------------------------------------------
(* Steps of the relay. *)

\* A step by which no end writes, reads or breaks is not seen.
LEMMA RelayUnseen ==
    ASSUME IInv, UNCHANGED <<session, sent, got, fin, eof>>,
           \A x \in Endpoints : /\ op[x] # "off" /\ op'[x] # "off"
                                /\ reset'[x] # "no" <=> reset[x] # "no"
    PROVE  UNCHANGED <<Streams, Lost, got, fin, eof>>
  <1>1. \A x \in Endpoints : Readable(x)' = Readable(x)
      BY ReadableOn, EndpointFacts
  <1> QED
      BY <1>1, StreamsSame, LostSame

LEMMA RelayStutters ==
    ASSUME IInv, proc = "relay", UNCHANGED <<proc, session, sent, got, fin, eof>>,
           \A x \in Endpoints : /\ op'[x] # "off"
                                /\ reset'[x] # "no" <=> reset[x] # "no"
    PROVE  UNCHANGED TwoWay!streamVars
  <1>1. \A x \in Endpoints : op[x] # "off" /\ op'[x] # "off"
      BY RelayFacts
  <1>2. Phase' = Phase
      BY <1>1, EndpointFacts DEF Phase, Running
  <1> QED
      BY <1>1, <1>2, RelayUnseen DEF TwoWay!streamVars

LEMMA ChainStutters ==
    ASSUME IInv, NEW e \in Endpoints,
           \/ ReadSome(e) \/ ReadError(e) \/ WriteSome(e) \/ WriteError(e)
           \/ ReadEof(e) /\ proc' = proc
    PROVE  UNCHANGED TwoWay!streamVars
  <1> USE EndpointFacts
  <1>1. proc = "relay" /\ UNCHANGED <<proc, session, sent, got, fin, eof>>
      BY DEF ReadSome, ReadError, WriteSome, WriteError, ReadEof, endpoints
  <1>2. \A x \in Endpoints : op[x] # "off"
      BY <1>1, RelayFacts
  <1>3. \A x \in Endpoints : op'[x] # "off"
    <2>1. CASE ReadEof(e) /\ proc' = proc
      <3>1. op' = [op EXCEPT ![e] = "stopped"]
          BY <1>1, <2>1 DEF ReadEof, Abort, CloseAll
      <3> QED
          BY <1>2, <3>1 DEF IInv, TypeOK
    <2>2. CASE ReadSome(e) \/ ReadError(e) \/ WriteSome(e) \/ WriteError(e)
      <3>1. PICK w \in {"read", "write", "stopped"} : op' = [op EXCEPT ![e] = w]
          BY <2>2 DEF ReadSome, ReadError, WriteSome, WriteError
      <3> QED
          BY <1>2, <3>1 DEF IInv, TypeOK
    <2> QED
        BY <2>1, <2>2
  <1>4. \A x \in Endpoints : reset'[x] # "no" <=> reset[x] # "no"
      BY DEF ReadSome, ReadError, WriteSome, WriteError, ReadEof, endpoints, IInv, TypeOK
  <1> QED
      BY <1>1, <1>3, <1>4, RelayStutters

\* The session is given up when no direction can be used any more.
LEMMA CloseRefines ==
    ASSUME IInv, proc = "relay", NEW how \in {"exited", "aborted"},
           CloseAll(how, toServer, toPeer), UNCHANGED <<session, buf, toServer, endpoints>>,
           (\A e \in Endpoints : op[e] = "stopped") \/ (\E e \in Endpoints : reset[e] # "no")
    PROVE  TwoWay!Close
  <1> USE EndpointFacts
  <1>1. \A x \in Endpoints : op[x] # "off" /\ op'[x] # "off"
      BY RelayFacts DEF CloseAll
  <1>2. UNCHANGED <<Streams, Lost, got, fin, eof>>
      BY <1>1, RelayUnseen DEF endpoints
  <1>3. Phase = "open" /\ Phase' = "closed"
      BY <1>1 DEF Phase, Running, CloseAll
  <1>4. (\A e \in Endpoints : fin[e]) \/ (\E e \in Endpoints : Lost[e])
    <2> SUFFICES ASSUME \A e \in Endpoints : reset[e] = "no" PROVE \A e \in Endpoints : fin[e]
        BY ViewFacts
    <2> SUFFICES ASSUME NEW e \in Endpoints PROVE fin[e]
        OBVIOUS
    <2>1. op[e] = "stopped" /\ reset[e] = "no" /\ reset[Other(e)] = "no"
        OBVIOUS
    <2> QED
        BY <1>1, <2>1 DEF IInv, EofOK
  <1> QED
      BY <1>2, <1>3, <1>4, EndsAre DEF TwoWay!Close

-----------------------------------------------------------------------------
(* Steps of the endpoints. *)

LEMMA SendRefines ==
    ASSUME IInv, IInv', NEW e \in Endpoints, Send(e)
    PROVE  TwoWay!Write(e)
  <1> DEFINE o == Other(e)
             x == Data(sent[e] + 1)
  <1>1. /\ TypeOK /\ TypeOK' /\ Running /\ MaySend(e) /\ ~ fin[e] /\ reset[e] = "no"
        /\ sent[e] < MaxUnits /\ sent' = [sent EXCEPT ![e] = @ + 1]
        /\ UNCHANGED <<proc, session, op, toPeer, fin, reset, got, eof>>
      BY DEF Send, IInv
  <1>2. o \in Endpoints /\ o # e /\ Other(o) = e
      BY EndpointFacts
  <1>3. \A y \in Endpoints : op[y] # "off" /\ op'[y] # "off"
    <2>1. op[e] # "off"
        BY <1>1, OffFacts
    <2> QED
        BY <1>1, <2>1, RelayFacts
  <1>4. Phase = "open" /\ Phase' = "open" /\ Lost' = Lost /\ ~ Lost[e]
      BY <1>1, <1>3, EndpointFacts, LostSame, ViewFacts DEF Phase, Running
  <1>5. x \in {Data(n) : n \in 1 .. MaxUnits} /\ x \in Units
    <2>1. sent[e] + 1 \in 1 .. MaxUnits
        BY <1>1, SocksSessionAssumption DEF TypeOK
    <2> QED
        BY <2>1, UnitFacts
  <1>6. \A y \in Endpoints : y # o => Readable(y)' = Readable(y)
    <2>1. sent'[o] = sent[o] /\ \A y \in Endpoints : y # o => y = e
        BY <1>1, <1>2, EndpointFacts DEF TypeOK
    <2> QED
        BY <1>1, <1>3, <2>1, ReadableOn
  <1>7. Readable(o)' = TwoWay!Give(o, x)
    <2>1. CASE reset[o] # "no"
        BY <1>1, <1>2, <2>1, ViewFacts DEF Readable, TwoWay!Give
    <2>2. CASE reset[o] = "no"
      <3>1. Base(o)' = Base(o) /\ Base(o) \in Seq(Units)
          BY <1>1, <1>2, StreamFacts, StreamSame DEF session
      <3>2. sent[e] \in Nat /\ sent'[e] = sent[e] + 1
          BY <1>1 DEF TypeOK
      <3>3. StreamTo(o) = Base(o) \o Written(sent[e]) /\ StreamTo(o)' = Base(o)' \o Written(sent'[e])
          BY <1>2 DEF StreamTo, Base, DataOf, Written
      <3>4. Append(StreamTo(o), x) = StreamTo(o)'
          BY <1>1, <3>1, <3>2, <3>3, WrittenMore
      <3>5. Readable(o)' = StreamTo(o)' /\ TwoWay!Give(o, x) = Append(StreamTo(o), x)
          BY <1>1, <1>2, <1>3, <2>2, ViewFacts DEF Readable, TwoWay!Give
      <3> QED
          BY <3>4, <3>5
    <2> QED
        BY <2>1, <2>2
  <1>8. Streams' = [Streams EXCEPT ![o] = TwoWay!Give(o, x)]
      BY <1>2, <1>6, <1>7, StreamsChange
  <1> QED
      BY <1>1, <1>4, <1>5, <1>8, EndsAre DEF TwoWay!Write

LEMMA FinishRefines ==
    ASSUME IInv, NEW e \in Endpoints, Finish(e)
    PROVE  TwoWay!Stop(e)
  <1> USE EndpointFacts
  <1>1. /\ Running /\ Connected(e) /\ ~ fin[e] /\ reset[e] = "no"
        /\ fin' = [fin EXCEPT ![e] = TRUE]
        /\ UNCHANGED <<proc, session, op, toPeer, sent, reset, got, eof>>
      BY DEF Finish, kernel
  <1>2. Phase' = Phase /\ (Phase = "open" \/ (Phase = "asking" /\ e = "client"))
      BY <1>1, PhaseFacts DEF Phase, Running, Connected, IInv, TypeOK
  <1>3. Lost' = Lost /\ ~ Lost[e]
      BY <1>1, LostSame, ViewFacts
  <1>4. Streams' = Streams
      BY <1>1, ReadableOff, ReadableOn, StreamsSame
  <1> QED
      BY <1>1, <1>2, <1>3, <1>4 DEF TwoWay!Stop

LEMMA ResetRefines ==
    ASSUME IInv, NEW e \in Endpoints, Reset(e)
    PROVE  TwoWay!Lose(e)
  <1> USE EndpointFacts
  <1>1. /\ TypeOK /\ Running /\ Connected(e) /\ reset[e] = "no"
        /\ reset' = [reset EXCEPT ![e] = "pending"] /\ toPeer' = [toPeer EXCEPT ![e] = <<>>]
        /\ UNCHANGED <<proc, session, op, sent, fin, got, eof>>
      BY DEF Reset, IInv
  <1>2. Phase' = Phase /\ (Phase = "open" \/ (Phase = "asking" /\ e = "client"))
      BY <1>1, PhaseFacts DEF Phase, Running, Connected, TypeOK
  <1>3. reset'[e] = "pending" /\ \A x \in Endpoints : x # e => reset'[x] = reset[x]
                                                             /\ toPeer'[x] = toPeer[x]
      BY <1>1 DEF TypeOK
  <1>4. Lost' = [Lost EXCEPT ![e] = TRUE] /\ ~ Lost[e]
    <2>1. \A x \in Endpoints : reset'[x] # "no" <=> (x = e \/ reset[x] # "no")
        BY <1>3
    <2>2. Lost' = [Lost EXCEPT ![e] = TRUE]
      <3>1. Lost' = [x \in Endpoints |-> x = e \/ reset[x] # "no"]
          BY <2>1 DEF Lost
      <3>2. [Lost EXCEPT ![e] = TRUE] = [x \in Endpoints |-> x = e \/ reset[x] # "no"]
          BY DEF Lost
      <3> QED
          BY <3>1, <3>2
    <2>3. ~ Lost[e]
        BY <1>1, ViewFacts
    <2> QED
        BY <2>2, <2>3
  <1>5. Readable(e)' = got[e]
      BY <1>1, <1>3 DEF Readable
  <1>6. \A x \in Endpoints : x # e => Readable(x)' = Readable(x)
      BY <1>1, <1>3, ReadableOff, ReadableOn
  <1>7. Streams' = [Streams EXCEPT ![e] = got[e]]
      BY <1>5, <1>6, StreamsChange
  <1> QED
      BY <1>1, <1>2, <1>4, <1>7 DEF TwoWay!Lose

\* A unit that comes out of the queue is the next of the stream.
LEMMA ReceiveRefines ==
    ASSUME RInv, NEW e \in Endpoints, Receive(e)
    PROVE  TwoWay!Read(e)
  <1> DEFINE c == Other(e)
             q == got[e]
             tp == toPeer[e]
             t == Readable(e)
  <1>1. /\ IInv /\ TypeOK /\ reset[e] = "no" /\ tp # <<>> /\ ~ eof[e]
        /\ got' = [got EXCEPT ![e] = Append(q, Head(tp))]
        /\ toPeer' = [toPeer EXCEPT ![e] = Tail(tp)]
        /\ UNCHANGED <<proc, session, op, sent, fin, reset, eof>>
      BY DEF Receive, RInv, IInv, EofEmpty
  <1>2. c \in Endpoints /\ c # e /\ Other(c) = e
      BY EndpointFacts
  <1>3. /\ q \in Seq(Units) /\ tp \in Seq(Units) /\ Len(q) \in Nat
        /\ got'[e] = Append(q, Head(tp)) /\ toPeer'[e] = Tail(tp)
        /\ \A x \in Endpoints : x # e => got'[x] = got[x] /\ toPeer'[x] = toPeer[x]
      BY <1>1, LenProperties DEF TypeOK
  <1>4. Phase' = Phase /\ Lost' = Lost /\ ~ Lost[e]
      BY <1>1, LostSame, ViewFacts DEF Phase, Running
  <1>5. \A x \in Endpoints : x # e => Readable(x)' = Readable(x)
      BY <1>1, <1>3, ReadableOff, ReadableOn, EndpointFacts
  <1>6. t' = t /\ Len(q) < Len(t) /\ t[Len(q) + 1] = Head(tp)
    <2>1. CASE op[e] = "off"
      <3>1. t = q \o tp /\ t' = Append(q, Head(tp)) \o Tail(tp)
          BY <1>1, <1>3, <2>1 DEF Readable
      <3>2. /\ Append(q, Head(tp)) \o Tail(tp) = q \o tp
            /\ Len(q) < Len(q \o tp) /\ (q \o tp)[Len(q) + 1] = Head(tp)
        <4> HIDE DEF q, tp
        <4> QED
            BY <1>1, <1>3, ShiftFacts
      <3> QED
          BY <3>1, <3>2
    <2>2. CASE op[e] # "off"
      <3>1. op[c] # "off"
          BY <1>1, <1>2, <2>2, RelayFacts
      <3>2. t' = t
          BY <1>1, <1>2, <2>2, ReadableOn, EndpointFacts
      <3>3. t = StreamTo(e)
          BY <1>1, <2>2 DEF Readable
      <3>4. /\ Length(e) \in Nat /\ Len(t) = Length(e)
            /\ \A i \in 1 .. Length(e) : t[i] = Stream(e)[i]
          BY <1>1, <3>3, StreamToFacts
      <3>5. Agrees(tp, Stream(e), Len(q)) /\ Len(q) + Len(tp) <= Length(e)
          BY <1>1, <1>2, <3>1 DEF IInv, Flow, FlowOK
      <3> HIDE DEF t, q, tp
      <3>6. Head(tp) = Stream(e)[Len(q) + 1] /\ Len(tp) \in Positive
          BY <1>1, <1>3, <3>5, AgreesTail
      <3>7. Len(q) + 1 \in 1 .. Length(e) /\ Len(q) < Length(e)
          BY <1>3, <3>4, <3>5, <3>6 DEF Positive
      <3> QED
          BY <3>2, <3>4, <3>6, <3>7
    <2> QED
        BY <2>1, <2>2
  <1>7. Streams' = Streams
      BY <1>5, <1>6, StreamsSame
  <1>8. Streams[e] = t
      BY ViewFacts
  <1> HIDE DEF t, tp
  <1> QED
      BY <1>1, <1>4, <1>6, <1>7, <1>8 DEF TwoWay!Read

\* And after the last of them.
LEMMA ReceiveEofRefines ==
    ASSUME IInv, NEW e \in Endpoints, ReceiveEof(e)
    PROVE  TwoWay!End(e)
  <1> DEFINE c == Other(e)
  <1>1. /\ TypeOK /\ reset[e] = "no" /\ toPeer[e] = <<>> /\ shut[e] = "fin" /\ ~ eof[e]
        /\ eof' = [eof EXCEPT ![e] = TRUE] /\ got[e] \in Seq(Units)
        /\ UNCHANGED <<proc, session, op, toPeer, sent, fin, reset, got>>
      BY DEF ReceiveEof, IInv, kernel, TypeOK
  <1>2. c \in Endpoints /\ c # e /\ Other(c) = e
      BY EndpointFacts
  <1>3. Phase' = Phase /\ Lost' = Lost /\ ~ Lost[e]
      BY <1>1, LostSame, ViewFacts DEF Phase, Running
  <1>4. Streams' = Streams
      BY <1>1, ReadableOff, ReadableOn, StreamsSame, EndpointFacts
  <1>5. Lost[c] \/ (got[e] = Streams[e] /\ (fin[c] \/ Phase = "refused"))
    <2>1. CASE op[e] = "off"
      <3>1. op["client"] = "off" /\ e = "client"
          BY <1>1, <2>1, OffFacts, EndpointFacts
      <3>2. proc \notin {"request", "connect", "bind"}
          BY <1>1, <3>1 DEF IInv, RepliesOK
      <3>3. Phase = "refused"
          BY <3>1, <3>2, OffFacts, PhaseFacts DEF Running, IInv, TypeOK
      <3>4. Readable(e) = got[e]
          BY <1>1, <2>1, ConcatEmptySeq DEF Readable
      <3> QED
          BY <3>3, <3>4, ViewFacts
    <2>2. CASE op[e] # "off" /\ reset[c] = "no"
      <3>1. op[c] # "off"
          BY <1>1, <1>2, <2>2, RelayFacts
      <3>2. fin[c] /\ Len(got[e]) + Len(toPeer[e]) = Length(e)
          BY <1>1, <1>2, <2>2, <3>1 DEF IInv, EofOK
      <3>3. Agrees(got[e], Stream(e), 0) /\ Len(got[e]) <= Length(e)
          BY <1>1, <1>2, <3>1 DEF IInv, Flow, FlowOK
      <3>4. Len(got[e]) = Length(e)
        <4>1. Len(toPeer[e]) = 0 /\ Len(got[e]) \in Nat
            BY <1>1, EmptySeq, LenProperties
        <4> QED
            BY <3>2, <4>1
      <3>5. got[e] = StreamTo(e)
          BY <1>1, <3>3, <3>4, PrefixFacts
      <3>6. Readable(e) = got[e]
          BY <1>1, <2>2, <3>5 DEF Readable
      <3> QED
          BY <3>2, <3>6, ViewFacts
    <2>3. CASE reset[c] # "no"
      <3>1. Lost[c]
          BY <1>2, <2>3, ViewFacts
      <3> QED
          BY <3>1
    <2> HIDE DEF c
    <2> QED
        BY <2>1, <2>2, <2>3
  <1> QED
      BY <1>1, <1>3, <1>4, <1>5, EndsAre DEF TwoWay!End

-----------------------------------------------------------------------------
(* The refinement. *)

LEMMA NextRefines ==
    RInv /\ RInv' /\ [Next]_vars => [TwoWay!StreamNext]_(TwoWay!streamVars)
  <1> SUFFICES ASSUME RInv, RInv', [Next]_vars
               PROVE  TwoWay!StreamNext \/ UNCHANGED TwoWay!streamVars
      OBVIOUS
  <1> USE EndpointFacts DEF RInv
  <1>1. CASE ReadRequest
    <2>1. proc = "request" /\ UNCHANGED endpoints
        BY <1>1 DEF ReadRequest
    <2>2. LET left == [toServer EXCEPT !["client"] = <<>>]
          IN  (reset["client"] = "no" /\ Handle(asked, left)) \/ HandleThrows(asked, left)
        BY <1>1 DEF ReadRequest
    <2> QED
        BY <2>1, <2>2, HandleRefines
  <1>2. CASE ReadPiece
    <2> DEFINE left == [toServer EXCEPT !["client"] = IF @ = <<>> THEN @ ELSE <<Rest>>]
    <2>1. proc = "request" /\ UNCHANGED endpoints
        BY <1>2 DEF ReadPiece
    <2>2. PICK p \in Requests : \/ reset["client"] = "no" /\ Handle(p, left)
                                \/ HandleThrows(p, left)
        BY <1>2 DEF ReadPiece
    <2> QED
        BY <2>1, <2>2, HandleRefines
  <1>3. CASE ConnectOk
      BY <1>3, StartRefines DEF ConnectOk, TwoWay!StreamNext
  <1>4. ASSUME proc \in {"connect", "bind"}, NEW how \in {"exited", "aborted"},
               CloseAll(how, toServer, toPeer), UNCHANGED endpoints,
               proc = "bind" => reset["client"] # "no"
        PROVE  TwoWay!StreamNext
    <2>1. TypeOK /\ toPeer \in [Endpoints -> Seq(Units)] /\ ~ Connected("target")
          /\ \A e \in Endpoints : op[e] = "off"
        BY <1>4, NoRelayFacts DEF IInv, TypeOK
    <2>2. /\ proc' = how /\ toPeer'["target"] = toPeer["target"]
          /\ \A e \in Endpoints : op'[e] = "off"
        BY <1>4, <2>1, CloseAllFacts
    <2>3. proc = "connect" => toPeer'["client"] = toPeer["client"]
      <3> SUFFICES ASSUME proc = "connect" PROVE toPeer'["client"] = toPeer["client"]
          OBVIOUS
      <3>1. toPeer["client"] = <<>>
          BY DEF IInv, RepliesOK
      <3>2. PICK m \in 0 .. Len(toPeer["client"]) :
                toPeer'["client"] = SubSeq(toPeer["client"], 1, m)
          BY <1>4, <2>1, CloseAllFacts
      <3>3. <<>> \in Seq(Units) /\ Len(<<>>) = 0
          BY EmptySeq
      <3> QED
          BY <3>1, <3>2, <3>3, ShortCut
    <2>4. TwoWay!Refuse
        BY <1>4, <2>2, <2>3, EarlyRefines
    <2> QED
        BY <2>4 DEF TwoWay!StreamNext
  <1>5. CASE ConnectFails
      BY <1>4, <1>5 DEF ConnectFails
  <1>6. CASE BindAccept
    <2>1. CASE reset["client"] = "no" /\ StartRelay
        BY <1>6, <2>1, StartRefines DEF BindAccept, TwoWay!StreamNext
    <2>2. CASE reset["client"] # "no" /\ Abort /\ UNCHANGED endpoints
        BY <1>4, <1>6, <2>2 DEF BindAccept, Abort
    <2> QED
        BY <1>6, <2>1, <2>2 DEF BindAccept
  <1>7. CASE Exit
    <2>1. TwoWay!Close
        BY <1>7, CloseRefines DEF Exit
    <2> QED
        BY <2>1 DEF TwoWay!StreamNext
  <1>8. ASSUME NEW e \in Endpoints, ReadEof(e)
        PROVE  TwoWay!StreamNext \/ UNCHANGED TwoWay!streamVars
    <2>1. CASE proc' = proc
        BY <1>8, <2>1, ChainStutters
    <2>2. CASE Abort /\ reset[Other(e)] # "no"
      <3>1. CloseAll("aborted", toServer, toPeer)
          BY <2>2 DEF Abort
      <3>2. proc = "relay" /\ UNCHANGED <<session, buf, toServer, endpoints>>
          BY <1>8 DEF ReadEof
      <3>3. TwoWay!Close
          BY <2>2, <3>1, <3>2, CloseRefines
      <3> QED
          BY <3>3 DEF TwoWay!StreamNext
    <2> QED
        BY <1>8, <2>1, <2>2 DEF ReadEof
  <1>9. ASSUME NEW e \in Endpoints, ReadSome(e) \/ ReadError(e) \/ WriteSome(e) \/ WriteError(e)
        PROVE  UNCHANGED TwoWay!streamVars
      BY <1>9, ChainStutters
  <1>10. ASSUME NEW e \in Endpoints,
                Send(e) \/ Finish(e) \/ Reset(e) \/ Receive(e) \/ ReceiveEof(e)
         PROVE  TwoWay!StreamNext
    <2>1. TwoWay!Write(e) \/ TwoWay!Stop(e) \/ TwoWay!Lose(e) \/ TwoWay!Read(e) \/ TwoWay!End(e)
        BY <1>10, SendRefines, FinishRefines, ResetRefines, ReceiveRefines, ReceiveEofRefines
    <2> QED
        BY <2>1, EndsAre DEF TwoWay!StreamNext
  <1>11. CASE UNCHANGED vars
    <2>1. UNCHANGED <<proc, session, op, toPeer, sent, fin, reset, got, eof>>
        BY <1>11 DEF vars, session
    <2>2. Phase' = Phase /\ Lost' = Lost
        BY <2>1, LostSame DEF Phase, Running
    <2>3. Streams' = Streams
        BY <2>1, ReadableOff, ReadableOn, StreamsSame
    <2> QED
        BY <2>1, <2>2, <2>3 DEF TwoWay!streamVars
  <1> QED
      BY <1>1, <1>2, <1>3, <1>5, <1>6, <1>7, <1>8, <1>9, <1>10, <1>11 DEF Next

\* The chains, their arrays, the kernel's queues and every order of handlers
\* behave as two streams that end one by one: SocksSession implements
\* TwoWayStream.
THEOREM StreamImplemented == Spec => ImplementsStream
  <1>1. Spec => TwoWay!Init /\ [][TwoWay!StreamNext]_(TwoWay!streamVars)
      BY InitRefines, NextRefines, RefinementInvariance, PTL DEF Spec
  <1> QED
      BY <1>1 DEF ImplementsStream, TwoWay!StreamSpec
=============================================================================
