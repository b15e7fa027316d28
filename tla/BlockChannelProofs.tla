------------------------- MODULE BlockChannelProofs -------------------------
(***************************************************************************)
(* Proofs about the block channel, for blocks, lengths and requests of any *)
(* size, any cut of the bytes, any number of plans and any deaths: what is *)
(* taken is what was sent, success is told of what is unpacked, and the    *)
(* reasons for which two servers may hang.                                 *)
(*                                                                         *)
(* The argument has two parts.  Where a server's bytes are in order, what  *)
(* its block thread has collected and what is still to come fit together   *)
(* (Collecting); this holds at every cut.  And each server sends and takes *)
(* one block per plan, so that the numbers of the blocks tell the plans    *)
(* (Working).                                                              *)
(***************************************************************************)
EXTENDS BlockChannel, SequenceLemmas

-----------------------------------------------------------------------------
(* The bytes of a server                                                    *)

\* Bytes of the blocks that were sent to s, or of the request
ByteFrom(low, s) == (low .. Len(sent[s])) \X Nat

BlockOf(B) == {b \in [length : Nat, data : Seq(B)] : Len(b.data) <= b.length}
AnyByte    == Nat \X Nat
Sent       == [type : {"pack", "result"}, plan : Nat, length : Nat \ {0}]
Request    == [type : {"pack"}] \cup [type : {"unpack"}, block : Nat]

\* The bytes q are ends of blocks of sq, from any place of the first one: each
\* block goes on to its end, after which the next one begins.
SizeOf(sq, k) == HeadBytes + sq[k].length
InOrder(sq, q) ==
  \A i \in 1 .. Len(q) :
    /\ q[i][1] \in 1 .. Len(sq) /\ q[i][2] \in 1 .. SizeOf(sq, q[i][1])
    /\ LET end == i + SizeOf(sq, q[i][1]) - q[i][2] IN
         /\ end <= Len(q)
         /\ \A j \in i .. end : q[j] = <<q[i][1], q[i][2] + (j - i)>>
         /\ IF end = Len(q) THEN q[i][1] = Len(sq) ELSE q[end + 1] = <<q[i][1] + 1, 1>>

\* The first of the bytes q is the i-th of block k.
Comes(sq, q, k, i) == IF q = <<>> THEN k = Len(sq) + 1 /\ i = 1 ELSE q[1] = <<k, i>>

\* b has the beginning of block k.
Holds(sq, k, b) ==
  /\ k \in 1 .. Len(sq) /\ b.length = sq[k].length /\ Len(b.data) <= b.length
  /\ \A i \in 1 .. Len(b.data) : b.data[i] = <<k, HeadBytes + i>>

\* After n blocks were taken, the list has the next ones, the last one of them
\* perhaps in part, and q goes on from there.
Collecting(sq, n, list, q) ==
  /\ InOrder(sq, q)
  /\ \A j \in 1 .. Len(list) - 1 : Holds(sq, n + j, list[j]) /\ IsWhole(list[j])
  /\ list = <<>> => Comes(sq, q, n + 1, 1)
  /\ list # <<>> =>
       LET m == n + Len(list)
           b == list[Len(list)]
       IN  \/ b = Fresh /\ Comes(sq, q, m, 1)
           \/ Holds(sq, m, b) /\ IsWhole(b) /\ Comes(sq, q, m + 1, 1)
           \/ Holds(sq, m, b) /\ ~IsWhole(b) /\ Comes(sq, q, m, HeadBytes + Len(b.data) + 1)

Received(s) ==
  /\ Collecting(sent[s], Len(taken[s]), blocks[s], buffer[s] \o wire[s])
  /\ buffer[s] # <<>> => Len(buffer[s]) < HeadBytes /\ blocks[s] # <<>> /\ blocks[s][Len(blocks[s])] = Fresh
  /\ \A k \in 1 .. Len(taken[s]) : k <= Len(sent[s]) /\ taken[s][k] = Payload(k, sent[s][k].length)

-----------------------------------------------------------------------------
(* The plans                                                                *)

HasSent(s)  == pc[s] = "idle" \/ (pc[s] # "packing" /\ IsSource(s))
HasTaken(s) == pc[s] \in {"idle", "unpacking"}

\* Each server sends one block per plan and takes one.
Working(s) ==
  /\ pc[s] \notin {"setup", "response", "ended"}
  /\ job[s] \in 0 .. Len(plans) /\ (job[s] = 0 => pc[s] = "idle")
  /\ Len(orders[s]) = Len(plans) - job[s] /\ \A i \in 1 .. Len(orders[s]) : orders[s][i] = job[s] + i
  /\ pc[s] = "packing" => IsSource(s)
  /\ pc[s] = "unpacking" => ~IsSource(s)
  /\ Len(sent[Peer(s)]) = IF HasSent(s) THEN job[s] ELSE job[s] - 1
  /\ Len(taken[s]) = IF HasTaken(s) THEN job[s] ELSE job[s] - 1
  /\ \A k \in 1 .. Len(sent[Peer(s)]) : sent[Peer(s)][k].plan = k
  /\ pc[s] \in {"front", "toWaitWhole", "waitWhole", "take"} => blocks[s] # <<>>
  /\ pc[s] = "take" => IsWhole(Head(blocks[s]))

\* The main thread has at most the one request of the command thread.
Serving(s) ==
  \/ pc[s] \notin {"packing", "unpacking"} /\ inQueue[s] = <<>> /\ outQueue[s] = <<>>
  \/ pc[s] = "packing" /\ inQueue[s] = <<[type |-> "pack"]>> /\ outQueue[s] = <<>>
  \/ /\ pc[s] = "unpacking" /\ outQueue[s] = <<>>
     /\ inQueue[s] = <<[type |-> "unpack", block |-> taken[s][job[s]][1][1]]>>
  \/ pc[s] \in {"packing", "unpacking"} /\ inQueue[s] = <<>> /\ Len(outQueue[s]) = 1

\* What a destination has answered, or is about to, it has unpacked.
Unpacking(s) ==
  /\ \A k \in 1 .. Len(sent[Peer(s)]) : plans[k].to = s => k \in unpacked
  /\ pc[s] = "unpacking" /\ inQueue[s] = <<>> => job[s] \in unpacked

-----------------------------------------------------------------------------
(* The pair                                                                 *)

Place == {"setup", "response", "idle", "packing", "recv", "toWaitBlock", "waitBlock", "front",
          "toWaitWhole", "waitWhole", "take", "unpacking", "ended"}

TypeInv ==
  /\ plans \in Seq([from : Servers, to : Servers])
  /\ \A k \in 1 .. Len(plans) : plans[k].from # plans[k].to
  /\ orders \in [Servers -> Seq(Nat)] /\ job \in [Servers -> Nat]
  /\ pc \in [Servers -> Place]
  /\ pc[High] \notin {"setup", "response"}
  /\ inQueue \in [Servers -> Seq(Request)] /\ outQueue \in [Servers -> Seq(Nat \ {0})]
  /\ context \subseteq Servers /\ hasInit \subseteq Servers /\ eaten \subseteq Servers
  /\ wire \in [Servers -> Seq(AnyByte)] /\ buffer \in [Servers -> Seq(AnyByte)]
  /\ blocks \in [Servers -> Seq(BlockOf(AnyByte))]
  /\ sent \in [Servers -> Seq(Sent)] /\ taken \in [Servers -> Seq(Seq(AnyByte))]

NoBytes(s) == wire[s] = <<>> /\ buffer[s] = <<>> /\ blocks[s] = <<>>

\* Before the first plan
Unused ==
  /\ plans = <<>> /\ replies = {} /\ pc[High] = "idle"
  /\ \A s \in Servers :
       /\ orders[s] = <<>> /\ job[s] = 0 /\ inQueue[s] = <<>> /\ outQueue[s] = <<>>
       /\ sent[s] = <<>> /\ taken[s] = <<>>

\* Nobody has connected, or nobody will.
Apart ==
  /\ hasInit = {} /\ context = {} /\ eaten = {}
  /\ pc[Low] = "setup" => Unused
  /\ \A s \in Servers :
       /\ NoBytes(s) /\ sent[s] = <<>> /\ taken[s] = <<>>
       /\ pc[s] \in {"setup", "idle", "packing", "recv", "ended"}
  /\ \A r \in replies : r.result = 0

\* The request is on its way.
Asking ==
  /\ pc[Low] = "response" /\ Unused /\ NoBytes(Low)
  /\ hasInit = {} /\ context = {} /\ eaten = {}
  /\ buffer[High] \o wire[High] = Bytes(0, RequestBytes)
  /\ blocks[High] \in {<<>>, <<Fresh>>}

\* A part of it passed for a block.
Astray ==
  /\ pc[Low] = "response" /\ Unused /\ NoBytes(Low)
  /\ hasInit = {} /\ context = {} /\ eaten \subseteq {High}
  /\ buffer[High] \in Seq({0} \X (Nat \ {1})) /\ wire[High] \in Seq({0} \X (Nat \ {1}))

\* The answer is on its way.
Answered ==
  /\ pc[Low] = "response" /\ Unused
  /\ hasInit = {High} /\ context = {High} /\ eaten = {}
  /\ wire[Low] = Bytes(0, RequestBytes) /\ buffer[Low] = <<>> /\ blocks[Low] = <<>>
  /\ wire[High] = <<>> /\ buffer[High] = <<>> /\ blocks[High] \in {<<>>, <<Fresh>>}

BytesFit(s) ==
  /\ buffer[s] \in Seq(ByteFrom(1, s)) /\ wire[s] \in Seq(ByteFrom(1, s))
  /\ s \notin eaten => Received(s)
PlansFit(s) == Working(s) /\ Serving(s) /\ (eaten = {} => Unpacking(s))
Connected ==
  /\ hasInit = {High} /\ context = Servers /\ eaten \subseteq {Low}
  /\ \A s \in Servers : BytesFit(s) /\ PlansFit(s)
  /\ SuccessIsUnpacked

PairInv == Apart \/ Asking \/ Astray \/ Answered \/ Connected
ChannelInv == TypeInv /\ PairInv
-----------------------------------------------------------------------------
(* The bytes                                                                *)

LEMMA Positive == HeadBytes \in Nat \ {0} /\ RequestBytes \in Nat \ {0}
BY BlockChannelAssumption

LEMMA Sizes ==
  ASSUME NEW sq \in Seq(Sent), NEW k \in 1 .. Len(sq)
  PROVE  sq[k].length \in Nat \ {0} /\ SizeOf(sq, k) \in Nat /\ SizeOf(sq, k) > HeadBytes
<1>1. sq[k] \in Sent
  OBVIOUS
<1>2. sq[k].length \in Nat \ {0}
  BY <1>1 DEF Sent
<1> QED BY <1>2, Positive DEF SizeOf

LEMMA BytesAre ==
  ASSUME NEW n \in Nat, NEW length \in Nat
  PROVE  /\ Bytes(n, length) \in Seq({n} \X (Nat \ {0})) /\ Bytes(n, length) \in Seq(AnyByte)
         /\ Len(Bytes(n, length)) = HeadBytes + length
         /\ \A i \in 1 .. HeadBytes + length : Bytes(n, length)[i] = <<n, i>>
<1> DEFINE N == HeadBytes + length
<1>1. N \in Nat
  BY Positive
<1>2. \A i \in 1 .. N : <<n, i>> \in {n} \X (Nat \ {0}) /\ <<n, i>> \in AnyByte
  BY <1>1 DEF AnyByte
<1>3. Bytes(n, length) = [i \in 1 .. N |-> <<n, i>>]
  BY DEF Bytes
<1> HIDE DEF N
<1>4. /\ [i \in 1 .. N |-> <<n, i>>] \in Seq({n} \X (Nat \ {0}))
      /\ [i \in 1 .. N |-> <<n, i>>] \in Seq(AnyByte)
      /\ Len([i \in 1 .. N |-> <<n, i>>]) = N
  BY <1>1, <1>2
<1> QED BY <1>3, <1>4 DEF N

\* What is left of bytes in order is in order.
LEMMA OrderStays ==
  ASSUME NEW sq \in Seq(Sent), NEW q \in Seq(AnyByte), NEW p \in Seq(AnyByte), NEW d \in Nat,
         InOrder(sq, q), Len(p) = Len(q) - d, \A i \in 1 .. Len(p) : p[i] = q[i + d]
  PROVE  InOrder(sq, p)
<1> SUFFICES ASSUME NEW i \in 1 .. Len(p)
             PROVE  /\ p[i][1] \in 1 .. Len(sq) /\ p[i][2] \in 1 .. SizeOf(sq, p[i][1])
                    /\ LET end == i + SizeOf(sq, p[i][1]) - p[i][2] IN
                         /\ end <= Len(p)
                         /\ \A j \in i .. end : p[j] = <<p[i][1], p[i][2] + (j - i)>>
                         /\ IF end = Len(p) THEN p[i][1] = Len(sq) ELSE p[end + 1] = <<p[i][1] + 1, 1>>
  BY DEF InOrder
<1> DEFINE k == p[i][1]
           x == p[i][2]
           end == i + SizeOf(sq, k) - x
<1>1. i + d \in 1 .. Len(q) /\ p[i] = q[i + d] /\ Len(p) \in Nat /\ Len(q) \in Nat
  OBVIOUS
<1>2. k \in 1 .. Len(sq) /\ x \in 1 .. SizeOf(sq, k)
  BY <1>1 DEF InOrder
<1>3. SizeOf(sq, k) \in Nat
  BY <1>2, Sizes
<1>4. (i + d) + SizeOf(sq, k) - x = end + d /\ end \in Nat /\ i <= end
  <2> DEFINE S == SizeOf(sq, k)
  <2>1. S \in Nat /\ x \in 1 .. S /\ i \in Nat /\ d \in Nat
    BY <1>2, <1>3
  <2> HIDE DEF S, x
  <2>2. (i + d) + S - x = (i + S - x) + d /\ i + S - x \in Nat /\ i <= i + S - x
    BY <2>1
  <2> QED BY <2>2 DEF S
<1>5. /\ end + d <= Len(q)
      /\ \A j \in i + d .. end + d : q[j] = <<k, x + (j - (i + d))>>
      /\ IF end + d = Len(q) THEN k = Len(sq) ELSE q[end + d + 1] = <<k + 1, 1>>
  BY <1>1, <1>4 DEF InOrder
<1>6. end <= Len(p)
  BY <1>1, <1>4, <1>5
<1>7. ASSUME NEW j \in i .. end PROVE p[j] = <<k, x + (j - i)>>
  <2> HIDE DEF end
  <2>1. j + d \in i + d .. end + d /\ j \in 1 .. Len(p) /\ (j + d) - (i + d) = j - i
    BY <1>1, <1>4, <1>6
  <2>2. p[j] = q[j + d]
    BY <2>1
  <2> QED BY <2>1, <2>2, <1>5
<1>8. IF end = Len(p) THEN k = Len(sq) ELSE p[end + 1] = <<k + 1, 1>>
  <2>1. CASE end = Len(p)
    BY <2>1, <1>1, <1>4, <1>5
  <2>2. CASE end # Len(p)
    <3> DEFINE P == Len(p)
               Q == Len(q)
    <3>1. P \in Nat /\ Q \in Nat /\ P = Q - d /\ end \in Nat /\ end <= P /\ end # P
      BY <2>2, <1>1, <1>4, <1>6
    <3> HIDE DEF end, P, Q
    <3>2. end + 1 \in 1 .. P /\ (end + 1) + d = end + d + 1 /\ end + d # Q
      BY <3>1
    <3>3. p[end + 1] = q[end + d + 1]
      BY <3>2 DEF P
    <3> QED BY <3>2, <3>3, <2>2, <1>5 DEF Q
  <2> QED BY <2>1, <2>2
<1> QED BY <1>2, <1>6, <1>7, <1>8

\* Taking bytes of the first block leaves the rest of it, or the next block.
LEMMA ComesNext ==
  ASSUME NEW sq \in Seq(Sent), NEW q \in Seq(AnyByte), NEW p \in Seq(AnyByte), NEW d \in Nat,
         InOrder(sq, q), Len(p) = Len(q) - d, \A i \in 1 .. Len(p) : p[i] = q[i + d],
         NEW k \in 1 .. Len(sq), NEW i \in 1 .. SizeOf(sq, k), q # <<>>, q[1] = <<k, i>>
  PROVE  /\ i + d <= SizeOf(sq, k) => Comes(sq, p, k, i + d)
         /\ i + d = SizeOf(sq, k) + 1 => Comes(sq, p, k + 1, 1)
<1> DEFINE end == 1 + SizeOf(sq, k) - i
<1>1. SizeOf(sq, k) \in Nat
  BY Sizes
<1>2. 1 \in 1 .. Len(q) /\ q[1][1] = k /\ q[1][2] = i /\ Len(q) \in Nat /\ Len(p) \in Nat
  OBVIOUS
<1>3. /\ end <= Len(q)
      /\ \A j \in 1 .. end : q[j] = <<k, i + (j - 1)>>
      /\ IF end = Len(q) THEN k = Len(sq) ELSE q[end + 1] = <<k + 1, 1>>
  BY <1>2 DEF InOrder
<1>4. ASSUME i + d <= SizeOf(sq, k) PROVE Comes(sq, p, k, i + d)
  <2>1. d + 1 \in 1 .. end /\ 1 \in 1 .. Len(p) /\ p # <<>> /\ i + ((d + 1) - 1) = i + d
    BY <1>1, <1>2, <1>3, <1>4
  <2>2. p[1] = q[1 + d] /\ 1 + d = d + 1
    BY <2>1
  <2> QED BY <2>1, <2>2, <1>3 DEF Comes
<1>5. ASSUME i + d = SizeOf(sq, k) + 1 PROVE Comes(sq, p, k + 1, 1)
  <2>1. end = d
    BY <1>1, <1>5
  <2>2. CASE p = <<>>
    <3>1. Len(p) = 0
      BY <2>2
    <3>2. end = Len(q)
      BY <3>1, <2>1, <1>2
    <3> QED BY <3>2, <2>2, <1>3 DEF Comes
  <2>3. CASE p # <<>>
    <3>1. 1 \in 1 .. Len(p) /\ end # Len(q) /\ 1 + d = end + 1
      BY <2>1, <2>3, <1>2
    <3> QED BY <3>1, <2>3, <1>3 DEF Comes
  <2> QED BY <2>2, <2>3
<1> QED BY <1>4, <1>5

\* A block that is sent goes to the end of the bytes on the way.
LEMMA OrderGrows ==
  ASSUME NEW sq \in Seq(Sent), NEW q \in Seq(AnyByte), NEW b \in Sent, InOrder(sq, q)
  PROVE  InOrder(Append(sq, b), q \o Bytes(Len(sq) + 1, b.length))
<1> DEFINE t == Append(sq, b)
           w == Bytes(Len(sq) + 1, b.length)
           p == q \o w
<1>1. /\ t \in Seq(Sent) /\ Len(t) = Len(sq) + 1 /\ Len(sq) \in Nat
      /\ (\A k \in 1 .. Len(sq) : t[k] = sq[k]) /\ t[Len(sq) + 1] = b
  BY AppendProperties
<1>2. b.length \in Nat \ {0} /\ HeadBytes \in Nat \ {0}
  BY Positive DEF Sent
<1> HIDE DEF t
<1>3. w \in Seq(AnyByte) /\ Len(w) = HeadBytes + b.length /\ \A i \in 1 .. Len(w) : w[i] = <<Len(sq) + 1, i>>
  <2>1. Len(sq) + 1 \in Nat /\ b.length \in Nat
    BY <1>1, <1>2
  <2> QED BY <2>1, BytesAre
<1> HIDE DEF w
<1>4. /\ p \in Seq(AnyByte) /\ Len(p) = Len(q) + Len(w) /\ Len(q) \in Nat /\ Len(w) \in Nat
      /\ \A i \in 1 .. Len(q) + Len(w) : p[i] = IF i <= Len(q) THEN q[i] ELSE w[i - Len(q)]
  <2>1. w \in Seq(AnyByte)
    BY <1>3
  <2>2. Len(q) \in Nat /\ Len(w) \in Nat
    BY <2>1
  <2> QED BY <2>1, <2>2, ConcatProperties
<1>5. SizeOf(t, Len(sq) + 1) = Len(w) /\ \A k \in 1 .. Len(sq) : SizeOf(t, k) = SizeOf(sq, k)
  BY <1>1, <1>2, <1>3 DEF SizeOf
<1> HIDE DEF p
<1> SUFFICES ASSUME NEW i \in 1 .. Len(p)
             PROVE  /\ p[i][1] \in 1 .. Len(t) /\ p[i][2] \in 1 .. SizeOf(t, p[i][1])
                    /\ LET end == i + SizeOf(t, p[i][1]) - p[i][2] IN
                         /\ end <= Len(p)
                         /\ \A j \in i .. end : p[j] = <<p[i][1], p[i][2] + (j - i)>>
                         /\ IF end = Len(p) THEN p[i][1] = Len(t) ELSE p[end + 1] = <<p[i][1] + 1, 1>>
  BY DEF InOrder, p, t, w
<1>6. CASE i <= Len(q)
  <2> DEFINE k == q[i][1]
             x == q[i][2]
             end == i + SizeOf(sq, k) - x
  <2>1. i \in 1 .. Len(q) /\ p[i] = q[i]
    BY <1>4, <1>6
  <2>2. /\ k \in 1 .. Len(sq) /\ x \in 1 .. SizeOf(sq, k) /\ end <= Len(q)
        /\ \A j \in i .. end : q[j] = <<k, x + (j - i)>>
        /\ IF end = Len(q) THEN k = Len(sq) ELSE q[end + 1] = <<k + 1, 1>>
    BY <2>1 DEF InOrder
  <2>3. SizeOf(t, k) = SizeOf(sq, k) /\ SizeOf(sq, k) \in Nat /\ k \in 1 .. Len(t)
    BY <2>2, <1>1, <1>5, Sizes
  <2> HIDE DEF k, x
  <2>4. end \in Nat /\ i <= end /\ end + 1 <= Len(p)
    <3>1. end \in Nat /\ i <= end
      BY <2>1, <2>2, <2>3
    <3>2. Len(w) >= 1 /\ Len(p) = Len(q) + Len(w) /\ Len(q) \in Nat /\ Len(w) \in Nat
      BY <1>2, <1>3, <1>4
    <3>3. end <= Len(q)
      BY <2>2
    <3> HIDE DEF end
    <3> QED BY <3>1, <3>2, <3>3
  <2> HIDE DEF end
  <2>5. ASSUME NEW j \in i .. end PROVE p[j] = <<k, x + (j - i)>>
    <3>1. j \in 1 .. Len(q)
      BY <2>1, <2>2, <2>4
    <3>2. p[j] = q[j]
      BY <3>1, <1>4
    <3> QED BY <3>2, <2>2
  <2>6. p[end + 1] = <<k + 1, 1>>
    <3>1. CASE end = Len(q)
      <4>1. end + 1 \in 1 .. Len(q) + Len(w) /\ ~(end + 1 <= Len(q)) /\ (end + 1) - Len(q) = 1 /\ 1 \in 1 .. Len(w)
        <5> DEFINE L == Len(q)
                   W == Len(w)
        <5>1. L \in Nat /\ W \in Nat /\ W >= 1 /\ end = L
          BY <3>1, <1>2, <1>3, <1>4
        <5> HIDE DEF L, W
        <5>2. end + 1 \in 1 .. L + W /\ ~(end + 1 <= L) /\ (end + 1) - L = 1 /\ 1 \in 1 .. W
          BY <5>1
        <5> QED BY <5>2 DEF L, W
      <4>2. p[end + 1] = w[1]
        BY <4>1, <1>4
      <4> QED BY <4>1, <4>2, <3>1, <2>2, <1>3
    <3>2. CASE end # Len(q)
      <4>1. end + 1 \in 1 .. Len(q)
        BY <3>2, <2>2, <2>4, <1>4
      <4>2. p[end + 1] = q[end + 1]
        BY <4>1, <1>4
      <4> QED BY <4>2, <3>2, <2>2
    <3> QED BY <3>1, <3>2
  <2>7. end # Len(p)
    BY <2>4, <1>4
  <2>8. p[i][1] = k /\ p[i][2] = x /\ i + SizeOf(t, k) - x = end
    BY <2>1, <2>3 DEF k, x, end
  <2>9. x \in 1 .. SizeOf(t, k)
    BY <2>2, <2>3
  <2>10. end <= Len(p)
    BY <2>4, <1>4
  <2> QED BY <2>3, <2>5, <2>6, <2>7, <2>8, <2>9, <2>10
<1>7. CASE i > Len(q)
  <2>1. i - Len(q) \in 1 .. Len(w) /\ p[i] = w[i - Len(q)] /\ i \in Nat
    BY <1>4, <1>7
  <2>2. p[i] = <<Len(sq) + 1, i - Len(q)>>
    BY <2>1, <1>3
  <2>3. p[i][1] = Len(sq) + 1 /\ p[i][2] = i - Len(q)
    BY <2>2
  <2>4. i + SizeOf(t, p[i][1]) - p[i][2] = Len(p)
    <3>1. SizeOf(t, p[i][1]) = Len(w)
      BY <2>3, <1>5
    <3> QED BY <3>1, <2>1, <2>3, <1>4
  <2>5. ASSUME NEW j \in i .. Len(p) PROVE p[j] = <<Len(sq) + 1, (i - Len(q)) + (j - i)>>
    <3>1. j \in 1 .. Len(q) + Len(w) /\ ~(j <= Len(q)) /\ j - Len(q) \in 1 .. Len(w) /\ (i - Len(q)) + (j - i) = j - Len(q)
      BY <1>4, <1>7, <2>1
    <3>2. p[j] = w[j - Len(q)]
      BY <3>1, <1>4
    <3> QED BY <3>1, <3>2, <1>3
  <2>6. p[i][1] \in 1 .. Len(t) /\ p[i][1] = Len(t)
    BY <2>3, <1>1
  <2>7. p[i][2] \in 1 .. SizeOf(t, p[i][1])
    BY <2>1, <2>3, <1>5
  <2>8. Len(p) <= Len(p)
    BY <1>4
  <2> QED BY <2>3, <2>4, <2>5, <2>6, <2>7, <2>8
<1> QED BY <1>6, <1>7, <1>4

-----------------------------------------------------------------------------
(* What is collected                                                        *)

\* What is collected stays so when a block is sent.
LEMMA CollectingGrows ==
  ASSUME NEW sq \in Seq(Sent), NEW q \in Seq(AnyByte), NEW b \in Sent, NEW n \in Nat,
         NEW list \in Seq(BlockOf(AnyByte)), Collecting(sq, n, list, q)
  PROVE  Collecting(Append(sq, b), n, list, q \o Bytes(Len(sq) + 1, b.length))
<1> DEFINE t == Append(sq, b)
           w == Bytes(Len(sq) + 1, b.length)
           p == q \o w
<1>1. InOrder(t, p)
  BY OrderGrows DEF Collecting
<1>2. /\ Len(t) = Len(sq) + 1 /\ Len(sq) \in Nat
      /\ \A k \in 1 .. Len(sq) : t[k] = sq[k]
  BY AppendProperties
<1>3. b.length \in Nat \ {0}
  BY DEF Sent
<1>4. w \in Seq(AnyByte) /\ Len(w) \in Nat \ {0} /\ w[1] = <<Len(sq) + 1, 1>>
  <2>1. Len(sq) + 1 \in Nat /\ b.length \in Nat
    BY <1>2, <1>3
  <2>2. /\ w \in Seq(AnyByte) /\ Len(w) = HeadBytes + b.length
        /\ \A i \in 1 .. HeadBytes + b.length : w[i] = <<Len(sq) + 1, i>>
    BY <2>1, BytesAre
  <2>3. 1 \in 1 .. HeadBytes + b.length /\ HeadBytes + b.length \in Nat \ {0}
    BY <1>3, Positive
  <2> HIDE DEF w
  <2> QED BY <2>2, <2>3
<1> HIDE DEF t, w
<1>5. /\ p # <<>> /\ (q # <<>> => p[1] = q[1]) /\ (q = <<>> => p[1] = w[1])
  <2>1. /\ Len(p) = Len(q) + Len(w) /\ Len(q) \in Nat /\ p \in Seq(AnyByte)
        /\ \A i \in 1 .. Len(q) + Len(w) : p[i] = IF i <= Len(q) THEN q[i] ELSE w[i - Len(q)]
    BY <1>4, ConcatProperties
  <2> HIDE DEF p
  <2>2. Len(p) # 0 /\ 1 \in 1 .. Len(q) + Len(w)
    BY <1>4, <2>1
  <2>3. q # <<>> => 1 <= Len(q)
    BY <2>1
  <2>4. q = <<>> => ~(1 <= Len(q)) /\ 1 - Len(q) = 1
    OBVIOUS
  <2> QED BY <2>1, <2>2, <2>3, <2>4
<1>6. ASSUME NEW k, NEW i, Comes(sq, q, k, i) PROVE Comes(t, p, k, i)
  BY <1>4, <1>5, <1>6 DEF Comes
<1>7. ASSUME NEW k, NEW x, Holds(sq, k, x) PROVE Holds(t, k, x)
  BY <1>2, <1>7 DEF Holds
<1> HIDE DEF p
<1> QED BY <1>1, <1>6, <1>7 DEF Collecting, t, w, p

\* A whole first block is the next one that was sent.
LEMMA CollectingTaken ==
  ASSUME NEW sq \in Seq(Sent), NEW q \in Seq(AnyByte), NEW n \in Nat,
         NEW list \in Seq(BlockOf(AnyByte)), Collecting(sq, n, list, q),
         list # <<>>, IsWhole(Head(list))
  PROVE  /\ Collecting(sq, n + 1, Tail(list), q)
         /\ n + 1 \in 1 .. Len(sq) /\ Head(list).data = Payload(n + 1, sq[n + 1].length)
<1>1. /\ Tail(list) \in Seq(BlockOf(AnyByte)) /\ Len(list) \in Nat \ {0} /\ Head(list) = list[1]
      /\ Len(Tail(list)) = Len(list) - 1 /\ \A i \in 1 .. Len(list) - 1 : Tail(list)[i] = list[i + 1]
      /\ list[1] \in BlockOf(AnyByte)
  OBVIOUS
<1> DEFINE b == list[1]
           c == Tail(list)
<1>2. Holds(sq, n + 1, b)
  <2>1. CASE Len(list) = 1
    <3>1. b # Fresh
      BY <1>1 DEF IsWhole, Fresh
    <3> QED BY <2>1, <3>1, <1>1 DEF Collecting
  <2>2. CASE Len(list) # 1
    <3>1. 1 \in 1 .. Len(list) - 1
      BY <2>2, <1>1
    <3> QED BY <3>1 DEF Collecting
  <2> QED BY <2>1, <2>2
<1>3. n + 1 \in 1 .. Len(sq) /\ b.data = Payload(n + 1, sq[n + 1].length)
  <2>1. /\ n + 1 \in 1 .. Len(sq) /\ b.length = sq[n + 1].length /\ Len(b.data) <= b.length
        /\ \A i \in 1 .. Len(b.data) : b.data[i] = <<n + 1, HeadBytes + i>>
    BY <1>2 DEF Holds
  <2>2. b.data \in Seq(AnyByte) /\ b.length \in Nat /\ Len(b.data) >= b.length /\ Len(b.data) \in Nat
    BY <1>1 DEF IsWhole, BlockOf
  <2>3. Len(b.data) = b.length
    BY <2>1, <2>2
  <2> DEFINE N == b.length
             d == b.data
  <2>4. d = [i \in 1 .. N |-> <<n + 1, HeadBytes + i>>]
    <3>1. d \in [1 .. N -> AnyByte]
      BY <2>2, <2>3
    <3>2. \A i \in 1 .. N : d[i] = <<n + 1, HeadBytes + i>>
      BY <2>1, <2>3
    <3> HIDE DEF d, N
    <3> QED BY <3>1, <3>2
  <2> QED BY <2>1, <2>4 DEF Payload
<1>4. InOrder(sq, q)
  BY DEF Collecting
<1> HIDE DEF b, c
<1>5. ASSUME NEW j \in 1 .. Len(c) - 1 PROVE Holds(sq, (n + 1) + j, c[j]) /\ IsWhole(c[j])
  <2>1. j + 1 \in 1 .. Len(list) - 1 /\ c[j] = list[j + 1] /\ n + (j + 1) = (n + 1) + j
    BY <1>1 DEF c
  <2>2. Holds(sq, n + (j + 1), list[j + 1]) /\ IsWhole(list[j + 1])
    BY <2>1 DEF Collecting
  <2> QED BY <2>1, <2>2
<1>6. CASE c = <<>>
  <2>1. Len(list) = 1
    <3>1. Len(c) = 0
      BY <1>6
    <3>2. Len(list) - 1 = 0
      BY <1>1, <3>1 DEF c
    <3>3. Len(list) \in Nat
      BY <1>1
    <3> DEFINE N == Len(list)
    <3>4. N \in Nat /\ N - 1 = 0
      BY <3>2, <3>3
    <3>5. N = 1
      <4> HIDE DEF N
      <4> QED BY <3>4
    <3> QED BY <3>5
  <2>2. b # Fresh
    BY <1>1 DEF IsWhole, Fresh, b
  <2>3. Comes(sq, q, (n + 1) + 1, 1)
    BY <2>1, <2>2, <1>1 DEF Collecting, b
  <2> QED BY <2>3, <1>1, <1>3, <1>4, <1>5, <1>6 DEF Collecting, b, c
<1>7. CASE c # <<>>
  <2>1. Len(c) \in 1 .. Len(list) - 1 /\ c[Len(c)] = list[Len(list)] /\ (n + 1) + Len(c) = n + Len(list)
    <3>1. Len(c) = Len(list) - 1 /\ Len(c) # 0
      BY <1>1, <1>7 DEF c
    <3>2. Len(c) \in 1 .. Len(list) - 1 /\ Len(c) + 1 = Len(list)
      BY <3>1, <1>1
    <3>3. c[Len(c)] = list[Len(c) + 1]
      BY <3>2, <1>1 DEF c
    <3> QED BY <3>1, <3>2, <3>3, <1>1
  <2>2. LET m == n + Len(list)
            e == list[Len(list)]
        IN  \/ e = Fresh /\ Comes(sq, q, m, 1)
            \/ Holds(sq, m, e) /\ IsWhole(e) /\ Comes(sq, q, m + 1, 1)
            \/ Holds(sq, m, e) /\ ~IsWhole(e) /\ Comes(sq, q, m, HeadBytes + Len(e.data) + 1)
    BY DEF Collecting
  <2>3. LET m == (n + 1) + Len(c)
            e == c[Len(c)]
        IN  \/ e = Fresh /\ Comes(sq, q, m, 1)
            \/ Holds(sq, m, e) /\ IsWhole(e) /\ Comes(sq, q, m + 1, 1)
            \/ Holds(sq, m, e) /\ ~IsWhole(e) /\ Comes(sq, q, m, HeadBytes + Len(e.data) + 1)
    BY <2>1, <2>2
  <2>4. Collecting(sq, n + 1, c, q)
    BY <2>3, <1>4, <1>5, <1>7 DEF Collecting
  <2> QED BY <2>4, <1>1, <1>3 DEF b, c
<1> QED BY <1>6, <1>7

-----------------------------------------------------------------------------
(* A turn of OnRead's loop                                                  *)

States(B) == [list : Seq(BlockOf(AnyByte)), rest : Seq(B), signal : BOOLEAN]

\* The number of the block that a turn goes on with, and what there is of it
Open(list)    == list # <<>> /\ ~IsWhole(list[Len(list)])
Current(list) == IF Open(list) THEN Len(list) ELSE Len(list) + 1
Begun(list)   == IF Open(list) THEN list[Len(list)] ELSE Fresh

\* list has the blocks of old before the n-th, and b as its n-th and last one.
EndsWith(list, old, n, b) ==
  Len(list) = n /\ list[n] = b /\ \A j \in 1 .. n - 1 : list[j] = old[j]

\* What a turn does with the block b to the bytes: h of them are its length, size go to it
Reads(s, guess, list, rest, t, h, size) ==
  LET old == Begun(list)
      n == Current(list)
      new == t.list[n]
  IN  /\ IF old.length = 0 THEN h = HeadBytes /\ new.length = Word(s, rest[1], guess)
                           ELSE h = 0 /\ new.length = old.length
      /\ h + size <= Len(rest) /\ Len(old.data) + size <= new.length
      /\ h + size = Len(rest) \/ Len(old.data) + size = new.length
      /\ EndsWith(t.list, list, n, new)
      /\ Len(new.data) = Len(old.data) + size
      /\ \A i \in 1 .. Len(new.data) :
           new.data[i] = IF i <= Len(old.data) THEN old.data[i] ELSE rest[h + (i - Len(old.data))]
      /\ Len(t.rest) = Len(rest) - (h + size)
      /\ \A i \in 1 .. Len(t.rest) : t.rest[i] = rest[i + (h + size)]

LEMMA BegunType ==
  ASSUME NEW list \in Seq(BlockOf(AnyByte))
  PROVE  /\ Begun(list) \in BlockOf(AnyByte) /\ ~IsWhole(Begun(list))
         /\ Current(list) \in Nat \ {0} /\ Current(list) - 1 <= Len(list) /\ Len(list) <= Current(list)
         /\ Begun(list).length = 0 => Begun(list) = Fresh
<1>1. Fresh \in BlockOf(AnyByte) /\ ~IsWhole(Fresh)
  <2>1. Fresh.length = 0 /\ Fresh.data = <<>> /\ <<>> \in Seq(AnyByte) /\ Len(<<>>) = 0
    BY DEF Fresh
  <2> QED BY <2>1 DEF BlockOf, Fresh, IsWhole
<1>2. Len(list) \in Nat /\ (list # <<>> => Len(list) \in 1 .. Len(list) /\ list[Len(list)] \in BlockOf(AnyByte))
  OBVIOUS
<1>3. Begun(list) \in BlockOf(AnyByte) /\ ~IsWhole(Begun(list))
  BY <1>1, <1>2 DEF Begun, Open
<1>4. /\ Current(list) \in Nat \ {0} /\ Current(list) - 1 <= Len(list) /\ Len(list) <= Current(list)
  BY <1>2 DEF Current, Open
<1>5. ASSUME Begun(list).length = 0 PROVE Begun(list) = Fresh
  <2> DEFINE b == Begun(list)
  <2>1. b \in [length : Nat, data : Seq(AnyByte)] /\ Len(b.data) <= b.length
    BY <1>3 DEF BlockOf
  <2>2. b.length = 0 /\ b.data \in Seq(AnyByte) /\ Len(b.data) = 0
    BY <1>5, <2>1
  <2>3. b.data = <<>>
    BY <2>2
  <2>4. b = [length |-> b.length, data |-> b.data]
    BY <2>1
  <2> HIDE DEF b
  <2>5. b = Fresh
    BY <2>2, <2>3, <2>4 DEF Fresh
  <2> QED BY <2>5 DEF b
<1> QED BY <1>3, <1>4, <1>5

LEMMA TurnResult ==
  ASSUME NEW B, B \subseteq AnyByte, NEW s, NEW guess, \A b \in B : Word(s, b, guess) \in Nat,
         NEW st \in States(B)
  PROVE  LET t == Turn(s, st, guess)
             n == Current(st.list)
         IN  /\ t \in States(B)
             /\ st.rest = <<>> => t = st
             /\ st.rest # <<>> =>
                  IF Begun(st.list).length = 0 /\ Len(st.rest) < HeadBytes
                  THEN t.rest = st.rest /\ t.signal = st.signal /\ EndsWith(t.list, st.list, n, Begun(st.list))
                  ELSE /\ \E h \in Nat, size \in Nat : Reads(s, guess, st.list, st.rest, t, h, size)
                       /\ t.signal => st.signal \/ IsWhole(t.list[1])
<1> DEFINE Q == BlockOf(AnyByte)
           before == IF st.list # <<>> /\ ~IsWhole(Last(st.list)) THEN st.list ELSE Append(st.list, Fresh)
           old == Last(before)
           n == Current(st.list)
           rest == IF old.length = 0 THEN SubSeq(st.rest, HeadBytes + 1, Len(st.rest)) ELSE st.rest
           length == IF old.length = 0 THEN Word(s, st.rest[1], guess) ELSE old.length
           size == Min({Len(rest), length - Len(old.data)})
           data == old.data \o SubSeq(rest, 1, size)
           new == Front(before) \o <<[length |-> length, data |-> data]>>
           last == SubSeq(rest, size + 1, Len(rest))
           h == IF old.length = 0 THEN HeadBytes ELSE 0
           t == Turn(s, st, guess)
<1>1. st.list \in Seq(Q) /\ st.rest \in Seq(B) /\ st.signal \in BOOLEAN
  BY DEF States
<1>2. /\ before \in Seq(Q) /\ Len(before) = n /\ old = before[n] /\ old = Begun(st.list) /\ n \in Nat \ {0}
      /\ \A j \in 1 .. n - 1 : before[j] = st.list[j]
  <2>1. CASE Open(st.list)
    <3>1. before = st.list /\ n = Len(st.list) /\ st.list # <<>>
      BY <2>1 DEF Open, Current, Last
    <3>2. old = st.list[n]
      BY <3>1 DEF Last
    <3>3. old = Begun(st.list)
      BY <3>1, <3>2, <2>1 DEF Begun
    <3>4. n \in Nat \ {0}
      BY <3>1, <1>1
    <3> HIDE DEF before, n, old, Q
    <3> QED BY <3>1, <3>2, <3>3, <3>4, <1>1
  <2>2. CASE ~Open(st.list)
    <3>1. before = Append(st.list, Fresh) /\ n = Len(st.list) + 1 /\ Begun(st.list) = Fresh
      BY <2>2 DEF Open, Current, Begun, Last
    <3>2. Fresh \in Q
      BY <3>1, <1>1, BegunType
    <3>3. /\ Append(st.list, Fresh) \in Seq(Q) /\ Len(Append(st.list, Fresh)) = Len(st.list) + 1
          /\ (\A i \in 1 .. Len(st.list) : Append(st.list, Fresh)[i] = st.list[i])
          /\ Append(st.list, Fresh)[Len(st.list) + 1] = Fresh
      <4> HIDE DEF Q
      <4> QED BY <1>1, <3>2, AppendProperties
    <3>4. Len(st.list) \in Nat
      BY <1>1
    <3>5. old = before[n]
      BY <3>1, <3>3 DEF Last
    <3> HIDE DEF Q, old, before
    <3> QED BY <3>1, <3>3, <3>4, <3>5
  <2> QED BY <2>1, <2>2
<1>3. old \in Q /\ old.length \in Nat /\ old.data \in Seq(AnyByte) /\ Len(old.data) <= old.length /\ Len(old.data) \in Nat
  <2>1. old \in Q
    BY <1>1, <1>2, BegunType
  <2> HIDE DEF old
  <2> QED BY <2>1 DEF BlockOf
<1>4. t = IF st.rest = <<>> THEN st
          ELSE IF old.length = 0 /\ Len(st.rest) < HeadBytes THEN [st EXCEPT !.list = before]
          ELSE [list |-> new, rest |-> last, signal |-> st.signal \/ IsWhole(Head(new))]
  BY DEF Turn
<1> HIDE DEF t, before, old
<1>5. CASE st.rest = <<>>
  BY <1>4, <1>5 DEF t
<1>6. CASE st.rest # <<>> /\ old.length = 0 /\ Len(st.rest) < HeadBytes
  <2>1. t = [st EXCEPT !.list = before]
    BY <1>4, <1>6
  <2>2. t.rest = st.rest /\ t.signal = st.signal /\ t.list = before /\ t \in States(B)
    BY <2>1, <1>1, <1>2 DEF States
  <2>3. EndsWith(t.list, st.list, n, old)
    <3> HIDE DEF n
    <3> QED BY <2>2, <1>2 DEF EndsWith
  <2> QED BY <2>2, <2>3, <1>2, <1>6 DEF t
<1>7. CASE st.rest # <<>> /\ ~(old.length = 0 /\ Len(st.rest) < HeadBytes)
  <2>1. t = [list |-> new, rest |-> last, signal |-> st.signal \/ IsWhole(Head(new))]
    BY <1>4, <1>7
  <2>2. h \in Nat /\ h <= Len(st.rest) /\ Len(st.rest) \in Nat
    BY <1>1, <1>3, <1>7, Positive
  <2>3. rest \in Seq(B) /\ Len(rest) = Len(st.rest) - h /\ \A i \in 1 .. Len(rest) : rest[i] = st.rest[i + h]
    <3>1. CASE old.length = 0
      <4> DEFINE q == SubSeq(st.rest, HeadBytes + 1, Len(st.rest))
      <4>1. HeadBytes \in Nat /\ h = HeadBytes /\ rest = q
        BY <3>1, Positive
      <4>2. \A i \in HeadBytes + 1 .. Len(st.rest) : st.rest[i] \in B
        BY <4>1, <1>1
      <4>3. /\ q \in Seq(B)
            /\ Len(q) = IF HeadBytes + 1 <= Len(st.rest) THEN Len(st.rest) - (HeadBytes + 1) + 1 ELSE 0
            /\ \A i \in 1 .. Len(st.rest) - (HeadBytes + 1) + 1 : q[i] = st.rest[(HeadBytes + 1) + i - 1]
        <5>1. HeadBytes + 1 \in Int /\ Len(st.rest) \in Int
          BY <4>1, <2>2
        <5> QED BY <5>1, <4>2, SubSeqProperties
      <4>4. Len(q) = Len(st.rest) - HeadBytes
        BY <4>1, <4>3, <2>2
      <4> HIDE DEF q, rest, h
      <4>5. ASSUME NEW i \in 1 .. Len(q) PROVE q[i] = st.rest[i + HeadBytes]
        <5>1. i \in 1 .. Len(st.rest) - (HeadBytes + 1) + 1 /\ (HeadBytes + 1) + i - 1 = i + HeadBytes
          BY <4>1, <4>4, <2>2
        <5> QED BY <5>1, <4>3
      <4> QED BY <4>1, <4>3, <4>4, <4>5
    <3>2. CASE old.length # 0
      BY <3>2, <1>1
    <3> QED BY <3>1, <3>2
  <2>4. length \in Nat /\ Len(old.data) <= length /\ (old.length = 0 => Len(old.data) = 0)
    <3>1. CASE old.length = 0
      <4>1. st.rest[1] \in B
        BY <1>1, <1>7
      <4>2. length = Word(s, st.rest[1], guess)
        BY <3>1
      <4>3. length \in Nat
        BY <4>1, <4>2
      <4> HIDE DEF length
      <4> QED BY <4>3, <3>1, <1>3
    <3>2. CASE old.length # 0
      BY <3>2, <1>3
    <3> QED BY <3>1, <3>2
  <2> HIDE DEF rest, length, h
  <2>5. /\ size \in Nat /\ size <= Len(rest) /\ size <= length - Len(old.data)
        /\ size = Len(rest) \/ size = length - Len(old.data)
    <3> DEFINE I == {Len(rest), length - Len(old.data)}
    <3>1. I \subseteq Nat /\ I # {}
      BY <2>3, <2>4, <1>3
    <3>2. Min(I) \in I /\ \A x \in I : Min(I) <= x
      <4> HIDE DEF I
      <4> QED BY <3>1, MinIsMember
    <3> QED BY <3>1, <3>2
  <2> HIDE DEF size
  <2>6. /\ SubSeq(rest, 1, size) \in Seq(AnyByte) /\ Len(SubSeq(rest, 1, size)) = size
        /\ \A i \in 1 .. size : SubSeq(rest, 1, size)[i] = rest[i]
    <3>1. \A i \in 1 .. size : rest[i] \in AnyByte
      <4>1. \A i \in 1 .. size : i \in 1 .. Len(rest)
        BY <2>3, <2>5
      <4>2. \A i \in 1 .. Len(rest) : rest[i] \in B
        BY <2>3
      <4> QED BY <4>1, <4>2
    <3>2. size \in Int /\ 1 \in Int
      BY <2>5
    <3>3. /\ SubSeq(rest, 1, size) \in Seq(AnyByte)
          /\ Len(SubSeq(rest, 1, size)) = IF 1 <= size THEN size - 1 + 1 ELSE 0
          /\ \A i \in 1 .. size - 1 + 1 : SubSeq(rest, 1, size)[i] = rest[1 + i - 1]
      BY <3>1, <3>2, SubSeqProperties
    <3> QED BY <3>3, <2>5
  <2>7. /\ data \in Seq(AnyByte) /\ Len(data) = Len(old.data) + size
        /\ \A i \in 1 .. Len(data) :
             data[i] = IF i <= Len(old.data) THEN old.data[i] ELSE rest[i - Len(old.data)]
    <3> DEFINE q == SubSeq(rest, 1, size)
    <3> HIDE DEF q
    <3>1. q \in Seq(AnyByte) /\ Len(q) = size /\ \A i \in 1 .. size : q[i] = rest[i]
      BY <2>6 DEF q
    <3>2. /\ old.data \o q \in Seq(AnyByte) /\ Len(old.data \o q) = Len(old.data) + Len(q)
          /\ \A i \in 1 .. Len(old.data) + Len(q) :
               (old.data \o q)[i] = IF i <= Len(old.data) THEN old.data[i] ELSE q[i - Len(old.data)]
      BY <3>1, <1>3, ConcatProperties
    <3>3. data = old.data \o q
      BY DEF q
    <3> HIDE DEF data
    <3>4. ASSUME NEW i \in 1 .. Len(data), ~(i <= Len(old.data)) PROVE data[i] = rest[i - Len(old.data)]
      <4>1. i - Len(old.data) \in 1 .. size /\ i \in 1 .. Len(old.data) + Len(q)
        BY <3>1, <3>2, <3>3, <3>4, <1>3, <2>5
      <4> QED BY <4>1, <3>1, <3>2, <3>3, <3>4
    <3>5. ASSUME NEW i \in 1 .. Len(data), i <= Len(old.data) PROVE data[i] = old.data[i]
      BY <3>2, <3>3, <3>5
    <3> QED BY <3>1, <3>2, <3>3, <3>4, <3>5
  <2> HIDE DEF data
  <2> DEFINE b == [length |-> length, data |-> data]
  <2>8. b \in Q
    BY <2>4, <2>5, <2>7, <1>3 DEF BlockOf
  <2>9. new \in Seq(Q) /\ Len(new) = n /\ new[n] = b /\ \A j \in 1 .. n - 1 : new[j] = before[j]
    <3> HIDE DEF b, n, Q
    <3>1. Len(before) = n /\ n \in Nat \ {0} /\ before \in Seq(Q)
      BY <1>2
    <3>2. Front(before) \in Seq(Q) /\ Len(Front(before)) = n - 1 /\ \A i \in 1 .. n - 1 : Front(before)[i] = before[i]
      <4>1. Front(before) = SubSeq(before, 1, n - 1)
        BY <3>1 DEF Front
      <4>2. \A i \in 1 .. n - 1 : before[i] \in Q
        BY <3>1
      <4>3. /\ SubSeq(before, 1, n - 1) \in Seq(Q)
            /\ Len(SubSeq(before, 1, n - 1)) = IF 1 <= n - 1 THEN (n - 1) - 1 + 1 ELSE 0
            /\ \A i \in 1 .. (n - 1) - 1 + 1 : SubSeq(before, 1, n - 1)[i] = before[1 + i - 1]
        <5>1. n - 1 \in Int /\ 1 \in Int
          BY <3>1
        <5> QED BY <5>1, <4>2, SubSeqProperties
      <4> QED BY <4>1, <4>3, <3>1
    <3>3. <<b>> \in Seq(Q) /\ Len(<<b>>) = 1 /\ <<b>>[1] = b
      BY <2>8
    <3>4. /\ new \in Seq(Q) /\ Len(new) = (n - 1) + 1
          /\ \A i \in 1 .. (n - 1) + 1 : new[i] = IF i <= n - 1 THEN Front(before)[i] ELSE <<b>>[i - (n - 1)]
      <4>1. new = Front(before) \o <<b>>
        BY DEF b
      <4> QED BY <4>1, <3>2, <3>3, ConcatProperties
    <3>5. (n - 1) + 1 = n /\ n - (n - 1) = 1 /\ n \in 1 .. n /\ ~(n <= n - 1)
      BY <3>1
    <3> HIDE DEF new
    <3> QED BY <3>1, <3>2, <3>3, <3>4, <3>5
  <2>10. /\ last \in Seq(B) /\ Len(last) = Len(rest) - size /\ \A i \in 1 .. Len(last) : last[i] = rest[i + size]
    <3>1. size + 1 \in Int /\ Len(rest) \in Int /\ size \in Nat /\ Len(rest) \in Nat /\ size <= Len(rest)
      BY <2>3, <2>5
    <3>2. \A i \in size + 1 .. Len(rest) : rest[i] \in B
      BY <2>3, <3>1
    <3>3. /\ last \in Seq(B)
          /\ Len(last) = IF size + 1 <= Len(rest) THEN Len(rest) - (size + 1) + 1 ELSE 0
          /\ \A i \in 1 .. Len(rest) - (size + 1) + 1 : last[i] = rest[(size + 1) + i - 1]
      BY <3>1, <3>2, SubSeqProperties
    <3> HIDE DEF last
    <3>4. Len(last) = Len(rest) - size
      BY <3>1, <3>3
    <3>5. \A i \in 1 .. Len(last) : (size + 1) + i - 1 = i + size
      BY <3>1
    <3> QED BY <3>1, <3>3, <3>4, <3>5
  <2> HIDE DEF new, last
  <2>11. Head(new) = new[1] /\ (st.signal \/ IsWhole(new[1])) \in BOOLEAN
    <3>1. Head(new) = new[1]
      OBVIOUS
    <3>2. IsWhole(new[1]) \in BOOLEAN
      BY DEF IsWhole
    <3> QED BY <3>1, <3>2, <1>1
  <2>12. t \in States(B) /\ t.list = new /\ t.rest = last /\ (t.signal => st.signal \/ IsWhole(t.list[1]))
    <3>1. t.list = new /\ t.rest = last /\ t.signal = (st.signal \/ IsWhole(Head(new)))
      BY <2>1
    <3>2. (st.signal \/ IsWhole(Head(new))) \in BOOLEAN
      BY <1>1 DEF IsWhole
    <3>3. t \in States(B)
      BY <2>1, <2>9, <2>10, <3>2 DEF States
    <3> QED BY <3>1, <3>3, <2>11
  <2>13. Reads(s, guess, st.list, st.rest, t, h, size)
    <3>1. t.list[n] = b /\ b.length = length /\ b.data = data /\ Begun(st.list) = old
      BY <2>9, <2>12, <1>2
    <3>2. IF old.length = 0 THEN h = HeadBytes /\ length = Word(s, st.rest[1], guess) ELSE h = 0 /\ length = old.length
      BY DEF h, length
    <3>3. /\ h + size <= Len(st.rest) /\ Len(old.data) + size <= length
          /\ h + size = Len(st.rest) \/ Len(old.data) + size = length
      BY <2>2, <2>3, <2>4, <2>5, <1>3
    <3>4. EndsWith(t.list, st.list, n, b)
      <4> HIDE DEF n, b
      <4> QED BY <2>9, <2>12, <1>2 DEF EndsWith
    <3>5. Len(t.rest) = Len(st.rest) - (h + size)
      BY <2>2, <2>3, <2>5, <2>10, <2>12
    <3>6. ASSUME NEW i \in 1 .. Len(t.rest) PROVE t.rest[i] = st.rest[i + (h + size)]
      <4>1. i + size \in 1 .. Len(rest) /\ (i + size) + h = i + (h + size)
        BY <3>5, <2>2, <2>3, <2>5
      <4> QED BY <4>1, <2>3, <2>10, <2>12
    <3>7. ASSUME NEW i \in 1 .. Len(data), ~(i <= Len(old.data)) PROVE data[i] = st.rest[h + (i - Len(old.data))]
      <4> DEFINE o == Len(old.data)
                 R == Len(rest)
                 D == Len(data)
      <4>0. D = o + size /\ size <= R /\ o \in Nat /\ size \in Nat /\ R \in Nat /\ h \in Nat /\ i \in 1 .. D /\ ~(i <= o)
        BY <3>7, <2>2, <2>3, <2>5, <2>7, <1>3
      <4> HIDE DEF o, R, D, h, size
      <4>1. i - o \in 1 .. R /\ (i - o) + h = h + (i - o)
        BY <4>0
      <4> USE DEF o, R, D
      <4> QED BY <4>1, <3>7, <2>3, <2>7
    <3> HIDE DEF b, n
    <3>8. \A i \in 1 .. Len(data) :
             data[i] = IF i <= Len(old.data) THEN old.data[i] ELSE st.rest[h + (i - Len(old.data))]
      BY <3>7, <2>7
    <3> QED BY <3>1, <3>2, <3>3, <3>4, <3>5, <3>6, <3>8, <2>7 DEF Reads, n
  <2>14. h \in Nat /\ size \in Nat /\ ~(Begun(st.list).length = 0 /\ Len(st.rest) < HeadBytes)
    BY <2>2, <2>5, <1>2, <1>7
  <2> QED BY <1>7, <2>12, <2>13, <2>14 DEF t
<1> QED BY <1>5, <1>6, <1>7

-----------------------------------------------------------------------------
(* A turn goes on with the block that comes                                 *)

\* b is what there is of the m-th block, and q goes on from there.
Goes(sq, m, b, q) ==
  \/ b = Fresh /\ Comes(sq, q, m, 1)
  \/ Holds(sq, m, b) /\ IsWhole(b) /\ Comes(sq, q, m + 1, 1)
  \/ Holds(sq, m, b) /\ ~IsWhole(b) /\ Comes(sq, q, m, HeadBytes + Len(b.data) + 1)

LEMMA CollectingCurrent ==
  ASSUME NEW sq \in Seq(Sent), NEW q, NEW n \in Nat, NEW list \in Seq(BlockOf(AnyByte)),
         Collecting(sq, n, list, q)
  PROVE  /\ InOrder(sq, q) /\ Goes(sq, n + Current(list), Begun(list), q)
         /\ \A j \in 1 .. Current(list) - 1 : Holds(sq, n + j, list[j]) /\ IsWhole(list[j])
<1>1. /\ InOrder(sq, q)
      /\ \A j \in 1 .. Len(list) - 1 : Holds(sq, n + j, list[j]) /\ IsWhole(list[j])
      /\ list = <<>> => Comes(sq, q, n + 1, 1)
      /\ list # <<>> => Goes(sq, n + Len(list), list[Len(list)], q)
  BY DEF Collecting, Goes
<1>2. Len(list) \in Nat /\ (list # <<>> => Len(list) # 0) /\ (list = <<>> => Len(list) = 0)
  OBVIOUS
<1>3. CASE Open(list)
  <2>1. Current(list) = Len(list) /\ Begun(list) = list[Len(list)] /\ list # <<>>
    BY <1>3 DEF Open, Current, Begun
  <2> QED BY <2>1, <1>1
<1>4. CASE ~Open(list) /\ list = <<>>
  <2>1. Current(list) = 1 /\ Begun(list) = Fresh
    BY <1>2, <1>4 DEF Open, Current, Begun
  <2> QED BY <2>1, <1>1, <1>4 DEF Goes
<1>5. CASE ~Open(list) /\ list # <<>>
  <2> DEFINE N == Len(list)
  <2>1. Current(list) = N + 1 /\ Begun(list) = Fresh /\ IsWhole(list[N])
    BY <1>5 DEF Open, Current, Begun
  <2>2. list[N] # Fresh
    BY <2>1 DEF IsWhole, Fresh
  <2>3. Holds(sq, n + N, list[N]) /\ Comes(sq, q, (n + N) + 1, 1)
    BY <2>1, <2>2, <1>1, <1>5 DEF Goes
  <2>4. N \in Nat \ {0}
    BY <1>2, <1>5
  <2>5. (n + N) + 1 = n + (N + 1) /\ (N + 1) - 1 = N
    BY <2>4
  <2>6. ASSUME NEW j \in 1 .. N PROVE Holds(sq, n + j, list[j]) /\ IsWhole(list[j])
    <3>1. CASE j = N
      BY <3>1, <2>1, <2>3
    <3>2. CASE j # N
      <4>1. j \in 1 .. N - 1
        BY <3>2, <2>4
      <4> QED BY <4>1, <1>1
    <3> QED BY <3>1, <3>2
  <2>7. Goes(sq, n + (N + 1), Fresh, q)
    BY <2>3, <2>5 DEF Goes
  <2> HIDE DEF N
  <2> QED BY <2>1, <2>5, <2>6, <2>7, <1>1
<1> QED BY <1>3, <1>4, <1>5

LEMMA CollectingEnds ==
  ASSUME NEW sq \in Seq(Sent), NEW q, NEW n \in Nat, NEW list, NEW old, NEW N \in Nat \ {0},
         NEW b, list # <<>>, EndsWith(list, old, N, b), InOrder(sq, q), Goes(sq, n + N, b, q),
         \A j \in 1 .. N - 1 : Holds(sq, n + j, old[j]) /\ IsWhole(old[j])
  PROVE  Collecting(sq, n, list, q)
<1>1. Len(list) = N /\ list[N] = b /\ \A j \in 1 .. N - 1 : list[j] = old[j]
  BY DEF EndsWith
<1>2. \A j \in 1 .. Len(list) - 1 : Holds(sq, n + j, list[j]) /\ IsWhole(list[j])
  BY <1>1
<1> QED BY <1>1, <1>2 DEF Collecting, Goes

\* p is q less its first d bytes.
Less(p, q, d) == Len(p) = Len(q) - d /\ \A i \in 1 .. Len(p) : p[i] = q[i + d]

LEMMA LessBytes ==
  ASSUME NEW p \in Seq(AnyByte), NEW q \in Seq(AnyByte), NEW w \in Seq(AnyByte), NEW d \in Nat,
         Less(p, q, d)
  PROVE  p \o w \in Seq(AnyByte) /\ Less(p \o w, q \o w, d)
<1>0. Len(p) = Len(q) - d /\ \A i \in 1 .. Len(p) : p[i] = q[i + d]
  BY DEF Less
<1>1. /\ p \o w \in Seq(AnyByte) /\ Len(p \o w) = Len(p) + Len(w)
      /\ \A i \in 1 .. Len(p) + Len(w) : (p \o w)[i] = IF i <= Len(p) THEN p[i] ELSE w[i - Len(p)]
  BY ConcatProperties
<1>2. /\ q \o w \in Seq(AnyByte) /\ Len(q \o w) = Len(q) + Len(w)
      /\ \A i \in 1 .. Len(q) + Len(w) : (q \o w)[i] = IF i <= Len(q) THEN q[i] ELSE w[i - Len(q)]
  BY ConcatProperties
<1>3. Len(p) \in Nat /\ Len(q) \in Nat /\ Len(w) \in Nat
  OBVIOUS
<1> DEFINE P == p \o w
           Q == q \o w
<1> HIDE DEF P, Q
<1>4. Len(P) = Len(Q) - d
  BY <1>0, <1>1, <1>2, <1>3 DEF P, Q
<1>5. ASSUME NEW i \in 1 .. Len(P) PROVE P[i] = Q[i + d]
  <2>1. i \in 1 .. Len(p) + Len(w) /\ i + d \in 1 .. Len(q) + Len(w) /\ (i + d) - Len(q) = i - Len(p)
    BY <1>0, <1>1, <1>3 DEF P
  <2>2. i <= Len(p) <=> i + d <= Len(q)
    BY <2>1, <1>0, <1>3
  <2>3. CASE i <= Len(p)
    <3>1. p[i] = q[i + d]
      <4>1. i \in 1 .. Len(p)
        BY <2>1, <2>3, <1>3
      <4> QED BY <4>1, <1>0
    <3> QED BY <3>1, <2>1, <2>2, <2>3, <1>1, <1>2 DEF P, Q
  <2>4. CASE ~(i <= Len(p))
    BY <2>1, <2>2, <2>4, <1>1, <1>2 DEF P, Q
  <2> QED BY <2>3, <2>4
<1>6. Less(P, Q, d)
  BY <1>4, <1>5 DEF Less
<1> QED BY <1>1, <1>6 DEF P, Q

LEMMA Places ==
  ASSUME NEW H \in Nat, NEW h \in Nat, NEW size \in Nat, NEW o \in Nat, NEW L \in Nat,
         NEW i \in Nat, NEW len \in Nat, h + i = H + o + 1, len = o + size
  PROVE  /\ i + (h + size) = H + len + 1
         /\ len <= L => \A x \in 1 .. len :
              ~(x <= o) => LET y == h + (x - o) IN
                             /\ y \in 1 .. h + size /\ y \in 1 .. 1 + (H + L) - i
                             /\ i + (y - 1) = H + x
OBVIOUS

LEMMA ReadsCollects ==
  ASSUME NEW B, B \subseteq AnyByte, NEW s, NEW guess, NEW list \in Seq(BlockOf(AnyByte)),
         NEW rest \in Seq(B), NEW t \in States(B), NEW h \in Nat, NEW size \in Nat,
         Reads(s, guess, list, rest, t, h, size), rest # <<>>,
         NEW w \in Seq(AnyByte), NEW n \in Nat, sent[s] \in Seq(Sent), Collecting(sent[s], n, list, rest \o w)
  PROVE  Collecting(sent[s], n, t.list, t.rest \o w)
<1> DEFINE sq == sent[s]
           N == Current(list)
           old == Begun(list)
           m == n + N
           new == t.list[N]
           q == rest \o w
           p == t.rest \o w
           d == h + size
           i == IF old.length = 0 THEN 1 ELSE HeadBytes + Len(old.data) + 1
<1> HIDE DEF N, old
<1>1. /\ InOrder(sq, q) /\ Goes(sq, m, old, q)
      /\ \A j \in 1 .. N - 1 : Holds(sq, n + j, list[j]) /\ IsWhole(list[j])
  BY CollectingCurrent DEF N, old
<1>2. /\ old \in BlockOf(AnyByte) /\ ~IsWhole(old) /\ N \in Nat \ {0} /\ (old.length = 0 => old = Fresh)
  BY BegunType DEF N, old
<1>3. old.length \in Nat /\ Len(old.data) \in Nat /\ (old.length = 0 => Len(old.data) = 0) /\ (old.length # 0 => old # Fresh)
  <2>1. old.length \in Nat /\ old.data \in Seq(AnyByte)
    BY <1>2 DEF BlockOf
  <2>2. Fresh.length = 0 /\ Len(Fresh.data) = 0
    BY DEF Fresh
  <2> QED BY <2>1, <2>2, <1>2
<1>4. rest \in Seq(AnyByte) /\ t.rest \in Seq(AnyByte) /\ t.list \in Seq(BlockOf(AnyByte))
  <2>1. t.rest \in Seq(B) /\ t.list \in Seq(BlockOf(AnyByte))
    BY DEF States
  <2> QED BY <2>1, SeqMonotonic
<1>5. /\ IF old.length = 0 THEN h = HeadBytes /\ new.length = Word(s, rest[1], guess)
                           ELSE h = 0 /\ new.length = old.length
      /\ d <= Len(rest) /\ Len(old.data) + size <= new.length
      /\ d = Len(rest) \/ Len(old.data) + size = new.length
      /\ EndsWith(t.list, list, N, new)
      /\ Len(new.data) = Len(old.data) + size
      /\ \A x \in 1 .. Len(new.data) :
           new.data[x] = IF x <= Len(old.data) THEN old.data[x] ELSE rest[h + (x - Len(old.data))]
      /\ Len(t.rest) = Len(rest) - d
      /\ \A x \in 1 .. Len(t.rest) : t.rest[x] = rest[x + d]
  BY DEF Reads, N, old
<1>6. /\ q \in Seq(AnyByte) /\ q # <<>> /\ Len(q) >= Len(rest) /\ Len(rest) \in Nat \ {0} /\ Len(q) \in Nat
      /\ \A x \in 1 .. Len(rest) : q[x] = rest[x]
  <2>1. /\ q \in Seq(AnyByte) /\ Len(q) = Len(rest) + Len(w)
        /\ \A x \in 1 .. Len(rest) + Len(w) : q[x] = IF x <= Len(rest) THEN rest[x] ELSE w[x - Len(rest)]
    BY <1>4, ConcatProperties
  <2>2. Len(rest) \in Nat \ {0} /\ Len(w) \in Nat
    BY <1>4
  <2> HIDE DEF q
  <2>3. Len(q) # 0 /\ \A x \in 1 .. Len(rest) : x \in 1 .. Len(rest) + Len(w)
    BY <2>1, <2>2
  <2> QED BY <2>1, <2>2, <2>3
<1>7. /\ p \in Seq(AnyByte) /\ Len(p) = Len(q) - d /\ \A x \in 1 .. Len(p) : p[x] = q[x + d]
  <2>1. d \in Nat
    OBVIOUS
  <2>2. Len(t.rest) = Len(rest) - d /\ \A x \in 1 .. Len(t.rest) : t.rest[x] = rest[x + d]
    BY <1>5
  <2> HIDE DEF d
  <2>3. /\ t.rest \o w \in Seq(AnyByte)
        /\ Len(t.rest \o w) = Len(rest \o w) - d
        /\ \A x \in 1 .. Len(t.rest \o w) : (t.rest \o w)[x] = (rest \o w)[x + d]
    <3> DEFINE a == t.rest
    <3>1. a \in Seq(AnyByte) /\ rest \in Seq(AnyByte) /\ Less(a, rest, d)
      BY <2>2, <1>4 DEF Less
    <3> HIDE DEF a, q, p
    <3>2. a \o w \in Seq(AnyByte) /\ Less(a \o w, rest \o w, d)
      BY <2>1, <3>1, LessBytes
    <3> QED BY <3>2 DEF a, Less
  <2> QED BY <2>3
<1>8. sq \in Seq(Sent)
  OBVIOUS
<1> HIDE DEF sq, new, q, p, d
<1>9. q[1] = <<m, i>> /\ (old.length # 0 => Holds(sq, m, old))
  <2>1. CASE old.length = 0
    <3>1. Comes(sq, q, m, 1)
      <4>1. ~Holds(sq, m, old)
        <5>1. SUFFICES ASSUME Holds(sq, m, old) PROVE FALSE
          OBVIOUS
        <5>2. m \in 1 .. Len(sq) /\ old.length = sq[m].length
          BY <5>1 DEF Holds
        <5>3. sq[m].length \in Nat \ {0}
          BY <5>2, <1>8, Sizes
        <5> QED BY <5>2, <5>3, <2>1
      <4> QED BY <4>1, <1>1 DEF Goes
    <3> QED BY <2>1, <3>1, <1>6 DEF Comes
  <2>2. CASE old.length # 0
    <3>1. Holds(sq, m, old) /\ Comes(sq, q, m, HeadBytes + Len(old.data) + 1)
      BY <2>2, <1>1, <1>2, <1>3 DEF Goes
    <3> QED BY <2>2, <3>1, <1>6 DEF Comes
  <2> QED BY <2>1, <2>2
<1> HIDE DEF m
<1> DEFINE end == 1 + SizeOf(sq, m) - i
<1>10. /\ m \in 1 .. Len(sq) /\ i \in 1 .. SizeOf(sq, m)
       /\ end <= Len(q) /\ \A j \in 1 .. end : q[j] = <<m, i + (j - 1)>>
  <2>1. 1 \in 1 .. Len(q) /\ q[1][1] = m /\ q[1][2] = i
    BY <1>6, <1>9
  <2> HIDE DEF i
  <2> QED BY <2>1, <1>1 DEF InOrder
<1> DEFINE L == sq[m].length
<1>11. L \in Nat \ {0} /\ SizeOf(sq, m) = HeadBytes + L /\ HeadBytes \in Nat \ {0} /\ SizeOf(sq, m) \in Nat
  <2>1. L \in Nat \ {0}
    BY <1>8, <1>10, Sizes
  <2> QED BY <2>1, Positive DEF SizeOf
<1>12. new.length = L
  <2>1. CASE old.length = 0
    <3>1. rest[1] = <<m, 1>> /\ m # 0
      <4>1. 1 \in 1 .. Len(rest)
        BY <1>6
      <4>2. i = 1
        BY <2>1
      <4> QED BY <4>1, <4>2, <1>6, <1>9, <1>10
    <3>2. Word(s, rest[1], guess) = sent[s][m].length
      BY <3>1 DEF Word
    <3> QED BY <2>1, <3>2, <1>5 DEF sq
  <2>2. CASE old.length # 0
    BY <2>2, <1>5, <1>9 DEF Holds
  <2> QED BY <2>1, <2>2
<1> HIDE DEF L, end
<1>13. d = h + size /\ Len(new.data) \in Nat /\ Len(new.data) <= L /\ Len(new.data) = Len(old.data) + size
  BY <1>3, <1>5, <1>12 DEF d
<1>14. h + i = HeadBytes + Len(old.data) + 1 /\ h \in Nat /\ i \in Nat
  <2>1. CASE old.length = 0
    BY <2>1, <1>3, <1>5, <1>11
  <2>2. CASE old.length # 0
    BY <2>2, <1>3, <1>5, <1>11
  <2> QED BY <2>1, <2>2
<1> HIDE DEF i
<1>15. i + d = HeadBytes + Len(new.data) + 1
  <2> DEFINE o == Len(old.data)
             len == Len(new.data)
  <2>1. /\ HeadBytes \in Nat /\ o \in Nat /\ len \in Nat /\ i \in Nat /\ h \in Nat /\ size \in Nat /\ 0 \in Nat
        /\ h + i = HeadBytes + o + 1 /\ len = o + size
    BY <1>3, <1>11, <1>13, <1>14
  <2> HIDE DEF o, len
  <2>2. i + (h + size) = HeadBytes + len + 1
    BY <2>1
  <2> QED BY <2>2, <1>13 DEF len
<1>16. ASSUME NEW x \in 1 .. Len(new.data) PROVE new.data[x] = <<m, HeadBytes + x>>
  <2>1. CASE x <= Len(old.data)
    <3>1. old.length # 0 /\ x \in 1 .. Len(old.data)
      BY <2>1, <1>3
    <3>2. old.data[x] = <<m, HeadBytes + x>>
      BY <3>1, <1>9 DEF Holds
    <3> QED BY <2>1, <3>2, <1>5
  <2>2. CASE ~(x <= Len(old.data))
    <3> DEFINE y == h + (x - Len(old.data))
    <3>1. y \in 1 .. Len(rest) /\ y \in 1 .. end /\ i + (y - 1) = HeadBytes + x
      <4> DEFINE o == Len(old.data)
                 len == Len(new.data)
      <4>1. /\ HeadBytes \in Nat /\ o \in Nat /\ len \in Nat /\ i \in Nat /\ h \in Nat /\ size \in Nat
            /\ L \in Nat /\ h + i = HeadBytes + o + 1 /\ len = o + size /\ len <= L
        BY <1>3, <1>11, <1>13, <1>14
      <4>2. x \in 1 .. len /\ ~(x <= o) /\ y = h + (x - o)
        BY <2>2
      <4>3. end = 1 + (HeadBytes + L) - i
        BY <1>11 DEF end
      <4>4. h + size <= Len(rest) /\ Len(rest) \in Nat
        BY <1>5, <1>6, <1>13
      <4> HIDE DEF o, len, y
      <4>5. y \in 1 .. h + size /\ y \in 1 .. 1 + (HeadBytes + L) - i /\ i + (y - 1) = HeadBytes + x
        BY <4>1, <4>2, Places
      <4>6. y \in 1 .. Len(rest)
        BY <4>1, <4>4, <4>5
      <4> QED BY <4>3, <4>5, <4>6
    <3>2. new.data[x] = rest[y]
      BY <2>2, <1>5
    <3> HIDE DEF y
    <3> QED BY <3>1, <3>2, <1>6, <1>10
  <2> QED BY <2>1, <2>2
<1>17. Holds(sq, m, new)
  BY <1>10, <1>12, <1>13, <1>16 DEF Holds, L
<1>18. /\ i + d <= SizeOf(sq, m) => Comes(sq, p, m, i + d)
       /\ i + d = SizeOf(sq, m) + 1 => Comes(sq, p, m + 1, 1)
  <2>1. d \in Nat
    BY <1>13
  <2>2. InOrder(sq, q) /\ q # <<>> /\ q[1] = <<m, i>> /\ q \in Seq(AnyByte)
    BY <1>1, <1>6, <1>9
  <2>3. p \in Seq(AnyByte) /\ Len(p) = Len(q) - d /\ \A x \in 1 .. Len(p) : p[x] = q[x + d]
    BY <1>7
  <2>4. m \in 1 .. Len(sq) /\ i \in 1 .. SizeOf(sq, m)
    BY <1>10
  <2> QED BY <2>1, <2>2, <2>3, <2>4, <1>8, ComesNext
<1>19. Goes(sq, m, new, p)
  <2>1. CASE IsWhole(new)
    <3>1. Len(new.data) = L
      BY <2>1, <1>12, <1>13, <1>11 DEF IsWhole
    <3>2. i + d = SizeOf(sq, m) + 1
      BY <3>1, <1>11, <1>13, <1>15
    <3> QED BY <2>1, <3>2, <1>17, <1>18 DEF Goes
  <2>2. CASE ~IsWhole(new)
    <3>1. Len(new.data) < L
      BY <2>2, <1>11, <1>12, <1>13 DEF IsWhole
    <3>2. i + d <= SizeOf(sq, m)
      BY <3>1, <1>11, <1>13, <1>15
    <3> QED BY <2>2, <3>2, <1>15, <1>17, <1>18 DEF Goes
  <2> QED BY <2>1, <2>2
<1>20. InOrder(sq, p)
  <2>1. d \in Nat
    BY <1>13
  <2> QED BY <2>1, <1>1, <1>6, <1>7, <1>8, OrderStays
<1>21. EndsWith(t.list, list, N, new) /\ t.list # <<>>
  <2>1. EndsWith(t.list, list, N, new)
    BY <1>5
  <2>2. Len(t.list) = N
    BY <2>1 DEF EndsWith
  <2> QED BY <2>1, <2>2, <1>2
<1>22. Collecting(sq, n, t.list, p)
  BY <1>1, <1>2, <1>8, <1>19, <1>20, <1>21, CollectingEnds DEF m
<1> QED BY <1>22 DEF sq, p

-----------------------------------------------------------------------------
(* The turns of OnRead's loop                                               *)

\* What holds after every turn of a loop that began with list and rest
OnTheWay(s, B, list, rest, st) ==
  /\ st \in States(B)
  /\ list # <<>> => st.list # <<>>
  /\ list # <<>> /\ IsWhole(list[1]) => IsWhole(st.list[1])
  /\ st.signal => st.list # <<>> /\ IsWhole(st.list[1])
  /\ \E d \in Nat : /\ Less(st.rest, rest, d)
                    /\ d = 0 /\ list \in {<<>>, <<Fresh>>} => st.list \in {<<>>, <<Fresh>>} /\ ~st.signal
  /\ \A n \in Nat : \A w \in Seq(AnyByte) :
       Collecting(sent[s], n, list, rest \o w) => Collecting(sent[s], n, st.list, st.rest \o w)

\* The loop has nothing to do any more.
Done(st) ==
  \/ st.rest = <<>>
  \/ Len(st.rest) < HeadBytes /\ st.list # <<>> /\ st.list[Len(st.list)] = Fresh

\* The first block of a list stays once it is whole.
LEMMA HeadStays ==
  ASSUME NEW list \in Seq(BlockOf(AnyByte)), NEW after \in Seq(BlockOf(AnyByte)), NEW b,
         EndsWith(after, list, Current(list), b)
  PROVE  /\ after # <<>>
         /\ list # <<>> /\ IsWhole(list[1]) => IsWhole(after[1])
<1>1. /\ Len(after) = Current(list) /\ \A j \in 1 .. Current(list) - 1 : after[j] = list[j]
  BY DEF EndsWith
<1>2. Current(list) \in Nat \ {0}
  BY BegunType
<1>3. after # <<>>
  <2>1. Len(after) # 0
    BY <1>1, <1>2
  <2> QED BY <2>1
<1>4. ASSUME list # <<>>, IsWhole(list[1]) PROVE IsWhole(after[1])
  <2>1. Len(list) \in Nat \ {0}
    BY <1>4
  <2>2. Current(list) # 1
    BY <2>1, <1>4 DEF Current, Open
  <2>3. 1 \in 1 .. Current(list) - 1
    BY <2>2, <1>2
  <2> QED BY <2>3, <1>1, <1>4
<1> QED BY <1>3, <1>4

LEMMA FreshList ==
  ASSUME NEW list \in {<<>>, <<Fresh>>}
  PROVE  Current(list) = 1 /\ Begun(list) = Fresh
<1>1. ~IsWhole(Fresh)
  BY DEF IsWhole, Fresh
<1> DEFINE b == Fresh
<1> HIDE DEF b
<1>2. /\ list = <<>> => Len(list) = 0
      /\ list = <<b>> => Len(list) = 1 /\ list[1] = b /\ list # <<>>
  OBVIOUS
<1>3. ~IsWhole(b) /\ list \in {<<>>, <<b>>} /\ b = Fresh
  BY <1>1 DEF b
<1> QED BY <1>2, <1>3 DEF Current, Begun, Open

LEMMA LessThanLess ==
  ASSUME NEW p \in Seq(AnyByte), NEW q \in Seq(AnyByte), NEW r \in Seq(AnyByte), NEW d \in Nat, NEW e \in Nat,
         Less(p, q, d), Less(q, r, e)
  PROVE  Less(p, r, e + d)
<1>1. Len(p) = Len(q) - d /\ \A i \in 1 .. Len(p) : p[i] = q[i + d]
  BY DEF Less
<1>2. Len(q) = Len(r) - e /\ \A i \in 1 .. Len(q) : q[i] = r[i + e]
  BY DEF Less
<1>3. Len(p) \in Nat /\ Len(q) \in Nat /\ Len(r) \in Nat
  OBVIOUS
<1>4. ASSUME NEW i \in 1 .. Len(p) PROVE p[i] = r[i + (e + d)]
  <2>1. i + d \in 1 .. Len(q) /\ (i + d) + e = i + (e + d)
    BY <1>1, <1>3
  <2> QED BY <2>1, <1>1, <1>2
<1>5. Len(p) = Len(r) - (e + d)
  BY <1>1, <1>2, <1>3
<1> QED BY <1>4, <1>5 DEF Less

LEMMA TurnStays ==
  ASSUME NEW B, B \subseteq AnyByte, NEW s, NEW guess, \A b \in B : Word(s, b, guess) \in Nat,
         NEW list \in Seq(BlockOf(AnyByte)), NEW rest \in Seq(B), sent[s] \in Seq(Sent),
         NEW st, OnTheWay(s, B, list, rest, st)
  PROVE  OnTheWay(s, B, list, rest, Turn(s, st, guess))
<1> DEFINE t == Turn(s, st, guess)
           N == Current(st.list)
           old == Begun(st.list)
<1>1. st \in States(B)
  BY DEF OnTheWay
<1>2. st.list \in Seq(BlockOf(AnyByte)) /\ st.rest \in Seq(B) /\ st.signal \in BOOLEAN
  BY <1>1 DEF States
<1>3. /\ t \in States(B)
      /\ st.rest = <<>> => t = st
      /\ st.rest # <<>> =>
           IF old.length = 0 /\ Len(st.rest) < HeadBytes
           THEN t.rest = st.rest /\ t.signal = st.signal /\ EndsWith(t.list, st.list, N, old)
           ELSE /\ \E h \in Nat, size \in Nat : Reads(s, guess, st.list, st.rest, t, h, size)
                /\ t.signal => st.signal \/ IsWhole(t.list[1])
  BY <1>1, TurnResult
<1>4. N \in Nat \ {0} /\ (old.length = 0 => old = Fresh) /\ Begun(st.list) = old /\ Current(st.list) = N
  BY <1>2, BegunType
<1> HIDE DEF t, N, old
<1>5. t.list \in Seq(BlockOf(AnyByte)) /\ t.rest \in Seq(B)
  BY <1>3 DEF States
<1>6. rest \in Seq(AnyByte) /\ st.rest \in Seq(AnyByte) /\ t.rest \in Seq(AnyByte)
  <2>1. ASSUME NEW q \in Seq(B) PROVE q \in Seq(AnyByte)
    BY SeqMonotonic
  <2> QED BY <2>1, <1>2, <1>5
<1>7. PICK d \in Nat : /\ Less(st.rest, rest, d)
                       /\ d = 0 /\ list \in {<<>>, <<Fresh>>} => st.list \in {<<>>, <<Fresh>>} /\ ~st.signal
  BY DEF OnTheWay
<1>8. /\ list # <<>> => st.list # <<>>
      /\ list # <<>> /\ IsWhole(list[1]) => IsWhole(st.list[1])
      /\ st.signal => st.list # <<>> /\ IsWhole(st.list[1])
      /\ \A n \in Nat : \A w \in Seq(AnyByte) :
           Collecting(sent[s], n, list, rest \o w) => Collecting(sent[s], n, st.list, st.rest \o w)
  BY DEF OnTheWay
<1>9. CASE st.rest = <<>>
  BY <1>3, <1>9 DEF t
<1>10. CASE st.rest # <<>> /\ old.length = 0 /\ Len(st.rest) < HeadBytes
  <2>1. t.rest = st.rest /\ t.signal = st.signal /\ EndsWith(t.list, st.list, N, old) /\ old = Fresh
    BY <1>3, <1>4, <1>10
  <2>2. t.list # <<>> /\ (st.list # <<>> /\ IsWhole(st.list[1]) => IsWhole(t.list[1]))
    BY <2>1, <1>2, <1>4, <1>5, HeadStays
  <2>3. ASSUME st.list \in {<<>>, <<Fresh>>} PROVE t.list \in {<<>>, <<Fresh>>}
    <3>1. N = 1
      BY <2>3, <1>4, FreshList
    <3>2. Len(t.list) = 1 /\ t.list[1] = Fresh
      BY <2>1, <3>1 DEF EndsWith
    <3> DEFINE l == t.list
               b == Fresh
    <3>3. l \in Seq(BlockOf(AnyByte)) /\ Len(l) = 1 /\ l[1] = b
      BY <3>2, <1>5
    <3> HIDE DEF l, b
    <3>4. l = <<b>>
      BY <3>3
    <3> QED BY <3>4 DEF l, b
  <2>4. ASSUME NEW n \in Nat, NEW w \in Seq(AnyByte), Collecting(sent[s], n, list, rest \o w)
        PROVE  Collecting(sent[s], n, t.list, t.rest \o w)
    <3>1. Collecting(sent[s], n, st.list, st.rest \o w)
      BY <2>4, <1>8
    <3> DEFINE sq == sent[s]
               q == st.rest \o w
    <3>2. sq \in Seq(Sent) /\ Collecting(sq, n, st.list, q)
      BY <3>1
    <3> HIDE DEF sq, q
    <3>3. /\ InOrder(sq, q) /\ Goes(sq, n + N, old, q)
          /\ \A j \in 1 .. N - 1 : Holds(sq, n + j, st.list[j]) /\ IsWhole(st.list[j])
      BY <3>2, <1>2, <1>4, CollectingCurrent
    <3>4. Collecting(sq, n, t.list, q)
      <4> DEFINE a == t.list
                 o == st.list
      <4>1. EndsWith(a, o, N, old) /\ a # <<>>
        BY <2>1, <2>2
      <4>2. \A j \in 1 .. N - 1 : Holds(sq, n + j, o[j]) /\ IsWhole(o[j])
        BY <3>3
      <4> HIDE DEF a, o
      <4>3. Collecting(sq, n, a, q)
        BY <4>1, <4>2, <3>2, <3>3, <1>4, CollectingEnds
      <4> QED BY <4>3 DEF a
    <3> QED BY <3>4, <2>1 DEF sq, q
  <2>5. t.signal => st.list # <<>> /\ IsWhole(st.list[1])
    BY <2>1, <1>8
  <2>6. /\ Less(t.rest, rest, d)
        /\ d = 0 /\ list \in {<<>>, <<Fresh>>} => t.list \in {<<>>, <<Fresh>>} /\ ~t.signal
    BY <2>1, <2>3, <1>7
  <2>7. OnTheWay(s, B, list, rest, t)
    BY <2>2, <2>4, <2>5, <2>6, <1>3, <1>8 DEF OnTheWay
  <2> QED BY <2>7 DEF t
<1>11. CASE st.rest # <<>> /\ ~(old.length = 0 /\ Len(st.rest) < HeadBytes)
  <2>1. PICK h \in Nat, size \in Nat : Reads(s, guess, st.list, st.rest, t, h, size)
    BY <1>3, <1>11
  <2>2. t.signal => st.signal \/ IsWhole(t.list[1])
    BY <1>3, <1>11
  <2>3. EndsWith(t.list, st.list, Current(st.list), t.list[Current(st.list)])
    BY <2>1 DEF Reads
  <2>4. t.list # <<>> /\ (st.list # <<>> /\ IsWhole(st.list[1]) => IsWhole(t.list[1]))
    BY <2>3, <1>2, <1>5, HeadStays
  <2>5. Less(t.rest, st.rest, h + size) /\ h + size \in Nat
    BY <2>1 DEF Reads, Less
  <2>6. h + size # 0
    <3>1. /\ IF old.length = 0 THEN h = HeadBytes ELSE h = 0 /\ t.list[N].length = old.length
          /\ h + size = Len(st.rest) \/ Len(old.data) + size = t.list[N].length
      BY <2>1 DEF Reads, N, old
    <3>2. Len(st.rest) \in Nat \ {0} /\ HeadBytes \in Nat \ {0}
      BY <1>2, <1>11, Positive
    <3>3. old \in BlockOf(AnyByte) /\ ~IsWhole(old)
      BY <1>2, BegunType DEF old
    <3>4. old.length \in Nat /\ Len(old.data) \in Nat /\ (old.length # 0 => Len(old.data) < old.length)
      <4>1. old.length \in Nat /\ old.data \in Seq(AnyByte)
        BY <3>3 DEF BlockOf
      <4> QED BY <4>1, <3>3 DEF IsWhole
    <3>5. CASE old.length = 0
      BY <3>1, <3>2, <3>5
    <3>6. CASE old.length # 0
      BY <3>1, <3>2, <3>4, <3>6
    <3> QED BY <3>5, <3>6
  <2>7. Less(t.rest, rest, d + (h + size)) /\ d + (h + size) \in Nat /\ d + (h + size) # 0
    <3> DEFINE p == t.rest
               q == st.rest
               e == h + size
    <3>1. p \in Seq(AnyByte) /\ q \in Seq(AnyByte) /\ Less(p, q, e) /\ Less(q, rest, d) /\ e \in Nat /\ e # 0
      BY <2>5, <2>6, <1>6, <1>7
    <3> HIDE DEF p, q, e
    <3>2. Less(p, rest, d + e)
      BY <3>1, <1>6, LessThanLess
    <3>3. d + e \in Nat /\ d + e # 0
      BY <3>1
    <3> QED BY <3>2, <3>3 DEF p, e
  <2>8. ASSUME NEW n \in Nat, NEW w \in Seq(AnyByte), Collecting(sent[s], n, list, rest \o w)
        PROVE  Collecting(sent[s], n, t.list, t.rest \o w)
    <3>1. Collecting(sent[s], n, st.list, st.rest \o w)
      BY <2>8, <1>8
    <3> DEFINE o == st.list
               q == st.rest
    <3>2. o \in Seq(BlockOf(AnyByte)) /\ q \in Seq(B) /\ Collecting(sent[s], n, o, q \o w)
          /\ Reads(s, guess, o, q, t, h, size) /\ q # <<>>
      BY <3>1, <2>1, <1>2, <1>11
    <3> HIDE DEF o, q
    <3> QED BY <3>2, <1>3, ReadsCollects
  <2>9. t.signal => t.list # <<>> /\ IsWhole(t.list[1])
    BY <2>2, <2>4, <1>8
  <2>10. OnTheWay(s, B, list, rest, t)
    BY <2>4, <2>7, <2>8, <2>9, <1>3, <1>8 DEF OnTheWay
  <2> QED BY <2>10 DEF t
<1> QED BY <1>9, <1>10, <1>11

LEMMA TurnEnds ==
  ASSUME NEW B, B \subseteq AnyByte, NEW s, NEW guess, \A b \in B : Word(s, b, guess) \in Nat,
         NEW st \in States(B)
  PROVE  /\ Done(st) => Done(Turn(s, st, guess))
         /\ Done(Turn(s, st, guess)) \/ Len(Turn(s, st, guess).rest) < Len(st.rest)
<1> DEFINE t == Turn(s, st, guess)
           N == Current(st.list)
           old == Begun(st.list)
<1>2. st.list \in Seq(BlockOf(AnyByte)) /\ st.rest \in Seq(B)
  BY DEF States
<1>3. /\ t \in States(B)
      /\ st.rest = <<>> => t = st
      /\ st.rest # <<>> =>
           IF old.length = 0 /\ Len(st.rest) < HeadBytes
           THEN t.rest = st.rest /\ t.signal = st.signal /\ EndsWith(t.list, st.list, N, old)
           ELSE /\ \E h \in Nat, size \in Nat : Reads(s, guess, st.list, st.rest, t, h, size)
                /\ t.signal => st.signal \/ IsWhole(t.list[1])
  BY TurnResult
<1>4. N \in Nat \ {0} /\ (old.length = 0 => old = Fresh) /\ old \in BlockOf(AnyByte) /\ ~IsWhole(old)
  BY <1>2, BegunType
<1> HIDE DEF t, N, old
<1>5. CASE st.rest = <<>>
  BY <1>3, <1>5 DEF Done, t
<1>6. CASE st.rest # <<>> /\ old.length = 0 /\ Len(st.rest) < HeadBytes
  <2>1. t.rest = st.rest /\ Len(t.list) = N /\ t.list[N] = Fresh
    BY <1>3, <1>4, <1>6 DEF EndsWith
  <2>2. t.list # <<>>
    <3>1. Len(t.list) # 0
      BY <2>1, <1>4
    <3> QED BY <3>1
  <2>3. Done(t)
    BY <2>1, <2>2, <1>6 DEF Done
  <2> QED BY <2>3 DEF t
<1>7. CASE st.rest # <<>> /\ ~(old.length = 0 /\ Len(st.rest) < HeadBytes)
  <2>1. PICK h \in Nat, size \in Nat : Reads(s, guess, st.list, st.rest, t, h, size)
    BY <1>3, <1>7
  <2>2. /\ IF old.length = 0 THEN h = HeadBytes ELSE h = 0 /\ t.list[N].length = old.length
        /\ h + size = Len(st.rest) \/ Len(old.data) + size = t.list[N].length
        /\ Len(t.rest) = Len(st.rest) - (h + size)
    BY <2>1 DEF Reads, N, old
  <2>3. Len(st.rest) \in Nat \ {0} /\ HeadBytes \in Nat \ {0}
    BY <1>2, <1>7, Positive
  <2>4. old.length \in Nat /\ Len(old.data) \in Nat /\ (old.length # 0 => Len(old.data) < old.length)
    <3>1. old.length \in Nat /\ old.data \in Seq(AnyByte)
      BY <1>4 DEF BlockOf
    <3> QED BY <3>1, <1>4 DEF IsWhole
  <2>5. h + size # 0
    <3>1. CASE old.length = 0
      BY <2>2, <2>3, <3>1
    <3>2. CASE old.length # 0
      BY <2>2, <2>3, <2>4, <3>2
    <3> QED BY <3>1, <3>2
  <2>6. Len(t.rest) < Len(st.rest)
    BY <2>2, <2>3, <2>5
  <2>7. ~Done(st)
    <3> DEFINE l == st.list
    <3>1. SUFFICES ASSUME l # <<>>, l[Len(l)] = Fresh, Len(st.rest) < HeadBytes PROVE FALSE
      BY <1>7 DEF Done
    <3>2. ~IsWhole(Fresh) /\ Fresh.length = 0
      BY DEF IsWhole, Fresh
    <3>3. old = Fresh
      BY <3>1, <3>2 DEF old, Begun, Open
    <3> QED BY <3>1, <3>2, <3>3, <1>7
  <2> QED BY <2>6, <2>7 DEF t
<1> QED BY <1>5, <1>6, <1>7

\* The values of st in the loop, from list and rest
Turns(f, s, list, rest, guess) ==
  /\ f[0] = [list |-> list, rest |-> rest, signal |-> FALSE]
  /\ \A k \in 1 .. Len(rest) : f[k] = Turn(s, f[k - 1], guess)
  /\ f[Len(rest)] = Collected(s, list, rest, guess)

LEMMA TurnsOnTheWay ==
  ASSUME NEW B, B \subseteq AnyByte, NEW s, NEW guess, \A b \in B : Word(s, b, guess) \in Nat,
         NEW list \in Seq(BlockOf(AnyByte)), NEW rest \in Seq(B)
  PROVE  \E f \in [0 .. Len(rest) -> States(B)] : Turns(f, s, list, rest, guess)
<1> DEFINE n == Len(rest)
           A == States(B)
           base == [list |-> list, rest |-> rest, signal |-> FALSE]
           R(f) == f = [k \in 0 .. n |-> IF k = 0 THEN base ELSE Turn(s, f[k - 1], guess)]
           g == [x \in A \X (1 .. n) |-> Turn(s, x[1], guess)]
           h == CHOOSE f : R(f)
<1>1. n \in Nat /\ base \in A
  BY DEF States
<1>2. g \in [A \X (1 .. n) -> A]
  <2>1. ASSUME NEW st \in A PROVE Turn(s, st, guess) \in A
    BY TurnResult
  <2> HIDE DEF A
  <2> QED BY <2>1
<1> HIDE DEF A, base
<1>3. PICK f \in [0 .. n -> A] : Iterates(f, base, g, n)
  <2>1. n \in Nat
    BY <1>1
  <2> HIDE DEF g, n
  <2> QED BY <2>1, <1>1, <1>2, IterationExists
<1>4. ASSUME NEW k \in 1 .. n
      PROVE  f[k] = Turn(s, f[k - 1], guess)
  <2>1. f[k] = g[<<f[k - 1], k>>]
    <3> HIDE DEF g, n
    <3> QED BY <1>3 DEF Iterates
  <2>2. f[k - 1] \in A
    <3>1. n \in Nat
      BY <1>1
    <3> HIDE DEF g, n
    <3>2. k - 1 \in 0 .. n
      BY <3>1
    <3> QED BY <3>2
  <2>3. g[<<f[k - 1], k>>] = Turn(s, f[k - 1], guess)
    BY <2>2
  <2> QED BY <2>1, <2>3
<1>5. R(f)
  <2> HIDE DEF g
  <2>1. \A k \in 0 .. n : f[k] = IF k = 0 THEN base ELSE Turn(s, f[k - 1], guess)
    BY <1>1, <1>3, <1>4 DEF Iterates
  <2> QED BY <2>1
<1>6. R(h)
  <2> HIDE DEF R
  <2> QED BY <1>5
<1>7. Collected(s, list, rest, guess) = h[n]
  BY DEF Collected, base
<1> HIDE DEF g, h, n
<1>8. h[0] = base /\ \A k \in 1 .. n : h[k] = Turn(s, h[k - 1], guess)
  BY <1>1, <1>6
<1>9. f[0] = base /\ \A k \in 1 .. n : f[k] = Turn(s, f[k - 1], guess)
  BY <1>3, <1>4 DEF Iterates
<1>10. \A k \in 0 .. n : h[k] = f[k]
  <2>0. n \in Nat
    BY <1>1
  <2>1. h[0] = f[0]
    BY <1>8, <1>9
  <2>2. \A k \in 1 .. n : h[k - 1] = f[k - 1] => h[k] = f[k]
    BY <1>8, <1>9
  <2>3. GoAlike(h, f, n)
    BY <2>1, <2>2 DEF GoAlike
  <2>4. Alike(h, f, n)
    BY <2>0, <2>3, IterationUnique
  <2> QED BY <2>4 DEF Alike
<1>11. f[n] = Collected(s, list, rest, guess)
  BY <1>7, <1>10, <1>1
<1>12. Turns(f, s, list, rest, guess)
  BY <1>9, <1>11 DEF Turns, n, base
<1> QED BY <1>12 DEF n, A

\* The loop ends, and what holds after every turn holds then.
LEMMA CollectedResult ==
  ASSUME NEW B, B \subseteq AnyByte, NEW s, NEW guess, \A b \in B : Word(s, b, guess) \in Nat,
         NEW list \in Seq(BlockOf(AnyByte)), NEW rest \in Seq(B), sent[s] \in Seq(Sent)
  PROVE  /\ OnTheWay(s, B, list, rest, Collected(s, list, rest, guess))
         /\ Done(Collected(s, list, rest, guess))
<1> DEFINE n == Len(rest)
           On(st) == OnTheWay(s, B, list, rest, st)
<1>0. PICK f \in [0 .. n -> States(B)] : Turns(f, s, list, rest, guess)
  BY TurnsOnTheWay
<1>1. /\ f[0] = [list |-> list, rest |-> rest, signal |-> FALSE]
      /\ \A k \in 1 .. n : f[k] = Turn(s, f[k - 1], guess)
      /\ f[n] = Collected(s, list, rest, guess)
  BY <1>0 DEF Turns
<1> DEFINE Good(k) == On(f[k]) /\ (Done(f[k]) \/ Len(f[k].rest) <= n - k)
           Bad == {k \in 0 .. n : ~Good(k)}
<1>2. n \in Nat
  OBVIOUS
<1>3. Good(0)
  <2> DEFINE st == [list |-> list, rest |-> rest, signal |-> FALSE]
  <2>1. st \in States(B) /\ st.list = list /\ st.rest = rest /\ ~st.signal
    BY DEF States
  <2>2. Less(rest, rest, 0)
    BY DEF Less
  <2>3. On(st)
    <3> HIDE DEF st
    <3>1. \E d \in Nat : /\ Less(st.rest, rest, d)
                         /\ d = 0 /\ list \in {<<>>, <<Fresh>>} => st.list \in {<<>>, <<Fresh>>} /\ ~st.signal
      BY <2>1, <2>2
    <3> QED BY <2>1, <3>1 DEF OnTheWay
  <2>4. Len(st.rest) <= n - 0
    BY <1>2
  <2> HIDE DEF On, st
  <2> QED BY <2>3, <2>4, <1>1 DEF st
<1>4. ASSUME NEW k \in 1 .. n, Good(k - 1) PROVE Good(k)
  <2>1. f[k] = Turn(s, f[k - 1], guess)
    BY <1>1
  <2>2. f[k - 1] \in States(B)
    <3>1. k - 1 \in 0 .. n
      BY <1>2
    <3> QED BY <3>1
  <2> DEFINE st == f[k - 1]
             t == Turn(s, st, guess)
  <2>3. st \in States(B) /\ On(st) /\ (Done(st) \/ Len(st.rest) <= n - (k - 1)) /\ f[k] = t
    BY <2>1, <2>2, <1>4
  <2> HIDE DEF st
  <2>4. On(t)
    BY <2>3, TurnStays
  <2>5. /\ Done(st) => Done(t)
        /\ Done(t) \/ Len(t.rest) < Len(st.rest)
    BY <2>3, TurnEnds
  <2>6. t \in States(B)
    BY <2>4 DEF OnTheWay
  <2> HIDE DEF t, On
  <2>7. Len(t.rest) \in Nat /\ Len(st.rest) \in Nat
    BY <2>3, <2>6 DEF States
  <2>8. Done(t) \/ Len(t.rest) <= n - k
    BY <2>3, <2>5, <2>7, <1>2
  <2> QED BY <2>3, <2>4, <2>8
<1> HIDE DEF Good
<1>5. Bad = {}
  <2> SUFFICES ASSUME Bad # {} PROVE FALSE
    OBVIOUS
  <2>0. Bad \subseteq Nat
    OBVIOUS
  <2>1. PICK m \in Bad : \A x \in Bad : m <= x
    <3> HIDE DEF Bad
    <3> QED BY <2>0, MinIsMember
  <2>2. m \in 1 .. n /\ ~Good(m)
    BY <2>1, <1>3
  <2>3. m - 1 \in 0 .. n /\ m - 1 \notin Bad
    BY <2>1, <2>2
  <2>4. Good(m - 1)
    BY <2>3
  <2> QED BY <2>2, <2>4, <1>4
<1>6. Good(n)
  <2>1. n \in 0 .. n
    BY <1>2
  <2> QED BY <2>1, <1>5
<1>7. On(f[n]) /\ (Done(f[n]) \/ Len(f[n].rest) <= n - n)
  BY <1>6 DEF Good
<1>8. ASSUME Len(f[n].rest) <= n - n PROVE Done(f[n])
  <2> DEFINE q == f[n].rest
  <2>1. f[n] \in States(B)
    <3>1. n \in 0 .. n
      BY <1>2
    <3> QED BY <3>1
  <2>2. q \in Seq(B) /\ Len(q) <= 0
    BY <2>1, <1>2, <1>8 DEF States
  <2> HIDE DEF q
  <2>3. q = <<>>
    BY <2>2
  <2> QED BY <2>3 DEF q, Done
<1> QED BY <1>1, <1>7, <1>8

-----------------------------------------------------------------------------
(* The pair and its types                                                   *)

LEMMA Pair ==
  /\ Servers = {Low, High} /\ Low \in Servers /\ High \in Servers /\ Low # High
  /\ Peer(Low) = High /\ Peer(High) = Low
  /\ \A s \in Servers : Peer(s) \in Servers /\ Peer(s) # s /\ Peer(Peer(s)) = s
BY DEF Servers, Low, High, Peer

LEMMA InitInv == Init => ChannelInv
<1> SUFFICES ASSUME Init PROVE ChannelInv
  OBVIOUS
<1> USE DEF Init
<1>1. TypeInv
  <2>1. \A s \in Servers : pc[s] \in Place
    BY DEF Place
  <2>2. pc \in [Servers -> Place] /\ pc[High] \notin {"setup", "response"}
    BY <2>1, Pair
  <2>3. \A S : <<>> \in Seq(S)
    OBVIOUS
  <2> QED BY <2>2, <2>3 DEF TypeInv
<1>2. Apart
  BY Pair DEF Apart, Unused, NoBytes
<1> QED BY <1>1, <1>2 DEF ChannelInv, PairInv

\* What the steps do to the parts of the state that any server may change
LEMMA QueueTypes ==
  ASSUME TypeInv, NEW s \in Servers
  PROVE  /\ inQueue[s] \in Seq(Request) /\ outQueue[s] \in Seq(Nat \ {0}) /\ orders[s] \in Seq(Nat)
         /\ inQueue[s] # <<>> => Head(inQueue[s]) \in Request /\ Tail(inQueue[s]) \in Seq(Request)
         /\ outQueue[s] # <<>> => Head(outQueue[s]) \in Nat \ {0} /\ Tail(outQueue[s]) \in Seq(Nat \ {0})
         /\ orders[s] # <<>> => Head(orders[s]) \in Nat /\ Tail(orders[s]) \in Seq(Nat)
         /\ \A x \in Request : Append(inQueue[s], x) \in Seq(Request)
         /\ \A x \in Nat \ {0} : Append(outQueue[s], x) \in Seq(Nat \ {0})
         /\ \A x \in Nat : Append(orders[s], x) \in Seq(Nat)
         /\ [type |-> "pack"] \in Request
<1>1. inQueue[s] \in Seq(Request) /\ outQueue[s] \in Seq(Nat \ {0}) /\ orders[s] \in Seq(Nat)
  BY DEF TypeInv
<1>2. [type |-> "pack"] \in Request
  BY DEF Request
<1> QED BY <1>1, <1>2, HeadTailProperties, AppendProperties

LEMMA NetTypes ==
  ASSUME TypeInv, NEW s \in Servers
  PROVE  /\ wire[s] \in Seq(AnyByte) /\ buffer[s] \in Seq(AnyByte) /\ blocks[s] \in Seq(BlockOf(AnyByte))
         /\ sent[s] \in Seq(Sent) /\ taken[s] \in Seq(Seq(AnyByte))
BY DEF TypeInv

LEMMA Words ==
  ASSUME TypeInv, NEW s \in Servers, NEW guess \in Nat
  PROVE  /\ \A b \in ByteFrom(1, s) : Word(s, b, guess) \in Nat
         /\ \A b \in {0} \X Nat : Word(s, b, guess) \in Nat
         /\ \A n \in Nat : ByteFrom(n, s) \subseteq AnyByte
         /\ {0} \X Nat \subseteq AnyByte
<1>1. Len(sent[s]) \in Nat /\ \A k \in 1 .. Len(sent[s]) : sent[s][k].length \in Nat
  <2>1. sent[s] \in Seq(Sent)
    BY NetTypes
  <2> QED BY <2>1, Sizes
<1>2. ASSUME NEW b \in ByteFrom(1, s) PROVE Word(s, b, guess) \in Nat
  <2>1. b[1] \in 1 .. Len(sent[s])
    BY DEF ByteFrom
  <2>2. sent[s][b[1]].length \in Nat /\ b[1] # 0
    BY <2>1, <1>1
  <2> QED BY <2>2 DEF Word
<1>3. ASSUME NEW b \in {0} \X Nat PROVE Word(s, b, guess) \in Nat
  <2>1. b[1] = 0 /\ RequestBytes \in Nat
    BY Positive
  <2> QED BY <2>1 DEF Word
<1>4. \A n \in Nat : ByteFrom(n, s) \subseteq AnyByte
  BY <1>1 DEF ByteFrom, AnyByte
<1>5. {0} \X Nat \subseteq AnyByte
  BY DEF AnyByte
<1> QED BY <1>2, <1>3, <1>4, <1>5

\* What the steps of the main thread and of a command thread do to the types
LEMMA MainRunTypes ==
  ASSUME TypeInv, NEW s \in Servers, NEW size \in BlockBytes, MainRun(s, size)
  PROVE  TypeInv'
<1>1. Head(inQueue[s]) \in Request /\ Tail(inQueue[s]) \in Seq(Request)
  BY QueueTypes DEF MainRun
<1>2. HeadBytes \in Nat \ {0} /\ size \in Nat \ {0}
  BY BlockChannelAssumption, Positive
<1>3. inQueue' = [inQueue EXCEPT ![s] = Tail(@)]
  BY DEF MainRun
<1>4. PICK x \in Nat \ {0} : outQueue' = [outQueue EXCEPT ![s] = Append(@, x)]
  BY <1>2 DEF MainRun
<1>5. Append(outQueue[s], x) \in Seq(Nat \ {0})
  BY QueueTypes
<1>6. inQueue' \in [Servers -> Seq(Request)]
  BY <1>1, <1>3 DEF TypeInv
<1>7. outQueue' \in [Servers -> Seq(Nat \ {0})]
  BY <1>4, <1>5 DEF TypeInv
<1>8. UNCHANGED <<plans, orders, replies, wire, buffer, blocks, context, hasInit, sent, eaten, pc, job, taken>>
  BY DEF MainRun, ilmVars, netVars
<1> QED BY <1>6, <1>7, <1>8 DEF TypeInv

LEMMA PlaceTypes ==
  ASSUME TypeInv, NEW s \in Servers, NEW place \in Place \ {"setup", "response"},
         pc' = [pc EXCEPT ![s] = place]
  PROVE  pc' \in [Servers -> Place] /\ pc'[High] \notin {"setup", "response"}
<1>1. pc \in [Servers -> Place] /\ pc[High] \notin {"setup", "response"} /\ High \in Servers
  BY Pair DEF TypeInv
<1> QED BY <1>1

LEMMA StartPartitionTypes ==
  ASSUME TypeInv, NEW s \in Servers, StartPartition(s)
  PROVE  TypeInv'
<1>1. Head(orders[s]) \in Nat /\ Tail(orders[s]) \in Seq(Nat) /\ [type |-> "pack"] \in Request
      /\ Append(inQueue[s], [type |-> "pack"]) \in Seq(Request)
  BY QueueTypes DEF StartPartition
<1>2. /\ orders' = [orders EXCEPT ![s] = Tail(@)]
      /\ job' = [job EXCEPT ![s] = Head(orders[s])]
      /\ \/ /\ inQueue' = [inQueue EXCEPT ![s] = Append(@, [type |-> "pack"])]
            /\ pc' = [pc EXCEPT ![s] = "packing"]
         \/ pc' = [pc EXCEPT ![s] = "recv"] /\ UNCHANGED inQueue
  BY DEF StartPartition
<1>3. orders' \in [Servers -> Seq(Nat)] /\ job' \in [Servers -> Nat]
  BY <1>1, <1>2 DEF TypeInv
<1>4. inQueue' \in [Servers -> Seq(Request)]
  BY <1>1, <1>2 DEF TypeInv
<1>5. pc' \in [Servers -> Place] /\ pc'[High] \notin {"setup", "response"}
  <2>1. \E place \in {"packing", "recv"} : pc' = [pc EXCEPT ![s] = place]
    BY <1>2
  <2>2. \A place \in {"packing", "recv"} : place \in Place \ {"setup", "response"}
    BY DEF Place
  <2> QED BY <2>1, <2>2, PlaceTypes
<1>6. UNCHANGED <<plans, replies, wire, buffer, blocks, context, hasInit, sent, eaten, outQueue, taken>>
  BY DEF StartPartition, netVars
<1> QED BY <1>3, <1>4, <1>5, <1>6 DEF TypeInv

\* What SendBlock does to the peer's bytes
BlockGoes(s, p, b) ==
  /\ sent' \in [Servers -> Seq(Sent)] /\ wire' \in [Servers -> Seq(AnyByte)]
  /\ sent'[p] = Append(sent[p], b) /\ sent'[s] = sent[s]
  /\ wire'[p] = wire[p] \o Bytes(Len(sent[p]) + 1, b.length) /\ wire'[s] = wire[s]
  /\ Len(sent'[p]) = Len(sent[p]) + 1 /\ sent'[p][Len(sent[p]) + 1] = b
  /\ \A k \in 1 .. Len(sent[p]) : sent'[p][k] = sent[p][k]
  /\ Bytes(Len(sent[p]) + 1, b.length) \in Seq(AnyByte)
  /\ UNCHANGED <<buffer, blocks, context, hasInit, eaten>>

LEMMA SendBlockResult ==
  ASSUME TypeInv, NEW s \in Servers, NEW type \in {"pack", "result"}, NEW length \in Nat \ {0},
         SendBlock(s, type, length), NEW p \in Servers, p = Peer(s)
  PROVE  \E b \in Sent : b.type = type /\ b.plan = job[s] /\ b.length = length /\ BlockGoes(s, p, b)
<1> DEFINE b == [type |-> type, plan |-> job[s], length |-> length]
<1>1. p = Peer(s) /\ p # s
  BY Pair
<1>2. b \in Sent /\ b.type = type /\ b.plan = job[s] /\ b.length = length
  BY DEF TypeInv, Sent
<1>3. sent[p] \in Seq(Sent) /\ wire[p] \in Seq(AnyByte)
  BY NetTypes
<1>4. Len(sent[p]) + 1 \in Nat /\ length \in Nat
  BY <1>3
<1>5. Bytes(Len(sent[p]) + 1, length) \in Seq(AnyByte)
  BY <1>4, BytesAre
<1>6. wire[p] \o Bytes(Len(sent[p]) + 1, length) \in Seq(AnyByte)
  BY <1>3, <1>5, ConcatProperties
<1>7. sent' = [sent EXCEPT ![p] = Append(@, b)]
      /\ wire' = [wire EXCEPT ![p] = @ \o Bytes(Len(sent[p]) + 1, length)]
      /\ UNCHANGED <<buffer, blocks, context, hasInit, eaten>>
  BY <1>1 DEF SendBlock
<1> HIDE DEF b
<1>8. /\ Append(sent[p], b) \in Seq(Sent) /\ Len(Append(sent[p], b)) = Len(sent[p]) + 1
      /\ Append(sent[p], b)[Len(sent[p]) + 1] = b
      /\ \A k \in 1 .. Len(sent[p]) : Append(sent[p], b)[k] = sent[p][k]
  BY <1>2, <1>3, AppendProperties
<1>9. sent \in [Servers -> Seq(Sent)] /\ wire \in [Servers -> Seq(AnyByte)]
  BY DEF TypeInv
<1>10. sent' \in [Servers -> Seq(Sent)] /\ sent'[p] = Append(sent[p], b) /\ sent'[s] = sent[s]
  BY <1>1, <1>7, <1>8, <1>9
<1>11. /\ wire' \in [Servers -> Seq(AnyByte)] /\ wire'[s] = wire[s]
       /\ wire'[p] = wire[p] \o Bytes(Len(sent[p]) + 1, length)
  BY <1>1, <1>6, <1>7, <1>9
<1>12. BlockGoes(s, p, b)
  BY <1>2, <1>5, <1>7, <1>8, <1>10, <1>11 DEF BlockGoes
<1> QED BY <1>2, <1>12

LEMMA SendZoneTypes ==
  ASSUME TypeInv, NEW s \in Servers, SendZone(s)
  PROVE  TypeInv'
<1>1. Head(outQueue[s]) \in Nat \ {0} /\ Tail(outQueue[s]) \in Seq(Nat \ {0})
  BY QueueTypes DEF SendZone
<1>2. outQueue' = [outQueue EXCEPT ![s] = Tail(@)]
  BY DEF SendZone
<1>3. outQueue' \in [Servers -> Seq(Nat \ {0})]
  BY <1>1, <1>2 DEF TypeInv
<1>4. /\ sent' \in [Servers -> Seq(Sent)] /\ wire' \in [Servers -> Seq(AnyByte)]
      /\ UNCHANGED <<buffer, blocks, context, hasInit, eaten>>
      /\ \E place \in {"recv", "idle"} : pc' = [pc EXCEPT ![s] = place]
  <2>1. CASE s \in context
    <3>1. SendBlock(s, "pack", Head(outQueue[s])) /\ pc' = [pc EXCEPT ![s] = "recv"]
      BY <2>1 DEF SendZone
    <3> QED BY <3>1, <1>1, Pair, SendBlockResult DEF BlockGoes
  <2>2. CASE s \notin context
    <3>1. pc' = [pc EXCEPT ![s] = "idle"] /\ UNCHANGED netVars
      BY <2>2 DEF SendZone
    <3> QED BY <3>1 DEF TypeInv, netVars
  <2> QED BY <2>1, <2>2
<1>5. pc' \in [Servers -> Place] /\ pc'[High] \notin {"setup", "response"}
  <2>1. \A place \in {"recv", "idle"} : place \in Place \ {"setup", "response"}
    BY DEF Place
  <2> QED BY <2>1, <1>4, PlaceTypes
<1>6. UNCHANGED <<plans, orders, job, inQueue, taken>>
  BY DEF SendZone
<1> QED BY <1>3, <1>4, <1>5, <1>6 DEF TypeInv

LEMMA SendResultTypes ==
  ASSUME TypeInv, NEW s \in Servers, SendResult(s)
  PROVE  TypeInv'
<1>1. Tail(outQueue[s]) \in Seq(Nat \ {0})
  BY QueueTypes DEF SendResult
<1>2. outQueue' = [outQueue EXCEPT ![s] = Tail(@)] /\ pc' = [pc EXCEPT ![s] = "idle"]
      /\ SendBlock(s, "result", HeadBytes)
  BY DEF SendResult
<1>3. outQueue' \in [Servers -> Seq(Nat \ {0})]
  BY <1>1, <1>2 DEF TypeInv
<1>4. /\ sent' \in [Servers -> Seq(Sent)] /\ wire' \in [Servers -> Seq(AnyByte)]
      /\ UNCHANGED <<buffer, blocks, context, hasInit, eaten>>
  BY <1>2, Positive, Pair, SendBlockResult DEF BlockGoes
<1>5. pc' \in [Servers -> Place] /\ pc'[High] \notin {"setup", "response"}
  <2>1. "idle" \in Place \ {"setup", "response"}
    BY DEF Place
  <2> QED BY <2>1, <1>2, PlaceTypes
<1>6. UNCHANGED <<plans, orders, job, inQueue, taken>>
  BY DEF SendResult, ilmVars
<1> QED BY <1>3, <1>4, <1>5, <1>6 DEF TypeInv

LEMMA RecvBlockLooksTypes ==
  ASSUME TypeInv, NEW s \in Servers, RecvBlockLooks(s)
  PROVE  TypeInv'
<1>1. \E place \in {"ended", "toWaitBlock", "front", "toWaitWhole", "waitBlock", "waitWhole"} :
        pc' = [pc EXCEPT ![s] = place]
  BY DEF RecvBlockLooks
<1>2. pc' \in [Servers -> Place] /\ pc'[High] \notin {"setup", "response"}
  <2>1. \A place \in {"ended", "toWaitBlock", "front", "toWaitWhole", "waitBlock", "waitWhole"} :
          place \in Place \ {"setup", "response"}
    BY DEF Place
  <2> QED BY <2>1, <1>1, PlaceTypes
<1>3. UNCHANGED <<plans, orders, replies, wire, buffer, blocks, context, hasInit, sent, eaten, job, inQueue, outQueue, taken>>
  BY DEF RecvBlockLooks, ilmVars, netVars
<1> QED BY <1>2, <1>3 DEF TypeInv

\* RecvBlock takes a whole block.
LEMMA RecvBlockTakesTypes ==
  ASSUME TypeInv, NEW s \in Servers, RecvBlockTakes(s), blocks[s] # <<>>, IsWhole(Head(blocks[s]))
  PROVE  /\ TypeInv' /\ Head(blocks[s]).data \in Seq(AnyByte)
         /\ Head(blocks[s]).data # <<>> /\ Head(blocks[s]).data[1][1] \in Nat
<1> DEFINE b == Head(blocks[s])
           data == b.data
<1>1. b \in BlockOf(AnyByte) /\ Tail(blocks[s]) \in Seq(BlockOf(AnyByte))
  <2>1. blocks[s] \in Seq(BlockOf(AnyByte))
    BY NetTypes
  <2> QED BY <2>1, HeadTailProperties
<1>2. data \in Seq(AnyByte) /\ Len(data) \in Nat \ {0}
  BY <1>1 DEF BlockOf, IsWhole
<1> HIDE DEF data
<1>3. data # <<>> /\ data[1][1] \in Nat
  <2>1. 1 \in 1 .. Len(data)
    BY <1>2
  <2>2. data[1] \in AnyByte
    BY <1>2, <2>1
  <2>3. data # <<>>
    BY <1>2
  <2> QED BY <2>2, <2>3 DEF AnyByte
<1>4. /\ taken' = [taken EXCEPT ![s] = Append(@, data)]
      /\ blocks' = [blocks EXCEPT ![s] = Tail(@)]
      /\ \/ pc' = [pc EXCEPT ![s] = "idle"] /\ UNCHANGED inQueue
         \/ /\ inQueue' = [inQueue EXCEPT ![s] = Append(@, [type |-> "unpack", block |-> data[1][1]])]
            /\ pc' = [pc EXCEPT ![s] = "unpacking"]
  BY DEF RecvBlockTakes, data
<1>5. taken' \in [Servers -> Seq(Seq(AnyByte))]
  <2>1. taken[s] \in Seq(Seq(AnyByte))
    BY NetTypes
  <2>2. Append(taken[s], data) \in Seq(Seq(AnyByte))
    BY <2>1, <1>2, AppendProperties
  <2> QED BY <2>2, <1>4 DEF TypeInv
<1>6. blocks' \in [Servers -> Seq(BlockOf(AnyByte))]
  BY <1>1, <1>4 DEF TypeInv
<1>7. inQueue' \in [Servers -> Seq(Request)]
  <2>1. [type |-> "unpack", block |-> data[1][1]] \in Request
    BY <1>3 DEF Request
  <2>2. Append(inQueue[s], [type |-> "unpack", block |-> data[1][1]]) \in Seq(Request)
    BY <2>1, QueueTypes
  <2> QED BY <2>2, <1>4 DEF TypeInv
<1>8. pc' \in [Servers -> Place] /\ pc'[High] \notin {"setup", "response"}
  <2>1. "idle" \in Place \ {"setup", "response"} /\ "unpacking" \in Place \ {"setup", "response"}
    BY DEF Place
  <2> QED BY <2>1, <1>4, PlaceTypes
<1>9. UNCHANGED <<plans, orders, wire, buffer, context, hasInit, sent, eaten, job, outQueue>>
  BY DEF RecvBlockTakes
<1>10. TypeInv'
  BY <1>5, <1>6, <1>7, <1>8, <1>9 DEF TypeInv
<1> QED BY <1>2, <1>3, <1>10 DEF data

-----------------------------------------------------------------------------
(* Steps of two servers that are not connected                              *)

LEMMA ApartStep ==
  ASSUME TypeInv, Apart, NEW s \in Servers, Step(s)
  PROVE  ChannelInv'
<1>1. /\ hasInit = {} /\ context = {} /\ eaten = {}
      /\ pc[Low] = "setup" => Unused
      /\ \A p \in Servers :
           /\ NoBytes(p) /\ sent[p] = <<>> /\ taken[p] = <<>>
           /\ pc[p] \in {"setup", "idle", "packing", "recv", "ended"}
      /\ \A rep \in replies : rep.result = 0
  BY DEF Apart
<1>2. pc \in [Servers -> Place] /\ pc[High] \notin {"setup", "response"}
  BY DEF TypeInv
<1>3. \A p \in Servers : wire[p] = <<>> /\ buffer[p] = <<>> /\ blocks[p] = <<>>
  BY <1>1 DEF NoBytes
\* The steps that change the bytes of nobody
<1>4. ASSUME TypeInv', UNCHANGED <<wire, buffer, blocks, hasInit, context, eaten, sent, taken>>,
             NEW place \in {"idle", "packing", "recv", "ended"}, pc' = [pc EXCEPT ![s] = place],
             \A rep \in replies' : rep.result = 0,
             pc[Low] = "setup" => s = Low /\ Unused'
      PROVE  ChannelInv'
  <2>1. pc'[Low] = "setup" => Unused'
    BY <1>2, <1>4, Pair
  <2>2. \A p \in Servers : pc'[p] \in {"setup", "idle", "packing", "recv", "ended"}
    BY <1>1, <1>2, <1>4
  <2>3. \A p \in Servers : NoBytes(p)' /\ sent'[p] = <<>> /\ taken'[p] = <<>>
    BY <1>1, <1>4 DEF NoBytes
  <2>4. Apart'
    BY <2>1, <2>2, <2>3, <1>1, <1>4 DEF Apart
  <2> QED BY <2>4, <1>4 DEF ChannelInv, PairInv
<1>5. ASSUME NEW hasMaps \in BOOLEAN, SetupConnection(s, hasMaps)
      PROVE  ChannelInv'
  <2>1. s = Low /\ pc[Low] = "setup"
    BY <1>2, <1>5, Pair DEF SetupConnection
  <2>2. UNCHANGED <<plans, orders, replies, buffer, blocks, context, hasInit, sent, eaten, job, inQueue, outQueue, taken, unpacked, dead>>
    BY <1>5 DEF SetupConnection, ilmVars
  <2>3. Unused
    BY <2>1, <1>1
  <2>4. CASE hasMaps
    <3>1. wire' = [wire EXCEPT ![High] = Bytes(0, RequestBytes)] /\ pc' = [pc EXCEPT ![Low] = "response"]
      BY <2>1, <2>4, <1>5, Pair DEF SetupConnection
    <3>2. Bytes(0, RequestBytes) \in Seq(AnyByte)
      <4>1. 0 \in Nat /\ RequestBytes \in Nat
        BY Positive
      <4> QED BY <4>1, BytesAre
    <3>3. wire' \in [Servers -> Seq(AnyByte)] /\ wire'[High] = Bytes(0, RequestBytes) /\ wire'[Low] = wire[Low]
      BY <3>1, <3>2, Pair DEF TypeInv
    <3>4. pc' \in [Servers -> Place] /\ pc'[High] = pc[High] /\ pc'[Low] = "response"
      <4>1. "response" \in Place
        BY DEF Place
      <4> QED BY <4>1, <3>1, <1>2, Pair
    <3>5. TypeInv'
      BY <3>3, <3>4, <2>2, <1>2 DEF TypeInv
    <3>6. Unused'
      BY <2>2, <2>3, <3>4 DEF Unused
    <3>7. buffer'[High] \o wire'[High] = Bytes(0, RequestBytes)
      <4>1. <<>> \o Bytes(0, RequestBytes) = Bytes(0, RequestBytes)
        BY <3>2, ConcatEmptySeq
      <4> QED BY <4>1, <3>3, <2>2, <1>3, Pair
    <3>8. NoBytes(Low)' /\ blocks'[High] = <<>>
      BY <3>3, <2>2, <1>3, Pair DEF NoBytes
    <3>9. Asking'
      BY <3>4, <3>6, <3>7, <3>8, <2>2, <1>1 DEF Asking
    <3> QED BY <3>5, <3>9 DEF ChannelInv, PairInv
  <2>5. CASE ~hasMaps
    <3>1. pc' = [pc EXCEPT ![s] = "idle"] /\ UNCHANGED wire
      BY <2>5, <1>5 DEF SetupConnection
    <3>2. "idle" \in Place \ {"setup", "response"}
      BY DEF Place
    <3>3. pc' \in [Servers -> Place] /\ pc'[High] \notin {"setup", "response"}
      BY <3>1, <3>2, PlaceTypes
    <3>4. TypeInv'
      BY <3>1, <3>3, <2>2 DEF TypeInv
    <3>5. Unused'
      <4>1. pc'[High] = pc[High]
        BY <3>1, <2>1, <1>2, Pair
      <4> QED BY <4>1, <2>2, <2>3 DEF Unused
    <3>6. \A rep \in replies' : rep.result = 0
      BY <2>2, <1>1
    <3> QED BY <3>1, <3>4, <3>5, <3>6, <2>1, <2>2, <1>4
  <2> QED BY <2>4, <2>5
<1>6. ASSUME InitBlockConnection(s) PROVE ChannelInv'
  BY <1>1, <1>6 DEF InitBlockConnection
<1>7. ASSUME NEW n \in 1 .. Len(wire[s]) PROVE FALSE
  BY <1>3, <1>7
<1>8. ASSUME NEW size \in BlockBytes, MainRun(s, size) PROVE ChannelInv'
  <2>1. TypeInv'
    BY <1>8, MainRunTypes
  <2>2. UNCHANGED <<plans, orders, replies, wire, buffer, blocks, context, hasInit, sent, eaten, pc, job, taken, dead>> /\ inQueue[s] # <<>>
    BY <1>8 DEF MainRun, ilmVars, netVars
  <2>3. pc[Low] # "setup"
    BY <2>2, <1>1 DEF Unused
  <2>4. \A p \in Servers : NoBytes(p)' /\ sent'[p] = <<>> /\ taken'[p] = <<>>
    BY <2>2, <1>1 DEF NoBytes
  <2>5. Apart'
    BY <2>2, <2>3, <2>4, <1>1 DEF Apart
  <2> QED BY <2>1, <2>5 DEF ChannelInv, PairInv
<1>9. ASSUME StartPartition(s) PROVE ChannelInv'
  <2>1. TypeInv'
    BY <1>9, StartPartitionTypes
  <2>2. UNCHANGED <<replies, wire, buffer, blocks, context, hasInit, sent, eaten, taken>> /\ orders[s] # <<>>
        /\ \E place \in {"packing", "recv"} : pc' = [pc EXCEPT ![s] = place]
    BY <1>9 DEF StartPartition, netVars
  <2>3. pc[Low] # "setup"
    BY <2>2, <1>1 DEF Unused
  <2>4. \A rep \in replies' : rep.result = 0
    BY <2>2, <1>1
  <2> QED BY <2>1, <2>2, <2>3, <2>4, <1>4
<1>10. ASSUME SendZone(s) PROVE ChannelInv'
  <2>1. TypeInv'
    BY <1>10, SendZoneTypes
  <2>2. /\ pc[s] = "packing" /\ outQueue[s] # <<>>
        /\ Reply(s, 0) /\ pc' = [pc EXCEPT ![s] = "idle"] /\ UNCHANGED netVars /\ UNCHANGED taken
    BY <1>1, <1>10 DEF SendZone
  <2>3. pc[Low] # "setup"
    BY <2>2, <1>1 DEF Unused
  <2>4. \A rep \in replies' : rep.result = 0
    BY <2>2, <1>1 DEF Reply
  <2> QED BY <2>1, <2>2, <2>3, <2>4, <1>4 DEF netVars
<1>11. ASSUME RecvBlockLooks(s) PROVE ChannelInv'
  <2>1. TypeInv'
    BY <1>11, RecvBlockLooksTypes
  <2>2. pc[s] = "recv" /\ pc' = [pc EXCEPT ![s] = "ended"]
    BY <1>1, <1>11 DEF RecvBlockLooks
  <2>3. UNCHANGED <<plans, orders, replies, wire, buffer, blocks, context, hasInit, sent, eaten, job, inQueue, outQueue, taken>>
    BY <1>11 DEF RecvBlockLooks, ilmVars, netVars
  <2>4. pc[Low] # "setup"
    BY <2>2, <1>1, Pair DEF Unused
  <2>5. \A rep \in replies' : rep.result = 0
    BY <2>3, <1>1
  <2> QED BY <2>1, <2>2, <2>3, <2>4, <2>5, <1>4
<1>12. ASSUME RecvBlockTakes(s) PROVE ChannelInv'
  BY <1>1, <1>12 DEF RecvBlockTakes
<1>13. ASSUME SendResult(s) PROVE ChannelInv'
  BY <1>1, <1>13 DEF SendResult
<1> QED BY <1>5, <1>6, <1>7, <1>8, <1>9, <1>10, <1>11, <1>12, <1>13 DEF Step

-----------------------------------------------------------------------------
(* OnRead                                                                   *)

\* The end of a sequence
LEMMA EndOf ==
  ASSUME NEW B, NEW q \in Seq(B), NEW d \in 0 .. Len(q)
  PROVE  SubSeq(q, d + 1, Len(q)) \in Seq(B) /\ Less(SubSeq(q, d + 1, Len(q)), q, d)
<1> DEFINE p == SubSeq(q, d + 1, Len(q))
<1>1. d + 1 \in Int /\ Len(q) \in Int /\ Len(q) \in Nat /\ d \in Nat
  OBVIOUS
<1>2. \A i \in d + 1 .. Len(q) : q[i] \in B
  BY <1>1
<1>3. /\ p \in Seq(B)
      /\ Len(p) = IF d + 1 <= Len(q) THEN Len(q) - (d + 1) + 1 ELSE 0
      /\ \A i \in 1 .. Len(q) - (d + 1) + 1 : p[i] = q[(d + 1) + i - 1]
  BY <1>1, <1>2, SubSeqProperties
<1> HIDE DEF p
<1>4. Len(p) = Len(q) - d
  BY <1>1, <1>3
<1>5. \A i \in 1 .. Len(p) : p[i] = q[i + d]
  <2> SUFFICES ASSUME NEW i \in 1 .. Len(p) PROVE p[i] = q[i + d]
    OBVIOUS
  <2>1. i \in 1 .. Len(q) - (d + 1) + 1 /\ (d + 1) + i - 1 = i + d
    BY <1>1, <1>4
  <2> QED BY <2>1, <1>3
<1> QED BY <1>3, <1>4, <1>5 DEF p, Less

\* The same as \o, for leaves that need no more of it than this lemma
Joined(x, y) == x \o y

LEMMA JoinedAgain ==
  \A x, y, z \in Seq(AnyByte) : Joined(Joined(x, y), z) = Joined(x, Joined(y, z))
BY ConcatAssociative DEF Joined

LEMMA OnReadParts ==
  ASSUME TypeInv, NEW s \in Servers, NEW n \in 1 .. Len(wire[s]), NEW guess \in 0 .. HeadBytes,
         NEW B, B \subseteq AnyByte, \A b \in B : Word(s, b, guess) \in Nat,
         buffer[s] \in Seq(B), wire[s] \in Seq(B)
  PROVE  LET buf  == buffer[s] \o SubSeq(wire[s], 1, n)
             skip == IF s \in hasInit THEN 0 ELSE MessageBytes(s, buf, guess)
             rest == SubSeq(buf, skip + 1, Len(buf))
             left == SubSeq(wire[s], n + 1, Len(wire[s]))
             end  == Collected(s, blocks[s], rest, guess)
         IN  /\ buf \in Seq(B) /\ Len(buf) \in Nat \ {0} /\ left \in Seq(B)
             /\ buf \o left = buffer[s] \o wire[s]
             /\ skip \in 0 .. Len(buf) /\ rest \in Seq(B) /\ Less(rest, buf, skip)
             /\ OnTheWay(s, B, blocks[s], rest, end) /\ Done(end)
<1> DEFINE w == wire[s]
           u == buffer[s]
           read == SubSeq(w, 1, n)
           buf  == u \o read
           skip == IF s \in hasInit THEN 0 ELSE MessageBytes(s, buf, guess)
           rest == SubSeq(buf, skip + 1, Len(buf))
           left == SubSeq(w, n + 1, Len(w))
<1>1. w \in Seq(B) /\ u \in Seq(B) /\ Len(w) \in Nat /\ n \in 1 .. Len(w) /\ n \in 0 .. Len(w)
  OBVIOUS
<1> HIDE DEF w, u
<1>2. left \in Seq(B)
  BY <1>1, EndOf
<1>3. read \in Seq(B) /\ Len(read) = n
  <2>1. 1 \in Int /\ n \in Int /\ \A i \in 1 .. n : w[i] \in B
    BY <1>1
  <2>2. read \in Seq(B) /\ Len(read) = IF 1 <= n THEN n - 1 + 1 ELSE 0
    BY <2>1, SubSeqProperties
  <2> QED BY <2>2, <1>1
<1>4. read \o left = w
  <2>1. 1 \in 1 .. Len(w) + 1 /\ n \in 1 - 1 .. Len(w) /\ Len(w) \in n .. Len(w)
    BY <1>1
  <2>2. read \o left = SubSeq(w, 1, Len(w))
    BY <2>1, <1>1, ConcatAdjacentSubSeq
  <2> QED BY <2>2, <1>1, SubSeqFull
<1> HIDE DEF read, left
<1>5. buf \in Seq(B) /\ Len(buf) \in Nat \ {0}
  <2>1. u \in Seq(B) /\ read \in Seq(B)
    BY <1>1, <1>3
  <2>2. u \o read \in Seq(B) /\ Len(u \o read) = Len(u) + Len(read)
    BY <2>1, ConcatProperties
  <2>3. Len(u) \in Nat /\ Len(read) \in Nat \ {0}
    BY <2>1, <1>1, <1>3
  <2> QED BY <2>2, <2>3
<1>6. buf \o left = u \o w
  <2>1. u \in Seq(B) /\ read \in Seq(B) /\ left \in Seq(B)
    BY <1>1, <1>2, <1>3
  <2>2. u \in Seq(AnyByte) /\ read \in Seq(AnyByte) /\ left \in Seq(AnyByte)
    <3>1. ASSUME NEW q \in Seq(B) PROVE q \in Seq(AnyByte)
      BY SeqMonotonic
    <3> QED BY <2>1, <3>1
  <2>3. Joined(Joined(u, read), left) = Joined(u, Joined(read, left))
    BY <2>2, JoinedAgain
  <2>4. Joined(read, left) = w
    BY <1>4 DEF Joined
  <2>5. Joined(Joined(u, read), left) = Joined(u, w)
    BY <2>3, <2>4
  <2> QED BY <2>5 DEF Joined
<1> HIDE DEF buf
<1>7. skip \in 0 .. Len(buf)
  <2>1. buf[1] \in B /\ HeadBytes \in Nat
    BY <1>5, Positive
  <2>2. Word(s, buf[1], guess) \in Nat
    BY <2>1
  <2> QED BY <2>1, <2>2, <1>5 DEF MessageBytes
<1> HIDE DEF skip
<1>8. rest \in Seq(B) /\ Less(rest, buf, skip)
  BY <1>5, <1>7, EndOf
<1> HIDE DEF rest
<1>9. blocks[s] \in Seq(BlockOf(AnyByte)) /\ sent[s] \in Seq(Sent)
  BY NetTypes
<1> DEFINE list == blocks[s]
<1>10. list \in Seq(BlockOf(AnyByte))
  BY <1>9
<1> HIDE DEF list
<1>11. /\ OnTheWay(s, B, list, rest, Collected(s, list, rest, guess))
       /\ Done(Collected(s, list, rest, guess))
  BY <1>8, <1>9, <1>10, CollectedResult
<1> QED BY <1>2, <1>5, <1>6, <1>7, <1>8, <1>11 DEF w, u, read, buf, skip, rest, left, list

\* What OnRead does, with its parts
ReadBy(s, B, stray, guess, buf, left, rest, skip, end) ==
  LET isRequest == skip > 0 /\ buf[1] = <<0, 1>> IN
  /\ Len(buf) \in Nat \ {0} /\ buf \o left = buffer[s] \o wire[s]
  /\ skip = IF s \in hasInit THEN 0 ELSE MessageBytes(s, buf, guess)
  /\ skip <= Len(buf) /\ Less(rest, buf, skip)
  /\ OnTheWay(s, B, blocks[s], rest, end) /\ Done(end)
  /\ pc[s] # "response"
  /\ hasInit' = IF isRequest THEN hasInit \cup {s} ELSE hasInit
  /\ context' = IF isRequest THEN context \cup {s} ELSE context
  /\ eaten' = IF skip > 0 /\ ~isRequest THEN eaten \cup {s} ELSE eaten
  /\ wire' = [wire EXCEPT ![s] = left,
                          ![Peer(s)] = IF isRequest THEN @ \o Bytes(0, RequestBytes) ELSE @]
  /\ IF s \in context \/ isRequest \/ stray
     THEN /\ buffer' = [buffer EXCEPT ![s] = end.rest]
          /\ blocks' = [blocks EXCEPT ![s] = end.list]
          /\ pc' = IF end.signal THEN [pc EXCEPT ![s] = AfterSignal(@)] ELSE pc
     ELSE /\ buffer' = [buffer EXCEPT ![s] = rest]
          /\ UNCHANGED <<blocks, pc>>
  /\ UNCHANGED <<plans, orders, replies, sent, job, inQueue, outQueue, taken, unpacked, dead>>

LEMMA OnReadResult ==
  ASSUME TypeInv, NEW s \in Servers, NEW n \in 1 .. Len(wire[s]), NEW guess \in 0 .. HeadBytes,
         NEW stray \in BOOLEAN, OnRead(s, n, guess, stray),
         NEW B, B \subseteq AnyByte, \A b \in B : Word(s, b, guess) \in Nat,
         buffer[s] \in Seq(B), wire[s] \in Seq(B)
  PROVE  \E buf \in Seq(B), left \in Seq(B), rest \in Seq(B), skip \in Nat, end \in States(B) :
           ReadBy(s, B, stray, guess, buf, left, rest, skip, end)
<1> DEFINE buf  == buffer[s] \o SubSeq(wire[s], 1, n)
           skip == IF s \in hasInit THEN 0 ELSE MessageBytes(s, buf, guess)
           rest == SubSeq(buf, skip + 1, Len(buf))
           left == SubSeq(wire[s], n + 1, Len(wire[s]))
           end  == Collected(s, blocks[s], rest, guess)
           isRequest == skip > 0 /\ buf[1] = <<0, 1>>
<1>1. /\ buf \in Seq(B) /\ Len(buf) \in Nat \ {0} /\ left \in Seq(B)
      /\ buf \o left = buffer[s] \o wire[s]
      /\ skip \in 0 .. Len(buf) /\ rest \in Seq(B) /\ Less(rest, buf, skip)
      /\ OnTheWay(s, B, blocks[s], rest, end) /\ Done(end)
  BY OnReadParts
<1>2. skip = IF s \in hasInit THEN 0 ELSE MessageBytes(s, buf, guess)
  OBVIOUS
<1>3. /\ pc[s] # "response"
      /\ hasInit' = IF isRequest THEN hasInit \cup {s} ELSE hasInit
      /\ context' = IF isRequest THEN context \cup {s} ELSE context
      /\ eaten' = IF skip > 0 /\ ~isRequest THEN eaten \cup {s} ELSE eaten
      /\ IF s \in context \/ isRequest \/ stray
         THEN /\ buffer' = [buffer EXCEPT ![s] = end.rest]
              /\ blocks' = [blocks EXCEPT ![s] = end.list]
              /\ pc' = IF end.signal THEN [pc EXCEPT ![s] = AfterSignal(@)] ELSE pc
         ELSE /\ buffer' = [buffer EXCEPT ![s] = rest]
              /\ UNCHANGED <<blocks, pc>>
      /\ UNCHANGED <<plans, orders, replies, sent, job, inQueue, outQueue, taken, unpacked, dead>>
  BY DEF OnRead, ilmVars
<1>4. wire' = [wire EXCEPT ![s] = SubSeq(@, n + 1, Len(@)),
                           ![Peer(s)] = IF isRequest THEN @ \o Bytes(0, RequestBytes) ELSE @]
  BY DEF OnRead
<1> HIDE DEF buf, skip, rest, end
<1>5. wire' = [wire EXCEPT ![s] = left,
                           ![Peer(s)] = IF isRequest THEN @ \o Bytes(0, RequestBytes) ELSE @]
  BY <1>4
<1>6. end \in States(B) /\ skip \in Nat /\ skip <= Len(buf)
  BY <1>1 DEF OnTheWay
<1> HIDE DEF left
<1>7. ReadBy(s, B, stray, guess, buf, left, rest, skip, end)
  BY <1>1, <1>2, <1>3, <1>5, <1>6 DEF ReadBy
<1> QED BY <1>1, <1>6, <1>7

LEMMA OnReadTypes ==
  ASSUME TypeInv, NEW s \in Servers, NEW B, B \subseteq AnyByte, NEW stray, NEW guess,
         NEW buf \in Seq(B), NEW left \in Seq(B), NEW rest \in Seq(B), NEW skip \in Nat, NEW end \in States(B),
         ReadBy(s, B, stray, guess, buf, left, rest, skip, end)
  PROVE  TypeInv'
<1>1. left \in Seq(AnyByte) /\ rest \in Seq(AnyByte) /\ end.rest \in Seq(AnyByte) /\ end.list \in Seq(BlockOf(AnyByte))
  <2>1. ASSUME NEW q \in Seq(B) PROVE q \in Seq(AnyByte)
    BY SeqMonotonic
  <2>2. end.rest \in Seq(B) /\ end.list \in Seq(BlockOf(AnyByte))
    BY DEF States
  <2> QED BY <2>1, <2>2
<1>2. PICK p \in Servers : p = Peer(s) /\ p # s
  BY Pair
<1>3. wire[p] \o Bytes(0, RequestBytes) \in Seq(AnyByte)
  <2>1. 0 \in Nat /\ RequestBytes \in Nat
    BY Positive
  <2>2. Bytes(0, RequestBytes) \in Seq(AnyByte)
    BY <2>1, BytesAre
  <2>3. wire[p] \in Seq(AnyByte)
    BY NetTypes
  <2> QED BY <2>2, <2>3, ConcatProperties
<1>4. \E x \in {wire[p] \o Bytes(0, RequestBytes), wire[p]} : wire' = [wire EXCEPT ![s] = left, ![p] = x]
  BY <1>2 DEF ReadBy
<1>5. wire' \in [Servers -> Seq(AnyByte)]
  <2>1. wire[p] \in Seq(AnyByte)
    BY NetTypes
  <2>2. PICK x \in Seq(AnyByte) : wire' = [wire EXCEPT ![s] = left, ![p] = x]
    BY <1>3, <1>4, <2>1
  <2> QED BY <2>2, <1>1 DEF TypeInv
<1>6. /\ \E x \in {end.rest, rest} : buffer' = [buffer EXCEPT ![s] = x]
      /\ blocks' = [blocks EXCEPT ![s] = end.list] \/ blocks' = blocks
      /\ pc' = [pc EXCEPT ![s] = AfterSignal(@)] \/ pc' = pc
  BY DEF ReadBy
<1>7. buffer' \in [Servers -> Seq(AnyByte)] /\ blocks' \in [Servers -> Seq(BlockOf(AnyByte))]
  <2>1. PICK x \in Seq(AnyByte) : buffer' = [buffer EXCEPT ![s] = x]
    BY <1>1, <1>6
  <2>2. buffer' \in [Servers -> Seq(AnyByte)]
    BY <2>1 DEF TypeInv
  <2>3. blocks' \in [Servers -> Seq(BlockOf(AnyByte))]
    BY <1>1, <1>6 DEF TypeInv
  <2> QED BY <2>2, <2>3
<1>8. pc' \in [Servers -> Place] /\ pc'[High] \notin {"setup", "response"}
  <2>1. CASE pc' = pc
    BY <2>1 DEF TypeInv
  <2>2. CASE pc' = [pc EXCEPT ![s] = AfterSignal(@)]
    <3>1. pc \in [Servers -> Place] /\ pc[High] \notin {"setup", "response"}
      BY DEF TypeInv
    <3>2. AfterSignal(pc[s]) \in {"front", "take", pc[s]}
      BY DEF AfterSignal
    <3>3. "front" \in Place /\ "take" \in Place
      BY DEF Place
    <3> HIDE DEF Place
    <3> QED BY <2>2, <3>1, <3>2, <3>3, Pair
  <2> QED BY <1>6, <2>1, <2>2
<1>9. hasInit' \subseteq Servers /\ context' \subseteq Servers /\ eaten' \subseteq Servers
  BY DEF ReadBy, TypeInv
<1>10. UNCHANGED <<plans, orders, replies, sent, job, inQueue, outQueue, taken>>
  BY DEF ReadBy
<1> QED BY <1>5, <1>7, <1>8, <1>9, <1>10 DEF TypeInv

-----------------------------------------------------------------------------
(* Steps while the connection is being made                                 *)

LEMMA NothingCollected ==
  ASSUME NEW list \in {<<>>, <<Fresh>>}, NEW q, q = <<>>
  PROVE  Collecting(<<>>, 0, list, q)
<1>1. InOrder(<<>>, q)
  BY DEF InOrder
<1>2. Comes(<<>>, q, 1, 1)
  BY DEF Comes
<1>3. CASE list = <<>>
  <2>1. \A j \in 1 .. Len(list) - 1 : FALSE
    BY <1>3
  <2> QED BY <1>1, <1>2, <1>3, <2>1 DEF Collecting
<1>4. CASE list = <<Fresh>>
  <2> DEFINE b == Fresh
  <2> HIDE DEF b
  <2>1. list = <<b>>
    BY <1>4 DEF b
  <2>2. Len(list) = 1 /\ list[1] = b /\ list # <<>>
    BY <2>1
  <2>3. \A j \in 1 .. Len(list) - 1 : FALSE
    BY <2>2
  <2> QED BY <1>1, <1>2, <2>2, <2>3 DEF Collecting, b
<1> QED BY <1>3, <1>4

LEMMA AnsweredStep ==
  ASSUME TypeInv, Answered, InitBlockConnection(Low)
  PROVE  ChannelInv'
<1>1. /\ wire' = [wire EXCEPT ![Low] = <<>>]
      /\ context' = context \cup {Low}
      /\ pc' = [pc EXCEPT ![Low] = "idle"]
      /\ UNCHANGED <<plans, orders, replies, buffer, blocks, hasInit, sent, eaten, job, inQueue, outQueue, taken, unpacked, dead>>
  BY DEF InitBlockConnection, ilmVars
<1>2. /\ pc[Low] = "response" /\ hasInit = {High} /\ context = {High} /\ eaten = {}
      /\ buffer[Low] = <<>> /\ blocks[Low] = <<>>
      /\ wire[High] = <<>> /\ buffer[High] = <<>> /\ blocks[High] \in {<<>>, <<Fresh>>}
      /\ plans = <<>> /\ replies = {} /\ pc[High] = "idle"
      /\ \A s \in Servers :
           /\ orders[s] = <<>> /\ job[s] = 0 /\ inQueue[s] = <<>> /\ outQueue[s] = <<>>
           /\ sent[s] = <<>> /\ taken[s] = <<>>
  BY DEF Answered, Unused
<1>3. TypeInv'
  <2>1. "idle" \in Place \ {"setup", "response"}
    BY DEF Place
  <2>2. pc' \in [Servers -> Place] /\ pc'[High] \notin {"setup", "response"}
    BY <2>1, <1>1, Pair, PlaceTypes
  <2>3. <<>> \in Seq(AnyByte)
    OBVIOUS
  <2>4. wire' \in [Servers -> Seq(AnyByte)]
    BY <2>3, <1>1 DEF TypeInv
  <2>5. context' \subseteq Servers
    BY <1>1, Pair DEF TypeInv
  <2> QED BY <2>2, <2>4, <2>5, <1>1 DEF TypeInv
<1>4. \A s \in Servers : /\ wire'[s] = <<>> /\ buffer'[s] = <<>> /\ blocks'[s] \in {<<>>, <<Fresh>>}
                         /\ pc'[s] = "idle"
  BY <1>1, <1>2, Pair DEF TypeInv
<1>5. Connected'
  <2>1. hasInit' = {High} /\ context' = Servers /\ eaten' = {}
    BY <1>1, <1>2, Pair
  <2>2. ASSUME NEW s \in Servers
        PROVE  /\ (buffer[s] \in Seq(ByteFrom(1, s)))' /\ (wire[s] \in Seq(ByteFrom(1, s)))'
               /\ Received(s)' /\ Working(s)' /\ Serving(s)' /\ Unpacking(s)'
    <3>1. /\ orders'[s] = <<>> /\ job'[s] = 0 /\ inQueue'[s] = <<>> /\ outQueue'[s] = <<>>
          /\ sent'[s] = <<>> /\ taken'[s] = <<>> /\ plans' = <<>> /\ sent'[Peer(s)] = <<>>
      BY <1>1, <1>2, Pair
    <3>2. wire'[s] = <<>> /\ buffer'[s] = <<>> /\ blocks'[s] \in {<<>>, <<Fresh>>} /\ pc'[s] = "idle"
      BY <1>4
    <3>3. Received(s)'
      <4>1. buffer'[s] \o wire'[s] = <<>>
        BY <3>2
      <4>2. Len(taken'[s]) = 0 /\ sent'[s] = <<>>
        BY <3>1
      <4> DEFINE q == buffer'[s] \o wire'[s]
      <4>3. Collecting(<<>>, 0, blocks'[s], q)
        <5> HIDE DEF q
        <5> QED BY <4>1, <3>2, NothingCollected DEF q
      <4> QED BY <4>2, <4>3, <3>1, <3>2 DEF Received
    <3>4. Working(s)'
      <4>1. Len(plans') = 0 /\ Len(orders'[s]) = 0 /\ Len(sent'[Peer(s)]) = 0 /\ Len(taken'[s]) = 0
        BY <3>1
      <4> QED BY <4>1, <3>1, <3>2 DEF Working, HasSent, HasTaken
    <3>5. Serving(s)'
      BY <3>1, <3>2 DEF Serving
    <3>6. Unpacking(s)'
      <4>1. Len(sent'[Peer(s)]) = 0
        BY <3>1
      <4> QED BY <4>1, <3>2 DEF Unpacking
    <3>7. \A S : <<>> \in Seq(S)
      OBVIOUS
    <3> QED BY <3>2, <3>3, <3>4, <3>5, <3>6, <3>7
  <2>3. SuccessIsUnpacked'
    BY <1>1, <1>2 DEF SuccessIsUnpacked
  <2> QED BY <2>1, <2>2, <2>3 DEF Connected, BytesFit, PlansFit
<1> QED BY <1>3, <1>5 DEF ChannelInv, PairInv

\* OnRead changes the bytes and blocks of its server, and the wire of the other.
LEMMA ReadChanges ==
  ASSUME TypeInv, NEW s \in Servers, NEW p \in Servers, p = Peer(s), NEW B, NEW stray, NEW guess,
         NEW buf, NEW left, NEW rest, NEW skip, NEW end,
         ReadBy(s, B, stray, guess, buf, left, rest, skip, end)
  PROVE  LET isRequest == skip > 0 /\ buf[1] = <<0, 1>>
             known == s \in context \/ isRequest \/ stray
         IN  /\ wire'[s] = left
             /\ wire'[p] = IF isRequest THEN wire[p] \o Bytes(0, RequestBytes) ELSE wire[p]
             /\ buffer'[s] = IF known THEN end.rest ELSE rest
             /\ buffer'[p] = buffer[p]
             /\ blocks'[s] = IF known THEN end.list ELSE blocks[s]
             /\ blocks'[p] = blocks[p]
             /\ pc'[s] = IF known /\ end.signal THEN AfterSignal(pc[s]) ELSE pc[s]
             /\ pc'[p] = pc[p]
<1> DEFINE isRequest == skip > 0 /\ buf[1] = <<0, 1>>
           known == s \in context \/ isRequest \/ stray
<1>1. /\ wire' = [wire EXCEPT ![s] = left,
                              ![Peer(s)] = IF isRequest THEN @ \o Bytes(0, RequestBytes) ELSE @]
      /\ IF known
         THEN /\ buffer' = [buffer EXCEPT ![s] = end.rest]
              /\ blocks' = [blocks EXCEPT ![s] = end.list]
              /\ pc' = IF end.signal THEN [pc EXCEPT ![s] = AfterSignal(@)] ELSE pc
         ELSE /\ buffer' = [buffer EXCEPT ![s] = rest]
              /\ UNCHANGED <<blocks, pc>>
  BY DEF ReadBy
<1>2. p # s
  BY Pair
<1>3. /\ wire \in [Servers -> Seq(AnyByte)] /\ buffer \in [Servers -> Seq(AnyByte)]
      /\ blocks \in [Servers -> Seq(BlockOf(AnyByte))] /\ pc \in [Servers -> Place]
  BY DEF TypeInv
<1> HIDE DEF isRequest, known
<1>4. /\ wire'[s] = left
      /\ wire'[p] = IF isRequest THEN wire[p] \o Bytes(0, RequestBytes) ELSE wire[p]
  BY <1>1, <1>2, <1>3
<1>5. /\ buffer'[s] = IF known THEN end.rest ELSE rest
      /\ buffer'[p] = buffer[p]
      /\ blocks'[s] = IF known THEN end.list ELSE blocks[s]
      /\ blocks'[p] = blocks[p]
  BY <1>1, <1>2, <1>3
<1>6. /\ pc'[s] = IF known /\ end.signal THEN AfterSignal(pc[s]) ELSE pc[s]
      /\ pc'[p] = pc[p]
  BY <1>1, <1>2, <1>3
<1> QED BY <1>4, <1>5, <1>6 DEF isRequest, known

\* Both parts of a sequence have its elements.
LEMMA ConcatParts ==
  ASSUME NEW S, NEW x \in Seq(S), NEW y \in Seq(S), NEW B, x \o y \in Seq(B)
  PROVE  x \in Seq(B) /\ y \in Seq(B)
<1> DEFINE z == x \o y
<1>1. /\ Len(z) = Len(x) + Len(y) /\ Len(x) \in Nat /\ Len(y) \in Nat
      /\ \A i \in 1 .. Len(x) + Len(y) : z[i] = IF i <= Len(x) THEN x[i] ELSE y[i - Len(x)]
  BY ConcatProperties
<1>2. \A i \in 1 .. Len(x) + Len(y) : z[i] \in B
  <2> HIDE DEF z
  <2>1. z \in Seq(B)
    BY DEF z
  <2> QED BY <2>1, <1>1
<1> HIDE DEF z
<1>3. ASSUME NEW i \in 1 .. Len(x) PROVE x[i] \in B
  <2>1. i \in 1 .. Len(x) + Len(y) /\ i <= Len(x)
    BY <1>1
  <2>2. z[i] = x[i]
    BY <2>1, <1>1
  <2> QED BY <2>1, <2>2, <1>2
<1>4. ASSUME NEW i \in 1 .. Len(y) PROVE y[i] \in B
  <2>1. /\ Len(x) + i \in 1 .. Len(x) + Len(y) /\ ~(Len(x) + i <= Len(x)) /\ (Len(x) + i) - Len(x) = i
    BY <1>1
  <2>2. z[Len(x) + i] = y[i]
    BY <2>1, <1>1
  <2> QED BY <2>1, <2>2, <1>2
<1> QED BY <1>3, <1>4, SeqDef

\* Nothing less is the same.
LEMMA LessNothing ==
  ASSUME NEW S, NEW p \in Seq(S), NEW q \in Seq(S), Less(p, q, 0)
  PROVE  p = q
<1>1. Len(p) = Len(q) /\ \A i \in 1 .. Len(p) : p[i] = q[i]
  BY DEF Less
<1> QED BY <1>1, SeqEqual

\* What a step of the other server's reader does while nothing is planned
LEMMA AskingRead ==
  ASSUME TypeInv, Asking, NEW n \in 1 .. Len(wire[High]), NEW guess \in 0 .. HeadBytes,
         NEW stray \in BOOLEAN, OnRead(High, n, guess, stray)
  PROVE  ChannelInv'
<1> DEFINE B == {0} \X (Nat \ {0})
           R == RequestBytes
           H == HeadBytes
           req == Bytes(0, R)
<1>1. /\ req \in Seq(B) /\ Len(req) = H + R /\ R \in Nat \ {0} /\ H \in Nat \ {0}
      /\ \A i \in 1 .. H + R : req[i] = <<0, i>>
  <2>1. 0 \in Nat /\ R \in Nat
    BY Positive
  <2> QED BY <2>1, Positive, BytesAre
<1>0. Bytes(0, RequestBytes) = req
  OBVIOUS
<1> HIDE DEF req
<1>2. /\ pc[Low] = "response" /\ hasInit = {} /\ context = {} /\ eaten = {}
      /\ buffer[High] \o wire[High] = req /\ blocks[High] \in {<<>>, <<Fresh>>}
      /\ wire[Low] = <<>> /\ buffer[Low] = <<>> /\ blocks[Low] = <<>> /\ Unused /\ pc[High] = "idle"
  BY DEF Asking, req, NoBytes, Unused
<1>3. buffer[High] \in Seq(B) /\ wire[High] \in Seq(B)
  <2> HIDE DEF B
  <2> DEFINE x == buffer[High]
             y == wire[High]
  <2>1. x \in Seq(AnyByte) /\ y \in Seq(AnyByte)
    BY NetTypes, Pair
  <2>2. x \o y \in Seq(B)
    BY <1>1, <1>2
  <2> HIDE DEF x, y
  <2>3. x \in Seq(B) /\ y \in Seq(B)
    BY <2>1, <2>2, ConcatParts
  <2> QED BY <2>3 DEF x, y
<1>4. B \subseteq AnyByte /\ \A b \in B : Word(High, b, guess) \in Nat
  <2>1. guess \in Nat /\ B \subseteq {0} \X Nat
    BY <1>1
  <2> QED BY <2>1, Words, Pair
<1>5. PICK buf \in Seq(B), left \in Seq(B), rest \in Seq(B), skip \in Nat, end \in States(B) :
           ReadBy(High, B, stray, guess, buf, left, rest, skip, end)
  <2> HIDE DEF B
  <2>1. High \in Servers
    BY Pair
  <2> QED BY <2>1, <1>3, <1>4, OnReadResult
<1>6. TypeInv'
  BY <1>4, <1>5, Pair, OnReadTypes
<1> DEFINE isRequest == skip > 0 /\ buf[1] = <<0, 1>>
           known == isRequest \/ stray
<1>7. /\ Len(buf) \in Nat \ {0} /\ buf \o left = req
      /\ skip = MessageBytes(High, buf, guess)
      /\ skip <= Len(buf) /\ Less(rest, buf, skip)
      /\ OnTheWay(High, B, blocks[High], rest, end)
      /\ hasInit' = IF isRequest THEN {High} ELSE {}
      /\ context' = IF isRequest THEN {High} ELSE {}
      /\ eaten' = IF skip > 0 /\ ~isRequest THEN {High} ELSE {}
      /\ UNCHANGED <<plans, orders, replies, sent, job, inQueue, outQueue, taken>>
  BY <1>2, <1>5 DEF ReadBy
<1>8. /\ wire'[High] = left
      /\ wire'[Low] = IF isRequest THEN wire[Low] \o req ELSE wire[Low]
      /\ buffer'[High] = IF known THEN end.rest ELSE rest
      /\ buffer'[Low] = <<>>
      /\ blocks'[High] = IF known THEN end.list ELSE blocks[High]
      /\ blocks'[Low] = <<>>
      /\ pc'[High] = IF known /\ end.signal THEN AfterSignal(pc[High]) ELSE pc[High]
      /\ pc'[Low] = "response"
  <2> DEFINE any == High \in context \/ isRequest \/ stray
  <2>1. /\ wire'[High] = left
        /\ wire'[Low] = IF isRequest THEN wire[Low] \o Bytes(0, RequestBytes) ELSE wire[Low]
        /\ buffer'[High] = IF any THEN end.rest ELSE rest
        /\ buffer'[Low] = buffer[Low]
        /\ blocks'[High] = IF any THEN end.list ELSE blocks[High]
        /\ blocks'[Low] = blocks[Low]
        /\ pc'[High] = IF any /\ end.signal THEN AfterSignal(pc[High]) ELSE pc[High]
        /\ pc'[Low] = pc[Low]
    BY <1>5, Pair, ReadChanges
  <2>2. any = known
    BY <1>2
  <2> HIDE DEF isRequest, known, any
  <2> QED BY <2>1, <2>2, <1>0, <1>2
<1>9. pc'[High] = "idle"
  BY <1>2, <1>8 DEF AfterSignal
<1>10. Unused'
  BY <1>2, <1>7, <1>9 DEF Unused
<1>11. /\ Len(buf) + Len(left) = H + R /\ Len(left) \in Nat
       /\ \A i \in 1 .. Len(buf) : buf[i] = <<0, i>>
       /\ \A i \in 1 .. Len(left) : left[i] = <<0, Len(buf) + i>>
  <2>1. /\ Len(req) = Len(buf) + Len(left) /\ Len(buf) \in Nat /\ Len(left) \in Nat
        /\ \A i \in 1 .. Len(buf) + Len(left) : req[i] = IF i <= Len(buf) THEN buf[i] ELSE left[i - Len(buf)]
    <3> HIDE DEF B
    <3>1. buf \in Seq(B) /\ left \in Seq(B) /\ buf \o left = req
      BY <1>7
    <3>2. Len(buf) \in Nat /\ Len(left) \in Nat
      BY <3>1
    <3> QED BY <3>1, <3>2, ConcatProperties
  <2>2. ASSUME NEW i \in 1 .. Len(buf) PROVE buf[i] = <<0, i>>
    <3> DEFINE L == Len(buf)
               M == Len(left)
    <3>0. L \in Nat /\ M \in Nat /\ i \in 1 .. L /\ L + M = H + R
      BY <2>1, <1>1
    <3> HIDE DEF L, M, H, R
    <3>1. i \in 1 .. L + M /\ i <= L /\ i \in 1 .. H + R
      BY <3>0
    <3> USE DEF L, M
    <3> QED BY <3>1, <2>1, <1>1
  <2>3. ASSUME NEW i \in 1 .. Len(left) PROVE left[i] = <<0, Len(buf) + i>>
    <3> DEFINE L == Len(buf)
               M == Len(left)
    <3>0. L \in Nat /\ M \in Nat /\ i \in 1 .. M /\ L + M = H + R
      BY <2>1, <1>1
    <3> HIDE DEF L, M, H, R
    <3>1. L + i \in 1 .. L + M /\ ~(L + i <= L) /\ (L + i) - L = i /\ L + i \in 1 .. H + R
      BY <3>0
    <3> USE DEF L, M
    <3> QED BY <3>1, <2>1, <1>1
  <2> QED BY <2>1, <2>2, <2>3, <1>1
<1>12. buf[1] = <<0, 1>> /\ Word(High, buf[1], guess) = R
  <2>1. 1 \in 1 .. Len(buf)
    BY <1>7
  <2>2. buf[1] = <<0, 1>>
    BY <2>1, <1>11
  <2> QED BY <2>2 DEF Word
<1>13. skip = IF Len(buf) < H \/ Len(buf) < R + H THEN 0 ELSE R + H
  BY <1>7, <1>12 DEF MessageBytes
<1> DEFINE r == end.rest
           list == end.list
<1>14. PICK d \in Nat : /\ Less(r, rest, d)
                        /\ d = 0 => list \in {<<>>, <<Fresh>>} /\ ~end.signal
  BY <1>2, <1>7 DEF OnTheWay
<1>15. r \in Seq(B)
  BY DEF States
<1> HIDE DEF B, r, list
<1>16. CASE skip = 0
  <2>1. ~isRequest /\ rest = buf
    <3>1. Less(rest, buf, 0)
      BY <1>7, <1>16
    <3> QED BY <3>1, <1>16, LessNothing
  <2>2. hasInit' = {} /\ context' = {} /\ eaten' = {} /\ (NoBytes(Low))' /\ wire'[High] = left
    BY <2>1, <1>16, <1>7, <1>8, <1>2 DEF NoBytes
  <2>3. CASE ~stray \/ d = 0
    <3>1. buffer'[High] = buf
      <4>1. d = 0 => r = buf
        BY <1>14, <1>15, <2>1, LessNothing
      <4> QED BY <4>1, <2>1, <2>3, <1>8 DEF r
    <3>2. blocks'[High] \in {<<>>, <<Fresh>>}
      BY <2>1, <2>3, <1>2, <1>8, <1>14 DEF list
    <3>3. Asking'
      BY <3>1, <3>2, <2>2, <1>7, <1>8, <1>10 DEF Asking, req
    <3> QED BY <3>3, <1>6 DEF ChannelInv, PairInv
  <2>4. CASE stray /\ d # 0
    <3>1. buffer'[High] = r
      BY <2>4, <1>8 DEF r
    <3>2. r \in Seq({0} \X (Nat \ {1}))
      <4>1. ASSUME NEW i \in 1 .. Len(r) PROVE r[i] \in {0} \X (Nat \ {1})
        <5>1. Len(r) = Len(buf) - d /\ r[i] = buf[i + d]
          BY <1>14, <2>1 DEF Less
        <5>2. i + d \in 1 .. Len(buf) /\ i + d \in Nat \ {1}
          BY <5>1, <2>4, <1>7, <1>15
        <5>3. r[i] = <<0, i + d>>
          BY <5>1, <5>2, <1>11
        <5> QED BY <5>2, <5>3
      <4> QED BY <4>1, <1>15, SeqDef
    <3>3. left \in Seq({0} \X (Nat \ {1}))
      <4>1. ASSUME NEW i \in 1 .. Len(left) PROVE left[i] \in {0} \X (Nat \ {1})
        <5>1. left[i] = <<0, Len(buf) + i>> /\ Len(buf) + i \in Nat \ {1}
          BY <1>7, <1>11
        <5> QED BY <5>1
      <4> QED BY <4>1, SeqDef
    <3>4. Astray'
      BY <3>1, <3>2, <3>3, <2>2, <1>8, <1>10 DEF Astray
    <3> QED BY <3>4, <1>6 DEF ChannelInv, PairInv
  <2> QED BY <2>3, <2>4
<1>17. CASE skip # 0
  <2>1. skip = R + H /\ Len(buf) = R + H /\ Len(left) = 0 /\ isRequest
    BY <1>17, <1>13, <1>11, <1>12, <1>7, <1>1
  <2>2. left = <<>>
    BY <2>1
  <2>3. Len(rest) = 0
    <3>1. Len(rest) = Len(buf) - skip
      BY <1>7 DEF Less
    <3> QED BY <3>1, <2>1, <1>1
  <2>4. d = 0 /\ r = <<>>
    <3>1. Len(r) = Len(rest) - d
      BY <1>14 DEF Less
    <3>2. Len(r) \in Nat
      BY <1>15
    <3>3. d = 0 /\ Len(r) = 0
      BY <3>1, <3>2, <2>3
    <3> QED BY <3>3, <1>15
  <2>5. wire'[Low] = req
    <3>1. wire'[Low] = <<>> \o req
      BY <2>1, <1>2, <1>8
    <3> QED BY <3>1, <1>1
  <2>6. /\ wire'[High] = <<>> /\ buffer'[High] = <<>> /\ blocks'[High] \in {<<>>, <<Fresh>>}
    BY <2>1, <2>2, <2>4, <1>8, <1>14 DEF r, list
  <2>7. hasInit' = {High} /\ context' = {High} /\ eaten' = {}
    BY <2>1, <1>7
  <2>8. Answered'
    BY <2>5, <2>6, <2>7, <1>8, <1>10 DEF Answered, req
  <2> QED BY <2>8, <1>6 DEF ChannelInv, PairInv
<1> QED BY <1>16, <1>17

LEMMA AstrayRead ==
  ASSUME TypeInv, Astray, NEW n \in 1 .. Len(wire[High]), NEW guess \in 0 .. HeadBytes,
         NEW stray \in BOOLEAN, OnRead(High, n, guess, stray)
  PROVE  ChannelInv'
<1> DEFINE B == {0} \X (Nat \ {1})
<1>1. /\ pc[Low] = "response" /\ hasInit = {} /\ context = {} /\ eaten \subseteq {High}
      /\ wire[Low] = <<>> /\ buffer[Low] = <<>> /\ blocks[Low] = <<>> /\ Unused /\ pc[High] = "idle"
      /\ buffer[High] \in Seq(B) /\ wire[High] \in Seq(B)
  BY DEF Astray, NoBytes, Unused
<1>2. B \subseteq AnyByte /\ \A b \in B : Word(High, b, guess) \in Nat
  <2>1. guess \in Nat /\ B \subseteq {0} \X Nat
    BY Positive
  <2> QED BY <2>1, Words, Pair
<1>3. PICK buf \in Seq(B), left \in Seq(B), rest \in Seq(B), skip \in Nat, end \in States(B) :
           ReadBy(High, B, stray, guess, buf, left, rest, skip, end)
  <2> HIDE DEF B
  <2>1. High \in Servers /\ buffer[High] \in Seq(B) /\ wire[High] \in Seq(B)
    BY <1>1, Pair
  <2> QED BY <2>1, <1>2, OnReadResult
<1>4. TypeInv'
  BY <1>2, <1>3, Pair, OnReadTypes
<1>5. Len(buf) \in Nat \ {0} /\ buf[1] # <<0, 1>>
  <2>1. Len(buf) \in Nat \ {0}
    BY <1>3 DEF ReadBy
  <2>2. buf[1] \in B
    BY <2>1
  <2> QED BY <2>1, <2>2
<1>6. /\ hasInit' = {} /\ context' = {} /\ eaten' \subseteq {High}
      /\ UNCHANGED <<plans, orders, replies, sent, job, inQueue, outQueue, taken>>
  BY <1>1, <1>3, <1>5 DEF ReadBy
<1>7. /\ wire'[High] = left /\ wire'[Low] = <<>>
      /\ buffer'[High] \in {end.rest, rest}
      /\ buffer'[Low] = <<>> /\ blocks'[Low] = <<>>
      /\ pc'[High] \in {AfterSignal(pc[High]), pc[High]} /\ pc'[Low] = "response"
  <2> HIDE DEF B
  <2> DEFINE isRequest == skip > 0 /\ buf[1] = <<0, 1>>
             known == High \in context \/ isRequest \/ stray
  <2>1. /\ wire'[High] = left
        /\ wire'[Low] = IF isRequest THEN wire[Low] \o Bytes(0, RequestBytes) ELSE wire[Low]
        /\ buffer'[High] = IF known THEN end.rest ELSE rest
        /\ buffer'[Low] = buffer[Low]
        /\ blocks'[High] = IF known THEN end.list ELSE blocks[High]
        /\ blocks'[Low] = blocks[Low]
        /\ pc'[High] = IF known /\ end.signal THEN AfterSignal(pc[High]) ELSE pc[High]
        /\ pc'[Low] = pc[Low]
    BY <1>3, Pair, ReadChanges
  <2>2. ~isRequest
    BY <1>5
  <2> HIDE DEF isRequest, known
  <2> QED BY <2>1, <2>2, <1>1
<1>8. pc'[High] = "idle"
  BY <1>1, <1>7 DEF AfterSignal
<1>9. Unused'
  BY <1>1, <1>6, <1>8 DEF Unused
<1>10. buffer'[High] \in Seq(B) /\ wire'[High] \in Seq(B)
  BY <1>7 DEF States
<1>11. Astray'
  BY <1>6, <1>7, <1>9, <1>10 DEF Astray, NoBytes
<1> QED BY <1>4, <1>11 DEF ChannelInv, PairInv

\* While the connecting server waits, it can only be answered, and the other only reads.
LEMMA PendingStep ==
  ASSUME TypeInv, Asking \/ Astray \/ Answered, NEW s \in Servers, Step(s)
  PROVE  ChannelInv'
<1>1. /\ pc[Low] = "response" /\ Unused
      /\ ~Answered => wire[Low] = <<>>
      /\ Answered => wire[High] = <<>>
  BY DEF Asking, Astray, Answered, NoBytes
<1>2. pc[High] = "idle" /\ \A r \in Servers : orders[r] = <<>> /\ inQueue[r] = <<>> /\ outQueue[r] = <<>>
  BY <1>1 DEF Unused
<1>3. s = Low \/ s = High
  BY Pair
<1>4. pc[s] \in {"idle", "response"}
  BY <1>1, <1>2, <1>3
<1>5. ASSUME NEW hasMaps \in BOOLEAN, SetupConnection(s, hasMaps) PROVE ChannelInv'
  BY <1>4, <1>5 DEF SetupConnection
<1>6. ASSUME InitBlockConnection(s) PROVE ChannelInv'
  <2>1. s = Low /\ Len(wire[Low]) = HeadBytes + RequestBytes
    BY <1>2, <1>3, <1>6 DEF InitBlockConnection
  <2>2. Answered
    <3>1. Len(<<>>) # HeadBytes + RequestBytes
      BY Positive
    <3> QED BY <3>1, <2>1, <1>1
  <2> QED BY <2>1, <2>2, <1>6, AnsweredStep
<1>7. ASSUME NEW n \in 1 .. Len(wire[s]), NEW guess \in 0 .. HeadBytes, NEW stray \in BOOLEAN,
             OnRead(s, n, guess, stray)
      PROVE  ChannelInv'
  <2>1. pc[s] # "response"
    BY <1>7 DEF OnRead
  <2>2. s = High
    BY <2>1, <1>1, <1>3
  <2>3. ~Answered
    <3>1. wire[s] # <<>>
      BY <1>7
    <3> QED BY <3>1, <2>2, <1>1
  <2> QED BY <2>2, <2>3, <1>7, AskingRead, AstrayRead
<1>8. ASSUME NEW size \in BlockBytes, MainRun(s, size) PROVE ChannelInv'
  BY <1>2, <1>8 DEF MainRun
<1>9. ASSUME StartPartition(s) PROVE ChannelInv'
  BY <1>2, <1>9 DEF StartPartition
<1>10. ASSUME SendZone(s) PROVE ChannelInv'
  BY <1>4, <1>10 DEF SendZone
<1>11. ASSUME RecvBlockLooks(s) PROVE ChannelInv'
  BY <1>4, <1>11 DEF RecvBlockLooks
<1>12. ASSUME RecvBlockTakes(s) PROVE ChannelInv'
  BY <1>4, <1>12 DEF RecvBlockTakes
<1>13. ASSUME SendResult(s) PROVE ChannelInv'
  BY <1>4, <1>13 DEF SendResult
<1> QED BY <1>5, <1>6, <1>7, <1>8, <1>9, <1>10, <1>11, <1>12, <1>13 DEF Step

-----------------------------------------------------------------------------
(* Steps of two connected servers                                           *)

LEMMA BytesFitStay ==
  ASSUME NEW t \in Servers, BytesFit(t), eaten \subseteq eaten',
         buffer'[t] = buffer[t], wire'[t] = wire[t], sent'[t] = sent[t], taken'[t] = taken[t],
         blocks'[t] = blocks[t]
  PROVE  BytesFit(t)'
<1>1. (ByteFrom(1, t))' = ByteFrom(1, t)
  BY DEF ByteFrom
<1>2. Received(t) => Received(t)'
  BY DEF Received
<1> QED BY <1>1, <1>2 DEF BytesFit

LEMMA PlansFitStay ==
  ASSUME NEW t \in Servers, PlansFit(t), eaten \subseteq eaten', unpacked \subseteq unpacked',
         plans' = plans, orders'[t] = orders[t], pc'[t] = pc[t], job'[t] = job[t],
         inQueue'[t] = inQueue[t], outQueue'[t] = outQueue[t], taken'[t] = taken[t],
         blocks'[t] = blocks[t], sent'[Peer(t)] = sent[Peer(t)]
  PROVE  PlansFit(t)'
<1>1. HasSent(t)' = HasSent(t) /\ HasTaken(t)' = HasTaken(t) /\ IsSource(t)' = IsSource(t)
  BY DEF HasSent, HasTaken, IsSource
<1>2. Working(t)'
  BY <1>1 DEF PlansFit, Working
<1>3. Serving(t)'
  BY DEF PlansFit, Serving
<1>4. eaten' = {} => Unpacking(t)'
  BY DEF PlansFit, Unpacking
<1> QED BY <1>2, <1>3, <1>4 DEF PlansFit

\* Two connected servers stay connected when both still fit.
LEMMA ConnectedStays ==
  ASSUME TypeInv', hasInit = {High}, context = Servers, UNCHANGED <<hasInit, context>>,
         eaten' \subseteq {Low}, NEW s \in Servers, NEW p \in Servers, p = Peer(s),
         BytesFit(s)', PlansFit(s)', BytesFit(p)', PlansFit(p)', SuccessIsUnpacked'
  PROVE  ChannelInv'
<1>1. \A t \in Servers : t = s \/ t = p
  BY Pair
<1>2. \A t \in Servers : BytesFit(t)' /\ PlansFit(t)'
  BY <1>1
<1>3. Connected'
  BY <1>2 DEF Connected
<1> QED BY <1>3 DEF ChannelInv, PairInv

\* The bytes of a block that is sent go on where the last one ends.
LEMMA BytesFitGrow ==
  ASSUME TypeInv, NEW s \in Servers, NEW p \in Servers, p = Peer(s), BytesFit(p),
         NEW type \in {"pack", "result"}, NEW length \in Nat \ {0}, SendBlock(s, type, length),
         taken'[p] = taken[p]
  PROVE  BytesFit(p)'
<1> DEFINE w == Bytes(Len(sent[p]) + 1, length)
           sq == sent[p]
           N == Len(sq)
<1>0. PICK b \in Sent : b.length = length /\ BlockGoes(s, p, b)
  BY SendBlockResult
<1>1. /\ sent'[p] = Append(sq, b) /\ wire'[p] = wire[p] \o w
      /\ Len(sent'[p]) = N + 1 /\ w \in Seq(AnyByte)
      /\ \A k \in 1 .. N : sent'[p][k] = sq[k]
      /\ UNCHANGED <<buffer, blocks, eaten>>
  BY <1>0 DEF BlockGoes
<1>3. sq \in Seq(Sent) /\ N \in Nat /\ wire[p] \in Seq(AnyByte) /\ buffer[p] \in Seq(AnyByte)
      /\ blocks[p] \in Seq(BlockOf(AnyByte)) /\ taken[p] \in Seq(Seq(AnyByte)) /\ Len(taken[p]) \in Nat
  <2>1. sq \in Seq(Sent) /\ taken[p] \in Seq(Seq(AnyByte))
    BY NetTypes
  <2> QED BY <2>1, NetTypes
<1>4. buffer[p] \in Seq(ByteFrom(1, p)) /\ wire[p] \in Seq(ByteFrom(1, p))
  BY DEF BytesFit
<1>5. w \in Seq(ByteFrom(1, p)') /\ ByteFrom(1, p) \subseteq ByteFrom(1, p)'
  <2>1. /\ w \in Seq({N + 1} \X (Nat \ {0}))
    <3>1. N + 1 \in Nat /\ length \in Nat
      BY <1>3
    <3> QED BY <3>1, BytesAre
  <2>2. ByteFrom(1, p)' = (1 .. N + 1) \X Nat /\ ByteFrom(1, p) = (1 .. N) \X Nat
    BY <1>1 DEF ByteFrom
  <2>3. {N + 1} \X (Nat \ {0}) \subseteq (1 .. N + 1) \X Nat /\ (1 .. N) \X Nat \subseteq (1 .. N + 1) \X Nat
    BY <1>3
  <2> HIDE DEF w, N
  <2>4. {N + 1} \X (Nat \ {0}) \subseteq ByteFrom(1, p)'
    BY <2>2, <2>3
  <2> QED BY <2>1, <2>2, <2>3, <2>4, SeqMonotonic
<1>6. (buffer[p] \in Seq(ByteFrom(1, p)))' /\ (wire[p] \in Seq(ByteFrom(1, p)))'
  <2> DEFINE S == ByteFrom(1, p)'
             x == wire[p]
             y == buffer[p]
  <2>1. x \in Seq(S) /\ y \in Seq(S) /\ w \in Seq(S)
    BY <1>4, <1>5, SeqMonotonic
  <2> HIDE DEF S, x, w
  <2>2. x \o w \in Seq(S)
    BY <2>1, ConcatProperties
  <2> QED BY <2>1, <2>2, <1>1 DEF S, x
<1>7. ASSUME Received(p) PROVE Received(p)'
  <2> DEFINE n == Len(taken[p])
             list == blocks[p]
             x == buffer[p]
             y == wire[p]
             q == x \o y
  <2>1. Collecting(sq, n, list, q)
    BY <1>7 DEF Received
  <2>2. n \in Nat /\ list \in Seq(BlockOf(AnyByte)) /\ x \in Seq(AnyByte) /\ y \in Seq(AnyByte)
    BY <1>3
  <2> HIDE DEF n, list, x, y, sq, w
  <2>3. q \in Seq(AnyByte)
    BY <2>2, ConcatProperties
  <2> HIDE DEF q
  <2>4. Collecting(Append(sq, b), n, list, q \o Bytes(Len(sq) + 1, b.length))
    BY <1>1, <1>3, <2>1, <2>2, <2>3, CollectingGrows
  <2>5. Bytes(Len(sq) + 1, b.length) = w
    BY <1>0 DEF w, sq
  <2>6. q \o w = x \o (y \o w)
    <3>1. Joined(Joined(x, y), w) = Joined(x, Joined(y, w))
      BY <1>1, <2>2, JoinedAgain
    <3> QED BY <3>1 DEF Joined, q
  <2>7. Collecting(sent'[p], n, list, x \o (y \o w))
    BY <2>4, <2>5, <2>6, <1>1
  <2>8. Collecting(sent[p], Len(taken[p]), blocks[p], buffer[p] \o wire[p])'
    BY <2>7, <1>1 DEF n, list, x, y
  <2>9. ASSUME NEW k \in 1 .. Len(taken'[p])
        PROVE  k <= Len(sent'[p]) /\ taken'[p][k] = Payload(k, sent'[p][k].length)
    <3>1. k \in 1 .. Len(taken[p]) /\ taken'[p][k] = taken[p][k]
      OBVIOUS
    <3>2. k <= Len(sent[p]) /\ taken[p][k] = Payload(k, sent[p][k].length)
      BY <3>1, <1>7 DEF Received
    <3>3. k <= N /\ taken[p][k] = Payload(k, sq[k].length)
      BY <3>2 DEF sq
    <3> HIDE DEF N
    <3>4. k \in 1 .. N
      BY <3>1, <3>3, <1>3
    <3>5. k <= N + 1
      BY <3>4, <1>3
    <3> QED BY <3>1, <3>3, <3>4, <3>5, <1>1
  <2> QED BY <2>8, <2>9, <1>1, <1>7 DEF Received
<1> QED BY <1>1, <1>6, <1>7 DEF BytesFit

\* The block thread reads.
LEMMA ConnectedRead ==
  ASSUME TypeInv, Connected, NEW s \in Servers, NEW n \in 1 .. Len(wire[s]), NEW guess \in 0 .. HeadBytes,
         NEW stray \in BOOLEAN, OnRead(s, n, guess, stray)
  PROVE  ChannelInv'
<1> DEFINE B == ByteFrom(1, s)
<1>1. hasInit = {High} /\ context = Servers /\ eaten \subseteq {Low} /\ BytesFit(s) /\ PlansFit(s)
      /\ SuccessIsUnpacked
  BY DEF Connected
<1>2. PICK p \in Servers : p = Peer(s) /\ p # s /\ BytesFit(p) /\ PlansFit(p)
  BY Pair DEF Connected
<1>3. B \subseteq AnyByte /\ \A b \in B : Word(s, b, guess) \in Nat /\ b[1] # 0
  <2>1. guess \in Nat
    BY Positive
  <2> QED BY <2>1, Words DEF ByteFrom
<1> HIDE DEF B
<1>4. buffer[s] \in Seq(B) /\ wire[s] \in Seq(B)
  BY <1>1 DEF BytesFit, B
<1>5. PICK buf \in Seq(B), left \in Seq(B), rest \in Seq(B), skip \in Nat, end \in States(B) :
           ReadBy(s, B, stray, guess, buf, left, rest, skip, end)
  BY <1>3, <1>4, OnReadResult
<1>6. TypeInv'
  BY <1>3, <1>5, OnReadTypes
<1>7. Len(buf) \in Nat \ {0} /\ buf[1] # <<0, 1>>
  <2>1. Len(buf) \in Nat \ {0}
    BY <1>5 DEF ReadBy
  <2>2. buf[1] \in B
    BY <2>1
  <2> QED BY <2>1, <2>2, <1>3
<1>8. /\ buf \o left = buffer[s] \o wire[s]
      /\ s = High => skip = 0
      /\ Less(rest, buf, skip)
      /\ OnTheWay(s, B, blocks[s], rest, end) /\ Done(end)
      /\ UNCHANGED <<hasInit, context>>
      /\ eaten' = IF skip > 0 THEN eaten \cup {s} ELSE eaten
      /\ UNCHANGED <<plans, orders, replies, sent, job, inQueue, outQueue, taken, unpacked>>
  BY <1>1, <1>5, <1>7 DEF ReadBy
<1> DEFINE list == end.list
           r == end.rest
<1>9. /\ wire'[s] = left /\ wire'[p] = wire[p]
      /\ buffer'[s] = r /\ buffer'[p] = buffer[p]
      /\ blocks'[s] = list /\ blocks'[p] = blocks[p]
      /\ pc'[s] = IF end.signal THEN AfterSignal(pc[s]) ELSE pc[s]
      /\ pc'[p] = pc[p]
  BY <1>1, <1>2, <1>5, <1>7, ReadChanges
<1>10. eaten \subseteq eaten' /\ eaten' \subseteq {Low} /\ eaten' \subseteq eaten \cup {s}
  BY <1>1, <1>8, Pair
<1>11. BytesFit(p)'
  BY <1>2, <1>8, <1>9, <1>10, BytesFitStay
<1>12. PlansFit(p)'
  BY <1>2, <1>8, <1>9, <1>10, PlansFitStay, Pair
<1>13. list \in Seq(BlockOf(AnyByte)) /\ r \in Seq(B)
  BY DEF States
<1>14. BytesFit(s)'
  <2>1. ByteFrom(1, s)' = B
    BY <1>8 DEF B, ByteFrom
  <2>2. (buffer[s] \in Seq(ByteFrom(1, s)))' /\ (wire[s] \in Seq(ByteFrom(1, s)))'
    BY <2>1, <1>9, <1>13
  <2>3. ASSUME s \notin eaten' PROVE Received(s)'
    <3>1. skip = 0 /\ s \notin eaten /\ Received(s)
      BY <2>3, <1>1, <1>8 DEF BytesFit
    <3>2. rest = buf
      BY <3>1, <1>8, LessNothing
    <3> DEFINE m == Len(taken[s])
               sq == sent[s]
    <3>3. m \in Nat /\ left \in Seq(AnyByte)
      <4>1. taken[s] \in Seq(Seq(AnyByte))
        BY NetTypes
      <4> QED BY <4>1, <1>3, SeqMonotonic
    <3>4. Collecting(sq, m, blocks[s], rest \o left)
      BY <3>1, <3>2, <1>8 DEF Received
    <3>5. Collecting(sq, m, list, r \o left)
      BY <3>3, <3>4, <1>8 DEF OnTheWay
    <3>6. r # <<>> => Len(r) < HeadBytes /\ list # <<>> /\ list[Len(list)] = Fresh
      BY <1>8 DEF Done
    <3> HIDE DEF list, r
    <3> QED BY <3>1, <3>5, <3>6, <1>8, <1>9 DEF Received
  <2> QED BY <2>2, <2>3 DEF BytesFit
<1>15. PlansFit(s)'
  <2>1. Working(s) /\ Serving(s) /\ (eaten = {} => Unpacking(s))
    BY <1>1 DEF PlansFit
  <2> DEFINE was == blocks[s]
  <2>2. /\ was # <<>> => list # <<>>
        /\ was # <<>> /\ IsWhole(was[1]) => IsWhole(list[1])
        /\ end.signal => list # <<>> /\ IsWhole(list[1])
    BY <1>8 DEF OnTheWay
  <2>3. was \in Seq(BlockOf(AnyByte)) /\ Head(was) = was[1] /\ Head(list) = list[1]
    <3>1. was \in Seq(BlockOf(AnyByte))
      BY NetTypes
    <3> QED BY <3>1
  <2>4. \/ pc'[s] = pc[s]
        \/ end.signal /\ pc[s] = "waitBlock" /\ pc'[s] = "front"
        \/ end.signal /\ pc[s] = "waitWhole" /\ pc'[s] = "take"
    BY <1>9 DEF AfterSignal
  <2>5. IsSource(s)' = IsSource(s) /\ HasSent(s)' = HasSent(s) /\ HasTaken(s)' = HasTaken(s)
    <3>1. IsSource(s)' = IsSource(s)
      BY <1>8 DEF IsSource
    <3> QED BY <3>1, <2>4 DEF HasSent, HasTaken
  <2> HIDE DEF was, list
  <2>6. Working(s)'
    <3>1. pc'[s] \in {"front", "toWaitWhole", "waitWhole", "take"} => list # <<>>
      BY <2>1, <2>2, <2>4 DEF Working, was
    <3>2. pc'[s] = "take" => IsWhole(Head(list))
      BY <2>1, <2>2, <2>3, <2>4 DEF Working, was
    <3>3. /\ pc'[s] \notin {"setup", "response", "ended"}
          /\ pc'[s] = "idle" <=> pc[s] = "idle"
          /\ pc'[s] = "packing" <=> pc[s] = "packing"
          /\ pc'[s] = "unpacking" <=> pc[s] = "unpacking"
      BY <2>1, <2>4 DEF Working
    <3> QED BY <3>1, <3>2, <3>3, <2>1, <2>5, <1>8, <1>9 DEF Working
  <2>7. Serving(s)'
    BY <2>1, <2>4, <1>8 DEF Serving
  <2>8. eaten' = {} => Unpacking(s)'
    BY <2>1, <2>4, <1>8, <1>10 DEF Unpacking
  <2> QED BY <2>6, <2>7, <2>8 DEF PlansFit
<1>16. SuccessIsUnpacked'
  BY <1>1, <1>8, <1>10 DEF SuccessIsUnpacked
<1> QED BY <1>1, <1>2, <1>6, <1>8, <1>10, <1>11, <1>12, <1>14, <1>15, <1>16, ConnectedStays

\* What the steps of a server leave of the pair's state
LEMMA ConnectedParts ==
  ASSUME TypeInv, Connected, NEW s \in Servers
  PROVE  /\ hasInit = {High} /\ context = Servers /\ eaten \subseteq {Low} /\ SuccessIsUnpacked
         /\ BytesFit(s) /\ Working(s) /\ Serving(s) /\ (eaten = {} => Unpacking(s))
         /\ \E p \in Servers : p = Peer(s) /\ p # s /\ Peer(p) = s /\ BytesFit(p) /\ PlansFit(p)
         /\ pc[s] \in Place /\ job[s] \in Nat /\ Len(plans) \in Nat
         /\ \A k \in 1 .. Len(plans) : plans[k] \in [from : Servers, to : Servers] /\ plans[k].from # plans[k].to
<1>1. plans \in Seq([from : Servers, to : Servers])
  BY DEF TypeInv
<1>2. Len(plans) \in Nat /\ \A k \in 1 .. Len(plans) : plans[k] \in [from : Servers, to : Servers]
  <2> DEFINE S == [from : Servers, to : Servers]
  <2>1. plans \in Seq(S)
    BY <1>1
  <2> HIDE DEF S
  <2>2. Len(plans) \in Nat /\ \A k \in 1 .. Len(plans) : plans[k] \in S
    BY <2>1
  <2> QED BY <2>2 DEF S
<1>3. pc[s] \in Place /\ job[s] \in Nat
  BY DEF TypeInv
<1>4. Peer(s) \in Servers /\ Peer(s) # s /\ Peer(Peer(s)) = s
  BY Pair
<1> QED BY <1>2, <1>3, <1>4 DEF TypeInv, Connected, PlansFit

\* The main thread packs or unpacks.
LEMMA ConnectedMainRun ==
  ASSUME TypeInv, Connected, NEW s \in Servers, NEW size \in BlockBytes, MainRun(s, size)
  PROVE  ChannelInv'
<1>1. /\ hasInit = {High} /\ context = Servers /\ eaten \subseteq {Low} /\ SuccessIsUnpacked
      /\ BytesFit(s) /\ Working(s) /\ Serving(s) /\ (eaten = {} => Unpacking(s))
      /\ job[s] \in Nat
  BY ConnectedParts
<1>2. PICK p \in Servers : p = Peer(s) /\ p # s /\ Peer(p) = s /\ BytesFit(p) /\ PlansFit(p)
  BY ConnectedParts
<1>3. TypeInv'
  BY MainRunTypes
<1> DEFINE request == Head(inQueue[s])
           answer == IF request.type = "pack" THEN size ELSE HeadBytes
           done == IF request.type = "pack" THEN {} ELSE {sent[s][request.block].plan}
<1>4. /\ inQueue[s] # <<>> /\ inQueue' = [inQueue EXCEPT ![s] = Tail(@)]
      /\ outQueue' = [outQueue EXCEPT ![s] = Append(@, answer)]
      /\ unpacked' = unpacked \cup done
      /\ UNCHANGED <<plans, orders, replies, wire, buffer, blocks, context, hasInit, sent, eaten, pc, job, taken>>
  BY DEF MainRun, ilmVars, netVars
<1> HIDE DEF answer, done
<1>5. /\ inQueue'[s] = Tail(inQueue[s]) /\ inQueue'[p] = inQueue[p]
      /\ outQueue'[s] = Append(outQueue[s], answer) /\ outQueue'[p] = outQueue[p]
  BY <1>2, <1>4 DEF TypeInv
<1>6. /\ pc[s] \in {"packing", "unpacking"} /\ outQueue[s] = <<>> /\ inQueue'[s] = <<>>
      /\ pc[s] = "packing" => request.type = "pack"
      /\ pc[s] = "unpacking" => request.type = "unpack" /\ request.block = taken[s][job[s]][1][1]
  <2>1. CASE pc[s] = "packing"
    <3>1. inQueue[s] = <<[type |-> "pack"]>> /\ outQueue[s] = <<>>
      BY <2>1, <1>1, <1>4 DEF Serving
    <3> QED BY <2>1, <3>1, <1>5
  <2>2. CASE pc[s] = "unpacking"
    <3>1. inQueue[s] = <<[type |-> "unpack", block |-> taken[s][job[s]][1][1]]>> /\ outQueue[s] = <<>>
      BY <2>2, <1>1, <1>4 DEF Serving
    <3> QED BY <2>2, <3>1, <1>5
  <2> QED BY <2>1, <2>2, <1>1, <1>4 DEF Serving
<1>7. Len(outQueue'[s]) = 1
  BY <1>5, <1>6
<1>8. Serving(s)'
  BY <1>4, <1>6, <1>7 DEF Serving
<1>9. Working(s)'
  <2>1. HasSent(s)' = HasSent(s) /\ HasTaken(s)' = HasTaken(s) /\ IsSource(s)' = IsSource(s)
    BY <1>4 DEF HasSent, HasTaken, IsSource
  <2> QED BY <2>1, <1>1, <1>4 DEF Working
<1>10. ASSUME eaten' = {} PROVE Unpacking(s)'
  <2>1. Unpacking(s) /\ eaten = {}
    BY <1>1, <1>4, <1>10
  <2>2. ASSUME pc[s] = "unpacking" PROVE job[s] \in done
    <3> DEFINE k == job[s]
    <3>1. k \in Nat /\ k # 0 /\ Len(taken[s]) = k /\ k \in 1 .. Len(taken[s])
      BY <2>2, <1>1 DEF Working, HasTaken
    <3>2. k \in 1 .. Len(sent[s]) /\ taken[s][k] = Payload(k, sent[s][k].length)
      <4>1. Received(s)
        BY <2>1, <1>1 DEF BytesFit
      <4>2. k <= Len(sent[s]) /\ taken[s][k] = Payload(k, sent[s][k].length)
        BY <3>1, <4>1 DEF Received
      <4>3. sent[s] \in Seq(Sent)
        BY NetTypes
      <4>4. Len(sent[s]) \in Nat
        BY <4>3
      <4> HIDE DEF k
      <4> QED BY <3>1, <4>2, <4>4
    <3>3. sent[s][k].length \in Nat \ {0}
      <4>1. sent[s] \in Seq(Sent)
        BY NetTypes
      <4> HIDE DEF k
      <4> QED BY <3>2, <4>1, Sizes
    <3>4. taken[s][k][1][1] = k
      <4> DEFINE L == sent[s][k].length
      <4> HIDE DEF L, k
      <4>1. 1 \in 1 .. L
        BY <3>3 DEF L
      <4>2. Payload(k, L)[1] = <<k, HeadBytes + 1>>
        BY <4>1 DEF Payload
      <4>3. taken[s][k][1] = <<k, HeadBytes + 1>>
        BY <4>2, <3>2 DEF L
      <4> QED BY <4>3
    <3>5. sent[s][k].plan = k
      <4>1. Working(p)
        BY <1>2 DEF PlansFit
      <4> HIDE DEF k
      <4> QED BY <4>1, <3>2, <1>2 DEF Working
    <3>6. request.type # "pack" /\ request.block = k
      BY <2>2, <1>6, <3>4
    <3> QED BY <3>5, <3>6 DEF done
  <2>3. unpacked \subseteq unpacked' /\ done \subseteq unpacked'
    BY <1>4
  <2> QED BY <2>1, <2>2, <2>3, <1>4 DEF Unpacking
<1>11. BytesFit(s)' /\ BytesFit(p)'
  BY <1>1, <1>2, <1>4, BytesFitStay
<1>12. PlansFit(p)'
  BY <1>2, <1>4, <1>5, PlansFitStay
<1>13. PlansFit(s)'
  BY <1>8, <1>9, <1>10 DEF PlansFit
<1>14. SuccessIsUnpacked'
  BY <1>1, <1>4 DEF SuccessIsUnpacked
<1>15. eaten' \subseteq {Low} /\ UNCHANGED <<hasInit, context>>
  BY <1>1, <1>4
<1> QED BY <1>1, <1>2, <1>3, <1>11, <1>12, <1>13, <1>14, <1>15, ConnectedStays

\* A server takes up an order.
LEMMA ConnectedStartPartition ==
  ASSUME TypeInv, Connected, NEW s \in Servers, StartPartition(s)
  PROVE  ChannelInv'
<1>1. /\ hasInit = {High} /\ context = Servers /\ eaten \subseteq {Low} /\ SuccessIsUnpacked
      /\ BytesFit(s) /\ Working(s) /\ Serving(s) /\ (eaten = {} => Unpacking(s))
      /\ job[s] \in Nat /\ Len(plans) \in Nat
  BY ConnectedParts
<1>2. PICK p \in Servers : p = Peer(s) /\ p # s /\ Peer(p) = s /\ BytesFit(p) /\ PlansFit(p)
  BY ConnectedParts
<1>3. TypeInv'
  BY StartPartitionTypes
<1> DEFINE k == job[s] + 1
           old == orders[s]
<1>4. /\ old \in Seq(Nat) /\ old # <<>> /\ Len(old) \in Nat \ {0}
      /\ Head(old) = old[1] /\ Len(Tail(old)) = Len(old) - 1
      /\ \A i \in 1 .. Len(old) - 1 : Tail(old)[i] = old[i + 1]
  <2>1. old \in Seq(Nat) /\ old # <<>>
    BY QueueTypes DEF StartPartition
  <2> HIDE DEF old
  <2> QED BY <2>1
<1>5. Len(old) = Len(plans) - job[s] /\ \A i \in 1 .. Len(old) : old[i] = job[s] + i
  BY <1>1 DEF Working
<1>6. Head(old) = k
  BY <1>4, <1>5
<1>7. /\ pc[s] = "idle" /\ orders' = [orders EXCEPT ![s] = Tail(@)]
      /\ job' = [job EXCEPT ![s] = k]
      /\ IF plans[k].from = s
         THEN /\ inQueue' = [inQueue EXCEPT ![s] = Append(@, [type |-> "pack"])]
              /\ pc' = [pc EXCEPT ![s] = "packing"]
         ELSE /\ pc' = [pc EXCEPT ![s] = "recv"]
              /\ UNCHANGED inQueue
      /\ UNCHANGED <<plans, replies, wire, buffer, blocks, context, hasInit, sent, eaten, outQueue, taken, unpacked>>
  BY <1>6 DEF StartPartition, netVars
<1> HIDE DEF k, old
<1>8. inQueue[s] = <<>> /\ outQueue[s] = <<>>
  BY <1>1, <1>7 DEF Serving
<1>9. /\ orders'[s] = Tail(old) /\ orders'[p] = orders[p] /\ job'[s] = k /\ job'[p] = job[p]
      /\ inQueue'[p] = inQueue[p] /\ pc'[p] = pc[p]
      /\ plans[k].from = s => inQueue'[s] = <<[type |-> "pack"]>> /\ pc'[s] = "packing"
      /\ plans[k].from # s => inQueue'[s] = <<>> /\ pc'[s] = "recv"
  <2>1. /\ orders \in [Servers -> Seq(Nat)] /\ job \in [Servers -> Nat] /\ pc \in [Servers -> Place]
        /\ inQueue \in [Servers -> Seq(Request)]
    BY DEF TypeInv
  <2>2. orders'[s] = Tail(old) /\ orders'[p] = orders[p] /\ job'[s] = k /\ job'[p] = job[p]
    BY <2>1, <1>2, <1>7 DEF old
  <2>3. inQueue'[p] = inQueue[p] /\ pc'[p] = pc[p]
    BY <2>1, <1>2, <1>7
  <2>4. ASSUME plans[k].from = s PROVE inQueue'[s] = <<[type |-> "pack"]>> /\ pc'[s] = "packing"
    <3> DEFINE b == [type |-> "pack"]
    <3>1. inQueue' = [inQueue EXCEPT ![s] = Append(@, b)] /\ pc' = [pc EXCEPT ![s] = "packing"]
      BY <2>4, <1>7
    <3> HIDE DEF b
    <3>2. inQueue'[s] = Append(<<>>, b) /\ pc'[s] = "packing"
      BY <3>1, <2>1, <1>8
    <3>3. Append(<<>>, b) = <<b>>
      OBVIOUS
    <3> QED BY <3>2, <3>3 DEF b
  <2>5. ASSUME plans[k].from # s PROVE inQueue'[s] = <<>> /\ pc'[s] = "recv"
    BY <2>1, <2>5, <1>7, <1>8
  <2> QED BY <2>2, <2>3, <2>4, <2>5
<1>10. IsSource(s)' <=> plans[k].from = s
  BY <1>7, <1>9 DEF IsSource
<1>11. Working(s)'
  <2>1. /\ Len(sent[Peer(s)]) = job[s] /\ Len(taken[s]) = job[s]
        /\ \A i \in 1 .. Len(sent[Peer(s)]) : sent[Peer(s)][i].plan = i
    BY <1>1, <1>7 DEF Working, HasSent, HasTaken
  <2>2. k \in Nat /\ k \in 0 .. Len(plans) /\ k # 0 /\ k - 1 = job[s]
    BY <1>1, <1>4, <1>5 DEF k
  <2>3. Len(Tail(old)) = Len(plans) - k /\ \A i \in 1 .. Len(Tail(old)) : Tail(old)[i] = k + i
    <3> DEFINE rest == Tail(old)
    <3>1. Len(rest) = Len(plans) - k
      BY <1>1, <1>4, <1>5 DEF k
    <3>2. ASSUME NEW i \in 1 .. Len(rest) PROVE rest[i] = k + i
      <4> DEFINE L == Len(old)
                 j == job[s]
      <4>1. i \in 1 .. L - 1 /\ L \in Nat /\ j \in Nat
        BY <1>1, <1>4
      <4> HIDE DEF L, j
      <4>2. i + 1 \in 1 .. L /\ j + (i + 1) = (j + 1) + i
        BY <4>1
      <4>3. rest[i] = old[i + 1]
        BY <4>1, <1>4 DEF L
      <4> QED BY <4>2, <4>3, <1>5 DEF k, L, j
    <3> QED BY <3>1, <3>2
  <2>4. ~HasSent(s)' /\ ~HasTaken(s)'
    BY <1>9, <1>10 DEF HasSent, HasTaken
  <2>5. pc'[s] \in {"packing", "recv"} /\ (pc'[s] = "packing" => IsSource(s)')
    BY <1>9, <1>10
  <2> QED BY <2>1, <2>2, <2>3, <2>4, <2>5, <1>7, <1>9 DEF Working
<1>12. Serving(s)'
  <2>1. outQueue'[s] = <<>>
    BY <1>7, <1>8
  <2> QED BY <2>1, <1>9 DEF Serving
<1>13. eaten' = {} => Unpacking(s)'
  <2>1. pc'[s] # "unpacking"
    BY <1>9
  <2> QED BY <2>1, <1>1, <1>7 DEF Unpacking
<1>14. BytesFit(s)' /\ BytesFit(p)'
  BY <1>1, <1>2, <1>7, BytesFitStay
<1>15. PlansFit(p)'
  BY <1>2, <1>7, <1>9, PlansFitStay
<1>16. PlansFit(s)'
  BY <1>11, <1>12, <1>13 DEF PlansFit
<1>17. SuccessIsUnpacked'
  BY <1>1, <1>7 DEF SuccessIsUnpacked
<1>18. eaten' \subseteq {Low} /\ UNCHANGED <<hasInit, context>>
  BY <1>1, <1>7
<1> QED BY <1>1, <1>2, <1>3, <1>14, <1>15, <1>16, <1>17, <1>18, ConnectedStays

\* A source sends its zone, or a destination its result: one block for the plan.
LEMMA ConnectedSends ==
  ASSUME TypeInv, TypeInv', Connected, NEW s \in Servers, NEW type \in {"pack", "result"},
         NEW length \in Nat \ {0}, SendBlock(s, type, length),
         ~HasSent(s), IsSource(s) <=> pc[s] = "packing", pc[s] \in {"packing", "unpacking"},
         pc' = [pc EXCEPT ![s] = IF IsSource(s) THEN "recv" ELSE "idle"],
         outQueue[s] # <<>>, outQueue' = [outQueue EXCEPT ![s] = Tail(@)],
         UNCHANGED <<plans, orders, replies, job, inQueue, taken, unpacked>>
  PROVE  ChannelInv'
<1>1. /\ hasInit = {High} /\ context = Servers /\ eaten \subseteq {Low} /\ SuccessIsUnpacked
      /\ BytesFit(s) /\ Working(s) /\ Serving(s) /\ (eaten = {} => Unpacking(s))
      /\ job[s] \in Nat /\ Len(plans) \in Nat
      /\ \A k \in 1 .. Len(plans) : plans[k] \in [from : Servers, to : Servers] /\ plans[k].from # plans[k].to
  BY ConnectedParts
<1>2. PICK p \in Servers : p = Peer(s) /\ p # s /\ Peer(p) = s /\ BytesFit(p) /\ PlansFit(p)
  BY ConnectedParts
<1> DEFINE j == job[s]
           N == Len(sent[p])
<1>3. PICK b \in Sent : b.plan = j /\ BlockGoes(s, p, b)
  BY <1>2, SendBlockResult
<1>4. /\ sent'[s] = sent[s] /\ wire'[s] = wire[s]
      /\ Len(sent'[p]) = N + 1 /\ sent'[p][N + 1] = b
      /\ \A k \in 1 .. N : sent'[p][k] = sent[p][k]
      /\ UNCHANGED <<buffer, blocks, context, hasInit, eaten>>
  BY <1>3 DEF BlockGoes
<1>5. /\ pc'[s] = (IF IsSource(s) THEN "recv" ELSE "idle") /\ pc'[p] = pc[p]
      /\ outQueue'[s] = Tail(outQueue[s]) /\ outQueue'[p] = outQueue[p]
  BY <1>2 DEF TypeInv
<1>6. N \in Nat /\ N = j - 1 /\ j \in Nat \ {0} /\ j \in 1 .. Len(plans)
  <2>1. N = j - 1 /\ j # 0 /\ j \in 0 .. Len(plans)
    BY <1>1, <1>2 DEF Working
  <2> QED BY <2>1, <1>1
<1>7. IsSource(s)' = IsSource(s) /\ HasSent(s)' /\ HasTaken(s)' = HasTaken(s)
  <2>1. IsSource(s)' = IsSource(s)
    BY DEF IsSource
  <2> QED BY <2>1, <1>5 DEF HasSent, HasTaken
<1> DEFINE t == sent'[p]
<1>8. Len(t) = j /\ \A k \in 1 .. Len(t) : t[k].plan = k
  <2>1. \A k \in 1 .. N : sent[p][k].plan = k
    BY <1>1, <1>2 DEF Working
  <2> HIDE DEF j, N, t
  <2>2. Len(t) = j
    BY <1>4, <1>6 DEF t
  <2>3. ASSUME NEW k \in 1 .. j PROVE t[k].plan = k
    <3>1. CASE k = j
      <4>1. t[k] = b
        BY <3>1, <1>4, <1>6 DEF t
      <4> QED BY <3>1, <4>1, <1>3
    <3>2. CASE k # j
      <4>1. k \in 1 .. N
        BY <3>2, <1>6
      <4> QED BY <4>1, <2>1, <1>4 DEF t
    <3> QED BY <3>1, <3>2
  <2> QED BY <2>2, <2>3
<1> HIDE DEF j, N, t
<1>9. Working(s)'
  <2>1. sent'[Peer(s)] = t /\ job'[s] = j
    BY <1>2 DEF t, j
  <2>2. pc'[s] \in {"recv", "idle"}
    BY <1>5
  <2>3. j \in 0 .. Len(plans) /\ j # 0
    BY <1>1, <1>6
  <2> QED BY <2>1, <2>2, <2>3, <1>1, <1>5, <1>7, <1>8 DEF Working, j
<1>10. inQueue[s] = <<>> /\ outQueue'[s] = <<>>
  <2>1. inQueue[s] = <<>> /\ Len(outQueue[s]) = 1
    BY <1>1 DEF Serving
  <2>2. outQueue[s] \in Seq(Nat \ {0})
    BY QueueTypes
  <2> DEFINE q == outQueue[s]
  <2>3. q \in Seq(Nat \ {0}) /\ Len(q) = 1 /\ q # <<>>
    BY <2>1, <2>2
  <2> HIDE DEF q
  <2>4. Tail(q) = <<>>
    <3>1. q # <<>>
      BY <2>3
    <3> DEFINE r == Tail(q)
    <3>2. r \in Seq(Nat \ {0}) /\ Len(r) = Len(q) - 1
      BY <2>3, <3>1
    <3> HIDE DEF r
    <3>3. r = <<>>
      BY <2>3, <3>2
    <3> QED BY <3>3 DEF r
  <2> QED BY <2>1, <2>4, <1>5 DEF q
<1>11. Serving(s)'
  <2>1. pc'[s] \notin {"packing", "unpacking"} /\ inQueue'[s] = <<>>
    BY <1>5, <1>10
  <2> QED BY <2>1, <1>10 DEF Serving
<1>12. ASSUME eaten' = {} PROVE Unpacking(s)'
  <2>1. Unpacking(s)
    BY <1>1, <1>4, <1>12
  <2>2. \A k \in 1 .. N : plans[k].to = s => k \in unpacked
    BY <2>1, <1>2 DEF Unpacking, N
  <2>3. plans[j].to = s => j \in unpacked
    <3>1. CASE IsSource(s)
      BY <3>1, <1>1, <1>6 DEF IsSource, j
    <3>2. CASE ~IsSource(s)
      <4>1. pc[s] = "unpacking" /\ inQueue[s] = <<>>
        BY <3>2, <1>10
      <4> QED BY <4>1, <2>1 DEF Unpacking, j
    <3> QED BY <3>1, <3>2
  <2>4. \A k \in 1 .. Len(t) : k = j \/ k \in 1 .. N
    BY <1>6, <1>8
  <2>5. \A k \in 1 .. Len(t) : plans[k].to = s => k \in unpacked
    BY <2>2, <2>3, <2>4
  <2>6. sent'[Peer(s)] = t /\ pc'[s] # "unpacking"
    BY <1>2, <1>5 DEF t
  <2> QED BY <2>5, <2>6 DEF Unpacking
<1>13. BytesFit(p)'
  BY <1>2, BytesFitGrow
<1>14. BytesFit(s)'
  BY <1>1, <1>4, BytesFitStay
<1>15. PlansFit(p)'
  BY <1>2, <1>4, <1>5, PlansFitStay
<1>16. PlansFit(s)'
  BY <1>9, <1>11, <1>12 DEF PlansFit
<1>17. SuccessIsUnpacked'
  BY <1>1, <1>4 DEF SuccessIsUnpacked
<1>18. eaten' \subseteq {Low} /\ UNCHANGED <<hasInit, context>>
  BY <1>1, <1>4
<1> QED BY <1>1, <1>2, <1>13, <1>14, <1>15, <1>16, <1>17, <1>18, ConnectedStays

LEMMA ConnectedSendZone ==
  ASSUME TypeInv, Connected, NEW s \in Servers, SendZone(s)
  PROVE  ChannelInv'
<1>1. TypeInv'
  BY SendZoneTypes
<1>2. s \in context /\ Working(s)
  BY ConnectedParts
<1>3. /\ pc[s] = "packing" /\ outQueue[s] # <<>> /\ outQueue' = [outQueue EXCEPT ![s] = Tail(@)]
      /\ SendBlock(s, "pack", Head(outQueue[s])) /\ pc' = [pc EXCEPT ![s] = "recv"]
      /\ UNCHANGED <<plans, orders, replies, job, inQueue, taken, unpacked>>
  BY <1>2 DEF SendZone
<1>4. Head(outQueue[s]) \in Nat \ {0}
  BY <1>3, QueueTypes
<1>5. IsSource(s) /\ ~HasSent(s)
  BY <1>2, <1>3 DEF Working, HasSent
<1>6. pc' = [pc EXCEPT ![s] = IF IsSource(s) THEN "recv" ELSE "idle"]
  BY <1>3, <1>5
<1> QED BY <1>1, <1>3, <1>4, <1>5, <1>6, ConnectedSends

LEMMA ConnectedSendResult ==
  ASSUME TypeInv, Connected, NEW s \in Servers, SendResult(s)
  PROVE  ChannelInv'
<1>1. TypeInv'
  BY SendResultTypes
<1>2. Working(s)
  BY ConnectedParts
<1>3. /\ pc[s] = "unpacking" /\ outQueue[s] # <<>> /\ outQueue' = [outQueue EXCEPT ![s] = Tail(@)]
      /\ SendBlock(s, "result", HeadBytes) /\ pc' = [pc EXCEPT ![s] = "idle"]
      /\ UNCHANGED <<plans, orders, replies, job, inQueue, taken, unpacked>>
  BY DEF SendResult, ilmVars
<1>4. HeadBytes \in Nat \ {0}
  BY Positive
<1>5. ~IsSource(s) /\ ~HasSent(s)
  BY <1>2, <1>3 DEF Working, HasSent
<1>6. pc' = [pc EXCEPT ![s] = IF IsSource(s) THEN "recv" ELSE "idle"]
  BY <1>3, <1>5
<1> QED BY <1>1, <1>3, <1>4, <1>5, <1>6, ConnectedSends

\* RecvBlock looks for a block, or for the rest of it.
LEMMA ConnectedRecvBlockLooks ==
  ASSUME TypeInv, Connected, NEW s \in Servers, RecvBlockLooks(s)
  PROVE  ChannelInv'
<1>1. /\ hasInit = {High} /\ context = Servers /\ eaten \subseteq {Low} /\ SuccessIsUnpacked
      /\ BytesFit(s) /\ Working(s) /\ Serving(s) /\ (eaten = {} => Unpacking(s))
  BY ConnectedParts
<1>2. PICK p \in Servers : p = Peer(s) /\ p # s /\ Peer(p) = s /\ BytesFit(p) /\ PlansFit(p)
  BY ConnectedParts
<1>3. TypeInv'
  BY RecvBlockLooksTypes
<1>4. UNCHANGED <<plans, orders, replies, wire, buffer, blocks, context, hasInit, sent, eaten, job,
                  inQueue, outQueue, taken, unpacked>>
  BY DEF RecvBlockLooks, ilmVars, netVars
<1>5. /\ pc[s] \in {"recv", "front", "toWaitBlock", "toWaitWhole"}
      /\ \E place \in {"toWaitBlock", "front", "toWaitWhole", "waitBlock", "waitWhole"} :
           /\ pc' = [pc EXCEPT ![s] = place]
           /\ place \in {"front", "toWaitWhole", "waitWhole"} => blocks[s] # <<>>
  BY <1>1 DEF RecvBlockLooks, Working
<1>6. /\ pc'[p] = pc[p]
      /\ pc'[s] \in {"toWaitBlock", "front", "toWaitWhole", "waitBlock", "waitWhole"}
      /\ pc'[s] \in {"front", "toWaitWhole", "waitWhole"} => blocks[s] # <<>>
  BY <1>2, <1>5 DEF TypeInv
<1>7. IsSource(s)' = IsSource(s) /\ HasSent(s)' = HasSent(s) /\ HasTaken(s)' = HasTaken(s)
  <2>1. IsSource(s)' = IsSource(s)
    BY <1>4 DEF IsSource
  <2> QED BY <2>1, <1>5, <1>6 DEF HasSent, HasTaken
<1>8. Working(s)'
  <2>1. job[s] # 0
    BY <1>1, <1>5 DEF Working
  <2> QED BY <2>1, <1>1, <1>4, <1>5, <1>6, <1>7 DEF Working
<1>9. Serving(s)'
  BY <1>1, <1>4, <1>5, <1>6 DEF Serving
<1>10. eaten' = {} => Unpacking(s)'
  BY <1>1, <1>4, <1>6 DEF Unpacking
<1>11. BytesFit(s)' /\ BytesFit(p)'
  BY <1>1, <1>2, <1>4, BytesFitStay
<1>12. PlansFit(p)'
  BY <1>2, <1>4, <1>6, PlansFitStay
<1>13. PlansFit(s)'
  BY <1>8, <1>9, <1>10 DEF PlansFit
<1>14. SuccessIsUnpacked'
  BY <1>1, <1>4 DEF SuccessIsUnpacked
<1>15. eaten' \subseteq {Low} /\ UNCHANGED <<hasInit, context>>
  BY <1>1, <1>4
<1> QED BY <1>1, <1>2, <1>3, <1>11, <1>12, <1>13, <1>14, <1>15, ConnectedStays

\* RecvBlock takes a block.
LEMMA ConnectedRecvBlockTakes ==
  ASSUME TypeInv, Connected, NEW s \in Servers, RecvBlockTakes(s)
  PROVE  ChannelInv'
<1>1. /\ hasInit = {High} /\ context = Servers /\ eaten \subseteq {Low} /\ SuccessIsUnpacked
      /\ BytesFit(s) /\ Working(s) /\ Serving(s) /\ (eaten = {} => Unpacking(s))
      /\ job[s] \in Nat /\ Len(plans) \in Nat
      /\ \A k \in 1 .. Len(plans) : plans[k] \in [from : Servers, to : Servers] /\ plans[k].from # plans[k].to
  BY ConnectedParts
<1>2. PICK p \in Servers : p = Peer(s) /\ p # s /\ Peer(p) = s /\ BytesFit(p) /\ PlansFit(p)
  BY ConnectedParts
<1>3. pc[s] \in {"take", "front"} /\ blocks[s] # <<>> /\ IsWhole(Head(blocks[s]))
  BY <1>1 DEF RecvBlockTakes, Working
<1> DEFINE data == Head(blocks[s]).data
           j == job[s]
           request == [type |-> "unpack", block |-> data[1][1]]
<1>4. TypeInv' /\ data \in Seq(AnyByte)
  BY <1>3, RecvBlockTakesTypes
<1>5. /\ taken' = [taken EXCEPT ![s] = Append(@, data)]
      /\ blocks' = [blocks EXCEPT ![s] = Tail(@)]
      /\ IF IsSource(s)
         THEN /\ replies' = replies \cup {[plan |-> j, result |-> 1]}
              /\ pc' = [pc EXCEPT ![s] = "idle"] /\ UNCHANGED inQueue
         ELSE /\ inQueue' = [inQueue EXCEPT ![s] = Append(@, request)]
              /\ pc' = [pc EXCEPT ![s] = "unpacking"] /\ UNCHANGED replies
      /\ UNCHANGED <<plans, orders, wire, buffer, context, hasInit, sent, eaten, job, outQueue, unpacked>>
  BY DEF RecvBlockTakes, Reply
<1> HIDE DEF data, request
<1>6. inQueue[s] = <<>> /\ outQueue[s] = <<>>
  BY <1>1, <1>3 DEF Serving
<1>7. /\ taken'[s] = Append(taken[s], data) /\ taken'[p] = taken[p]
      /\ blocks'[s] = Tail(blocks[s]) /\ blocks'[p] = blocks[p]
      /\ pc'[s] = (IF IsSource(s) THEN "idle" ELSE "unpacking") /\ pc'[p] = pc[p]
      /\ inQueue'[p] = inQueue[p]
      /\ IsSource(s) => inQueue'[s] = <<>>
      /\ ~IsSource(s) => inQueue'[s] = <<request>>
  <2>1. /\ taken \in [Servers -> Seq(Seq(AnyByte))] /\ blocks \in [Servers -> Seq(BlockOf(AnyByte))]
        /\ pc \in [Servers -> Place] /\ inQueue \in [Servers -> Seq(Request)]
    BY DEF TypeInv
  <2>2. taken'[s] = Append(taken[s], data) /\ taken'[p] = taken[p]
    BY <2>1, <1>2, <1>5
  <2>3. blocks'[s] = Tail(blocks[s]) /\ blocks'[p] = blocks[p]
    BY <2>1, <1>2, <1>5
  <2>4. pc'[s] = (IF IsSource(s) THEN "idle" ELSE "unpacking") /\ pc'[p] = pc[p]
    BY <2>1, <1>2, <1>5
  <2>5. inQueue'[p] = inQueue[p] /\ (IsSource(s) => inQueue'[s] = <<>>)
    BY <2>1, <1>2, <1>5, <1>6
  <2>6. ~IsSource(s) => inQueue'[s] = Append(<<>>, request)
    BY <2>1, <1>5, <1>6
  <2>7. Append(<<>>, request) = <<request>>
    OBVIOUS
  <2> QED BY <2>2, <2>3, <2>4, <2>5, <2>6, <2>7
<1>8. /\ taken[s] \in Seq(Seq(AnyByte)) /\ sent[s] \in Seq(Sent) /\ blocks[s] \in Seq(BlockOf(AnyByte))
      /\ Len(taken[s]) = j - 1 /\ j \in Nat \ {0} /\ j \in 1 .. Len(plans)
  <2>1. taken[s] \in Seq(Seq(AnyByte)) /\ sent[s] \in Seq(Sent) /\ blocks[s] \in Seq(BlockOf(AnyByte))
    BY NetTypes
  <2>2. Len(taken[s]) = j - 1 /\ j # 0 /\ j \in 0 .. Len(plans)
    BY <1>1, <1>3 DEF Working, HasTaken
  <2> QED BY <2>1, <2>2, <1>1
<1> DEFINE n == Len(taken[s])
           sq == sent[s]
           list == blocks[s]
<1>9. /\ Len(taken'[s]) = n + 1 /\ taken'[s][n + 1] = data /\ n \in Nat /\ n + 1 = j
      /\ \A k \in 1 .. n : taken'[s][k] = taken[s][k]
  <2>1. /\ Len(Append(taken[s], data)) = n + 1 /\ Append(taken[s], data)[n + 1] = data
        /\ \A k \in 1 .. n : Append(taken[s], data)[k] = taken[s][k]
    BY <1>4, <1>8, AppendProperties
  <2>2. n \in Nat /\ n + 1 = j
    BY <1>8
  <2> QED BY <2>1, <2>2, <1>7
<1>10. /\ Len(list) \in Nat \ {0} /\ Head(list) = list[1] /\ Len(Tail(list)) = Len(list) - 1
       /\ \A i \in 1 .. Len(list) - 1 : Tail(list)[i] = list[i + 1]
  <2> HIDE DEF list
  <2> QED BY <1>3, <1>8 DEF list
<1>11. ASSUME Received(s)
       PROVE  Received(s)' /\ j \in 1 .. Len(sq)
  <2> DEFINE q == buffer[s] \o wire[s]
  <2>1. Collecting(sq, n, list, q)
    BY <1>11 DEF Received
  <2>2. q \in Seq(AnyByte)
    <3>1. buffer[s] \in Seq(AnyByte) /\ wire[s] \in Seq(AnyByte)
      BY NetTypes
    <3> QED BY <3>1, ConcatProperties
  <2> HIDE DEF q
  <2>3. /\ Collecting(sq, n + 1, Tail(list), q)
        /\ n + 1 \in 1 .. Len(sq) /\ Head(list).data = Payload(n + 1, sq[n + 1].length)
    BY <2>1, <2>2, <1>3, <1>8, <1>9, CollectingTaken
  <2>4. ASSUME buffer[s] # <<>>
        PROVE  Len(buffer[s]) < HeadBytes /\ Tail(list) # <<>> /\ Tail(list)[Len(Tail(list))] = Fresh
    <3> DEFINE L == Len(list)
               rest == Tail(list)
    <3>1. Len(buffer[s]) < HeadBytes /\ list[L] = Fresh
      BY <2>4, <1>11 DEF Received
    <3>2. L # 1
      BY <3>1, <1>3, <1>10 DEF IsWhole, Fresh
    <3>3. L \in Nat \ {0} /\ Len(rest) = L - 1 /\ \A i \in 1 .. L - 1 : rest[i] = list[i + 1]
      BY <1>10
    <3> HIDE DEF L, rest, list
    <3>4. L - 1 \in 1 .. L - 1 /\ (L - 1) + 1 = L
      BY <3>2, <3>3
    <3>5. rest[L - 1] = list[L]
      BY <3>3, <3>4
    <3>6. Len(rest) # 0
      BY <3>3, <3>4
    <3>7. rest # <<>>
      BY <3>6
    <3> QED BY <3>1, <3>3, <3>5, <3>7 DEF rest
  <2>5. ASSUME NEW k \in 1 .. n + 1 PROVE k <= Len(sq) /\ taken'[s][k] = Payload(k, sq[k].length)
    <3>1. CASE k = n + 1
      <4>1. k \in 1 .. Len(sq)
        BY <3>1, <2>3
      <4>2. Len(sq) \in Nat
        BY <1>8
      <4>3. k <= Len(sq)
        BY <4>1, <4>2
      <4>4. taken'[s][k] = Head(list).data
        BY <3>1, <1>9 DEF data
      <4> HIDE DEF list, sq, n
      <4> QED BY <3>1, <4>3, <4>4, <2>3
    <3>2. CASE k # n + 1
      <4>1. k \in 1 .. n
        BY <3>2, <1>9
      <4> QED BY <4>1, <1>9, <1>11 DEF Received
    <3> QED BY <3>1, <3>2
  <2>6. /\ sent'[s] = sq /\ Len(taken'[s]) = n + 1 /\ blocks'[s] = Tail(list)
        /\ buffer' = buffer /\ wire' = wire
    BY <1>5, <1>7, <1>9
  <2>7. j \in 1 .. Len(sq)
    BY <2>3, <1>9
  <2> HIDE DEF n, sq, list
  <2>8. Collecting(sent[s], Len(taken[s]), blocks[s], buffer[s] \o wire[s])'
    BY <2>3, <2>6 DEF q
  <2>9. \A k \in 1 .. Len(taken'[s]) : k <= Len(sent'[s]) /\ taken'[s][k] = Payload(k, sent'[s][k].length)
    BY <2>5, <2>6
  <2> QED BY <2>4, <2>6, <2>7, <2>8, <2>9 DEF Received
<1> HIDE DEF n, sq, list, j
<1>12. BytesFit(s)'
  <2>1. (ByteFrom(1, s))' = ByteFrom(1, s)
    BY <1>5 DEF ByteFrom
  <2> QED BY <2>1, <1>1, <1>5, <1>11 DEF BytesFit
<1>13. BytesFit(p)'
  BY <1>2, <1>5, <1>7, BytesFitStay
<1>14. PlansFit(p)'
  BY <1>2, <1>5, <1>7, PlansFitStay
<1>15. Working(s)'
  <2>1. IsSource(s)' = IsSource(s) /\ HasSent(s)' = HasSent(s) /\ HasTaken(s)'
    <3>1. IsSource(s)' = IsSource(s)
      BY <1>5 DEF IsSource
    <3> QED BY <3>1, <1>3, <1>7 DEF HasSent, HasTaken
  <2>2. Len(taken'[s]) = j /\ job'[s] = j
    BY <1>5, <1>9 DEF j, n
  <2>3. pc'[s] \in {"idle", "unpacking"} /\ (pc'[s] = "unpacking" => ~IsSource(s))
    BY <1>7
  <2>4. j # 0 /\ j \in 0 .. Len(plans)
    BY <1>1, <1>8
  <2> QED BY <2>1, <2>2, <2>3, <2>4, <1>1, <1>5 DEF Working, j
<1>16. Serving(s)'
  <2>1. outQueue'[s] = <<>>
    BY <1>5, <1>6
  <2>2. CASE IsSource(s)
    BY <2>1, <2>2, <1>7 DEF Serving
  <2>3. CASE ~IsSource(s)
    <3>1. taken'[s][job'[s]] = data
      BY <1>5, <1>9 DEF n, j
    <3> QED BY <2>1, <2>3, <3>1, <1>7 DEF Serving, request
  <2> QED BY <2>2, <2>3
<1>17. ASSUME eaten' = {} PROVE Unpacking(s)'
  <2>1. Unpacking(s)
    BY <1>1, <1>5, <1>17
  <2>2. pc'[s] = "unpacking" => inQueue'[s] # <<>>
    <3>1. <<request>> # <<>>
      OBVIOUS
    <3>2. pc'[s] = "unpacking" => ~IsSource(s)
      BY <1>7
    <3> QED BY <3>1, <3>2, <1>7
  <2> QED BY <2>1, <2>2, <1>5 DEF Unpacking
<1>18. PlansFit(s)'
  BY <1>15, <1>16, <1>17 DEF PlansFit
<1>19. SuccessIsUnpacked'
  <2> SUFFICES ASSUME eaten' = {}, NEW r \in replies', r.result = 1 PROVE r.plan \in unpacked'
    BY DEF SuccessIsUnpacked
  <2>1. eaten = {} /\ unpacked' = unpacked
    BY <1>5
  <2>2. CASE r \in replies
    BY <2>1, <2>2, <1>1 DEF SuccessIsUnpacked
  <2>3. CASE r \notin replies
    <3>1. IsSource(s) /\ r = [plan |-> j, result |-> 1]
      BY <2>3, <1>5
    <3>2. plans[j].to = p
      <4>1. plans[j].from = s /\ plans[j] \in [from : Servers, to : Servers] /\ plans[j].from # plans[j].to
        BY <3>1, <1>1, <1>8 DEF IsSource, j
      <4> QED BY <4>1, <1>2, Pair
    <3>3. j \in 1 .. Len(sent[s])
      <4>1. Received(s)
        BY <2>1, <1>1 DEF BytesFit
      <4> QED BY <4>1, <1>11 DEF sq
    <3>4. Unpacking(p)
      BY <2>1, <1>2 DEF PlansFit
    <3>5. j \in unpacked
      BY <3>2, <3>3, <3>4, <1>2 DEF Unpacking
    <3> QED BY <3>1, <3>5, <2>1
  <2> QED BY <2>2, <2>3
<1>20. eaten' \subseteq {Low} /\ UNCHANGED <<hasInit, context>>
  BY <1>1, <1>5
<1> QED BY <1>1, <1>2, <1>4, <1>12, <1>13, <1>14, <1>18, <1>19, <1>20, ConnectedStays

LEMMA ConnectedStep ==
  ASSUME TypeInv, Connected, NEW s \in Servers, Step(s)
  PROVE  ChannelInv'
<1>1. pc[s] \notin {"setup", "response"}
  BY ConnectedParts DEF Working
<1>2. ASSUME NEW hasMaps \in BOOLEAN, SetupConnection(s, hasMaps) PROVE ChannelInv'
  BY <1>1, <1>2 DEF SetupConnection
<1>3. ASSUME InitBlockConnection(s) PROVE ChannelInv'
  BY <1>1, <1>3 DEF InitBlockConnection
<1>4. ASSUME NEW n \in 1 .. Len(wire[s]), NEW guess \in 0 .. HeadBytes, NEW stray \in BOOLEAN,
             OnRead(s, n, guess, stray)
      PROVE  ChannelInv'
  BY <1>4, ConnectedRead
<1>5. ASSUME NEW size \in BlockBytes, MainRun(s, size) PROVE ChannelInv'
  BY <1>5, ConnectedMainRun
<1> QED BY <1>2, <1>3, <1>4, <1>5, ConnectedStartPartition, ConnectedSendZone, ConnectedSendResult,
           ConnectedRecvBlockLooks, ConnectedRecvBlockTakes DEF Step

-----------------------------------------------------------------------------
(* The ILM and the end of a server                                          *)

LEMMA OrderPlanTypes ==
  ASSUME TypeInv, NEW from \in Servers, NEW to \in Servers, OrderPlan(from, to)
  PROVE  /\ TypeInv' /\ Len(plans') = Len(plans) + 1 /\ Len(plans) \in Nat
         /\ \A k \in 1 .. Len(plans) : plans'[k] = plans[k]
         /\ \A s \in Servers : /\ Len(orders'[s]) = Len(orders[s]) + 1 /\ Len(orders[s]) \in Nat
                               /\ orders'[s][Len(orders[s]) + 1] = Len(plans) + 1
                               /\ \A i \in 1 .. Len(orders[s]) : orders'[s][i] = orders[s][i]
<1> DEFINE b == [from |-> from, to |-> to]
           S == [from : Servers, to : Servers]
           N == Len(plans)
<1>1. /\ from # to /\ plans' = Append(plans, b)
      /\ orders' = [s \in Servers |-> Append(orders[s], N + 1)]
      /\ UNCHANGED <<replies, wire, buffer, blocks, context, hasInit, sent, eaten, pc, job, inQueue, outQueue, taken>>
  BY DEF OrderPlan, netVars
<1>2. plans \in Seq(S) /\ b \in S /\ b.from # b.to
  BY <1>1 DEF TypeInv
<1>3. \A k \in 1 .. N : plans[k].from # plans[k].to
  BY DEF TypeInv
<1> HIDE DEF S, b
<1>4. /\ Append(plans, b) \in Seq(S) /\ Len(Append(plans, b)) = N + 1 /\ Append(plans, b)[N + 1] = b
      /\ \A k \in 1 .. N : Append(plans, b)[k] = plans[k]
  BY <1>2, AppendProperties
<1>5. N \in Nat
  BY <1>2
<1>6. plans' \in Seq(S) /\ Len(plans') = N + 1 /\ plans'[N + 1] = b /\ \A k \in 1 .. N : plans'[k] = plans[k]
  BY <1>1, <1>4
<1> HIDE DEF N
<1>7. \A k \in 1 .. N + 1 : plans'[k].from # plans'[k].to
  <2>1. ASSUME NEW k \in 1 .. N + 1 PROVE plans'[k].from # plans'[k].to
    <3>1. k = N + 1 \/ k \in 1 .. N
      BY <1>5
    <3> QED BY <3>1, <1>2, <1>3, <1>6
  <2> QED BY <2>1
<1>8. ASSUME NEW s \in Servers
      PROVE  /\ orders'[s] \in Seq(Nat) /\ Len(orders'[s]) = Len(orders[s]) + 1 /\ Len(orders[s]) \in Nat
             /\ orders'[s][Len(orders[s]) + 1] = N + 1
             /\ \A i \in 1 .. Len(orders[s]) : orders'[s][i] = orders[s][i]
  <2> DEFINE old == orders[s]
  <2>1. old \in Seq(Nat) /\ N + 1 \in Nat
    BY <1>5 DEF TypeInv
  <2>2. orders'[s] = Append(old, N + 1)
    BY <1>1
  <2> HIDE DEF old
  <2>3. /\ Append(old, N + 1) \in Seq(Nat) /\ Len(Append(old, N + 1)) = Len(old) + 1
        /\ Append(old, N + 1)[Len(old) + 1] = N + 1
        /\ \A i \in 1 .. Len(old) : Append(old, N + 1)[i] = old[i]
    BY <2>1, AppendProperties
  <2>4. Len(old) \in Nat
    BY <2>1
  <2> QED BY <2>2, <2>3, <2>4 DEF old
<1>9. orders' \in [Servers -> Seq(Nat)]
  BY <1>1, <1>8
<1>10. TypeInv'
  BY <1>1, <1>6, <1>7, <1>9 DEF TypeInv, S, N
<1> QED BY <1>5, <1>6, <1>8, <1>10 DEF N

LEMMA OrderPlanStep ==
  ASSUME TypeInv, PairInv, NEW from \in Servers, NEW to \in Servers, OrderPlan(from, to)
  PROVE  ChannelInv'
<1> DEFINE N == Len(plans)
<1>1. /\ TypeInv' /\ Len(plans') = N + 1 /\ N \in Nat
      /\ \A k \in 1 .. N : plans'[k] = plans[k]
      /\ \A s \in Servers : /\ Len(orders'[s]) = Len(orders[s]) + 1 /\ Len(orders[s]) \in Nat
                            /\ orders'[s][Len(orders[s]) + 1] = N + 1
                            /\ \A i \in 1 .. Len(orders[s]) : orders'[s][i] = orders[s][i]
  BY OrderPlanTypes
<1>2. pc[Low] \notin {"setup", "response"}
      /\ UNCHANGED <<replies, wire, buffer, blocks, context, hasInit, sent, eaten, pc, job, inQueue,
                     outQueue, taken, unpacked>>
  BY DEF OrderPlan, netVars
<1>3. CASE Apart
  <2>1. Apart'
    BY <1>2, <1>3 DEF Apart, NoBytes
  <2> QED BY <2>1, <1>1 DEF ChannelInv, PairInv
<1>4. CASE Connected
  <2>1. hasInit = {High} /\ context = Servers /\ eaten \subseteq {Low} /\ SuccessIsUnpacked
    BY <1>4 DEF Connected
  <2>2. ASSUME NEW s \in Servers PROVE BytesFit(s)' /\ PlansFit(s)'
    <3>1. BytesFit(s) /\ Working(s) /\ Serving(s) /\ (eaten = {} => Unpacking(s)) /\ job[s] \in Nat
      BY <1>4, ConnectedParts
    <3>2. BytesFit(s)'
      BY <3>1, <1>2, BytesFitStay
    <3>3. job[s] \in 0 .. N /\ (job[s] = 0 => pc[s] = "idle")
      BY <3>1 DEF Working
    <3>4. job[s] # 0 => IsSource(s)' = IsSource(s)
      <4>1. job[s] # 0 => job[s] \in 1 .. N
        BY <3>3, <1>1
      <4> QED BY <4>1, <1>1, <1>2 DEF IsSource
    <3>5. HasSent(s)' = HasSent(s) /\ HasTaken(s)' = HasTaken(s)
      BY <3>3, <3>4, <1>2 DEF HasSent, HasTaken
    <3>6. /\ Len(orders'[s]) = Len(plans') - job[s]
          /\ \A i \in 1 .. Len(orders'[s]) : orders'[s][i] = job[s] + i
      <4> DEFINE L == Len(orders[s])
      <4>1. L = N - job[s] /\ \A i \in 1 .. L : orders[s][i] = job[s] + i
        BY <3>1 DEF Working
      <4>2. L \in Nat
        BY <1>1
      <4>3. Len(orders'[s]) = L + 1 /\ orders'[s][L + 1] = N + 1
        BY <1>1
      <4>4. \A i \in 1 .. L : orders'[s][i] = orders[s][i]
        BY <1>1
      <4> HIDE DEF L, N
      <4>5. L + 1 = (N + 1) - job[s] /\ job[s] + (L + 1) = N + 1
        BY <4>1, <4>2, <3>1, <1>1
      <4>6. ASSUME NEW i \in 1 .. L + 1 PROVE orders'[s][i] = job[s] + i
        <5>1. i = L + 1 \/ i \in 1 .. L
          BY <4>2
        <5> QED BY <5>1, <4>1, <4>3, <4>4, <4>5
      <4> QED BY <4>3, <4>5, <4>6, <1>1
    <3>7. job'[s] \in 0 .. Len(plans')
      BY <3>1, <3>3, <1>1, <1>2
    <3>8. Working(s)'
      <4>1. pc[s] = "packing" => IsSource(s)'
        BY <3>1, <3>3, <3>4 DEF Working
      <4>2. pc[s] = "unpacking" => ~IsSource(s)'
        BY <3>1, <3>3, <3>4 DEF Working
      <4> QED BY <4>1, <4>2, <3>1, <3>5, <3>6, <3>7, <1>2 DEF Working
    <3>9. Serving(s)'
      BY <3>1, <1>2 DEF Serving
    <3>10. ASSUME eaten' = {} PROVE Unpacking(s)'
      <4>1. Unpacking(s)
        BY <3>1, <3>10, <1>2
      <4> DEFINE M == Len(sent[Peer(s)])
      <4>2. M \in {job[s], job[s] - 1}
        BY <3>1 DEF Working
      <4> HIDE DEF M, N
      <4>3. \A k \in 1 .. M : k \in 1 .. N
        BY <4>2, <3>1, <3>3, <1>1
      <4>4. \A k \in 1 .. M : plans'[k] = plans[k]
        BY <4>3, <1>1
      <4> QED BY <4>1, <4>4, <1>2 DEF Unpacking, M
    <3> QED BY <3>2, <3>8, <3>9, <3>10 DEF PlansFit
  <2>3. SuccessIsUnpacked'
    BY <2>1, <1>2 DEF SuccessIsUnpacked
  <2>4. Connected'
    BY <2>1, <2>2, <2>3, <1>2 DEF Connected
  <2> QED BY <2>4, <1>1 DEF ChannelInv, PairInv
<1>5. Apart \/ Connected
  BY <1>2 DEF PairInv, Asking, Astray, Answered
<1> QED BY <1>3, <1>4, <1>5

\* The invariant says nothing of who died.
LEMMA ChannelStays ==
  ASSUME ChannelInv, UNCHANGED <<ilmVars, netVars, pc, job, inQueue, outQueue, taken, unpacked>>
  PROVE  ChannelInv'
<1>1. UNCHANGED <<plans, orders, replies, wire, buffer, blocks, context, hasInit, sent, eaten, pc, job,
                  inQueue, outQueue, taken, unpacked>>
  BY DEF ilmVars, netVars
<1>2. TypeInv'
  BY <1>1 DEF ChannelInv, TypeInv
<1>3. CASE Apart
  <2>1. Apart'
    BY <1>1, <1>3 DEF Apart, NoBytes, Unused
  <2> QED BY <2>1, <1>2 DEF ChannelInv, PairInv
<1>4. CASE Asking
  <2>1. Asking'
    BY <1>1, <1>4 DEF Asking, NoBytes, Unused
  <2> QED BY <2>1, <1>2 DEF ChannelInv, PairInv
<1>5. CASE Astray
  <2>1. Astray'
    BY <1>1, <1>5 DEF Astray, NoBytes, Unused
  <2> QED BY <2>1, <1>2 DEF ChannelInv, PairInv
<1>6. CASE Answered
  <2>1. Answered'
    BY <1>1, <1>6 DEF Answered, Unused
  <2> QED BY <2>1, <1>2 DEF ChannelInv, PairInv
<1>7. CASE Connected
  <2>1. \A s \in Servers : BytesFit(s)' /\ PlansFit(s)'
    BY <1>1, <1>7, BytesFitStay, PlansFitStay DEF Connected
  <2>2. SuccessIsUnpacked'
    BY <1>1, <1>7 DEF Connected, SuccessIsUnpacked
  <2>3. Connected'
    BY <2>1, <2>2, <1>1, <1>7 DEF Connected
  <2> QED BY <2>3, <1>2 DEF ChannelInv, PairInv
<1> QED BY <1>3, <1>4, <1>5, <1>6, <1>7 DEF ChannelInv, PairInv

LEMMA NextInv == ChannelInv /\ [Next]_vars => ChannelInv'
<1> SUFFICES ASSUME ChannelInv, [Next]_vars PROVE ChannelInv'
  OBVIOUS
<1>1. TypeInv /\ PairInv
  BY DEF ChannelInv
<1>2. ASSUME NEW from \in Servers, NEW to \in Servers, OrderPlan(from, to) PROVE ChannelInv'
  BY <1>1, <1>2, OrderPlanStep
<1>3. ASSUME NEW s \in Servers, Step(s) PROVE ChannelInv'
  BY <1>1, <1>3, ApartStep, PendingStep, ConnectedStep DEF PairInv
<1>4. ASSUME NEW s, Die(s) PROVE ChannelInv'
  BY <1>4, ChannelStays DEF Die
<1>5. CASE UNCHANGED vars
  BY <1>5, ChannelStays DEF vars
<1> QED BY <1>2, <1>3, <1>4, <1>5 DEF Next

\* The invariant holds in every reachable state, whatever the sizes of lengths,
\* requests and blocks and however the bytes are cut.
THEOREM ChannelInvariant == Spec => []ChannelInv
BY InitInv, NextInv, PTL DEF Spec

-----------------------------------------------------------------------------
(* What the pair promises                                                   *)

LEMMA InvTakenAsSent == ChannelInv => TakenAsSent
<1> SUFFICES ASSUME ChannelInv PROVE TakenAsSent
  OBVIOUS
<1>1. ASSUME High \in eaten PROVE High \notin context /\ plans = <<>>
  <2>1. Astray
    BY <1>1, Pair DEF ChannelInv, PairInv, Apart, Asking, Answered, Connected
  <2> QED BY <2>1 DEF Astray, Unused
<1>2. ASSUME NEW s \in Servers \ eaten, NEW k \in 1 .. Len(taken[s])
      PROVE  k <= Len(sent[s]) /\ taken[s][k] = Payload(k, sent[s][k].length)
  <2>1. taken[s] # <<>>
    BY <1>2
  <2>2. Connected
    BY <2>1 DEF ChannelInv, PairInv, Apart, Asking, Astray, Answered, Unused
  <2>3. Received(s)
    BY <2>2 DEF Connected, BytesFit
  <2> QED BY <2>3 DEF Received
<1> QED BY <1>1, <1>2 DEF TakenAsSent

LEMMA InvSuccess == ChannelInv => SuccessIsUnpacked
<1> SUFFICES ASSUME ChannelInv PROVE SuccessIsUnpacked
  OBVIOUS
<1>1. CASE Connected
  BY <1>1 DEF Connected
<1>2. CASE Apart
  BY <1>2 DEF Apart, SuccessIsUnpacked
<1>3. CASE Asking \/ Astray \/ Answered
  BY <1>3 DEF Asking, Astray, Answered, Unused, SuccessIsUnpacked
<1> QED BY <1>1, <1>2, <1>3 DEF ChannelInv, PairInv

\* A server to which nothing is on the way holds no part of a length, and one that
\* waits for a block has taken all that were sent.
LEMMA NothingComes ==
  ASSUME TypeInv, NEW s \in Servers, Received(s), wire[s] = <<>>
  PROVE  /\ buffer[s] = <<>>
         /\ blocks[s] = <<>> \/ ~IsWhole(Head(blocks[s])) => Len(sent[s]) = Len(taken[s])
<1> DEFINE sq == sent[s]
           n == Len(taken[s])
           list == blocks[s]
           q == buffer[s]
           L == Len(list)
           b == list[L]
           m == n + L
           S == Len(sq)
<1>1. /\ sq \in Seq(Sent) /\ q \in Seq(AnyByte) /\ list \in Seq(BlockOf(AnyByte)) /\ taken[s] \in Seq(Seq(AnyByte))
  BY NetTypes
<1>2. buffer[s] \o wire[s] = q
  BY <1>1
<1>3. /\ Collecting(sq, n, list, q)
      /\ q # <<>> => Len(q) < HeadBytes /\ list # <<>> /\ b = Fresh
  BY <1>2 DEF Received
<1>4. n \in Nat /\ L \in Nat /\ S \in Nat /\ Len(q) \in Nat /\ HeadBytes \in Nat \ {0}
  <2> HIDE DEF sq, list, q
  <2> QED BY <1>1, Positive
<1>5. /\ InOrder(sq, q)
      /\ \A j \in 1 .. L - 1 : Holds(sq, n + j, list[j]) /\ IsWhole(list[j])
      /\ list = <<>> => Comes(sq, q, n + 1, 1)
      /\ list # <<>> => Goes(sq, m, b, q)
  BY <1>3 DEF Collecting, Goes
<1>6. list # <<>> => Head(list) = list[1] /\ L # 0 /\ b \in BlockOf(AnyByte)
  <2> HIDE DEF list
  <2> QED BY <1>1
<1>7. ~Holds(sq, m, Fresh)
  <2> SUFFICES ASSUME Holds(sq, m, Fresh) PROVE FALSE
    OBVIOUS
  <2>1. m \in 1 .. Len(sq) /\ sq[m].length = 0
    BY DEF Holds, Fresh
  <2> HIDE DEF sq, m
  <2> QED BY <2>1, <1>1, Sizes
<1>8. q = <<>>
  <2> SUFFICES ASSUME q # <<>> PROVE FALSE
    OBVIOUS
  <2>1. Len(q) < HeadBytes /\ list # <<>> /\ b = Fresh
    BY <1>3
  <2>2. q[1] = <<m, 1>>
    BY <2>1, <1>5, <1>7 DEF Goes, Comes
  <2> HIDE DEF sq, m, q, b
  <2>3. 1 \in 1 .. Len(q)
    BY <1>1
  <2>4. m \in 1 .. Len(sq) /\ 1 + SizeOf(sq, m) - 1 <= Len(q)
    BY <2>2, <2>3, <1>5 DEF InOrder
  <2>5. SizeOf(sq, m) \in Nat /\ SizeOf(sq, m) > HeadBytes
    BY <2>4, <1>1, Sizes
  <2> QED BY <2>1, <2>4, <2>5, <1>4
<1>9. ASSUME list = <<>> \/ ~IsWhole(Head(list)) PROVE S = n
  <2> HIDE DEF sq, n, L, b, q, S
  <2>1. CASE list = <<>>
    <3>1. n + 1 = Len(sq) + 1
      BY <2>1, <1>5, <1>8 DEF Comes
    <3> QED BY <3>1, <1>4 DEF S
  <2>2. CASE list # <<>>
    <3>1. L = 1
      <4> SUFFICES ASSUME L # 1 PROVE FALSE
        OBVIOUS
      <4>1. 1 \in 1 .. L - 1
        BY <2>2, <1>4, <1>6
      <4> QED BY <4>1, <2>2, <1>5, <1>6, <1>9
    <3>2. ~IsWhole(b)
      BY <3>1, <2>2, <1>6, <1>9 DEF b
    <3>3. \/ Comes(sq, q, m, 1)
          \/ Comes(sq, q, m, HeadBytes + Len(b.data) + 1)
      BY <2>2, <3>2, <1>5 DEF Goes
    <3>4. Len(b.data) \in Nat
      BY <2>2, <1>6 DEF BlockOf
    <3>5. m = S + 1
      BY <3>3, <1>8 DEF Comes, S
    <3> QED BY <3>1, <3>5, <1>4
  <2> QED BY <2>1, <2>2
<1> QED BY <1>8, <1>9

LEMMA InvHangs == ChannelInv => HangsOnlyByLoss
<1> SUFFICES ASSUME ChannelInv, \A s \in Servers \ dead : AtRest(s), NEW s \in Servers, Waits(s),
                    \A t \in Servers : ~Missed(t) /\ pc[t] # "ended",
                    eaten = {}, dead = {}
             PROVE  FALSE
  BY DEF HangsOnlyByLoss
<1>1. pc[s] \in {"waitBlock", "waitWhole"}
  BY DEF Waits
<1>2. TypeInv /\ Connected
  <2>1. ~Apart
    BY <1>1 DEF Apart
  <2>2. ~(Asking \/ Astray \/ Answered)
    <3>1. s = Low \/ s = High
      BY Pair
    <3> QED BY <3>1, <1>1 DEF Asking, Astray, Answered, Unused
  <2> QED BY <2>1, <2>2 DEF ChannelInv, PairInv
<1>3. PICK p \in Servers : p = Peer(s) /\ p # s /\ Peer(p) = s
  BY Pair
<1>4. ASSUME NEW t \in Servers
      PROVE  /\ Working(t) /\ job[t] \in Nat /\ wire[t] = <<>> /\ Received(t)
             /\ Waits(t) \/ (pc[t] = "idle" /\ orders[t] = <<>>)
             /\ Waits(t) => Len(sent[t]) = job[t] - 1 /\ job[t] \in 1 .. Len(plans)
                            /\ (HasSent(t) <=> IsSource(t))
  <2>1. BytesFit(t) /\ Working(t) /\ job[t] \in Nat /\ Len(plans) \in Nat
    BY <1>2, ConnectedParts
  <2>2. wire[t] = <<>> /\ (Waits(t) \/ (pc[t] = "idle" /\ orders[t] = <<>>))
    BY DEF AtRest
  <2>3. Received(t)
    BY <2>1 DEF BytesFit
  <2>4. ASSUME Waits(t)
        PROVE  Len(sent[t]) = job[t] - 1 /\ job[t] \in 1 .. Len(plans) /\ (HasSent(t) <=> IsSource(t))
    <3>1. pc[t] \in {"waitBlock", "waitWhole"} /\ (blocks[t] = <<>> \/ ~IsWhole(Head(blocks[t])))
      BY <2>4 DEF Waits, Missed
    <3>2. Len(sent[t]) = Len(taken[t])
      BY <3>1, <2>2, <2>3, <1>2, NothingComes
    <3>3. Len(taken[t]) = job[t] - 1 /\ job[t] # 0 /\ job[t] \in 0 .. Len(plans)
      BY <3>1, <2>1 DEF Working, HasTaken
    <3>4. HasSent(t) <=> IsSource(t)
      BY <3>1 DEF HasSent
    <3> QED BY <3>2, <3>3, <3>4, <2>1
  <2> QED BY <2>1, <2>2, <2>3, <2>4
<1> DEFINE i == job[s]
           j == job[p]
           N == Len(plans)
<1>5. /\ i \in Nat /\ j \in Nat /\ N \in Nat /\ i \in 1 .. N /\ Len(sent[s]) = i - 1
      /\ HasSent(s) <=> IsSource(s)
      /\ Len(sent[s]) = IF HasSent(p) THEN j ELSE j - 1
      /\ Len(sent[p]) = IF HasSent(s) THEN i ELSE i - 1
      /\ \A k \in 1 .. N : plans[k] \in [from : Servers, to : Servers]
  <2>1. N \in Nat /\ \A k \in 1 .. N : plans[k] \in [from : Servers, to : Servers]
    BY <1>2, ConnectedParts
  <2> QED BY <2>1, <1>3, <1>4 DEF Working
<1>6. CASE Waits(p)
  <2>1. /\ Len(sent[p]) = j - 1 /\ (HasSent(p) <=> IsSource(p))
    BY <1>4, <1>6
  <2> HIDE DEF i, j
  <2>2. i = j /\ ~HasSent(p) /\ ~HasSent(s)
    BY <2>1, <1>5
  <2>3. ~IsSource(p) /\ ~IsSource(s)
    BY <2>1, <2>2, <1>5
  <2>4. plans[i].from \in Servers
    BY <1>5
  <2>5. plans[i].from = s \/ plans[i].from = p
    BY <2>4, <1>3, Pair
  <2> QED BY <2>2, <2>3, <2>5 DEF IsSource, i, j
<1>7. CASE pc[p] = "idle" /\ orders[p] = <<>>
  <2>1. HasSent(p) /\ Len(orders[p]) = 0
    BY <1>7 DEF HasSent
  <2>2. Len(orders[p]) = N - j
    BY <1>4 DEF Working
  <2> HIDE DEF i, j, N
  <2> QED BY <2>1, <2>2, <1>5
<1> QED BY <1>4, <1>6, <1>7

\* What RecvBlock returns is what was sent, and only a server without a context
\* loses bytes of a request.
THEOREM TakenIsAsSent == Spec => []TakenAsSent
<1>1. Spec => []ChannelInv
  BY ChannelInvariant
<1> QED BY <1>1, InvTakenAsSent, PTL

\* The success that a source tells the ILM is that of its destination.
THEOREM SuccessMeansUnpacked == Spec => []SuccessIsUnpacked
<1>1. Spec => []ChannelInv
  BY ChannelInvariant
<1> QED BY <1>1, InvSuccess, PTL

\* Two servers that hang have lost a signal, bytes, a command thread or a server.
THEOREM HangsByLossOnly == Spec => []HangsOnlyByLoss
<1>1. Spec => []ChannelInv
  BY ChannelInvariant
<1> QED BY <1>1, InvHangs, PTL
=============================================================================
