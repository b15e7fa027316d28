-------------------------- MODULE ConnectionProofs --------------------------
(***************************************************************************)
(* What Connection promises of the messages, for any sizes, capacities and *)
(* chunks: they arrive whole, in order and once, no connection is lost     *)
(* that nobody closes, and with messages of one size two threads never     *)
(* wait for each other in write().                                         *)
(*                                                                         *)
(* What is on the way to a side is one sequence of cells, whichever buffer *)
(* holds them: reading and writing do not change it, sending adds a        *)
(* message at its end and handling takes one from its front.               *)
(***************************************************************************)
EXTENDS Connection, SequenceLemmas, TLAPS

Size1 == Nat \ (0..HeadCells - 1)
Cell  == Nat \X Nat \X Nat
Buffer == [skip : Nat, cells : Seq(Cell)]

TypeInv ==
  /\ inBuf \in [Sides -> Buffer] /\ outBuf \in [Sides -> Buffer]
  /\ socket \in [Sides -> Seq(Cell)]
  /\ pc \in [Sides -> {"wait", "read", "handle", "arm", "write", "gone"}]
  /\ sent \in [Sides -> Seq(Size1)]
  /\ handled \in [Sides -> Seq(Seq(Cell))]
  /\ closed \subseteq Sides
  /\ \A s \in Sides : s \in closed => pc[s] = "gone"

\* The cells on the way to a side
Pipe(p) == inBuf[p].cells \o (socket[p] \o outBuf[Peer(p)].cells)

\* q holds cells <<size, number, place>> of the messages z after the first h: the
\* messages one after the other from the first cell of one on, and each with its
\* cells in their places as far as q goes.
Located(q, z, h) == \A i \in DOMAIN q :
  /\ q[i][2] \in (h + 1)..Len(z) /\ q[i][1] = z[q[i][2]]
  /\ q[i][3] \in 1..q[i][1] /\ q[i][3] <= i
Blocks(q) == \A i \in DOMAIN q : \A j \in 1..q[i][1] :
  (i - q[i][3]) + j <= Len(q) => q[(i - q[i][3]) + j] = <<q[i][1], q[i][2], j>>
Follow(q, z) ==
  /\ \A i \in DOMAIN q : q[i][3] = q[i][1] /\ i < Len(q) => q[i + 1] = <<z[q[i][2] + 1], q[i][2] + 1, 1>>
  /\ \A i, j \in DOMAIN q : i < j => q[i][2] <= q[j][2]
Stream(q, z, h) ==
  /\ h \in 0..Len(z) /\ Located(q, z, h) /\ Blocks(q) /\ Follow(q, z)
  /\ q # <<>> => q[1] = <<z[h + 1], h + 1, 1>>

\* And it ends with the last message.
Whole(q, z, h) == IF q = <<>> THEN h = Len(z) ELSE q[Len(q)] = <<z[Len(z)], Len(z), z[Len(z)]>>

PipeOf(p) ==
  p \notin closed =>
    /\ Stream(Pipe(p), sent[Peer(p)], Len(handled[p]))
    /\ Peer(p) \notin closed => Whole(Pipe(p), sent[Peer(p)], Len(handled[p]))

\* A side has handled what the other sent first.
FramedOf(p) ==
  /\ Len(handled[p]) <= Len(sent[Peer(p)])
  /\ \A i \in DOMAIN handled[p] : handled[p][i] = Cells(sent[Peer(p)][i], i)

\* No buffer holds more than it can, so no message is longer than that, and a
\* callback leaves less than one in the input buffer.
RoomOf(s) ==
  /\ inBuf[s].skip + Len(inBuf[s].cells) <= BufferCells
  /\ outBuf[s].skip + Len(outBuf[s].cells) <= BufferCells
  /\ \A n \in DOMAIN sent[s] : sent[s][n] <= BufferCells
  /\ pc[s] \in {"wait", "arm", "write"} => ~IsComplete(inBuf[s])
  /\ pc[s] = "read" => Free(inBuf[s]) > 0

ConnInv ==
  /\ TypeInv /\ KeepsConnection
  /\ \A s \in Sides : PipeOf(s)
  /\ \A s \in Sides : FramedOf(s)
  /\ \A s \in Sides : RoomOf(s)

-----------------------------------------------------------------------------
(* Sequences of cells                                                      *)

LEMMA SizesPositive == \A x \in Size1 : x \in Nat /\ x >= 2
BY DEF Size1, HeadCells

LEMMA CellsProperties ==
  ASSUME NEW size \in Size1, NEW n \in Nat
  PROVE  /\ Cells(size, n) \in Seq(Cell) /\ Len(Cells(size, n)) = size
         /\ \A j \in 1..size : Cells(size, n)[j] = <<size, n, j>>
<1>1. size \in Nat
  BY SizesPositive
<1>2. \A j \in 1..size : <<size, n, j>> \in Cell
  BY <1>1 DEF Cell
<1> QED BY <1>1, <1>2 DEF Cells

\* A sequence is its front and its back.
LEMMA Cut ==
  ASSUME NEW S, NEW q \in Seq(S), NEW n \in 0..Len(q)
  PROVE  /\ SubSeq(q, 1, n) \in Seq(S) /\ SubSeq(q, n + 1, Len(q)) \in Seq(S)
         /\ Len(SubSeq(q, 1, n)) = n /\ Len(SubSeq(q, n + 1, Len(q))) = Len(q) - n
         /\ \A i \in 1..n : SubSeq(q, 1, n)[i] = q[i]
         /\ \A i \in 1..(Len(q) - n) : SubSeq(q, n + 1, Len(q))[i] = q[n + i]
         /\ SubSeq(q, 1, n) \o SubSeq(q, n + 1, Len(q)) = q
<1> DEFINE f == SubSeq(q, 1, n)
           r == SubSeq(q, n + 1, Len(q))
<1>1. Len(q) \in Nat /\ n \in Int /\ n + 1 \in Int /\ n >= 0 /\ n <= Len(q)
  OBVIOUS
<1>2. \A i \in 1..Len(q) : q[i] \in S
  OBVIOUS
<1>3. f \in Seq(S) /\ Len(f) = n /\ \A i \in 1..n : f[i] = q[i]
  BY <1>1, <1>2
<1>4. r \in Seq(S) /\ Len(r) = Len(q) - n /\ \A i \in 1..(Len(q) - n) : r[i] = q[n + i]
  BY <1>1, <1>2
<1> HIDE DEF f, r
<1>5. /\ f \o r \in Seq(S) /\ Len(f \o r) = Len(f) + Len(r)
      /\ \A i \in 1..(Len(f) + Len(r)) : (f \o r)[i] = IF i <= Len(f) THEN f[i] ELSE r[i - Len(f)]
  BY <1>3, <1>4, ConcatProperties
<1>6. ASSUME NEW i \in 1..Len(q)
      PROVE  (f \o r)[i] = q[i]
  <2>1. i \in 1..(Len(f) + Len(r)) /\ i \in Nat /\ Len(f) = n
    BY <1>1, <1>3, <1>4
  <2>2. (f \o r)[i] = IF i <= n THEN f[i] ELSE r[i - n]
    BY <1>5, <2>1
  <2>3. CASE i <= n
    BY <1>3, <2>2, <2>3
  <2>4. CASE ~ (i <= n)
    <3>1. i - n \in 1..(Len(q) - n) /\ n + (i - n) = i
      BY <1>1, <2>1, <2>4
    <3>2. r[i - n] = q[i]
      BY <1>4, <3>1
    <3> QED BY <2>2, <2>4, <3>2
  <2> QED BY <2>3, <2>4
<1>7. Len(f \o r) = Len(q)
  BY <1>1, <1>3, <1>4, <1>5
<1>8. f \o r = q
  BY <1>5, <1>6, <1>7, SeqEqual
<1> QED BY <1>3, <1>4, <1>8 DEF f, r

\* The same as \o, for leaves that need no more of it than this lemma
Joined(x, y) == x \o y

LEMMA JoinedProperties ==
  /\ \A x, y \in Seq(Cell) : Joined(x, y) \in Seq(Cell)
  /\ \A x, y, z \in Seq(Cell) : Joined(Joined(x, y), z) = Joined(x, Joined(y, z))
<1>1. ASSUME NEW x \in Seq(Cell), NEW y \in Seq(Cell)
      PROVE  Joined(x, y) \in Seq(Cell)
  BY ConcatProperties DEF Joined
<1>2. ASSUME NEW x \in Seq(Cell), NEW y \in Seq(Cell), NEW z \in Seq(Cell)
      PROVE  Joined(Joined(x, y), z) = Joined(x, Joined(y, z))
  BY ConcatAssociative DEF Joined
<1> QED BY <1>1, <1>2

\* Reading moves the front of b behind a, writing the front of c behind b.
Regrouped(a, b, c, n) ==
  /\ (a \o SubSeq(b, 1, n)) \o SubSeq(b, n + 1, Len(b)) = a \o b
  /\ (a \o SubSeq(b, 1, n)) \o (SubSeq(b, n + 1, Len(b)) \o c) = a \o (b \o c)

LEMMA Moved == \A a, b, c \in Seq(Cell) : \A n \in 0..Len(b) : Regrouped(a, b, c, n)
<1> SUFFICES ASSUME NEW a \in Seq(Cell), NEW b \in Seq(Cell), NEW c \in Seq(Cell), NEW n \in 0..Len(b)
             PROVE  Regrouped(a, b, c, n)
  OBVIOUS
<1> DEFINE f == SubSeq(b, 1, n)
           r == SubSeq(b, n + 1, Len(b))
<1>1. f \in Seq(Cell) /\ r \in Seq(Cell) /\ f \o r = b
  BY Cut
<1> HIDE DEF f, r
<1>2. f \in Seq(Cell) /\ r \in Seq(Cell) /\ Joined(f, r) = b
  BY <1>1 DEF Joined
<1>3. Joined(Joined(a, f), r) = Joined(a, b)
  BY <1>2, JoinedProperties
<1>4. Joined(Joined(a, f), Joined(r, c)) = Joined(a, Joined(b, c))
  <2>1. Joined(a, f) \in Seq(Cell)
    BY <1>2, JoinedProperties
  <2>2. Joined(Joined(a, f), Joined(r, c)) = Joined(Joined(Joined(a, f), r), c)
    BY <1>2, <2>1, JoinedProperties
  <2>3. Joined(Joined(a, b), c) = Joined(a, Joined(b, c))
    BY JoinedProperties
  <2> QED BY <1>3, <2>2, <2>3
<1>5. (a \o f) \o r = a \o b /\ (a \o f) \o (r \o c) = a \o (b \o c)
  BY <1>3, <1>4, Zenon DEF Joined
<1> QED BY <1>5, Zenon DEF Regrouped, f, r

\* Handling takes the front of a.
LEMMA Taken ==
  ASSUME NEW S, NEW a \in Seq(S), NEW b \in Seq(S), NEW n \in 0..Len(a)
  PROVE  /\ SubSeq(a, n + 1, Len(a)) \o b = SubSeq(a \o b, n + 1, Len(a \o b))
         /\ SubSeq(a, 1, n) = SubSeq(a \o b, 1, n)
<1> DEFINE r == SubSeq(a, n + 1, Len(a)) \o b
           t == SubSeq(a \o b, n + 1, Len(a \o b))
           f == SubSeq(a, 1, n)
           g == SubSeq(a \o b, 1, n)
<1>1. /\ a \o b \in Seq(S) /\ Len(a \o b) = Len(a) + Len(b) /\ Len(a) \in Nat /\ Len(b) \in Nat
      /\ \A i \in 1..(Len(a) + Len(b)) : (a \o b)[i] = IF i <= Len(a) THEN a[i] ELSE b[i - Len(a)]
  BY ConcatProperties
<1>2. n \in 0..Len(a \o b)
  BY <1>1
<1>3. /\ t \in Seq(S) /\ Len(t) = Len(a) + Len(b) - n /\ g \in Seq(S) /\ Len(g) = n
      /\ \A i \in 1..(Len(a) + Len(b) - n) : t[i] = (a \o b)[n + i]
      /\ \A i \in 1..n : g[i] = (a \o b)[i]
  BY <1>1, <1>2, Cut
<1> DEFINE u == SubSeq(a, n + 1, Len(a))
<1>4. /\ u \in Seq(S) /\ Len(u) = Len(a) - n /\ f \in Seq(S) /\ Len(f) = n
      /\ \A i \in 1..(Len(a) - n) : u[i] = a[n + i]
      /\ \A i \in 1..n : f[i] = a[i]
  BY Cut
<1> HIDE DEF t, u, f, g
<1>5. /\ u \o b \in Seq(S) /\ Len(u \o b) = Len(u) + Len(b)
      /\ \A i \in 1..(Len(u) + Len(b)) : (u \o b)[i] = IF i <= Len(u) THEN u[i] ELSE b[i - Len(u)]
  BY <1>4, ConcatProperties
<1>6. f = g
  <2>1. Len(f) = Len(g) /\ f \in Seq(S) /\ g \in Seq(S)
    BY <1>3, <1>4
  <2>2. ASSUME NEW i \in 1..Len(f)
        PROVE  f[i] = g[i]
    <3>1. i \in 1..n /\ i \in 1..(Len(a) + Len(b)) /\ i <= Len(a)
      BY <1>1, <1>4
    <3>2. f[i] = a[i] /\ g[i] = (a \o b)[i]
      BY <1>3, <1>4, <3>1
    <3> QED BY <1>1, <3>1, <3>2
  <2> QED BY <2>1, <2>2, SeqEqual
<1>7. ASSUME NEW i \in 1..Len(t)
      PROVE  t[i] = (u \o b)[i]
  <2>1. /\ i \in 1..(Len(a) + Len(b) - n) /\ n + i \in 1..(Len(a) + Len(b)) /\ n \in Nat
        /\ Len(u) = Len(a) - n /\ i \in 1..(Len(u) + Len(b))
    BY <1>1, <1>3, <1>4
  <2>2. t[i] = IF n + i <= Len(a) THEN a[n + i] ELSE b[(n + i) - Len(a)]
    BY <1>1, <1>3, <2>1
  <2>3. (u \o b)[i] = IF i <= Len(u) THEN u[i] ELSE b[i - Len(u)]
    BY <1>5, <2>1
  <2>4. CASE n + i <= Len(a)
    <3>1. u[i] = a[n + i] /\ i <= Len(u)
      BY <1>1, <1>4, <2>1, <2>4
    <3> QED BY <2>2, <2>3, <2>4, <3>1
  <2>5. CASE ~ (n + i <= Len(a))
    <3>1. ~ (i <= Len(u)) /\ i - Len(u) = (n + i) - Len(a)
      BY <1>1, <2>1, <2>5
    <3> QED BY <2>2, <2>3, <2>5, <3>1
  <2> QED BY <2>4, <2>5
<1>8. Len(u \o b) = Len(t)
  BY <1>1, <1>3, <1>4, <1>5
<1>9. t = u \o b
  BY <1>3, <1>5, <1>7, <1>8, SeqEqual
<1> QED BY <1>6, <1>9 DEF t, u, f, g

-----------------------------------------------------------------------------
(* The stream of messages                                                  *)

\* A front of a stream is one.
LEMMA StreamFront ==
  ASSUME NEW q \in Seq(Cell), NEW z \in Seq(Size1), NEW h, Stream(q, z, h),
         NEW r \in Seq(Cell), Len(r) <= Len(q), \A i \in 1..Len(r) : r[i] = q[i]
  PROVE  Stream(r, z, h)
<1>1. DOMAIN r = 1..Len(r) /\ DOMAIN q = 1..Len(q) /\ Len(r) \in Nat /\ Len(q) \in Nat
  OBVIOUS
<1>2. \A i \in DOMAIN r : i \in DOMAIN q /\ r[i] = q[i]
  BY <1>1
<1>3. Located(r, z, h)
  BY <1>2 DEF Stream, Located
<1>4. Blocks(r)
  <2> SUFFICES ASSUME NEW i \in DOMAIN r, NEW j \in 1..r[i][1], (i - r[i][3]) + j <= Len(r)
               PROVE  r[(i - r[i][3]) + j] = <<r[i][1], r[i][2], j>>
    BY DEF Blocks
  <2>1. i \in DOMAIN q /\ r[i] = q[i] /\ q[i][3] <= i /\ q[i][3] \in Nat /\ i \in Nat /\ j \in Nat
    BY <1>1, <1>2, <1>3 DEF Located
  <2>2. (i - q[i][3]) + j \in 1..Len(r)
    BY <1>1, <2>1
  <2>3. (i - q[i][3]) + j <= Len(q) /\ j \in 1..q[i][1]
    BY <1>1, <2>1, <2>2
  <2>4. Blocks(q)
    BY DEF Stream
  <2>5. q[(i - q[i][3]) + j] = <<q[i][1], q[i][2], j>>
    BY <2>1, <2>3, <2>4, Zenon DEF Blocks
  <2> QED BY <2>1, <2>2, <2>5
<1>5. Follow(r, z)
  <2>1. ASSUME NEW i \in DOMAIN r, r[i][3] = r[i][1], i < Len(r)
        PROVE  r[i + 1] = <<z[r[i][2] + 1], r[i][2] + 1, 1>>
    <3>1. i + 1 \in 1..Len(r) /\ i \in DOMAIN q /\ i < Len(q)
      BY <1>1, <2>1
    <3>2. r[i] = q[i] /\ r[i + 1] = q[i + 1]
      BY <1>1, <1>2, <3>1
    <3> QED BY <2>1, <3>1, <3>2 DEF Stream, Follow
  <2> QED BY <1>2, <2>1 DEF Stream, Follow
<1>6. r # <<>> => r[1] = <<z[h + 1], h + 1, 1>>
  <2> SUFFICES ASSUME r # <<>>
               PROVE  r[1] = <<z[h + 1], h + 1, 1>>
    OBVIOUS
  <2>1. 1 \in DOMAIN r /\ q # <<>>
    BY <1>1
  <2> QED BY <1>2, <2>1 DEF Stream
<1> QED BY <1>3, <1>4, <1>5, <1>6 DEF Stream

\* The first message of a stream, when all of it is there
LEMMA StreamHead ==
  ASSUME NEW q \in Seq(Cell), NEW z \in Seq(Size1), NEW h, Stream(q, z, h),
         q # <<>>, q[1][1] <= Len(q)
  PROVE  /\ h + 1 \in DOMAIN z /\ q[1][1] = z[h + 1] /\ z[h + 1] \in Size1
         /\ \A j \in 1..z[h + 1] : q[j] = <<z[h + 1], h + 1, j>>
<1>1. DOMAIN q = 1..Len(q) /\ 1 \in DOMAIN q /\ q[1] = <<z[h + 1], h + 1, 1>> /\ h \in Nat
  BY DEF Stream
<1>2. h + 1 \in 1..Len(z) /\ q[1][1] = z[h + 1] /\ q[1][2] = h + 1 /\ q[1][3] = 1
  BY <1>1 DEF Stream, Located
<1>3. z[h + 1] \in Size1 /\ z[h + 1] \in Nat
  BY <1>2, SizesPositive
<1>4. ASSUME NEW j \in 1..z[h + 1]
      PROVE  q[j] = <<z[h + 1], h + 1, j>>
  <2>1. (1 - q[1][3]) + j = j /\ j <= Len(q)
    BY <1>2, <1>3
  <2> QED BY <1>1, <1>2, <2>1 DEF Stream, Blocks
<1> QED BY <1>2, <1>3, <1>4

\* Both for use where a leaf has to find the stream
Headed(q, z, h) ==
  /\ h + 1 \in DOMAIN z /\ q[1][1] = z[h + 1]
  /\ \A j \in 1..z[h + 1] : q[j] = <<z[h + 1], h + 1, j>>

LEMMA StreamHeaded == \A q \in Seq(Cell) : \A z \in Seq(Size1) : \A h \in Nat :
  (Stream(q, z, h) /\ q # <<>> /\ q[1][1] <= Len(q)) => Headed(q, z, h)
BY StreamHead DEF Headed

\* The places of a message's cells when size cells before them are taken
LEMMA Places ==
  \A size, i, k, j, l \in Nat :
    /\ j >= 1 /\ k <= i /\ (i - k) + j <= l => (i - k) + j \in 1..l
    /\ j >= 1 /\ k <= i /\ (i - k) + j <= l => ((size + i) - k) + j <= size + l
    /\ ((size + i) - k) + j = size + ((i - k) + j)
    /\ k <= size + i /\ ~ (k <= i) =>
         ((size + i) - k) + 1 \in 1..size /\ ((size + i) - k) + 1 <= size + l
OBVIOUS

\* Without its first message it is the stream of those that follow.
LEMMA StreamRest ==
  ASSUME NEW q \in Seq(Cell), NEW z \in Seq(Size1), NEW h, Stream(q, z, h),
         q # <<>>, q[1][1] <= Len(q)
  PROVE  LET r == SubSeq(q, q[1][1] + 1, Len(q)) IN
         r \in Seq(Cell) /\ Stream(r, z, h + 1) /\ (Whole(q, z, h) => Whole(r, z, h + 1))
<1> DEFINE size == q[1][1]
           r == SubSeq(q, size + 1, Len(q))
<1>a. h + 1 \in DOMAIN z /\ size = z[h + 1] /\ size \in Size1 /\ \A j \in 1..size : q[j] = <<size, h + 1, j>>
  BY StreamHead
<1>0. size \in Nat /\ size >= 2 /\ size <= Len(q) /\ Len(q) \in Nat
  BY <1>a, SizesPositive
<1>b. /\ r \in Seq(Cell) /\ Len(r) = Len(q) - size
      /\ \A i \in 1..(Len(q) - size) : r[i] = q[size + i]
  <2>1. size \in 0..Len(q)
    BY <1>0
  <2> HIDE DEF size
  <2> QED BY <2>1, Cut
<1>c. h \in Nat /\ Len(z) \in Nat /\ DOMAIN z = 1..Len(z)
  BY DEF Stream
<1> HIDE DEF size, r
<1>1. /\ DOMAIN r = 1..Len(r) /\ DOMAIN q = 1..Len(q) /\ Len(r) \in Nat /\ Len(q) \in Nat
      /\ h \in Nat /\ Len(z) \in Nat /\ h + 1 \in 1..Len(z)
      /\ size \in Nat /\ size >= 2 /\ Len(q) = size + Len(r)
  BY <1>0, <1>a, <1>b, <1>c
<1>2. \A i \in DOMAIN r : size + i \in DOMAIN q /\ r[i] = q[size + i] /\ i \in Nat
  BY <1>1, <1>b
<1>3. size \in DOMAIN q /\ q[size] = <<size, h + 1, size>>
  BY <1>1, <1>a
<1>4. Len(r) > 0 => /\ q[size + 1] = <<z[h + 2], h + 2, 1>> /\ size + 1 \in DOMAIN q
                    /\ q[size + 1][2] = h + 2
  <2> SUFFICES ASSUME Len(r) > 0
               PROVE  /\ q[size + 1] = <<z[h + 2], h + 2, 1>> /\ size + 1 \in DOMAIN q
                      /\ q[size + 1][2] = h + 2
    OBVIOUS
  <2>1. size < Len(q) /\ size + 1 \in DOMAIN q
    BY <1>1
  <2>2. q[size][3] = q[size][1] /\ q[size][2] = h + 1
    BY <1>3
  <2>3. q[size + 1] = <<z[(h + 1) + 1], (h + 1) + 1, 1>>
    BY <1>3, <2>1, <2>2 DEF Stream, Follow
  <2>4. (h + 1) + 1 = h + 2
    BY <1>1
  <2> QED BY <2>1, <2>3, <2>4
<1>5. ASSUME NEW i \in DOMAIN r
      PROVE  /\ r[i][2] \in (h + 2)..Len(z) /\ r[i][1] = z[r[i][2]] /\ r[i][3] \in 1..r[i][1] /\ r[i][3] <= i
             /\ r[i] = q[size + i] /\ size + i \in DOMAIN q /\ i \in Nat /\ r[i][1] \in Nat
  <2>1. size + i \in DOMAIN q /\ r[i] = q[size + i] /\ i \in Nat /\ i >= 1 /\ Len(r) > 0
    BY <1>1, <1>2
  <2>2. /\ r[i][2] \in (h + 1)..Len(z) /\ r[i][1] = z[r[i][2]]
        /\ r[i][3] \in 1..r[i][1] /\ r[i][3] <= size + i
    BY <2>1 DEF Stream, Located
  <2>3. r[i][2] >= h + 2
    <3>1. CASE i = 1
      BY <1>1, <1>4, <2>1, <3>1
    <3>2. CASE i # 1
      <4>1. size + 1 < size + i
        BY <1>1, <2>1, <3>2
      <4>2. q[size + 1][2] <= q[size + i][2]
        BY <1>4, <2>1, <4>1 DEF Stream, Follow
      <4> QED BY <1>4, <2>1, <4>2
    <3> QED BY <3>1, <3>2
  <2>4. r[i][1] \in Nat /\ r[i][2] \in 1..Len(z)
    <3>1. r[i][2] \in 1..Len(z)
      BY <1>1, <2>2
    <3>2. z[r[i][2]] \in Size1
      BY <1>c, <3>1
    <3> QED BY <2>2, <3>1, <3>2, SizesPositive
  <2>5. r[i][3] <= i
    <3> SUFFICES ASSUME ~ (r[i][3] <= i)
                 PROVE  FALSE
      BY <2>2
    <3> DEFINE b == ((size + i) - r[i][3]) + 1
    <3>0. r[i][3] \in Nat /\ 1 \in 1..r[i][1]
      BY <2>2, <2>4
    <3>1. b \in 1..size /\ b <= Len(q)
      <4>1. b \in 1..size /\ b <= size + Len(r)
        <5>1. size \in Nat /\ i \in Nat /\ Len(r) \in Nat /\ r[i][3] <= size + i
          BY <1>1, <2>1, <2>2
        <5> QED BY <3>0, <5>1, Places, Zenon
      <4> HIDE DEF b
      <4> QED BY <1>1, <4>1
    <3>2. q[b] = <<r[i][1], r[i][2], 1>>
      BY <2>1, <3>0, <3>1 DEF Stream, Blocks
    <3> HIDE DEF b
    <3>3. q[b] = <<size, h + 1, b>>
      BY <1>a, <3>1
    <3>4. r[i][2] = h + 1
      BY <3>2, <3>3
    <3> QED BY <1>1, <2>2, <2>3, <3>4
  <2>6. r[i][2] \in (h + 2)..Len(z)
    BY <1>1, <2>2, <2>3
  <2> QED BY <2>1, <2>2, <2>4, <2>5, <2>6
<1>6. (h + 1) + 1 = h + 2 /\ Located(r, z, h + 1)
  <2>1. (h + 1) + 1 = h + 2
    BY <1>1
  <2> QED BY <1>5, <2>1 DEF Located
<1>7. Blocks(r)
  <2> SUFFICES ASSUME NEW i \in DOMAIN r, NEW j \in 1..r[i][1], (i - r[i][3]) + j <= Len(r)
               PROVE  r[(i - r[i][3]) + j] = <<r[i][1], r[i][2], j>>
    BY DEF Blocks
  <2>0. /\ r[i] = q[size + i] /\ size + i \in DOMAIN q /\ i \in Nat
        /\ r[i][3] \in 1..r[i][1] /\ r[i][3] <= i /\ r[i][1] \in Nat
    BY <1>5, Zenon
  <2>1. /\ r[i] = q[size + i] /\ size + i \in DOMAIN q /\ i \in Nat /\ j \in Nat /\ j >= 1
        /\ r[i][3] \in Nat /\ r[i][3] <= i
    BY <2>0
  <2>3. /\ (i - r[i][3]) + j \in DOMAIN r /\ ((size + i) - r[i][3]) + j <= Len(q)
        /\ ((size + i) - r[i][3]) + j = size + ((i - r[i][3]) + j)
    <3>1. size \in Nat /\ i \in Nat /\ Len(r) \in Nat /\ r[i][3] \in Nat /\ j \in Nat /\ j >= 1
      BY <1>1, <2>1
    <3>2. /\ (i - r[i][3]) + j \in 1..Len(r) /\ ((size + i) - r[i][3]) + j <= size + Len(r)
          /\ ((size + i) - r[i][3]) + j = size + ((i - r[i][3]) + j)
      <4>1. r[i][3] <= i /\ (i - r[i][3]) + j <= Len(r)
        BY <2>1
      <4>2. (i - r[i][3]) + j \in 1..Len(r)
        BY <3>1, <4>1, Places, Zenon
      <4>3. ((size + i) - r[i][3]) + j <= size + Len(r)
        BY <3>1, <4>1, Places, Zenon
      <4>4. ((size + i) - r[i][3]) + j = size + ((i - r[i][3]) + j)
        BY <3>1, Places
      <4> QED BY <4>2, <4>3, <4>4
    <3>3. DOMAIN r = 1..Len(r) /\ Len(q) = size + Len(r)
      BY <1>1
    <3> QED BY <3>2, <3>3, Zenon
  <2>4. q[((size + i) - r[i][3]) + j] = <<r[i][1], r[i][2], j>>
    BY <2>1, <2>3 DEF Stream, Blocks
  <2>5. r[(i - r[i][3]) + j] = q[size + ((i - r[i][3]) + j)]
    BY <1>2, <2>3
  <2> QED BY <2>3, <2>4, <2>5
<1>8. Follow(r, z)
  <2>1. ASSUME NEW i \in DOMAIN r, r[i][3] = r[i][1], i < Len(r)
        PROVE  r[i + 1] = <<z[r[i][2] + 1], r[i][2] + 1, 1>>
    <3>1. /\ size + i \in DOMAIN q /\ size + i < Len(q) /\ i + 1 \in 1..Len(r)
          /\ size + (i + 1) = (size + i) + 1
      BY <1>1, <2>1
    <3>2. r[i] = q[size + i] /\ r[i + 1] = q[(size + i) + 1]
      BY <1>2, <3>1
    <3> QED BY <2>1, <3>1, <3>2 DEF Stream, Follow
  <2>2. ASSUME NEW i \in DOMAIN r, NEW j \in DOMAIN r, i < j
        PROVE  r[i][2] <= r[j][2]
    <3>1. size + i \in DOMAIN q /\ size + j \in DOMAIN q /\ size + i < size + j
      BY <1>1, <2>2
    <3> QED BY <1>2, <3>1 DEF Stream, Follow
  <2> QED BY <2>1, <2>2 DEF Follow
<1>9. r # <<>> => r[1] = <<z[(h + 1) + 1], (h + 1) + 1, 1>>
  <2> SUFFICES ASSUME r # <<>>
               PROVE  r[1] = <<z[h + 2], h + 2, 1>>
    BY <1>6
  <2>1. Len(r) > 0 /\ 1 \in DOMAIN r
    BY <1>1, <1>b
  <2>2. r[1] = q[size + 1]
    BY <1>2, <2>1
  <2> QED BY <1>4, <2>1, <2>2
<1>10. h + 1 \in 0..Len(z)
  BY <1>1
<1>11. Stream(r, z, h + 1)
  BY <1>6, <1>7, <1>8, <1>9, <1>10 DEF Stream
<1>12. Whole(q, z, h) => Whole(r, z, h + 1)
  <2> SUFFICES ASSUME q[Len(q)] = <<z[Len(z)], Len(z), z[Len(z)]>>
               PROVE  Whole(r, z, h + 1)
    BY DEF Whole
  <2>1. CASE r = <<>>
    <3>1. Len(q) = size
      BY <1>1, <2>1
    <3> QED BY <1>3, <2>1, <3>1 DEF Whole
  <2>2. CASE r # <<>>
    <3>1. Len(r) \in DOMAIN r /\ size + Len(r) = Len(q)
      BY <1>1, <1>b, <2>2
    <3>2. r[Len(r)] = q[Len(q)]
      BY <1>2, <3>1
    <3> QED BY <2>2, <3>2 DEF Whole
  <2> QED BY <2>1, <2>2
<1> QED BY <1>b, <1>11, <1>12 DEF size, r

Beheaded(q, z, h, r) ==
  /\ r = SubSeq(q, q[1][1] + 1, Len(q)) /\ Stream(r, z, h + 1)
  /\ Whole(q, z, h) => Whole(r, z, h + 1)

LEMMA StreamBeheaded == \A q \in Seq(Cell) : \A z \in Seq(Size1) : \A h \in Nat :
  (Stream(q, z, h) /\ q # <<>> /\ q[1][1] <= Len(q)) => \E r : Beheaded(q, z, h, r)
<1> SUFFICES ASSUME NEW q \in Seq(Cell), NEW z \in Seq(Size1), NEW h \in Nat,
                    Stream(q, z, h), q # <<>>, q[1][1] <= Len(q)
             PROVE  Beheaded(q, z, h, SubSeq(q, q[1][1] + 1, Len(q)))
  BY Zenon
<1> QED BY StreamRest DEF Beheaded

\* How much of a message that does not end in a sequence is there
LEMMA Cutoff ==
  \A i, k, j, l, x \in Nat :
    /\ k >= 1 /\ i <= l /\ i - k \in Nat /\ j <= x /\ ~ ((i - k) + j <= l) => l - (i - k) \in 1..x
    /\ k >= 1 /\ i <= l /\ i - k \in Nat /\ j <= x /\ ~ ((i - k) + j <= l) => l - (i - k) < j
OBVIOUS

\* A message more at the end
LEMMA StreamAppend ==
  ASSUME NEW q \in Seq(Cell), NEW z \in Seq(Size1), NEW h, Stream(q, z, h), Whole(q, z, h),
         NEW size \in Size1
  PROVE  LET r == q \o Cells(size, Len(z) + 1)
             y == Append(z, size)
         IN r \in Seq(Cell) /\ Stream(r, y, h) /\ Whole(r, y, h)
<1> DEFINE n == Len(z) + 1
           c == Cells(size, n)
           r == q \o c
           y == Append(z, size)
<1>1. n \in Nat /\ size \in Nat /\ size >= 2 /\ Len(z) \in Nat /\ Len(q) \in Nat /\ h \in 0..Len(z)
  BY SizesPositive DEF Stream
<1>2. c \in Seq(Cell) /\ Len(c) = size /\ \A j \in 1..size : c[j] = <<size, n, j>>
  BY <1>1, CellsProperties
<1>3. y \in Seq(Size1) /\ Len(y) = n /\ y[n] = size /\ \A i \in 1..Len(z) : y[i] = z[i]
  BY <1>1
<1>4. n = Len(z) + 1
  OBVIOUS
<1> HIDE DEF n, c, y
<1>5. /\ r \in Seq(Cell) /\ Len(r) = Len(q) + Len(c)
      /\ \A i \in 1..(Len(q) + Len(c)) : r[i] = IF i <= Len(q) THEN q[i] ELSE c[i - Len(q)]
  BY <1>2, ConcatProperties
<1> HIDE DEF r
<1>6. DOMAIN r = 1..(Len(q) + size) /\ Len(r) = Len(q) + size /\ DOMAIN q = 1..Len(q)
  BY <1>2, <1>5
<1>7. \A i \in DOMAIN q : r[i] = q[i] /\ i \in DOMAIN r
  BY <1>1, <1>2, <1>5, <1>6
<1>8. ASSUME NEW j \in 1..size
      PROVE  r[Len(q) + j] = <<size, n, j>> /\ Len(q) + j \in DOMAIN r
  <2>1. Len(q) + j \in 1..(Len(q) + Len(c)) /\ ~ (Len(q) + j <= Len(q)) /\ (Len(q) + j) - Len(q) = j
    BY <1>1, <1>2
  <2>2. r[Len(q) + j] = c[j]
    BY <1>5, <2>1
  <2> QED BY <1>2, <1>6, <2>1, <2>2
<1>9. ASSUME NEW i \in DOMAIN r
      PROVE  i \in DOMAIN q \/ \E j \in 1..size : i = Len(q) + j
  <2>1. i \in Nat /\ i >= 1 /\ i <= Len(q) + size
    BY <1>1, <1>6
  <2>2. CASE i <= Len(q)
    BY <1>6, <2>1, <2>2
  <2>3. CASE ~ (i <= Len(q))
    <3>1. i - Len(q) \in 1..size /\ i = Len(q) + (i - Len(q))
      BY <1>1, <2>1, <2>3
    <3> QED BY <3>1, Zenon
  <2> QED BY <2>2, <2>3
<1>10. ASSUME NEW i \in DOMAIN q
       PROVE  /\ q[i][2] \in (h + 1)..Len(z) /\ q[i][1] = z[q[i][2]] /\ q[i][1] = y[q[i][2]]
              /\ q[i][3] \in 1..q[i][1] /\ q[i][3] <= i /\ q[i][2] \in Nat /\ q[i][1] \in Nat
              /\ q[i][3] \in Nat /\ i \in Nat
  <2>1. q[i][2] \in (h + 1)..Len(z) /\ q[i][1] = z[q[i][2]] /\ q[i][3] \in 1..q[i][1] /\ q[i][3] <= i
    BY DEF Stream, Located
  <2>2. q[i][2] \in 1..Len(z) /\ q[i][2] \in Nat /\ i \in Nat
    BY <1>1, <1>6, <2>1
  <2>3. z[q[i][2]] \in Size1
    BY <2>2
  <2>4. q[i][1] \in Nat
    BY <2>1, <2>3, SizesPositive
  <2> QED BY <1>3, <2>1, <2>2, <2>4
<1>11. Located(r, y, h)
  <2> SUFFICES ASSUME NEW i \in DOMAIN r
               PROVE  /\ r[i][2] \in (h + 1)..Len(y) /\ r[i][1] = y[r[i][2]]
                      /\ r[i][3] \in 1..r[i][1] /\ r[i][3] <= i
    BY DEF Located
  <2>1. CASE i \in DOMAIN q
    <3>1. q[i][2] \in (h + 1)..Len(y)
      BY <1>1, <1>3, <1>4, <1>10, <2>1
    <3> QED BY <1>7, <1>10, <2>1, <3>1
  <2>2. ASSUME NEW j \in 1..size, i = Len(q) + j
        PROVE  /\ r[i][2] \in (h + 1)..Len(y) /\ r[i][1] = y[r[i][2]]
               /\ r[i][3] \in 1..r[i][1] /\ r[i][3] <= i
    <3>1. r[i][1] = size /\ r[i][2] = n /\ r[i][3] = j
      BY <1>8, <2>2
    <3>2. n \in (h + 1)..Len(y) /\ j <= i
      BY <1>1, <1>3, <1>4, <2>2
    <3> QED BY <1>3, <3>1, <3>2
  <2> QED BY <1>9, <2>1, <2>2
<1>12. Blocks(r)
  <2> SUFFICES ASSUME NEW i \in DOMAIN r, NEW j \in 1..r[i][1], (i - r[i][3]) + j <= Len(r)
               PROVE  r[(i - r[i][3]) + j] = <<r[i][1], r[i][2], j>>
    BY DEF Blocks
  <2>1. CASE i \in DOMAIN q
    <3>1. r[i] = q[i] /\ j \in 1..q[i][1] /\ j \in Nat /\ j >= 1 /\ i - q[i][3] \in Nat /\ i <= Len(q)
      BY <1>6, <1>7, <1>10, <2>1
    <3>2. CASE (i - q[i][3]) + j <= Len(q)
      <4>1. (i - q[i][3]) + j \in DOMAIN q
        BY <1>1, <1>6, <3>1, <3>2
      <4>2. q[(i - q[i][3]) + j] = <<q[i][1], q[i][2], j>>
        BY <2>1, <3>1, <3>2 DEF Stream, Blocks
      <4> QED BY <1>7, <3>1, <4>1, <4>2
    <3>3. CASE ~ ((i - q[i][3]) + j <= Len(q))
      <4> DEFINE k == Len(q) - (i - q[i][3])
      <4>1. k \in 1..q[i][1] /\ k < j /\ (i - q[i][3]) + k = Len(q)
        <5>1. q[i][3] \in Nat /\ q[i][3] >= 1 /\ i \in Nat /\ q[i][1] \in Nat /\ j <= q[i][1]
          BY <1>10, <2>1, <3>1
        <5>2. i - q[i][3] \in Nat /\ i <= Len(q) /\ Len(q) \in Nat /\ j \in Nat
          BY <1>1, <3>1
        <5>3. k \in 1..q[i][1]
          BY <3>3, <5>1, <5>2, Cutoff, Zenon
        <5>4. k < j
          BY <3>3, <5>1, <5>2, Cutoff, Zenon
        <5>5. (i - q[i][3]) + k = Len(q)
          <6>1. \A x, l \in Nat : x + (l - x) = l
            OBVIOUS
          <6> QED BY <5>2, <6>1, Zenon
        <5> QED BY <5>3, <5>4, <5>5
      <4> HIDE DEF k
      <4>2. q[Len(q)] = <<q[i][1], q[i][2], k>>
        <5>1. (i - q[i][3]) + k <= Len(q)
          BY <1>1, <4>1
        <5>2. q[(i - q[i][3]) + k] = <<q[i][1], q[i][2], k>>
          BY <2>1, <4>1, <5>1 DEF Stream, Blocks
        <5> QED BY <4>1, <5>2
      <4>3. q[Len(q)] = <<z[Len(z)], Len(z), z[Len(z)]>>
        <5>1. q # <<>>
          BY <2>1
        <5> QED BY <5>1 DEF Whole
      <4>4. k = q[i][1]
        BY <4>2, <4>3
      <4>5. k \in Nat /\ j \in Nat /\ j <= k
        BY <3>1, <4>1, <4>4, <1>10, <2>1
      <4> QED BY <4>1, <4>5
    <3> QED BY <3>2, <3>3
  <2>2. ASSUME NEW k \in 1..size, i = Len(q) + k
        PROVE  r[(i - r[i][3]) + j] = <<r[i][1], r[i][2], j>>
    <3>1. r[i][1] = size /\ r[i][2] = n /\ r[i][3] = k
      BY <1>8, <2>2
    <3>2. (i - k) + j = Len(q) + j /\ j \in 1..size
      BY <1>1, <2>2, <3>1
    <3> QED BY <1>8, <3>1, <3>2
  <2> QED BY <1>9, <2>1, <2>2
<1>13. q # <<>> => /\ q[Len(q)][2] = Len(z) /\ q[Len(q)][3] = q[Len(q)][1] /\ Len(q) \in DOMAIN q
  <2>1. q # <<>> => q[Len(q)] = <<z[Len(z)], Len(z), z[Len(z)]>> /\ Len(q) \in DOMAIN q
    BY <1>1, <1>6 DEF Whole
  <2> QED BY <2>1
<1>14. r[Len(q) + 1] = <<size, n, 1>> /\ Len(q) + 1 \in DOMAIN r
  BY <1>1, <1>8
<1>15. ASSUME NEW i \in DOMAIN r, r[i][3] = r[i][1], i < Len(r)
       PROVE  r[i + 1] = <<y[r[i][2] + 1], r[i][2] + 1, 1>>
  <2>1. CASE i \in DOMAIN q /\ i < Len(q)
    <3>1. r[i] = q[i] /\ i + 1 \in DOMAIN q
      BY <1>1, <1>6, <1>7, <2>1
    <3>2. q[i + 1] = <<z[q[i][2] + 1], q[i][2] + 1, 1>> /\ r[i + 1] = q[i + 1]
      BY <1>7, <1>15, <2>1, <3>1 DEF Stream, Follow
    <3>3. q[i][2] + 1 \in 1..Len(z)
      <4>1. q[i + 1][2] = q[i][2] + 1 /\ q[i + 1][2] \in (h + 1)..Len(z)
        BY <1>10, <3>1, <3>2
      <4> QED BY <1>1, <4>1
    <3> QED BY <1>3, <3>1, <3>2, <3>3
  <2>2. CASE i \in DOMAIN q /\ ~ (i < Len(q))
    <3>1. i = Len(q) /\ q # <<>>
      BY <1>1, <1>6, <2>2
    <3>2. r[i][2] = Len(z)
      BY <1>7, <1>13, <2>2, <3>1
    <3> QED BY <1>3, <1>4, <1>14, <3>1, <3>2
  <2>3. ASSUME NEW j \in 1..size, i = Len(q) + j
        PROVE  FALSE
    <3>1. r[i][1] = size /\ r[i][3] = j
      BY <1>8, <2>3
    <3>2. j = size
      BY <1>15, <3>1
    <3> QED BY <1>1, <1>6, <1>15, <2>3, <3>2
  <2> QED BY <1>9, <2>1, <2>2, <2>3
<1>16. ASSUME NEW i \in DOMAIN r, NEW j \in DOMAIN r, i < j
       PROVE  r[i][2] <= r[j][2]
  <2>0. n \in Nat /\ n <= n
    BY <1>1
  <2>1. CASE j \in DOMAIN q
    <3>1. i \in DOMAIN q
      BY <1>1, <1>6, <1>16, <2>1
    <3> QED BY <1>7, <1>16, <2>1, <3>1 DEF Stream, Follow
  <2>2. ASSUME NEW k \in 1..size, j = Len(q) + k
        PROVE  r[i][2] <= n /\ r[j][2] = n
    <3>1. r[j][2] = n
      BY <1>8, <2>2
    <3>2. CASE i \in DOMAIN q
      <4>1. q[i][2] \in Nat /\ q[i][2] <= Len(z)
        BY <1>1, <1>10, <3>2
      <4>2. q[i][2] <= n
        BY <1>1, <1>4, <4>1
      <4> QED BY <1>7, <3>1, <3>2, <4>2
    <3>3. ASSUME NEW l \in 1..size, i = Len(q) + l
          PROVE  r[i][2] = n
      BY <1>8, <3>3
    <3> QED BY <1>9, <2>0, <3>1, <3>2, <3>3
  <2> QED BY <1>9, <2>1, <2>2
<1>17. Follow(r, y)
  BY <1>15, <1>16 DEF Follow
<1>18. r[1] = <<y[h + 1], h + 1, 1>>
  <2>1. CASE q = <<>>
    <3>1. Len(q) = 0 /\ h = Len(z)
      BY <2>1 DEF Whole
    <3>2. h + 1 = n /\ Len(q) + 1 = 1
      BY <1>1, <1>4, <3>1
    <3> QED BY <1>3, <1>14, <3>2
  <2>2. CASE q # <<>>
    <3>1. 1 \in DOMAIN q /\ q[1] = <<z[h + 1], h + 1, 1>>
      BY <1>1, <1>6, <2>2 DEF Stream
    <3>2. q[1][2] = h + 1 /\ q[1][2] \in (h + 1)..Len(z)
      BY <1>10, <3>1
    <3>3. h + 1 \in 1..Len(z)
      BY <1>1, <3>2
    <3> QED BY <1>3, <1>7, <3>1, <3>3
  <2> QED BY <2>1, <2>2
<1>19. h \in 0..Len(y)
  BY <1>1, <1>3, <1>4
<1>20. Stream(r, y, h)
  BY <1>11, <1>12, <1>17, <1>18, <1>19 DEF Stream
<1>21. Whole(r, y, h)
  <2>1. r # <<>> /\ r[Len(r)] = <<size, n, size>>
    BY <1>1, <1>6, <1>8
  <2> QED BY <1>3, <2>1 DEF Whole
<1> QED BY <1>5, <1>20, <1>21 DEF r, c, n, y

-----------------------------------------------------------------------------
(* The two sides                                                           *)

LEMMA PeerProperties ==
  ASSUME NEW s \in Sides
  PROVE  /\ Peer(s) \in Sides /\ Peer(s) # s /\ Peer(Peer(s)) = s
         /\ \A t \in Sides : t = s \/ t = Peer(s)
<1>1. PICK a, b \in Sides : a # b /\ Sides = {a, b}
  BY ConnectionAssumption
<1>2. ASSUME NEW x \in Sides
      PROVE  Peer(x) \in Sides /\ Peer(x) # x
  <2>1. \E p \in Sides : p # x
    BY <1>1
  <2> QED BY <2>1 DEF Peer
<1>3. \A x, y \in Sides : x # y => Sides = {x, y}
  BY <1>1
<1> QED BY <1>2, <1>3

LEMMA Capacities ==
  /\ BufferCells \in Nat /\ BufferCells > 0 /\ SocketCells \in Nat /\ Chunk \in Nat /\ Chunk > 0
  /\ \A s \in Sides : Sizes[s] \in Seq(Size1)
BY ConnectionAssumption DEF Size1

-----------------------------------------------------------------------------
(* What an action changes                                                  *)

\* What s sends: nothing, its buffer only moved to the front, or one message.
Moves(s) == outBuf'[s].cells = outBuf[s].cells /\ sent'[s] = sent[s]
Adds(s) == \E size \in Size1 :
  /\ outBuf'[s].cells = outBuf[s].cells \o Cells(size, Len(sent[s]) + 1)
  /\ sent'[s] = Append(sent[s], size) /\ size <= BufferCells
OthersSend(s) == \A t \in Sides : t # s => outBuf'[t] = outBuf[t] /\ sent'[t] = sent[t]
SendTyped == outBuf' \in [Sides -> Buffer] /\ sent' \in [Sides -> Seq(Size1)]
OutRoom(s) == outBuf'[s].skip + Len(outBuf'[s].cells) <= BufferCells

LEMMA BufferProperties ==
  ASSUME TypeInv, NEW s \in Sides
  PROVE  /\ inBuf[s].skip \in Nat /\ inBuf[s].cells \in Seq(Cell)
         /\ outBuf[s].skip \in Nat /\ outBuf[s].cells \in Seq(Cell)
         /\ socket[s] \in Seq(Cell) /\ sent[s] \in Seq(Size1) /\ handled[s] \in Seq(Seq(Cell))
         /\ inBuf[s] = [skip |-> inBuf[s].skip, cells |-> inBuf[s].cells]
         /\ outBuf[s] = [skip |-> outBuf[s].skip, cells |-> outBuf[s].cells]
BY DEF TypeInv, Buffer

LEMMA Aligned == \A buf \in Buffer : AlignLeft(buf) = [skip |-> 0, cells |-> buf.cells]
BY DEF AlignLeft, Buffer

LEMMA NewCells == \A buf \in Buffer : \A q : [buf EXCEPT !.cells = q] = [skip |-> buf.skip, cells |-> q]
BY DEF Buffer

LEMMA Appended ==
  ASSUME NEW S, NEW q \in Seq(S), NEW x \in S
  PROVE  /\ Append(q, x) \in Seq(S) /\ Len(Append(q, x)) = Len(q) + 1 /\ Len(q) \in Nat
         /\ Append(q, x)[Len(q) + 1] = x /\ DOMAIN Append(q, x) = 1..(Len(q) + 1) /\ DOMAIN q = 1..Len(q)
         /\ \A i \in 1..Len(q) : Append(q, x)[i] = q[i]
OBVIOUS

\* Put, whatever fits
LEMMA PutEffect ==
  ASSUME TypeInv, NEW s \in Sides, RoomOf(s), MaySend(s), Put(s, Size(s))
  PROVE  SendTyped /\ OthersSend(s) /\ OutRoom(s) /\ (Moves(s) \/ Adds(s))
<1> DEFINE size == Sizes[s][Len(sent[s]) + 1]
           new == outBuf[s].cells \o Cells(size, Len(sent[s]) + 1)
<1>1. /\ outBuf \in [Sides -> Buffer] /\ sent \in [Sides -> Seq(Size1)]
      /\ outBuf[s].cells \in Seq(Cell) /\ outBuf[s].skip \in Nat /\ sent[s] \in Seq(Size1)
  BY BufferProperties DEF TypeInv
<1>2. size \in Size1 /\ size \in Nat /\ Len(sent[s]) + 1 \in Nat
  <2>1. Len(sent[s]) \in Nat /\ Len(sent[s]) < Len(Sizes[s]) /\ Sizes[s] \in Seq(Size1)
    BY <1>1, Capacities DEF MaySend
  <2>2. Len(sent[s]) + 1 \in 1..Len(Sizes[s])
    BY <2>1
  <2>3. size \in Size1
    BY <2>1, <2>2
  <2> QED BY <2>1, <2>3, SizesPositive
<1>3. Put(s, size)
  BY DEF Size
<1> HIDE DEF size
<1>4. CASE Free(AlignLeft(outBuf[s])) >= size
  <2>1. /\ outBuf' = [outBuf EXCEPT ![s] = [skip |-> 0, cells |-> new]]
        /\ sent' = [sent EXCEPT ![s] = Append(sent[s], size)]
    BY <1>1, <1>3, <1>4 DEF Put
  <2>2. Len(outBuf[s].cells) + size <= BufferCells
    <3>1. AlignLeft(outBuf[s]).skip = 0 /\ AlignLeft(outBuf[s]).cells = outBuf[s].cells
      BY <1>1, Aligned
    <3>2. Free(AlignLeft(outBuf[s])) = BufferCells - 0 - Len(outBuf[s].cells)
      BY <3>1 DEF Free
    <3> DEFINE l == Len(outBuf[s].cells)
    <3>3. l \in Nat /\ BufferCells \in Nat /\ size \in Nat /\ BufferCells - 0 - l >= size
      BY <1>1, <1>2, <1>4, <3>2, Capacities
    <3> HIDE DEF l
    <3>4. l + size <= BufferCells
      BY <3>3
    <3> QED BY <3>4 DEF l
  <2>3. new \in Seq(Cell) /\ Len(new) = Len(outBuf[s].cells) + size
    <3>1. Cells(size, Len(sent[s]) + 1) \in Seq(Cell) /\ Len(Cells(size, Len(sent[s]) + 1)) = size
      BY <1>2, CellsProperties
    <3> DEFINE x == outBuf[s].cells
               d == Cells(size, Len(sent[s]) + 1)
    <3>2. x \in Seq(Cell) /\ d \in Seq(Cell) /\ Len(d) = size
      BY <1>1, <3>1
    <3> HIDE DEF x, d
    <3>3. x \o d \in Seq(Cell) /\ Len(x \o d) = Len(x) + size
      BY <3>2, ConcatProperties
    <3> QED BY <3>3, Zenon DEF x, d, new
  <2> HIDE DEF new
  <2>4. outBuf'[s] = [skip |-> 0, cells |-> new] /\ sent'[s] = Append(sent[s], size)
    BY <1>1, <2>1
  <2>5. [skip |-> 0, cells |-> new] \in Buffer
    BY <2>3 DEF Buffer
  <2>6. Append(sent[s], size) \in Seq(Size1)
    BY <1>1, <1>2
  <2>7. SendTyped
    BY <1>1, <2>1, <2>5, <2>6 DEF SendTyped
  <2>8. OthersSend(s)
    BY <1>1, <2>1 DEF OthersSend
  <2>9. OutRoom(s)
    BY <1>1, <1>2, <2>2, <2>3, <2>4, Capacities DEF OutRoom
  <2>10. Adds(s)
    <3>1. size <= BufferCells
      BY <1>1, <1>2, <2>2, Capacities
    <3>2. outBuf'[s].cells = outBuf[s].cells \o Cells(size, Len(sent[s]) + 1)
      <4>1. outBuf'[s].cells = new
        BY <2>4
      <4> QED BY <4>1, Zenon DEF new
    <3> QED BY <1>2, <2>4, <3>1, <3>2 DEF Adds
  <2> QED BY <2>7, <2>8, <2>9, <2>10
<1>5. CASE ~ (Free(AlignLeft(outBuf[s])) >= size)
  <2>1. outBuf' = [outBuf EXCEPT ![s] = AlignLeft(outBuf[s])] /\ sent' = sent
    BY <1>1, <1>3, <1>5 DEF Put
  <2>2. AlignLeft(outBuf[s]) = [skip |-> 0, cells |-> outBuf[s].cells]
    BY <1>1, Aligned
  <2>3. outBuf'[s] = [skip |-> 0, cells |-> outBuf[s].cells]
    BY <1>1, <2>1, <2>2
  <2>4. SendTyped /\ OthersSend(s) /\ Moves(s)
    BY <1>1, <2>1, <2>2, <2>3 DEF SendTyped, OthersSend, Moves, Buffer
  <2>5. OutRoom(s)
    <3>1. outBuf[s].skip + Len(outBuf[s].cells) <= BufferCells
      BY DEF RoomOf
    <3> QED BY <1>1, <2>3, <3>1, Capacities DEF OutRoom
  <2> QED BY <2>4, <2>5
<1> QED BY <1>4, <1>5

-----------------------------------------------------------------------------
(* The way to a side                                                       *)

LEMMA PipeTyped ==
  ASSUME TypeInv, NEW p \in Sides
  PROVE  /\ Pipe(p) \in Seq(Cell) /\ socket[p] \o outBuf[Peer(p)].cells \in Seq(Cell)
         /\ sent[Peer(p)] \in Seq(Size1) /\ Len(handled[p]) \in Nat
<1>1. Peer(p) \in Sides
  BY PeerProperties
<1>2. /\ inBuf[p].cells \in Seq(Cell) /\ socket[p] \in Seq(Cell) /\ outBuf[Peer(p)].cells \in Seq(Cell)
      /\ sent[Peer(p)] \in Seq(Size1) /\ handled[p] \in Seq(Seq(Cell))
  BY <1>1, BufferProperties
<1>3. socket[p] \o outBuf[Peer(p)].cells \in Seq(Cell)
  BY <1>2, ConcatProperties
<1>4. Pipe(p) \in Seq(Cell)
  BY <1>2, <1>3, ConcatProperties DEF Pipe
<1> QED BY <1>2, <1>3, <1>4

\* The same cells in other buffers are the same stream.
LEMMA PipeKept ==
  ASSUME NEW p \in Sides, PipeOf(p), Pipe(p)' = Pipe(p), closed' = closed,
         sent'[Peer(p)] = sent[Peer(p)], handled'[p] = handled[p]
  PROVE  PipeOf(p)'
BY DEF PipeOf

\* What s sends is put at the end of the way to its peer.
LEMMA PipeSent ==
  ASSUME TypeInv, NEW s \in Sides, s \notin closed, closed' = closed, Moves(s) \/ Adds(s),
         PipeOf(Peer(s)), inBuf'[Peer(s)].cells = inBuf[Peer(s)].cells, socket'[Peer(s)] = socket[Peer(s)],
         handled'[Peer(s)] = handled[Peer(s)]
  PROVE  PipeOf(Peer(s))'
<1>0. PICK p \in Sides : p = Peer(s) /\ Peer(p) = s
  BY PeerProperties
<1>1. CASE Moves(s)
  <2>1. Pipe(p)' = Pipe(p)
    BY <1>0, <1>1 DEF Pipe, Moves
  <2>2. sent'[Peer(p)] = sent[Peer(p)]
    BY <1>0, <1>1 DEF Moves
  <2> QED BY <1>0, <2>1, <2>2, PipeKept
<1>2. CASE Adds(s)
  <2>1. PICK size \in Size1 : /\ outBuf'[s].cells = outBuf[s].cells \o Cells(size, Len(sent[s]) + 1)
                              /\ sent'[s] = Append(sent[s], size)
    BY <1>2 DEF Adds
  <2>2. /\ inBuf[p].cells \in Seq(Cell) /\ socket[p] \in Seq(Cell) /\ outBuf[s].cells \in Seq(Cell)
        /\ sent[s] \in Seq(Size1) /\ Len(sent[s]) + 1 \in Nat
    <3>1. /\ inBuf[p].cells \in Seq(Cell) /\ socket[p] \in Seq(Cell) /\ outBuf[s].cells \in Seq(Cell)
          /\ sent[s] \in Seq(Size1)
      BY BufferProperties, Zenon
    <3>2. Len(sent[s]) \in Nat
      BY <3>1
    <3> QED BY <3>1, <3>2
  <2>3. Pipe(p)' = Pipe(p) \o Cells(size, Len(sent[s]) + 1)
    <3> DEFINE d == Cells(size, Len(sent[s]) + 1)
    <3>1. d \in Seq(Cell)
      BY <2>2, CellsProperties
    <3>2. Pipe(p)' = inBuf[p].cells \o (socket[p] \o (outBuf[s].cells \o d))
      BY <1>0, <2>1 DEF Pipe
    <3>3. Pipe(p) = inBuf[p].cells \o (socket[p] \o outBuf[s].cells)
      BY <1>0 DEF Pipe
    <3> HIDE DEF d
    <3> DEFINE x == inBuf[p].cells
               y == socket[p]
               u == outBuf[s].cells
    <3>4. x \in Seq(Cell) /\ y \in Seq(Cell) /\ u \in Seq(Cell)
      BY <2>2
    <3> HIDE DEF x, y, u
    <3>5. Joined(y, u) \in Seq(Cell)
      BY <3>4, JoinedProperties
    <3>6. (y \o u) \o d = y \o (u \o d)
      <4>1. Joined(Joined(y, u), d) = Joined(y, Joined(u, d))
        BY <3>1, <3>4, JoinedProperties
      <4> QED BY <4>1, Zenon DEF Joined
    <3>7. (x \o (y \o u)) \o d = x \o ((y \o u) \o d)
      <4>1. Joined(Joined(x, Joined(y, u)), d) = Joined(x, Joined(Joined(y, u), d))
        BY <3>1, <3>4, <3>5, JoinedProperties
      <4> QED BY <4>1, Zenon DEF Joined
    <3>8. Pipe(p)' = Pipe(p) \o d
      BY <3>2, <3>3, <3>6, <3>7 DEF x, y, u
    <3> QED BY <3>8 DEF d
  <2>4. ASSUME p \notin closed
        PROVE  /\ Stream(Pipe(p)', sent'[s], Len(handled[p]))
               /\ Whole(Pipe(p)', sent'[s], Len(handled[p]))
    <3>1. Stream(Pipe(p), sent[s], Len(handled[p])) /\ Whole(Pipe(p), sent[s], Len(handled[p]))
      BY <1>0, <2>4 DEF PipeOf
    <3>2. Pipe(p) \in Seq(Cell)
      BY PipeTyped
    <3> QED BY <2>1, <2>2, <2>3, <3>1, <3>2, StreamAppend, Zenon
  <2> QED BY <1>0, <2>4 DEF PipeOf
<1> QED BY <1>1, <1>2

\* What a closed side had not written is gone.
LEMMA PipeClosed ==
  ASSUME TypeInv, NEW s \in Sides, closed' = closed \cup {s}, outBuf'[s].cells = <<>>,
         PipeOf(Peer(s)), inBuf'[Peer(s)].cells = inBuf[Peer(s)].cells, socket'[Peer(s)] = socket[Peer(s)],
         sent' = sent, handled' = handled
  PROVE  PipeOf(s)' /\ PipeOf(Peer(s))'
<1>0. PICK p \in Sides : p = Peer(s) /\ Peer(p) = s /\ p # s
  BY PeerProperties
<1>1. PipeOf(s)'
  BY DEF PipeOf
<1>2. /\ inBuf[p].cells \in Seq(Cell) /\ socket[p] \in Seq(Cell) /\ outBuf[s].cells \in Seq(Cell)
      /\ sent[s] \in Seq(Size1)
  BY BufferProperties, Zenon
<1> DEFINE a == inBuf[p].cells
           b == socket[p]
           c == outBuf[s].cells
           q == a \o (b \o c)
           r == a \o (b \o <<>>)
<1>3. Pipe(p) = q /\ Pipe(p)' = r
  BY <1>0 DEF Pipe
<1>4. a \in Seq(Cell) /\ b \in Seq(Cell) /\ c \in Seq(Cell)
  BY <1>2
<1> HIDE DEF a, b, c
<1>5. b \o <<>> = b
  BY <1>4, ConcatEmptySeq
<1>6. /\ b \o c \in Seq(Cell) /\ Len(b \o c) = Len(b) + Len(c) /\ Len(b) \in Nat /\ Len(c) \in Nat /\ Len(a) \in Nat
      /\ \A i \in 1..(Len(b) + Len(c)) : (b \o c)[i] = IF i <= Len(b) THEN b[i] ELSE c[i - Len(b)]
  BY <1>4, ConcatProperties
<1>7. /\ q \in Seq(Cell) /\ Len(q) = Len(a) + Len(b \o c)
      /\ \A i \in 1..(Len(a) + Len(b \o c)) : q[i] = IF i <= Len(a) THEN a[i] ELSE (b \o c)[i - Len(a)]
  BY <1>4, <1>6, ConcatProperties
<1>8. /\ a \o b \in Seq(Cell) /\ Len(a \o b) = Len(a) + Len(b)
      /\ \A i \in 1..(Len(a) + Len(b)) : (a \o b)[i] = IF i <= Len(a) THEN a[i] ELSE b[i - Len(a)]
  BY <1>4, ConcatProperties
<1>9. r = a \o b
  BY <1>5
<1> HIDE DEF q, r
<1>10. Len(r) <= Len(q)
  BY <1>6, <1>7, <1>8, <1>9
<1>11. ASSUME NEW i \in 1..Len(r)
       PROVE  r[i] = q[i]
  <2>1. i \in 1..(Len(a) + Len(b)) /\ i \in 1..(Len(a) + Len(b \o c))
    BY <1>6, <1>8, <1>9
  <2>2. r[i] = IF i <= Len(a) THEN a[i] ELSE b[i - Len(a)]
    BY <1>8, <1>9, <2>1
  <2>3. q[i] = IF i <= Len(a) THEN a[i] ELSE (b \o c)[i - Len(a)]
    BY <1>7, <2>1
  <2>4. CASE i <= Len(a)
    BY <2>2, <2>3, <2>4
  <2>5. CASE ~ (i <= Len(a))
    <3>1. i - Len(a) \in 1..(Len(b) + Len(c)) /\ i - Len(a) <= Len(b)
      BY <1>6, <2>1, <2>5
    <3>2. (b \o c)[i - Len(a)] = b[i - Len(a)]
      BY <1>6, <3>1
    <3> QED BY <2>2, <2>3, <2>5, <3>2
  <2> QED BY <2>4, <2>5
<1>12. r \in Seq(Cell)
  BY <1>8, <1>9
<1>13. ASSUME p \notin closed
       PROVE  Stream(Pipe(p)', sent[s], Len(handled[p]))
  <2>1. Stream(q, sent[s], Len(handled[p]))
    BY <1>0, <1>3, <1>13 DEF PipeOf
  <2>2. Stream(r, sent[s], Len(handled[p]))
    BY <1>2, <1>7, <1>10, <1>11, <1>12, <2>1, StreamFront
  <2> QED BY <1>3, <2>2
<1>14. PipeOf(p)'
  BY <1>0, <1>13 DEF PipeOf
<1> QED BY <1>0, <1>1, <1>14

\* The first cell in an input buffer is the first of the next message, which fits.
LEMMA FirstCell ==
  ASSUME TypeInv, NEW s \in Sides, s \notin closed, PipeOf(s), RoomOf(Peer(s)), inBuf[s].cells # <<>>
  PROVE  /\ inBuf[s].cells[1][1] \in Size1 /\ inBuf[s].cells[1][1] <= BufferCells
         /\ Pipe(s) # <<>> /\ Pipe(s)[1] = inBuf[s].cells[1]
         /\ Len(inBuf[s].cells) <= Len(Pipe(s)) /\ Len(inBuf[s].cells) \in Nat /\ Len(inBuf[s].cells) > 0
<1> DEFINE a == inBuf[s].cells
           b == socket[s] \o outBuf[Peer(s)].cells
           q == Pipe(s)
           z == sent[Peer(s)]
           h == Len(handled[s])
<1>1. a \in Seq(Cell) /\ b \in Seq(Cell) /\ q \in Seq(Cell) /\ z \in Seq(Size1) /\ h \in Nat
  BY BufferProperties, PipeTyped, Zenon
<1>2. q = a \o b
  BY DEF Pipe
<1>3. Stream(q, z, h)
  BY DEF PipeOf
<1>4. \A n \in DOMAIN z : z[n] <= BufferCells
  BY DEF RoomOf
<1>5. a # <<>>
  OBVIOUS
<1> HIDE DEF a, b, q, z, h
<1>6. Len(a) \in Nat /\ Len(a) > 0 /\ Len(b) \in Nat
  BY <1>1, <1>5
<1>7. Len(q) = Len(a) + Len(b) /\ \A i \in 1..(Len(a) + Len(b)) : q[i] = IF i <= Len(a) THEN a[i] ELSE b[i - Len(a)]
  BY <1>1, <1>2, ConcatProperties
<1>8. q[1] = a[1]
  BY <1>6, <1>7
<1>9. q # <<>> /\ 1 \in DOMAIN q
  BY <1>1, <1>6, <1>7
<1>10. q[1] = <<z[h + 1], h + 1, 1>>
  BY <1>3, <1>9 DEF Stream
<1>11. q[1][2] \in (h + 1)..Len(z) /\ q[1][2] = h + 1 /\ q[1][1] = z[h + 1]
  BY <1>3, <1>9, <1>10 DEF Stream, Located
<1>12. h + 1 \in DOMAIN z /\ z[h + 1] \in Size1
  BY <1>1, <1>11
<1>13. a[1][1] = z[h + 1] /\ z[h + 1] <= BufferCells
  BY <1>4, <1>8, <1>11, <1>12
<1>14. Len(a) <= Len(q)
  BY <1>6, <1>7
<1> QED BY <1>6, <1>8, <1>9, <1>12, <1>13, <1>14 DEF a, b, q, z, h

\* Less than a message leaves room to read.
LEMMA RoomToRead ==
  ASSUME TypeInv, NEW s \in Sides, s \notin closed, PipeOf(s), RoomOf(Peer(s)), ~ IsComplete(inBuf[s])
  PROVE  Free(AlignLeft(inBuf[s])) > 0
<1> DEFINE a == inBuf[s].cells
           size == a[1][1]
<1>1. a \in Seq(Cell) /\ inBuf[s] \in Buffer
  BY BufferProperties DEF TypeInv
<1>2. AlignLeft(inBuf[s]).skip = 0 /\ AlignLeft(inBuf[s]).cells = a
  BY <1>1, Aligned
<1>3. Len(a) < BufferCells
  <2>1. CASE a = <<>>
    BY <2>1, Capacities
  <2>2. CASE a # <<>>
    <3>1. size \in Size1 /\ size <= BufferCells /\ Len(a) \in Nat
      BY <2>2, FirstCell
    <3>2. ~ (Len(a) >= 2 /\ Len(a) >= size)
      BY DEF IsComplete, HeadCells
    <3>3. size \in Nat /\ size >= 2
      BY <3>1, SizesPositive
    <3> HIDE DEF a, size
    <3> QED BY <3>1, <3>2, <3>3, Capacities
  <2> QED BY <2>1, <2>2
<1>4. Len(a) \in Nat
  BY <1>1
<1> QED BY <1>2, <1>3, <1>4, Capacities DEF Free

\* A message more sent to a side leaves what it handled as it is.
LEMMA FramedKept ==
  ASSUME TypeInv, NEW s \in Sides, FramedOf(s), handled'[s] = handled[s],
         \/ sent'[Peer(s)] = sent[Peer(s)]
         \/ \E size \in Size1 : sent'[Peer(s)] = Append(sent[Peer(s)], size)
  PROVE  FramedOf(s)'
<1>1. CASE sent'[Peer(s)] = sent[Peer(s)]
  BY <1>1 DEF FramedOf
<1>2. ASSUME NEW size \in Size1, sent'[Peer(s)] = Append(sent[Peer(s)], size)
      PROVE  FramedOf(s)'
  <2> DEFINE z == sent[Peer(s)]
             y == Append(z, size)
             g == handled[s]
  <2>1. z \in Seq(Size1) /\ g \in Seq(Seq(Cell))
    BY PeerProperties, BufferProperties, Zenon
  <2>2. Len(g) <= Len(z) /\ \A i \in DOMAIN g : g[i] = Cells(z[i], i)
    BY DEF FramedOf
  <2> HIDE DEF z, g
  <2>3. Len(y) = Len(z) + 1 /\ Len(z) \in Nat /\ \A i \in 1..Len(z) : y[i] = z[i]
    BY <2>1, Appended
  <2> HIDE DEF y
  <2>4. Len(g) \in Nat /\ DOMAIN g = 1..Len(g)
    BY <2>1
  <2>5. Len(g) <= Len(y) /\ \A i \in DOMAIN g : g[i] = Cells(y[i], i)
    BY <2>2, <2>3, <2>4
  <2> QED BY <1>2, <2>5 DEF FramedOf, z, g, y
<1> QED BY <1>1, <1>2

LEMMA RoomKept ==
  ASSUME NEW s \in Sides, RoomOf(s), inBuf'[s] = inBuf[s], outBuf'[s] = outBuf[s],
         sent'[s] = sent[s], pc'[s] = pc[s]
  PROVE  RoomOf(s)'
BY DEF RoomOf, IsComplete, Free

\* Only the sizes sent matter to a side when what it has read stays.
LEMMA RoomSent ==
  ASSUME TypeInv, NEW s \in Sides, RoomOf(s), Moves(s) \/ Adds(s)
  PROVE  \A n \in DOMAIN (sent'[s]) : sent'[s][n] <= BufferCells
<1>1. CASE Moves(s)
  BY <1>1 DEF Moves, RoomOf
<1>2. CASE Adds(s)
  <2>1. PICK size \in Size1 : sent'[s] = Append(sent[s], size) /\ size <= BufferCells
    BY <1>2 DEF Adds
  <2> DEFINE z == sent[s]
             y == Append(z, size)
  <2>2. z \in Seq(Size1)
    BY BufferProperties, Zenon
  <2>3. \A n \in DOMAIN z : z[n] <= BufferCells
    BY DEF RoomOf
  <2> HIDE DEF z
  <2>4. /\ Len(y) = Len(z) + 1 /\ Len(z) \in Nat /\ y[Len(z) + 1] = size
        /\ DOMAIN y = 1..(Len(z) + 1) /\ DOMAIN z = 1..Len(z) /\ \A i \in 1..Len(z) : y[i] = z[i]
    BY <2>2, Appended
  <2>5. \A n \in DOMAIN y : y[n] <= BufferCells
    <3> SUFFICES ASSUME NEW n \in 1..(Len(z) + 1)
                 PROVE  y[n] <= BufferCells
      BY <2>4
    <3>1. n \in 1..Len(z) \/ n = Len(z) + 1
      BY <2>4
    <3> QED BY <2>1, <2>3, <2>4, <3>1
  <2> QED BY <2>1, <2>5 DEF z
<1> QED BY <1>1, <1>2

-----------------------------------------------------------------------------
(* The steps                                                               *)

\* Nothing but what s sends concerns its peer.
OthersStay(s) == \A t \in Sides : t # s =>
  inBuf'[t] = inBuf[t] /\ handled'[t] = handled[t] /\ pc'[t] = pc[t]

LEMMA PeerKept ==
  ASSUME ConnInv, NEW s \in Sides, s \notin closed, closed' = closed, socket' = socket,
         OthersStay(s), OthersSend(s), Moves(s) \/ Adds(s)
  PROVE  PipeOf(Peer(s))' /\ FramedOf(Peer(s))' /\ RoomOf(Peer(s))'
<1>0. PICK p \in Sides : p = Peer(s) /\ Peer(p) = s /\ p # s
  BY PeerProperties
<1>1. /\ inBuf'[p] = inBuf[p] /\ handled'[p] = handled[p] /\ pc'[p] = pc[p] /\ socket'[p] = socket[p]
      /\ outBuf'[p] = outBuf[p] /\ sent'[p] = sent[p]
  BY <1>0 DEF OthersStay, OthersSend
<1>2. TypeInv /\ PipeOf(p) /\ FramedOf(p) /\ RoomOf(p)
  BY DEF ConnInv
<1>3. PipeOf(Peer(s))'
  <2>1. PipeOf(Peer(s)) /\ inBuf'[Peer(s)].cells = inBuf[Peer(s)].cells /\ socket'[Peer(s)] = socket[Peer(s)]
        /\ handled'[Peer(s)] = handled[Peer(s)]
    BY <1>0, <1>1, <1>2
  <2> QED BY <1>2, <2>1, PipeSent
<1>4. FramedOf(p)'
  <2>1. \/ sent'[Peer(p)] = sent[Peer(p)]
        \/ \E size \in Size1 : sent'[Peer(p)] = Append(sent[Peer(p)], size)
    BY <1>0 DEF Moves, Adds
  <2> QED BY <1>1, <1>2, <2>1, FramedKept
<1>5. RoomOf(p)'
  BY <1>1, <1>2, RoomKept
<1> QED BY <1>0, <1>3, <1>4, <1>5

\* An action that moves no cell, apart from what it sends
LEMMA QuietStep ==
  ASSUME ConnInv, NEW s \in Sides, s \notin closed, closed' = closed, mayClose' = mayClose,
         socket' = socket, handled' = handled, inBuf'[s].cells = inBuf[s].cells,
         OthersStay(s), OthersSend(s), Moves(s) \/ Adds(s), TypeInv', RoomOf(s)'
  PROVE  ConnInv'
<1>1. PipeOf(Peer(s))' /\ FramedOf(Peer(s))' /\ RoomOf(Peer(s))'
  BY PeerKept
<1>2. TypeInv /\ PipeOf(s) /\ FramedOf(s)
  BY DEF ConnInv
<1>3. outBuf'[Peer(s)] = outBuf[Peer(s)] /\ sent'[Peer(s)] = sent[Peer(s)]
  BY PeerProperties DEF OthersSend
<1>4. Pipe(s)' = Pipe(s)
  BY <1>3 DEF Pipe
<1>5. PipeOf(s)'
  BY <1>2, <1>3, <1>4, PipeKept
<1>6. FramedOf(s)'
  BY <1>2, <1>3, FramedKept
<1>7. KeepsConnection'
  BY DEF ConnInv, KeepsConnection
<1>8. \A t \in Sides : t = s \/ t = Peer(s)
  BY PeerProperties
<1>9. \A t \in Sides : PipeOf(t)' /\ FramedOf(t)' /\ RoomOf(t)'
  BY <1>1, <1>5, <1>6, <1>8
<1> QED BY <1>7, <1>9 DEF ConnInv

LEMMA OpenUnlessGone ==
  ASSUME ConnInv, NEW s \in Sides, pc[s] # "gone"
  PROVE  s \notin closed /\ TypeInv /\ RoomOf(s) /\ PipeOf(s) /\ RoomOf(Peer(s))
BY PeerProperties DEF ConnInv, TypeInv

LEMMA SendStep ==
  ASSUME ConnInv, NEW s \in Sides, Send(s), mayClose' = mayClose
  PROVE  ConnInv'
<1>1. s \notin closed /\ TypeInv /\ RoomOf(s)
  BY OpenUnlessGone DEF Send
<1>2. MaySend(s) /\ Put(s, Size(s))
  BY DEF Send
<1>3. inBuf' = inBuf /\ socket' = socket /\ pc' = pc /\ handled' = handled /\ closed' = closed
  BY DEF Send
<1>4. SendTyped /\ OthersSend(s) /\ OutRoom(s) /\ (Moves(s) \/ Adds(s))
  BY <1>1, <1>2, PutEffect
<1>5. TypeInv'
  BY <1>1, <1>3, <1>4 DEF TypeInv, SendTyped
<1>6. RoomOf(s)'
  <2>1. \A n \in DOMAIN (sent'[s]) : sent'[s][n] <= BufferCells
    BY <1>1, <1>4, RoomSent
  <2> QED BY <1>1, <1>3, <1>4, <2>1 DEF RoomOf, OutRoom, IsComplete, Free
<1>7. OthersStay(s)
  BY <1>3 DEF OthersStay
<1> QED BY <1>1, <1>3, <1>4, <1>5, <1>6, <1>7, QuietStep

LEMMA WaitStep ==
  ASSUME ConnInv, NEW s \in Sides, Wait(s), mayClose' = mayClose
  PROVE  ConnInv'
<1>1. s \notin closed /\ TypeInv /\ RoomOf(s) /\ PipeOf(s) /\ RoomOf(Peer(s)) /\ pc[s] = "wait"
  BY OpenUnlessGone DEF Wait
<1>2. outBuf' = outBuf /\ socket' = socket /\ sent' = sent /\ handled' = handled /\ closed' = closed
  BY DEF Wait
<1>3. inBuf \in [Sides -> Buffer] /\ inBuf[s] \in Buffer /\ pc \in [Sides -> {"wait", "read", "handle", "arm", "write", "gone"}]
  BY <1>1 DEF TypeInv
<1>4. AlignLeft(inBuf[s]) = [skip |-> 0, cells |-> inBuf[s].cells]
  BY <1>3, Aligned
<1>5. \/ /\ inBuf' = [inBuf EXCEPT ![s] = AlignLeft(inBuf[s])]
         /\ pc' = [pc EXCEPT ![s] = "read"]
      \/ /\ inBuf' = inBuf
         /\ pc' = [pc EXCEPT ![s] = "arm"] \/ pc' = [pc EXCEPT ![s] = "wait"]
  <2>1. inBuf' = [inBuf EXCEPT ![s] = IF "in" \in Happens(s) \cap mask[s] THEN AlignLeft(inBuf[s]) ELSE inBuf[s]]
    BY <1>3 DEF Wait
  <2>2. pc' = [pc EXCEPT ![s] = IF "in" \in Happens(s) \cap mask[s] THEN "read"
                               ELSE IF "out" \in Happens(s) \cap mask[s] THEN "arm" ELSE "wait"]
    BY DEF Wait
  <2>3. [inBuf EXCEPT ![s] = inBuf[s]] = inBuf
    BY <1>3
  <2> QED BY <2>1, <2>2, <2>3
<1>6. ~ IsComplete(inBuf[s])
  BY <1>1 DEF RoomOf
<1>7. inBuf[s].skip \in Nat /\ Len(inBuf[s].cells) \in Nat /\ inBuf[s].cells \in Seq(Cell)
  <2>1. inBuf[s].skip \in Nat /\ inBuf[s].cells \in Seq(Cell)
    BY <1>3 DEF Buffer
  <2> QED BY <2>1
<1>8. OthersSend(s) /\ Moves(s)
  BY <1>2 DEF OthersSend, Moves
<1>9. CASE inBuf' = [inBuf EXCEPT ![s] = AlignLeft(inBuf[s])] /\ pc' = [pc EXCEPT ![s] = "read"]
  <2>1. inBuf'[s] = AlignLeft(inBuf[s]) /\ inBuf'[s].cells = inBuf[s].cells /\ inBuf'[s].skip = 0 /\ pc'[s] = "read"
    BY <1>3, <1>4, <1>9
  <2>2. TypeInv'
    <3>1. [skip |-> 0, cells |-> inBuf[s].cells] \in Buffer
      BY <1>7 DEF Buffer
    <3>2. inBuf' \in [Sides -> Buffer]
      BY <1>3, <1>4, <1>9, <3>1
    <3> QED BY <1>1, <1>2, <1>9, <3>2 DEF TypeInv
  <2>3. OthersStay(s)
    BY <1>2, <1>3, <1>9 DEF OthersStay
  <2>4. RoomOf(s)'
    <3>1. Free(AlignLeft(inBuf[s])) > 0
      BY <1>1, <1>6, RoomToRead
    <3>2. Free(inBuf[s])' > 0
      BY <2>1, <3>1 DEF Free
    <3>3. (inBuf[s].skip + Len(inBuf[s].cells) <= BufferCells)'
      BY <1>1, <1>7, <2>1, Capacities DEF RoomOf
    <3> QED BY <1>1, <1>2, <2>1, <3>2, <3>3 DEF RoomOf
  <2> QED BY <1>1, <1>2, <1>8, <2>1, <2>2, <2>3, <2>4, QuietStep
<1>10. CASE inBuf' = inBuf /\ (pc' = [pc EXCEPT ![s] = "arm"] \/ pc' = [pc EXCEPT ![s] = "wait"])
  <2>1. pc'[s] \in {"arm", "wait"} /\ \A t \in Sides : t # s => pc'[t] = pc[t]
    BY <1>3, <1>10
  <2>2. TypeInv'
    BY <1>1, <1>2, <1>10 DEF TypeInv
  <2>3. OthersStay(s)
    BY <1>2, <1>10, <2>1 DEF OthersStay
  <2>4. RoomOf(s)'
    BY <1>1, <1>2, <1>6, <1>10, <2>1 DEF RoomOf, IsComplete
  <2> QED BY <1>1, <1>2, <1>8, <1>10, <2>2, <2>3, <2>4, QuietStep
<1> QED BY <1>5, <1>9, <1>10

LEMMA ReadNoMoreStep ==
  ASSUME ConnInv, NEW s \in Sides, ReadNoMore(s), mayClose' = mayClose
  PROVE  ConnInv'
<1>1. s \notin closed /\ TypeInv /\ RoomOf(s)
  BY OpenUnlessGone DEF ReadNoMore
<1>2. /\ inBuf' = inBuf /\ outBuf' = outBuf /\ socket' = socket /\ sent' = sent /\ handled' = handled
      /\ closed' = closed /\ pc' = [pc EXCEPT ![s] = "handle"]
  BY DEF ReadNoMore
<1>3. TypeInv' /\ pc'[s] = "handle" /\ \A t \in Sides : t # s => pc'[t] = pc[t]
  BY <1>1, <1>2 DEF TypeInv
<1>4. OthersSend(s) /\ Moves(s) /\ OthersStay(s)
  BY <1>2, <1>3 DEF OthersSend, Moves, OthersStay
<1>5. RoomOf(s)'
  BY <1>1, <1>2, <1>3 DEF RoomOf
<1> QED BY <1>1, <1>2, <1>3, <1>4, <1>5, QuietStep

LEMMA HandledStep ==
  ASSUME ConnInv, NEW s \in Sides, Handled(s), mayClose' = mayClose
  PROVE  ConnInv'
<1>1. s \notin closed /\ TypeInv /\ RoomOf(s) /\ ~ IsComplete(inBuf[s])
  BY OpenUnlessGone DEF Handled
<1>2. /\ inBuf' = inBuf /\ outBuf' = outBuf /\ socket' = socket /\ sent' = sent /\ handled' = handled
      /\ closed' = closed /\ pc' = [pc EXCEPT ![s] = "arm"]
  BY DEF Handled
<1>3. TypeInv' /\ pc'[s] = "arm" /\ \A t \in Sides : t # s => pc'[t] = pc[t]
  BY <1>1, <1>2 DEF TypeInv
<1>4. OthersSend(s) /\ Moves(s) /\ OthersStay(s)
  BY <1>2, <1>3 DEF OthersSend, Moves, OthersStay
<1>5. RoomOf(s)'
  BY <1>1, <1>2, <1>3 DEF RoomOf, IsComplete
<1> QED BY <1>1, <1>2, <1>3, <1>4, <1>5, QuietStep

LEMMA ArmStep ==
  ASSUME ConnInv, NEW s \in Sides, Arm(s), mayClose' = mayClose
  PROVE  ConnInv'
<1>1. s \notin closed /\ TypeInv /\ RoomOf(s) /\ ~ IsComplete(inBuf[s])
  BY OpenUnlessGone DEF Arm, RoomOf
<1>2. /\ inBuf' = inBuf /\ outBuf' = outBuf /\ socket' = socket /\ sent' = sent /\ handled' = handled
      /\ closed' = closed /\ pc' = [pc EXCEPT ![s] = IF IsComplete(outBuf[s]) THEN "write" ELSE "wait"]
  BY DEF Arm
<1>3. TypeInv' /\ pc'[s] \in {"write", "wait"} /\ \A t \in Sides : t # s => pc'[t] = pc[t]
  BY <1>1, <1>2 DEF TypeInv
<1>4. OthersSend(s) /\ Moves(s) /\ OthersStay(s)
  BY <1>2, <1>3 DEF OthersSend, Moves, OthersStay
<1>5. RoomOf(s)'
  BY <1>1, <1>2, <1>3 DEF RoomOf, IsComplete
<1> QED BY <1>1, <1>2, <1>3, <1>4, <1>5, QuietStep

LEMMA WrittenStep ==
  ASSUME ConnInv, NEW s \in Sides, Written(s), mayClose' = mayClose
  PROVE  ConnInv'
<1>1. s \notin closed /\ TypeInv /\ RoomOf(s) /\ ~ IsComplete(inBuf[s]) /\ outBuf[s].cells = <<>>
  BY OpenUnlessGone DEF Written, RoomOf
<1>2. /\ inBuf' = inBuf /\ outBuf' = [outBuf EXCEPT ![s] = Empty] /\ socket' = socket /\ sent' = sent
      /\ handled' = handled /\ closed' = closed /\ pc' = [pc EXCEPT ![s] = "wait"]
  BY DEF Written
<1>3. Empty \in Buffer /\ Empty.cells = <<>> /\ Empty.skip = 0
  BY DEF Empty, Buffer
<1>4. TypeInv' /\ pc'[s] = "wait" /\ outBuf'[s] = Empty
  BY <1>1, <1>2, <1>3 DEF TypeInv
<1>5. \A t \in Sides : t # s => pc'[t] = pc[t] /\ outBuf'[t] = outBuf[t]
  BY <1>1, <1>2 DEF TypeInv
<1>6. OthersSend(s) /\ Moves(s) /\ OthersStay(s)
  BY <1>1, <1>2, <1>3, <1>4, <1>5 DEF OthersSend, Moves, OthersStay
<1>7. RoomOf(s)'
  <2>1. 0 + Len(<<>>) <= BufferCells
    BY Capacities
  <2>2. (outBuf[s].skip + Len(outBuf[s].cells) <= BufferCells)'
    BY <1>3, <1>4, <2>1
  <2> QED BY <1>1, <1>2, <1>4, <2>2 DEF RoomOf, IsComplete
<1> QED BY <1>1, <1>2, <1>4, <1>6, <1>7, QuietStep

LEMMA MinOfThree ==
  ASSUME NEW x \in Int, NEW y \in Int, NEW z \in Int
  PROVE  LET m == Min({x, y, z}) IN m \in {x, y, z} /\ m <= x /\ m <= y /\ m <= z
<1>1. \E m \in {x, y, z} : \A k \in {x, y, z} : m <= k
  OBVIOUS
<1> QED BY <1>1 DEF Min

\* Cells go from the socket to the input buffer.
LEMMA ReadChunkStep ==
  ASSUME ConnInv, NEW s \in Sides, ReadChunk(s), mayClose' = mayClose
  PROVE  ConnInv'
<1> DEFINE n == Min({Chunk, Free(inBuf[s]), Len(socket[s])})
           a == inBuf[s].cells
           b == socket[s]
           c == outBuf[Peer(s)].cells
           room == Free(inBuf[s]) - n
<1>0. PICK p \in Sides : p = Peer(s) /\ Peer(p) = s /\ p # s /\ \A t \in Sides : t = s \/ t = p
  BY PeerProperties
<1>1. s \notin closed /\ TypeInv /\ RoomOf(s) /\ PipeOf(s) /\ PipeOf(p) /\ FramedOf(s) /\ FramedOf(p) /\ RoomOf(p)
  BY OpenUnlessGone DEF ReadChunk, ConnInv
<1>2. a \in Seq(Cell) /\ b \in Seq(Cell) /\ c \in Seq(Cell) /\ inBuf[s].skip \in Nat /\ inBuf[s] \in Buffer
  BY <1>0, <1>1 DEF TypeInv, Buffer
<1>3. /\ inBuf' = [inBuf EXCEPT ![s] = [inBuf[s] EXCEPT !.cells = a \o SubSeq(b, 1, n)]]
      /\ socket' = [socket EXCEPT ![s] = SubSeq(b, n + 1, Len(b))]
      /\ pc' = [pc EXCEPT ![s] = IF room = 0 THEN "handle" ELSE "read"]
      /\ outBuf' = outBuf /\ sent' = sent /\ handled' = handled /\ closed' = closed /\ n > 0
  BY DEF ReadChunk
<1>4. n \in Nat /\ n <= Len(b) /\ n <= Free(inBuf[s]) /\ Free(inBuf[s]) \in Int
  <2>1. Free(inBuf[s]) \in Int /\ Len(b) \in Int /\ Chunk \in Int
    BY <1>2, Capacities DEF Free
  <2>2. n \in {Chunk, Free(inBuf[s]), Len(b)} /\ n <= Len(b) /\ n <= Free(inBuf[s])
    BY <2>1, MinOfThree
  <2> HIDE DEF n
  <2> QED BY <1>3, <2>1, <2>2
<1> HIDE DEF n
<1> DEFINE f == SubSeq(b, 1, n)
           r == SubSeq(b, n + 1, Len(b))
<1>5. f \in Seq(Cell) /\ r \in Seq(Cell) /\ Len(f) = n
  <2>1. n \in 0..Len(b)
    BY <1>2, <1>4
  <2> QED BY <1>2, <2>1, Cut
<1>6. (a \o f) \o (r \o c) = a \o (b \o c)
  <2>1. n \in 0..Len(b)
    BY <1>2, <1>4
  <2>2. a \in Seq(Cell) /\ b \in Seq(Cell) /\ c \in Seq(Cell)
    BY <1>2
  <2> HIDE DEF a, b, c
  <2>3. Regrouped(a, b, c, n)
    BY <2>1, <2>2, Moved
  <2> QED BY <2>3, Zenon DEF Regrouped, f, r
<1>7. a \o f \in Seq(Cell) /\ Len(a \o f) = Len(a) + n
  BY <1>2, <1>5, ConcatProperties
<1>8. [inBuf[s] EXCEPT !.cells = a \o f] = [skip |-> inBuf[s].skip, cells |-> a \o f]
  <2> HIDE DEF f
  <2> QED BY <1>2, NewCells
<1>9. inBuf' = [inBuf EXCEPT ![s] = [skip |-> inBuf[s].skip, cells |-> a \o f]] /\ socket' = [socket EXCEPT ![s] = r]
  BY <1>3, <1>8
<1> HIDE DEF f, r
<1>10. /\ inBuf'[s].cells = a \o f /\ inBuf'[s].skip = inBuf[s].skip /\ socket'[s] = r
       /\ inBuf'[p] = inBuf[p] /\ socket'[p] = socket[p]
  BY <1>0, <1>1, <1>9 DEF TypeInv
<1>11. pc'[s] = (IF room = 0 THEN "handle" ELSE "read") /\ pc'[p] = pc[p]
  BY <1>0, <1>1, <1>3 DEF TypeInv
<1>12. TypeInv'
  <2>1. [skip |-> inBuf[s].skip, cells |-> a \o f] \in Buffer
    BY <1>2, <1>7 DEF Buffer
  <2>2. inBuf' \in [Sides -> Buffer]
    BY <1>1, <1>9, <2>1 DEF TypeInv
  <2>3. socket' \in [Sides -> Seq(Cell)]
    BY <1>1, <1>5, <1>9 DEF TypeInv
  <2>4. /\ pc' \in [Sides -> {"wait", "read", "handle", "arm", "write", "gone"}]
        /\ \A t \in Sides : t \in closed' => pc'[t] = "gone"
    BY <1>1, <1>3 DEF TypeInv
  <2> QED BY <1>1, <1>3, <2>2, <2>3, <2>4 DEF TypeInv
<1>13. PipeOf(s)' /\ PipeOf(p)'
  <2>1. Pipe(s)' = Pipe(s)
    <3>1. Pipe(s)' = (a \o f) \o (r \o c)
      BY <1>3, <1>10 DEF Pipe
    <3>2. Pipe(s) = a \o (b \o c)
      BY DEF Pipe
    <3> QED BY <1>6, <3>1, <3>2
  <2>2. Pipe(p)' = Pipe(p)
    BY <1>3, <1>10 DEF Pipe
  <2> QED BY <1>1, <1>3, <2>1, <2>2, PipeKept
<1>14. FramedOf(s)' /\ FramedOf(p)'
  BY <1>1, <1>3 DEF FramedOf
<1>15. RoomOf(s)'
  <2>1. Free(inBuf[s]) = BufferCells - inBuf[s].skip - Len(a)
    BY DEF Free
  <2>2. Free(inBuf[s])' = BufferCells - inBuf[s].skip - Len(a \o f)
    BY <1>10 DEF Free
  <2>3. Len(a) \in Nat /\ BufferCells \in Nat
    BY <1>2, Capacities
  <2>4. inBuf[s].skip + Len(a \o f) <= BufferCells
    <3> DEFINE x == inBuf[s].skip
               l == Len(a)
               k == Len(a \o f)
    <3>1. x \in Nat /\ l \in Nat /\ BufferCells \in Nat /\ n \in Nat
          /\ n <= BufferCells - x - l /\ k = l + n
      BY <1>2, <1>4, <1>7, <2>1, <2>3
    <3> HIDE DEF x, l, k
    <3>2. x + k <= BufferCells
      BY <3>1
    <3> QED BY <3>2 DEF x, k
  <2>5. room # 0 => Free(inBuf[s])' > 0
    <3>1. \A x, y, z, k \in Int : x - y - z >= k /\ (x - y - z) - k # 0 => x - y - (z + k) > 0
      OBVIOUS
    <3>2. BufferCells \in Int /\ inBuf[s].skip \in Int /\ Len(a) \in Int /\ n \in Int
      BY <1>2, <1>4, <2>3
    <3>3. BufferCells - inBuf[s].skip - Len(a) >= n
      BY <1>2, <1>4, <2>1, <2>3
    <3>4. (BufferCells - inBuf[s].skip - Len(a)) - n # 0 => BufferCells - inBuf[s].skip - (Len(a) + n) > 0
      <4> DEFINE sk == inBuf[s].skip
                 la == Len(a)
      <4>1. BufferCells \in Int /\ sk \in Int /\ la \in Int /\ n \in Int /\ BufferCells - sk - la >= n
        BY <3>2, <3>3
      <4> HIDE DEF sk, la, a
      <4>2. (BufferCells - sk - la) - n # 0 => BufferCells - sk - (la + n) > 0
        BY <4>1
      <4> QED BY <4>2 DEF sk, la
    <3> QED BY <1>7, <2>1, <2>2, <3>4
  <2>6. pc'[s] \in {"handle", "read"} /\ (pc'[s] = "read" => room # 0)
    BY <1>11
  <2> QED BY <1>1, <1>3, <1>10, <2>4, <2>5, <2>6 DEF RoomOf
<1>16. RoomOf(p)'
  BY <1>1, <1>3, <1>10, <1>11, RoomKept
<1>17. KeepsConnection'
  BY <1>3 DEF ConnInv, KeepsConnection
<1> QED BY <1>0, <1>12, <1>13, <1>14, <1>15, <1>16, <1>17 DEF ConnInv

\* Cells go from the output buffer to the peer's socket.
LEMMA WriteChunkStep ==
  ASSUME ConnInv, NEW s \in Sides, WriteChunk(s), mayClose' = mayClose
  PROVE  ConnInv'
<1>0. PICK p \in Sides : p = Peer(s) /\ Peer(p) = s /\ p # s /\ \A t \in Sides : t = s \/ t = p
  BY PeerProperties
<1> DEFINE n == Min({Chunk, Len(outBuf[s].cells), SocketCells - Len(socket[p])})
           b == socket[p]
           c == outBuf[s].cells
<1>1. /\ s \notin closed /\ TypeInv /\ RoomOf(s) /\ PipeOf(s) /\ PipeOf(p) /\ FramedOf(s) /\ FramedOf(p) /\ RoomOf(p)
      /\ pc[s] = "write"
  BY OpenUnlessGone DEF WriteChunk, ConnInv
<1>2. b \in Seq(Cell) /\ c \in Seq(Cell) /\ outBuf[s].skip \in Nat
  BY <1>0, <1>1 DEF TypeInv, Buffer
<1>3. /\ socket' = [socket EXCEPT ![p] = b \o SubSeq(c, 1, n)]
      /\ outBuf' = [outBuf EXCEPT ![s] = [skip |-> outBuf[s].skip + n, cells |-> SubSeq(c, n + 1, Len(c))]]
      /\ inBuf' = inBuf /\ pc' = pc /\ sent' = sent /\ handled' = handled /\ closed' = closed /\ n > 0
  BY <1>0, <1>1 DEF WriteChunk, TypeInv
<1>4. n \in 0..Len(c)
  <2>1. SocketCells - Len(b) \in Int /\ Len(c) \in Int /\ Chunk \in Int
    BY <1>2, Capacities
  <2>2. n \in {Chunk, Len(c), SocketCells - Len(b)} /\ n <= Len(c)
    BY <2>1, MinOfThree
  <2> HIDE DEF n
  <2> QED BY <1>3, <2>1, <2>2
<1> HIDE DEF n
<1> DEFINE f == SubSeq(c, 1, n)
           r == SubSeq(c, n + 1, Len(c))
<1>5. f \in Seq(Cell) /\ r \in Seq(Cell) /\ Len(r) = Len(c) - n
  BY <1>2, <1>4, Cut
<1>6. (b \o f) \o r = b \o c
  <2> HIDE DEF b, c
  <2>1. Regrouped(b, c, c, n)
    BY <1>2, <1>4, Moved
  <2> QED BY <2>1, Zenon DEF Regrouped, f, r
<1> HIDE DEF f, r
<1>7. b \o f \in Seq(Cell)
  BY <1>2, <1>5, ConcatProperties
<1>8. socket' = [socket EXCEPT ![p] = b \o f] /\ outBuf' = [outBuf EXCEPT ![s] = [skip |-> outBuf[s].skip + n, cells |-> r]]
  BY <1>3 DEF f, r
<1>9. /\ socket'[p] = b \o f /\ socket'[s] = socket[s] /\ outBuf'[p] = outBuf[p]
      /\ outBuf'[s].skip = outBuf[s].skip + n /\ outBuf'[s].cells = r
  BY <1>0, <1>1, <1>8 DEF TypeInv
<1>10. TypeInv'
  <2>1. [skip |-> outBuf[s].skip + n, cells |-> r] \in Buffer
    <3>1. outBuf[s].skip + n \in Nat
      BY <1>2, <1>4
    <3> QED BY <1>5, <3>1 DEF Buffer
  <2>2. outBuf' \in [Sides -> Buffer]
    BY <1>1, <1>8, <2>1 DEF TypeInv
  <2>3. socket' \in [Sides -> Seq(Cell)]
    BY <1>1, <1>7, <1>8 DEF TypeInv
  <2> QED BY <1>1, <1>3, <2>2, <2>3 DEF TypeInv
<1>11. PipeOf(s)' /\ PipeOf(p)'
  <2>1. Pipe(p)' = Pipe(p)
    <3>1. Pipe(p)' = inBuf[p].cells \o ((b \o f) \o r)
      BY <1>0, <1>3, <1>9 DEF Pipe
    <3>2. Pipe(p) = inBuf[p].cells \o (b \o c)
      BY <1>0 DEF Pipe
    <3> QED BY <1>6, <3>1, <3>2
  <2>2. Pipe(s)' = Pipe(s)
    BY <1>0, <1>3, <1>9 DEF Pipe
  <2> QED BY <1>1, <1>3, <2>1, <2>2, PipeKept
<1>12. FramedOf(s)' /\ FramedOf(p)'
  BY <1>1, <1>3 DEF FramedOf
<1>13. RoomOf(s)'
  <2>1. outBuf[s].skip + Len(c) <= BufferCells /\ Len(c) \in Nat
    BY <1>1, <1>2 DEF RoomOf
  <2>2. outBuf[s].skip + n + Len(r) = outBuf[s].skip + Len(c)
    <3>1. outBuf[s].skip \in Int /\ n \in Int /\ Len(c) \in Int /\ Len(r) \in Int
      BY <1>2, <1>4, <1>5, <2>1
    <3> DEFINE x == outBuf[s].skip
               l == Len(c)
               d == Len(r)
    <3>3. x \in Int /\ n \in Int /\ l \in Int /\ d \in Int /\ d = l - n
      BY <1>5, <3>1
    <3> HIDE DEF x, l, d
    <3>4. x + n + d = x + l
      BY <3>3
    <3> QED BY <3>4 DEF x, l, d
  <2>3. (outBuf[s].skip + Len(outBuf[s].cells) <= BufferCells)'
    BY <1>9, <2>1, <2>2
  <2> QED BY <1>1, <1>3, <2>3 DEF RoomOf, IsComplete, Free
<1>14. RoomOf(p)'
  BY <1>1, <1>3, <1>9, RoomKept
<1>15. KeepsConnection'
  BY <1>3 DEF ConnInv, KeepsConnection
<1> QED BY <1>0, <1>10, <1>11, <1>12, <1>13, <1>14, <1>15 DEF ConnInv

\* A message is taken from the front, and may be answered.
LEMMA HandleStep ==
  ASSUME ConnInv, NEW s \in Sides, Handle(s), mayClose' = mayClose
  PROVE  ConnInv'
<1>0. PICK p \in Sides : p = Peer(s) /\ Peer(p) = s /\ p # s /\ \A t \in Sides : t = s \/ t = p
  BY PeerProperties
<1> DEFINE a == inBuf[s].cells
           size == a[1][1]
           b == socket[s] \o outBuf[p].cells
           q == Pipe(s)
           z == sent[p]
           h == Len(handled[s])
           m == SubSeq(a, 1, size)
           r == SubSeq(a, size + 1, Len(a))
<1>1. /\ s \notin closed /\ TypeInv /\ RoomOf(s) /\ PipeOf(s) /\ FramedOf(s) /\ RoomOf(p) /\ pc[s] = "handle"
  BY OpenUnlessGone DEF Handle, ConnInv
<1>2. /\ a \in Seq(Cell) /\ b \in Seq(Cell) /\ q \in Seq(Cell) /\ z \in Seq(Size1) /\ h \in Nat
      /\ inBuf[s].skip \in Nat /\ handled[s] \in Seq(Seq(Cell))
  BY <1>0, <1>1, BufferProperties, PipeTyped, Zenon
<1>3. /\ inBuf' = [inBuf EXCEPT ![s] = [skip |-> inBuf[s].skip + size, cells |-> r]]
      /\ handled' = [handled EXCEPT ![s] = Append(handled[s], m)]
      /\ socket' = socket /\ pc' = pc /\ closed' = closed
  BY <1>1 DEF Handle, TypeInv
<1>4. SendTyped /\ OthersSend(s) /\ OutRoom(s) /\ (Moves(s) \/ Adds(s))
  <2>1. CASE UNCHANGED <<outBuf, sent>>
    BY <1>1, <2>1 DEF TypeInv, SendTyped, OthersSend, OutRoom, Moves, RoomOf
  <2>2. CASE MaySend(s) /\ Put(s, Size(s))
    BY <1>1, <2>2, PutEffect
  <2> QED BY <2>1, <2>2 DEF Handle
<1>5. /\ size \in Size1 /\ size <= Len(a) /\ Len(a) \in Nat /\ q # <<>> /\ q[1] = a[1] /\ Len(a) <= Len(q)
  <2>1. Len(a) >= HeadCells /\ Len(a) >= size
    BY DEF Handle, IsComplete
  <2>2. Len(a) \in Nat /\ a # <<>>
    BY <1>2, <2>1 DEF HeadCells
  <2>3. size \in Size1 /\ q # <<>> /\ q[1] = a[1] /\ Len(a) <= Len(q)
    BY <1>0, <1>1, <2>2, FirstCell
  <2> QED BY <2>1, <2>2, <2>3
<1>6. size \in Nat /\ size >= 2 /\ size \in 0..Len(a) /\ q[1][1] = size /\ size <= Len(q) /\ Len(q) \in Nat
  <2>1. size \in Nat /\ size >= 2
    BY <1>5, SizesPositive
  <2>2. q[1][1] = size /\ Len(q) \in Nat
    BY <1>2, <1>5
  <2> HIDE DEF size, a, q
  <2> QED BY <1>5, <2>1, <2>2
<1>7. q = a \o b
  BY <1>0 DEF Pipe
<1>8. Stream(q, z, h) /\ (p \notin closed => Whole(q, z, h))
  BY <1>0, <1>1 DEF PipeOf
<1>9. handled[s] = handled[s] /\ Len(handled[s]) <= Len(z) /\ \A i \in DOMAIN handled[s] : handled[s][i] = Cells(z[i], i)
  BY <1>0, <1>1 DEF FramedOf
<1> DEFINE g == handled[s]
<1>10. g \in Seq(Seq(Cell)) /\ Len(g) = h /\ \A i \in DOMAIN g : g[i] = Cells(z[i], i)
  BY <1>2, <1>9
<1>11. r \in Seq(Cell) /\ m \in Seq(Cell) /\ Len(m) = size /\ Len(r) = Len(a) - size
  <2> HIDE DEF a, size
  <2> QED BY <1>2, <1>6, Cut
<1>12. r \o b = SubSeq(q, size + 1, Len(q)) /\ m = SubSeq(q, 1, size)
  <2> HIDE DEF a, size, b, q
  <2>1. /\ SubSeq(a, size + 1, Len(a)) \o b = SubSeq(a \o b, size + 1, Len(a \o b))
        /\ SubSeq(a, 1, size) = SubSeq(a \o b, 1, size)
    BY <1>2, <1>6, Taken
  <2> QED BY <1>7, <2>1
<1>13. /\ h + 1 \in DOMAIN z /\ size = z[h + 1] /\ \A j \in 1..size : q[j] = <<size, h + 1, j>>
  <2>1. q[1][1] <= Len(q)
    BY <1>6
  <2> HIDE DEF q, z, h, size
  <2>2. /\ h + 1 \in DOMAIN z /\ q[1][1] = z[h + 1]
        /\ \A j \in 1..z[h + 1] : q[j] = <<z[h + 1], h + 1, j>>
    BY <1>2, <1>5, <1>8, <2>1, StreamHeaded, Zenon DEF Headed
  <2> QED BY <1>6, <2>2
<1>14. Stream(r \o b, z, h + 1) /\ (p \notin closed => Whole(r \o b, z, h + 1))
  <2> HIDE DEF q, z, h, size, r, b, a
  <2>1. q[1][1] <= Len(q)
    BY <1>6
  <2>2. /\ Stream(SubSeq(q, q[1][1] + 1, Len(q)), z, h + 1)
        /\ Whole(q, z, h) => Whole(SubSeq(q, q[1][1] + 1, Len(q)), z, h + 1)
    <3>1. PICK t : Beheaded(q, z, h, t)
      BY <1>2, <1>5, <1>8, <2>1, StreamBeheaded, Zenon
    <3> QED BY <3>1, Zenon DEF Beheaded
  <2> QED BY <1>6, <1>8, <1>12, <2>2
<1>15. m = Cells(z[h + 1], h + 1)
  <2> HIDE DEF q, z, h, size, a
  <2>1. /\ Cells(size, h + 1) \in Seq(Cell) /\ Len(Cells(size, h + 1)) = size
        /\ \A j \in 1..size : Cells(size, h + 1)[j] = <<size, h + 1, j>>
    BY <1>2, <1>5, CellsProperties
  <2>2. size \in 0..Len(q)
    BY <1>6
  <2>3. \A j \in 1..size : SubSeq(q, 1, size)[j] = q[j]
    BY <1>2, <2>2, Cut
  <2> HIDE DEF m
  <2>4. \A j \in 1..size : m[j] = Cells(size, h + 1)[j]
    BY <1>12, <1>13, <2>1, <2>3
  <2>5. m = Cells(size, h + 1)
    BY <1>11, <2>1, <2>4, SeqEqual
  <2> QED BY <1>13, <2>5
<1> HIDE DEF m, r
<1>16. /\ inBuf'[s].cells = r /\ inBuf'[s].skip = inBuf[s].skip + size /\ handled'[s] = Append(g, m)
       /\ \A t \in Sides : t # s => inBuf'[t] = inBuf[t] /\ handled'[t] = handled[t]
  BY <1>1, <1>3 DEF TypeInv
<1>17. OthersStay(s)
  BY <1>3, <1>16 DEF OthersStay
<1>18. outBuf'[p] = outBuf[p] /\ sent'[p] = z
  BY <1>0, <1>4 DEF OthersSend
<1>19. Append(g, m) \in Seq(Seq(Cell)) /\ Len(Append(g, m)) = h + 1
  <2> HIDE DEF g, h
  <2> QED BY <1>10, <1>11, Appended
<1>20. TypeInv'
  <2>1. [skip |-> inBuf[s].skip + size, cells |-> r] \in Buffer
    <3>1. inBuf[s].skip + size \in Nat
      BY <1>2, <1>6
    <3> QED BY <1>11, <3>1 DEF Buffer
  <2>2. inBuf' \in [Sides -> Buffer]
    BY <1>1, <1>3, <2>1 DEF TypeInv
  <2>3. handled' \in [Sides -> Seq(Seq(Cell))]
    BY <1>1, <1>3, <1>19 DEF TypeInv
  <2> QED BY <1>1, <1>3, <1>4, <2>2, <2>3 DEF TypeInv, SendTyped
<1>21. PipeOf(s)'
  <2>1. Pipe(s)' = r \o b
    BY <1>0, <1>3, <1>16, <1>18 DEF Pipe
  <2>2. Len(handled[s])' = h + 1
    BY <1>16, <1>19
  <2> QED BY <1>0, <1>3, <1>14, <1>18, <2>1, <2>2 DEF PipeOf
<1>22. FramedOf(s)'
  <2> HIDE DEF z, g, h
  <2>1. h + 1 <= Len(z)
    BY <1>2, <1>13
  <2>2. \A i \in DOMAIN Append(g, m) : Append(g, m)[i] = Cells(z[i], i)
    <3>0. DOMAIN Append(g, m) = 1..(h + 1)
      BY <1>10, <1>11, Appended
    <3> SUFFICES ASSUME NEW i \in 1..(h + 1)
                 PROVE  Append(g, m)[i] = Cells(z[i], i)
      BY <3>0
    <3>1. i \in 1..h \/ i = h + 1
      BY <1>2
    <3>2. DOMAIN g = 1..h /\ Append(g, m)[h + 1] = m /\ \A k \in 1..h : Append(g, m)[k] = g[k]
      BY <1>10, <1>11, Appended
    <3> QED BY <1>10, <1>15, <3>1, <3>2
  <2> QED BY <1>0, <1>16, <1>18, <1>19, <2>1, <2>2 DEF FramedOf
<1>23. RoomOf(s)'
  <2>1. inBuf[s].skip + Len(a) <= BufferCells
    BY <1>1 DEF RoomOf
  <2>2. inBuf[s].skip + size + Len(r) = inBuf[s].skip + Len(a)
    <3> HIDE DEF size, a
    <3>1. inBuf[s].skip \in Int /\ size \in Int /\ Len(a) \in Int /\ Len(r) \in Int
      BY <1>2, <1>5, <1>6, <1>11
    <3>2. Len(r) = Len(a) - size
      BY <1>11
    <3> DEFINE x == inBuf[s].skip
               k == size
               l == Len(a)
               d == Len(r)
    <3>3. x \in Int /\ k \in Int /\ l \in Int /\ d \in Int /\ d = l - k
      BY <3>1, <3>2
    <3> HIDE DEF x, k, l, d
    <3>4. x + k + d = x + l
      BY <3>3
    <3> QED BY <3>4 DEF x, k, l, d
  <2>3. (inBuf[s].skip + Len(inBuf[s].cells) <= BufferCells)'
    BY <1>16, <2>1, <2>2
  <2>4. \A i \in DOMAIN (sent'[s]) : sent'[s][i] <= BufferCells
    BY <1>1, <1>4, RoomSent
  <2> QED BY <1>1, <1>3, <1>4, <2>3, <2>4 DEF RoomOf, OutRoom
<1>24. PipeOf(p)' /\ FramedOf(p)' /\ RoomOf(p)'
  BY <1>0, <1>1, <1>3, <1>4, <1>17, PeerKept
<1>25. KeepsConnection'
  BY <1>3 DEF ConnInv, KeepsConnection
<1> QED BY <1>0, <1>20, <1>21, <1>22, <1>23, <1>24, <1>25 DEF ConnInv

\* A side that closes takes along what it had not written.
LEMMA DropStep ==
  ASSUME ConnInv, NEW s \in Sides, Drop(s), mayClose, mayClose' = mayClose
  PROVE  ConnInv'
<1>0. PICK p \in Sides : p = Peer(s) /\ Peer(p) = s /\ p # s /\ \A t \in Sides : t = s \/ t = p
  BY PeerProperties
<1>1. TypeInv /\ FramedOf(s) /\ FramedOf(p) /\ RoomOf(s) /\ RoomOf(p) /\ PipeOf(p)
  BY DEF ConnInv
<1>2. /\ closed' = closed \cup {s} /\ pc' = [pc EXCEPT ![s] = "gone"] /\ inBuf' = [inBuf EXCEPT ![s] = Empty]
      /\ outBuf' = [outBuf EXCEPT ![s] = Empty] /\ socket' = [socket EXCEPT ![s] = <<>>]
      /\ sent' = sent /\ handled' = handled
  BY DEF Drop
<1>3. Empty \in Buffer /\ Empty.cells = <<>> /\ Empty.skip = 0 /\ <<>> \in Seq(Cell)
  BY DEF Empty, Buffer
<1>4. TypeInv'
  BY <1>1, <1>2, <1>3 DEF TypeInv
<1>5. /\ inBuf'[s] = Empty /\ outBuf'[s] = Empty /\ pc'[s] = "gone"
      /\ inBuf'[p] = inBuf[p] /\ outBuf'[p] = outBuf[p] /\ socket'[p] = socket[p] /\ pc'[p] = pc[p]
  BY <1>0, <1>1, <1>2 DEF TypeInv
<1>6. PipeOf(s)' /\ PipeOf(p)'
  <2>1. /\ PipeOf(Peer(s)) /\ inBuf'[Peer(s)].cells = inBuf[Peer(s)].cells /\ socket'[Peer(s)] = socket[Peer(s)]
        /\ outBuf'[s].cells = <<>>
    BY <1>0, <1>1, <1>3, <1>5
  <2> QED BY <1>0, <1>1, <1>2, <2>1, PipeClosed
<1>7. FramedOf(s)' /\ FramedOf(p)'
  BY <1>1, <1>2 DEF FramedOf
<1>8. RoomOf(s)'
  <2>1. 0 + Len(<<>>) <= BufferCells
    BY Capacities
  <2>2. (inBuf[s].skip + Len(inBuf[s].cells) <= BufferCells)' /\ (outBuf[s].skip + Len(outBuf[s].cells) <= BufferCells)'
    BY <1>3, <1>5, <2>1
  <2> QED BY <1>1, <1>2, <1>5, <2>2 DEF RoomOf
<1>9. RoomOf(p)'
  BY <1>1, <1>2, <1>5, RoomKept
<1>10. KeepsConnection'
  BY DEF KeepsConnection
<1> QED BY <1>0, <1>4, <1>6, <1>7, <1>8, <1>9, <1>10 DEF ConnInv

LEMMA ConnInvInit == Init => ConnInv
<1> SUFFICES ASSUME Init
             PROVE  ConnInv
  OBVIOUS
<1>1. Empty \in Buffer /\ Empty.cells = <<>> /\ Empty.skip = 0
  BY DEF Empty, Buffer
<1>2. \A s \in Sides : /\ inBuf[s] = Empty /\ outBuf[s] = Empty /\ socket[s] = <<>> /\ pc[s] = "wait"
                        /\ sent[s] = <<>> /\ handled[s] = <<>>
  BY DEF Init
<1>3. TypeInv /\ KeepsConnection
  BY <1>1 DEF Init, TypeInv, KeepsConnection
<1>4. ASSUME NEW s \in Sides
      PROVE  PipeOf(s) /\ FramedOf(s) /\ RoomOf(s)
  <2>1. Peer(s) \in Sides
    BY PeerProperties
  <2>2. Pipe(s) = <<>>
    BY <1>1, <1>2, <2>1 DEF Pipe
  <2>3. PipeOf(s)
    BY <1>2, <2>1, <2>2 DEF PipeOf, Stream, Located, Blocks, Follow, Whole
  <2>4. FramedOf(s)
    BY <1>2, <2>1 DEF FramedOf
  <2>5. RoomOf(s)
    BY <1>1, <1>2, Capacities DEF RoomOf, IsComplete, HeadCells
  <2> QED BY <2>3, <2>4, <2>5
<1> QED BY <1>3, <1>4 DEF ConnInv

LEMMA ConnInvStep == ConnInv /\ [Next]_vars => ConnInv'
<1> SUFFICES ASSUME ConnInv, [Next]_vars
             PROVE  ConnInv'
  OBVIOUS
<1>1. ASSUME NEW s \in Sides, mayClose' = mayClose, Callback(s) \/ Close(s) \/ Send(s)
      PROVE  ConnInv'
  <2>1. CASE Wait(s)
    BY <1>1, <2>1, WaitStep
  <2>2. CASE ReadChunk(s)
    BY <1>1, <2>2, ReadChunkStep
  <2>3. CASE ReadNoMore(s)
    BY <1>1, <2>3, ReadNoMoreStep
  <2>4. CASE ReadThrows(s)
    \* A buffer that a message fills is never read into.
    <3>1. s \notin closed /\ RoomOf(s) /\ TypeInv /\ pc[s] = "read"
      BY <2>4, OpenUnlessGone DEF ReadThrows
    <3>2. Free(inBuf[s]) > 0 /\ Free(inBuf[s]) \in Int
      <4>1. inBuf[s].skip \in Nat /\ Len(inBuf[s].cells) \in Nat
        <5>1. inBuf[s].skip \in Nat /\ inBuf[s].cells \in Seq(Cell)
          BY <3>1, BufferProperties
        <5> QED BY <5>1
      <4> QED BY <3>1, <4>1, Capacities DEF RoomOf, Free
    <3>3. Peer(s) \in closed
      BY <2>4, <3>2 DEF ReadThrows
    <3>4. mayClose
      BY <3>3 DEF ConnInv, KeepsConnection
    <3> QED BY <1>1, <2>4, <3>4, DropStep DEF ReadThrows
  <2>5. CASE Handle(s)
    BY <1>1, <2>5, HandleStep
  <2>6. CASE Handled(s)
    BY <1>1, <2>6, HandledStep
  <2>7. CASE Arm(s)
    BY <1>1, <2>7, ArmStep
  <2>8. CASE WriteChunk(s)
    BY <1>1, <2>8, WriteChunkStep
  <2>9. CASE Written(s)
    BY <1>1, <2>9, WrittenStep
  <2>10. CASE WriteThrows(s)
    <3>1. mayClose
      BY <2>10 DEF WriteThrows, ConnInv, KeepsConnection
    <3> QED BY <1>1, <2>10, <3>1, DropStep DEF WriteThrows
  <2>11. CASE Close(s)
    BY <1>1, <2>11, DropStep DEF Close
  <2>12. CASE Send(s)
    BY <1>1, <2>12, SendStep
  <2> QED BY <1>1, <2>1, <2>2, <2>3, <2>4, <2>5, <2>6, <2>7, <2>8, <2>9, <2>10, <2>11, <2>12 DEF Callback
<1>2. CASE Next
  BY <1>1, <1>2 DEF Next
<1>3. CASE UNCHANGED vars
  BY <1>3 DEF vars, ConnInv, TypeInv, KeepsConnection, PipeOf, Pipe, FramedOf, RoomOf, IsComplete, Free
<1> QED BY <1>2, <1>3

-----------------------------------------------------------------------------
(* The theorems                                                            *)

\* What the code relies on at every step of both threads (CharBuffer_T,
\* NonBlockConnection_T): see ConnInv.
LEMMA ConnInvariant == Spec => []ConnInv
<1>1. Init => ConnInv
  BY ConnInvInit
<1>2. ConnInv /\ [Next]_vars => ConnInv'
  BY ConnInvStep
<1> QED BY <1>1, <1>2, PTL DEF Spec

\* The messages a side's buffer accepts are handled by the other whole, in order
\* and once, for any sizes, capacities and cuts of read() and write(), closing
\* included (getInputPacket, CharBuffer_T).
THEOREM MessagesFramed == Spec => []Framed
<1>1. ConnInv => Framed
  BY DEF ConnInv, FramedOf, Framed
<1> QED BY <1>1, ConnInvariant, PTL

\* No connection is lost that nobody closes: read() finds room in its buffer
\* whatever was sent (NonBlockConnection_T's read and its exception).
THEOREM ConnectionKept == Spec => []KeepsConnection
<1>1. ConnInv => KeepsConnection
  BY DEF ConnInv
<1> QED BY <1>1, ConnInvariant, PTL

-----------------------------------------------------------------------------
(* Both threads in write()                                                 *)

\* What NeverBothSpin supposes, besides the sizes
Regular ==
  SocketCells >= 2 * BufferCells /\ \A s \in Sides : "in" \in SendMask[trigger][s]

\* The whole messages among x cells, when every message has m of them. The size
\* is a parameter: a behaviour may go on with other sizes, and until then it counts.
WholeCells(m, x) == m * (x \div m)
Multiple(m, x) == \E k \in Nat : x = m * k

\* What a buffer holds in whole messages, and what a socket can hold a part of
BufferFull(m) == WholeCells(m, BufferCells)
SocketFull(m) == WholeCells(m, SocketCells + (m - 1))

\* Cells in the buffers and in the socket of a side
In(s)   == Len(inBuf[s].cells)
Sock(s) == Len(socket[s])
Out(s)  == Len(outBuf[s].cells)
Passed(s) == outBuf[s].skip

\* The cells that a write in progress has brought on the way to a side, those of
\* them that its callback handles before it can write, and what it may still write
\* before it reads again.
Writing(s) == IF pc[s] = "write" THEN Out(s) ELSE 0
Way(s) == In(s) + Sock(s) + Writing(Peer(s))
Due(m, s) == IF pc[s] = "handle" THEN WholeCells(m, In(s)) ELSE 0
Ahead(m, s) == Way(s) - Due(m, s)
Allowed(m, s) == IF pc[s] \in {"handle", "arm"} THEN 0 ELSE BufferFull(m)

\* Buffers hold whole messages, a write cuts them, and both ways together never
\* carry more than a socket of messages and what the two may write before they read.
RegularOf(m, s) ==
  /\ "in" \in mask[s] /\ pc[s] # "gone" /\ Sock(s) <= SocketCells
  /\ Multiple(m, Passed(s) + Out(s)) /\ Multiple(m, Way(s))
  /\ pc[s] # "write" => Passed(s) = 0
  /\ pc[s] = "read" => inBuf[s].skip = 0
BoundOf(m, s) == Ahead(m, s) + Ahead(m, Peer(s)) <= SocketFull(m) + (Allowed(m, s) + Allowed(m, Peer(s)))
Balanced(m, s) == RegularOf(m, s) /\ RegularOf(m, Peer(s)) /\ BoundOf(m, s)
OneSizeSent(m) == \A s \in Sides : \A n \in DOMAIN sent[s] : sent[s][n] = m

SpinInv(m) == OneSizeSent(m) /\ closed = {} => \E s \in Sides : Balanced(m, s)

-----------------------------------------------------------------------------
(* Whole messages                                                          *)

\* The size of all messages, if they have one
LEMMA SizeSent ==
  ASSUME OneSize, TypeInv
  PROVE  \E m \in Size1 : OneSizeSent(m)
<1>1. sent \in [Sides -> Seq(Size1)]
  BY DEF TypeInv
<1>2. CASE \A s \in Sides : DOMAIN sent[s] = {}
  <2>1. 2 \in Size1
    BY DEF Size1, HeadCells
  <2> QED BY <1>2, <2>1 DEF OneSizeSent
<1>3. CASE \E s \in Sides : DOMAIN sent[s] # {}
  <2>0. PICK s \in Sides : DOMAIN sent[s] # {}
    BY <1>3
  <2>1. PICK i \in DOMAIN sent[s] : TRUE
    BY <2>0
  <2>2. sent[s][i] \in Size1
    BY <1>1, <2>1
  <2>3. \A t \in Sides : \A j \in DOMAIN sent[t] : sent[t][j] = sent[s][i]
    BY <2>1 DEF OneSize
  <2> QED BY <2>2, <2>3 DEF OneSizeSent
<1> QED BY <1>2, <1>3

LEMMA MsgPositive ==
  ASSUME NEW m \in Size1
  PROVE  m \in Nat /\ m >= 2
BY SizesPositive

\* The multiples of a size
LEMMA Products ==
  ASSUME NEW m \in Nat, m >= 2
  PROVE  /\ \A k \in Nat : m * k \in Nat
         /\ \A j, k \in Nat : m * j + m * k = m * (j + k)
         /\ \A j, k \in Nat : j <= k => m * k - m * j = m * (k - j)
         /\ \A j, k \in Nat : j < k => m * j + m <= m * k
         /\ \A x \in Nat : x \div m \in Nat /\ m * (x \div m) <= x /\ x < m * (x \div m) + m
<1>1. \A k \in Nat : m * k \in Nat
  OBVIOUS
<1>2. \A j, k \in Nat : m * j + m * k = m * (j + k)
  OBVIOUS
<1>3. \A j, k \in Nat : j <= k => m * k - m * j = m * (k - j)
  OBVIOUS
<1>4. \A j, k \in Nat : j < k => m * j + m <= m * k
  <2> SUFFICES ASSUME NEW j \in Nat, NEW k \in Nat, j < k
               PROVE  m * j + m <= m * k
    OBVIOUS
  <2>1. m * k = m * j + m * (k - j)
    OBVIOUS
  <2>2. m * (k - j) = m + m * ((k - j) - 1) /\ (k - j) - 1 \in Nat
    OBVIOUS
  <2>3. m * ((k - j) - 1) \in Nat /\ m * j \in Nat
    BY <1>1, <2>2
  <2> QED BY <2>1, <2>2, <2>3
<1>5. \A x \in Nat : x \div m \in Nat /\ m * (x \div m) <= x /\ x < m * (x \div m) + m
  OBVIOUS
<1> QED BY <1>1, <1>2, <1>3, <1>4, <1>5

\* What the proofs need of them; the definitions stay closed from here on.
LEMMA Multiples ==
  ASSUME NEW m \in Size1
  PROVE  /\ \A x : Multiple(m, x) => x \in Nat
         /\ Multiple(m, 0) /\ Multiple(m, m)
         /\ \A x, y \in Int : Multiple(m, x) /\ Multiple(m, y) => Multiple(m, x + y)
         /\ \A x, y \in Int : Multiple(m, x) /\ Multiple(m, y) /\ y <= x => Multiple(m, x - y)
         /\ \A x, y \in Int : Multiple(m, x) /\ Multiple(m, y) /\ x < y + m => x <= y
         /\ \A x \in Nat : WholeCells(m, x) \in Nat /\ Multiple(m, WholeCells(m, x)) /\ WholeCells(m, x) <= x /\ x < WholeCells(m, x) + m
<1>1. m \in Nat /\ m >= 2
  BY MsgPositive
<1>2. /\ \A x : Multiple(m, x) <=> \E k \in Nat : x = m * k
      /\ \A x : WholeCells(m, x) = m * (x \div m)
  BY DEF Multiple, WholeCells
<1>3. /\ \A k \in Nat : m * k \in Nat
      /\ \A j, k \in Nat : m * j + m * k = m * (j + k)
      /\ \A j, k \in Nat : j <= k => m * k - m * j = m * (k - j)
      /\ \A j, k \in Nat : j < k => m * j + m <= m * k
      /\ \A x \in Nat : x \div m \in Nat /\ m * (x \div m) <= x /\ x < m * (x \div m) + m
  BY <1>1, Products
<1>4. \A x : Multiple(m, x) => x \in Nat
  BY <1>2, <1>3
<1>5. Multiple(m, 0) /\ Multiple(m, m)
  <2>1. m * 0 = 0 /\ m * 1 = m
    BY <1>1
  <2> QED BY <1>2, <2>1
<1>6. ASSUME NEW x \in Int, NEW y \in Int, Multiple(m, x), Multiple(m, y)
      PROVE  Multiple(m, x + y) /\ (y <= x => Multiple(m, x - y)) /\ (x < y + m => x <= y)
  <2>1. PICK j \in Nat, k \in Nat : x = m * j /\ y = m * k
    BY <1>2, <1>6
  <2>2. Multiple(m, x + y)
    <3>1. x + y = m * (j + k) /\ j + k \in Nat
      BY <1>3, <2>1
    <3> QED BY <1>2, <3>1
  <2>3. k < j => y + m <= x
    BY <1>3, <2>1
  <2>4. j < k => x + m <= y
    BY <1>3, <2>1
  <2>5. ASSUME y <= x
        PROVE  Multiple(m, x - y)
    <3>1. k <= j
      BY <1>1, <2>4, <2>5
    <3>2. x - y = m * (j - k) /\ j - k \in Nat
      BY <1>3, <2>1, <3>1
    <3> QED BY <1>2, <3>2
  <2>6. ASSUME x < y + m
        PROVE  x <= y
    <3>1. j <= k
      BY <1>1, <2>3, <2>6
    <3>2. j = k \/ j < k
      BY <3>1
    <3>3. j = k => x = y
      BY <2>1
    <3> QED BY <1>1, <2>4, <3>2, <3>3
  <2> QED BY <2>2, <2>5, <2>6
<1>7. ASSUME NEW x \in Nat
      PROVE  WholeCells(m, x) \in Nat /\ Multiple(m, WholeCells(m, x)) /\ WholeCells(m, x) <= x /\ x < WholeCells(m, x) + m
  <2>1. x \div m \in Nat /\ m * (x \div m) <= x /\ x < m * (x \div m) + m /\ m * (x \div m) \in Nat
    BY <1>3
  <2>2. WholeCells(m, x) = m * (x \div m)
    BY <1>2
  <2>3. Multiple(m, m * (x \div m))
    BY <1>2, <2>1
  <2> QED BY <2>1, <2>2, <2>3
<1> QED BY <1>4, <1>5, <1>6, <1>7

\* x cells less one message
LEMMA WholeLess ==
  ASSUME NEW m \in Size1, NEW x \in Nat, m <= x
  PROVE  WholeCells(m, x - m) = WholeCells(m, x) - m
<1>1. m \in Nat /\ m >= 2 /\ x - m \in Nat
  BY MsgPositive
<1> DEFINE v == WholeCells(m, x)
           u == WholeCells(m, x - m)
<1>2. v \in Nat /\ Multiple(m, v) /\ v <= x /\ x < v + m
  BY Multiples
<1>3. u \in Nat /\ Multiple(m, u) /\ u <= x - m /\ x - m < u + m
  BY <1>1, Multiples
<1> HIDE DEF u, v
<1>4. Multiple(m, u + m) /\ u + m \in Int
  BY <1>1, <1>3, Multiples
<1>5. u + m < v + m /\ v < (u + m) + m
  BY <1>1, <1>2, <1>3
<1>6. u + m <= v /\ v <= u + m
  <2>1. \A y, z \in Int : Multiple(m, y) /\ Multiple(m, z) /\ y < z + m => y <= z
    BY Multiples
  <2> QED BY <1>2, <1>4, <1>5, <2>1
<1>7. u = v - m
  BY <1>1, <1>2, <1>3, <1>6
<1> QED BY <1>7 DEF u, v

\* Nothing whole in less than a message
LEMMA WholeNone ==
  ASSUME NEW m \in Size1, NEW x \in Nat, x < m
  PROVE  WholeCells(m, x) = 0
<1>1. WholeCells(m, x) \in Nat /\ Multiple(m, WholeCells(m, x)) /\ WholeCells(m, x) <= x
  BY Multiples
<1>2. WholeCells(m, x) < 0 + m /\ Multiple(m, 0)
  BY <1>1, MsgPositive, Multiples
<1>3. WholeCells(m, x) <= 0
  BY <1>1, <1>2, Multiples
<1> QED BY <1>1, <1>3

\* The size that the first cell of an input buffer carries
LEMMA FirstSize ==
  ASSUME NEW m \in Size1, OneSizeSent(m), TypeInv, NEW s \in Sides, s \notin closed, PipeOf(s), RoomOf(Peer(s)),
         inBuf[s].cells # <<>>
  PROVE  inBuf[s].cells[1][1] = m
<1> DEFINE q == Pipe(s)
           z == sent[Peer(s)]
           h == Len(handled[s])
<1>1. q # <<>> /\ q[1] = inBuf[s].cells[1]
  BY FirstCell
<1>2. Stream(q, z, h) /\ q \in Seq(Cell) /\ z \in Seq(Size1)
  BY PipeTyped DEF PipeOf
<1>3. \A n \in DOMAIN z : z[n] = m
  BY PeerProperties DEF OneSizeSent
<1> HIDE DEF q, z, h
<1>4. 1 \in DOMAIN q
  BY <1>1, <1>2
<1>5. h \in Nat /\ q[1][2] \in (h + 1)..Len(z) /\ q[1][1] = z[q[1][2]]
  BY <1>2, <1>4 DEF Stream, Located
<1>6. q[1][2] \in DOMAIN z
  BY <1>2, <1>5
<1> QED BY <1>1, <1>3, <1>5, <1>6

-----------------------------------------------------------------------------
(* The state of both sides                                                 *)

LEMMA Counted ==
  ASSUME NEW m \in Size1, TypeInv, NEW s \in Sides
  PROVE  /\ In(s) \in Nat /\ Sock(s) \in Nat /\ Out(s) \in Nat /\ Passed(s) \in Nat /\ Writing(s) \in Nat
         /\ Way(s) \in Nat /\ Due(m, s) \in Nat /\ Ahead(m, s) \in Int /\ Allowed(m, s) \in Nat
         /\ BufferFull(m) \in Nat /\ SocketFull(m) \in Nat /\ m \in Nat /\ m >= 2
<1>0. Peer(s) \in Sides
  BY PeerProperties
<1>1. \A t \in Sides : In(t) \in Nat /\ Sock(t) \in Nat /\ Out(t) \in Nat /\ Passed(t) \in Nat
  <2> SUFFICES ASSUME NEW t \in Sides
               PROVE  In(t) \in Nat /\ Sock(t) \in Nat /\ Out(t) \in Nat /\ Passed(t) \in Nat
    OBVIOUS
  <2>1. inBuf[t].cells \in Seq(Cell) /\ outBuf[t].cells \in Seq(Cell) /\ socket[t] \in Seq(Cell) /\ outBuf[t].skip \in Nat
    BY BufferProperties
  <2> QED BY <2>1 DEF In, Sock, Out, Passed
<1>2. \A t \in Sides : Writing(t) \in Nat
  BY <1>1 DEF Writing
<1>3. Way(s) \in Nat
  BY <1>0, <1>1, <1>2 DEF Way
<1>4. m \in Nat /\ m >= 2 /\ BufferCells \in Nat /\ SocketCells + (m - 1) \in Nat
  BY MsgPositive, Capacities
<1>5. BufferFull(m) \in Nat /\ SocketFull(m) \in Nat /\ Due(m, s) \in Nat
  BY <1>1, <1>4, Multiples DEF BufferFull, SocketFull, Due
<1>6. Ahead(m, s) \in Int /\ Allowed(m, s) \in Nat
  BY <1>3, <1>5 DEF Ahead, Allowed
<1> QED BY <1>1, <1>2, <1>3, <1>4, <1>5, <1>6

\* What is whole in a buffer and in a socket
LEMMA FullOnes ==
  ASSUME NEW m \in Size1
  PROVE  /\ BufferFull(m) \in Nat /\ Multiple(m, BufferFull(m)) /\ BufferFull(m) <= BufferCells /\ BufferCells < BufferFull(m) + m
         /\ SocketFull(m) \in Nat /\ Multiple(m, SocketFull(m)) /\ SocketCells <= SocketFull(m)
         /\ SocketCells + (m - 1) < SocketFull(m) + m /\ SocketFull(m) <= SocketCells + (m - 1)
         /\ m \in Nat /\ m >= 2 /\ BufferCells \in Nat /\ SocketCells \in Nat
<1>1. m \in Nat /\ m >= 2 /\ BufferCells \in Nat /\ SocketCells \in Nat
  BY MsgPositive, Capacities
<1>2. SocketCells + (m - 1) \in Nat
  BY <1>1
<1>3. BufferFull(m) \in Nat /\ Multiple(m, BufferFull(m)) /\ BufferFull(m) <= BufferCells /\ BufferCells < BufferFull(m) + m
  BY <1>1, Multiples DEF BufferFull
<1>4. /\ SocketFull(m) \in Nat /\ Multiple(m, SocketFull(m)) /\ SocketFull(m) <= SocketCells + (m - 1)
      /\ SocketCells + (m - 1) < SocketFull(m) + m
  BY <1>2, Multiples DEF SocketFull
<1> QED BY <1>1, <1>3, <1>4

\* Each side may be taken as the first.
LEMMA EitherSide ==
  ASSUME NEW m \in Size1, TypeInv, SpinInv(m), OneSizeSent(m), closed = {}, NEW s \in Sides
  PROVE  Balanced(m, s)
<1>0. PICK p \in Sides : p = Peer(s) /\ Peer(p) = s /\ p # s /\ \A t \in Sides : t = s \/ t = p
  BY PeerProperties
<1>1. Balanced(m, s) \/ Balanced(m, p)
  BY <1>0 DEF SpinInv
<1>2. /\ Ahead(m, s) \in Int /\ Ahead(m, p) \in Int /\ Allowed(m, s) \in Int /\ Allowed(m, p) \in Int
      /\ SocketFull(m) \in Int
  BY Counted
<1>3. BoundOf(m, p) => BoundOf(m, s)
  <2>1. Ahead(m, p) + Ahead(m, s) = Ahead(m, s) + Ahead(m, p) /\ Allowed(m, p) + Allowed(m, s) = Allowed(m, s) + Allowed(m, p)
    BY <1>2
  <2> QED BY <1>0, <2>1 DEF BoundOf
<1> QED BY <1>0, <1>1, <1>3 DEF Balanced

\* Less than a message is waiting outside "read" and "handle".
LEMMA InputShort ==
  ASSUME NEW m \in Size1, ConnInv, OneSizeSent(m), NEW s \in Sides, s \notin closed, ~ IsComplete(inBuf[s])
  PROVE  In(s) < m
<1>1. TypeInv /\ PipeOf(s) /\ RoomOf(Peer(s)) /\ In(s) \in Nat /\ m \in Nat /\ m >= 2
  BY PeerProperties, Counted DEF ConnInv
<1>2. CASE inBuf[s].cells = <<>>
  BY <1>1, <1>2 DEF In
<1>3. CASE inBuf[s].cells # <<>>
  <2>1. inBuf[s].cells[1][1] = m
    BY <1>1, <1>3, FirstSize
  <2>2. ~ (In(s) >= 2 /\ In(s) >= m)
    BY <2>1 DEF IsComplete, HeadCells, In
  <2> QED BY <1>1, <2>2
<1> QED BY <1>2, <1>3

\* A side that has read its socket empty has little before it: what the other
\* still writes of a buffer; and the other has no more than its socket and what
\* it reads from it now.
LEMMA SocketEmpty ==
  ASSUME NEW m \in Size1, ConnInv, OneSizeSent(m), closed = {}, NEW s \in Sides, RegularOf(m, s), RegularOf(m, Peer(s)),
         Sock(s) = 0, pc[s] # "write"
  PROVE  (Way(s) - WholeCells(m, In(s))) + Ahead(m, Peer(s)) <= SocketFull(m) + Allowed(m, Peer(s))
<1>0. PICK p \in Sides : p = Peer(s) /\ Peer(p) = s /\ p # s /\ \A t \in Sides : t = s \/ t = p
  BY PeerProperties
<1>1. TypeInv /\ RoomOf(p)
  BY DEF ConnInv
<1>2. /\ In(s) \in Nat /\ Way(s) \in Nat /\ Writing(p) \in Nat /\ Out(p) \in Nat /\ Passed(p) \in Nat
      /\ In(p) \in Nat /\ Sock(p) \in Nat /\ Way(p) \in Nat
  BY <1>1, Counted
<1> DEFINE i == In(s)
           v == WholeCells(m, i)
           w == Writing(p)
           x == Way(s) - v
<1>3. v \in Nat /\ Multiple(m, v) /\ v <= i /\ i < v + m
  BY <1>2, Multiples
<1>4. Way(s) = i + w
  BY <1>0, <1>2 DEF Way
<1>5. Multiple(m, Way(s)) /\ Multiple(m, Way(p))
  BY <1>0 DEF RegularOf
<1> HIDE DEF i, v, w
<1>6. x \in Int /\ Multiple(m, x) /\ x < w + m /\ i \in Nat /\ w \in Nat
  <2>1. i \in Nat /\ w \in Nat
    BY <1>2 DEF i, w
  <2>2. v <= Way(s)
    BY <1>3, <1>4, <2>1
  <2>3. Multiple(m, x)
    BY <1>2, <1>3, <1>5, <2>2, Multiples
  <2> QED BY <1>3, <1>4, <2>1, <2>3, MsgPositive
<1> HIDE DEF x
<1>7. x <= IF pc[p] = "write" THEN BufferFull(m) ELSE 0
  <2>1. CASE pc[p] = "write"
    <3> DEFINE y == Passed(p) + Out(p)
    <3>1. Multiple(m, y) /\ y \in Int /\ w <= y
      BY <1>0, <1>2, <2>1 DEF RegularOf, Writing, w
    <3>2. y <= BufferCells
      BY <1>1 DEF RoomOf, Passed, Out
    <3> HIDE DEF y
    <3>3. x < y + m
      BY <1>6, <3>1, MsgPositive
    <3>4. x <= y
      BY <1>6, <3>1, <3>3, Multiples
    <3>5. y < BufferFull(m) + m
      BY <3>1, <3>2, FullOnes
    <3>6. y <= BufferFull(m)
      BY <3>1, <3>5, FullOnes, Multiples
    <3> QED BY <1>6, <2>1, <3>1, <3>4, <3>6, FullOnes
  <2>2. CASE pc[p] # "write"
    <3>1. w = 0
      BY <2>2 DEF Writing, w
    <3>2. x < 0 + m
      BY <1>6, <3>1
    <3>3. x <= 0
      BY <1>6, <3>2, Multiples
    <3> QED BY <2>2, <3>3
  <2> QED BY <2>1, <2>2
<1>8. Way(p) = In(p) + Sock(p) /\ Sock(p) <= SocketCells
  <2>1. Writing(s) = 0
    BY DEF Writing
  <2> QED BY <1>0, <1>2, <2>1 DEF Way, RegularOf
<1>9. Ahead(m, p) <= SocketFull(m) + IF pc[p] = "read" THEN BufferFull(m) ELSE 0
  <2>1. CASE pc[p] = "read"
    <3>1. In(p) <= BufferCells
      <4>1. inBuf[p].skip + In(p) <= BufferCells /\ inBuf[p].skip \in Nat
        BY <1>1, BufferProperties DEF RoomOf, In
      <4> QED BY <1>2, <4>1, Capacities
    <3>2. Ahead(m, p) = Way(p)
      BY <1>2, <2>1 DEF Ahead, Due
    <3>3. Multiple(m, SocketFull(m) + BufferFull(m)) /\ SocketFull(m) + BufferFull(m) \in Int
      <4>1. SocketFull(m) \in Nat /\ BufferFull(m) \in Nat /\ Multiple(m, SocketFull(m)) /\ Multiple(m, BufferFull(m))
        BY FullOnes
      <4>2. SocketFull(m) \in Int /\ BufferFull(m) \in Int
        BY <4>1
      <4>3. \A a, b \in Int : Multiple(m, a) /\ Multiple(m, b) => Multiple(m, a + b)
        BY Multiples
      <4>4. Multiple(m, SocketFull(m) + BufferFull(m))
        BY <4>1, <4>2, <4>3, Zenon
      <4> QED BY <4>2, <4>4
    <3>4. Way(p) < (SocketFull(m) + BufferFull(m)) + m
      BY <1>2, <1>8, <3>1, FullOnes
    <3>5. Way(p) <= SocketFull(m) + BufferFull(m)
      BY <1>2, <1>5, <3>3, <3>4, Multiples
    <3> QED BY <2>1, <3>2, <3>5
  <2>2. CASE pc[p] # "read"
    <3> DEFINE d == Due(m, p)
               y == Way(p) - d
    <3>1. d \in Nat /\ Multiple(m, d) /\ d <= In(p) /\ In(p) < d + m
      <4>1. CASE pc[p] = "handle"
        BY <1>2, <4>1, Multiples DEF Due
      <4>2. CASE pc[p] # "handle"
        <5>1. ~ IsComplete(inBuf[p])
          BY <1>0, <1>1, <2>2, <4>2 DEF RegularOf, RoomOf, TypeInv
        <5>2. In(p) < m
          BY <5>1, InputShort
        <5> QED BY <1>2, <4>2, <5>2, MsgPositive, Multiples DEF Due
      <4> QED BY <4>1, <4>2
    <3> HIDE DEF d
    <3>2. y \in Int /\ Multiple(m, y)
      <4>1. d <= Way(p) /\ d \in Int /\ Way(p) \in Int
        BY <1>2, <1>8, <3>1
      <4>2. Multiple(m, Way(p) - d)
        BY <1>5, <3>1, <4>1, Multiples
      <4> QED BY <4>1, <4>2
    <3>3. y < SocketFull(m) + m
      BY <1>2, <1>8, <3>1, FullOnes
    <3> HIDE DEF y
    <3>4. y <= SocketFull(m)
      BY <3>2, <3>3, FullOnes, Multiples
    <3>5. Ahead(m, p) = y
      BY DEF Ahead, y, d
    <3> QED BY <2>2, <3>4, <3>5, FullOnes
  <2> QED BY <2>1, <2>2
<1>10. /\ Allowed(m, p) = IF pc[p] \in {"handle", "arm"} THEN 0 ELSE BufferFull(m)
       /\ Ahead(m, p) \in Int /\ SocketFull(m) \in Int /\ BufferFull(m) \in Nat
  BY <1>1, Counted DEF Allowed
<1>11. x + Ahead(m, p) <= SocketFull(m) + Allowed(m, p)
  BY <1>6, <1>7, <1>9, <1>10
<1> QED BY <1>0, <1>11 DEF x, v, i

\* When both threads wait, more is on both ways than that.
LEMMA SpinsNever ==
  ASSUME NEW m \in Size1, Regular, ConnInv, SpinInv(m), OneSizeSent(m)
  PROVE  ~BothSpin
<1> SUFFICES ASSUME BothSpin
             PROVE  FALSE
  OBVIOUS
<1>0. PICK s \in Sides, p \in Sides : p = Peer(s) /\ Peer(p) = s /\ p # s /\ \A t \in Sides : t = s \/ t = p
  BY PeerProperties, ConnectionAssumption
<1>1. TypeInv
  BY DEF Regular, ConnInv
<1>2. closed = {}
  BY <1>0, <1>1 DEF BothSpin, Spins, Alive, TypeInv
<1>3. Balanced(m, s)
  BY <1>1, <1>2, EitherSide
<1> DEFINE full == WholeCells(m, SocketCells)
<1>4. full \in Nat /\ Multiple(m, full) /\ full <= SocketCells /\ SocketCells < full + m
  BY <1>1, Capacities, Multiples
<1> HIDE DEF full
<1>5. Multiple(m, BufferFull(m) + BufferFull(m)) /\ BufferFull(m) + BufferFull(m) <= SocketCells
  <2>1. Multiple(m, BufferFull(m) + BufferFull(m))
    BY <1>1, FullOnes, Multiples
  <2> QED BY <1>1, <2>1, FullOnes DEF Regular
<1>6. BufferFull(m) + BufferFull(m) <= full
  <2>1. BufferFull(m) + BufferFull(m) < full + m /\ BufferFull(m) + BufferFull(m) \in Int
    BY <1>1, <1>4, <1>5, FullOnes
  <2> QED BY <1>1, <1>4, <1>5, <2>1, Multiples
<1>7. SocketFull(m) <= full + m
  <2>1. Multiple(m, full + m) /\ full + m \in Int
    BY <1>1, <1>4, FullOnes, Multiples
  <2>2. SocketFull(m) < (full + m) + m
    BY <1>1, <1>4, FullOnes
  <2> QED BY <1>1, <2>1, <2>2, FullOnes, Multiples
<1>8. ASSUME NEW t \in Sides, RegularOf(m, t), Writing(Peer(t)) > 0, Sock(t) = SocketCells
      PROVE  full + m <= Way(t)
  <2>1. In(t) \in Nat /\ Way(t) \in Nat /\ Writing(Peer(t)) \in Nat /\ SocketCells \in Nat
    BY <1>1, Counted, Capacities, PeerProperties
  <2>2. SocketCells + 1 <= Way(t)
    BY <1>8, <2>1 DEF Way
  <2>3. Multiple(m, Way(t))
    BY <1>8 DEF RegularOf
  <2>4. ~ (Way(t) < full + m)
    <3> SUFFICES ASSUME Way(t) < full + m
                 PROVE  FALSE
      OBVIOUS
    <3>1. Way(t) <= full
      BY <1>1, <1>4, <2>1, <2>3, Multiples
    <3> QED BY <1>4, <2>1, <2>2, <3>1
  <2> QED BY <1>1, <1>4, <2>1, <2>4, FullOnes
<1>9. \A t \in Sides : pc[t] = "write" /\ Sock(Peer(t)) = SocketCells /\ Writing(t) > 0
  <2> SUFFICES ASSUME NEW t \in Sides
               PROVE  pc[t] = "write" /\ Sock(Peer(t)) = SocketCells /\ Writing(t) > 0
    OBVIOUS
  <2>1. pc[t] = "write" /\ outBuf[t].cells # <<>> /\ Len(socket[Peer(t)]) = SocketCells
    BY DEF BothSpin, Spins
  <2>2. outBuf[t].cells \in Seq(Cell)
    BY <1>1, BufferProperties
  <2>3. Len(outBuf[t].cells) > 0
    BY <2>1, <2>2
  <2> QED BY <2>1, <2>3 DEF Sock, Writing, Out
<1>10. full + m <= Way(s) /\ full + m <= Way(p)
  BY <1>0, <1>3, <1>8, <1>9 DEF Balanced
<1>11. Ahead(m, s) = Way(s) /\ Ahead(m, p) = Way(p) /\ Allowed(m, s) = BufferFull(m) /\ Allowed(m, p) = BufferFull(m)
  <2>1. Way(s) \in Nat /\ Way(p) \in Nat
    BY <1>1, Counted
  <2> QED BY <1>9, <2>1 DEF Ahead, Due, Allowed
<1>12. Way(s) + Way(p) <= SocketFull(m) + (BufferFull(m) + BufferFull(m))
  BY <1>0, <1>3, <1>11 DEF Balanced, BoundOf
<1>13. Way(s) \in Nat /\ Way(p) \in Nat /\ SocketFull(m) \in Nat /\ BufferFull(m) \in Nat /\ m \in Nat /\ m >= 2
  BY <1>1, Counted
<1> QED BY <1>4, <1>6, <1>7, <1>10, <1>12, <1>13

LEMMA CountedNext ==
  ASSUME TypeInv', NEW s \in Sides
  PROVE  In(s)' \in Nat /\ Sock(s)' \in Nat /\ Out(s)' \in Nat /\ Passed(s)' \in Nat /\ Writing(s)' \in Nat
<1>1. /\ inBuf'[s].cells \in Seq(Cell) /\ outBuf'[s].cells \in Seq(Cell) /\ socket'[s] \in Seq(Cell)
      /\ outBuf'[s].skip \in Nat
  BY DEF TypeInv, Buffer
<1> QED BY <1>1 DEF In, Sock, Out, Passed, Writing

PeerStays(p) == inBuf'[p] = inBuf[p] /\ outBuf'[p] = outBuf[p] /\ pc'[p] = pc[p] /\ mask'[p] = mask[p]

\* A step of s that puts g cells more on the way to its peer
LEMMA StepBalanced ==
  ASSUME NEW m \in Size1, TypeInv, TypeInv', NEW s \in Sides, NEW p \in Sides, p = Peer(s), Peer(p) = s,
         Balanced(m, s), PeerStays(p), NEW g \in Nat, Multiple(m, g),
         Sock(p)' + Writing(s)' = Sock(p) + Writing(s) + g,
         Sock(s)' <= SocketCells, Sock(p)' <= SocketCells,
         Multiple(m, In(s)' + Sock(s)' + Writing(p)),
         "in" \in mask'[s], pc'[s] # "gone", Multiple(m, Passed(s)' + Out(s)'),
         pc'[s] # "write" => Passed(s)' = 0, pc'[s] = "read" => inBuf'[s].skip = 0,
         ((In(s)' + Sock(s)' + Writing(p)) - Due(m, s)') + (Ahead(m, p) + g) <= SocketFull(m) + (Allowed(m, s)' + Allowed(m, p))
  PROVE  Balanced(m, s)'
<1>1. /\ In(p)' = In(p) /\ Out(p)' = Out(p) /\ Passed(p)' = Passed(p) /\ Writing(p)' = Writing(p) /\ Due(m, p)' = Due(m, p)
      /\ Allowed(m, p)' = Allowed(m, p)
  BY DEF PeerStays, In, Out, Passed, Writing, Due, Allowed
<1>2. /\ In(p) \in Nat /\ Sock(p) \in Nat /\ Writing(s) \in Nat /\ Writing(p) \in Nat /\ Way(p) \in Nat /\ Due(m, p) \in Nat
      /\ Ahead(m, p) = Way(p) - Due(m, p)
  BY Counted DEF Ahead
<1>3. In(s)' \in Nat /\ Sock(s)' \in Nat /\ Sock(p)' \in Nat /\ Writing(s)' \in Nat
  BY CountedNext
<1>4. Way(s)' = In(s)' + Sock(s)' + Writing(p)
  BY <1>1 DEF Way
<1>5. Way(p)' = Way(p) + g
  <2>1. Way(p)' = In(p) + Sock(p)' + Writing(s)' /\ Way(p) = In(p) + Sock(p) + Writing(s)
    BY <1>1 DEF Way
  <2> QED BY <1>2, <1>3, <2>1
<1>6. RegularOf(m, s)'
  BY <1>4 DEF RegularOf
<1>7. RegularOf(m, p)'
  <2>1. RegularOf(m, p)
    BY DEF Balanced
  <2>2. Multiple(m, Way(p) + g)
    <3>1. Multiple(m, Way(p)) /\ Way(p) \in Int /\ g \in Int
      BY <1>2, <2>1 DEF RegularOf
    <3> QED BY <3>1, Multiples
  <2> QED BY <1>1, <1>5, <2>1, <2>2 DEF RegularOf, PeerStays
<1>8. BoundOf(m, s)'
  <2>0. Ahead(m, s)' = Way(s)' - Due(m, s)'
    BY DEF Ahead
  <2>1. Ahead(m, s)' = (In(s)' + Sock(s)' + Writing(p)) - Due(m, s)'
    BY <1>4, <2>0
  <2>2. Ahead(m, p)' = Ahead(m, p) + g
    <3>1. Ahead(m, p)' = (Way(p) + g) - Due(m, p)
      BY <1>1, <1>5 DEF Ahead
    <3> QED BY <1>2, <3>1
  <2>3. Ahead(m, s)' + Ahead(m, p)' <= SocketFull(m) + (Allowed(m, s)' + Allowed(m, p)')
    BY <1>1, <2>1, <2>2
  <2> QED BY <2>3 DEF BoundOf, SocketFull, WholeCells
<1> QED BY <1>6, <1>7, <1>8 DEF Balanced

\* What is put in an output buffer is one message more, or nothing.
LEMMA PutWhole ==
  ASSUME NEW m \in Size1, TypeInv, NEW s \in Sides, MaySend(s), Put(s, Size(s)), OneSizeSent(m)'
  PROVE  /\ Passed(s)' = 0
         /\ Out(s)' = Out(s) \/ Out(s)' = Out(s) + m
         /\ \A t \in Sides : t # s => outBuf'[t] = outBuf[t]
<1>1. /\ outBuf \in [Sides -> Buffer] /\ sent \in [Sides -> Seq(Size1)]
      /\ outBuf[s].cells \in Seq(Cell) /\ sent[s] \in Seq(Size1) /\ outBuf[s] \in Buffer
  BY BufferProperties DEF TypeInv
<1>2. Size(s) \in Size1 /\ Len(sent[s]) + 1 \in Nat
  <2>1. Len(sent[s]) \in Nat /\ Len(sent[s]) < Len(Sizes[s]) /\ Sizes[s] \in Seq(Size1)
    BY <1>1, Capacities DEF MaySend
  <2>2. Len(sent[s]) + 1 \in 1..Len(Sizes[s])
    BY <2>1
  <2> QED BY <2>1, <2>2 DEF Size
<1>3. AlignLeft(outBuf[s]) = [skip |-> 0, cells |-> outBuf[s].cells]
  BY <1>1, Aligned
<1>4. \/ /\ outBuf' = [outBuf EXCEPT ![s] = [skip |-> 0, cells |-> outBuf[s].cells \o Cells(Size(s), Len(sent[s]) + 1)]]
         /\ sent' = [sent EXCEPT ![s] = Append(sent[s], Size(s))]
      \/ outBuf' = [outBuf EXCEPT ![s] = [skip |-> 0, cells |-> outBuf[s].cells]]
  BY <1>1, <1>3 DEF Put
<1>5. ASSUME sent' = [sent EXCEPT ![s] = Append(sent[s], Size(s))]
      PROVE  Size(s) = m
  <2> DEFINE z == sent[s]
             x == Size(s)
  <2>1. sent'[s] = Append(z, x) /\ z \in Seq(Size1) /\ x \in Size1
    BY <1>1, <1>2, <1>5
  <2> HIDE DEF z, x
  <2>2. DOMAIN Append(z, x) = 1..(Len(z) + 1) /\ Len(z) \in Nat /\ Append(z, x)[Len(z) + 1] = x
    BY <2>1, Appended
  <2>3. Len(z) + 1 \in DOMAIN sent'[s]
    BY <2>1, <2>2
  <2>4. sent'[s][Len(z) + 1] = m
    BY <2>3 DEF OneSizeSent
  <2>5. x = m
    BY <2>1, <2>2, <2>4
  <2> QED BY <2>5 DEF x
<1>6. Len(outBuf[s].cells \o Cells(Size(s), Len(sent[s]) + 1)) = Len(outBuf[s].cells) + Size(s)
  <2> DEFINE x == outBuf[s].cells
             d == Cells(Size(s), Len(sent[s]) + 1)
             k == Size(s)
  <2>1. x \in Seq(Cell) /\ d \in Seq(Cell) /\ Len(d) = k
    BY <1>1, <1>2, CellsProperties
  <2> HIDE DEF x, d, k
  <2>2. Len(x \o d) = Len(x) + k
    BY <2>1, ConcatProperties
  <2> QED BY <2>2, Zenon DEF x, d, k
<1>7. ASSUME NEW q, outBuf' = [outBuf EXCEPT ![s] = [skip |-> 0, cells |-> q]]
      PROVE  Passed(s)' = 0 /\ Out(s)' = Len(q) /\ \A t \in Sides : t # s => outBuf'[t] = outBuf[t]
  <2>1. outBuf'[s] = [skip |-> 0, cells |-> q] /\ \A t \in Sides : t # s => outBuf'[t] = outBuf[t]
    BY <1>1, <1>7
  <2> QED BY <2>1 DEF Out, Passed
<1>8. CASE outBuf' = [outBuf EXCEPT ![s] = [skip |-> 0, cells |-> outBuf[s].cells]]
  BY <1>7, <1>8 DEF Out
<1>9. CASE /\ outBuf' = [outBuf EXCEPT ![s] = [skip |-> 0, cells |-> outBuf[s].cells \o Cells(Size(s), Len(sent[s]) + 1)]]
           /\ sent' = [sent EXCEPT ![s] = Append(sent[s], Size(s))]
  <2>1. Size(s) = m
    BY <1>5, <1>9
  <2>2. Out(s)' = Out(s) + m
    BY <1>6, <1>7, <1>9, <2>1 DEF Out
  <2> QED BY <1>7, <1>9, <2>2
<1> QED BY <1>4, <1>8, <1>9

\* What holds before a step, for the lemmas that follow
Before(m, s) ==
  /\ Regular /\ ConnInv /\ OneSizeSent(m) /\ OneSizeSent(m)' /\ closed = {} /\ TypeInv'
  /\ s \in Sides /\ Peer(s) \in Sides /\ Peer(Peer(s)) = s /\ Peer(s) # s /\ Balanced(m, s)
  /\ mask \in [Sides -> SUBSET {"in", "out"}] /\ trigger \in Triggers

LEMMA BeforeNumbers ==
  ASSUME NEW m \in Size1, NEW s \in Sides, NEW p \in Sides, p = Peer(s), Before(m, s)
  PROVE  /\ TypeInv /\ RegularOf(m, s) /\ RegularOf(m, p)
         /\ \A t \in Sides : /\ In(t) \in Nat /\ Sock(t) \in Nat /\ Out(t) \in Nat /\ Passed(t) \in Nat /\ Writing(t) \in Nat
                             /\ Way(t) \in Nat /\ Due(m, t) \in Nat /\ Ahead(m, t) \in Int /\ Allowed(m, t) \in Nat
         /\ BufferFull(m) \in Nat /\ SocketFull(m) \in Nat /\ m \in Nat /\ m >= 2
         /\ Multiple(m, 0) /\ Multiple(m, Way(s)) /\ Multiple(m, Passed(s) + Out(s))
         /\ Way(s) = In(s) + Sock(s) + Writing(p) /\ Ahead(m, s) = Way(s) - Due(m, s)
         /\ Ahead(m, s) + Ahead(m, p) <= SocketFull(m) + (Allowed(m, s) + Allowed(m, p))
         /\ Sock(s) <= SocketCells /\ Sock(p) <= SocketCells
<1>1. TypeInv /\ RegularOf(m, s) /\ RegularOf(m, p) /\ BoundOf(m, s)
  BY DEF Before, Regular, ConnInv, Balanced
<1> QED BY <1>1, Counted, Multiples DEF RegularOf, BoundOf, Way, Ahead

LEMMA SendBalanced ==
  ASSUME NEW m \in Size1, NEW s \in Sides, Before(m, s), Send(s)
  PROVE  Balanced(m, s)'
<1>0. PICK p \in Sides : p = Peer(s) /\ Peer(p) = s /\ p # s
  BY DEF Before
<1>1. TypeInv /\ TypeInv' /\ Balanced(m, s) /\ OneSizeSent(m)'
  BY <1>0, BeforeNumbers DEF Before
<1>2. /\ inBuf' = inBuf /\ socket' = socket /\ pc' = pc /\ pc[s] = "wait"
      /\ mask' = [mask EXCEPT ![s] = SendMask[trigger][s]] /\ MaySend(s) /\ Put(s, Size(s))
  BY DEF Send, Setup
<1>3. Passed(s)' = 0 /\ (Out(s)' = Out(s) \/ Out(s)' = Out(s) + m) /\ \A t \in Sides : t # s => outBuf'[t] = outBuf[t]
  BY <1>1, <1>2, PutWhole
<1>4. PeerStays(p)
  BY <1>0, <1>2, <1>3 DEF PeerStays, Before
<1>5. "in" \in mask'[s]
  BY <1>2 DEF Before, Regular
<1>6. /\ In(s)' = In(s) /\ Sock(s)' = Sock(s) /\ Sock(p)' = Sock(p) /\ Writing(s)' = Writing(s) /\ Writing(s) = 0
      /\ Due(m, s)' = Due(m, s) /\ Allowed(m, s)' = Allowed(m, s)
  BY <1>2 DEF In, Sock, Writing, Due, Allowed
<1>7. Multiple(m, Passed(s)' + Out(s)')
  <2>1. Passed(s) = 0 /\ Multiple(m, Passed(s) + Out(s)) /\ Out(s) \in Nat /\ m \in Nat
    BY <1>0, <1>2, BeforeNumbers DEF RegularOf
  <2>2. Multiple(m, Out(s)) /\ Passed(s)' + Out(s)' = Out(s)'
    BY <1>3, <2>1
  <2>3. Multiple(m, Out(s) + m)
    BY <1>1, <2>1, <2>2, Multiples
  <2> QED BY <1>3, <2>2, <2>3
<1>8. /\ Sock(p)' + Writing(s)' = Sock(p) + Writing(s) + 0 /\ Multiple(m, 0) /\ 0 \in Nat
      /\ Sock(s)' <= SocketCells /\ Sock(p)' <= SocketCells
      /\ Multiple(m, In(s)' + Sock(s)' + Writing(p))
      /\ ((In(s)' + Sock(s)' + Writing(p)) - Due(m, s)') + (Ahead(m, p) + 0) <= SocketFull(m) + (Allowed(m, s)' + Allowed(m, p))
  BY <1>0, <1>6, BeforeNumbers
<1> QED BY <1>0, <1>1, <1>2, <1>3, <1>4, <1>5, <1>7, <1>8, StepBalanced

\* A callback that has read nothing new
LEMMA WaitBalanced ==
  ASSUME NEW m \in Size1, NEW s \in Sides, Before(m, s), Wait(s)
  PROVE  Balanced(m, s)'
<1>0. PICK p \in Sides : p = Peer(s) /\ Peer(p) = s /\ p # s
  BY DEF Before
<1>1. /\ TypeInv /\ TypeInv' /\ Balanced(m, s) /\ RegularOf(m, s) /\ RegularOf(m, p) /\ ConnInv /\ OneSizeSent(m)
      /\ closed = {} /\ RoomOf(s)
  BY <1>0, BeforeNumbers DEF Before, ConnInv
<1>2. outBuf' = outBuf /\ socket' = socket /\ mask' = mask /\ pc[s] = "wait"
  BY DEF Wait
<1>3. inBuf[s] \in Buffer /\ inBuf \in [Sides -> Buffer] /\ pc \in [Sides -> {"wait", "read", "handle", "arm", "write", "gone"}]
  BY <1>1 DEF TypeInv
<1>4. /\ inBuf' = [inBuf EXCEPT ![s] = IF "in" \in Happens(s) \cap mask[s] THEN AlignLeft(inBuf[s]) ELSE inBuf[s]]
      /\ pc' = [pc EXCEPT ![s] = IF "in" \in Happens(s) \cap mask[s] THEN "read"
                                 ELSE IF "out" \in Happens(s) \cap mask[s] THEN "arm" ELSE "wait"]
  BY <1>3 DEF Wait
<1>5. AlignLeft(inBuf[s]) = [skip |-> 0, cells |-> inBuf[s].cells]
  BY <1>3, Aligned
<1>6. /\ inBuf'[s].cells = inBuf[s].cells /\ pc'[s] \in {"read", "arm", "wait"} /\ (pc'[s] = "read" => inBuf'[s].skip = 0)
      /\ inBuf'[p] = inBuf[p] /\ pc'[p] = pc[p]
      /\ pc'[s] = "arm" => "in" \notin Happens(s) \cap mask[s]
  BY <1>0, <1>3, <1>4, <1>5
<1>7. PeerStays(p)
  BY <1>2, <1>6 DEF PeerStays
<1>8. /\ In(s)' = In(s) /\ Sock(s)' = Sock(s) /\ Sock(p)' = Sock(p) /\ Out(s)' = Out(s) /\ Passed(s)' = Passed(s)
      /\ Writing(s)' = 0 /\ Writing(s) = 0 /\ Due(m, s)' = 0 /\ Due(m, s) = 0 /\ Allowed(m, s) = BufferFull(m)
      /\ Allowed(m, s)' = IF pc'[s] = "arm" THEN 0 ELSE BufferFull(m)
  <2>1. (BufferFull(m))' = BufferFull(m)
    BY DEF BufferFull, WholeCells
  <2> QED BY <1>2, <1>6, <2>1 DEF In, Sock, Out, Passed, Writing, Due, Allowed
<1>9. (In(s)' + Sock(s)' + Writing(p)) - Due(m, s)' = Way(s) /\ Way(s) \in Nat /\ Ahead(m, s) = Way(s)
  BY <1>0, <1>8, BeforeNumbers
<1>10. pc'[s] = "arm" => Way(s) + Ahead(m, p) <= SocketFull(m) + Allowed(m, p)
  <2> SUFFICES ASSUME pc'[s] = "arm"
               PROVE  Way(s) + Ahead(m, p) <= SocketFull(m) + Allowed(m, p)
    OBVIOUS
  <2>1. ~ Readable(s)
    BY <1>1, <1>6 DEF RegularOf, Happens
  <2>2. Sock(s) = 0
    BY <2>1 DEF Readable, Sock
  <2>3. ~ IsComplete(inBuf[s])
    BY <1>1, <1>2 DEF RoomOf
  <2>4. WholeCells(m, In(s)) = 0 /\ s \notin closed
    BY <1>0, <1>1, <2>3, InputShort, WholeNone, BeforeNumbers
  <2>5. (Way(s) - WholeCells(m, In(s))) + Ahead(m, p) <= SocketFull(m) + Allowed(m, p)
    BY <1>0, <1>1, <1>2, <2>2, SocketEmpty
  <2> QED BY <1>9, <2>4, <2>5
<1>11. ((In(s)' + Sock(s)' + Writing(p)) - Due(m, s)') + (Ahead(m, p) + 0) <= SocketFull(m) + (Allowed(m, s)' + Allowed(m, p))
  <2>1. Way(s) + Ahead(m, p) <= SocketFull(m) + (BufferFull(m) + Allowed(m, p))
    BY <1>0, <1>8, <1>9, BeforeNumbers
  <2> QED BY <1>0, <1>8, <1>9, <1>10, <2>1, BeforeNumbers
<1>12. /\ Sock(p)' + Writing(s)' = Sock(p) + Writing(s) + 0 /\ Multiple(m, 0) /\ 0 \in Nat
       /\ Sock(s)' <= SocketCells /\ Sock(p)' <= SocketCells
       /\ Multiple(m, In(s)' + Sock(s)' + Writing(p))
       /\ Multiple(m, Passed(s)' + Out(s)')
  BY <1>0, <1>8, BeforeNumbers
<1>13. "in" \in mask'[s] /\ pc'[s] # "gone" /\ (pc'[s] # "write" => Passed(s)' = 0)
  BY <1>1, <1>2, <1>6, <1>8 DEF RegularOf
<1> QED BY <1>0, <1>1, <1>6, <1>7, <1>11, <1>12, <1>13, StepBalanced

LEMMA ReadNoMoreBalanced ==
  ASSUME NEW m \in Size1, NEW s \in Sides, Before(m, s), ReadNoMore(s)
  PROVE  Balanced(m, s)'
<1>0. PICK p \in Sides : p = Peer(s) /\ Peer(p) = s /\ p # s
  BY DEF Before
<1>1. /\ TypeInv /\ TypeInv' /\ Balanced(m, s) /\ RegularOf(m, s) /\ RegularOf(m, p) /\ ConnInv /\ OneSizeSent(m)
      /\ closed = {}
  BY <1>0, BeforeNumbers DEF Before
<1>2. /\ inBuf' = inBuf /\ outBuf' = outBuf /\ socket' = socket /\ mask' = mask /\ pc[s] = "read"
      /\ pc' = [pc EXCEPT ![s] = "handle"] /\ ~ Readable(s)
  BY DEF ReadNoMore
<1>3. pc'[s] = "handle" /\ pc'[p] = pc[p]
  BY <1>0, <1>1, <1>2 DEF TypeInv
<1>4. PeerStays(p)
  BY <1>2, <1>3 DEF PeerStays
<1>5. Sock(s) = 0
  BY <1>2 DEF Readable, Sock
<1>6. (Way(s) - WholeCells(m, In(s))) + Ahead(m, p) <= SocketFull(m) + Allowed(m, p)
  BY <1>0, <1>1, <1>2, <1>5, SocketEmpty
<1>7. /\ In(s)' = In(s) /\ Sock(s)' = Sock(s) /\ Sock(p)' = Sock(p) /\ Out(s)' = Out(s) /\ Passed(s)' = Passed(s)
      /\ Writing(s)' = 0 /\ Writing(s) = 0 /\ Due(m, s)' = WholeCells(m, In(s)) /\ Allowed(m, s)' = 0
  <2>1. In(s)' = In(s) /\ Sock(s)' = Sock(s) /\ Sock(p)' = Sock(p) /\ Out(s)' = Out(s) /\ Passed(s)' = Passed(s)
    BY <1>2 DEF In, Sock, Out, Passed
  <2>2. Due(m, s)' = WholeCells(m, In(s)')
    BY <1>3 DEF Due, WholeCells
  <2> QED BY <1>2, <1>3, <2>1, <2>2 DEF Writing, Allowed
<1>8. ((In(s)' + Sock(s)' + Writing(p)) - Due(m, s)') + (Ahead(m, p) + 0) <= SocketFull(m) + (Allowed(m, s)' + Allowed(m, p))
  <2>1. In(s)' + Sock(s)' + Writing(p) = Way(s)
    BY <1>0, <1>7, BeforeNumbers
  <2>2. Ahead(m, p) \in Int /\ Allowed(m, p) \in Int
    BY <1>0, BeforeNumbers
  <2> QED BY <1>6, <1>7, <2>1, <2>2
<1>9. /\ Sock(p)' + Writing(s)' = Sock(p) + Writing(s) + 0 /\ Multiple(m, 0) /\ 0 \in Nat
      /\ Sock(s)' <= SocketCells /\ Sock(p)' <= SocketCells
      /\ Multiple(m, In(s)' + Sock(s)' + Writing(p))
      /\ Multiple(m, Passed(s)' + Out(s)')
  BY <1>0, <1>7, BeforeNumbers
<1>10. "in" \in mask'[s] /\ Passed(s)' = 0
  BY <1>1, <1>2, <1>7 DEF RegularOf
<1> QED BY <1>0, <1>1, <1>3, <1>4, <1>8, <1>9, <1>10, StepBalanced

LEMMA HandledBalanced ==
  ASSUME NEW m \in Size1, NEW s \in Sides, Before(m, s), Handled(s)
  PROVE  Balanced(m, s)'
<1>0. PICK p \in Sides : p = Peer(s) /\ Peer(p) = s /\ p # s
  BY DEF Before
<1>1. /\ TypeInv /\ TypeInv' /\ Balanced(m, s) /\ RegularOf(m, s) /\ RegularOf(m, p) /\ ConnInv /\ OneSizeSent(m)
      /\ s \notin closed
  BY <1>0, BeforeNumbers DEF Before
<1>2. /\ inBuf' = inBuf /\ outBuf' = outBuf /\ socket' = socket /\ mask' = mask /\ pc[s] = "handle"
      /\ pc' = [pc EXCEPT ![s] = "arm"] /\ ~ IsComplete(inBuf[s])
  BY DEF Handled
<1>3. pc'[s] = "arm" /\ pc'[p] = pc[p]
  BY <1>0, <1>1, <1>2 DEF TypeInv
<1>4. PeerStays(p)
  BY <1>2, <1>3 DEF PeerStays
<1>5. WholeCells(m, In(s)) = 0
  BY <1>0, <1>1, <1>2, InputShort, WholeNone, BeforeNumbers
<1>6. /\ In(s)' = In(s) /\ Sock(s)' = Sock(s) /\ Sock(p)' = Sock(p) /\ Out(s)' = Out(s) /\ Passed(s)' = Passed(s)
      /\ Writing(s)' = 0 /\ Writing(s) = 0 /\ Due(m, s)' = 0 /\ Due(m, s) = 0 /\ Allowed(m, s)' = 0 /\ Allowed(m, s) = 0
  BY <1>2, <1>3, <1>5 DEF In, Sock, Out, Passed, Writing, Due, Allowed
<1>7. /\ Sock(p)' + Writing(s)' = Sock(p) + Writing(s) + 0 /\ Multiple(m, 0) /\ 0 \in Nat
      /\ Sock(s)' <= SocketCells /\ Sock(p)' <= SocketCells
      /\ Multiple(m, In(s)' + Sock(s)' + Writing(p))
      /\ Multiple(m, Passed(s)' + Out(s)')
      /\ ((In(s)' + Sock(s)' + Writing(p)) - Due(m, s)') + (Ahead(m, p) + 0) <= SocketFull(m) + (Allowed(m, s)' + Allowed(m, p))
  BY <1>0, <1>6, BeforeNumbers
<1>8. "in" \in mask'[s] /\ Passed(s)' = 0
  BY <1>1, <1>2, <1>6 DEF RegularOf
<1> QED BY <1>0, <1>1, <1>3, <1>4, <1>7, <1>8, StepBalanced

\* What was put in the output buffer is written from now on.
LEMMA ArmBalanced ==
  ASSUME NEW m \in Size1, NEW s \in Sides, Before(m, s), Arm(s)
  PROVE  Balanced(m, s)'
<1>0. PICK p \in Sides : p = Peer(s) /\ Peer(p) = s /\ p # s
  BY DEF Before
<1>1. /\ TypeInv /\ TypeInv' /\ Balanced(m, s) /\ RegularOf(m, s) /\ RegularOf(m, p) /\ RoomOf(s)
  BY <1>0, BeforeNumbers DEF Before, ConnInv
<1>2. /\ inBuf' = inBuf /\ outBuf' = outBuf /\ socket' = socket /\ pc[s] = "arm"
      /\ mask' = [mask EXCEPT ![s] = IF IsComplete(outBuf[s]) THEN {"in", "out"} ELSE {"in"}]
      /\ pc' = [pc EXCEPT ![s] = IF IsComplete(outBuf[s]) THEN "write" ELSE "wait"]
  BY DEF Arm, Setup
<1>3. pc'[s] \in {"write", "wait"} /\ pc'[p] = pc[p] /\ "in" \in mask'[s] /\ mask'[p] = mask[p]
  BY <1>0, <1>1, <1>2 DEF TypeInv, Before
<1>4. PeerStays(p)
  BY <1>2, <1>3 DEF PeerStays
<1> DEFINE g == IF pc'[s] = "write" THEN Out(s) ELSE 0
<1>5. /\ In(s)' = In(s) /\ Sock(s)' = Sock(s) /\ Sock(p)' = Sock(p) /\ Out(s)' = Out(s) /\ Passed(s)' = Passed(s)
      /\ Writing(s)' = g /\ Writing(s) = 0 /\ Due(m, s)' = 0 /\ Due(m, s) = 0 /\ Allowed(m, s)' = BufferFull(m) /\ Allowed(m, s) = 0
  <2>1. In(s)' = In(s) /\ Sock(s)' = Sock(s) /\ Sock(p)' = Sock(p) /\ Out(s)' = Out(s) /\ Passed(s)' = Passed(s)
    BY <1>2 DEF In, Sock, Out, Passed
  <2>2. BufferFull(m)' = BufferFull(m)
    BY DEF BufferFull, WholeCells
  <2> QED BY <1>2, <1>3, <2>1, <2>2 DEF Writing, Due, Allowed
<1>6. g \in Nat /\ Multiple(m, g) /\ g <= BufferFull(m)
  <2>1. Passed(s) = 0 /\ Out(s) \in Nat /\ Multiple(m, Out(s)) /\ Multiple(m, 0)
    <3>1. Passed(s) = 0
      BY <1>1, <1>2 DEF RegularOf
    <3>2. Out(s) \in Nat /\ Passed(s) + Out(s) = Out(s)
      BY <1>0, <3>1, BeforeNumbers
    <3> QED BY <1>0, <3>1, <3>2, BeforeNumbers
  <2>2. Out(s) <= BufferCells
    <3>1. Passed(s) + Out(s) <= BufferCells
      BY <1>1 DEF RoomOf, Passed, Out
    <3> QED BY <2>1, <3>1
  <2>3. Out(s) < BufferFull(m) + m /\ BufferFull(m) \in Int /\ Multiple(m, BufferFull(m))
    BY <1>1, <2>1, <2>2, FullOnes
  <2>4. Out(s) <= BufferFull(m)
    BY <1>1, <2>1, <2>3, Multiples
  <2>5. 0 <= BufferFull(m)
    BY <1>1, FullOnes
  <2> QED BY <2>1, <2>4, <2>5
<1> HIDE DEF g
<1>7. /\ Sock(p)' + Writing(s)' = Sock(p) + Writing(s) + g
      /\ Sock(s)' <= SocketCells /\ Sock(p)' <= SocketCells
      /\ Multiple(m, In(s)' + Sock(s)' + Writing(p))
      /\ Multiple(m, Passed(s)' + Out(s)')
      /\ ((In(s)' + Sock(s)' + Writing(p)) - Due(m, s)') + (Ahead(m, p) + g) <= SocketFull(m) + (Allowed(m, s)' + Allowed(m, p))
  BY <1>0, <1>5, <1>6, BeforeNumbers
<1>8. Passed(s)' = 0
  BY <1>1, <1>2, <1>5 DEF RegularOf
<1> QED BY <1>0, <1>1, <1>3, <1>4, <1>6, <1>7, <1>8, StepBalanced

LEMMA WrittenBalanced ==
  ASSUME NEW m \in Size1, NEW s \in Sides, Before(m, s), Written(s)
  PROVE  Balanced(m, s)'
<1>0. PICK p \in Sides : p = Peer(s) /\ Peer(p) = s /\ p # s
  BY DEF Before
<1>1. TypeInv /\ TypeInv' /\ Balanced(m, s) /\ OneSizeSent(m)'
  BY <1>0, BeforeNumbers DEF Before
<1>2. /\ inBuf' = inBuf /\ outBuf' = [outBuf EXCEPT ![s] = Empty] /\ socket' = socket /\ pc[s] = "write"
      /\ mask' = [mask EXCEPT ![s] = {"in"}] /\ pc' = [pc EXCEPT ![s] = "wait"] /\ outBuf[s].cells = <<>>
  BY DEF Written, Setup
<1>3. /\ pc'[s] = "wait" /\ pc'[p] = pc[p] /\ "in" \in mask'[s] /\ mask'[p] = mask[p]
      /\ outBuf'[s] = Empty /\ outBuf'[p] = outBuf[p]
  BY <1>0, <1>1, <1>2 DEF TypeInv, Before
<1>4. PeerStays(p)
  BY <1>2, <1>3 DEF PeerStays
<1>5. /\ In(s)' = In(s) /\ Sock(s)' = Sock(s) /\ Sock(p)' = Sock(p) /\ Out(s)' = 0 /\ Passed(s)' = 0
      /\ Writing(s)' = 0 /\ Writing(s) = 0 /\ Due(m, s)' = 0 /\ Due(m, s) = 0 /\ Allowed(m, s)' = Allowed(m, s)
  <2>1. Empty.cells = <<>> /\ Empty.skip = 0 /\ Len(<<>>) = 0
    BY DEF Empty
  <2>2. In(s)' = In(s) /\ Sock(s)' = Sock(s) /\ Sock(p)' = Sock(p) /\ Out(s)' = 0 /\ Passed(s)' = 0 /\ Out(s) = 0
    BY <1>2, <1>3, <2>1 DEF In, Sock, Out, Passed
  <2>3. BufferFull(m)' = BufferFull(m)
    BY DEF BufferFull, WholeCells
  <2> QED BY <1>2, <1>3, <2>2, <2>3 DEF Writing, Due, Allowed
<1>6. /\ Sock(p)' + Writing(s)' = Sock(p) + Writing(s) + 0 /\ Multiple(m, 0) /\ 0 \in Nat
      /\ Sock(s)' <= SocketCells /\ Sock(p)' <= SocketCells
      /\ Multiple(m, In(s)' + Sock(s)' + Writing(p))
      /\ Multiple(m, Passed(s)' + Out(s)')
      /\ ((In(s)' + Sock(s)' + Writing(p)) - Due(m, s)') + (Ahead(m, p) + 0) <= SocketFull(m) + (Allowed(m, s)' + Allowed(m, p))
  BY <1>0, <1>5, BeforeNumbers
<1> QED BY <1>0, <1>1, <1>3, <1>4, <1>5, <1>6, StepBalanced

\* Cells move from the socket to the buffer; what fills the buffer is due.
LEMMA ReadChunkBalanced ==
  ASSUME NEW m \in Size1, NEW s \in Sides, Before(m, s), ReadChunk(s)
  PROVE  Balanced(m, s)'
<1> DEFINE n == Min({Chunk, Free(inBuf[s]), Len(socket[s])})
           f == SubSeq(socket[s], 1, n)
           r == SubSeq(socket[s], n + 1, Len(socket[s]))
           q == inBuf[s].cells \o f
<1>0. PICK p \in Sides : p = Peer(s) /\ Peer(p) = s /\ p # s
  BY DEF Before
<1>1. /\ TypeInv /\ TypeInv' /\ Balanced(m, s) /\ RegularOf(m, s) /\ RegularOf(m, p)
  BY <1>0, BeforeNumbers DEF Before
<1>2. inBuf[s].cells \in Seq(Cell) /\ socket[s] \in Seq(Cell) /\ inBuf[s] \in Buffer /\ inBuf \in [Sides -> Buffer]
  BY <1>1, BufferProperties DEF TypeInv
<1>3. inBuf[s].skip = 0 /\ Free(inBuf[s]) = BufferCells - In(s) /\ In(s) \in Nat /\ Sock(s) \in Nat
  <2>1. inBuf[s].skip = 0
    BY <1>1 DEF RegularOf, ReadChunk
  <2>2. In(s) \in Nat /\ Sock(s) \in Nat /\ BufferCells \in Nat
    BY <1>0, BeforeNumbers, Capacities
  <2>3. Free(inBuf[s]) = BufferCells - 0 - In(s)
    BY <2>1 DEF Free, In
  <2> QED BY <2>1, <2>2, <2>3
<1>4. n \in 1..Sock(s) /\ n \in 0..Len(socket[s])
  <2>1. Chunk \in Int /\ Free(inBuf[s]) \in Int /\ Len(socket[s]) \in Int /\ Len(socket[s]) = Sock(s)
    BY <1>3, Capacities DEF Sock
  <2>2. n \in {Chunk, Free(inBuf[s]), Len(socket[s])} /\ n <= Len(socket[s])
    BY <2>1, MinOfThree
  <2>3. n > 0
    BY DEF ReadChunk
  <2> HIDE DEF n
  <2>4. n \in Int
    BY <2>1, <2>2
  <2> QED BY <2>1, <2>2, <2>3, <2>4
<1>5. /\ inBuf' = [inBuf EXCEPT ![s] = [inBuf[s] EXCEPT !.cells = q]] /\ socket' = [socket EXCEPT ![s] = r]
      /\ pc' = [pc EXCEPT ![s] = IF Free(inBuf[s]) - n = 0 THEN "handle" ELSE "read"]
      /\ outBuf' = outBuf /\ mask' = mask /\ pc[s] = "read"
  BY DEF ReadChunk
<1> HIDE DEF n
<1>6. f \in Seq(Cell) /\ Len(f) = n /\ Len(r) = Sock(s) - n
  BY <1>2, <1>4, Cut DEF Sock
<1> HIDE DEF f, r
<1>7. Len(q) = In(s) + n
  BY <1>2, <1>6, ConcatProperties DEF In
<1> HIDE DEF q
<1>8. [inBuf[s] EXCEPT !.cells = q] = [skip |-> 0, cells |-> q]
  BY <1>2, <1>3, NewCells
<1>9. /\ inBuf'[s] = [skip |-> 0, cells |-> q] /\ inBuf'[p] = inBuf[p] /\ socket'[s] = r /\ socket'[p] = socket[p]
      /\ pc'[s] = (IF Free(inBuf[s]) - n = 0 THEN "handle" ELSE "read") /\ pc'[p] = pc[p]
  BY <1>0, <1>1, <1>2, <1>5, <1>8 DEF TypeInv
<1>10. PeerStays(p)
  BY <1>5, <1>9 DEF PeerStays
<1>11. /\ In(s)' = In(s) + n /\ Sock(s)' = Sock(s) - n /\ Sock(p)' = Sock(p) /\ Out(s)' = Out(s) /\ Passed(s)' = Passed(s)
       /\ Writing(s)' = 0 /\ Writing(s) = 0 /\ inBuf'[s].skip = 0
  BY <1>5, <1>6, <1>7, <1>9 DEF In, Sock, Out, Passed, Writing
<1>12. /\ Due(m, s) = 0 /\ Allowed(m, s) = BufferFull(m)
       /\ \/ pc'[s] = "read" /\ Due(m, s)' = 0 /\ Allowed(m, s)' = BufferFull(m)
          \/ pc'[s] = "handle" /\ Due(m, s)' = BufferFull(m) /\ Allowed(m, s)' = 0
  <2>1. BufferFull(m)' = BufferFull(m) /\ \A x : WholeCells(m, x)' = WholeCells(m, x)
    BY DEF BufferFull, WholeCells
  <2>2. CASE Free(inBuf[s]) - n = 0
    <3>1. In(s) + n = BufferCells
      BY <1>3, <1>4, <2>2, Capacities
    <3>2. pc'[s] = "handle"
      BY <1>9, <2>2
    <3>3. Due(m, s)' = WholeCells(m, In(s)')
      BY <3>2 DEF Due, WholeCells
    <3>4. Due(m, s)' = BufferFull(m)
      BY <1>11, <3>1, <3>3 DEF BufferFull
    <3> QED BY <1>5, <3>2, <3>4 DEF Due, Allowed
  <2>3. CASE Free(inBuf[s]) - n # 0
    BY <1>5, <1>9, <2>1, <2>3 DEF Due, Allowed
  <2> QED BY <2>2, <2>3
<1>13. In(s)' + Sock(s)' + Writing(p) = Way(s) /\ Way(s) \in Nat /\ Ahead(m, s) = Way(s)
  <2>1. /\ In(s) \in Int /\ Sock(s) \in Int /\ Writing(p) \in Int /\ Way(s) \in Nat
        /\ Way(s) = In(s) + Sock(s) + Writing(p) /\ Ahead(m, s) = Way(s) - Due(m, s)
    BY <1>0, BeforeNumbers
  <2>2. n \in Int
    BY <1>4
  <2> QED BY <1>11, <1>12, <2>1, <2>2
<1>14. ((In(s)' + Sock(s)' + Writing(p)) - Due(m, s)') + (Ahead(m, p) + 0) <= SocketFull(m) + (Allowed(m, s)' + Allowed(m, p))
  <2>1. Way(s) + Ahead(m, p) <= SocketFull(m) + (BufferFull(m) + Allowed(m, p))
    BY <1>0, <1>12, <1>13, BeforeNumbers
  <2>2. /\ Way(s) \in Int /\ Ahead(m, p) \in Int /\ SocketFull(m) \in Int /\ BufferFull(m) \in Int /\ Allowed(m, p) \in Int
    BY <1>0, BeforeNumbers
  <2> QED BY <1>12, <1>13, <2>1, <2>2
<1>15. /\ Sock(p)' + Writing(s)' = Sock(p) + Writing(s) + 0 /\ Multiple(m, 0) /\ 0 \in Nat
       /\ Sock(s)' <= SocketCells /\ Sock(p)' <= SocketCells
       /\ Multiple(m, In(s)' + Sock(s)' + Writing(p)) /\ Multiple(m, Passed(s)' + Out(s)')
  <2>1. Sock(s) \in Int /\ n \in Int /\ n >= 0 /\ SocketCells \in Int
    BY <1>3, <1>4, Capacities
  <2> QED BY <1>0, <1>11, <1>13, <2>1, BeforeNumbers
<1>16. "in" \in mask'[s] /\ pc'[s] # "gone" /\ Passed(s)' = 0
  BY <1>1, <1>5, <1>11, <1>12 DEF RegularOf
<1> QED BY <1>0, <1>1, <1>10, <1>11, <1>14, <1>15, <1>16, StepBalanced

\* Cells move from the buffer to the peer's socket.
LEMMA WriteChunkBalanced ==
  ASSUME NEW m \in Size1, NEW s \in Sides, Before(m, s), WriteChunk(s)
  PROVE  Balanced(m, s)'
<1>0. PICK p \in Sides : p = Peer(s) /\ Peer(p) = s /\ p # s
  BY DEF Before
<1> DEFINE n == Min({Chunk, Len(outBuf[s].cells), SocketCells - Len(socket[p])})
           f == SubSeq(outBuf[s].cells, 1, n)
           r == SubSeq(outBuf[s].cells, n + 1, Len(outBuf[s].cells))
           q == socket[p] \o f
<1>1. /\ TypeInv /\ TypeInv' /\ Balanced(m, s) /\ RegularOf(m, s) /\ RegularOf(m, p)
  BY <1>0, BeforeNumbers DEF Before
<1>2. outBuf[s].cells \in Seq(Cell) /\ socket[p] \in Seq(Cell)
  BY <1>1, BufferProperties
<1>3. Out(s) \in Nat /\ Passed(s) \in Nat /\ Sock(p) \in Nat /\ SocketCells \in Nat
  BY <1>0, BeforeNumbers, Capacities
<1>4. n \in 1..Out(s) /\ n <= SocketCells - Sock(p) /\ n \in 0..Len(outBuf[s].cells)
  <2>1. Chunk \in Int /\ Len(outBuf[s].cells) \in Int /\ SocketCells - Len(socket[p]) \in Int
        /\ Len(outBuf[s].cells) = Out(s) /\ Len(socket[p]) = Sock(p)
    BY <1>3, Capacities DEF Out, Sock
  <2>2. /\ n \in {Chunk, Len(outBuf[s].cells), SocketCells - Len(socket[p])}
        /\ n <= Len(outBuf[s].cells) /\ n <= SocketCells - Len(socket[p])
    BY <2>1, MinOfThree
  <2>3. n > 0
    BY <1>0 DEF WriteChunk
  <2> HIDE DEF n
  <2>4. n \in Int
    BY <2>1, <2>2
  <2> QED BY <2>1, <2>2, <2>3, <2>4
<1>5. /\ socket' = [socket EXCEPT ![p] = q] /\ outBuf' = [outBuf EXCEPT ![s] = [skip |-> outBuf[s].skip + n, cells |-> r]]
      /\ inBuf' = inBuf /\ mask' = mask /\ pc' = pc /\ pc[s] = "write"
  BY <1>0, <1>1 DEF WriteChunk, TypeInv
<1> HIDE DEF n
<1>6. f \in Seq(Cell) /\ Len(f) = n /\ Len(r) = Out(s) - n
  BY <1>2, <1>4, Cut DEF Out
<1> HIDE DEF f, r
<1>7. Len(q) = Sock(p) + n
  BY <1>2, <1>6, ConcatProperties DEF Sock
<1> HIDE DEF q
<1>8. /\ outBuf'[s] = [skip |-> outBuf[s].skip + n, cells |-> r] /\ outBuf'[p] = outBuf[p]
      /\ socket'[p] = q /\ socket'[s] = socket[s]
  BY <1>0, <1>1, <1>5 DEF TypeInv
<1>9. PeerStays(p)
  BY <1>5, <1>8 DEF PeerStays
<1>10. /\ In(s)' = In(s) /\ Sock(s)' = Sock(s) /\ Sock(p)' = Sock(p) + n /\ Out(s)' = Out(s) - n /\ Passed(s)' = Passed(s) + n
       /\ Writing(s)' = Out(s) - n /\ Writing(s) = Out(s) /\ Due(m, s)' = 0 /\ Due(m, s) = 0 /\ Allowed(m, s)' = Allowed(m, s)
  <2>1. /\ In(s)' = In(s) /\ Sock(s)' = Sock(s) /\ Sock(p)' = Sock(p) + n
        /\ Out(s)' = Out(s) - n /\ Passed(s)' = Passed(s) + n
    BY <1>5, <1>6, <1>7, <1>8 DEF In, Sock, Out, Passed
  <2>2. BufferFull(m)' = BufferFull(m)
    BY DEF BufferFull, WholeCells
  <2> QED BY <1>5, <2>1, <2>2 DEF Writing, Due, Allowed
<1>11. /\ Passed(s)' + Out(s)' = Passed(s) + Out(s) /\ Sock(p)' + Writing(s)' = Sock(p) + Writing(s) + 0
       /\ Sock(p)' <= SocketCells
  <2>1. n \in Int
    BY <1>4
  <2> QED BY <1>3, <1>4, <1>10, <2>1
<1>12. /\ Multiple(m, 0) /\ 0 \in Nat /\ Sock(s)' <= SocketCells
       /\ Multiple(m, In(s)' + Sock(s)' + Writing(p)) /\ Multiple(m, Passed(s)' + Out(s)')
       /\ ((In(s)' + Sock(s)' + Writing(p)) - Due(m, s)') + (Ahead(m, p) + 0) <= SocketFull(m) + (Allowed(m, s)' + Allowed(m, p))
  BY <1>0, <1>10, <1>11, BeforeNumbers
<1>13. "in" \in mask'[s] /\ pc'[s] = "write"
  BY <1>1, <1>5 DEF RegularOf
<1> QED BY <1>0, <1>1, <1>9, <1>11, <1>12, <1>13, StepBalanced

\* A message is taken; it was due.
LEMMA HandleBalanced ==
  ASSUME NEW m \in Size1, NEW s \in Sides, Before(m, s), Handle(s)
  PROVE  Balanced(m, s)'
<1>0. PICK p \in Sides : p = Peer(s) /\ Peer(p) = s /\ p # s
  BY DEF Before
<1>1. /\ TypeInv /\ TypeInv' /\ Balanced(m, s) /\ RegularOf(m, s) /\ RegularOf(m, p) /\ OneSizeSent(m)
      /\ OneSizeSent(m)' /\ PipeOf(s) /\ RoomOf(p) /\ s \notin closed
  BY <1>0, BeforeNumbers DEF Before, ConnInv
<1>2. inBuf[s].cells \in Seq(Cell) /\ In(s) \in Nat /\ m \in Nat /\ m >= 2
  BY <1>0, <1>1, BufferProperties, BeforeNumbers
<1>3. inBuf[s].cells # <<>> /\ inBuf[s].cells[1][1] = m /\ m <= In(s)
  <2>1. Len(inBuf[s].cells) >= HeadCells /\ Len(inBuf[s].cells) >= inBuf[s].cells[1][1]
    BY DEF Handle, IsComplete
  <2>2. inBuf[s].cells # <<>>
    BY <1>2, <2>1 DEF HeadCells
  <2>3. inBuf[s].cells[1][1] = m
    BY <1>0, <1>1, <2>2, FirstSize
  <2> QED BY <1>2, <2>1, <2>2, <2>3 DEF In
<1> DEFINE r == SubSeq(inBuf[s].cells, m + 1, Len(inBuf[s].cells))
<1>4. /\ inBuf' = [inBuf EXCEPT ![s] = [skip |-> inBuf[s].skip + m, cells |-> r]]
      /\ socket' = socket /\ mask' = mask /\ pc' = pc /\ pc[s] = "handle"
  BY <1>1, <1>3 DEF Handle, TypeInv
<1>5. Len(r) = In(s) - m
  <2>1. m \in 0..Len(inBuf[s].cells)
    BY <1>2, <1>3 DEF In
  <2> QED BY <1>2, <2>1, Cut DEF In
<1> HIDE DEF r
<1>6. inBuf'[s] = [skip |-> inBuf[s].skip + m, cells |-> r] /\ inBuf'[p] = inBuf[p]
  BY <1>0, <1>1, <1>4 DEF TypeInv
<1>7. /\ Passed(s)' = 0 /\ (Out(s)' = Out(s) \/ Out(s)' = Out(s) + m) /\ outBuf'[p] = outBuf[p]
  <2>1. CASE UNCHANGED <<outBuf, sent>>
    <3>1. Passed(s) = 0
      BY <1>1, <1>4 DEF RegularOf
    <3> QED BY <2>1, <3>1 DEF Passed, Out
  <2>2. CASE MaySend(s) /\ Put(s, Size(s))
    BY <1>0, <1>1, <2>2, PutWhole
  <2> QED BY <2>1, <2>2 DEF Handle
<1>8. PeerStays(p)
  BY <1>4, <1>6, <1>7 DEF PeerStays
<1>9. Multiple(m, Passed(s)' + Out(s)')
  <2>1. Passed(s) = 0 /\ Multiple(m, Passed(s) + Out(s)) /\ Out(s) \in Nat
    BY <1>0, <1>4, BeforeNumbers DEF RegularOf
  <2>2. Multiple(m, Out(s)) /\ Passed(s)' + Out(s)' = Out(s)'
    BY <1>2, <1>7, <2>1
  <2>3. Multiple(m, Out(s) + m)
    BY <1>1, <1>2, <2>1, <2>2, Multiples
  <2> QED BY <1>7, <2>2, <2>3
<1>10. /\ In(s)' = In(s) - m /\ Sock(s)' = Sock(s) /\ Sock(p)' = Sock(p)
       /\ Writing(s)' = 0 /\ Writing(s) = 0 /\ Allowed(m, s)' = Allowed(m, s)
  BY <1>4, <1>5, <1>6 DEF In, Sock, Writing, Allowed
<1>11. Due(m, s) = WholeCells(m, In(s)) /\ Due(m, s)' = Due(m, s) - m /\ Due(m, s) \in Nat
  <2>1. Due(m, s)' = WholeCells(m, In(s)')
    BY <1>4 DEF Due, WholeCells
  <2>2. WholeCells(m, In(s) - m) = WholeCells(m, In(s)) - m
    BY <1>1, <1>2, <1>3, WholeLess
  <2>3. Due(m, s) \in Nat
    BY <1>0, BeforeNumbers
  <2> QED BY <1>4, <1>10, <2>1, <2>2, <2>3 DEF Due
<1>12. Multiple(m, In(s)' + Sock(s)' + Writing(p))
  <2>1. In(s)' + Sock(s)' + Writing(p) = Way(s) - m /\ m <= Way(s) /\ Way(s) \in Nat /\ Multiple(m, Way(s))
    <3>1. /\ In(s) \in Nat /\ Sock(s) \in Nat /\ Writing(p) \in Nat /\ Way(s) \in Nat
          /\ Way(s) = In(s) + Sock(s) + Writing(p) /\ Multiple(m, Way(s))
      BY <1>0, BeforeNumbers
    <3> QED BY <1>2, <1>3, <1>10, <3>1
  <2>2. Multiple(m, Way(s) - m)
    BY <1>1, <1>2, <2>1, Multiples
  <2> QED BY <2>1, <2>2
<1>13. /\ Sock(p)' + Writing(s)' = Sock(p) + Writing(s) + 0 /\ Multiple(m, 0) /\ 0 \in Nat
       /\ Sock(s)' <= SocketCells /\ Sock(p)' <= SocketCells
       /\ ((In(s)' + Sock(s)' + Writing(p)) - Due(m, s)') + (Ahead(m, p) + 0) <= SocketFull(m) + (Allowed(m, s)' + Allowed(m, p))
  BY <1>0, <1>10, <1>11, BeforeNumbers
<1>14. "in" \in mask'[s] /\ pc'[s] = "handle"
  BY <1>1, <1>4 DEF RegularOf
<1> QED BY <1>0, <1>1, <1>7, <1>8, <1>9, <1>12, <1>13, <1>14, StepBalanced

\* What was sent before a step is of the size that all is after it.
LEMMA OneSizeBefore ==
  ASSUME NEW m \in Size1, TypeInv, OneSizeSent(m)', [Next]_vars
  PROVE  OneSizeSent(m)
<1>1. CASE sent' = sent
  BY <1>1 DEF OneSizeSent
<1>2. ASSUME NEW s \in Sides, MaySend(s), Put(s, Size(s))
      PROVE  OneSizeSent(m)
  <2>1. sent' = sent \/ sent' = [sent EXCEPT ![s] = Append(sent[s], Size(s))]
    BY <1>2 DEF Put
  <2>2. CASE sent' = [sent EXCEPT ![s] = Append(sent[s], Size(s))]
    <3> SUFFICES ASSUME NEW t \in Sides, NEW n \in DOMAIN sent[t]
                 PROVE  sent[t][n] = m
      BY DEF OneSizeSent
    <3>1. sent \in [Sides -> Seq(Size1)] /\ sent[t] \in Seq(Size1) /\ Size(s) \in Size1
      <4>1. Len(sent[s]) \in Nat /\ Len(sent[s]) < Len(Sizes[s]) /\ Sizes[s] \in Seq(Size1)
        BY <1>2, Capacities DEF MaySend, TypeInv
      <4>2. Len(sent[s]) + 1 \in 1..Len(Sizes[s])
        BY <4>1
      <4> QED BY <4>1, <4>2 DEF Size, TypeInv
    <3>2. CASE t # s
      <4>1. sent'[t] = sent[t]
        BY <2>2, <3>1, <3>2
      <4> QED BY <4>1 DEF OneSizeSent
    <3>3. CASE t = s
      <4> DEFINE z == sent[t]
                 x == Size(s)
      <4>1. sent'[t] = Append(z, x) /\ z \in Seq(Size1) /\ x \in Size1 /\ n \in DOMAIN z
        BY <2>2, <3>1, <3>3
      <4> HIDE DEF z, x
      <4>2. /\ DOMAIN Append(z, x) = 1..(Len(z) + 1) /\ DOMAIN z = 1..Len(z) /\ Len(z) \in Nat
            /\ \A k \in 1..Len(z) : Append(z, x)[k] = z[k]
        BY <4>1, Appended
      <4>3. n \in DOMAIN sent'[t] /\ sent'[t][n] = z[n]
        BY <4>1, <4>2
      <4>4. z[n] = m
        BY <4>3 DEF OneSizeSent
      <4> QED BY <4>4 DEF z
    <3> QED BY <3>2, <3>3
  <2> QED BY <1>1, <2>1, <2>2
<1>3. ASSUME NEW s \in Sides, Callback(s) \/ Close(s) \/ Send(s)
      PROVE  OneSizeSent(m)
  <2>1. CASE Send(s)
    BY <1>2, <2>1 DEF Send
  <2>2. CASE Handle(s)
    BY <1>1, <1>2, <2>2 DEF Handle
  <2>3. CASE ~ Send(s) /\ ~ Handle(s)
    <3>1. sent' = sent
      BY <1>3, <2>3 DEF Callback, Close, Drop, Wait, ReadChunk, ReadNoMore, ReadThrows, Handled, Arm, WriteChunk,
                        Written, WriteThrows
    <3> QED BY <1>1, <3>1
  <2> QED BY <2>1, <2>2, <2>3
<1>4. CASE Next
  BY <1>3, <1>4 DEF Next
<1>5. CASE UNCHANGED vars
  BY <1>1, <1>5 DEF vars
<1> QED BY <1>4, <1>5

MaskInv == mask \in [Sides -> SUBSET {"in", "out"}] /\ trigger \in Triggers

LEMMA MaskStep == MaskInv /\ [Next]_vars => MaskInv'
<1> SUFFICES ASSUME MaskInv, [Next]_vars
             PROVE  MaskInv'
  OBVIOUS
<1>1. ASSUME NEW s \in Sides, trigger' = trigger, Callback(s) \/ Close(s) \/ Send(s)
      PROVE  MaskInv'
  <2>1. \/ mask' = mask
        \/ \E events \in SUBSET {"in", "out"} : mask' = [mask EXCEPT ![s] = events]
    <3>1. SendMask[trigger][s] \in SUBSET {"in", "out"}
      BY ConnectionAssumption DEF MaskInv
    <3>2. CASE Send(s)
      BY <3>1, <3>2 DEF Send, Setup
    <3>3. CASE Arm(s)
      BY <3>3 DEF Arm, Setup
    <3>4. CASE Written(s)
      BY <3>4 DEF Written, Setup
    <3>5. CASE ~ Send(s) /\ ~ Arm(s) /\ ~ Written(s)
      BY <1>1, <3>5 DEF Callback, Close, Drop, Wait, ReadChunk, ReadNoMore, ReadThrows, Handle, Handled, WriteChunk,
                        WriteThrows
    <3> QED BY <3>2, <3>3, <3>4, <3>5
  <2> QED BY <1>1, <2>1 DEF MaskInv
<1>2. CASE Next
  BY <1>1, <1>2 DEF Next
<1>3. CASE UNCHANGED vars
  BY <1>3 DEF vars, MaskInv
<1> QED BY <1>2, <1>3

LEMMA BalancedStep ==
  ASSUME NEW m \in Size1, NEW s \in Sides, Before(m, s), closed' = {}, Callback(s) \/ Close(s) \/ Send(s)
  PROVE  Balanced(m, s)'
<1>1. CASE Wait(s)
  BY <1>1, WaitBalanced
<1>2. CASE ReadChunk(s)
  BY <1>2, ReadChunkBalanced
<1>3. CASE ReadNoMore(s)
  BY <1>3, ReadNoMoreBalanced
<1>4. CASE Handle(s)
  BY <1>4, HandleBalanced
<1>5. CASE Handled(s)
  BY <1>5, HandledBalanced
<1>6. CASE Arm(s)
  BY <1>6, ArmBalanced
<1>7. CASE WriteChunk(s)
  BY <1>7, WriteChunkBalanced
<1>8. CASE Written(s)
  BY <1>8, WrittenBalanced
<1>9. CASE Send(s)
  BY <1>9, SendBalanced
<1>10. CASE ReadThrows(s) \/ WriteThrows(s) \/ Close(s)
  BY <1>10 DEF ReadThrows, WriteThrows, Close, Drop
<1> QED BY <1>1, <1>2, <1>3, <1>4, <1>5, <1>6, <1>7, <1>8, <1>9, <1>10 DEF Callback

WriteInv == MaskInv /\ (Regular => \A m \in Size1 : SpinInv(m))

LEMMA WriteInvInit == Init => WriteInv
<1> SUFFICES ASSUME Init
             PROVE  WriteInv
  OBVIOUS
<1>1. MaskInv
  BY DEF Init, MaskInv
<1>2. ASSUME NEW m \in Size1
      PROVE  SpinInv(m)
  <2>2. \A s \in Sides : /\ inBuf[s] = Empty /\ outBuf[s] = Empty /\ socket[s] = <<>> /\ pc[s] = "wait"
                          /\ sent[s] = <<>> /\ mask[s] = {"in", "out"}
    BY DEF Init
  <2>3. Empty.cells = <<>> /\ Empty.skip = 0 /\ Len(<<>>) = 0
    BY DEF Empty
  <2>4. \A s \in Sides : In(s) = 0 /\ Sock(s) = 0 /\ Out(s) = 0 /\ Passed(s) = 0 /\ Writing(s) = 0 /\ Due(m, s) = 0
    BY <2>2, <2>3 DEF In, Sock, Out, Passed, Writing, Due
  <2>5. \A s \in Sides : Way(s) = 0 /\ Ahead(m, s) = 0
    BY <2>4, PeerProperties DEF Way, Ahead
  <2>6. \A s \in Sides : RegularOf(m, s)
    <3>1. Multiple(m, 0) /\ 0 + 0 = 0 /\ 0 <= SocketCells
      BY Multiples, Capacities
    <3> SUFFICES ASSUME NEW s \in Sides
                 PROVE  RegularOf(m, s)
      OBVIOUS
    <3>2. Passed(s) + Out(s) = 0 /\ Way(s) = 0 /\ Sock(s) = 0 /\ Passed(s) = 0
      BY <2>4, <2>5
    <3> QED BY <2>2, <3>1, <3>2 DEF RegularOf
  <2>7. \A s \in Sides : Allowed(m, s) \in Nat /\ SocketFull(m) \in Nat
    BY FullOnes DEF Allowed
  <2>8. \A s \in Sides : Balanced(m, s)
    BY <2>5, <2>6, <2>7, PeerProperties DEF Balanced, BoundOf
  <2> QED BY <2>8, ConnectionAssumption DEF SpinInv
<1> QED BY <1>1, <1>2 DEF WriteInv

LEMMA WriteInvStep == ConnInv /\ ConnInv' /\ WriteInv /\ [Next]_vars => WriteInv'
<1> SUFFICES ASSUME ConnInv, ConnInv', WriteInv, [Next]_vars
             PROVE  WriteInv'
  OBVIOUS
<1>1. MaskInv'
  BY MaskStep DEF WriteInv
<1>2. trigger' = trigger
  BY DEF Next, vars
<1>3. Regular' => Regular
  BY <1>2 DEF Regular
<1>4. ASSUME Regular, NEW m \in Size1
      PROVE  SpinInv(m)'
  <2>1. TypeInv /\ TypeInv' /\ SpinInv(m) /\ MaskInv
    BY <1>4 DEF ConnInv, WriteInv
  <2>2. ASSUME OneSizeSent(m)'
        PROVE  OneSizeSent(m)
    BY <2>1, <2>2, OneSizeBefore
  <2>3. ASSUME OneSizeSent(m)', closed' = {}
        PROVE  \E s \in Sides : Balanced(m, s)'
    <3>1. CASE UNCHANGED vars
      <4>1. closed = {}
        BY <2>3, <3>1 DEF vars
      <4>2. PICK s \in Sides : Balanced(m, s)
        BY <2>1, <2>2, <2>3, <4>1 DEF SpinInv
      <4>3. \A t \in Sides : /\ In(t)' = In(t) /\ Sock(t)' = Sock(t) /\ Out(t)' = Out(t) /\ Passed(t)' = Passed(t)
                              /\ Writing(t)' = Writing(t)
        BY <3>1 DEF vars, In, Sock, Out, Passed, Writing
      <4>4. BufferFull(m)' = BufferFull(m) /\ SocketFull(m)' = SocketFull(m)
        BY DEF BufferFull, SocketFull, WholeCells
      <4>5. \A t \in Sides : Due(m, t)' = Due(m, t) /\ Allowed(m, t)' = Allowed(m, t)
        BY <3>1, <4>4 DEF vars, Due, Allowed, WholeCells, In
      <4>6. \A t \in Sides : Way(t)' = Way(t) /\ Ahead(m, t)' = Ahead(m, t)
        BY <4>3, <4>5, PeerProperties DEF Way, Ahead
      <4>7. \A t \in Sides : RegularOf(m, t) => RegularOf(m, t)'
        BY <3>1, <4>3, <4>6 DEF vars, RegularOf
      <4>8. BoundOf(m, s) => BoundOf(m, s)'
        BY <4>4, <4>5, <4>6, PeerProperties DEF BoundOf
      <4>9. Balanced(m, s)'
        BY <4>2, <4>7, <4>8, PeerProperties DEF Balanced
      <4> QED BY <4>9
    <3>2. CASE Next
      <4>1. PICK s \in Sides : Callback(s) \/ Close(s) \/ Send(s)
        BY <3>2 DEF Next
      <4>2. closed = {}
        BY <2>3, <4>1 DEF Callback, Close, Send, Drop, Wait, ReadChunk, ReadNoMore, ReadThrows, Handle, Handled, Arm,
                          WriteChunk, Written, WriteThrows
      <4>3. Balanced(m, s)
        BY <2>1, <2>2, <2>3, <4>2, EitherSide
      <4>4. Before(m, s)
        BY <1>4, <2>1, <2>2, <2>3, <4>2, <4>3, PeerProperties DEF Before, ConnInv, MaskInv
      <4>5. Balanced(m, s)'
        BY <2>3, <4>1, <4>4, BalancedStep
      <4> QED BY <4>5
    <3> QED BY <3>1, <3>2
  <2> QED BY <2>3 DEF SpinInv
<1> QED BY <1>1, <1>3, <1>4 DEF WriteInv

\* Two threads never wait for each other in write(): not when a callback that
\* could write reads first, all messages so far have one size and a socket holds two buffers
\* (NonBlockConnection_T::perform, writeBytes).
THEOREM NeverBothWrite == Spec => []NeverBothSpin
<1>1. Init => ConnInv /\ WriteInv
  BY ConnInvInit, WriteInvInit
<1>2. (ConnInv /\ WriteInv) /\ [Next]_vars => (ConnInv /\ WriteInv)'
  BY ConnInvStep, WriteInvStep
<1>3. ConnInv /\ WriteInv => NeverBothSpin
  <2> SUFFICES ASSUME ConnInv, WriteInv, OneSize, Regular
               PROVE  ~BothSpin
    BY DEF NeverBothSpin, Regular
  <2>1. PICK m \in Size1 : OneSizeSent(m)
    BY SizeSent DEF ConnInv
  <2> QED BY <2>1, SpinsNever DEF WriteInv
<1> QED BY <1>1, <1>2, <1>3, PTL DEF Spec
=============================================================================
