----------------------------- MODULE Connection -----------------------------
(* A connection of the ILM server or the proxy manager: on both sides a        *)
(* non-blocking socket with an input and an output buffer, watched by epoll,   *)
(* whose callback reads, handles what is complete and writes what is waiting.  *)
(* Each side is one thread. The connection between the ILM and the proxy       *)
(* manager is level-triggered; the ILM's to game servers, role servers and the *)
(* console and the proxy manager's to proxies and the login server are         *)
(* edge-triggered, here with a peer of the same kind.                          *)
(*                                                                             *)
(* The data are cells: a cell stands for a few bytes of a message and carries  *)
(* the message's size, its number among its sender's messages and its own      *)
(* place. The first HeadCells cells hold the length and the type.              *)
EXTENDS Integers, Sequences, SequencesExt, FiniteSetsExt

CONSTANTS
  Sides,        \* the two processes
  Sizes,        \* per side: sizes of the messages it sends, in cells
  BufferCells,  \* capacity of an input or an output buffer
  SocketCells,  \* what the kernel holds on the way to one side
  Chunk,        \* cells moved by one read or write call
  SendMask,     \* per trigger and side: the events waited for once something was sent
  Triggers,     \* of {"level", "edge"}: how the connection is registered
  Closes        \* of BOOLEAN: whether a side may close its socket

HeadCells == 2

ASSUME ConnectionAssumption ==
    /\ \E a, b \in Sides : a # b /\ Sides = {a, b}
    /\ {BufferCells, SocketCells, Chunk} \subseteq Nat \ {0}
    /\ Closes \subseteq BOOLEAN /\ Triggers \subseteq {"level", "edge"}
    /\ SendMask \in [Triggers -> [Sides -> SUBSET {"in", "out"}]]
    /\ Sizes \in [Sides -> Seq(Nat \ (0..HeadCells - 1))]

VARIABLES
  inBuf, outBuf,  \* per side: cells already taken that still occupy the buffer, and cells held
  socket,         \* per side: cells on the way to it
  ready,          \* per side: epoll has the connection on its ready list
  mask,           \* per side: the events it waits for, of {"in", "out"}
  pc,             \* per side: where its thread is
  sent,           \* per side: sizes of the messages its output buffer accepted
  handled,        \* per side: the messages its handlers got
  closed,         \* sides that have closed the socket or removed the connection
  trigger, mayClose  \* of this behaviour: the registration, and whether a side may close

vars == <<inBuf, outBuf, socket, ready, mask, pc, sent, handled, closed, trigger, mayClose>>

Peer(s) == CHOOSE p \in Sides : p # s
Free(buf) == BufferCells - buf.skip - Len(buf.cells)
AlignLeft(buf) == [buf EXCEPT !.skip = 0]
Empty == [skip |-> 0, cells |-> <<>>]
Cells(size, n) == [k \in 1..size |-> <<size, n, k>>]

\* getMsgLen: without length and type there is nothing to look at yet.
IsComplete(buf) == Len(buf.cells) >= HeadCells /\ Len(buf.cells) >= buf.cells[1][1]

Readable(s) == socket[s] # <<>> \/ Peer(s) \in closed
Writable(s) == Len(socket[Peer(s)]) < SocketCells \/ Peer(s) \in closed
Happens(s) == {e \in {"in", "out"} : IF e = "in" THEN Readable(s) ELSE Writable(s)}

Init ==
    /\ inBuf = [s \in Sides |-> Empty]
    /\ outBuf = [s \in Sides |-> Empty]
    /\ socket = [s \in Sides |-> <<>>]
    /\ ready = [s \in Sides |-> TRUE]
    /\ mask = [s \in Sides |-> {"in", "out"}]
    /\ pc = [s \in Sides |-> "wait"]
    /\ sent = [s \in Sides |-> <<>>]
    /\ handled = [s \in Sides |-> <<>>]
    /\ closed = {}
    /\ trigger \in Triggers /\ mayClose \in Closes

(* ------------------------------ application -------------------------------- *)

\* The bound: a side sends the messages whose sizes are given.
MaySend(s) == Len(sent[s]) < Len(Sizes[s])
Size(s) == Sizes[s][Len(sent[s]) + 1]

\* write: a message that does not fit is dropped, and no caller looks.
Put(s, size) ==
    IF Free(AlignLeft(outBuf[s])) >= size
    THEN /\ outBuf' = [outBuf EXCEPT ![s] = [skip |-> 0, cells |-> @.cells \o Cells(size, Len(sent[s]) + 1)]]
         /\ sent' = [sent EXCEPT ![s] = Append(@, size)]
    ELSE /\ outBuf' = [outBuf EXCEPT ![s] = AlignLeft(@)]
         /\ UNCHANGED sent

\* Mutant: the events are changed in the connection and not in epoll.
SetupM(s, events) ==
    /\ mask' = [mask EXCEPT ![s] = events]
    /\ UNCHANGED ready

\* epoll_ctl(MOD): the connection is ready again if what it waits for is there.
Setup(s, events) ==
    /\ mask' = [mask EXCEPT ![s] = events]
    /\ ready' = [ready EXCEPT ![s] = @ \/ Happens(s) \cap events # {}]

Alive(s) == s \notin closed

\* Outside the callback: a command or a notice of the main loop.
Send(s) ==
    /\ Alive(s) /\ pc[s] = "wait"
    /\ MaySend(s) /\ Put(s, Size(s))
    /\ Setup(s, SendMask[trigger][s])
    /\ UNCHANGED <<inBuf, socket, pc, handled, closed>>

\* onException: the connection leaves epoll and is deleted. What is in the
\* buffers is gone; what is in the socket the peer can still read.
Drop(s) ==
    /\ closed' = closed \cup {s}
    /\ pc' = [pc EXCEPT ![s] = "gone"]
    /\ inBuf' = [inBuf EXCEPT ![s] = Empty]
    /\ outBuf' = [outBuf EXCEPT ![s] = Empty]
    /\ socket' = [socket EXCEPT ![s] = <<>>]
    /\ ready' = [ready EXCEPT ![s] = FALSE, ![Peer(s)] = Alive(Peer(s))]
    /\ UNCHANGED <<mask, sent, handled>>

Close(s) ==
    /\ mayClose /\ Alive(s) /\ pc[s] = "wait"
    /\ Drop(s)

(* -------------------------------- callback --------------------------------- *)

\* Mutant: read() does not move what is left to the front.
WaitM(s) ==
    LET events == Happens(s) \cap mask[s] IN
    /\ pc[s] = "wait"
    /\ IF trigger = "edge" THEN ready[s] ELSE events # {}
    /\ ready' = [ready EXCEPT ![s] = FALSE]
    /\ pc' = [pc EXCEPT ![s] = IF "in" \in events THEN "read" ELSE IF "out" \in events THEN "arm" ELSE "wait"]
    /\ UNCHANGED <<inBuf, outBuf, socket, mask, sent, handled, closed>>

\* Mutant: the callback writes before it reads.
WaitM2(s) ==
    LET events == Happens(s) \cap mask[s] IN
    /\ pc[s] = "wait"
    /\ IF trigger = "edge" THEN ready[s] ELSE events # {}
    /\ ready' = [ready EXCEPT ![s] = FALSE]
    /\ pc' = [pc EXCEPT ![s] = IF "out" \in events THEN "arm" ELSE IF "in" \in events THEN "read" ELSE "wait"]
    /\ inBuf' = [inBuf EXCEPT ![s] = IF "out" \notin events /\ "in" \in events THEN AlignLeft(@) ELSE @]
    /\ UNCHANGED <<outBuf, socket, mask, sent, handled, closed>>

\* epoll_wait reports what is waited for and true now: with the level trigger
\* as long as it is true, with the edge trigger once after it became true.
Wait(s) ==
    LET events == Happens(s) \cap mask[s] IN
    /\ pc[s] = "wait"
    /\ IF trigger = "edge" THEN ready[s] ELSE events # {}
    /\ ready' = [ready EXCEPT ![s] = FALSE]
    /\ pc' = [pc EXCEPT ![s] = IF "in" \in events THEN "read" ELSE IF "out" \in events THEN "arm" ELSE "wait"]
    /\ inBuf' = [inBuf EXCEPT ![s] = IF "in" \in events THEN AlignLeft(@) ELSE @]
    /\ UNCHANGED <<outBuf, socket, mask, sent, handled, closed>>

\* One pass of the loop of read(): what the socket has, at most a chunk and at
\* most what is free. Without a free cell the call reads nothing, as at the end
\* of the stream, and throws.
ReadChunk(s) ==
    LET n == Min({Chunk, Free(inBuf[s]), Len(socket[s])})
        room == Free(inBuf[s]) - n
    IN  /\ pc[s] = "read" /\ n > 0
        /\ inBuf' = [inBuf EXCEPT ![s].cells = @ \o SubSeq(socket[s], 1, n)]
        /\ socket' = [socket EXCEPT ![s] = SubSeq(@, n + 1, Len(@))]
        /\ pc' = [pc EXCEPT ![s] = IF room = 0 THEN "handle" ELSE "read"]
        /\ ready' = [ready EXCEPT ![Peer(s)] = Alive(Peer(s))]
        /\ UNCHANGED <<outBuf, mask, sent, handled, closed>>

\* Mutant: the end of the stream is taken for a socket without data.
ReadNoMoreM(s) ==
    /\ pc[s] = "read" /\ Free(inBuf[s]) > 0 /\ socket[s] = <<>>
    /\ pc' = [pc EXCEPT ![s] = "handle"]
    /\ UNCHANGED <<inBuf, outBuf, socket, ready, mask, sent, handled, closed>>

ReadNoMore(s) ==
    /\ pc[s] = "read" /\ Free(inBuf[s]) > 0 /\ ~Readable(s)
    /\ pc' = [pc EXCEPT ![s] = "handle"]
    /\ UNCHANGED <<inBuf, outBuf, socket, ready, mask, sent, handled, closed>>

ReadThrows(s) ==
    /\ pc[s] = "read"
    /\ Free(inBuf[s]) = 0 \/ (socket[s] = <<>> /\ Peer(s) \in closed)
    /\ Drop(s)

\* Mutant: what is taken from the buffer is a cell short of the message.
HandleM(s) ==
    LET size == inBuf[s].cells[1][1] IN
    /\ pc[s] = "handle" /\ IsComplete(inBuf[s])
    /\ inBuf' = [inBuf EXCEPT ![s] = [skip |-> @.skip + size - 1, cells |-> SubSeq(@.cells, size, Len(@.cells))]]
    /\ handled' = [handled EXCEPT ![s] = Append(@, SubSeq(inBuf[s].cells, 1, size))]
    /\ UNCHANGED <<outBuf, sent, socket, ready, mask, pc, closed>>

\* getInputPacket and the handler of the message, which may answer.
Handle(s) ==
    LET size == inBuf[s].cells[1][1] IN
    /\ pc[s] = "handle" /\ IsComplete(inBuf[s])
    /\ inBuf' = [inBuf EXCEPT ![s] = [skip |-> @.skip + size, cells |-> SubSeq(@.cells, size + 1, Len(@.cells))]]
    /\ handled' = [handled EXCEPT ![s] = Append(@, SubSeq(inBuf[s].cells, 1, size))]
    /\ \/ UNCHANGED <<outBuf, sent>>
       \/ MaySend(s) /\ Put(s, Size(s))
    /\ UNCHANGED <<socket, ready, mask, pc, closed>>

Handled(s) ==
    /\ pc[s] = "handle" /\ ~IsComplete(inBuf[s])
    /\ pc' = [pc EXCEPT ![s] = "arm"]
    /\ UNCHANGED <<inBuf, outBuf, socket, ready, mask, sent, handled, closed>>

\* What is waiting is written in the same call: the event type is overwritten.
Arm(s) ==
    /\ pc[s] = "arm"
    /\ Setup(s, IF IsComplete(outBuf[s]) THEN {"in", "out"} ELSE {"in"})
    /\ pc' = [pc EXCEPT ![s] = IF IsComplete(outBuf[s]) THEN "write" ELSE "wait"]
    /\ UNCHANGED <<inBuf, outBuf, socket, sent, handled, closed>>

\* One call of write(2) of the loops of write() and writeBytes(): with a full
\* socket they call again until there is room, and do nothing else.
WriteChunk(s) ==
    LET p == Peer(s)
        n == Min({Chunk, Len(outBuf[s].cells), SocketCells - Len(socket[p])})
    IN  /\ pc[s] = "write" /\ Alive(p) /\ n > 0
        /\ socket' = [socket EXCEPT ![p] = @ \o SubSeq(outBuf[s].cells, 1, n)]
        /\ outBuf' = [outBuf EXCEPT ![s] = [skip |-> @.skip + n, cells |-> SubSeq(@.cells, n + 1, Len(@.cells))]]
        /\ ready' = [ready EXCEPT ![p] = TRUE]
        /\ UNCHANGED <<inBuf, mask, pc, sent, handled, closed>>

Written(s) ==
    /\ pc[s] = "write" /\ outBuf[s].cells = <<>>
    /\ outBuf' = [outBuf EXCEPT ![s] = Empty]
    /\ Setup(s, {"in"})
    /\ pc' = [pc EXCEPT ![s] = "wait"]
    /\ UNCHANGED <<inBuf, socket, sent, handled, closed>>

WriteThrows(s) ==
    /\ pc[s] = "write" /\ outBuf[s].cells # <<>> /\ Peer(s) \in closed
    /\ Drop(s)

Callback(s) ==
    \/ Wait(s) \/ ReadChunk(s) \/ ReadNoMore(s) \/ ReadThrows(s)
    \/ Handle(s) \/ Handled(s) \/ Arm(s)
    \/ WriteChunk(s) \/ Written(s) \/ WriteThrows(s)

Next ==
    /\ \E s \in Sides : Callback(s) \/ Close(s) \/ Send(s)
    /\ UNCHANGED <<trigger, mayClose>>

Spec == Init /\ [][Next]_vars

\* The thread of each side goes on calling epoll_wait and running callbacks.
Fairness == \A s \in Sides : WF_vars(Callback(s) /\ UNCHANGED <<trigger, mayClose>>)

(* ------------------------------- properties -------------------------------- *)

\* The handlers of a side get the messages its peer's buffer accepted: whole, in
\* order and once, however read and write cut them (NonBlockConnection_T,
\* CharBuffer_T).
Framed ==
    \A s \in Sides :
        /\ Len(handled[s]) <= Len(sent[Peer(s)])
        /\ \A i \in DOMAIN handled[s] : handled[s][i] = Cells(sent[Peer(s)][i], i)

\* While nobody closes, no connection is lost: read() never meets a full buffer,
\* since a callback leaves less than one message in it.
KeepsConnection == ~mayClose => closed = {}

Spins(s) == pc[s] = "write" /\ Alive(Peer(s)) /\ outBuf[s].cells # <<>> /\ Len(socket[Peer(s)]) = SocketCells
BothSpin == \A s \in Sides : Spins(s)

\* The messages sent so far have one size.
OneSize == \A s, t \in Sides : \A i \in DOMAIN sent[s], j \in DOMAIN sent[t] : sent[s][i] = sent[t][j]

\* The two threads never wait for each other in write(), when a callback that
\* could write also waits for data, so that it reads first, the messages sent so
\* far have one size, and a socket holds two buffers. With messages of different
\* sizes a callback may handle less than the other one writes, and more and more
\* is under way on both ways. (The proxy manager's notices wait for EPOLLOUT
\* alone: with more than a socket of unread data on both ways that pair can stop.)
NeverBothSpin ==
    OneSize /\ SocketCells >= 2 * BufferCells /\ (\A s \in Sides : "in" \in SendMask[trigger][s]) => ~BothSpin

\* Every message that a buffer accepted is handled by the peer, unless the
\* connection is closed or both threads wait in write(): no event of epoll is
\* missed.
Delivered ==
    \A s \in Sides : \A n \in DOMAIN Sizes[s] :
        Len(sent[s]) >= n ~> Len(handled[Peer(s)]) >= n \/ closed # {} \/ BothSpin

\* A closed connection is noticed by the other side.
LossNoticed == closed # {} ~> closed = Sides
=============================================================================
