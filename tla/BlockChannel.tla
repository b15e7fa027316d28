---------------------------- MODULE BlockChannel ----------------------------
(* The block channel of two game servers, over which a zone's objects move:   *)
(* the server with the lower id connects, a block is a length and a payload,  *)
(* the block thread collects blocks in the list of the server's context, and  *)
(* the command thread takes them in RecvBlock. The command thread carries out *)
(* the orders of the ILM one after the other, and for each hands a request to *)
(* the main thread and waits for its answer.                                  *)
(*                                                                            *)
(* Bytes are pairs: the number of the block and the place in it. HeadBytes of *)
(* them make a length; the connection request is block 0. The library outside *)
(* the repository that reads sockets (SocketHandler) hands any part of what   *)
(* has arrived to OnRead; its queue (MsgQueue) makes a reader wait until there *)
(* is something.                                                              *)
EXTENDS Integers, Sequences, SequencesExt, FiniteSetsExt

CONSTANTS
  HeadBytes,     \* bytes of a length
  RequestBytes,  \* bytes of a connection request after its length
  BlockBytes,    \* sizes of a packed zone
  MaxPlans,      \* bound: orders the ILM gives
  MayDie         \* bound: servers that may die

ASSUME BlockChannelAssumption ==
    /\ {HeadBytes, RequestBytes} \subseteq Nat \ {0}
    /\ BlockBytes \subseteq Nat \ {0} /\ MaxPlans \in Nat

Low == 1    \* connects
High == 2   \* is connected to
Servers == {Low, High}
ASSUME MayDieAssumption == MayDie \subseteq Servers
Peer(s) == Low + High - s

VARIABLES
  plans,             \* the orders given: from, to
  orders,            \* per server: numbers of orders not yet taken up
  pc, job,           \* per server: the command thread and the order it works on
  inQueue, outQueue, \* per server: between command thread and main thread
  context,           \* servers that have a context with a block connection
  hasInit,           \* servers whose end of the connection has m_bHasInit
  wire,              \* per server: bytes on the way to it
  buffer,            \* per server: m_oReadBuffer of its end
  blocks,            \* per server: m_lstBlockDataList
  sent, taken,       \* per server: blocks sent to it, payloads RecvBlock returned to it
  unpacked,          \* orders whose objects the destination has unpacked
  replies,           \* replies to the ILM: order, result
  eaten,             \* servers whose end took bytes of a block for a message
  dead               \* servers that died

ilmVars == <<plans, orders, replies>>
netVars == <<wire, buffer, blocks, context, hasInit, sent, eaten>>
vars == <<ilmVars, netVars, pc, job, inQueue, outQueue, taken, unpacked, dead>>

Bytes(n, length) == [i \in 1..HeadBytes + length |-> <<n, i>>]
Payload(n, length) == [i \in 1..length |-> <<n, HeadBytes + i>>]

Init ==
    /\ plans = <<>>
    /\ orders = [s \in Servers |-> <<>>]
    /\ pc = [s \in Servers |-> IF s = Low THEN "setup" ELSE "idle"]
    /\ job = [s \in Servers |-> 0]
    /\ inQueue = [s \in Servers |-> <<>>]
    /\ outQueue = [s \in Servers |-> <<>>]
    /\ context = {} /\ hasInit = {} /\ eaten = {}
    /\ wire = [s \in Servers |-> <<>>]
    /\ buffer = [s \in Servers |-> <<>>]
    /\ blocks = [s \in Servers |-> <<>>]
    /\ sent = [s \in Servers |-> <<>>]
    /\ taken = [s \in Servers |-> <<>>]
    /\ unpacked = {} /\ replies = {} /\ dead = {}

(* ------------------------------- connecting -------------------------------- *)

\* AllSrvs: a server without maps connects to nobody, one with maps to the
\* servers of higher ids.
SetupConnection(s, hasMaps) ==
    /\ pc[s] = "setup"
    /\ IF hasMaps
       THEN /\ wire' = [wire EXCEPT ![Peer(s)] = Bytes(0, RequestBytes)]
            /\ pc' = [pc EXCEPT ![s] = "response"]
       ELSE /\ pc' = [pc EXCEPT ![s] = "idle"]
            /\ UNCHANGED wire
    /\ UNCHANGED <<ilmVars, buffer, blocks, context, hasInit, sent, eaten, job, inQueue,
                   outQueue, taken, unpacked, dead>>

\* The command thread itself waits for the response; the connection is watched
\* from then on.
InitBlockConnection(s) ==
    /\ pc[s] = "response" /\ Len(wire[s]) = HeadBytes + RequestBytes
    /\ wire' = [wire EXCEPT ![s] = <<>>]
    /\ context' = context \cup {s}
    /\ pc' = [pc EXCEPT ![s] = "idle"]
    /\ UNCHANGED <<ilmVars, buffer, blocks, hasInit, sent, eaten, job, inQueue, outQueue,
                   taken, unpacked, dead>>

(* ------------------------------ block thread ------------------------------- *)

Fresh == [length |-> 0, data |-> <<>>]
\* Mutant: a block must be longer than its length.
IsWholeM(block) == block.length > 0 /\ Len(block.data) > block.length

IsWhole(block) == block.length > 0 /\ Len(block.data) >= block.length

\* What the bytes at a place of a block say when they are read as a length: its
\* length, a result (1), or, in the middle of a zone's objects, anything.
Word(s, byte, guess) ==
    LET n == byte[1]
    IN  IF byte[2] = 1 THEN IF n = 0 THEN RequestBytes ELSE sent[s][n].length
        ELSE IF n > 0 /\ byte[2] = HeadBytes + 1 /\ sent[s][n].type = "result" THEN 1
        ELSE guess

\* InitBlockConn: the size of the message it takes off the buffer, 0 if there is none.
MessageBytes(s, buf, guess) ==
    LET length == Word(s, buf[1], guess)
    IN  IF Len(buf) < HeadBytes \/ Len(buf) < length + HeadBytes THEN 0 ELSE length + HeadBytes

\* A turn of OnRead's loop: the block being collected, or a new one, gets its
\* length and then what there is of its payload; a whole first block wakes the
\* reader.
Turn(s, st, guess) ==
    LET list == IF st.list # <<>> /\ ~IsWhole(Last(st.list)) THEN st.list
                ELSE Append(st.list, Fresh)
        old    == Last(list)
        rest   == IF old.length = 0 THEN SubSeq(st.rest, HeadBytes + 1, Len(st.rest)) ELSE st.rest
        length == IF old.length = 0 THEN Word(s, st.rest[1], guess) ELSE old.length
        size   == Min({Len(rest), length - Len(old.data)})
        new    == Front(list) \o <<[length |-> length, data |-> old.data \o SubSeq(rest, 1, size)]>>
    IN  IF st.rest = <<>> THEN st
        ELSE IF old.length = 0 /\ Len(st.rest) < HeadBytes THEN [st EXCEPT !.list = list]
        ELSE [list |-> new, rest |-> SubSeq(rest, size + 1, Len(rest)),
              signal |-> st.signal \/ IsWhole(Head(new))]

\* The loop ends at an empty buffer or at a part of a length.
Collected(s, list, rest, guess) ==
    LET after[k \in 0..Len(rest)] ==
          IF k = 0 THEN [list |-> list, rest |-> rest, signal |-> FALSE]
          ELSE Turn(s, after[k - 1], guess)
    IN  after[Len(rest)]

\* m_oBlockDataCondition.signal(): without the mutex, and nothing is kept for a
\* reader that is only about to wait.
AfterSignal(place) ==
    IF place = "waitBlock" THEN "front" ELSE IF place = "waitWhole" THEN "take" ELSE place

\* BlockConnHandler::OnRead with n more bytes. Until m_bHasInit is set, and at
\* the connecting end it never is, InitBlockConn looks for a message first. The
\* peer of a connection without a request is an uninitialised number: it may
\* (stray) be that of the context.
OnRead(s, n, guess, stray) ==
    LET buf       == buffer[s] \o SubSeq(wire[s], 1, n)
        skip      == IF s \in hasInit THEN 0 ELSE MessageBytes(s, buf, guess)
        isRequest == skip > 0 /\ buf[1] = <<0, 1>>
        rest      == SubSeq(buf, skip + 1, Len(buf))
        known     == s \in context \/ isRequest \/ stray
        end       == Collected(s, blocks[s], rest, guess)
    IN  /\ pc[s] # "response"
        /\ hasInit' = IF isRequest THEN hasInit \cup {s} ELSE hasInit
        /\ context' = IF isRequest THEN context \cup {s} ELSE context
        /\ eaten' = IF skip > 0 /\ ~isRequest THEN eaten \cup {s} ELSE eaten
        /\ wire' = [wire EXCEPT ![s] = SubSeq(@, n + 1, Len(@)),
                                ![Peer(s)] = IF isRequest THEN @ \o Bytes(0, RequestBytes) ELSE @]
        /\ IF known
           THEN /\ buffer' = [buffer EXCEPT ![s] = end.rest]
                /\ blocks' = [blocks EXCEPT ![s] = end.list]
                /\ pc' = IF end.signal THEN [pc EXCEPT ![s] = AfterSignal(@)] ELSE pc
           ELSE /\ buffer' = [buffer EXCEPT ![s] = rest]
                /\ UNCHANGED <<blocks, pc>>
        /\ UNCHANGED <<ilmVars, sent, job, inQueue, outQueue, taken, unpacked, dead>>

(* ------------------------------- main thread ------------------------------- *)

\* MainRun: packs the zone, or unpacks what has come.
MainRun(s, size) ==
    /\ inQueue[s] # <<>>
    /\ inQueue' = [inQueue EXCEPT ![s] = Tail(@)]
    /\ LET request == Head(inQueue[s])
       IN  /\ outQueue' = [outQueue EXCEPT ![s] =
                 Append(@, IF request.type = "pack" THEN size ELSE HeadBytes)]
           /\ unpacked' = IF request.type = "pack" THEN unpacked
                          ELSE unpacked \cup {sent[s][request.block].plan}
    /\ UNCHANGED <<ilmVars, netVars, pc, job, taken, dead>>

(* ------------------------------ command thread ----------------------------- *)

IsSource(s) == plans[job[s]].from = s

\* START_PARTITION: TransferMigrators asks for the zone, AcceptMigrators goes
\* to RecvBlock at once.
StartPartition(s) ==
    /\ pc[s] = "idle" /\ orders[s] # <<>>
    /\ LET k == Head(orders[s])
       IN  /\ orders' = [orders EXCEPT ![s] = Tail(@)]
           /\ job' = [job EXCEPT ![s] = k]
           /\ IF plans[k].from = s
              THEN /\ inQueue' = [inQueue EXCEPT ![s] = Append(@, [type |-> "pack"])]
                   /\ pc' = [pc EXCEPT ![s] = "packing"]
              ELSE /\ pc' = [pc EXCEPT ![s] = "recv"]
                   /\ UNCHANGED inQueue
    /\ UNCHANGED <<plans, replies, netVars, outQueue, taken, unpacked, dead>>

\* SendBlock: length and payload.
SendBlock(s, type, length) ==
    /\ sent' = [sent EXCEPT ![Peer(s)] = Append(@, [type |-> type, plan |-> job[s], length |-> length])]
    /\ wire' = [wire EXCEPT ![Peer(s)] = @ \o Bytes(Len(sent[Peer(s)]) + 1, length)]
    /\ UNCHANGED <<buffer, blocks, context, hasInit, eaten>>

Reply(s, result) == replies' = replies \cup {[plan |-> job[s], result |-> result]}

\* The zone is packed and goes to the destination; without a context for it the
\* ILM is told that it failed.
SendZone(s) ==
    /\ pc[s] = "packing" /\ outQueue[s] # <<>>
    /\ outQueue' = [outQueue EXCEPT ![s] = Tail(@)]
    /\ IF s \in context
       THEN /\ SendBlock(s, "pack", Head(outQueue[s]))
            /\ pc' = [pc EXCEPT ![s] = "recv"]
            /\ UNCHANGED replies
       ELSE /\ Reply(s, 0)
            /\ pc' = [pc EXCEPT ![s] = "idle"]
            /\ UNCHANGED netVars
    /\ UNCHANGED <<plans, orders, job, inQueue, taken, unpacked, dead>>

\* RecvBlock up to a wait: is there a block, and is the first one whole? The
\* block thread does not hold the mutex, and may signal before the wait. Where
\* there is no context the exception ends the command thread.
RecvBlockLooks(s) ==
    /\ \/ pc[s] = "recv" /\ s \notin context /\ pc' = [pc EXCEPT ![s] = "ended"]
       \/ /\ pc[s] = "recv" /\ s \in context
          /\ pc' = [pc EXCEPT ![s] = IF blocks[s] = <<>> THEN "toWaitBlock" ELSE "front"]
       \/ pc[s] = "front" /\ ~IsWhole(Head(blocks[s])) /\ pc' = [pc EXCEPT ![s] = "toWaitWhole"]
       \/ pc[s] = "toWaitBlock" /\ pc' = [pc EXCEPT ![s] = "waitBlock"]
       \/ pc[s] = "toWaitWhole" /\ pc' = [pc EXCEPT ![s] = "waitWhole"]
    /\ UNCHANGED <<ilmVars, netVars, job, inQueue, outQueue, taken, unpacked, dead>>

\* Mutant: the first block is taken whole or not.
RecvBlockTakesM(s) ==
    /\ pc[s] \in {"take", "front"} /\ Head(blocks[s]).data # <<>>
    /\ LET data == Head(blocks[s]).data
       IN  /\ taken' = [taken EXCEPT ![s] = Append(@, data)]
           /\ blocks' = [blocks EXCEPT ![s] = Tail(@)]
           /\ IF IsSource(s)
              THEN Reply(s, 1) /\ pc' = [pc EXCEPT ![s] = "idle"] /\ UNCHANGED inQueue
              ELSE /\ inQueue' = [inQueue EXCEPT ![s] =
                                    Append(@, [type |-> "unpack", block |-> data[1][1]])]
                   /\ pc' = [pc EXCEPT ![s] = "unpacking"]
                   /\ UNCHANGED replies
    /\ UNCHANGED <<plans, orders, wire, buffer, context, hasInit, sent, eaten, job, outQueue,
                   unpacked, dead>>

\* RecvBlock takes the first block: the source has its result and tells the ILM,
\* the destination has the objects unpacked.
RecvBlockTakes(s) ==
    /\ pc[s] = "take" \/ (pc[s] = "front" /\ IsWhole(Head(blocks[s])))
    /\ LET data == Head(blocks[s]).data
       IN  /\ taken' = [taken EXCEPT ![s] = Append(@, data)]
           /\ blocks' = [blocks EXCEPT ![s] = Tail(@)]
           /\ IF IsSource(s)
              THEN /\ Reply(s, 1)
                   /\ pc' = [pc EXCEPT ![s] = "idle"]
                   /\ UNCHANGED inQueue
              ELSE /\ inQueue' = [inQueue EXCEPT ![s] =
                                    Append(@, [type |-> "unpack", block |-> data[1][1]])]
                   /\ pc' = [pc EXCEPT ![s] = "unpacking"]
                   /\ UNCHANGED replies
    /\ UNCHANGED <<plans, orders, wire, buffer, context, hasInit, sent, eaten, job, outQueue,
                   unpacked, dead>>

\* Mutant: the answer of the main thread is not waited for.
SendResultM(s) ==
    /\ pc[s] = "unpacking"
    /\ SendBlock(s, "result", HeadBytes)
    /\ pc' = [pc EXCEPT ![s] = "idle"]
    /\ UNCHANGED <<ilmVars, job, inQueue, outQueue, taken, unpacked, dead>>

\* AcceptMigrators returns the result of the unpacking to the source.
SendResult(s) ==
    /\ pc[s] = "unpacking" /\ outQueue[s] # <<>>
    /\ outQueue' = [outQueue EXCEPT ![s] = Tail(@)]
    /\ SendBlock(s, "result", HeadBytes)
    /\ pc' = [pc EXCEPT ![s] = "idle"]
    /\ UNCHANGED <<ilmVars, job, inQueue, taken, unpacked, dead>>
-----------------------------------------------------------------------------
\* The ILM orders both servers of a plan, once the connecting server has
\* answered its table of servers; it may have given up the plan before.
OrderPlan(from, to) ==
    /\ from # to /\ Len(plans) < MaxPlans
    /\ pc[Low] \notin {"setup", "response"}
    /\ plans' = Append(plans, [from |-> from, to |-> to])
    /\ orders' = [s \in Servers |-> Append(orders[s], Len(plans) + 1)]
    /\ UNCHANGED <<replies, netVars, pc, job, inQueue, outQueue, taken, unpacked, dead>>

\* What a server has written still arrives, and nobody is told of its end.
Die(s) ==
    /\ dead' = dead \cup {s}
    /\ UNCHANGED <<ilmVars, netVars, pc, job, inQueue, outQueue, taken, unpacked>>

Step(s) ==
    \/ \E hasMaps \in BOOLEAN : SetupConnection(s, hasMaps)
    \/ InitBlockConnection(s)
    \/ \E n \in 1..Len(wire[s]), guess \in 0..HeadBytes, stray \in BOOLEAN :
          OnRead(s, n, guess, stray)
    \/ \E size \in BlockBytes : MainRun(s, size)
    \/ StartPartition(s) \/ SendZone(s) \/ RecvBlockLooks(s) \/ RecvBlockTakes(s) \/ SendResult(s)

Next ==
    \/ \E from, to \in Servers : OrderPlan(from, to)
    \/ \E s \in Servers \ dead : Step(s)
    \/ \E s \in MayDie \ dead : Die(s)

Spec == Init /\ [][Next]_vars
-----------------------------------------------------------------------------
\* What RecvBlock returns at a server is, block for block and byte for byte,
\* what the other one sent, however the bytes were cut, unless InitBlockConn
\* took bytes for a message. At the end that is connected to it only does so when
\* a stray number of the peer let a part of the request pass for a block: then
\* it never has a context, and no plan comes
\* (ServerContext.cpp OnRead, InitBlockConn and RecvBlock).
TakenAsSent ==
    /\ High \in eaten => High \notin context /\ plans = <<>>
    /\ \A s \in Servers \ eaten : \A k \in 1..Len(taken[s]) :
        k <= Len(sent[s]) /\ taken[s][k] = Payload(k, sent[s][k].length)

\* A source reports success of an order only after the destination has unpacked
\* that order's objects (ILMListener.cpp TransferMigrators and AcceptMigrators),
\* as long as InitBlockConn took no bytes for a message. Bytes taken in the middle
\* of a block leave parts of it that are read as blocks, and a source takes the
\* first one for its result.
SuccessIsUnpacked ==
    eaten = {} => \A r \in replies : r.result = 1 => r.plan \in unpacked

Waits(s) == s \notin dead /\ pc[s] \in {"waitBlock", "waitWhole"}
Missed(s) == Waits(s) /\ blocks[s] # <<>> /\ IsWhole(Head(blocks[s]))
AtRest(s) == wire[s] = <<>> /\ (Waits(s) \/ pc[s] = "ended" \/ (pc[s] = "idle" /\ orders[s] = <<>>))

\* The exchange of a plan hangs for one of four reasons only: a signal sent
\* before its reader waits, bytes taken for a message at the connecting end, a
\* command thread that was ended by a missing context, or a server that died;
\* never because two servers wait for each other by themselves
\* (ServerContext.cpp RecvBlock, ILMListener.cpp).
HangsOnlyByLoss ==
    (\A s \in Servers \ dead : AtRest(s)) /\ (\E s \in Servers : Waits(s)) =>
        \/ \E s \in Servers : Missed(s) \/ pc[s] = "ended"
        \/ eaten # {} \/ dead # {}
=============================================================================
