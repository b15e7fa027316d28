----------------------------- MODULE MCMessages -----------------------------
(* The layer below the components for TLC, one of three parts in a behaviour:   *)
(*   "exchange"   a message of every exchange with lists of up to MaxLen        *)
(*                elements is packed and unpacked (Wire);                       *)
(*   "map"        the ILM loads a file of Files (MapLayout);                    *)
(*   "connection" two processes exchange messages of two and three cells over   *)
(*                buffers that hold one of them, with sockets that hold two     *)
(*                buffers (Connection);                                         *)
(*   "equal"      the same with messages of one size, edge-triggered, and no    *)
(*                side closes.                                                  *)
EXTENDS Connection

CONSTANTS MaxLen, Files, ilm, pm

VARIABLES exchange, lists, packet, got,
          file, loading, units, neighbours, groups, zones, mst,
          part  \* of {"exchange", "map", "connection", "equal"}

wireVars == <<exchange, lists, packet, got>>
mapVars  == <<file, loading, units, neighbours, groups, zones, mst>>

Wires == INSTANCE Wire
Map   == INSTANCE MapLayout

MapOf(x, y, n, Z) == {[x |-> x, y |-> y, unit |-> u] : u \in [1 .. n -> Z]}

Line(z, s) == [zone |-> z, server |-> s]
Plain == {Line(0, 1)}
Lines == {Line(z, s) : z \in {0, 1, 2, 4}, s \in {1, 2}}

\* Maps of every shape up to 4 * 4; a map of two units and one of a single unit
\* with every zone and server; maps that lack a unit or have one too many.
WorldFiles ==
  {<<>>}
  \cup UNION {{<<m>> : m \in MapOf(x, y, x * y, Plain)} : x, y \in 1 .. 4}
  \cup {<<m, i>> : m \in MapOf(2, 1, 2, Lines), i \in MapOf(1, 1, 1, Lines)}
  \cup {<<m>> : m \in MapOf(1, 2, 1, Plain) \cup MapOf(1, 2, 3, Plain) \cup MapOf(1, 1, 0, Plain)}

Ends == {ilm, pm}
Both == {"level", "edge"}
\* After a notice to the ILM the proxy manager waits for EPOLLOUT only, until its
\* callback has written; the others wait for both events.
Masks == [t \in Both |-> [s \in Ends |-> IF t = "level" /\ s = pm THEN {"out"} ELSE {"in", "out"}]]
MessageSizes == [s \in Ends |-> IF s = ilm THEN <<3, 2, 3>> ELSE <<2, 3, 3>>]

EqualSizes == [s \in Ends |-> <<3, 3, 3>>]
Equal == INSTANCE Connection WITH Sizes <- EqualSizes

\* A message without lists
Idle == CHOOSE x \in Wires!Exchanges : x.written.pack = <<>>

\* No connection: nothing of Connection can happen.
Unconnected ==
  /\ inBuf = [s \in Sides |-> Empty] /\ outBuf = inBuf
  /\ socket = [s \in Sides |-> <<>>] /\ sent = socket /\ handled = socket
  /\ ready = [s \in Sides |-> FALSE] /\ mask = [s \in Sides |-> {}]
  /\ pc = [s \in Sides |-> "gone"] /\ closed = Sides
  /\ trigger = "edge" /\ mayClose = TRUE

MCInit ==
  /\ part \in {"exchange", "map", "connection", "equal"}
  /\ Wires!Init /\ Map!Init
  /\ part # "exchange" => exchange = Idle
  /\ (part = "map") = (file # <<>>)
  /\ IF part \in {"connection", "equal"} THEN Init ELSE Unconnected
  /\ part = "equal" => trigger = "edge" /\ ~mayClose

MCNext ==
  /\ \/ part = "exchange" /\ Wires!Next /\ UNCHANGED <<mapVars, vars>>
     \/ part = "map" /\ Map!MapNext /\ UNCHANGED <<wireVars, vars>>
     \/ part = "connection" /\ Next /\ UNCHANGED <<wireVars, mapVars>>
     \/ part = "equal" /\ Equal!Next /\ UNCHANGED <<wireVars, mapVars>>
  /\ UNCHANGED part

\* The callbacks of either part, and the fairness of Connection.
MCCallback(s) ==
  /\ (part = "connection" /\ Callback(s)) \/ (part = "equal" /\ Equal!Callback(s))
  /\ UNCHANGED <<trigger, mayClose>>
MCFairness == \A s \in Sides : WF_vars(MCCallback(s))

MCSpec == MCInit /\ [][MCNext]_<<vars, mapVars, wireVars, part>> /\ MCFairness

ReadAsWritten == Wires!ReadAsWritten
NeighboursExact == Map!NeighboursExact
WorldCovered == Map!WorldCovered
=============================================================================
