--------------------------- MODULE SeamlessProps ---------------------------
(* What the game servers of a world promise its players. *)
EXTENDS Seamless

-----------------------------------------------------------------------------
(* The grid                                                                 *)

RowOf(r) == (r - 1) \div Cols
ColOf(r) == (r - 1) % Cols
Apart(i, j) == IF i < j THEN j - i ELSE i - j

\* The regions of the 3 x 3 square that BroadcastMsg walks
Square(r) == {q \in Region : Apart(RowOf(q), RowOf(r)) <= 1 /\ Apart(ColOf(q), ColOf(r)) <= 1}

-----------------------------------------------------------------------------
(* Entities and shadows                                                     *)

Entities(p) == {s \in Server : IsEntity(s, p)}

\* Plans without an order under way at the pack or across to another server,
\* without a destination that was near, and not given up
Clean == "plan" \notin world \/ world \cap {"across", "near", "late", "abort"} = {}

\* A player is decided by one server; only while a plan runs do both of its
\* servers have it as an entity, between unpack and the unlock at the source.
OneEntity ==
  Clean =>
  \A p \in Player :
    \/ Cardinality(Entities(p)) <= 1
    \/ /\ plan.stage \in {"part", "mst", "unlock"}
       /\ Entities(p) = {plan.from, plan.to}
       /\ copy[plan.from][p].at \in plan.zone

\* The server a client talks to decides its player, before, during and after a
\* plan, also one that is given up: nobody's client is left with a shadow.
\* Players that cross to another server, enter the zone or have an order under
\* way at the pack, and destinations that were near, are the exceptions.
Served ==
  world \cap {"across", "enter", "late", "near"} = {} =>
  \A p \in Player : IsEntity(client[p].server, p)

\* A player that walks back into the regions of the server it left is decided
\* there again.
HomeAgain ==
  "plan" \notin world =>
  \A p \in Player :
    LET s == client[p].server IN owner[copy[s][p].at] = s => IsEntity(s, p)

\* Whether a copy of player p is there when messages q have arrived: as it is, or
\* as the last message about p says
Arrives(q, p, has) ==
  \/ has /\ \A i \in DOMAIN q : q[i].player # p
  \/ \E i \in DOMAIN q : /\ q[i].player = p /\ q[i].type = "create"
                         /\ \A j \in DOMAIN q : q[j].player = p => j <= i
WillHave(s, t, p) == Arrives(net[s][t], p, Has(t, p))

\* AgentInfo's list is exact while zones stay: it is empty before the first move
\* and names then the servers whose players see the entity, although
\* GetAroundRegion finds the square around it by counting indices and cutting the
\* ends of rows; and they are the servers that have a shadow, or will when the
\* entity's messages arrive.
ListExact ==
  world \cap {"plan", "across"} = {} =>
  \A s \in Server, p \in Player : IsEntity(s, p) =>
    /\ copy[s][p].list \in {{}, {owner[q] : q \in Square(copy[s][p].at)} \ {s}}
    /\ \A t \in Server \ {s} : t \in copy[s][p].list <=> WillHave(s, t, p)

\* A plan leaves nothing behind: the servers' MSTs are that of the ILM and no
\* region is locked, unless it was given up, and every entity is in a region its
\* server runs.
PlanLeavesNothing ==
  plan.stage = "idle" =>
  \A s \in Server :
    /\ "abort" \notin world => mst[s] = owner /\ locked[s] = {}
    /\ Clean => \A p \in Player : IsEntity(s, p) => owner[copy[s][p].at] = s

\* A client that was locked for a plan is told its server in the end, also when
\* the plan is given up.
ClientThawed == \A p \in Player : client[p].frozen ~> ~client[p].frozen

-----------------------------------------------------------------------------
(* What does not hold                                                       *)

\* A client whose player goes to a region of another server is told to change
\* to that server.
ToldNewServer ==
  \A p \in Player : order[p] = None /\ plan.stage = "idle" =>
    LET s == client[p].server IN Has(s, p) /\ owner[copy[s][p].at] = s
=============================================================================
