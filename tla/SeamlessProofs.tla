-------------------------- MODULE SeamlessProofs ----------------------------
(***************************************************************************)
(* The stages of a plan at the game servers, for every value of the        *)
(* constants: what the regions around a region are, the types of the       *)
(* variables, and that the ILM's stage says which command is at which      *)
(* server, which regions are locked there and which MST it has.            *)
(***************************************************************************)
EXTENDS SeamlessProps, SequenceLemmas, FiniteSetTheorems

-----------------------------------------------------------------------------
(* The grid                                                                 *)

LEMMA GridSize ==
  /\ Rows * Cols \in Nat /\ Cols \in Nat \ {0, 1} /\ Cols * (Rows - 1) \in Nat
  /\ Cols * (Rows - 1) + Cols = Rows * Cols
BY SeamlessAssumption

LEMMA GridCorners == 1 % Cols = 1 /\ (Rows * Cols) % Cols = 0
<1>1. 1 % Cols = 1
  BY SeamlessAssumption
<1>2. (Rows * Cols) % Cols = 0
  BY SeamlessAssumption
<1>3. QED
  BY <1>1, <1>2

LEMMA RowInGrid ==
  ASSUME NEW i \in Region
  PROVE  Row(i) \subseteq Region
<1>1. CASE i = 1
  BY <1>1, GridSize, GridCorners DEF Region, Row
<1>2. CASE i = Rows * Cols
  <2>1. i % Cols = 0
    BY <1>2, GridCorners
  <2>2. i % Cols # 1 => i - 1 \in Region
    BY GridCorners, GridSize DEF Region
  <2>3. QED
    BY <2>1, <2>2 DEF Row
<1>3. CASE i # 1 /\ i # Rows * Cols
  BY GridSize, <1>3 DEF Region, Row
<1>4. QED
  BY <1>1, <1>2, <1>3

\* GetAroundRegion names regions of the map, and never the region itself.
LEMMA AroundInGrid ==
  ASSUME NEW r \in Region
  PROVE  Around(r) \subseteq Region /\ r \notin Around(r)
<1>1. r > Cols => r - Cols \in Region
  BY GridSize DEF Region
<1>2. r <= Cols * (Rows - 1) => r + Cols \in Region
  BY GridSize DEF Region
<1>3. /\ r > Cols => Row(r - Cols) \subseteq Region
      /\ r <= Cols * (Rows - 1) => Row(r + Cols) \subseteq Region
      /\ Row(r) \subseteq Region
  BY <1>1, <1>2, RowInGrid
<1>4. Around(r) \subseteq Region
  BY <1>3 DEF Around
<1>5. r \notin Around(r)
  BY SeamlessAssumption DEF Around, Row, Region
<1>6. QED
  BY <1>4, <1>5

-----------------------------------------------------------------------------
(* Types                                                                    *)

Copy    == [at : Region, agent : BOOLEAN, list : SUBSET Server]
Order   == [server : Server, to : Region]
Message == [type : {"create"}, player : Player, at : Region]
           \cup [type : {"delete"}, player : Player]
Command == [type : {"lock", "unlock"}, zone : SUBSET Region]
           \cup [type : {"part"}, zone : SUBSET Region, from : Server, to : Server]
           \cup [type : {"mst"}, mst : [Region -> Server]]

TypeGs ==
  /\ copy \in [Server -> [Player -> Copy \cup {None}]]
  /\ session \in [Server -> [Player -> {"none", "open", "freed"}]]
  /\ isDest \in [Server -> BOOLEAN] /\ locked \in [Server -> SUBSET Region]
  /\ mst \in [Server -> [Region -> Server]]

TypeIlm ==
  /\ owner \in [Region -> Server]
  /\ plan \in [stage : {"idle", "lock", "part", "mst", "unlock"}, zone : SUBSET Region,
               from : Server \cup {None}, to : Server \cup {None}, wait : SUBSET Server]
  /\ plan.stage # "idle" => plan.from \in Server /\ plan.to \in Server
  /\ cmd \in [Server -> Seq(Command)]
  /\ block \in [at : {"none", "sent", "answered"},
                objects : SUBSET [player : Player, at : Region]]

TypeClient ==
  /\ client \in [Player -> [server : Server, frozen : BOOLEAN]]
  /\ order \in [Player -> Order \cup {None}]
  /\ world \in Worlds

TypeNet == net \in [Server -> [Server -> Seq(Message)]]

TypeInv == TypeGs /\ TypeIlm /\ TypeNet /\ TypeClient

LEMMA NoneIsNothing == None \notin Copy /\ None \notin Order
BY SeamlessAssumption DEF Copy, Order

LEMMA ZoneIsRegion == \A z \in Zones : z \subseteq Region
BY SeamlessAssumption

LEMMA NewCopyType ==
  ASSUME NEW r \in Region, NEW agent \in BOOLEAN
  PROVE  /\ NewCopy(r, agent) \in Copy /\ NewCopy(r, agent) # None
         /\ NewCopy(r, agent).at = r /\ NewCopy(r, agent).agent = agent
         /\ NewCopy(r, agent).list = {}
<1>1. NewCopy(r, agent) = [at |-> r, agent |-> agent, list |-> {}]
  BY DEF NewCopy
<1>2. NewCopy(r, agent) \in Copy
  BY <1>1 DEF Copy
<1>3. QED
  BY <1>1, <1>2, NoneIsNothing

\* What a player is at a server
LEMMA CopyType ==
  ASSUME TypeGs, NEW s \in Server, NEW p \in Player, Has(s, p)
  PROVE  copy[s][p] \in Copy
BY DEF TypeGs, Has

\* The list of the servers around is a set of servers.
LEMMA NearType ==
  ASSUME TypeGs, NEW s \in Server, NEW r \in Region
  PROVE  Near(s, r) \subseteq Server \ {s}
BY AroundInGrid DEF TypeGs, Near

LEMMA UpdateAgentTypes ==
  ASSUME TypeGs, TypeNet, NEW s \in Server, NEW p \in Player, NEW c \in Copy,
         NEW new \in SUBSET Server, UpdateAgent(s, p, c, new)
  PROVE  /\ copy' \in [Server -> [Player -> Copy \cup {None}]]
         /\ TypeNet'
<1>1. [c EXCEPT !.list = new] \in Copy /\ c.at \in Region
  BY DEF Copy
<1>2. copy' \in [Server -> [Player -> Copy \cup {None}]]
  BY <1>1 DEF UpdateAgent, TypeGs
<1>3. Create(p, c.at) \in Message /\ Delete(p) \in Message
  BY <1>1 DEF Create, Delete, Message
<1>4. \A t \in Server : /\ net[s][t] \in Seq(Message)
                        /\ Append(net[s][t], Create(p, c.at)) \in Seq(Message)
                        /\ Append(net[s][t], Delete(p)) \in Seq(Message)
  BY <1>3 DEF TypeNet
<1>5. TypeNet'
  BY <1>4 DEF UpdateAgent, TypeNet
<1>6. QED
  BY <1>2, <1>5

LEMMA SendAllTypes ==
  ASSUME TypeIlm, NEW c \in Command, NEW to, SendAll(c, to)
  PROVE  cmd' \in [Server -> Seq(Command)]
<1>1. \A s \in Server : Append(cmd[s], c) \in Seq(Command)
  BY DEF TypeIlm
<1>2. QED
  BY <1>1 DEF SendAll, TypeIlm

LEMMA DoneTypes ==
  ASSUME TypeIlm, NEW s \in Server, NEW type, At(s, type), Done(s)
  PROVE  cmd' \in [Server -> Seq(Command)] /\ Head(cmd[s]) \in Command
BY HeadTail DEF TypeIlm, At, Done
\* Typing of a command by its type
LEMMA CommandTypes ==
  /\ \A z \in SUBSET Region : Lock(z) \in Command /\ Unlock(z) \in Command
  /\ \A z \in SUBSET Region, s, t \in Server : Part(z, s, t) \in Command
  /\ \A m \in [Region -> Server] : Mst(m) \in Command
BY DEF Lock, Unlock, Part, Mst, Command

LEMMA CommandFields ==
  ASSUME NEW c \in Command
  PROVE  /\ c.type \in {"lock", "unlock"} => c.zone \subseteq Region
         /\ c.type = "part" => c.zone \subseteq Region /\ c.from \in Server /\ c.to \in Server
         /\ c.type = "mst" => c.mst \in [Region -> Server]
BY DEF Command

LEMMA TypeInit == Init => TypeInv
<1> SUFFICES ASSUME Init
             PROVE  TypeInv
  OBVIOUS
<1>1. PICK at \in [Player -> Region] :
        /\ copy = [s \in Server |-> [p \in Player |->
                     IF FirstOwner[at[p]] = s THEN NewCopy(at[p], FALSE) ELSE None]]
        /\ session = [s \in Server |-> [p \in Player |->
                        IF FirstOwner[at[p]] = s THEN "open" ELSE "none"]]
        /\ client = [p \in Player |-> [server |-> FirstOwner[at[p]], frozen |-> FALSE]]
  BY DEF Init
<1>2. \A p \in Player : NewCopy(at[p], FALSE) \in Copy
  BY DEF NewCopy, Copy
<1>3. TypeGs
  BY <1>1, <1>2, SeamlessAssumption DEF Init, TypeGs
<1>4. TypeIlm
  BY SeamlessAssumption DEF Init, TypeIlm, Idle, NoBlock
<1>5. TypeNet /\ TypeClient
  BY <1>1, SeamlessAssumption DEF Init, TypeNet, TypeClient
<1>6. QED
  BY <1>3, <1>4, <1>5 DEF TypeInv

LEMMA ClientMessageTypes ==
  ASSUME TypeInv, NEW p \in Player, ClientMessage(p)
  PROVE  TypeInv'
<1> DEFINE s == order[p].server
           r == order[p].to
           q == copy[s][p].at
           c == [copy[s][p] EXCEPT !.at = r, !.agent = AgentAfter(s, p, q, r)]
<1>1. s \in Server /\ r \in Region /\ order' = [order EXCEPT ![p] = None]
  BY DEF TypeInv, TypeClient, ClientMessage, Order
<1>2. TypeIlm'
  BY DEF ClientMessage, ilmVars, TypeInv, TypeIlm
<1>3. order' \in [Player -> Order \cup {None}]
  BY <1>1 DEF TypeInv, TypeClient
<1>4. CASE session[s][p] = "none" \/ ~Has(s, p)
  BY <1>2, <1>3, <1>4 DEF ClientMessage, TypeInv, TypeGs, TypeNet, TypeClient
<1>5. CASE ~ (session[s][p] = "none" \/ ~Has(s, p))
  <2>1. /\ \E told \in BOOLEAN :
             UpdateAgent(s, p, c, IF \/ q # r /\ StaysHere(s, p, q, r)
                                     \/ told /\ ~c.agent
                                  THEN Near(s, r) ELSE c.list)
        /\ client' = IF GoesAway(s, p, q, r)
                     THEN [client EXCEPT ![p] = [server |-> s, frozen |-> FALSE]]
                     ELSE client
    BY <1>5 DEF ClientMessage
  <2>2. copy[s][p] \in Copy
    BY <1>1, <1>5, CopyType DEF TypeInv
  <2>3. AgentAfter(s, p, q, r) \in BOOLEAN
    BY <2>2 DEF AgentAfter, Copy
  <2>4. c \in Copy
    BY <1>1, <2>2, <2>3 DEF Copy
  <2>5. c.list \subseteq Server /\ Near(s, r) \subseteq Server
    BY <1>1, <2>4, NearType DEF Copy, TypeInv
  <2>6. copy' \in [Server -> [Player -> Copy \cup {None}]] /\ TypeNet'
    <3> HIDE DEF s, r, q, c
    <3> QED BY <1>1, <2>1, <2>4, <2>5, UpdateAgentTypes DEF TypeInv
  <2>7. client' \in [Player -> [server : Server, frozen : BOOLEAN]]
    BY <1>1, <2>1 DEF TypeInv, TypeClient
  <2>8. QED
    BY <1>2, <1>3, <2>6, <2>7 DEF ClientMessage, TypeInv, TypeGs, TypeClient
<1>6. QED
  BY <1>4, <1>5

LEMMA PlayerTypes ==
  ASSUME TypeInv,
         \/ \E p \in Player, r \in Region : ClientOrders(p, r)
         \/ \E s, t \in Server : CreateAgent(s, t) \/ DeleteAgent(s, t)
  PROVE  TypeInv'
<1>1. ASSUME NEW p \in Player, NEW r \in Region, ClientOrders(p, r)
      PROVE  TypeInv'
  <2>1. [server |-> client[p].server, to |-> r] \in Order
    BY DEF Order, TypeInv, TypeClient
  <2>2. TypeClient'
    BY <1>1, <2>1 DEF ClientOrders, TypeInv, TypeClient
  <2>3. QED
    BY <1>1, <2>2 DEF ClientOrders, TypeInv, TypeGs, TypeIlm, TypeNet, gsVars, ilmVars
<1>2. ASSUME NEW s \in Server, NEW t \in Server, CreateAgent(s, t)
      PROVE  TypeInv'
  <2> DEFINE m == Head(net[s][t])
  <2>1. m \in Message /\ Tail(net[s][t]) \in Seq(Message) /\ m.type = "create"
    BY <1>2, HeadTail DEF TypeInv, TypeNet, CreateAgent
  <2>2. m.player \in Player /\ m.at \in Region
    BY <2>1 DEF Message
  <2> HIDE DEF m
  <2>3. NewCopy(m.at, TRUE) \in Copy
    BY <2>2 DEF NewCopy, Copy
  <2>4. Has(t, m.player) => [copy[t][m.player] EXCEPT !.agent = TRUE] \in Copy
    BY <2>2, CopyType DEF TypeInv, Copy
  <2>5. copy' = [copy EXCEPT ![t][m.player] =
                      IF Has(t, m.player) THEN [copy[t][m.player] EXCEPT !.agent = TRUE]
                      ELSE NewCopy(m.at, TRUE)]
    BY <1>2 DEF CreateAgent, m, TypeInv, TypeGs
  <2>6. copy' \in [Server -> [Player -> Copy \cup {None}]]
    BY <2>2, <2>3, <2>4, <2>5 DEF TypeInv, TypeGs
  <2>7. session' \in [Server -> [Player -> {"none", "open", "freed"}]]
    BY <1>2 DEF CreateAgent, CreateSession, TypeInv, TypeGs
  <2>8. TypeNet'
    BY <1>2, <2>1 DEF CreateAgent, TypeInv, TypeNet
  <2>9. QED
    BY <1>2, <2>6, <2>7, <2>8 DEF CreateAgent, TypeInv, TypeGs, TypeIlm, TypeClient, ilmVars
<1>3. ASSUME NEW s \in Server, NEW t \in Server, DeleteAgent(s, t)
      PROVE  TypeInv'
  <2> DEFINE m == Head(net[s][t])
  <2>0. net[s][t] # <<>>
    BY <1>3 DEF DeleteAgent
  <2>1. m \in Message /\ Tail(net[s][t]) \in Seq(Message)
    BY <2>0, HeadTail DEF TypeInv, TypeNet
  <2>2. m.player \in Player
    BY <2>1 DEF Message
  <2> HIDE DEF m
  <2>3. copy' = [copy EXCEPT ![t][m.player] = None]
    BY <1>3 DEF DeleteAgent, m
  <2>4. copy' \in [Server -> [Player -> Copy \cup {None}]]
    BY <2>2, <2>3 DEF TypeInv, TypeGs
  <2>5. session' \in [Server -> [Player -> {"none", "open", "freed"}]]
    BY <1>3, <2>2 DEF DeleteAgent, m, TypeInv, TypeGs
  <2>6. TypeNet'
    BY <1>3, <2>1 DEF DeleteAgent, TypeInv, TypeNet
  <2>7. QED
    BY <1>3, <2>4, <2>5, <2>6 DEF DeleteAgent, TypeInv, TypeGs, TypeIlm, TypeClient, ilmVars
<1>4. QED
  BY <1>1, <1>2, <1>3

LEMMA IlmTypes ==
  ASSUME TypeInv,
         \/ \E s, t \in Server, z \in Zones : StartPlan(z, s, t)
         \/ StartPartition \/ ChangeMST \/ SendUnlock \/ FinishPlan \/ Abort
  PROVE  TypeInv'
<1> SUFFICES TypeIlm' /\ UNCHANGED <<gsVars, net, client, order, world>>
  BY DEF TypeInv, TypeGs, TypeNet, TypeClient, gsVars
<1> USE DEF TypeInv, TypeIlm
<1>1. ASSUME NEW s \in Server, NEW t \in Server, NEW z \in Zones, StartPlan(z, s, t)
      PROVE  TypeIlm' /\ UNCHANGED <<gsVars, net, client, order, world>>
  <2>1. cmd' \in [Server -> Seq(Command)]
    BY <1>1, ZoneIsRegion, CommandTypes, SendAllTypes DEF StartPlan
  <2>2. QED
    BY <1>1, <2>1, ZoneIsRegion DEF StartPlan
<1>2. ASSUME StartPartition
      PROVE  TypeIlm' /\ UNCHANGED <<gsVars, net, client, order, world>>
  <2>1. plan.zone \subseteq Region /\ plan.from \in Server /\ plan.to \in Server
    BY <1>2 DEF StartPartition, Replied
  <2>2. cmd' \in [Server -> Seq(Command)]
    BY <1>2, <2>1, CommandTypes, SendAllTypes DEF StartPartition
  <2>3. QED
    BY <1>2, <2>1, <2>2 DEF StartPartition
<1>3. ASSUME ChangeMST
      PROVE  TypeIlm' /\ UNCHANGED <<gsVars, net, client, order, world>>
  <2>1. owner' \in [Region -> Server] /\ plan.from \in Server /\ plan.to \in Server
    BY <1>3 DEF ChangeMST, Replied
  <2>2. cmd' \in [Server -> Seq(Command)]
    BY <1>3, <2>1, CommandTypes, SendAllTypes DEF ChangeMST
  <2>3. QED
    BY <1>3, <2>1, <2>2 DEF ChangeMST
<1>4. ASSUME SendUnlock
      PROVE  TypeIlm' /\ UNCHANGED <<gsVars, net, client, order, world>>
  <2>1. plan.zone \subseteq Region /\ plan.from \in Server /\ plan.to \in Server
    BY <1>4 DEF SendUnlock, Replied
  <2>2. cmd' \in [Server -> Seq(Command)]
    BY <1>4, <2>1, CommandTypes, SendAllTypes DEF SendUnlock
  <2>3. QED
    BY <1>4, <2>1, <2>2 DEF SendUnlock
<1>5. ASSUME FinishPlan \/ Abort
      PROVE  TypeIlm' /\ UNCHANGED <<gsVars, net, client, order, world>>
  BY <1>5 DEF FinishPlan, Abort, Idle
<1>6. QED
  BY <1>1, <1>2, <1>3, <1>4, <1>5

LEMMA RepliesTypes ==
  ASSUME TypeIlm, NEW s \in Server, NEW type, At(s, type), Replies(s)
  PROVE  /\ cmd' \in [Server -> Seq(Command)] /\ Head(cmd[s]) \in Command
         /\ plan' = [plan EXCEPT !.wait = plan.wait \ {s}]
         /\ plan' \in [stage : {"idle", "lock", "part", "mst", "unlock"},
                       zone : SUBSET Region, from : Server \cup {None},
                       to : Server \cup {None}, wait : SUBSET Server]
BY DoneTypes DEF Replies, TypeIlm

LEMMA ServerTypes ==
  ASSUME TypeInv, NEW s \in Server,
         \/ LockMap(s) \/ PackMap(s) \/ UnpackMap(s) \/ PartitionDone(s)
         \/ UpdateMST(s) \/ UnlockMap(s)
  PROVE  TypeInv'
<1>1. ASSUME LockMap(s)
      PROVE  TypeInv'
  <2>1. Zone(s) \subseteq Region
    BY <1>1, RepliesTypes, CommandFields DEF LockMap, TypeInv, Zone, At
  <2>2. TypeIlm'
    BY <1>1, RepliesTypes DEF LockMap, TypeInv, TypeIlm
  <2>3. QED
    BY <1>1, <2>1, <2>2 DEF LockMap, TypeInv, TypeGs, TypeNet, TypeClient
<1>2. ASSUME PackMap(s)
      PROVE  TypeInv'
  <2>1. Package(s, Zone(s)) \subseteq [player : Player, at : Region]
    BY CopyType DEF Package, Inside, TypeInv, Copy
  <2>2. block' \in [at : {"none", "sent", "answered"},
                    objects : SUBSET [player : Player, at : Region]]
    BY <1>2, <2>1 DEF PackMap
  <2>3. client' \in [Player -> [server : Server, frozen : BOOLEAN]]
    BY <1>2 DEF PackMap, Freeze, TypeInv, TypeClient
  <2>4. QED
    BY <1>2, <2>2, <2>3 DEF PackMap, TypeInv, TypeGs, TypeIlm, TypeNet, TypeClient
<1>3. ASSUME UnpackMap(s)
      PROVE  TypeInv'
  <2>1. \A p \in Player : Unpacked(s, p) \in Copy \cup {None}
    <3> TAKE p \in Player
    <3>1. CASE Has(s, p) \/ ~\E o \in block.objects : o.player = p
      BY <3>1 DEF Unpacked, TypeInv, TypeGs
    <3>2. CASE ~Has(s, p) /\ \E o \in block.objects : o.player = p
      <4> DEFINE o1 == CHOOSE o \in block.objects : o.player = p
      <4>1. o1 \in block.objects
        BY <3>2
      <4>2. o1.at \in Region
        BY <4>1 DEF TypeInv, TypeIlm
      <4>3. Unpacked(s, p) = NewCopy(o1.at, FALSE)
        BY <3>2 DEF Unpacked
      <4>4. QED
        BY <4>2, <4>3 DEF NewCopy, Copy
    <3>3. QED
      BY <3>1, <3>2
  <2>2. copy' \in [Server -> [Player -> Copy \cup {None}]]
    BY <1>3, <2>1 DEF UnpackMap, TypeInv, TypeGs
  <2>3. session' \in [Server -> [Player -> {"none", "open", "freed"}]]
    BY <1>3 DEF UnpackMap, CreateSession, TypeInv, TypeGs
  <2>4. client' \in [Player -> [server : Server, frozen : BOOLEAN]]
    BY <1>3 DEF UnpackMap, TypeInv, TypeClient
  <2>5. TypeIlm'
    BY <1>3, DoneTypes DEF UnpackMap, TypeInv, TypeIlm
  <2>6. QED
    BY <1>3, <2>2, <2>3, <2>4, <2>5 DEF UnpackMap, TypeInv, TypeGs, TypeNet, TypeClient
<1>4. ASSUME PartitionDone(s)
      PROVE  TypeInv'
  <2>1. TypeIlm'
    BY <1>4, RepliesTypes DEF PartitionDone, TypeInv, TypeIlm, NoBlock
  <2>2. QED
    BY <1>4, <2>1 DEF PartitionDone, TypeInv, TypeGs, TypeNet, TypeClient, gsVars
<1>5. ASSUME UpdateMST(s)
      PROVE  TypeInv'
  <2>1. Head(cmd[s]).mst \in [Region -> Server]
    BY <1>5, RepliesTypes, CommandFields DEF UpdateMST, TypeInv, At
  <2>2. TypeIlm'
    BY <1>5, RepliesTypes DEF UpdateMST, TypeInv, TypeIlm
  <2>3. QED
    BY <1>5, <2>1, <2>2 DEF UpdateMST, TypeInv, TypeGs, TypeNet, TypeClient
<1>6. ASSUME UnlockMap(s)
      PROVE  TypeInv'
  <2>1. \A p \in Player : Cleared(s, p) \in Copy \cup {None}
    <3> TAKE p \in Player
    <3>1. Has(s, p) => [copy[s][p] EXCEPT !.agent = TRUE] \in Copy
      BY CopyType DEF TypeInv, Copy
    <3>2. QED
      BY <3>1 DEF Cleared, IsEntity, TypeInv, TypeGs
  <2>2. TypeIlm'
    BY <1>6, RepliesTypes DEF UnlockMap, TypeInv, TypeIlm
  <2>3. QED
    BY <1>6, <2>1, <2>2 DEF UnlockMap, TypeInv, TypeGs, TypeNet, TypeClient
<1>7. QED
  BY <1>1, <1>2, <1>3, <1>4, <1>5, <1>6

LEMMA TypeStep ==
  ASSUME TypeInv, [Next]_vars
  PROVE  TypeInv'
<1>1. CASE UNCHANGED vars
  BY <1>1 DEF TypeInv, TypeGs, TypeIlm, TypeNet, TypeClient, vars, gsVars, ilmVars
<1>2. CASE Next
  BY <1>2, ClientMessageTypes, PlayerTypes, IlmTypes, ServerTypes DEF Next
<1>3. QED
  BY <1>1, <1>2

\* The variables keep their types, in every world.
THEOREM SeamlessTypes == Spec => []TypeInv
BY TypeInit, TypeStep, PTL DEF Spec

-----------------------------------------------------------------------------
(* Stages                                                                   *)

\* A plan that is not given up
Finishes == "plan" \notin world \/ "abort" \notin world

BeforeMst == plan.stage \in {"lock", "part"}

\* A plan moves regions of one server to another one, and its package exists
\* while the source is awaited in the partition.
PlanInv ==
  /\ plan.stage = "idle" => plan = Idle
  /\ plan.stage # "idle" =>
       /\ "plan" \in world /\ plan.zone \in Zones /\ plan.from # plan.to
       /\ \A r \in plan.zone : owner[r] = IF BeforeMst THEN plan.from ELSE plan.to
  /\ plan.stage = "part" => plan.wait \subseteq {plan.from}
  /\ block.at = "none" => block = NoBlock
  /\ block.at # "none" => plan.stage = "part" /\ plan.from \in plan.wait
  /\ \A o \in block.objects : o.at \in plan.zone

\* What the ILM's stage says of a server: its commands, the regions that are
\* locked there, and the MST it has
CmdOf(s) ==
  CASE plan.stage = "lock" /\ s \in plan.wait   -> <<Lock(plan.zone)>>
    [] plan.stage = "mst" /\ s \in plan.wait    -> <<Mst(owner)>>
    [] plan.stage = "unlock" /\ s \in plan.wait -> <<Unlock(plan.zone)>>
    [] /\ plan.stage = "part" /\ plan.from \in plan.wait
       /\ s = plan.from \/ (s = plan.to /\ block.at # "answered")
                                        -> <<Part(plan.zone, plan.from, plan.to)>>
    [] OTHER                                    -> <<>>

LockedOf(s) ==
  IF \/ plan.stage = "lock" /\ s \notin plan.wait
     \/ plan.stage \in {"part", "mst"}
     \/ plan.stage = "unlock" /\ s \in plan.wait
  THEN plan.zone ELSE {}

MstOf(s) ==
  IF plan.stage = "mst" /\ s \in plan.wait
  THEN [r \in Region |-> IF r \in plan.zone THEN plan.from ELSE owner[r]]
  ELSE owner

StageAt(s) == cmd[s] = CmdOf(s) /\ locked[s] = LockedOf(s) /\ mst[s] = MstOf(s)
StageInv == PlanInv /\ \A s \in Server : StageAt(s)

LEMMA OneCommand ==
  \A c : /\ Append(<<>>, c) = <<c>> /\ Head(<<c>>) = c /\ Tail(<<c>>) = <<>>
         /\ <<c>> # <<>>
OBVIOUS

LEMMA CommandKinds ==
  /\ \A z : Lock(z).type = "lock" /\ Unlock(z).type = "unlock"
            /\ Lock(z).zone = z /\ Unlock(z).zone = z
  /\ \A m : Mst(m).type = "mst" /\ Mst(m).mst = m
  /\ \A z, s, t : /\ Part(z, s, t).type = "part" /\ Part(z, s, t).zone = z
                  /\ Part(z, s, t).from = s /\ Part(z, s, t).to = t
BY DEF Lock, Unlock, Mst, Part

\* A command at a server is that of the stage.
LEMMA CommandOfStage ==
  ASSUME TypeIlm, StageInv, NEW s \in Server, NEW type, At(s, type)
  PROVE  /\ cmd[s] = <<Head(cmd[s])>> /\ Tail(cmd[s]) = <<>>
         /\ type = "part" => /\ plan.stage = "part" /\ plan.wait = {plan.from}
                             /\ s = plan.from \/ (s = plan.to /\ block.at # "answered")
                             /\ Head(cmd[s]) = Part(plan.zone, plan.from, plan.to)
         /\ type # "part" => plan.stage = type /\ s \in plan.wait
         /\ type = "lock" => Head(cmd[s]) = Lock(plan.zone)
         /\ type = "mst" => Head(cmd[s]) = Mst(owner)
         /\ type = "unlock" => Head(cmd[s]) = Unlock(plan.zone)
<1>1. cmd[s] = CmdOf(s) /\ cmd[s] # <<>> /\ Head(cmd[s]).type = type
  BY DEF StageInv, StageAt, At
<1>2. CASE plan.stage = "lock" /\ s \in plan.wait
  <2>1. cmd[s] = <<Lock(plan.zone)>>
    BY <1>1, <1>2 DEF CmdOf
  <2>2. QED
    BY <1>1, <1>2, <2>1, OneCommand, CommandKinds
<1>3. CASE plan.stage = "mst" /\ s \in plan.wait
  <2>1. cmd[s] = <<Mst(owner)>>
    BY <1>1, <1>3 DEF CmdOf
  <2>2. QED
    BY <1>1, <1>3, <2>1, OneCommand, CommandKinds
<1>4. CASE plan.stage = "unlock" /\ s \in plan.wait
  <2>1. cmd[s] = <<Unlock(plan.zone)>>
    BY <1>1, <1>4 DEF CmdOf
  <2>2. QED
    BY <1>1, <1>4, <2>1, OneCommand, CommandKinds
<1>5. CASE /\ plan.stage = "part" /\ plan.from \in plan.wait
           /\ s = plan.from \/ (s = plan.to /\ block.at # "answered")
  <2>1. cmd[s] = <<Part(plan.zone, plan.from, plan.to)>>
    BY <1>1, <1>5 DEF CmdOf
  <2>2. plan.wait = {plan.from}
    BY <1>5 DEF StageInv, PlanInv
  <2>3. QED
    BY <1>1, <1>5, <2>1, <2>2, OneCommand, CommandKinds
<1>6. QED
  BY <1>1, <1>2, <1>3, <1>4, <1>5 DEF CmdOf

LEMMA StageInit == Init => TypeInv /\ StageInv
<1> SUFFICES ASSUME Init
             PROVE  StageInv
  BY TypeInit
<1>1. PlanInv
  BY DEF Init, PlanInv, Idle, NoBlock
<1>2. \A s \in Server : StageAt(s)
  BY DEF Init, StageAt, CmdOf, LockedOf, MstOf, Idle
<1>3. QED
  BY <1>1, <1>2 DEF StageInv

\* Steps of players leave the stages alone.
LEMMA StageStays ==
  ASSUME StageInv, UNCHANGED <<ilmVars, locked, mst, world>>
  PROVE  StageInv'
BY DEF StageInv, PlanInv, BeforeMst, StageAt, CmdOf, LockedOf, MstOf, ilmVars

LEMMA StageStart ==
  ASSUME TypeInv, StageInv, NEW z \in Zones, NEW s \in Server, NEW t \in Server,
         StartPlan(z, s, t)
  PROVE  StageInv'
<1>1. plan = Idle /\ plan.wait = {} /\ plan.stage = "idle"
  BY DEF StartPlan, StageInv, PlanInv, Idle
<1>2. /\ plan' = [stage |-> "lock", zone |-> z, from |-> s, to |-> t, wait |-> Server]
      /\ UNCHANGED <<locked, mst, owner, block, world>>
      /\ s # t /\ "plan" \in world /\ \A r \in z : owner[r] = s
      /\ cmd' = [x \in Server |-> IF x \in Server THEN Append(cmd[x], Lock(z)) ELSE cmd[x]]
  BY DEF StartPlan, SendAll, gsVars
<1>3. PlanInv'
  BY <1>1, <1>2 DEF StageInv, PlanInv, BeforeMst, NoBlock
<1>4. ASSUME NEW x \in Server
      PROVE  StageAt(x)'
  <2>1. cmd[x] = <<>> /\ locked[x] = {} /\ mst[x] = owner
    BY <1>1 DEF StageInv, StageAt, CmdOf, LockedOf, MstOf
  <2>2. cmd'[x] = <<Lock(z)>>
    BY <1>2, <2>1, OneCommand
  <2>3. QED
    BY <1>2, <2>1, <2>2 DEF StageAt, CmdOf, LockedOf, MstOf
<1>5. QED
  BY <1>3, <1>4 DEF StageInv

LEMMA StagePartition ==
  ASSUME TypeInv, StageInv, StartPartition
  PROVE  StageInv'
<1>1. plan.stage = "lock" /\ plan.wait = {} /\ plan.from \in Server
  BY DEF StartPartition, Replied, TypeInv, TypeIlm
<1>2. /\ plan' = [plan EXCEPT !.stage = "part", !.wait = {plan.from}]
      /\ UNCHANGED <<locked, mst, owner, block, world>>
      /\ cmd' = [x \in Server |-> IF x \in {plan.from, plan.to}
                                  THEN Append(cmd[x], Part(plan.zone, plan.from, plan.to))
                                  ELSE cmd[x]]
  BY DEF StartPartition, SendAll, gsVars
<1>3. /\ plan'.stage = "part" /\ plan'.zone = plan.zone /\ plan'.from = plan.from
      /\ plan'.to = plan.to /\ plan'.wait = {plan.from}
  BY <1>2 DEF TypeInv, TypeIlm
<1>4. PlanInv'
  BY <1>1, <1>2, <1>3 DEF StageInv, PlanInv, BeforeMst, NoBlock
<1>5. ASSUME NEW x \in Server
      PROVE  StageAt(x)'
  <2>1. cmd[x] = <<>> /\ locked[x] = plan.zone /\ mst[x] = owner
    BY <1>1 DEF StageInv, StageAt, CmdOf, LockedOf, MstOf
  <2>2. cmd'[x] = IF x \in {plan.from, plan.to}
                  THEN <<Part(plan.zone, plan.from, plan.to)>> ELSE <<>>
    BY <1>2, <2>1, OneCommand
  <2>3. block'.at # "answered"
    BY <1>1, <1>2 DEF StageInv, PlanInv, NoBlock
  <2>4. QED
    BY <1>2, <1>3, <2>1, <2>2, <2>3 DEF StageAt, CmdOf, LockedOf, MstOf
<1>6. QED
  BY <1>4, <1>5 DEF StageInv

LEMMA StageMst ==
  ASSUME TypeInv, StageInv, ChangeMST
  PROVE  StageInv'
<1>1. plan.stage = "part" /\ plan.wait = {} /\ plan.to \in Server
  BY DEF ChangeMST, Replied, TypeInv, TypeIlm
<1>2. /\ plan' = [plan EXCEPT !.stage = "mst", !.wait = Server]
      /\ owner' = [r \in Region |-> IF r \in plan.zone THEN plan.to ELSE owner[r]]
      /\ UNCHANGED <<locked, mst, block, world>>
      /\ cmd' = [x \in Server |-> IF x \in Server THEN Append(cmd[x], Mst(owner')) ELSE cmd[x]]
  BY DEF ChangeMST, SendAll, gsVars
<1>3. /\ plan'.stage = "mst" /\ plan'.zone = plan.zone /\ plan'.from = plan.from
      /\ plan'.to = plan.to /\ plan'.wait = Server /\ plan.zone \subseteq Region
  BY <1>2 DEF TypeInv, TypeIlm
<1>4. PlanInv'
  BY <1>1, <1>2, <1>3 DEF StageInv, PlanInv, BeforeMst, NoBlock
<1>5. ASSUME NEW x \in Server
      PROVE  StageAt(x)'
  <2>1. cmd[x] = <<>> /\ locked[x] = plan.zone /\ mst[x] = owner
    BY <1>1 DEF StageInv, StageAt, CmdOf, LockedOf, MstOf
  <2>2. cmd'[x] = <<Mst(owner')>>
    BY <1>2, <2>1, OneCommand
  <2>3. owner = [r \in Region |-> IF r \in plan.zone THEN plan.from ELSE owner'[r]]
    BY <1>1, <1>2 DEF StageInv, PlanInv, BeforeMst, TypeInv, TypeIlm
  <2>4. QED
    BY <1>2, <1>3, <2>1, <2>2, <2>3 DEF StageAt, CmdOf, LockedOf, MstOf
<1>6. QED
  BY <1>4, <1>5 DEF StageInv

LEMMA StageUnlock ==
  ASSUME TypeInv, StageInv, SendUnlock
  PROVE  StageInv'
<1>1. plan.stage = "mst" /\ plan.wait = {}
  BY DEF SendUnlock, Replied
<1>2. /\ plan' = [plan EXCEPT !.stage = "unlock", !.wait = Server]
      /\ UNCHANGED <<locked, mst, owner, block, world>>
      /\ cmd' = [x \in Server |-> IF x \in Server THEN Append(cmd[x], Unlock(plan.zone))
                                  ELSE cmd[x]]
  BY DEF SendUnlock, SendAll, gsVars
<1>3. /\ plan'.stage = "unlock" /\ plan'.zone = plan.zone /\ plan'.from = plan.from
      /\ plan'.to = plan.to /\ plan'.wait = Server
  BY <1>2 DEF TypeInv, TypeIlm
<1>4. PlanInv'
  BY <1>1, <1>2, <1>3 DEF StageInv, PlanInv, BeforeMst, NoBlock
<1>5. ASSUME NEW x \in Server
      PROVE  StageAt(x)'
  <2>1. cmd[x] = <<>> /\ locked[x] = plan.zone /\ mst[x] = owner
    BY <1>1 DEF StageInv, StageAt, CmdOf, LockedOf, MstOf
  <2>2. cmd'[x] = <<Unlock(plan.zone)>>
    BY <1>2, <2>1, OneCommand
  <2>3. QED
    BY <1>2, <1>3, <2>1, <2>2 DEF StageAt, CmdOf, LockedOf, MstOf
<1>6. QED
  BY <1>4, <1>5 DEF StageInv

LEMMA StageFinish ==
  ASSUME TypeInv, StageInv, FinishPlan
  PROVE  StageInv'
<1>1. plan.stage = "unlock" /\ plan.wait = {} /\ plan' = Idle
  BY DEF FinishPlan, Replied
<1>2. UNCHANGED <<locked, mst, owner, cmd, block, world>>
  BY DEF FinishPlan, gsVars
<1>3. PlanInv'
  BY <1>1, <1>2 DEF StageInv, PlanInv, BeforeMst, NoBlock, Idle
<1>4. ASSUME NEW x \in Server
      PROVE  StageAt(x)'
  <2>1. cmd[x] = <<>> /\ locked[x] = {} /\ mst[x] = owner
    BY <1>1 DEF StageInv, StageAt, CmdOf, LockedOf, MstOf
  <2>2. QED
    BY <1>1, <1>2, <2>1 DEF StageAt, CmdOf, LockedOf, MstOf, Idle
<1>5. QED
  BY <1>3, <1>4 DEF StageInv

\* The answer of server s in a stage that awaits every server
LEMMA StageReply ==
  ASSUME TypeInv, StageInv, NEW s \in Server, NEW type, At(s, type), type # "part",
         Replies(s), UNCHANGED <<owner, block, world>>,
         \A x \in Server \ {s} : locked'[x] = locked[x] /\ mst'[x] = mst[x],
         locked'[s] = LockedOf(s)', mst'[s] = MstOf(s)'
  PROVE  StageInv'
<1>1. /\ plan.stage = type /\ s \in plan.wait /\ Tail(cmd[s]) = <<>>
      /\ cmd' = [cmd EXCEPT ![s] = Tail(cmd[s])]
      /\ plan' = [plan EXCEPT !.wait = plan.wait \ {s}]
  BY CommandOfStage DEF TypeInv, Replies, Done
<1>2. /\ plan'.stage = plan.stage /\ plan'.zone = plan.zone /\ plan'.from = plan.from
      /\ plan'.to = plan.to /\ plan'.wait = plan.wait \ {s}
  BY <1>1 DEF TypeInv, TypeIlm
<1>3. PlanInv'
  BY <1>1, <1>2 DEF StageInv, PlanInv, BeforeMst, NoBlock, Idle
<1>4. cmd'[s] = <<>> /\ CmdOf(s)' = <<>>
  BY <1>1, <1>2 DEF CmdOf, TypeInv, TypeIlm
<1>5. ASSUME NEW x \in Server \ {s}
      PROVE  StageAt(x)'
  <2>1. cmd'[x] = cmd[x] /\ (x \in plan'.wait <=> x \in plan.wait)
    BY <1>1, <1>2 DEF TypeInv, TypeIlm
  <2>2. CmdOf(x)' = CmdOf(x) /\ LockedOf(x)' = LockedOf(x) /\ MstOf(x)' = MstOf(x)
    BY <1>1, <1>2, <2>1 DEF CmdOf, LockedOf, MstOf
  <2>3. QED
    BY <2>1, <2>2 DEF StageInv, StageAt
<1>6. QED
  BY <1>3, <1>4, <1>5 DEF StageInv, StageAt

LEMMA StageServer ==
  ASSUME TypeInv, StageInv, NEW s \in Server,
         LockMap(s) \/ UpdateMST(s) \/ UnlockMap(s)
  PROVE  StageInv'
<1>1. ASSUME LockMap(s)
      PROVE  StageInv'
  <2>1. plan.stage = "lock" /\ s \in plan.wait /\ Zone(s) = plan.zone
    BY <1>1, CommandOfStage, CommandKinds DEF LockMap, TypeInv, Zone
  <2>2. locked' = [locked EXCEPT ![s] = locked[s] \cup plan.zone] /\ mst' = mst
    BY <1>1, <2>1 DEF LockMap
  <2>3. plan'.stage = "lock" /\ plan'.zone = plan.zone /\ s \notin plan'.wait /\ owner' = owner
    BY <1>1, <2>1 DEF LockMap, Replies, TypeInv, TypeIlm
  <2>4. locked[s] = {} /\ mst[s] = owner
    BY <2>1 DEF StageInv, StageAt, LockedOf, MstOf
  <2>5. locked'[s] = LockedOf(s)' /\ mst'[s] = MstOf(s)'
    BY <2>2, <2>3, <2>4 DEF LockedOf, MstOf, TypeInv, TypeGs
  <2>6. \A x \in Server \ {s} : locked'[x] = locked[x] /\ mst'[x] = mst[x]
    BY <2>2 DEF TypeInv, TypeGs
  <2>7. QED
    BY <1>1, <2>5, <2>6, StageReply DEF LockMap
<1>2. ASSUME UpdateMST(s)
      PROVE  StageInv'
  <2>1. plan.stage = "mst" /\ s \in plan.wait /\ Head(cmd[s]).mst = owner
    BY <1>2, CommandOfStage, CommandKinds DEF UpdateMST, TypeInv
  <2>2. mst' = [mst EXCEPT ![s] = owner] /\ locked' = locked
    BY <1>2, <2>1 DEF UpdateMST
  <2>3. plan'.stage = "mst" /\ plan'.zone = plan.zone /\ s \notin plan'.wait /\ owner' = owner
    BY <1>2, <2>1 DEF UpdateMST, Replies, TypeInv, TypeIlm
  <2>4. locked[s] = plan.zone
    BY <2>1 DEF StageInv, StageAt, LockedOf
  <2>5. locked'[s] = LockedOf(s)' /\ mst'[s] = MstOf(s)'
    BY <2>2, <2>3, <2>4 DEF LockedOf, MstOf, TypeInv, TypeGs
  <2>6. \A x \in Server \ {s} : locked'[x] = locked[x] /\ mst'[x] = mst[x]
    BY <2>2 DEF TypeInv, TypeGs
  <2>7. QED
    BY <1>2, <2>5, <2>6, StageReply DEF UpdateMST
<1>3. ASSUME UnlockMap(s)
      PROVE  StageInv'
  <2>1. plan.stage = "unlock" /\ s \in plan.wait /\ Zone(s) = plan.zone
    BY <1>3, CommandOfStage, CommandKinds DEF UnlockMap, TypeInv, Zone
  <2>2. locked' = [locked EXCEPT ![s] = locked[s] \ plan.zone] /\ mst' = mst
    BY <1>3, <2>1 DEF UnlockMap
  <2>3. /\ plan'.stage = "unlock" /\ plan'.zone = plan.zone /\ s \notin plan'.wait
        /\ owner' = owner
    BY <1>3, <2>1 DEF UnlockMap, Replies, TypeInv, TypeIlm
  <2>4. locked[s] = plan.zone /\ mst[s] = owner
    BY <2>1 DEF StageInv, StageAt, LockedOf, MstOf
  <2>5. locked'[s] = LockedOf(s)' /\ mst'[s] = MstOf(s)'
    BY <2>2, <2>3, <2>4 DEF LockedOf, MstOf, TypeInv, TypeGs
  <2>6. \A x \in Server \ {s} : locked'[x] = locked[x] /\ mst'[x] = mst[x]
    BY <2>2 DEF TypeInv, TypeGs
  <2>7. QED
    BY <1>3, <2>5, <2>6, StageReply DEF UnlockMap
<1>4. QED
  BY <1>1, <1>2, <1>3

LEMMA StageBlock ==
  ASSUME TypeInv, StageInv, NEW s \in Server,
         PackMap(s) \/ UnpackMap(s) \/ PartitionDone(s)
  PROVE  StageInv'
<1>1. /\ At(s, "part") /\ plan.stage = "part" /\ plan.wait = {plan.from}
      /\ Zone(s) = plan.zone /\ Head(cmd[s]).from = plan.from /\ Head(cmd[s]).to = plan.to
      /\ Tail(cmd[s]) = <<>> /\ plan.from # plan.to
      /\ UNCHANGED <<locked, mst, owner, world>>
  BY CommandOfStage, CommandKinds
     DEF PackMap, UnpackMap, PartitionDone, gsVars, Zone, TypeInv, StageInv, PlanInv
<1>2. \A x \in Server : locked[x] = plan.zone /\ mst[x] = owner
  BY <1>1 DEF StageInv, StageAt, LockedOf, MstOf
<1>3. ASSUME PackMap(s)
      PROVE  StageInv'
  <2>1. /\ block' = [at |-> "sent", objects |-> Package(s, plan.zone)]
        /\ UNCHANGED <<plan, cmd>>
    BY <1>1, <1>3 DEF PackMap
  <2>2. \A o \in block'.objects : o.at \in plan.zone
    BY <2>1 DEF Package, Inside
  <2>3. PlanInv'
    BY <1>1, <2>1, <2>2 DEF StageInv, PlanInv, BeforeMst
  <2>4. block.at # "answered"
    BY <1>3 DEF PackMap
  <2>5. ASSUME NEW x \in Server
        PROVE  StageAt(x)'
    <3>1. CmdOf(x)' = CmdOf(x) /\ LockedOf(x)' = LockedOf(x) /\ MstOf(x)' = MstOf(x)
      BY <1>1, <2>1, <2>4 DEF CmdOf, LockedOf, MstOf
    <3>2. QED
      BY <1>1, <2>1, <3>1 DEF StageInv, StageAt
  <2>6. QED
    BY <2>3, <2>5 DEF StageInv
<1>4. ASSUME UnpackMap(s)
      PROVE  StageInv'
  <2>1. /\ s = plan.to /\ block.at = "sent" /\ block' = [block EXCEPT !.at = "answered"]
        /\ plan' = plan /\ cmd' = [cmd EXCEPT ![s] = <<>>]
    BY <1>1, <1>4 DEF UnpackMap, Done
  <2>2. block'.objects = block.objects /\ block'.at = "answered"
    BY <2>1 DEF TypeInv, TypeIlm
  <2>3. PlanInv'
    BY <1>1, <2>1, <2>2 DEF StageInv, PlanInv, BeforeMst
  <2>4. ASSUME NEW x \in Server
        PROVE  StageAt(x)'
    <3>1. LockedOf(x)' = LockedOf(x) /\ MstOf(x)' = MstOf(x)
      BY <1>1, <2>1 DEF LockedOf, MstOf
    <3>2. CmdOf(x)' = IF x = s THEN <<>> ELSE CmdOf(x)
      BY <1>1, <2>1, <2>2 DEF CmdOf
    <3>3. cmd'[x] = IF x = s THEN <<>> ELSE cmd[x]
      BY <2>1 DEF TypeInv, TypeIlm
    <3>4. QED
      BY <1>1, <3>1, <3>2, <3>3 DEF StageInv, StageAt
  <2>5. QED
    BY <2>3, <2>4 DEF StageInv
<1>5. ASSUME PartitionDone(s)
      PROVE  StageInv'
  <2>1. /\ s = plan.from /\ block.at = "answered" /\ block' = NoBlock
        /\ plan' = [plan EXCEPT !.wait = plan.wait \ {s}]
        /\ cmd' = [cmd EXCEPT ![s] = <<>>]
    BY <1>1, <1>5 DEF PartitionDone, Replies, Done
  <2>2. /\ plan'.stage = "part" /\ plan'.zone = plan.zone /\ plan'.from = plan.from
        /\ plan'.to = plan.to /\ plan'.wait = {}
    BY <1>1, <2>1 DEF TypeInv, TypeIlm
  <2>3. PlanInv'
    BY <1>1, <2>1, <2>2 DEF StageInv, PlanInv, BeforeMst, NoBlock
  <2>4. ASSUME NEW x \in Server
        PROVE  StageAt(x)'
    <3>1. LockedOf(x)' = plan.zone /\ MstOf(x)' = owner /\ CmdOf(x)' = <<>>
      BY <1>1, <2>2 DEF LockedOf, MstOf, CmdOf
    <3>2. x # s => cmd[x] = <<>>
      BY <1>1, <2>1 DEF StageInv, StageAt, CmdOf
    <3>3. cmd'[x] = <<>>
      BY <2>1, <3>2 DEF TypeInv, TypeIlm
    <3>4. QED
      BY <1>1, <1>2, <3>1, <3>3 DEF StageAt
  <2>5. QED
    BY <2>3, <2>4 DEF StageInv
<1>6. QED
  BY <1>3, <1>4, <1>5

LEMMA StageStep ==
  ASSUME TypeInv, StageInv, Finishes, [Next]_vars
  PROVE  StageInv'
<1>1. CASE UNCHANGED vars
  BY <1>1, StageStays DEF vars, gsVars
<1>2. ASSUME NEW p \in Player, ClientMessage(p) \/ \E r \in Region : ClientOrders(p, r)
      PROVE  StageInv'
  BY <1>2, StageStays DEF ClientMessage, ClientOrders, gsVars
<1>3. ASSUME NEW s \in Server, NEW t \in Server, CreateAgent(s, t) \/ DeleteAgent(s, t)
      PROVE  StageInv'
  BY <1>3, StageStays DEF CreateAgent, DeleteAgent
<1>4. ASSUME Abort
      PROVE  FALSE
  BY <1>4 DEF Abort, Finishes, StageInv, PlanInv
<1>5. CASE Next
  BY <1>2, <1>3, <1>4, <1>5, StageStart, StagePartition, StageMst, StageUnlock, StageFinish,
     StageServer, StageBlock DEF Next
<1>6. QED
  BY <1>1, <1>5

\* A behaviour stays in its world.
LEMMA WorldStays ==
  ASSUME [Next]_vars
  PROVE  world' = world
BY ZenonT(30) DEF Next, vars, ClientMessage, ClientOrders, CreateAgent, DeleteAgent, StartPlan,
       StartPartition, ChangeMST, SendUnlock, FinishPlan, Abort, LockMap, PackMap,
       UnpackMap, PartitionDone, UpdateMST, UnlockMap

\* While no plan is given up, the ILM's stage says what every server has been
\* told, has locked and takes for the MST: no command is late, and a server that
\* has answered is done.
THEOREM StagesKept == Spec => [](Finishes => StageInv)
<1>1. Init => (Finishes => StageInv)
  BY StageInit
<1>2. ASSUME TypeInv, Finishes => StageInv, [Next]_vars
      PROVE  (Finishes => StageInv)'
  BY <1>2, WorldStays, StageStep DEF Finishes
<1>3. QED
  BY <1>1, <1>2, SeamlessTypes, PTL DEF Spec

-----------------------------------------------------------------------------
(***************************************************************************)
(* The players of a world whose zones move, for every value of the         *)
(* constants: who decides a player, and whether its client is served.      *)
(*                                                                         *)
(* None of the properties is inductive.  PlayerInv says in which phase of a *)
(* plan which server may have which copy: copies at the destination come    *)
(* with the package only; the entity that the source keeps until it unlocks *)
(* is in the zone, and its client is gone; a shadow is never in a region of *)
(* its own server, which needs that no message makes one there; and nothing *)
(* is under way to the server a client talks to that is about its player.   *)
(***************************************************************************)

Running == plan.stage # "idle"

\* From the pack, and from the unpacking on; until the ILM's MST changes
AfterPack   == \/ plan.stage = "part" /\ (block.at # "none" \/ plan.wait = {})
               \/ plan.stage \in {"mst", "unlock"}
AfterUnpack == \/ plan.stage = "part" /\ (block.at = "answered" \/ plan.wait = {})
               \/ plan.stage \in {"mst", "unlock"}
Answered    == plan.stage = "part" /\ AfterUnpack

\* The destination has not got the new MST; the source has cleared the zone.
ToOld      == AfterUnpack /\ (plan.stage = "part" \/ (plan.stage = "mst" /\ plan.to \in plan.wait))
SourceDone == plan.stage = "unlock" /\ plan.from \notin plan.wait

\* Server s keeps the entity of a player whose client was told the destination.
Twice(s, p) == AfterUnpack /\ s = plan.from /\ client[p].server = plan.to

OrderInv(p) ==
  order[p] # None =>
    /\ order[p].server = client[p].server
    /\ AfterPack /\ order[p].server \in {plan.from, plan.to} =>
         \/ owner[order[p].to] = order[p].server
         \/ order[p].server = plan.from /\ order[p].to \in plan.zone

EntityInv(s, p) ==
  IsEntity(s, p) =>
    /\ s = client[p].server \/ (Twice(s, p) /\ ~SourceDone)
    /\ Twice(s, p) => copy[s][p].at \in plan.zone
    /\ \/ mst[s][copy[s][p].at] = s
       \/ /\ AfterUnpack /\ copy[s][p].at \in plan.zone
          /\ s = plan.to \/ (s = plan.from /\ ~SourceDone)

AgentInv(s, p) ==
  Has(s, p) /\ copy[s][p].agent =>
    /\ owner[copy[s][p].at] # s
    /\ s = client[p].server => mst[s][copy[s][p].at] # s

ListInv(s, p) ==
  Has(s, p) => s \notin copy[s][p].list /\ (BeforeMst => plan.to \notin copy[s][p].list)

\* A message m to server t
MessageInv(t, m) ==
  /\ m.type = "create" => owner[m.at] # t
  /\ client[m.player].server # t
  /\ Answered /\ t = plan.from /\ client[m.player].server = plan.to => ~IsEntity(t, m.player)

NetInv(s, t) ==
  /\ \A m \in ToSet(net[s][t]) : MessageInv(t, m)
  /\ BeforeMst /\ t = plan.to => net[s][t] = <<>>

\* A packed player waits, at the source, for what the unpacking tells its client.
ObjectInv(o) ==
  /\ client[o.player] = [server |-> plan.from, frozen |-> TRUE]
  /\ order[o.player] = None
  /\ IsEntity(plan.from, o.player) /\ copy[plan.from][o.player].at = o.at

BlockInv ==
  /\ block.at = "sent" => \A o \in block.objects : ObjectInv(o)
  /\ AfterPack => ~isDest[plan.from]
  /\ AfterUnpack => isDest[plan.to]

\* The destination of a plan has the zone and what is in it, and nothing else.
DestInv ==
  Running =>
  /\ \A r \in Region \ plan.zone : owner[r] # plan.to
  /\ ~AfterUnpack => \A p \in Player : ~Has(plan.to, p)
  /\ ToOld => \A p \in Player : Has(plan.to, p) /\ (Answered \/ client[p].server = plan.to) =>
                IsEntity(plan.to, p) /\ copy[plan.to][p].at \in plan.zone

PlayerInv ==
  /\ \A p \in Player : OrderInv(p)
  /\ \A s \in Server, p \in Player : EntityInv(s, p) /\ AgentInv(s, p) /\ ListInv(s, p)
  /\ \A s, t \in Server : NetInv(s, t)
  /\ BlockInv /\ DestInv

-----------------------------------------------------------------------------
(* What the stages say                                                      *)

Phases == <<Running, BeforeMst, AfterPack, AfterUnpack, Answered, ToOld, SourceDone,
            plan.zone, plan.from, plan.to>>

LEMMA PlanFacts ==
  ASSUME TypeInv, StageInv
  PROVE  /\ Running => /\ plan.from \in Server /\ plan.to \in Server /\ plan.from # plan.to
                       /\ "plan" \in world /\ \E z \in Region : plan.zone = {z}
         /\ ~Running => ~BeforeMst /\ ~AfterPack /\ plan.zone = {}
         /\ AfterUnpack => AfterPack
         /\ AfterPack => Running
         /\ ~AfterUnpack /\ Running => BeforeMst
         /\ ToOld => AfterUnpack
         /\ Answered => ToOld
         /\ Answered <=> AfterUnpack /\ BeforeMst
         /\ BeforeMst => Running
         /\ \A r \in plan.zone : r \in Region /\ owner[r] = IF BeforeMst THEN plan.from ELSE plan.to
         /\ block.at = "sent" => AfterPack /\ ~AfterUnpack
<1>1. plan.stage \in {"idle", "lock", "part", "mst", "unlock"}
  BY DEF TypeInv, TypeIlm
<1>2. plan.zone \subseteq Region
  BY DEF TypeInv, TypeIlm
<1>3. Running => \E z \in Region : plan.zone = {z}
  BY SeamlessAssumption DEF StageInv, PlanInv, Running
<1>4. ~Running => plan.zone = {}
  BY DEF StageInv, PlanInv, Running, Idle
<1>5. Running => plan.from \in Server /\ plan.to \in Server
  BY DEF Running, TypeInv, TypeIlm
<1>6. block.at = "sent" => plan.stage = "part" /\ plan.wait # {}
  BY DEF StageInv, PlanInv
<1>7. QED
  BY <1>1, <1>2, <1>3, <1>4, <1>5, <1>6
     DEF StageInv, PlanInv, Running, BeforeMst, AfterPack, AfterUnpack, Answered, ToOld

LEMMA MstFacts ==
  ASSUME TypeInv, StageInv, NEW s \in Server, NEW r \in Region
  PROVE  /\ r \notin plan.zone => mst[s][r] = owner[r]
         /\ r \in plan.zone => \/ mst[s][r] = owner[r]
                               \/ /\ plan.stage = "mst" /\ s \in plan.wait
                                  /\ mst[s][r] = plan.from /\ owner[r] = plan.to
         /\ plan.stage = "mst" /\ s \in plan.wait /\ r \in plan.zone => mst[s][r] = plan.from
         /\ BeforeMst \/ plan.stage = "unlock" \/ ~Running => mst[s] = owner
<1>1. mst[s] = MstOf(s)
  BY DEF StageInv, StageAt
<1>2. plan.stage = "mst" => \A x \in plan.zone : owner[x] = plan.to
  BY DEF StageInv, PlanInv, BeforeMst
<1>3. QED
  BY <1>1, <1>2 DEF MstOf, BeforeMst, Running

\* The servers around a region that the destination does not run yet, or that
\* is in the zone: the destination is none of them.
LEMMA NearNotDest ==
  ASSUME TypeInv, StageInv, DestInv, Running, NEW s \in Server, NEW r \in Region,
         BeforeMst \/ r \in plan.zone
  PROVE  plan.to \notin Near(s, r)
<1> SUFFICES ASSUME NEW x \in Around(r)
             PROVE  mst[s][x] # plan.to
  BY DEF Near
<1>1. x \in Region /\ x # r
  BY AroundInGrid
<1>2. x \notin plan.zone => mst[s][x] # plan.to
  BY <1>1, MstFacts DEF DestInv
<1>3. x \in plan.zone => BeforeMst /\ mst[s][x] = plan.from
  BY <1>1, PlanFacts, MstFacts
<1>4. QED
  BY <1>2, <1>3, PlanFacts

\* A step that leaves players, messages and phases alone
LEMMA PlayersStay ==
  ASSUME PlayerInv, UNCHANGED <<copy, net, client, order, mst, owner, isDest, Phases>>,
         block' = block \/ block'.at # "sent"
  PROVE  PlayerInv'
<1> USE DEF Phases
<1>1. ASSUME NEW p \in Player
      PROVE  OrderInv(p)'
  BY DEF PlayerInv, OrderInv
<1>2. ASSUME NEW s \in Server, NEW p \in Player
      PROVE  EntityInv(s, p)' /\ AgentInv(s, p)' /\ ListInv(s, p)'
  BY DEF PlayerInv, EntityInv, AgentInv, ListInv, Twice, IsEntity, Has
<1>3. ASSUME NEW s \in Server, NEW t \in Server
      PROVE  NetInv(s, t)'
  BY DEF PlayerInv, NetInv, MessageInv, IsEntity, Has
<1>4. BlockInv'
  BY DEF PlayerInv, BlockInv, ObjectInv, IsEntity, Has
<1>5. DestInv'
  BY DEF PlayerInv, DestInv, IsEntity, Has
<1>6. QED
  BY <1>1, <1>2, <1>3, <1>4, <1>5 DEF PlayerInv
-----------------------------------------------------------------------------
(* The steps of a plan                                                      *)

LEMMA PlayersInit == Init => PlayerInv
<1> SUFFICES ASSUME Init
             PROVE  PlayerInv
  OBVIOUS
<1>1. PICK at \in [Player -> Region] :
        /\ copy = [s \in Server |-> [p \in Player |->
                     IF FirstOwner[at[p]] = s THEN NewCopy(at[p], FALSE) ELSE None]]
        /\ client = [p \in Player |-> [server |-> FirstOwner[at[p]], frozen |-> FALSE]]
  BY DEF Init
<1>2. plan = Idle /\ block = NoBlock /\ mst = [s \in Server |-> FirstOwner] /\ owner = FirstOwner
      /\ net = [s \in Server |-> [t \in Server |-> <<>>]] /\ order = [p \in Player |-> None]
  BY DEF Init
<1>3. ~Running /\ ~BeforeMst /\ ~AfterPack /\ ~AfterUnpack /\ block.at = "none"
  BY <1>2 DEF Idle, NoBlock, Running, BeforeMst, AfterPack, AfterUnpack
<1>4. ASSUME NEW p \in Player
      PROVE  OrderInv(p)
  BY <1>2 DEF OrderInv
<1>5. ASSUME NEW s \in Server, NEW p \in Player
      PROVE  EntityInv(s, p) /\ AgentInv(s, p) /\ ListInv(s, p)
  <2>1. Has(s, p) => /\ client[p].server = s /\ FirstOwner[at[p]] = s
                     /\ copy[s][p] = [at |-> at[p], agent |-> FALSE, list |-> {}]
    BY <1>1 DEF Has, NewCopy
  <2>2. mst[s] = FirstOwner
    BY <1>2
  <2>3. EntityInv(s, p)
    BY <1>3, <2>1, <2>2 DEF EntityInv, IsEntity, Twice
  <2>4. AgentInv(s, p) /\ ListInv(s, p)
    BY <2>1 DEF AgentInv, ListInv
  <2>5. QED
    BY <2>3, <2>4
<1>6. ASSUME NEW s \in Server, NEW t \in Server
      PROVE  NetInv(s, t)
  <2>1. net[s][t] = <<>> /\ ToSet(<<>>) = {}
    BY <1>2 DEF ToSet
  <2>2. QED
    BY <2>1 DEF NetInv
<1>7. BlockInv /\ DestInv
  BY <1>3 DEF BlockInv, DestInv
<1>8. QED
  BY <1>4, <1>5, <1>6, <1>7 DEF PlayerInv

LEMMA PlayersStart ==
  ASSUME TypeInv, StageInv, StageInv', PlayerInv, Clean,
         NEW z \in Zones, NEW s \in Server, NEW t \in Server, StartPlan(z, s, t)
  PROVE  PlayerInv'
<1>1. /\ plan' = [stage |-> "lock", zone |-> z, from |-> s, to |-> t, wait |-> Server]
      /\ UNCHANGED <<copy, net, client, order, mst, owner, isDest, block>>
      /\ ~Running
  BY DEF StartPlan, gsVars, Running
<1>2. Unused(t)
  BY DEF StartPlan, Clean
<1>3. /\ Running' /\ BeforeMst' /\ ~AfterPack' /\ ~AfterUnpack' /\ ~Answered' /\ ~ToOld'
      /\ plan'.zone = z /\ plan'.from = s /\ plan'.to = t
  BY <1>1 DEF Running, BeforeMst, AfterPack, AfterUnpack, Answered, ToOld
<1>4. ~AfterPack /\ ~AfterUnpack /\ ~BeforeMst /\ block.at # "sent" /\ block'.at # "sent"
  BY <1>1, PlanFacts
<1>5. ASSUME NEW p \in Player
      PROVE  OrderInv(p)'
  BY <1>1, <1>3 DEF PlayerInv, OrderInv
<1>6. ASSUME NEW x \in Server, NEW p \in Player
      PROVE  EntityInv(x, p)' /\ AgentInv(x, p)' /\ ListInv(x, p)'
  <2>1. EntityInv(x, p) /\ AgentInv(x, p) /\ ListInv(x, p)
    BY DEF PlayerInv
  <2>2. EntityInv(x, p)'
    BY <1>1, <1>3, <1>4, <2>1 DEF EntityInv, Twice, IsEntity, Has
  <2>3. AgentInv(x, p)'
    BY <1>1, <2>1 DEF AgentInv, Has
  <2>4. ListInv(x, p)'
    BY <1>1, <1>2, <1>3, <2>1 DEF ListInv, Unused, Has
  <2>5. QED
    BY <2>2, <2>3, <2>4
<1>7. ASSUME NEW x \in Server, NEW y \in Server
      PROVE  NetInv(x, y)'
  BY <1>1, <1>2, <1>3 DEF PlayerInv, NetInv, MessageInv, Unused
<1>8. BlockInv' /\ DestInv'
  BY <1>1, <1>2, <1>3, <1>4 DEF BlockInv, DestInv, Unused, Has
<1>9. QED
  BY <1>5, <1>6, <1>7, <1>8 DEF PlayerInv

\* Steps that change the stage only: no phase ends with them.
LEMMA PlayersStage ==
  ASSUME TypeInv, StageInv, PlayerInv,
         \/ StartPartition \/ SendUnlock \/ \E s \in Server : LockMap(s) \/ PartitionDone(s)
  PROVE  PlayerInv'
<1>1. UNCHANGED <<copy, net, client, order, mst, owner, isDest>>
  BY DEF StartPartition, SendUnlock, LockMap, PartitionDone, gsVars
<1>2. CASE StartPartition
  <2>1. /\ plan.stage = "lock" /\ plan' = [plan EXCEPT !.stage = "part", !.wait = {plan.from}]
        /\ block' = block
    BY <1>2 DEF StartPartition, Replied
  <2>2. block.at = "none"
    BY <2>1 DEF StageInv, PlanInv, TypeInv, TypeIlm
  <2>3. UNCHANGED Phases
    BY <2>1, <2>2 DEF Phases, Running, BeforeMst, AfterPack, AfterUnpack, Answered, ToOld,
                      SourceDone, TypeInv, TypeIlm
  <2>4. QED
    BY <1>1, <2>1, <2>3, PlayersStay
<1>3. CASE SendUnlock
  <2>1. /\ plan.stage = "mst" /\ plan.wait = {} /\ block' = block
        /\ plan' = [plan EXCEPT !.stage = "unlock", !.wait = Server] /\ plan.from \in Server
    BY <1>3 DEF SendUnlock, Replied, TypeInv, TypeIlm
  <2>2. UNCHANGED Phases
    BY <2>1 DEF Phases, Running, BeforeMst, AfterPack, AfterUnpack, Answered, ToOld,
                SourceDone, TypeInv, TypeIlm
  <2>3. QED
    BY <1>1, <2>1, <2>2, PlayersStay
<1>4. ASSUME NEW s \in Server, LockMap(s)
      PROVE  PlayerInv'
  <2>1. plan.stage = "lock" /\ plan' = [plan EXCEPT !.wait = plan.wait \ {s}] /\ block' = block
    BY <1>4, CommandOfStage DEF LockMap, Replies, TypeInv
  <2>2. UNCHANGED Phases
    BY <2>1 DEF Phases, Running, BeforeMst, AfterPack, AfterUnpack, Answered, ToOld,
                SourceDone, TypeInv, TypeIlm
  <2>3. QED
    BY <1>1, <2>1, <2>2, PlayersStay
<1>5. ASSUME NEW s \in Server, PartitionDone(s)
      PROVE  PlayerInv'
  <2>1. /\ plan.stage = "part" /\ plan.wait = {plan.from} /\ Head(cmd[s]).from = plan.from
    BY <1>5, CommandOfStage, CommandKinds DEF PartitionDone, TypeInv
  <2>2. /\ plan' = [plan EXCEPT !.wait = plan.wait \ {s}] /\ s = plan.from
        /\ block.at = "answered" /\ block'.at = "none"
    BY <1>5, <2>1 DEF PartitionDone, Replies, NoBlock
  <2>3. UNCHANGED Phases
    BY <2>1, <2>2 DEF Phases, Running, BeforeMst, AfterPack, AfterUnpack, Answered, ToOld,
                      SourceDone, TypeInv, TypeIlm
  <2>4. QED
    BY <1>1, <2>2, <2>3, PlayersStay
<1>6. QED
  BY <1>2, <1>3, <1>4, <1>5

LEMMA PlayersMst ==
  ASSUME TypeInv, StageInv, StageInv', PlayerInv, ChangeMST
  PROVE  PlayerInv'
<1>1. /\ plan.stage = "part" /\ plan.wait = {}
      /\ plan' = [plan EXCEPT !.stage = "mst", !.wait = Server]
      /\ owner' = [r \in Region |-> IF r \in plan.zone THEN plan.to ELSE owner[r]]
      /\ UNCHANGED <<copy, net, client, order, mst, isDest, block>>
  BY DEF ChangeMST, Replied, gsVars
<1>2. /\ plan'.stage = "mst" /\ plan'.zone = plan.zone /\ plan'.from = plan.from
      /\ plan'.to = plan.to
  BY <1>1 DEF TypeInv, TypeIlm
<1>3. /\ AfterPack /\ AfterUnpack /\ Answered /\ ToOld /\ BeforeMst /\ ~SourceDone /\ Running
      /\ AfterPack' /\ AfterUnpack' /\ ~Answered' /\ ~BeforeMst' /\ ~SourceDone' /\ Running'
  BY <1>1, <1>2 DEF AfterPack, AfterUnpack, Answered, ToOld, BeforeMst, SourceDone, Running
<1>4. /\ plan.from # plan.to /\ block.at # "sent" /\ plan.zone \subseteq Region
      /\ \A r \in plan.zone : owner[r] = plan.from /\ owner'[r] = plan.to
      /\ \A r \in Region \ plan.zone : owner'[r] = owner[r]
  BY <1>1, <1>3, PlanFacts
<1>5. ASSUME NEW p \in Player
      PROVE  OrderInv(p)'
  <2>1. OrderInv(p)
    BY DEF PlayerInv
  <2>2. order[p] # None => order[p].to \in Region
    BY DEF TypeInv, TypeClient, Order
  <2>3. QED
    BY <1>1, <1>2, <1>3, <1>4, <2>1, <2>2 DEF OrderInv
<1>6. ASSUME NEW s \in Server, NEW p \in Player
      PROVE  EntityInv(s, p)' /\ AgentInv(s, p)' /\ ListInv(s, p)'
  <2>1. EntityInv(s, p) /\ AgentInv(s, p) /\ ListInv(s, p)
    BY DEF PlayerInv
  <2>2. Has(s, p) => copy[s][p].at \in Region
    BY CopyType DEF TypeInv, Copy
  <2>3. EntityInv(s, p)' /\ ListInv(s, p)'
    BY <1>1, <1>2, <1>3, <2>1 DEF EntityInv, ListInv, Twice, IsEntity, Has
  <2>4. AgentInv(s, p)'
    <3>1. s = plan.to /\ Has(s, p) => IsEntity(s, p)
      BY <1>3 DEF PlayerInv, DestInv
    <3>2. QED
      BY <1>1, <1>4, <2>1, <2>2, <3>1 DEF AgentInv, IsEntity, Has
  <2>5. QED
    BY <2>3, <2>4
<1>7. ASSUME NEW s \in Server, NEW t \in Server
      PROVE  NetInv(s, t)'
  <2>1. NetInv(s, t)
    BY DEF PlayerInv
  <2>2. t = plan.to => ToSet(net[s][t]) = {}
    BY <1>3, <2>1, ToSetType DEF NetInv, TypeInv, TypeNet
  <2>3. ASSUME NEW m \in ToSet(net[s][t])
        PROVE  MessageInv(t, m)'
    <3>1. m.type = "create" => m.at \in Region
      BY ToSetType DEF TypeInv, TypeNet, Message
    <3>2. MessageInv(t, m) /\ t # plan.to
      BY <2>1, <2>2 DEF NetInv
    <3>3. QED
      BY <1>1, <1>3, <1>4, <3>1, <3>2 DEF MessageInv
  <2>4. QED
    BY <1>1, <1>3, <2>3 DEF NetInv
<1>8. BlockInv'
  BY <1>1, <1>2, <1>3, <1>4 DEF PlayerInv, BlockInv
<1>9. DestInv'
  BY <1>1, <1>2, <1>3, <1>4 DEF PlayerInv, DestInv, IsEntity, Has
<1>10. QED
  BY <1>5, <1>6, <1>7, <1>8, <1>9 DEF PlayerInv

LEMMA PlayersFinish ==
  ASSUME TypeInv, StageInv, StageInv', PlayerInv, FinishPlan
  PROVE  PlayerInv'
<1>1. /\ plan.stage = "unlock" /\ plan.wait = {} /\ plan' = Idle
      /\ UNCHANGED <<copy, net, client, order, mst, owner, isDest, block>>
  BY DEF FinishPlan, Replied, gsVars
<1>2. /\ AfterUnpack /\ SourceDone /\ ~BeforeMst /\ Running
      /\ ~AfterPack' /\ ~AfterUnpack' /\ ~Answered' /\ ~BeforeMst' /\ ~Running'
  BY <1>1 DEF AfterPack, AfterUnpack, Answered, BeforeMst, SourceDone, Running, Idle
<1>3. block.at # "sent"
  BY <1>2, PlanFacts
<1>4. ASSUME NEW p \in Player
      PROVE  OrderInv(p)'
  BY <1>1, <1>2 DEF PlayerInv, OrderInv
<1>5. ASSUME NEW s \in Server, NEW p \in Player
      PROVE  EntityInv(s, p)' /\ AgentInv(s, p)' /\ ListInv(s, p)'
  <2>1. EntityInv(s, p) /\ AgentInv(s, p) /\ ListInv(s, p)
    BY DEF PlayerInv
  <2>2. mst[s] = owner /\ \A r \in plan.zone : owner[r] = plan.to
    BY <1>1, <1>2, PlanFacts, MstFacts, SeamlessAssumption DEF StageInv, StageAt, MstOf
  <2>3. EntityInv(s, p)'
    BY <1>1, <1>2, <2>1, <2>2 DEF EntityInv, Twice, IsEntity, Has
  <2>4. AgentInv(s, p)' /\ ListInv(s, p)'
    BY <1>1, <1>2, <2>1 DEF AgentInv, ListInv, Has
  <2>5. QED
    BY <2>3, <2>4
<1>6. ASSUME NEW s \in Server, NEW t \in Server
      PROVE  NetInv(s, t)'
  BY <1>1, <1>2 DEF PlayerInv, NetInv, MessageInv
<1>7. BlockInv' /\ DestInv'
  BY <1>1, <1>2, <1>3 DEF BlockInv, DestInv
<1>8. QED
  BY <1>4, <1>5, <1>6, <1>7 DEF PlayerInv

LEMMA PlayersPack ==
  ASSUME TypeInv, StageInv, StageInv', PlayerInv, Clean, NEW s \in Server, PackMap(s)
  PROVE  PlayerInv'
<1>1. /\ plan.stage = "part" /\ plan.wait = {plan.from} /\ Zone(s) = plan.zone
      /\ s = plan.from /\ block.at = "none" /\ "plan" \in world
  BY CommandOfStage, CommandKinds DEF PackMap, TypeInv, Zone, StageInv, PlanInv
<1>2. /\ isDest' = [isDest EXCEPT ![s] = FALSE]
      /\ client' = Freeze(s, Inside(s, plan.zone))
      /\ block' = [at |-> "sent", objects |-> Package(s, plan.zone)]
      /\ \A p \in Player : order[p] = None
      /\ UNCHANGED <<copy, net, order, mst, owner, plan>>
  BY <1>1 DEF PackMap, Clean
<1>3. /\ ~AfterPack /\ ~AfterUnpack /\ ~Answered /\ BeforeMst /\ Running
      /\ UNCHANGED <<Running, BeforeMst, AfterUnpack, Answered, ToOld, SourceDone>>
  BY <1>1, <1>2 DEF AfterPack, AfterUnpack, Answered, ToOld, BeforeMst, SourceDone, Running
<1>4. \A p \in Player : client'[p].server = client[p].server
  BY <1>2 DEF Freeze, TypeInv, TypeClient
<1>5. ASSUME NEW p \in Player
      PROVE  OrderInv(p)'
  BY <1>2 DEF OrderInv
<1>6. ASSUME NEW x \in Server, NEW p \in Player
      PROVE  EntityInv(x, p)' /\ AgentInv(x, p)' /\ ListInv(x, p)'
  BY <1>2, <1>3, <1>4 DEF PlayerInv, EntityInv, AgentInv, ListInv, Twice, IsEntity, Has
<1>7. ASSUME NEW x \in Server, NEW y \in Server
      PROVE  NetInv(x, y)'
  <2>1. \A m \in ToSet(net[x][y]) : m.player \in Player
    BY ToSetType DEF TypeInv, TypeNet, Message
  <2>2. QED
    BY <1>2, <1>3, <1>4, <2>1 DEF PlayerInv, NetInv, MessageInv
<1>8. BlockInv'
  <2>1. ASSUME NEW o \in block'.objects
        PROVE  ObjectInv(o)'
    <3>1. PICK p \in Inside(s, plan.zone) : o = [player |-> p, at |-> copy[s][p].at]
      BY <1>2, <2>1 DEF Package
    <3>2. p \in Player /\ Has(s, p) /\ copy[s][p].at \in plan.zone
      BY <3>1 DEF Inside
    <3>3. owner[copy[s][p].at] = s
      BY <1>1, <1>3, <3>2, PlanFacts
    <3>4. copy[s][p].agent \in BOOLEAN
      BY <3>2, CopyType DEF TypeInv, Copy
    <3>5. IsEntity(s, p)
      BY <3>2, <3>3, <3>4 DEF PlayerInv, AgentInv, IsEntity
    <3>6. client[p].server = s
      BY <1>3, <3>2, <3>5 DEF PlayerInv, EntityInv, Twice
    <3>7. client'[p] = [server |-> s, frozen |-> TRUE]
      BY <1>2, <3>1, <3>2, <3>5, <3>6 DEF Freeze, TypeInv, TypeClient
    <3>8. QED
      BY <1>1, <1>2, <3>1, <3>2, <3>5, <3>7 DEF ObjectInv, IsEntity, Has
  <2>2. ~isDest'[plan'.from]
    BY <1>1, <1>2 DEF TypeInv, TypeGs
  <2>3. QED
    BY <1>3, <2>1, <2>2 DEF BlockInv
<1>9. DestInv'
  BY <1>2, <1>3 DEF PlayerInv, DestInv, IsEntity, Has
<1>10. QED
  BY <1>5, <1>6, <1>7, <1>8, <1>9 DEF PlayerInv
Packed == {p \in Player : \E o \in block.objects : o.player = p}

\* The destination unpacks: who was packed becomes an entity there, and its
\* client is told.
LEMMA UnpackEffect ==
  ASSUME TypeInv, StageInv, PlayerInv, NEW t \in Server, UnpackMap(t)
  PROVE  /\ plan.stage = "part" /\ t = plan.to /\ block.at = "sent"
         /\ plan.from \in Server /\ plan.from # t
         /\ isDest' = [isDest EXCEPT ![t] = TRUE]
         /\ UNCHANGED <<net, order, mst, owner, plan>>
         /\ AfterPack /\ ~AfterUnpack /\ ~Answered /\ ~ToOld /\ BeforeMst /\ Running
         /\ AfterPack' /\ AfterUnpack' /\ Answered' /\ ToOld' /\ BeforeMst' /\ Running'
         /\ ~SourceDone /\ ~SourceDone'
         /\ block'.at = "answered" /\ block'.objects = block.objects
         /\ \A p \in Player : ~Has(t, p)
         /\ \A p \in Packed :
              /\ Has(t, p)' /\ ~copy'[t][p].agent
              /\ copy'[t][p].at \in plan.zone /\ copy'[t][p].list = {}
              /\ client'[p].server = t /\ client[p].server = plan.from
              /\ order[p] = None /\ copy[plan.from][p].at \in plan.zone
         /\ \A p \in Player \ Packed : ~Has(t, p)' /\ client'[p] = client[p]
         /\ \A x \in Server \ {t} : copy'[x] = copy[x]
<1>1. /\ plan.stage = "part" /\ plan.wait = {plan.from} /\ Zone(t) = plan.zone
      /\ t = plan.to /\ block.at = "sent"
  BY CommandOfStage, CommandKinds DEF UnpackMap, TypeInv, Zone
<1>2. /\ isDest' = [isDest EXCEPT ![t] = TRUE]
      /\ copy' = [copy EXCEPT ![t] = [p \in Player |-> Unpacked(t, p)]]
      /\ client' = [p \in Player |->
             IF copy'[t][p] # None /\ copy'[t][p].at \in plan.zone /\ ~copy'[t][p].agent
             THEN [server |-> t, frozen |-> FALSE] ELSE client[p]]
      /\ block' = [block EXCEPT !.at = "answered"]
      /\ UNCHANGED <<net, order, mst, owner, plan>>
  BY <1>1 DEF UnpackMap
<1>3. /\ AfterPack /\ ~AfterUnpack /\ ~Answered /\ ~ToOld /\ BeforeMst /\ Running /\ ~SourceDone
      /\ AfterPack' /\ AfterUnpack' /\ Answered' /\ ToOld' /\ BeforeMst' /\ Running' /\ ~SourceDone'
      /\ block'.at = "answered" /\ block'.objects = block.objects
  BY <1>1, <1>2 DEF AfterPack, AfterUnpack, Answered, ToOld, BeforeMst, SourceDone, Running,
                    TypeInv, TypeIlm
<1>4. /\ plan.from \in Server /\ plan.from # t
      /\ \A p \in Player : ~Has(t, p)
      /\ \A o \in block.objects : ObjectInv(o) /\ o.at \in plan.zone /\ o.player \in Player
  BY <1>1, <1>3, PlanFacts DEF PlayerInv, DestInv, BlockInv, StageInv, PlanInv, TypeInv, TypeIlm
<1>5. ASSUME NEW p \in Packed
      PROVE  /\ Has(t, p)' /\ ~copy'[t][p].agent
             /\ copy'[t][p].at \in plan.zone /\ copy'[t][p].list = {}
             /\ client'[p].server = t /\ client[p].server = plan.from
             /\ order[p] = None /\ copy[plan.from][p].at \in plan.zone
  <2>1. p \in Player /\ \E o \in block.objects : o.player = p
    BY DEF Packed
  <2>2. PICK o1 : o1 \in block.objects /\ o1.player = p /\ Unpacked(t, p) = NewCopy(o1.at, FALSE)
    BY <1>4, <2>1 DEF Unpacked
  <2>3. ObjectInv(o1) /\ o1.at \in plan.zone
    BY <1>4, <2>2
  <2>4. o1.at \in Region
    BY <2>2 DEF TypeInv, TypeIlm
  <2>5. copy'[t][p] = NewCopy(o1.at, FALSE)
    BY <1>2, <2>1, <2>2 DEF TypeInv, TypeGs
  <2>6. /\ copy'[t][p] # None /\ copy'[t][p].at = o1.at /\ copy'[t][p].agent = FALSE
        /\ copy'[t][p].list = {}
    BY <2>4, <2>5, NewCopyType
  <2>7. client'[p].server = t
    BY <1>2, <2>1, <2>3, <2>6
  <2>8. QED
    BY <2>2, <2>3, <2>6, <2>7 DEF ObjectInv, Has
<1>6. ASSUME NEW p \in Player \ Packed
      PROVE  ~Has(t, p)' /\ client'[p] = client[p]
  <2>1. Unpacked(t, p) = None
    BY <1>4 DEF Unpacked, Has, Packed
  <2>2. copy'[t][p] = None
    BY <1>2, <2>1 DEF TypeInv, TypeGs
  <2>3. QED
    BY <1>2, <2>2 DEF Has
<1>7. \A x \in Server \ {t} : copy'[x] = copy[x]
  BY <1>2 DEF TypeInv, TypeGs
<1>8. QED
  BY <1>1, <1>2, <1>3, <1>4, <1>5, <1>6, <1>7

LEMMA PlayersUnpack ==
  ASSUME TypeInv, StageInv, PlayerInv, NEW t \in Server, UnpackMap(t)
  PROVE  PlayerInv'
<1>1. /\ plan.stage = "part" /\ t = plan.to /\ block.at = "sent"
      /\ isDest' = [isDest EXCEPT ![t] = TRUE]
  BY UnpackEffect
<1>2. UNCHANGED <<net, order, mst, owner, plan>>
  BY UnpackEffect
<1>3. /\ AfterPack /\ ~AfterUnpack /\ ~Answered /\ ~ToOld /\ BeforeMst /\ Running
      /\ AfterPack' /\ AfterUnpack' /\ Answered' /\ ToOld' /\ BeforeMst' /\ Running'
      /\ ~SourceDone /\ ~SourceDone' /\ block'.at = "answered"
  BY UnpackEffect
<1>4. /\ plan.from \in Server /\ plan.from # t
      /\ \A p \in Player : ~Has(t, p)
  BY UnpackEffect
<1>5. ASSUME NEW p \in Packed
      PROVE  /\ Has(t, p)' /\ ~copy'[t][p].agent
             /\ copy'[t][p].at \in plan.zone /\ copy'[t][p].list = {}
             /\ client'[p].server = t /\ client[p].server = plan.from
             /\ order[p] = None /\ copy[plan.from][p].at \in plan.zone
  BY UnpackEffect
<1>6. ASSUME NEW p \in Player \ Packed
      PROVE  ~Has(t, p)' /\ client'[p] = client[p]
  BY UnpackEffect
<1>7. \A x \in Server \ {t} : copy'[x] = copy[x]
  BY UnpackEffect
<1>8. \A p \in Player : Has(t, p)' => p \in Packed
  BY <1>6
<1>10. ASSUME NEW p \in Player
       PROVE  OrderInv(p)'
  <2>1. OrderInv(p)
    BY DEF PlayerInv
  <2>2. QED
    BY <1>2, <1>3, <1>5, <1>6, <2>1 DEF OrderInv
<1>11. ASSUME NEW x \in Server, NEW p \in Player
       PROVE  EntityInv(x, p)' /\ AgentInv(x, p)' /\ ListInv(x, p)'
  <2>1. CASE x = t
    <3>1. CASE ~Has(t, p)'
      BY <2>1, <3>1 DEF EntityInv, AgentInv, ListInv, IsEntity, Has
    <3>2. CASE Has(t, p)'
      <4>1. /\ client'[p].server = t /\ ~copy'[t][p].agent
            /\ copy'[t][p].at \in plan.zone /\ copy'[t][p].list = {}
        BY <1>5, <1>8, <3>2
      <4>2. EntityInv(t, p)'
        BY <1>2, <1>3, <1>4, <4>1, <1>1 DEF EntityInv, Twice
      <4>3. AgentInv(t, p)' /\ ListInv(t, p)'
        BY <4>1 DEF AgentInv, ListInv, IsEntity
      <4>4. QED
        BY <2>1, <4>2, <4>3
    <3>3. QED
      BY <3>1, <3>2
  <2>2. CASE x # t
    <3>1. EntityInv(x, p) /\ AgentInv(x, p) /\ ListInv(x, p) /\ copy'[x][p] = copy[x][p]
      BY <1>7, <2>2 DEF PlayerInv
    <3>2. ListInv(x, p)'
      BY <1>2, <1>3, <3>1 DEF ListInv, Has
    <3>3. AgentInv(x, p)'
      <4>1. client'[p] = client[p] \/ client'[p].server = t
        BY <1>5, <1>6
      <4>2. QED
        BY <1>2, <2>2, <3>1, <4>1 DEF AgentInv, Has
    <3>4. CASE p \in Packed
      <4>1. client[p].server = plan.from /\ client'[p].server = t
            /\ copy[plan.from][p].at \in plan.zone
        BY <1>5, <3>4
      <4>2. QED
        BY <1>1, <1>2, <1>3, <3>1, <3>2, <3>3, <4>1 DEF EntityInv, Twice, IsEntity, Has
    <3>5. CASE p \notin Packed
      <4>1. client'[p] = client[p]
        BY <1>6, <3>5
      <4>2. QED
        BY <1>1, <1>2, <1>3, <1>4, <3>1, <3>2, <3>3, <4>1 DEF EntityInv, Twice, IsEntity, Has
    <3>6. QED
      BY <3>4, <3>5
  <2>3. QED
    BY <2>1, <2>2
<1>12. ASSUME NEW x \in Server, NEW y \in Server
       PROVE  NetInv(x, y)'
  <2>1. NetInv(x, y) /\ net'[x][y] = net[x][y]
    BY <1>2 DEF PlayerInv
  <2>2. ASSUME NEW m \in ToSet(net[x][y])
        PROVE  MessageInv(y, m)'
    <3>1. m.player \in Player /\ MessageInv(y, m)
      BY <2>1, ToSetType DEF TypeInv, TypeNet, Message, NetInv
    <3>2. y # t
      <4>1. net[x][y] # <<>>
        BY ToSetType DEF TypeInv, TypeNet
      <4>2. QED
        BY <1>1, <1>3, <2>1, <4>1 DEF NetInv
    <3>3. client'[m.player].server # y
      BY <1>5, <1>6, <3>1, <3>2 DEF MessageInv
    <3>4. ASSUME y = plan.from, client'[m.player].server = plan.to
          PROVE  ~IsEntity(y, m.player)'
      <4>1. m.player \notin Packed
        BY <1>5, <3>1, <3>4 DEF MessageInv
      <4>2. client[m.player].server = plan.to
        BY <1>6, <3>1, <3>4, <4>1
      <4>3. ~IsEntity(y, m.player)
        BY <1>1, <1>3, <1>4, <3>1, <3>4, <4>2 DEF PlayerInv, EntityInv, Twice
      <4>4. QED
        BY <1>7, <3>2, <4>3 DEF IsEntity, Has
    <3>5. QED
      BY <1>2, <3>1, <3>3, <3>4 DEF MessageInv
  <2>3. QED
    BY <1>2, <1>3, <2>1, <2>2 DEF NetInv
<1>13. BlockInv'
  BY <1>1, <1>2, <1>3, <1>4 DEF PlayerInv, BlockInv, TypeInv, TypeGs
<1>14. DestInv'
  BY <1>1, <1>2, <1>3, <1>5, <1>8 DEF PlayerInv, DestInv, IsEntity
<1>15. QED
  BY <1>10, <1>11, <1>12, <1>13, <1>14 DEF PlayerInv

LEMMA PlayersUpdate ==
  ASSUME TypeInv, StageInv, StageInv', PlayerInv, NEW s \in Server, UpdateMST(s)
  PROVE  PlayerInv'
<1>1. plan.stage = "mst" /\ s \in plan.wait /\ Head(cmd[s]).mst = owner
  BY CommandOfStage, CommandKinds DEF UpdateMST, TypeInv
<1>2. /\ mst' = [mst EXCEPT ![s] = owner]
      /\ plan' = [plan EXCEPT !.wait = plan.wait \ {s}]
      /\ UNCHANGED <<copy, net, client, order, owner, isDest, block>>
  BY <1>1 DEF UpdateMST, Replies
<1>3. /\ plan'.stage = plan.stage /\ plan'.zone = plan.zone /\ plan'.from = plan.from
      /\ plan'.to = plan.to /\ plan'.wait = plan.wait \ {s}
  BY <1>2 DEF TypeInv, TypeIlm
<1>4. /\ AfterPack /\ AfterUnpack /\ ~Answered /\ ~BeforeMst /\ Running /\ ~SourceDone
      /\ AfterPack' /\ AfterUnpack' /\ ~Answered' /\ ~BeforeMst' /\ Running' /\ ~SourceDone'
      /\ ToOld' => ToOld
  BY <1>1, <1>3 DEF AfterPack, AfterUnpack, Answered, ToOld, BeforeMst, SourceDone, Running
<1>5. \A x \in Server : mst'[x] = IF x = s THEN owner ELSE mst[x]
  BY <1>2 DEF TypeInv, TypeGs
<1>6. ASSUME NEW p \in Player
      PROVE  OrderInv(p)'
  BY <1>2, <1>3, <1>4 DEF PlayerInv, OrderInv
<1>7. ASSUME NEW x \in Server, NEW p \in Player
      PROVE  EntityInv(x, p)' /\ AgentInv(x, p)' /\ ListInv(x, p)'
  <2>1. EntityInv(x, p) /\ AgentInv(x, p) /\ ListInv(x, p)
    BY DEF PlayerInv
  <2>2. Has(x, p) => copy[x][p].at \in Region
    BY CopyType DEF TypeInv, Copy
  <2>3. EntityInv(x, p)'
    <3>1. IsEntity(x, p) /\ mst[x][copy[x][p].at] = x =>
            \/ mst'[x][copy[x][p].at] = x
            \/ x = plan.from /\ copy[x][p].at \in plan.zone
      BY <1>5, <2>2, MstFacts DEF IsEntity
    <3>2. QED
      BY <1>2, <1>3, <1>4, <1>5, <2>1, <3>1 DEF EntityInv, Twice, IsEntity, Has
  <2>4. AgentInv(x, p)' /\ ListInv(x, p)'
    BY <1>2, <1>3, <1>4, <1>5, <2>1 DEF AgentInv, ListInv, Has
  <2>5. QED
    BY <2>3, <2>4
<1>8. ASSUME NEW x \in Server, NEW y \in Server
      PROVE  NetInv(x, y)'
  BY <1>2, <1>4 DEF PlayerInv, NetInv, MessageInv
<1>9. BlockInv'
  BY <1>2, <1>3, <1>4, PlanFacts DEF PlayerInv, BlockInv
<1>10. DestInv'
  BY <1>2, <1>3, <1>4 DEF PlayerInv, DestInv, IsEntity, Has
<1>11. QED
  BY <1>6, <1>7, <1>8, <1>9, <1>10 DEF PlayerInv

LEMMA PlayersUnlock ==
  ASSUME TypeInv, StageInv, StageInv', PlayerInv, NEW s \in Server, UnlockMap(s)
  PROVE  PlayerInv'
<1>1. plan.stage = "unlock" /\ s \in plan.wait /\ Zone(s) = plan.zone
  BY CommandOfStage, CommandKinds DEF UnlockMap, TypeInv, Zone
<1>2. /\ copy' = [copy EXCEPT ![s] = [p \in Player |-> Cleared(s, p)]]
      /\ plan' = [plan EXCEPT !.wait = plan.wait \ {s}]
      /\ UNCHANGED <<mst, net, client, order, owner, isDest, block>>
  BY <1>1 DEF UnlockMap, Replies
<1>3. /\ plan'.stage = plan.stage /\ plan'.zone = plan.zone /\ plan'.from = plan.from
      /\ plan'.to = plan.to /\ plan'.wait = plan.wait \ {s}
  BY <1>2 DEF TypeInv, TypeIlm
<1>4. /\ AfterPack /\ AfterUnpack /\ ~Answered /\ ~BeforeMst /\ Running
      /\ AfterPack' /\ AfterUnpack' /\ ~Answered' /\ ~BeforeMst' /\ Running' /\ ~ToOld'
      /\ s # plan.from => SourceDone' = SourceDone
      /\ s = plan.from => SourceDone'
  BY <1>1, <1>3 DEF AfterPack, AfterUnpack, Answered, ToOld, BeforeMst, SourceDone, Running
<1>5. /\ ~isDest[plan.from] /\ isDest[plan.to] /\ plan.from # plan.to
      /\ mst[s] = owner /\ \A r \in plan.zone : owner[r] = plan.to
  BY <1>1, <1>4, PlanFacts, MstFacts, SeamlessAssumption
     DEF PlayerInv, BlockInv, StageInv, StageAt, MstOf
<1>6. \A x \in Server, p \in Player : copy'[x][p] = IF x = s THEN Cleared(s, p) ELSE copy[x][p]
  BY <1>2 DEF TypeInv, TypeGs
\* What is left at s
<1>7. ASSUME NEW p \in Player, Has(s, p)'
      PROVE  /\ Has(s, p) /\ copy[s][p].agent \in BOOLEAN
             /\ copy'[s][p].at = copy[s][p].at /\ copy'[s][p].list = copy[s][p].list
             /\ \/ copy'[s][p] = copy[s][p] /\ (s = plan.from => copy[s][p].at \notin plan.zone)
                \/ /\ s # plan.to /\ copy[s][p].at \in plan.zone
                   /\ copy'[s][p].agent = TRUE
  <2>1. copy'[s][p] = Cleared(s, p) /\ Cleared(s, p) # None
    BY <1>6, <1>7 DEF Has
  <2>2. Has(s, p)
    BY <2>1 DEF Cleared, Has, IsEntity
  <2>3. copy[s][p] \in Copy
    BY <2>2, CopyType DEF TypeInv
  <2>4. CASE isDest[s] \/ copy[s][p].at \notin plan.zone
    BY <1>1, <1>5, <2>1, <2>2, <2>3, <2>4 DEF Cleared, Inside, Copy
  <2>5. CASE ~isDest[s] /\ copy[s][p].at \in plan.zone
    <3>1. copy'[s][p] = [copy[s][p] EXCEPT !.agent = TRUE]
      BY <1>1, <2>1, <2>2, <2>5 DEF Cleared, Inside
    <3>2. QED
      BY <1>5, <2>2, <2>3, <2>5, <3>1 DEF Copy
  <2>6. QED
    BY <2>4, <2>5
<1>8. ASSUME NEW p \in Player
      PROVE  OrderInv(p)'
  BY <1>2, <1>3, <1>4 DEF PlayerInv, OrderInv
<1>9. ASSUME NEW x \in Server, NEW p \in Player
      PROVE  EntityInv(x, p)' /\ AgentInv(x, p)' /\ ListInv(x, p)'
  <2>1. EntityInv(x, p) /\ AgentInv(x, p) /\ ListInv(x, p)
    BY DEF PlayerInv
  <2>2. CASE x # s
    <3>1. copy'[x][p] = copy[x][p]
      BY <1>6, <2>2
    <3>2. EntityInv(x, p)'
      BY <1>2, <1>3, <1>4, <2>1, <2>2, <3>1 DEF EntityInv, Twice, IsEntity, Has
    <3>3. AgentInv(x, p)' /\ ListInv(x, p)'
      BY <1>2, <1>3, <1>4, <2>1, <3>1 DEF AgentInv, ListInv, Has
    <3>4. QED
      BY <3>2, <3>3
  <2>3. CASE x = s
    <3>1. ListInv(s, p)'
      BY <1>4, <1>7, <2>1, <2>3 DEF ListInv
    <3>2. EntityInv(s, p)'
      <4> SUFFICES ASSUME IsEntity(s, p)'
                   PROVE  EntityInv(s, p)'
        BY DEF EntityInv
      <4>1. /\ copy'[s][p] = copy[s][p] /\ IsEntity(s, p)
            /\ s = plan.from => copy[s][p].at \notin plan.zone
        BY <1>7 DEF IsEntity, Has
      <4>2. QED
        BY <1>2, <1>3, <1>4, <2>1, <2>3, <4>1 DEF EntityInv, Twice
    <3>3. AgentInv(s, p)'
      <4> SUFFICES ASSUME Has(s, p)', copy'[s][p].agent
                   PROVE  owner[copy'[s][p].at] # s
        BY <1>2, <1>5 DEF AgentInv
      <4>1. CASE copy'[s][p] = copy[s][p]
        BY <1>7, <2>1, <2>3, <4>1 DEF AgentInv
      <4>2. CASE copy'[s][p] # copy[s][p]
        BY <1>5, <1>7, <4>2
      <4>3. QED
        BY <4>1, <4>2
    <3>4. QED
      BY <2>3, <3>1, <3>2, <3>3
  <2>4. QED
    BY <2>2, <2>3
<1>10. ASSUME NEW x \in Server, NEW y \in Server
       PROVE  NetInv(x, y)'
  BY <1>2, <1>4 DEF PlayerInv, NetInv, MessageInv
<1>11. BlockInv'
  BY <1>2, <1>3, <1>4, PlanFacts DEF PlayerInv, BlockInv
<1>12. DestInv'
  BY <1>2, <1>3, <1>4 DEF PlayerInv, DestInv
<1>13. QED
  BY <1>8, <1>9, <1>10, <1>11, <1>12 DEF PlayerInv
-----------------------------------------------------------------------------
(* The steps of players                                                     *)

LEMMA PlayersOrder ==
  ASSUME TypeInv, StageInv, PlayerInv, Clean, NEW p \in Player, NEW r \in Region,
         ClientOrders(p, r)
  PROVE  PlayerInv'
<1>1. /\ order' = [order EXCEPT ![p] = [server |-> client[p].server, to |-> r]]
      /\ ~client[p].frozen
      /\ UNCHANGED <<copy, net, client, mst, owner, isDest, block, plan>>
  BY DEF ClientOrders, gsVars, ilmVars
<1>2. UNCHANGED Phases
  BY <1>1 DEF Phases, Running, BeforeMst, AfterPack, AfterUnpack, Answered, ToOld, SourceDone
<1>3. AfterPack => owner[r] = client[p].server
  <2>1. AfterPack => "across" \notin world
    BY PlanFacts DEF Clean
  <2>2. QED
    BY <2>1 DEF ClientOrders
<1>4. ASSUME NEW y \in Player
      PROVE  OrderInv(y)'
  <2>1. order'[y] = IF y = p THEN [server |-> client[p].server, to |-> r] ELSE order[y]
    BY <1>1 DEF TypeInv, TypeClient
  <2>2. CASE y = p
    <3>1. order'[y].server = client[p].server /\ order'[y].to = r
      BY <2>1, <2>2
    <3>2. QED
      BY <1>1, <1>2, <1>3, <2>2, <3>1 DEF OrderInv, Phases
  <2>3. CASE y # p
    BY <1>1, <1>2, <2>1, <2>3 DEF PlayerInv, OrderInv, Phases
  <2>4. QED
    BY <2>2, <2>3
<1>5. ASSUME NEW s \in Server, NEW y \in Player
      PROVE  EntityInv(s, y)' /\ AgentInv(s, y)' /\ ListInv(s, y)'
  BY <1>1, <1>2 DEF PlayerInv, EntityInv, AgentInv, ListInv, Twice, IsEntity, Has, Phases
<1>6. ASSUME NEW s \in Server, NEW t \in Server
      PROVE  NetInv(s, t)'
  BY <1>1, <1>2 DEF PlayerInv, NetInv, MessageInv, IsEntity, Has, Phases
<1>7. BlockInv'
  <2>1. ASSUME block.at = "sent", NEW o \in block.objects
        PROVE  ObjectInv(o)'
    <3>1. ObjectInv(o) /\ o.player \in Player
      BY <2>1 DEF PlayerInv, BlockInv, TypeInv, TypeIlm
    <3>2. o.player # p
      BY <1>1, <3>1 DEF ObjectInv
    <3>3. QED
      BY <1>1, <3>1, <3>2 DEF ObjectInv, IsEntity, Has, TypeInv, TypeClient
  <2>2. QED
    BY <1>1, <1>2, <2>1 DEF PlayerInv, BlockInv, Phases
<1>8. DestInv'
  BY <1>1, <1>2 DEF PlayerInv, DestInv, IsEntity, Has, Phases
<1>9. QED
  BY <1>4, <1>5, <1>6, <1>7, <1>8 DEF PlayerInv

\* What a message of s about a shadow does at t
AgentStep(s, t, p, c) ==
  /\ net[s][t] # <<>> /\ MessageInv(t, Head(net[s][t])) /\ Head(net[s][t]).player = p
  /\ copy' = [copy EXCEPT ![t][p] = c] /\ net' = [net EXCEPT ![s][t] = Tail(net[s][t])]
  /\ UNCHANGED <<client, order, mst, owner, isDest, block, plan>>
  /\ c # None => /\ c.agent = TRUE /\ owner[c.at] # t
                 /\ c.list = IF Has(t, p) THEN copy[t][p].list ELSE {}

\* A message about player p that server t has read: its copy changes there only,
\* and p's client talks to another server.
LEMMA PlayersMessage ==
  ASSUME TypeInv, StageInv, PlayerInv, NEW s \in Server, NEW t \in Server, NEW p \in Player,
         NEW c \in Copy \cup {None}, AgentStep(s, t, p, c)
  PROVE  PlayerInv'
<1>0. /\ net[s][t] # <<>> /\ MessageInv(t, Head(net[s][t])) /\ Head(net[s][t]).player = p
      /\ copy' = [copy EXCEPT ![t][p] = c] /\ net' = [net EXCEPT ![s][t] = Tail(net[s][t])]
      /\ UNCHANGED <<client, order, mst, owner, isDest, block, plan>>
      /\ c # None => /\ c.agent = TRUE /\ owner[c.at] # t
                     /\ c.list = IF Has(t, p) THEN copy[t][p].list ELSE {}
  BY DEF AgentStep
<1> USE <1>0
<1>1. UNCHANGED Phases
  BY DEF Phases, Running, BeforeMst, AfterPack, AfterUnpack, Answered, ToOld, SourceDone
<1>2. /\ client[p].server # t
      /\ BeforeMst => t # plan.to
  BY DEF MessageInv, PlayerInv, NetInv
<1>3. \A x \in Server, y \in Player : copy'[x][y] = IF x = t /\ y = p THEN c ELSE copy[x][y]
  BY DEF TypeInv, TypeGs
<1>4. ~IsEntity(t, p)'
  BY <1>3 DEF IsEntity, Has
<1>5. \A x \in Server, y \in Player : IsEntity(x, y)' =>
        IsEntity(x, y) /\ copy'[x][y] = copy[x][y]
  BY <1>3, <1>4 DEF IsEntity, Has
<1>6. ASSUME NEW y \in Player
      PROVE  OrderInv(y)'
  BY <1>1 DEF PlayerInv, OrderInv, Phases
<1>7. ASSUME NEW x \in Server, NEW y \in Player
      PROVE  EntityInv(x, y)' /\ AgentInv(x, y)' /\ ListInv(x, y)'
  <2>1. EntityInv(x, y) /\ AgentInv(x, y) /\ ListInv(x, y)
    BY DEF PlayerInv
  <2>2. EntityInv(x, y)'
    BY <1>1, <1>5, <2>1 DEF EntityInv, Twice, Phases
  <2>3. CASE x = t /\ y = p
    <3>1. copy'[x][y] = c
      BY <1>3, <2>3
    <3>2. AgentInv(x, y)' /\ ListInv(x, y)'
      BY <1>1, <1>2, <2>1, <2>3, <3>1 DEF AgentInv, ListInv, Has, Phases
    <3>3. QED
      BY <2>2, <3>2
  <2>4. CASE ~(x = t /\ y = p)
    <3>1. copy'[x][y] = copy[x][y]
      BY <1>3, <2>4
    <3>2. AgentInv(x, y)' /\ ListInv(x, y)'
      BY <1>1, <2>1, <3>1 DEF AgentInv, ListInv, Has, Phases
    <3>3. QED
      BY <2>2, <3>2
  <2>5. QED
    BY <2>3, <2>4
<1>8. ASSUME NEW x \in Server, NEW y \in Server
      PROVE  NetInv(x, y)'
  <2>1. NetInv(x, y)
    BY DEF PlayerInv
  <2>2. net'[x][y] = IF x = s /\ y = t THEN Tail(net[s][t]) ELSE net[x][y]
    BY DEF TypeInv, TypeNet
  <2>3. ToSet(net'[x][y]) \subseteq ToSet(net[x][y])
    <3>1. net[s][t] \in Seq(Message)
      BY DEF TypeInv, TypeNet
    <3>2. QED
      BY <2>2, <3>1, TailProperties
  <2>4. ASSUME NEW m \in ToSet(net[x][y])
        PROVE  MessageInv(y, m)'
    <3>1. MessageInv(y, m) /\ m.player \in Player
      BY <2>1, ToSetType, SMTT(30) DEF NetInv, TypeInv, TypeNet, Message
    <3>2. QED
      BY <1>1, <1>5, <3>1 DEF MessageInv, Phases
  <2>5. BeforeMst' /\ y = plan'.to => net'[x][y] = <<>>
    BY <1>1, <1>2, <2>1, <2>2 DEF NetInv, Phases
  <2>6. QED
    BY <2>3, <2>4, <2>5 DEF NetInv
<1>9. BlockInv'
  <2>1. ASSUME block.at = "sent", NEW o \in block.objects
        PROVE  ObjectInv(o)'
    <3>1. ObjectInv(o) /\ o.player \in Player /\ plan.from \in Server
      BY <2>1, PlanFacts DEF PlayerInv, BlockInv, TypeInv, TypeIlm
    <3>2. ~(plan.from = t /\ o.player = p)
      BY <1>2, <3>1 DEF ObjectInv
    <3>3. copy'[plan.from][o.player] = copy[plan.from][o.player]
      BY <1>3, <3>1, <3>2
    <3>4. QED
      BY <3>1, <3>3 DEF ObjectInv, IsEntity, Has
  <2>2. QED
    BY <1>1, <2>1 DEF PlayerInv, BlockInv, Phases
<1>10. DestInv'
  <2> SUFFICES ASSUME Running
               PROVE  DestInv'
    BY <1>1 DEF DestInv, Phases
  <2>1. plan.to \in Server /\ DestInv
    BY PlanFacts DEF PlayerInv
  <2>2. ASSUME ~AfterUnpack, NEW y \in Player
        PROVE  ~Has(plan.to, y)'
    BY <1>2, <1>3, <2>1, <2>2, PlanFacts DEF DestInv, Has
  <2>3. ASSUME ToOld, NEW y \in Player, Has(plan.to, y)', Answered \/ client[y].server = plan.to
        PROVE  IsEntity(plan.to, y)' /\ copy'[plan.to][y].at \in plan.zone
    <3>1. ~(plan.to = t /\ y = p)
      BY <1>2, <2>3, PlanFacts
    <3>2. copy'[plan.to][y] = copy[plan.to][y]
      BY <1>3, <2>1, <3>1
    <3>3. QED
      BY <2>1, <2>3, <3>2 DEF DestInv, IsEntity, Has
  <2>4. QED
    BY <1>1, <2>1, <2>2, <2>3 DEF DestInv, Phases
<1>11. QED
  BY <1>6, <1>7, <1>8, <1>9, <1>10 DEF PlayerInv

LEMMA AgentEffect ==
  ASSUME TypeInv, StageInv, PlayerInv, NEW s \in Server, NEW t \in Server,
         CreateAgent(s, t) \/ DeleteAgent(s, t)
  PROVE  \E p \in Player, c \in Copy \cup {None} : AgentStep(s, t, p, c)
<1> DEFINE m == Head(net[s][t])
<1>1. net[s][t] # <<>> /\ net' = [net EXCEPT ![s][t] = Tail(net[s][t])]
      /\ UNCHANGED <<client, order, mst, owner, isDest, block, plan>>
  BY DEF CreateAgent, DeleteAgent, ilmVars, TypeInv, TypeNet
<1>2. m \in Message /\ MessageInv(t, m)
  <2>1. net[s][t] \in Seq(Message)
    BY DEF TypeInv, TypeNet
  <2>2. QED
    BY <1>1, <2>1, TailProperties, HeadTail DEF PlayerInv, NetInv
<1>3. m.player \in Player
  BY <1>2 DEF Message
<1>4. ASSUME CreateAgent(s, t)
      PROVE  \E p \in Player, c \in Copy \cup {None} : AgentStep(s, t, p, c)
  <2> DEFINE c == IF Has(t, m.player) THEN [copy[t][m.player] EXCEPT !.agent = TRUE]
                  ELSE NewCopy(m.at, TRUE)
  <2>1. m.type = "create" /\ m.at \in Region /\ owner[m.at] # t
    BY <1>2, <1>4 DEF CreateAgent, Message, MessageInv
  <2>2. copy' = [copy EXCEPT ![t][m.player] = c]
    BY <1>4 DEF CreateAgent
  <2> HIDE DEF m
  <2>3. CASE Has(t, m.player)
    <3>1. copy[t][m.player] \in Copy
      BY <1>3, <2>3, CopyType DEF TypeInv
    <3>2. c \in Copy /\ c.agent = TRUE /\ c.at = copy[t][m.player].at /\ c.list = copy[t][m.player].list
      BY <2>3, <3>1 DEF Copy
    <3>3. owner[c.at] # t
      <4>1. CASE copy[t][m.player].agent
        BY <1>3, <2>3, <3>2, <4>1 DEF PlayerInv, AgentInv
      <4>2. CASE ~copy[t][m.player].agent
        <5>1. EntityInv(t, m.player) /\ IsEntity(t, m.player) /\ client[m.player].server # t
          BY <1>2, <1>3, <2>3, <4>2 DEF PlayerInv, IsEntity, MessageInv
        <5>2. Twice(t, m.player) /\ c.at \in plan.zone
          BY <3>2, <5>1 DEF EntityInv
        <5>3. ~Answered
          BY <1>2, <5>1, <5>2 DEF Twice, MessageInv
        <5>4. QED
          BY <5>2, <5>3, PlanFacts DEF Twice
      <4>3. QED
        BY <4>1, <4>2
    <3> HIDE DEF c
    <3>4. QED
      BY <1>1, <1>2, <1>3, <2>2, <2>3, <3>2, <3>3, NoneIsNothing DEF AgentStep, m
  <2>4. CASE ~Has(t, m.player)
    <3>1. c \in Copy /\ c.agent = TRUE /\ c.at = m.at /\ c.list = {}
      BY <2>1, <2>4, NewCopyType
    <3> HIDE DEF c
    <3>2. QED
      BY <1>1, <1>2, <1>3, <2>1, <2>2, <2>4, <3>1, NoneIsNothing DEF AgentStep, m
  <2>5. QED
    BY <2>3, <2>4
<1>5. ASSUME DeleteAgent(s, t)
      PROVE  \E p \in Player, c \in Copy \cup {None} : AgentStep(s, t, p, c)
  <2>1. copy' = [copy EXCEPT ![t][m.player] = None]
    BY <1>5 DEF DeleteAgent
  <2>2. QED
    BY <1>1, <1>2, <1>3, <2>1 DEF AgentStep
<1>6. QED
  BY <1>4, <1>5

LEMMA PlayersAgent ==
  ASSUME TypeInv, StageInv, PlayerInv, NEW s \in Server, NEW t \in Server,
         CreateAgent(s, t) \/ DeleteAgent(s, t)
  PROVE  PlayerInv'
BY AgentEffect, PlayersMessage

\* The move of a player at the server its order reached: L is the new list.
Moved(p, L) ==
  LET s == order[p].server
      r == order[p].to
      q == copy[s][p].at
  IN /\ \A x \in Server, y \in Player :
          copy'[x][y] = IF x = s /\ y = p
                        THEN [at |-> r, agent |-> AgentAfter(s, p, q, r), list |-> L]
                        ELSE copy[x][y]
     /\ L = copy[s][p].list \/ (/\ L = Near(s, r)
                                /\ StaysHere(s, p, q, r) \/ ~AgentAfter(s, p, q, r))
     /\ \A x, t \in Server :
          \/ net'[x][t] = net[x][t]
          \/ /\ x = s /\ t \in copy[s][p].list \cup L
             /\ ToSet(net'[x][t]) \subseteq ToSet(net[x][t]) \cup {Delete(p), Create(p, r)}
             /\ t \in L \/ Create(p, r) \notin ToSet(net'[x][t]) \ ToSet(net[x][t])
             /\ L # copy[s][p].list
     /\ client' = IF GoesAway(s, p, q, r)
                  THEN [client EXCEPT ![p] = [server |-> s, frozen |-> FALSE]] ELSE client

LEMMA CopyChanged ==
  ASSUME NEW k \in Copy, NEW r, NEW a, NEW c, c = [k EXCEPT !.at = r, !.agent = a]
  PROVE  c = [at |-> r, agent |-> a, list |-> k.list]
BY DEF Copy

LEMMA MoveEffect ==
  ASSUME TypeInv, NEW p \in Player, ClientMessage(p)
  PROVE  \/ UNCHANGED <<copy, net, client>>
         \/ /\ Has(order[p].server, p)
            /\ \E L \in SUBSET Server : Moved(p, L)
<1> DEFINE s == order[p].server
           r == order[p].to
           q == copy[s][p].at
<1> SUFFICES ASSUME ~UNCHANGED <<copy, net, client>>
             PROVE  Has(s, p) /\ \E L \in SUBSET Server : Moved(p, L)
  OBVIOUS
<1>0. PICK c : c = [copy[s][p] EXCEPT !.at = r, !.agent = AgentAfter(s, p, q, r)]
  OBVIOUS
<1>1. s \in Server /\ r \in Region
  BY DEF TypeInv, TypeClient, ClientMessage, Order
<1>2. /\ Has(s, p)
      /\ \E told \in BOOLEAN :
           UpdateAgent(s, p, c, IF \/ q # r /\ StaysHere(s, p, q, r)
                                   \/ told /\ ~c.agent
                                THEN Near(s, r) ELSE c.list)
      /\ client' = IF GoesAway(s, p, q, r)
                   THEN [client EXCEPT ![p] = [server |-> s, frozen |-> FALSE]] ELSE client
  BY <1>0 DEF ClientMessage
<1>3. copy[s][p] \in Copy /\ Near(s, r) \subseteq Server
  BY <1>1, <1>2, CopyType, NearType DEF TypeInv
<1>4. /\ c.at = r /\ c.agent = AgentAfter(s, p, q, r) /\ c.list = copy[s][p].list
      /\ c.list \subseteq Server
      /\ \A L : [c EXCEPT !.list = L] = [at |-> r, agent |-> AgentAfter(s, p, q, r), list |-> L]
  <2>1. c = [at |-> r, agent |-> AgentAfter(s, p, q, r), list |-> copy[s][p].list]
    <3> DEFINE a == AgentAfter(s, p, q, r)
               k == copy[s][p]
    <3>1. k \in Copy /\ c = [k EXCEPT !.at = r, !.agent = a]
      BY <1>0, <1>3
    <3> HIDE DEF a, k, r
    <3>2. c = [at |-> r, agent |-> a, list |-> k.list]
      BY <3>1, CopyChanged
    <3>3. QED
      BY <3>2 DEF a, k, r
  <2>2. \A L : [c EXCEPT !.list = L] = [at |-> r, agent |-> AgentAfter(s, p, q, r), list |-> L]
    BY <2>1
  <2>3. copy[s][p].list \subseteq Server
    BY <1>3 DEF Copy
  <2>4. QED
    BY <2>1, <2>2, <2>3
<1>5. PICK L : /\ UpdateAgent(s, p, c, L)
               /\ L = c.list \/ (/\ L = Near(s, r)
                                 /\ StaysHere(s, p, q, r) \/ ~c.agent)
  BY <1>2
<1>6. \A x \in Server, y \in Player :
        copy'[x][y] = IF x = s /\ y = p THEN [c EXCEPT !.list = L] ELSE copy[x][y]
  BY <1>1, <1>5 DEF UpdateAgent, TypeInv, TypeGs
<1>7. ASSUME NEW x \in Server, NEW t \in Server
      PROVE  \/ net'[x][t] = net[x][t]
             \/ /\ x = s /\ t \in c.list \cup L
                /\ ToSet(net'[x][t]) \subseteq ToSet(net[x][t]) \cup {Delete(p), Create(p, r)}
                /\ t \in L \/ Create(p, r) \notin ToSet(net'[x][t]) \ ToSet(net[x][t])
                /\ L # c.list
  <2>1. net[x][t] \in Seq(Message) /\ Delete(p) \in Message /\ Create(p, r) \in Message
    BY <1>1 DEF TypeInv, TypeNet, Message, Delete, Create
  <2>2. x # s => net'[x][t] = net[x][t]
    BY <1>5 DEF UpdateAgent, TypeInv, TypeNet
  <2>3. x = s => net'[x][t] = IF t \in c.list \ L THEN Append(net[x][t], Delete(p))
                              ELSE IF t \in L \ c.list THEN Append(net[x][t], Create(p, r))
                              ELSE net[x][t]
    BY <1>1, <1>4, <1>5 DEF UpdateAgent, TypeInv, TypeNet
  <2>4. /\ ToSet(Append(net[x][t], Delete(p))) = ToSet(net[x][t]) \cup {Delete(p)}
        /\ ToSet(Append(net[x][t], Create(p, r))) = ToSet(net[x][t]) \cup {Create(p, r)}
    BY <2>1, AppendToSet
  <2>5. Create(p, r) # Delete(p)
    BY DEF Create, Delete
  <2>6. QED
    BY <2>2, <2>3, <2>4, <2>5
<1>8. Moved(p, L)
  BY <1>2, <1>4, <1>5, <1>6, <1>7 DEF Moved
<1>9. L \subseteq Server
  BY <1>3, <1>4, <1>5
<1>10. QED
  BY <1>2, <1>8, <1>9

\* A list that is sent anew names neither the server of the player's region nor,
\* before its MST, the destination of a plan.
LEMMA NewList ==
  ASSUME TypeInv, StageInv, PlayerInv, NEW p \in Player, order[p] # None,
         Has(order[p].server, p),
         \/ StaysHere(order[p].server, p, copy[order[p].server][p].at, order[p].to)
         \/ ~AgentAfter(order[p].server, p, copy[order[p].server][p].at, order[p].to)
  PROVE  \A t \in Near(order[p].server, order[p].to) :
           /\ t # order[p].server /\ owner[order[p].to] # t
           /\ BeforeMst => t # plan.to
<1> DEFINE s == order[p].server
           r == order[p].to
           q == copy[s][p].at
<1>1. s \in Server /\ r \in Region /\ copy[s][p] \in Copy /\ q \in Region
  BY CopyType DEF TypeInv, TypeClient, Order, Copy
<1>2. /\ OrderInv(p) /\ EntityInv(s, p) /\ s = client[p].server
  BY <1>1 DEF PlayerInv, OrderInv
<1>3. \/ mst[s][r] = s
      \/ /\ IsEntity(s, p) /\ mst[s][q] # s
  BY <1>1 DEF StaysHere, AgentAfter, GoesAway, ComesHere, IsEntity, Copy
<1>4. \/ owner[r] = s
      \/ Running /\ r \in plan.zone
  <2>1. CASE mst[s][r] = s
    BY <1>1, <2>1, MstFacts, PlanFacts
  <2>2. CASE IsEntity(s, p) /\ mst[s][q] # s
    <3>1. AfterUnpack /\ s \in {plan.from, plan.to}
      BY <1>2, <2>2 DEF EntityInv
    <3>2. AfterPack /\ Running
      BY <3>1, PlanFacts
    <3>3. QED
      BY <1>2, <3>1, <3>2 DEF OrderInv
  <2>3. QED
    BY <1>3, <2>1, <2>2
<1>5. BeforeMst \/ (Running /\ r \in plan.zone) => plan.to \notin Near(s, r)
  BY <1>1, NearNotDest, PlanFacts DEF PlayerInv
<1>6. s \notin Near(s, r)
  BY DEF Near
\* In the zone its server is the destination, or still the source, which is s.
<1>7. Running /\ r \in plan.zone => owner[r] = plan.to \/ owner[r] = s
  <2> SUFFICES ASSUME Running, r \in plan.zone, owner[r] # plan.to
               PROVE  owner[r] = s
    OBVIOUS
  <2>1. BeforeMst /\ owner[r] = plan.from /\ mst[s] = owner
    BY <1>1, PlanFacts, MstFacts
  <2>2. CASE mst[s][r] = s
    BY <2>1, <2>2
  <2>3. CASE IsEntity(s, p) /\ mst[s][q] # s
    <3>1. AfterUnpack /\ s \in {plan.from, plan.to}
      BY <1>2, <2>3 DEF EntityInv
    <3>2. AfterPack
      BY <3>1, PlanFacts
    <3>3. owner[r] = s \/ s = plan.from
      BY <1>2, <3>1, <3>2 DEF OrderInv
    <3>4. QED
      BY <2>1, <3>3
  <2>4. QED
    BY <1>3, <2>2, <2>3
<1>8. QED
  BY <1>4, <1>5, <1>6, <1>7

\* The kind of copy a move leaves: a shadow in another server's region, or an
\* entity in a region that its server runs, or has run, or will run.
LEMMA NewKind ==
  ASSUME TypeInv, StageInv, PlayerInv, NEW p \in Player, order[p] # None,
         Has(order[p].server, p),
         NEW a, a = AgentAfter(order[p].server, p, copy[order[p].server][p].at, order[p].to)
  PROVE  LET s == order[p].server
             r == order[p].to
         IN /\ a \in BOOLEAN
            /\ a => mst[s][r] # s /\ owner[r] # s
            /\ ~a => \/ mst[s][r] = s
                     \/ /\ AfterUnpack /\ r \in plan.zone
                        /\ s = plan.to \/ (s = plan.from /\ ~SourceDone)
            /\ ToOld /\ s = plan.to => ~Answered /\ ~a /\ r \in plan.zone
<1> DEFINE s == order[p].server
           r == order[p].to
           q == copy[s][p].at
<1>1. s \in Server /\ r \in Region /\ copy[s][p] \in Copy /\ q \in Region
  BY CopyType DEF TypeInv, TypeClient, Order, Copy
<1>2. /\ OrderInv(p) /\ EntityInv(s, p) /\ AgentInv(s, p) /\ s = client[p].server /\ DestInv
  BY <1>1 DEF PlayerInv, OrderInv
<1>3. copy[s][p].agent => owner[q] # s /\ mst[s][q] # s
  BY <1>2 DEF AgentInv
<1>4. a = IF copy[s][p].agent THEN mst[s][r] # s ELSE mst[s][q] = s /\ mst[s][r] # s
  BY <1>1, <1>3 DEF AgentAfter, GoesAway, ComesHere, Copy
<1>5. a \in BOOLEAN /\ (a => mst[s][r] # s)
  BY <1>4
<1>6. ToOld /\ s = plan.to => ~Answered /\ ~a /\ r \in plan.zone
  <2> SUFFICES ASSUME ToOld, s = plan.to
               PROVE  ~Answered /\ ~a /\ r \in plan.zone
    OBVIOUS
  <2>1. AfterUnpack /\ AfterPack /\ Running /\ plan.from # plan.to
    BY PlanFacts
  <2>2. owner[r] = plan.to
    BY <1>2, <2>1 DEF OrderInv
  <2>3. r \in plan.zone
    BY <1>1, <1>2, <2>1, <2>2 DEF DestInv
  <2>4. ~BeforeMst /\ ~Answered
    BY <2>1, <2>2, <2>3, PlanFacts
  <2>5. plan.stage = "mst" /\ s \in plan.wait
    BY <2>1, <2>4 DEF ToOld, BeforeMst
  <2>6. IsEntity(s, p) /\ q \in plan.zone
    BY <1>2, <2>1 DEF DestInv
  <2>7. mst[s][q] # s
    BY <1>1, <2>1, <2>5, <2>6, MstFacts
  <2>8. QED
    BY <1>4, <2>3, <2>4, <2>6, <2>7 DEF IsEntity
<1>7. a => owner[r] # s
  <2>1. mst[s][r] = owner[r] \/ (/\ plan.stage = "mst" /\ s \in plan.wait
                                 /\ owner[r] = plan.to)
    BY <1>1, MstFacts
  <2>2. plan.stage = "mst" /\ plan.to \in plan.wait => ToOld
    BY DEF ToOld, AfterUnpack
  <2>3. QED
    BY <1>5, <1>6, <2>1, <2>2
<1>8. ASSUME ~a, mst[s][r] # s
      PROVE  /\ AfterUnpack /\ r \in plan.zone
             /\ s = plan.to \/ (s = plan.from /\ ~SourceDone)
  <2>1. IsEntity(s, p) /\ mst[s][q] # s
    BY <1>4, <1>8 DEF IsEntity
  <2>2. /\ AfterUnpack /\ q \in plan.zone
        /\ s = plan.to \/ (s = plan.from /\ ~SourceDone)
    BY <1>2, <2>1 DEF EntityInv
  <2>3. owner[r] = s \/ (s = plan.from /\ r \in plan.zone)
    BY <1>2, <2>2, PlanFacts DEF OrderInv
  <2>4. owner[r] = s => r \in plan.zone
    BY <1>1, <1>8, MstFacts
  <2>5. QED
    BY <2>2, <2>3, <2>4
<1>9. QED
  BY <1>5, <1>6, <1>7, <1>8
LEMMA PlayersMove ==
  ASSUME TypeInv, StageInv, PlayerInv, NEW p \in Player, ClientMessage(p)
  PROVE  PlayerInv'
<1>0. PICK s, r, d : s = order[p].server /\ r = order[p].to /\ d = plan.to
  OBVIOUS
<1>1. /\ order[p] # None /\ order' = [order EXCEPT ![p] = None]
      /\ UNCHANGED <<mst, owner, isDest, block, plan>>
  BY DEF ClientMessage, ilmVars
<1>2. UNCHANGED Phases
  BY <1>1 DEF Phases, Running, BeforeMst, AfterPack, AfterUnpack, Answered, ToOld, SourceDone
<1>3. s \in Server /\ r \in Region /\ s = client[p].server
  BY <1>0, <1>1 DEF PlayerInv, OrderInv, TypeInv, TypeClient, Order
<1>4. \A y \in Player : order'[y] = IF y = p THEN None ELSE order[y]
  BY <1>1 DEF TypeInv, TypeClient
<1>5. \A o \in block.objects : block.at = "sent" => ObjectInv(o) /\ o.player \in Player /\ o.player # p
  BY <1>1 DEF PlayerInv, BlockInv, ObjectInv, TypeInv, TypeIlm
<1>6. CASE UNCHANGED <<copy, net, client>>
  <2>1. ASSUME NEW y \in Player
        PROVE  OrderInv(y)'
    BY <1>1, <1>2, <1>4, <1>6 DEF PlayerInv, OrderInv, Phases
  <2>2. ASSUME NEW x \in Server, NEW y \in Player
        PROVE  EntityInv(x, y)' /\ AgentInv(x, y)' /\ ListInv(x, y)'
    BY <1>1, <1>2, <1>6 DEF PlayerInv, EntityInv, AgentInv, ListInv, Twice, IsEntity, Has, Phases
  <2>3. ASSUME NEW x \in Server, NEW t \in Server
        PROVE  NetInv(x, t)'
    BY <1>1, <1>2, <1>6 DEF PlayerInv, NetInv, MessageInv, IsEntity, Has, Phases
  <2>4. BlockInv'
    BY <1>1, <1>2, <1>4, <1>5, <1>6, ZenonT(30) DEF PlayerInv, BlockInv, ObjectInv, IsEntity, Has, Phases
  <2>5. DestInv'
    BY <1>1, <1>2, <1>6 DEF PlayerInv, DestInv, IsEntity, Has, Phases
  <2>6. QED
    BY <2>1, <2>2, <2>3, <2>4, <2>5 DEF PlayerInv
<1>7. ASSUME Has(s, p), NEW L \in SUBSET Server, Moved(p, L)
      PROVE  PlayerInv'
  <2>1. PICK a : a = AgentAfter(s, p, copy[s][p].at, r)
    OBVIOUS
  <2>2. /\ a \in BOOLEAN
        /\ a => mst[s][r] # s /\ owner[r] # s
        /\ ~a => \/ mst[s][r] = s
                 \/ /\ AfterUnpack /\ r \in plan.zone
                    /\ s = plan.to \/ (s = plan.from /\ ~SourceDone)
        /\ ToOld /\ s = plan.to => ~Answered /\ ~a /\ r \in plan.zone
    BY <1>0, <1>1, <1>7, <2>1, NewKind
  <2>3. /\ \A x \in Server, y \in Player :
             copy'[x][y] = IF x = s /\ y = p THEN [at |-> r, agent |-> a, list |-> L]
                           ELSE copy[x][y]
        /\ L = copy[s][p].list \/ (L = Near(s, r) /\ (StaysHere(s, p, copy[s][p].at, r) \/ ~a))
        /\ client' = client \/ client' = [client EXCEPT ![p] = [server |-> s, frozen |-> FALSE]]
    BY <1>0, <1>7, <2>1 DEF Moved
  <2>4. /\ s \notin L
        /\ BeforeMst => plan.to \notin L
        /\ L # copy[s][p].list => owner[r] \notin L
    <3>1. ListInv(s, p)
      BY <1>3 DEF PlayerInv
    <3>2. CASE L = copy[s][p].list
      BY <1>7, <3>1, <3>2 DEF ListInv
    <3>3. CASE L # copy[s][p].list
      BY <1>0, <1>1, <1>7, <2>1, <2>3, <3>3, NewList
    <3>4. QED
      BY <3>2, <3>3
  <2>5. \A y \in Player : client'[y].server = client[y].server /\ (y # p => client'[y] = client[y])
    BY <1>3, <2>3 DEF TypeInv, TypeClient
  <2>6. [at |-> r, agent |-> a, list |-> L] \in Copy
    BY <1>3, <2>2 DEF Copy
  <2>7. /\ copy'[s][p].at = r /\ copy'[s][p].agent = a /\ copy'[s][p].list = L
        /\ Has(s, p)' /\ copy'[s][p] # None
    BY <1>3, <2>3, <2>6, NoneIsNothing DEF Has
  <2>8. \A x \in Server, y \in Player : ~(x = s /\ y = p) => copy'[x][y] = copy[x][y]
    BY <2>3
  <2>9. ASSUME NEW y \in Player
        PROVE  OrderInv(y)'
    BY <1>1, <1>2, <1>4, <2>5 DEF PlayerInv, OrderInv, Phases
  <2>10. EntityInv(s, p)' /\ AgentInv(s, p)' /\ ListInv(s, p)'
    <3>1. EntityInv(s, p)'
      <4>1. Twice(s, p)' => FALSE
        BY <1>2, <1>3, <2>5, PlanFacts DEF Twice, Phases
      <4>2. QED
        BY <1>1, <1>2, <1>3, <2>2, <2>5, <2>7, <4>1 DEF EntityInv, IsEntity, Phases
    <3>2. AgentInv(s, p)' /\ ListInv(s, p)'
      BY <1>1, <1>2, <2>2, <2>4, <2>7 DEF AgentInv, ListInv, Phases
    <3>3. QED
      BY <3>1, <3>2
  <2>11. ASSUME NEW x \in Server, NEW y \in Player, ~(x = s /\ y = p)
         PROVE  EntityInv(x, y)' /\ AgentInv(x, y)' /\ ListInv(x, y)'
    <3>1. copy'[x][y] = copy[x][y] /\ client'[y].server = client[y].server
      BY <2>5, <2>8, <2>11
    <3>2. EntityInv(x, y) /\ AgentInv(x, y) /\ ListInv(x, y)
      BY DEF PlayerInv
    <3>3. EntityInv(x, y)'
      BY <1>1, <1>2, <3>1, <3>2 DEF EntityInv, Twice, IsEntity, Has, Phases
    <3>4. AgentInv(x, y)' /\ ListInv(x, y)'
      BY <1>1, <1>2, <3>1, <3>2 DEF AgentInv, ListInv, Has, Phases
    <3>5. QED
      BY <3>3, <3>4
  <2>12. ASSUME NEW x \in Server, NEW t \in Server
         PROVE  NetInv(x, t)'
    <3>1. NetInv(x, t)
      BY DEF PlayerInv
    \* An old message: the entity of its player is where it was.
    <3>2. ASSUME NEW m \in ToSet(net[x][t])
          PROVE  MessageInv(t, m)'
      <4>1. m.player \in Player /\ MessageInv(t, m)
        BY <3>1, ToSetType DEF NetInv, TypeInv, TypeNet, Message
      <4>2. ~(t = s /\ m.player = p)
        BY <1>3, <4>1 DEF MessageInv
      <4>3. copy'[t][m.player] = copy[t][m.player] /\ client'[m.player].server = client[m.player].server
        BY <2>5, <2>8, <4>1, <4>2
      <4>4. QED
        BY <1>1, <1>2, <4>1, <4>3 DEF MessageInv, IsEntity, Has, Phases
    <3>3. CASE net'[x][t] = net[x][t]
      BY <1>1, <1>2, <3>1, <3>2, <3>3 DEF NetInv, Phases
    <3>4. CASE net'[x][t] # net[x][t]
      <4>1. /\ x = s /\ t \in copy[s][p].list \cup L
            /\ ToSet(net'[x][t]) \subseteq ToSet(net[x][t]) \cup {Delete(p), Create(p, r)}
            /\ t \in L \/ Create(p, r) \notin ToSet(net'[x][t]) \ ToSet(net[x][t])
            /\ L # copy[s][p].list
        BY <1>0, <1>7, <3>4 DEF Moved
      <4>2. t # s /\ (BeforeMst => t # plan.to)
        BY <1>3, <1>7, <2>4, <4>1 DEF PlayerInv, ListInv
      <4>3. ~(Answered /\ s = plan.to)
        BY <1>0, <2>2, PlanFacts
      <4>4. /\ Delete(p).type = "delete" /\ Delete(p).player = p
            /\ Create(p, r).at = r /\ Create(p, r).player = p
        BY DEF Delete, Create
      <4>5. MessageInv(t, Delete(p))'
        BY <1>1, <1>2, <1>3, <2>5, <4>2, <4>3, <4>4 DEF MessageInv, Phases
      <4>6. t \in L => MessageInv(t, Create(p, r))'
        BY <1>1, <1>2, <1>3, <2>4, <2>5, <4>1, <4>2, <4>3, <4>4 DEF MessageInv, Phases
      <4>7. QED
        BY <1>1, <1>2, <3>2, <4>1, <4>2, <4>5, <4>6 DEF NetInv, Phases
    <3>5. QED
      BY <3>3, <3>4
  <2>13. BlockInv'
    <3>1. ASSUME block.at = "sent", NEW o \in block.objects
          PROVE  ObjectInv(o)'
      <4>1. ObjectInv(o) /\ o.player \in Player /\ o.player # p /\ plan.from \in Server
        BY <1>5, <3>1, PlanFacts
      <4>2. /\ copy'[plan.from][o.player] = copy[plan.from][o.player]
            /\ client'[o.player] = client[o.player] /\ order'[o.player] = order[o.player]
        BY <1>4, <2>5, <2>8, <4>1
      <4>3. QED
        BY <1>1, <4>1, <4>2 DEF ObjectInv, IsEntity, Has
    <3>2. QED
      BY <1>1, <1>2, <3>1 DEF PlayerInv, BlockInv, Phases
  <2>14. DestInv'
    <3> SUFFICES ASSUME Running
                 PROVE  DestInv'
      BY <1>2 DEF DestInv, Phases
    <3>1. d \in Server /\ DestInv /\ d = plan'.to
      BY <1>0, <1>1, PlanFacts DEF PlayerInv
    <3>2. ASSUME ~AfterUnpack, NEW y \in Player
          PROVE  ~Has(d, y)'
      <4>1. ~Has(d, y)
        BY <1>0, <3>1, <3>2 DEF DestInv
      <4>2. ~(d = s /\ y = p)
        BY <1>7, <4>1
      <4>3. QED
        BY <2>8, <3>1, <4>1, <4>2 DEF Has
    <3>3. ASSUME ToOld, NEW y \in Player, Has(d, y)', Answered \/ client[y].server = d
          PROVE  IsEntity(d, y)' /\ copy'[d][y].at \in plan.zone
      <4>1. CASE d = s /\ y = p
        BY <1>0, <2>2, <2>7, <3>3, <4>1 DEF IsEntity, Has
      <4>2. CASE ~(d = s /\ y = p)
        <5>1. copy'[d][y] = copy[d][y]
          BY <2>8, <3>1, <4>2
        <5>2. QED
          BY <1>0, <3>1, <3>3, <5>1 DEF DestInv, IsEntity, Has
      <4>3. QED
        BY <4>1, <4>2
    <3>4. QED
      BY <1>1, <1>2, <2>5, <3>1, <3>2, <3>3 DEF DestInv, Phases
  <2>15. QED
    BY <2>9, <2>10, <2>11, <2>12, <2>13, <2>14 DEF PlayerInv
<1>8. QED
  BY <1>0, <1>6, <1>7, MoveEffect
-----------------------------------------------------------------------------
(* Who decides a player                                                     *)

LEMMA CleanFinishes == Clean => Finishes
BY DEF Clean, Finishes

LEMMA NoAbort ==
  ASSUME TypeInv, StageInv, Finishes, Abort
  PROVE  FALSE
BY DEF Abort, Finishes, StageInv, PlanInv

LEMMA PlayersStep ==
  ASSUME TypeInv, StageInv, StageInv', PlayerInv, Clean, [Next]_vars
  PROVE  PlayerInv'
<1>1. CASE UNCHANGED vars
  BY <1>1, PlayersStay
     DEF vars, gsVars, ilmVars, Phases, Running, BeforeMst, AfterPack, AfterUnpack, Answered,
         ToOld, SourceDone
<1>2. CASE Next
  BY <1>2, CleanFinishes, NoAbort, PlayersStart, PlayersStage, PlayersMst, PlayersFinish,
     PlayersPack, PlayersUnpack, PlayersUpdate, PlayersUnlock, PlayersOrder, PlayersMove,
     PlayersAgent DEF Next
<1>3. QED
  BY <1>1, <1>2

WorldInv == TypeInv /\ (Finishes => StageInv) /\ (Clean => PlayerInv)

LEMMA CleanStays ==
  ASSUME [Next]_vars
  PROVE  (Clean' <=> Clean) /\ (Finishes' <=> Finishes)
BY WorldStays DEF Clean, Finishes

LEMMA WorldStep ==
  ASSUME WorldInv, [Next]_vars
  PROVE  WorldInv'
<1>1. TypeInv'
  BY TypeStep DEF WorldInv
<1>2. Finishes => StageInv'
  BY StageStep DEF WorldInv
<1>3. Clean => PlayerInv'
  BY <1>2, CleanFinishes, PlayersStep DEF WorldInv
<1>4. QED
  BY <1>1, <1>2, <1>3, CleanStays DEF WorldInv

LEMMA WorldKept == Spec => []WorldInv
<1>1. Init => WorldInv
  BY StageInit, PlayersInit DEF WorldInv
<1>2. QED
  BY <1>1, WorldStep, PTL DEF Spec

LEMMA IdleLeavesNothing ==
  ASSUME WorldInv
  PROVE  PlanLeavesNothing
<1> SUFFICES ASSUME plan.stage = "idle", NEW s \in Server
             PROVE  /\ "abort" \notin world => mst[s] = owner /\ locked[s] = {}
                    /\ Clean => \A p \in Player : IsEntity(s, p) => owner[copy[s][p].at] = s
  BY DEF PlanLeavesNothing
<1>1. Finishes => mst[s] = owner /\ locked[s] = {}
  BY DEF WorldInv, StageInv, StageAt, MstOf, LockedOf
<1>2. ASSUME Clean, NEW p \in Player, IsEntity(s, p)
      PROVE  owner[copy[s][p].at] = s
  <2>1. EntityInv(s, p) /\ ~AfterUnpack
    BY <1>2 DEF WorldInv, PlayerInv, AfterUnpack
  <2>2. mst[s][copy[s][p].at] = s
    BY <1>2, <2>1 DEF EntityInv
  <2>3. QED
    BY <1>1, <1>2, <2>2, CleanFinishes
<1>3. QED
  BY <1>1, <1>2 DEF Finishes

LEMMA AtMostOne ==
  ASSUME NEW S, NEW x, S \subseteq {x}
  PROVE  Cardinality(S) <= 1
<1>1. S = {} \/ S = {x}
  OBVIOUS
<1>2. Cardinality({}) = 0 /\ Cardinality({x}) = 1
  BY FS_EmptySet, FS_Singleton
<1>3. QED
  BY <1>1, <1>2

LEMMA DecidedByOne ==
  ASSUME WorldInv
  PROVE  OneEntity
<1> SUFFICES ASSUME Clean, NEW p \in Player
             PROVE  \/ Cardinality(Entities(p)) <= 1
                    \/ /\ plan.stage \in {"part", "mst", "unlock"}
                       /\ Entities(p) = {plan.from, plan.to}
                       /\ copy[plan.from][p].at \in plan.zone
  BY DEF OneEntity
<1> DEFINE k == client[p].server
<1>1. \A s \in Entities(p) :
         s = k \/ (Twice(s, p) /\ copy[s][p].at \in plan.zone)
  BY DEF WorldInv, PlayerInv, EntityInv, Entities
<1>2. CASE Entities(p) \subseteq {k}
  BY <1>2, AtMostOne
<1>3. CASE ~(Entities(p) \subseteq {k})
  <2>1. PICK s \in Entities(p) : s # k
    BY <1>3
  <2>2. s = plan.from /\ k = plan.to /\ AfterUnpack /\ copy[s][p].at \in plan.zone
    BY <1>1, <2>1 DEF Twice
  <2>3. Entities(p) \subseteq {plan.from, plan.to}
    BY <1>1, <2>2 DEF Twice
  <2>4. CASE plan.to \in Entities(p)
    BY <2>1, <2>2, <2>3, <2>4 DEF AfterUnpack
  <2>5. CASE plan.to \notin Entities(p)
    <3>1. Entities(p) \subseteq {plan.from}
      BY <2>3, <2>5
    <3>2. QED
      BY <3>1, AtMostOne
  <2>6. QED
    BY <2>4, <2>5
<1>4. QED
  BY <1>2, <1>3

\* When no plan runs, every entity is in a region of its server and every server
\* has the ILM's MST and nothing locked, however many plans there were.
THEOREM NothingLeftBehind == Spec => []PlanLeavesNothing
BY WorldKept, IdleLeavesNothing, PTL

\* A player has one entity, or the source's and the destination's between the
\* unpacking and the source's unlock, for every grid, set of servers and number
\* of plans.
THEOREM DecidedOnce == Spec => []OneEntity
BY WorldKept, DecidedByOne, PTL

-----------------------------------------------------------------------------
(* Who comes home                                                           *)

HomeInv == "plan" \notin world => \A p \in Player : Has(client[p].server, p)

LEMMA NoPlanIdle ==
  ASSUME WorldInv, "plan" \notin world
  PROVE  StageInv /\ PlayerInv /\ plan.stage = "idle" /\ \A s \in Server : cmd[s] = <<>>
<1>1. StageInv /\ PlayerInv
  BY DEF WorldInv, Finishes, Clean
<1>2. plan.stage = "idle"
  BY <1>1 DEF StageInv, PlanInv
<1>3. QED
  BY <1>1, <1>2 DEF StageInv, StageAt, CmdOf

LEMMA HomeStep ==
  ASSUME WorldInv, HomeInv, [Next]_vars
  PROVE  HomeInv'
<1> SUFFICES ASSUME "plan" \notin world, NEW p \in Player
             PROVE  Has(client[p].server, p)'
  BY WorldStays DEF HomeInv
<1>1. Has(client[p].server, p) /\ client[p].server \in Server
  BY DEF HomeInv, WorldInv, TypeInv, TypeClient
<1>2. TypeInv /\ StageInv /\ PlayerInv /\ plan.stage = "idle" /\ \A s \in Server : cmd[s] = <<>>
  BY NoPlanIdle DEF WorldInv
<1>3. CASE UNCHANGED <<copy, client>>
  BY <1>1, <1>3 DEF Has
<1>4. ASSUME NEW y \in Player, ClientMessage(y), ~UNCHANGED <<copy, client>>
      PROVE  Has(client[p].server, p)'
  <2>0. PICK s, r : s = order[y].server /\ r = order[y].to
    OBVIOUS
  <2>1. PICK L \in SUBSET Server : Moved(y, L)
    BY <1>2, <1>4, MoveEffect
  <2>2. s = client[y].server /\ s \in Server /\ r \in Region /\ Has(s, y)
    BY <1>2, <1>4, <2>0, MoveEffect
       DEF ClientMessage, PlayerInv, OrderInv, TypeInv, TypeClient, Order
  <2>3. PICK a : a = AgentAfter(s, y, copy[s][y].at, r)
    OBVIOUS
  <2>4. a \in BOOLEAN
    BY <1>2, <1>4, <2>0, <2>2, <2>3, NewKind DEF ClientMessage
  <2>5. [at |-> r, agent |-> a, list |-> L] # None
    <3>1. [at |-> r, agent |-> a, list |-> L] \in Copy
      BY <2>2, <2>4 DEF Copy
    <3>2. QED
      BY <3>1, NoneIsNothing
  <2>6. /\ \A x \in Server, z \in Player :
             copy'[x][z] = IF x = s /\ z = y THEN [at |-> r, agent |-> a, list |-> L]
                           ELSE copy[x][z]
        /\ client' = client \/ client' = [client EXCEPT ![y] = [server |-> s, frozen |-> FALSE]]
    BY <2>0, <2>1, <2>3 DEF Moved
  <2>7. client'[p].server = client[p].server
    BY <1>2, <2>2, <2>6 DEF TypeInv, TypeClient
  <2>8. QED
    BY <1>1, <2>5, <2>6, <2>7 DEF Has
<1>5. ASSUME NEW s \in Server, NEW t \in Server, CreateAgent(s, t) \/ DeleteAgent(s, t)
      PROVE  Has(client[p].server, p)'
  <2>1. PICK y \in Player, c \in Copy \cup {None} : AgentStep(s, t, y, c)
    BY <1>2, <1>5, AgentEffect
  <2>2. client[y].server # t /\ client' = client
    BY <2>1 DEF AgentStep, MessageInv
  <2>3. copy'[client[p].server][p] = copy[client[p].server][p]
    BY <1>1, <1>2, <2>1, <2>2 DEF AgentStep, TypeInv, TypeGs
  <2>4. QED
    BY <1>1, <2>2, <2>3 DEF Has
<1>6. ASSUME NEW s \in Server
      PROVE  ~PackMap(s) /\ ~UnpackMap(s) /\ ~UnlockMap(s)
  BY <1>2 DEF PackMap, UnpackMap, UnlockMap, At
<1>7. QED
  BY <1>3, <1>4, <1>5, <1>6
     DEF Next, vars, gsVars, ClientOrders, StartPlan, StartPartition, ChangeMST, SendUnlock,
         FinishPlan, Abort, LockMap, PartitionDone, UpdateMST

LEMMA HomeInit == Init => HomeInv
<1> SUFFICES ASSUME Init, NEW p \in Player
             PROVE  Has(client[p].server, p)
  BY DEF HomeInv
<1>1. PICK at \in [Player -> Region] :
        /\ copy = [s \in Server |-> [q \in Player |->
                     IF FirstOwner[at[q]] = s THEN NewCopy(at[q], FALSE) ELSE None]]
        /\ client = [q \in Player |-> [server |-> FirstOwner[at[q]], frozen |-> FALSE]]
  BY DEF Init
<1>2. at[p] \in Region /\ FirstOwner[at[p]] \in Server
  BY SeamlessAssumption
<1>3. client[p].server = FirstOwner[at[p]] /\ copy[FirstOwner[at[p]]][p] = NewCopy(at[p], FALSE)
  BY <1>1, <1>2
<1>4. NewCopy(at[p], FALSE) # None
  BY <1>2, NewCopyType, NoneIsNothing
<1>5. QED
  BY <1>3, <1>4 DEF Has

\* While zones stay, a player that comes back to the regions of the server its
\* client talks to is decided there, wherever it has been.
THEOREM ComesHome == Spec => []HomeAgain
<1>1. Spec => []HomeInv
  BY HomeInit, HomeStep, WorldKept, PTL DEF Spec
<1>2. ASSUME WorldInv, HomeInv
      PROVE  HomeAgain
  <2> SUFFICES ASSUME "plan" \notin world, NEW p \in Player,
                      owner[copy[client[p].server][p].at] = client[p].server
               PROVE  IsEntity(client[p].server, p)
    BY DEF HomeAgain
  <2>1. Has(client[p].server, p) /\ client[p].server \in Server /\ PlayerInv
    BY <1>2, NoPlanIdle DEF HomeInv, WorldInv, TypeInv, TypeClient
  <2>2. copy[client[p].server][p] \in Copy
    BY <1>2, <2>1, CopyType DEF WorldInv, TypeInv
  <2>3. ~copy[client[p].server][p].agent
    BY <2>1, <2>2 DEF PlayerInv, AgentInv, Copy
  <2>4. QED
    BY <2>1, <2>3 DEF IsEntity
<1>3. QED
  BY <1>1, <1>2, WorldKept, PTL

-----------------------------------------------------------------------------
(* Whose client is served                                                   *)

Calm == world \cap {"across", "enter", "late", "near", "abort"} = {}

\* The server of a client has the entity, in no zone that it gives away from the
\* unpacking on; and an order goes where it stays the server, from the pack on.
HereInv(p) ==
  LET s == client[p].server IN
  /\ IsEntity(s, p)
  /\ AfterUnpack /\ s = plan.from => copy[s][p].at \notin plan.zone
  /\ order[p] # None => /\ owner[order[p].to] = s
                        /\ AfterPack /\ s = plan.from => order[p].to \notin plan.zone

\* While the package is on its way nobody is in the zone who is not in it.
PackedInv ==
  block.at = "sent" =>
  \A p \in Player : Has(plan.from, p) /\ copy[plan.from][p].at \in plan.zone => p \in Packed

ServedInv == PackedInv /\ \A p \in Player : HereInv(p)

LEMMA ServedInit == Init => ServedInv
<1> SUFFICES ASSUME Init
             PROVE  ServedInv
  OBVIOUS
<1>1. block.at # "sent" /\ ~AfterUnpack /\ \A p \in Player : order[p] = None
  BY DEF Init, NoBlock, Idle, AfterUnpack
<1>2. ASSUME NEW p \in Player
      PROVE  IsEntity(client[p].server, p)
  <2>1. PICK at \in [Player -> Region] :
          /\ copy = [s \in Server |-> [q \in Player |->
                       IF FirstOwner[at[q]] = s THEN NewCopy(at[q], FALSE) ELSE None]]
          /\ client = [q \in Player |-> [server |-> FirstOwner[at[q]], frozen |-> FALSE]]
    BY DEF Init
  <2>2. at[p] \in Region /\ FirstOwner[at[p]] \in Server
    BY SeamlessAssumption
  <2>3. client[p].server = FirstOwner[at[p]] /\ copy[FirstOwner[at[p]]][p] = NewCopy(at[p], FALSE)
    BY <2>1, <2>2
  <2>4. NewCopy(at[p], FALSE) # None /\ ~NewCopy(at[p], FALSE).agent
    BY <2>2, NewCopyType
  <2>5. QED
    BY <2>3, <2>4 DEF IsEntity, Has
<1>3. QED
  BY <1>1, <1>2 DEF ServedInv, PackedInv, HereInv

\* A step after which players, clients and orders are the same, and that ends in
\* no phase it has not been in
LEMMA ServedStays ==
  ASSUME ServedInv, UNCHANGED <<copy, client, order>>,
         AfterPack' => AfterPack /\ UNCHANGED <<plan.zone, plan.from>>,
         AfterUnpack' => AfterUnpack,
         AfterUnpack => AfterPack, AfterUnpack' => AfterPack',
         \A p \in Player : order[p] # None => owner'[order[p].to] = owner[order[p].to],
         block'.at = "sent" => block' = block /\ UNCHANGED <<plan.zone, plan.from>>
  PROVE  ServedInv'
<1>1. ASSUME NEW p \in Player
      PROVE  HereInv(p)'
  BY DEF ServedInv, HereInv, IsEntity, Has
<1>2. PackedInv'
  <2>1. block'.at = "sent" => Packed' = Packed
    BY DEF Packed
  <2>2. QED
    BY <2>1 DEF ServedInv, PackedInv, Has
<1>3. QED
  BY <1>1, <1>2 DEF ServedInv

LEMMA ServedPlan ==
  ASSUME TypeInv, StageInv, StageInv', ServedInv,
         \/ \E z \in Zones, s, t \in Server : StartPlan(z, s, t)
         \/ StartPartition \/ SendUnlock \/ FinishPlan
         \/ \E s \in Server : LockMap(s) \/ PartitionDone(s) \/ UpdateMST(s)
  PROVE  ServedInv'
<1>1. UNCHANGED <<copy, client, order, owner>>
  BY DEF StartPlan, StartPartition, SendUnlock, FinishPlan, LockMap, PartitionDone, UpdateMST,
         gsVars
<1>2. AfterUnpack => AfterPack
  BY PlanFacts
<1>3. ASSUME NEW z \in Zones, NEW s \in Server, NEW t \in Server, StartPlan(z, s, t)
      PROVE  ServedInv'
  <2>1. plan'.stage = "lock" /\ block' = block /\ plan.stage = "idle"
    BY <1>3 DEF StartPlan
  <2>2. ~AfterPack' /\ ~AfterUnpack' /\ block.at # "sent"
    BY <2>1, PlanFacts DEF AfterPack, AfterUnpack, Running
  <2>3. QED
    BY <1>1, <1>2, <2>1, <2>2, ServedStays
<1>4. CASE FinishPlan
  <2>1. plan'.stage = "idle" /\ block' = block /\ plan.stage = "unlock"
    BY <1>4 DEF FinishPlan, Idle, Replied
  <2>2. ~AfterPack' /\ ~AfterUnpack' /\ block.at # "sent"
    BY <2>1, PlanFacts DEF AfterPack, AfterUnpack
  <2>3. QED
    BY <1>1, <1>2, <2>1, <2>2, ServedStays
<1>5. CASE StartPartition
  <2>1. /\ plan.stage = "lock" /\ plan' = [plan EXCEPT !.stage = "part", !.wait = {plan.from}]
        /\ block' = block
    BY <1>5 DEF StartPartition, Replied
  <2>2. block.at = "none"
    BY <2>1 DEF StageInv, PlanInv, TypeInv, TypeIlm
  <2>3. ~AfterPack' /\ ~AfterUnpack'
    BY <2>1, <2>2 DEF AfterPack, AfterUnpack, TypeInv, TypeIlm
  <2>4. QED
    BY <1>1, <1>2, <2>1, <2>2, <2>3, ServedStays
<1>6. CASE SendUnlock
  <2>1. /\ plan.stage = "mst" /\ block' = block
        /\ plan' = [plan EXCEPT !.stage = "unlock", !.wait = Server]
    BY <1>6 DEF SendUnlock, Replied
  <2>2. /\ AfterPack /\ AfterUnpack /\ AfterPack' /\ AfterUnpack'
        /\ UNCHANGED <<plan.zone, plan.from>>
    BY <2>1 DEF AfterPack, AfterUnpack, TypeInv, TypeIlm
  <2>3. QED
    BY <1>1, <1>2, <2>1, <2>2, ServedStays
<1>7. ASSUME NEW s \in Server, LockMap(s) \/ UpdateMST(s)
      PROVE  ServedInv'
  <2>1. /\ plan.stage \in {"lock", "mst"} /\ plan' = [plan EXCEPT !.wait = plan.wait \ {s}]
        /\ block' = block
    BY <1>7, CommandOfStage DEF LockMap, UpdateMST, Replies, TypeInv
  <2>2. /\ AfterPack' = AfterPack /\ AfterUnpack' = AfterUnpack
        /\ UNCHANGED <<plan.zone, plan.from>>
    BY <2>1 DEF AfterPack, AfterUnpack, TypeInv, TypeIlm
  <2>3. QED
    BY <1>1, <1>2, <2>1, <2>2, ServedStays
<1>8. ASSUME NEW s \in Server, PartitionDone(s)
      PROVE  ServedInv'
  <2>1. plan.stage = "part" /\ plan.wait = {plan.from} /\ Head(cmd[s]).from = plan.from
    BY <1>8, CommandOfStage, CommandKinds DEF PartitionDone, TypeInv
  <2>2. /\ plan' = [plan EXCEPT !.wait = plan.wait \ {s}]
        /\ block.at = "answered" /\ block'.at = "none"
    BY <1>8, <2>1 DEF PartitionDone, Replies, NoBlock
  <2>3. AfterPack /\ AfterUnpack /\ UNCHANGED <<plan.zone, plan.from>> /\ (AfterUnpack' => AfterPack')
    BY <2>1, <2>2 DEF AfterPack, AfterUnpack, TypeInv, TypeIlm
  <2>4. QED
    BY <1>1, <1>2, <2>2, <2>3, ServedStays
<1>9. QED
  BY <1>3, <1>4, <1>5, <1>6, <1>7, <1>8

LEMMA ServedMst ==
  ASSUME TypeInv, StageInv, ServedInv, ChangeMST
  PROVE  ServedInv'
<1>1. /\ plan.stage = "part" /\ plan.wait = {}
      /\ plan' = [plan EXCEPT !.stage = "mst", !.wait = Server]
      /\ owner' = [r \in Region |-> IF r \in plan.zone THEN plan.to ELSE owner[r]]
      /\ UNCHANGED <<copy, client, order, block>>
  BY DEF ChangeMST, Replied, gsVars
<1>2. /\ AfterPack /\ AfterUnpack /\ AfterPack' /\ AfterUnpack' /\ BeforeMst
      /\ UNCHANGED <<plan.zone, plan.from>>
  BY <1>1 DEF AfterPack, AfterUnpack, BeforeMst, TypeInv, TypeIlm
\* An order into the zone is the source's, which has none.
<1>3. ASSUME NEW p \in Player, order[p] # None
      PROVE  owner'[order[p].to] = owner[order[p].to]
  <2>1. order[p].to \in Region
    BY <1>3 DEF TypeInv, TypeClient, Order
  <2>2. order[p].to \in plan.zone => owner[order[p].to] = plan.from
    BY <1>2, PlanFacts
  <2>3. order[p].to \notin plan.zone
    BY <1>2, <1>3, <2>2 DEF ServedInv, HereInv
  <2>4. QED
    BY <1>1, <2>1, <2>3
<1>4. block.at # "sent"
  BY <1>2, PlanFacts
<1>5. QED
  BY <1>1, <1>2, <1>3, <1>4, ServedStays

LEMMA ServedPack ==
  ASSUME TypeInv, StageInv, ServedInv, Calm, NEW s \in Server, PackMap(s)
  PROVE  ServedInv'
<1>1. /\ plan.stage = "part" /\ plan.wait = {plan.from} /\ Zone(s) = plan.zone
      /\ s = plan.from /\ block.at = "none"
  BY CommandOfStage, CommandKinds DEF PackMap, TypeInv, Zone
<1>2. /\ client' = Freeze(s, Inside(s, plan.zone))
      /\ block' = [at |-> "sent", objects |-> Package(s, plan.zone)]
      /\ \A p \in Player : order[p] = None
      /\ UNCHANGED <<copy, order, plan>>
  BY <1>1 DEF PackMap, Calm
<1>3. ~AfterUnpack'
  BY <1>1, <1>2 DEF AfterUnpack
<1>4. \A p \in Player : client'[p].server = client[p].server
  BY <1>2 DEF Freeze, TypeInv, TypeClient
<1>5. ASSUME NEW p \in Player
      PROVE  HereInv(p)'
  BY <1>2, <1>3, <1>4 DEF ServedInv, HereInv, IsEntity, Has
<1>6. ASSUME NEW p \in Player, Has(plan.from, p), copy[plan.from][p].at \in plan.zone
      PROVE  p \in Packed'
  <2>1. [player |-> p, at |-> copy[s][p].at] \in block'.objects
    BY <1>1, <1>2, <1>6 DEF Package, Inside
  <2>2. QED
    BY <2>1 DEF Packed
<1>7. QED
  BY <1>2, <1>5, <1>6 DEF ServedInv, PackedInv, Has

LEMMA ServedUnpack ==
  ASSUME TypeInv, StageInv, PlayerInv, ServedInv, NEW t \in Server, UnpackMap(t)
  PROVE  ServedInv'
<1>1. /\ t = plan.to /\ block.at = "sent" /\ plan.from # t
      /\ UNCHANGED <<order, owner, plan>>
      /\ AfterPack /\ block'.at = "answered"
      /\ \A p \in Player : ~Has(t, p)
  BY UnpackEffect
<1>2. ASSUME NEW p \in Player
      PROVE  HereInv(p)'
  <2>1. CASE p \in Packed
    <3>1. Has(t, p)' /\ ~copy'[t][p].agent /\ client'[p].server = t /\ order[p] = None
      BY <2>1, UnpackEffect
    <3>2. QED
      BY <1>1, <3>1 DEF HereInv, IsEntity
  <2>2. CASE p \notin Packed
    <3>0. PICK s : s = client[p].server
      OBVIOUS
    <3>1. s \in Server /\ HereInv(p) /\ client'[p].server = s
      BY <2>2, <3>0, UnpackEffect DEF ServedInv, TypeInv, TypeClient
    <3>2. s # t
      BY <1>1, <3>0, <3>1 DEF HereInv, IsEntity
    <3>3. copy'[s] = copy[s]
      BY <3>1, <3>2, UnpackEffect
    <3>4. s = plan.from => copy[s][p].at \notin plan.zone
      BY <1>1, <2>2, <3>0, <3>1 DEF ServedInv, PackedInv, HereInv, IsEntity
    <3>5. QED
      BY <1>1, <3>0, <3>1, <3>3, <3>4 DEF HereInv, IsEntity, Has
  <2>3. QED
    BY <2>1, <2>2
<1>3. QED
  BY <1>1, <1>2 DEF ServedInv, PackedInv

LEMMA ServedUnlock ==
  ASSUME TypeInv, StageInv, PlayerInv, ServedInv, NEW s \in Server, UnlockMap(s)
  PROVE  ServedInv'
<1>1. plan.stage = "unlock" /\ Zone(s) = plan.zone
  BY CommandOfStage, CommandKinds DEF UnlockMap, TypeInv, Zone
<1>2. /\ copy' = [copy EXCEPT ![s] = [p \in Player |-> Cleared(s, p)]]
      /\ plan' = [plan EXCEPT !.wait = plan.wait \ {s}]
      /\ UNCHANGED <<client, order, owner, block>>
  BY <1>1 DEF UnlockMap, Replies
<1>3. /\ AfterPack /\ AfterUnpack /\ AfterPack' /\ AfterUnpack' /\ Running /\ ~BeforeMst
      /\ UNCHANGED <<plan.zone, plan.from>>
  BY <1>1, <1>2 DEF AfterPack, AfterUnpack, Running, BeforeMst, TypeInv, TypeIlm
<1>4. /\ isDest[plan.to] /\ block.at # "sent" /\ mst[s] = owner
      /\ \A r \in plan.zone : owner[r] = plan.to
  BY <1>1, <1>3, PlanFacts, MstFacts, SeamlessAssumption
     DEF PlayerInv, BlockInv, StageInv, StageAt, MstOf
<1>5. ASSUME NEW p \in Player
      PROVE  HereInv(p)'
  <2>0. PICK k : k = client[p].server
    OBVIOUS
  <2>1. k \in Server /\ HereInv(p) /\ client'[p].server = k
    BY <1>2, <2>0 DEF ServedInv, TypeInv, TypeClient
  <2>2. k = s => Cleared(s, p) = copy[s][p]
    <3> SUFFICES ASSUME k = s, copy[s][p].at \in plan.zone, ~isDest[s]
                 PROVE  FALSE
      BY <1>1 DEF Cleared, Inside
    <3>1. s # plan.from /\ s # plan.to /\ IsEntity(s, p)
      BY <1>3, <1>4, <2>0, <2>1 DEF HereInv
    <3>2. mst[s][copy[s][p].at] = s
      BY <3>1 DEF PlayerInv, EntityInv
    <3>3. QED
      BY <1>4, <3>1, <3>2
  <2>3. copy'[k][p] = copy[k][p]
    BY <1>2, <2>1, <2>2 DEF TypeInv, TypeGs
  <2>4. QED
    BY <1>2, <1>3, <2>0, <2>1, <2>3 DEF HereInv, IsEntity, Has
<1>6. QED
  BY <1>2, <1>4, <1>5 DEF ServedInv, PackedInv

LEMMA ServedOrder ==
  ASSUME TypeInv, StageInv, PlayerInv, ServedInv, Calm, NEW p \in Player, NEW r \in Region,
         ClientOrders(p, r)
  PROVE  ServedInv'
<1>0. PICK s : s = client[p].server
  OBVIOUS
<1>1. /\ order' = [order EXCEPT ![p] = [server |-> s, to |-> r]]
      /\ ~client[p].frozen /\ owner[r] = s /\ Has(s, p)
      /\ r \in plan.zone => copy[s][p].at \in plan.zone
      /\ UNCHANGED <<copy, client, owner, block, plan>>
  BY <1>0 DEF ClientOrders, Calm, gsVars, ilmVars
<1>2. /\ UNCHANGED <<AfterPack, AfterUnpack>>
  BY <1>1 DEF AfterPack, AfterUnpack
\* Whoever is in the zone at the source is packed, and waits.
<1>3. AfterPack /\ s = plan.from => r \notin plan.zone
  <2> SUFFICES ASSUME AfterPack, s = plan.from, copy[s][p].at \in plan.zone
               PROVE  FALSE
    BY <1>1
  <2>1. ~AfterUnpack
    BY <1>0 DEF ServedInv, HereInv
  <2>2. block.at = "sent"
    BY <2>1 DEF AfterPack, AfterUnpack, TypeInv, TypeIlm
  <2>3. PICK o \in block.objects : o.player = p
    BY <1>1, <2>2 DEF ServedInv, PackedInv, Packed
  <2>4. client[p] = [server |-> plan.from, frozen |-> TRUE]
    BY <2>2, <2>3 DEF PlayerInv, BlockInv, ObjectInv
  <2>5. QED
    BY <1>1, <2>4
<1>4. ASSUME NEW y \in Player
      PROVE  HereInv(y)'
  <2>1. order'[y] = IF y = p THEN [server |-> s, to |-> r] ELSE order[y]
    BY <1>1 DEF TypeInv, TypeClient
  <2>2. CASE y = p
    <3>1. order'[y].to = r
      BY <2>1, <2>2
    <3>2. QED
      BY <1>0, <1>1, <1>2, <1>3, <2>2, <3>1 DEF ServedInv, HereInv, IsEntity, Has
  <2>3. CASE y # p
    BY <1>1, <1>2, <2>1, <2>3 DEF ServedInv, HereInv, IsEntity, Has
  <2>4. QED
    BY <2>2, <2>3
<1>5. PackedInv'
  BY <1>1 DEF ServedInv, PackedInv, Packed, Has
<1>6. QED
  BY <1>4, <1>5 DEF ServedInv

LEMMA ServedAgent ==
  ASSUME TypeInv, StageInv, PlayerInv, ServedInv, NEW s \in Server, NEW t \in Server,
         CreateAgent(s, t) \/ DeleteAgent(s, t)
  PROVE  ServedInv'
<1>1. PICK p \in Player, c \in Copy \cup {None} : AgentStep(s, t, p, c)
  BY AgentEffect
<1>2. /\ client[p].server # t /\ (c # None => owner[c.at] # t)
      /\ UNCHANGED <<client, order, owner, block, plan>>
      /\ \A x \in Server, y \in Player : copy'[x][y] = IF x = t /\ y = p THEN c ELSE copy[x][y]
  BY <1>1 DEF AgentStep, MessageInv, TypeInv, TypeGs
<1>3. UNCHANGED <<AfterPack, AfterUnpack, Packed>>
  BY <1>2 DEF AfterPack, AfterUnpack, Packed
<1>4. ASSUME NEW y \in Player
      PROVE  HereInv(y)'
  <2>0. PICK k : k = client[y].server
    OBVIOUS
  <2>1. k \in Server /\ HereInv(y)
    BY <2>0 DEF ServedInv, TypeInv, TypeClient
  <2>2. copy'[k][y] = copy[k][y]
    BY <1>2, <2>0, <2>1
  <2>3. QED
    BY <1>2, <1>3, <2>0, <2>1, <2>2 DEF HereInv, IsEntity, Has
<1>5. PackedInv'
  <2> SUFFICES ASSUME block.at = "sent", NEW y \in Player, Has(plan.from, y)',
                      copy'[plan.from][y].at \in plan.zone
               PROVE  y \in Packed
    BY <1>2, <1>3 DEF PackedInv
  <2>1. plan.from \in Server /\ \A r \in plan.zone : owner[r] = plan.from
    BY PlanFacts
  <2>2. ~(plan.from = t /\ y = p)
    BY <1>2, <2>1 DEF Has
  <2>3. copy'[plan.from][y] = copy[plan.from][y]
    BY <1>2, <2>1, <2>2
  <2>4. QED
    BY <1>2, <2>3 DEF ServedInv, PackedInv, Has
<1>6. QED
  BY <1>4, <1>5 DEF ServedInv

LEMMA ServedMove ==
  ASSUME TypeInv, StageInv, PlayerInv, ServedInv, NEW p \in Player, ClientMessage(p)
  PROVE  ServedInv'
<1>0. PICK s, r : s = order[p].server /\ r = order[p].to
  OBVIOUS
<1>1. /\ order[p] # None /\ order' = [order EXCEPT ![p] = None]
      /\ UNCHANGED <<owner, block, plan>>
  BY DEF ClientMessage, ilmVars
<1>2. UNCHANGED <<AfterPack, AfterUnpack, Packed>>
  BY <1>1 DEF AfterPack, AfterUnpack, Packed
<1>3. \A y \in Player : order'[y] = IF y = p THEN None ELSE order[y]
  BY <1>1 DEF TypeInv, TypeClient
<1>4. /\ s \in Server /\ s = client[p].server /\ r \in Region
      /\ owner[r] = s /\ (AfterPack /\ s = plan.from => r \notin plan.zone)
  BY <1>0, <1>1 DEF ServedInv, HereInv, PlayerInv, OrderInv, TypeInv, TypeClient, Order
<1>5. CASE UNCHANGED <<copy, net, client>>
  <2>1. ASSUME NEW y \in Player
        PROVE  HereInv(y)'
    BY <1>1, <1>2, <1>3, <1>5 DEF ServedInv, HereInv, IsEntity, Has
  <2>2. PackedInv'
    BY <1>1, <1>2, <1>5 DEF ServedInv, PackedInv, Has
  <2>3. QED
    BY <2>1, <2>2 DEF ServedInv
<1>6. ASSUME Has(s, p), NEW L \in SUBSET Server, Moved(p, L)
      PROVE  ServedInv'
  <2>1. PICK a : a = AgentAfter(s, p, copy[s][p].at, r)
    OBVIOUS
  <2>2. ~a /\ a \in BOOLEAN
    BY <1>0, <1>1, <1>4, <1>6, <2>1, NewKind
  <2>3. /\ \A x \in Server, y \in Player :
             copy'[x][y] = IF x = s /\ y = p THEN [at |-> r, agent |-> a, list |-> L]
                           ELSE copy[x][y]
        /\ client' = client \/ client' = [client EXCEPT ![p] = [server |-> s, frozen |-> FALSE]]
    BY <1>0, <1>6, <2>1 DEF Moved
  <2>4. \A y \in Player : client'[y].server = client[y].server
    BY <1>4, <2>3 DEF TypeInv, TypeClient
  <2>5. [at |-> r, agent |-> a, list |-> L] \in Copy
    BY <1>4, <2>2 DEF Copy
  <2>6. copy'[s][p].at = r /\ ~copy'[s][p].agent /\ copy'[s][p] # None
    BY <1>4, <2>2, <2>3, <2>5, NoneIsNothing
  <2>7. ASSUME NEW y \in Player
        PROVE  HereInv(y)'
    <3>0. PICK k : k = client[y].server
      OBVIOUS
    <3>1. k \in Server /\ HereInv(y) /\ client'[y].server = k
      BY <2>4, <3>0 DEF ServedInv, TypeInv, TypeClient
    <3>2. CASE y = p
      <4>1. AfterUnpack => AfterPack
        BY PlanFacts
      <4>2. QED
        BY <1>1, <1>2, <1>3, <1>4, <2>6, <3>0, <3>1, <3>2, <4>1 DEF HereInv, IsEntity, Has
    <3>3. CASE y # p
      <4>1. copy'[k][y] = copy[k][y]
        BY <2>3, <3>1, <3>3
      <4>2. QED
        BY <1>1, <1>2, <1>3, <3>0, <3>1, <3>3, <4>1 DEF HereInv, IsEntity, Has
    <3>4. QED
      BY <3>2, <3>3
  <2>8. PackedInv'
    <3> SUFFICES ASSUME block.at = "sent", NEW y \in Player, Has(plan.from, y)',
                        copy'[plan.from][y].at \in plan.zone
                 PROVE  y \in Packed
      BY <1>1, <1>2 DEF PackedInv
    <3>1. plan.from \in Server /\ AfterPack
      BY PlanFacts
    <3>2. ~(plan.from = s /\ y = p)
      BY <1>4, <2>6, <3>1
    <3>3. copy'[plan.from][y] = copy[plan.from][y]
      BY <2>3, <3>1, <3>2
    <3>4. QED
      BY <1>1, <3>3 DEF ServedInv, PackedInv, Has
  <2>9. QED
    BY <2>7, <2>8 DEF ServedInv
<1>7. QED
  BY <1>0, <1>5, <1>6, MoveEffect

LEMMA ServedStep ==
  ASSUME WorldInv, Calm, WorldInv', ServedInv, [Next]_vars
  PROVE  ServedInv'
<1>1. Clean /\ Finishes
  BY DEF Calm, Clean, Finishes
<1>2. TypeInv /\ StageInv /\ StageInv' /\ PlayerInv
  BY <1>1, CleanStays DEF WorldInv
<1>3. CASE UNCHANGED vars
  BY <1>2, <1>3, PlanFacts, ServedStays DEF vars, gsVars, ilmVars, AfterPack, AfterUnpack
<1>4. CASE Next
  BY <1>1, <1>2, <1>4, NoAbort, ServedPlan, ServedMst, ServedPack, ServedUnpack, ServedUnlock,
     ServedOrder, ServedMove, ServedAgent DEF Next
<1>5. QED
  BY <1>3, <1>4

\* Through every plan that is not given up, the server a client talks to decides
\* its player, when players stay with their servers and out of the zone.
THEOREM ClientServed == Spec => []("abort" \notin world => Served)
<1>1. Init => (Calm => ServedInv)
  BY ServedInit
<1>2. ASSUME WorldInv, WorldInv', Calm => ServedInv, [Next]_vars
      PROVE  (Calm => ServedInv)'
  BY <1>2, ServedStep, WorldStays DEF Calm
<1>3. (Calm => ServedInv) => ("abort" \notin world => Served)
  BY DEF Calm, ServedInv, HereInv, Served
<1>4. QED
  BY <1>1, <1>2, <1>3, WorldKept, PTL DEF Spec

-----------------------------------------------------------------------------
(* The lists of the entities                                                *)

\* A number is found from its quotient and remainder, and no other way.
LEMMA Divided ==
  ASSUME NEW c \in Nat, c >= 2, NEW a \in Int, NEW b \in 0 .. c - 1
  PROVE  (c * a + b) \div c = a /\ (c * a + b) % c = b
OBVIOUS

LEMMA Division ==
  ASSUME NEW c \in Nat, c >= 2, NEW x \in Int
  PROVE  /\ x \div c \in Int /\ x % c \in 0 .. c - 1
         /\ x = c * (x \div c) + (x % c)
OBVIOUS

\* A region by its row and its column
Place(r, a, b) == r = Cols * a + b + 1 /\ a \in Int /\ b \in 0 .. Cols - 1

LEMMA Placed ==
  ASSUME NEW r \in Int
  PROVE  /\ Place(r, RowOf(r), ColOf(r))
         /\ \A a, b : Place(r, a, b) => RowOf(r) = a /\ ColOf(r) = b
<1>1. Place(r, RowOf(r), ColOf(r))
  BY GridSize, Division DEF Place, RowOf, ColOf
<1>2. ASSUME NEW a, NEW b, Place(r, a, b)
      PROVE  RowOf(r) = a /\ ColOf(r) = b
  <2>1. a \in Int /\ b \in 0 .. Cols - 1 /\ r - 1 = Cols * a + b
    BY <1>2, GridSize DEF Place
  <2>0. Cols \in Nat /\ Cols >= 2
    BY GridSize
  <2>2. (Cols * a + b) \div Cols = a /\ (Cols * a + b) % Cols = b
    BY <2>0, <2>1
  <2>3. QED
    BY <2>1, <2>2 DEF RowOf, ColOf
<1>3. QED
  BY <1>1, <1>2

\* How far a region is in the order of rows
LEMMA Ranked ==
  ASSUME NEW r \in Int, NEW a, NEW b, Place(r, a, b), NEW k \in Int
  PROVE  r > Cols * k <=> a >= k
<1>1. Cols \in Nat /\ Cols >= 2 /\ a \in Int /\ b \in 0 .. Cols - 1 /\ r = Cols * a + b + 1
  BY GridSize DEF Place
<1>2. Cols * a \in Int /\ Cols * k \in Int
  BY <1>1
<1>3. a >= k => Cols * a >= Cols * k
  <2>1. a >= k => Cols * a = Cols * k + Cols * (a - k) /\ Cols * (a - k) >= 0
    BY <1>1
  <2>2. QED
    BY <1>1, <1>2, <2>1
<1>4. a < k => Cols * a + Cols <= Cols * k
  <2>1. a < k => Cols * k = Cols * (a + 1) + Cols * (k - (a + 1)) /\ Cols * (k - (a + 1)) >= 0
    BY <1>1
  <2>2. Cols * (a + 1) = Cols * a + Cols
    BY <1>1
  <2>3. QED
    BY <1>1, <1>2, <2>1, <2>2
<1>5. QED
  BY <1>1, <1>2, <1>3, <1>4

\* The ends of a row are found by the remainder of a region.
LEMMA RowEnds ==
  ASSUME NEW r \in Int, NEW a, NEW b, Place(r, a, b)
  PROVE  (r % Cols # 1 <=> b # 0) /\ (r % Cols # 0 <=> b # Cols - 1)
<1>1. Cols \in Nat /\ Cols >= 2 /\ a \in Int /\ b \in 0 .. Cols - 1
  BY GridSize DEF Place
<1>2. CASE b = Cols - 1
  <2>1. r = Cols * (a + 1) + 0
    BY <1>1, <1>2 DEF Place
  <2>2. (Cols * (a + 1) + 0) % Cols = 0
    BY <1>1, Divided
  <2>3. QED
    BY <1>1, <1>2, <2>1, <2>2
<1>3. CASE b # Cols - 1
  <2>1. r = Cols * a + (b + 1) /\ b + 1 \in 0 .. Cols - 1
    BY <1>1, <1>3 DEF Place
  <2>2. (Cols * a + (b + 1)) % Cols = b + 1
    BY <1>1, <2>1
  <2>3. QED
    BY <1>1, <1>3, <2>1, <2>2
<1>4. QED
  BY <1>2, <1>3

LEMMA InRow ==
  ASSUME NEW r \in Int, NEW q \in Int
  PROVE  q \in Row(r) <=> RowOf(q) = RowOf(r) /\ Apart(ColOf(q), ColOf(r)) <= 1
<1>1. PICK a, b : a = RowOf(r) /\ b = ColOf(r)
  OBVIOUS
<1>2. PICK x, y : x = RowOf(q) /\ y = ColOf(q)
  OBVIOUS
<1>3. Place(r, a, b) /\ Place(q, x, y)
  BY <1>1, <1>2, Placed
<1>4. /\ Cols \in Nat /\ Cols >= 2 /\ Cols * a \in Int
      /\ a \in Int /\ b \in 0 .. Cols - 1 /\ r = Cols * a + b + 1
      /\ x \in Int /\ y \in 0 .. Cols - 1 /\ q = Cols * x + y + 1
  BY <1>3, GridSize DEF Place
<1>5. Row(r) = {r} \cup (IF b # 0 THEN {r - 1} ELSE {}) \cup (IF b # Cols - 1 THEN {r + 1} ELSE {})
  BY <1>3, RowEnds DEF Row
<1>6. ASSUME q \in Row(r)
      PROVE  x = a /\ Apart(y, b) <= 1
  <2>1. CASE q = r
    <3>1. x = a /\ y = b
      BY <1>1, <1>2, <2>1
    <3>2. QED
      BY <1>4, <3>1 DEF Apart
  <2>2. CASE b # 0 /\ q = r - 1
    <3>1. Place(q, a, b - 1)
      BY <1>4, <2>2 DEF Place
    <3>2. x = a /\ y = b - 1
      BY <1>2, <3>1, Placed
    <3>3. QED
      BY <1>4, <3>2 DEF Apart
  <2>3. CASE b # Cols - 1 /\ q = r + 1
    <3>1. Place(q, a, b + 1)
      BY <1>4, <2>3 DEF Place
    <3>2. x = a /\ y = b + 1
      BY <1>2, <3>1, Placed
    <3>3. QED
      BY <1>4, <3>2 DEF Apart
  <2>4. QED
    BY <1>5, <1>6, <2>1, <2>2, <2>3
<1>7. ASSUME x = a, Apart(y, b) <= 1
      PROVE  q \in Row(r)
  <2>1. q = r + (y - b) /\ (y = b \/ y = b - 1 \/ y = b + 1)
    BY <1>4, <1>7 DEF Apart
  <2>2. QED
    BY <1>4, <1>5, <2>1
<1>8. QED
  BY <1>1, <1>2, <1>6, <1>7

\* GetAroundRegion finds the square around a region, in any grid.
LEMMA AroundIsSquare ==
  ASSUME NEW r \in Region
  PROVE  Square(r) = Around(r) \cup {r}
<1>1. PICK a, b : a = RowOf(r) /\ b = ColOf(r)
  OBVIOUS
<1>2. r \in Int /\ r >= 1 /\ Region \subseteq Int /\ Place(r, a, b)
  BY <1>1, GridSize, Placed DEF Region
<1>3. Cols \in Nat /\ Cols >= 2 /\ Rows \in Nat /\ a \in Int /\ b \in 0 .. Cols - 1
  BY <1>2, GridSize, SeamlessAssumption DEF Place
<1>4. (r > Cols <=> a >= 1) /\ (r <= Cols * (Rows - 1) <=> a < Rows - 1)
  <2>1. (r > Cols * 1 <=> a >= 1) /\ (r > Cols * (Rows - 1) <=> a >= Rows - 1)
    <3>1. \A k \in Int : r > Cols * k <=> a >= k
      BY <1>2, Ranked
    <3>2. 1 \in Int /\ Rows - 1 \in Int
      BY <1>3
    <3>3. QED
      BY <3>1, <3>2
  <2>2. QED
    BY <1>2, <1>3, <2>1, GridSize
<1>5. /\ r - Cols \in Int /\ RowOf(r - Cols) = a - 1 /\ ColOf(r - Cols) = b
      /\ r + Cols \in Int /\ RowOf(r + Cols) = a + 1 /\ ColOf(r + Cols) = b
  <2>1. Place(r - Cols, a - 1, b) /\ Place(r + Cols, a + 1, b)
    BY <1>2, <1>3 DEF Place
  <2>2. QED
    BY <1>2, <1>3, <2>1, Placed
<1>6. ASSUME NEW q \in Region
      PROVE  q \in Around(r) \cup {r} <=> Apart(RowOf(q), a) <= 1 /\ Apart(ColOf(q), b) <= 1
  <2>1. q \in Int /\ RowOf(q) \in Int /\ RowOf(q) >= 0 /\ RowOf(q) <= Rows - 1 /\ ColOf(q) \in Int
    <3>1. q \in Int /\ q >= 1 /\ q <= Rows * Cols /\ Place(q, RowOf(q), ColOf(q))
      BY GridSize, Placed DEF Region
    <3>2. RowOf(q) \in Int /\ ColOf(q) \in Int
      BY <3>1, GridSize DEF Place
    <3>3. (q > Cols * 0 <=> RowOf(q) >= 0) /\ (q > Cols * Rows <=> RowOf(q) >= Rows)
      BY <1>3, <3>1, Ranked
    <3>4. Cols * 0 = 0 /\ Cols * Rows = Rows * Cols /\ Cols * Rows \in Int
      BY <1>3
    <3>5. QED
      BY <1>3, <3>1, <3>2, <3>3, <3>4
  <2>2. /\ q \in Row(r) <=> RowOf(q) = a /\ Apart(ColOf(q), b) <= 1
        /\ q \in Row(r - Cols) <=> RowOf(q) = a - 1 /\ Apart(ColOf(q), b) <= 1
        /\ q \in Row(r + Cols) <=> RowOf(q) = a + 1 /\ Apart(ColOf(q), b) <= 1
    BY <1>1, <1>2, <1>5, <2>1, InRow
  <2>3. r \in Row(r)
    BY DEF Row
  <2>4. q \in Around(r) \cup {r} <=> \/ a >= 1 /\ q \in Row(r - Cols)
                                     \/ a < Rows - 1 /\ q \in Row(r + Cols)
                                     \/ q \in Row(r)
    BY <1>4, <2>3 DEF Around
  <2>5. Apart(RowOf(q), a) <= 1 <=> RowOf(q) = a \/ RowOf(q) = a - 1 \/ RowOf(q) = a + 1
    BY <1>3, <2>1 DEF Apart
  <2>6. QED
    BY <1>3, <2>1, <2>2, <2>4, <2>5
<1>7. Around(r) \subseteq Region
  BY AroundInGrid
<1>8. QED
  BY <1>1, <1>6, <1>7 DEF Square

\* A message behind the others decides, if it is about the player.
LEMMA ArrivesAppend ==
  ASSUME NEW q \in Seq(Message), NEW m \in Message, NEW p, NEW h \in BOOLEAN
  PROVE  Arrives(Append(q, m), p, h) <=> IF m.player = p THEN m.type = "create" ELSE Arrives(q, p, h)
<1> DEFINE n == Len(q)
           a == Append(q, m)
<1>1. /\ n \in Nat /\ DOMAIN q = 1 .. n /\ DOMAIN a = 1 .. n + 1
      /\ \A i \in 1 .. n : a[i] = q[i]
      /\ a[n + 1] = m
  OBVIOUS
<1> HIDE DEF n, a
<1>2. CASE m.player = p
  BY <1>1, <1>2 DEF Arrives
<1>3. CASE m.player # p
  <2>1. (\A i \in DOMAIN a : a[i].player # p) <=> (\A i \in DOMAIN q : q[i].player # p)
    BY <1>1, <1>3
  <2>2. \A i \in DOMAIN q : /\ i \in DOMAIN a /\ a[i] = q[i]
                            /\ (\A j \in DOMAIN a : a[j].player = p => j <= i)
                               <=> (\A j \in DOMAIN q : q[j].player = p => j <= i)
    BY <1>1, <1>3
  <2>3. \A i \in DOMAIN a : a[i].player = p => i \in DOMAIN q
    BY <1>1, <1>3
  <2>4. Arrives(a, p, h) <=> Arrives(q, p, h)
    BY <2>1, <2>2, <2>3 DEF Arrives
  <2>5. QED
    BY <1>3, <2>4 DEF a
<1>4. QED
  BY <1>2, <1>3 DEF a

\* A message that has been read has changed what is there.
LEMMA ArrivesTail ==
  ASSUME NEW q \in Seq(Message), q # <<>>, NEW p, NEW h \in BOOLEAN, NEW k \in BOOLEAN,
         Head(q).player = p => (k <=> Head(q).type = "create"),
         Head(q).player # p => (k <=> h)
  PROVE  Arrives(q, p, h) <=> Arrives(Tail(q), p, k)
<1> DEFINE n == Len(q)
           r == Tail(q)
<1>1. /\ n \in Nat /\ n >= 1 /\ DOMAIN q = 1 .. n /\ DOMAIN r = 1 .. n - 1
      /\ \A i \in 1 .. n - 1 : r[i] = q[i + 1]
      /\ Head(q) = q[1]
  OBVIOUS
<1> HIDE DEF n, r
<1> DEFINE Others == \A i \in DOMAIN r : r[i].player # p
           Later == \E i \in DOMAIN r : /\ r[i].player = p /\ r[i].type = "create"
                                        /\ \A j \in DOMAIN r : r[j].player = p => j <= i
<1>2. \A i \in 2 .. n : /\ i - 1 \in DOMAIN r /\ q[i] = r[i - 1]
                        /\ (\A j \in DOMAIN q : q[j].player = p => j <= i)
                           <=> (\A j \in DOMAIN r : r[j].player = p => j <= i - 1)
  <2> SUFFICES ASSUME NEW i \in 2 .. n
               PROVE  /\ i - 1 \in DOMAIN r /\ q[i] = r[i - 1]
                      /\ (\A j \in DOMAIN q : q[j].player = p => j <= i)
                         <=> (\A j \in DOMAIN r : r[j].player = p => j <= i - 1)
    OBVIOUS
  <2>1. i - 1 \in DOMAIN r /\ q[i] = r[i - 1]
    BY <1>1
  <2>2. ASSUME \A j \in DOMAIN q : q[j].player = p => j <= i
        PROVE  \A j \in DOMAIN r : r[j].player = p => j <= i - 1
    <3> SUFFICES ASSUME NEW j \in DOMAIN r, r[j].player = p PROVE j <= i - 1
      OBVIOUS
    <3>1. j + 1 \in DOMAIN q /\ q[j + 1].player = p
      BY <1>1
    <3>2. QED
      BY <1>1, <2>2, <3>1
  <2>3. ASSUME \A j \in DOMAIN r : r[j].player = p => j <= i - 1
        PROVE  \A j \in DOMAIN q : q[j].player = p => j <= i
    <3> SUFFICES ASSUME NEW j \in DOMAIN q, q[j].player = p, j > 1 PROVE j <= i
      BY <1>1
    <3>1. j - 1 \in DOMAIN r /\ r[j - 1] = q[j]
      BY <1>1
    <3>2. QED
      BY <1>1, <2>3, <3>1
  <2>4. QED
    BY <2>1, <2>2, <2>3
<1>3. \A i \in DOMAIN r : i + 1 \in 2 .. n /\ (i + 1) - 1 = i
  BY <1>1
<1>4. (\E i \in 2 .. n : /\ q[i].player = p /\ q[i].type = "create"
                         /\ \A j \in DOMAIN q : q[j].player = p => j <= i) <=> Later
  BY <1>2, <1>3
<1>5. (\A j \in DOMAIN q : q[j].player = p => j <= 1) <=> Others
  <2>1. ASSUME \A j \in DOMAIN q : q[j].player = p => j <= 1
        PROVE  Others
    BY <1>1, <1>3, <2>1
  <2>2. ASSUME Others, NEW j \in DOMAIN q, q[j].player = p, j > 1
        PROVE  FALSE
    <3>1. j - 1 \in DOMAIN r /\ r[j - 1] = q[j]
      BY <1>1, <2>2
    <3>2. QED
      BY <2>2, <3>1
  <2>3. QED
    BY <1>1, <2>1, <2>2
<1>6. CASE q[1].player = p
  <2>1. Arrives(q, p, h) <=> (q[1].type = "create" /\ Others) \/ Later
    <3>1. 1 \in DOMAIN q /\ DOMAIN q = {1} \cup (2 .. n)
      BY <1>1
    <3>2. Arrives(q, p, h) <=> \E i \in DOMAIN q : /\ q[i].player = p /\ q[i].type = "create"
                                                   /\ \A j \in DOMAIN q : q[j].player = p => j <= i
      BY <1>6, <3>1 DEF Arrives
    <3> HIDE DEF Others, Later
    <3>3. QED
      BY <1>4, <1>5, <1>6, <3>1, <3>2
  <2>2. Arrives(r, p, k) <=> (k /\ Others) \/ Later
    BY DEF Arrives
  <2>3. k <=> q[1].type = "create"
    BY <1>1, <1>6
  <2> HIDE DEF Others, Later
  <2>4. QED
    BY <2>1, <2>2, <2>3 DEF r
<1>7. CASE q[1].player # p
  <2>1. (\A i \in DOMAIN q : q[i].player # p) <=> Others
    <3>1. ASSUME \A i \in DOMAIN q : q[i].player # p
          PROVE  Others
      BY <1>1, <1>3, <3>1
    <3>2. ASSUME Others, NEW i \in DOMAIN q
          PROVE  q[i].player # p
      <4>1. i = 1 \/ (i - 1 \in DOMAIN r /\ r[i - 1] = q[i])
        BY <1>1
      <4>2. QED
        BY <1>7, <3>2, <4>1
    <3>3. QED
      BY <3>1, <3>2
  <2>2. Arrives(q, p, h) <=> (h /\ Others) \/ Later
    <3>1. \A i \in DOMAIN q : q[i].player = p => i \in 2 .. n
      BY <1>1, <1>7
    <3>2. 2 .. n \subseteq DOMAIN q
      BY <1>1
    <3> HIDE DEF Others, Later
    <3>3. QED
      BY <1>4, <2>1, <3>1, <3>2 DEF Arrives
  <2>3. Arrives(r, p, k) <=> (k /\ Others) \/ Later
    BY DEF Arrives
  <2>4. k = h
    BY <1>1, <1>7
  <2> HIDE DEF Others, Later
  <2>5. QED
    BY <2>2, <2>3, <2>4 DEF r
<1>8. QED
  BY <1>6, <1>7

\* No plan runs and nobody goes across: the worlds of ListExact
Settled == world \cap {"plan", "across"} = {}

\* Server e has the entity of player p, whose list is empty or what is around, and
\* a place on it for whoever has or will have a shadow; nobody else sends messages
\* about the player, and it is not about to leave the regions of e.
FollowedBy(e, p) ==
  /\ IsEntity(e, p)
  /\ order[p] # None => owner[order[p].to] = e
  /\ copy[e][p].list \in {{}, Near(e, copy[e][p].at)}
  /\ \A t \in Server \ {e} : t \in copy[e][p].list <=> WillHave(e, t, p)
  /\ \A x, t \in Server : \A m \in ToSet(net[x][t]) : m.player = p => x = e

FollowInv == Settled => \A p \in Player : FollowedBy(client[p].server, p)

LEMMA SettledFacts ==
  ASSUME WorldInv, FollowInv, Settled, NEW p \in Player
  PROVE  /\ TypeInv /\ StageInv /\ PlayerInv /\ plan.stage = "idle"
         /\ \A s \in Server : cmd[s] = <<>> /\ mst[s] = owner
         /\ client[p].server \in Server /\ FollowedBy(client[p].server, p)
         /\ copy[client[p].server][p] \in Copy /\ ~copy[client[p].server][p].agent
         /\ copy[client[p].server][p].at \in Region
         /\ owner[copy[client[p].server][p].at] = client[p].server
         /\ order[p] # None => order[p].server = client[p].server /\ order[p].to \in Region
<1>1. "plan" \notin world
  BY DEF Settled
<1>2. TypeInv /\ StageInv /\ PlayerInv /\ plan.stage = "idle" /\ \A s \in Server : cmd[s] = <<>>
  BY <1>1, NoPlanIdle DEF WorldInv
<1>3. \A s \in Server : mst[s] = owner
  BY <1>2 DEF StageInv, StageAt, MstOf
<1>4. client[p].server \in Server /\ FollowedBy(client[p].server, p)
  BY <1>2 DEF FollowInv, TypeInv, TypeClient
<1>5. copy[client[p].server][p] \in Copy /\ ~copy[client[p].server][p].agent
  BY <1>2, <1>4, CopyType DEF FollowedBy, IsEntity, TypeInv
<1>6. copy[client[p].server][p].at \in Region
  BY <1>5 DEF Copy
<1>7. owner[copy[client[p].server][p].at] = client[p].server
  <2>1. EntityInv(client[p].server, p) /\ ~AfterUnpack
    BY <1>2, <1>4 DEF PlayerInv, AfterUnpack
  <2>2. QED
    BY <1>3, <1>4, <2>1 DEF EntityInv, FollowedBy
<1>8. order[p] # None => order[p].server = client[p].server /\ order[p].to \in Region
  BY <1>2 DEF PlayerInv, OrderInv, TypeInv, TypeClient, Order
<1>9. QED
  BY <1>2, <1>3, <1>4, <1>5, <1>6, <1>7, <1>8

LEMMA FollowInit == Init => FollowInv
<1> SUFFICES ASSUME Init, NEW p \in Player
             PROVE  FollowedBy(client[p].server, p)
  BY DEF FollowInv
<1>1. PICK at \in [Player -> Region] :
        /\ copy = [s \in Server |-> [q \in Player |->
                     IF FirstOwner[at[q]] = s THEN NewCopy(at[q], FALSE) ELSE None]]
        /\ client = [q \in Player |-> [server |-> FirstOwner[at[q]], frozen |-> FALSE]]
  BY DEF Init
<1>2. at[p] \in Region /\ FirstOwner[at[p]] \in Server
  BY SeamlessAssumption
<1>3. PICK e : e = client[p].server
  OBVIOUS
<1>4. e \in Server /\ copy[e][p] = NewCopy(at[p], FALSE) /\ \A t \in Server \ {e} : copy[t][p] = None
  BY <1>1, <1>2, <1>3
<1>5. IsEntity(e, p) /\ copy[e][p].list = {}
  BY <1>2, <1>4, NewCopyType DEF IsEntity, Has
<1>6. /\ order[p] = None /\ net \in [Server -> [Server -> Seq(Message)]]
      /\ \A x, t \in Server : net[x][t] = <<>>
  BY DEF Init
<1>7. \A x, t \in Server : ToSet(net[x][t]) = {} /\ DOMAIN net[x][t] = {}
  BY <1>6 DEF ToSet
<1>8. \A t \in Server \ {e} : ~WillHave(e, t, p)
  BY <1>4, <1>7 DEF WillHave, Arrives, Has
<1>9. QED
  BY <1>3, <1>5, <1>6, <1>7, <1>8 DEF FollowedBy

\* What is followed depends on these only.
LEMMA FollowStays ==
  ASSUME NEW e \in Server, NEW p \in Player, FollowedBy(e, p), UNCHANGED <<copy, net, mst, owner>>,
         order'[p] # None => owner[order'[p].to] = e
  PROVE  FollowedBy(e, p)'
<1>1. \A t \in Server : WillHave(e, t, p)' = WillHave(e, t, p)
  BY DEF WillHave, Arrives, Has
<1>2. Near(e, copy[e][p].at)' = Near(e, copy[e][p].at)
  BY DEF Near
<1>3. IsEntity(e, p)'
  BY DEF FollowedBy, IsEntity, Has
<1>4. QED
  BY <1>1, <1>2, <1>3 DEF FollowedBy

\* A move at server s within its regions: what UpdateAgent makes of the list, and
\* whom it tells
MovedWithin(s, y, r, L) ==
  LET old == copy[s][y].list
  IN /\ L = Near(s, r) \/ (L = old /\ r = copy[s][y].at)
     /\ \A x \in Server, z \in Player :
          copy'[x][z] = IF x = s /\ z = y THEN [at |-> r, agent |-> FALSE, list |-> L]
                        ELSE copy[x][z]
     /\ \A x, t \in Server :
          net'[x][t] = IF x = s /\ t \in old \ L THEN Append(net[x][t], Delete(y))
                       ELSE IF x = s /\ t \in L \ old THEN Append(net[x][t], Create(y, r))
                       ELSE net[x][t]

LEMMA ListChanged ==
  ASSUME NEW r, NEW a, NEW l, NEW n, NEW c, c = [at |-> r, agent |-> a, list |-> l]
  PROVE  [c EXCEPT !.list = n] = [at |-> r, agent |-> a, list |-> n]
OBVIOUS

LEMMA WithinEffect ==
  ASSUME WorldInv, FollowInv, Settled, NEW y \in Player, ClientMessage(y),
         ~UNCHANGED <<copy, net, client>>
  PROVE  /\ UNCHANGED <<client, mst, owner>>
         /\ \E L \in SUBSET Server : MovedWithin(order[y].server, y, order[y].to, L)
<1>0. PICK s, r, k, q : s = order[y].server /\ r = order[y].to /\ k = copy[s][y] /\ q = copy[s][y].at
  OBVIOUS
<1>1. /\ s = client[y].server /\ s \in Server /\ FollowedBy(s, y) /\ TypeInv
      /\ k \in Copy /\ ~k.agent /\ q \in Region /\ owner[q] = s /\ mst[s] = owner
      /\ owner[r] = s /\ r \in Region
  BY <1>0, SettledFacts DEF ClientMessage, FollowedBy
<1>2. StaysHere(s, y, q, r) /\ ~GoesAway(s, y, q, r) /\ ~AgentAfter(s, y, q, r)
      /\ AgentAfter(s, y, q, r) = FALSE
  BY <1>0, <1>1 DEF StaysHere, GoesAway, ComesHere, AgentAfter
<1>3. PICK c : c = [k EXCEPT !.at = r, !.agent = AgentAfter(s, y, q, r)]
  OBVIOUS
<1>4. c = [at |-> r, agent |-> FALSE, list |-> k.list]
  BY <1>1, <1>2, <1>3, CopyChanged
<1>5. /\ \E told \in BOOLEAN :
           UpdateAgent(s, y, c, IF \/ q # r /\ StaysHere(s, y, q, r)
                                   \/ told /\ ~c.agent
                                THEN Near(s, r) ELSE c.list)
      /\ client' = client
  BY <1>0, <1>2, <1>3 DEF ClientMessage
<1>6. PICK L : /\ UpdateAgent(s, y, c, L)
               /\ L = Near(s, r) \/ (L = k.list /\ r = q)
  <2>1. PICK told \in BOOLEAN :
           UpdateAgent(s, y, c, IF \/ q # r /\ StaysHere(s, y, q, r)
                                   \/ told /\ ~c.agent
                                THEN Near(s, r) ELSE c.list)
    BY <1>5
  <2>2. CASE q # r
    <3>1. UpdateAgent(s, y, c, Near(s, r))
      BY <1>2, <2>1, <2>2
    <3>2. QED
      BY <3>1
  <2>3. CASE q = r
    <3>1. UpdateAgent(s, y, c, Near(s, r)) \/ UpdateAgent(s, y, c, c.list)
      BY <2>1
    <3>2. c.list = k.list
      BY <1>4
    <3>3. QED
      BY <2>3, <3>1, <3>2
  <2>4. QED
    BY <2>2, <2>3
<1>7. [c EXCEPT !.list = L] = [at |-> r, agent |-> FALSE, list |-> L] /\ c.list = k.list /\ c.at = r
  <2>1. [c EXCEPT !.list = L] = [at |-> r, agent |-> FALSE, list |-> L]
    <3>1. PICK a : a = FALSE
      OBVIOUS
    <3>2. c = [at |-> r, agent |-> a, list |-> k.list]
      BY <1>4, <3>1
    <3>3. [c EXCEPT !.list = L] = [at |-> r, agent |-> a, list |-> L]
      BY <3>2, ListChanged
    <3>4. QED
      BY <3>1, <3>3
  <2>2. c.list = k.list /\ c.at = r
    BY <1>4
  <2>3. QED
    BY <2>1, <2>2
<1>8. \A x \in Server, z \in Player :
        copy'[x][z] = IF x = s /\ z = y THEN [at |-> r, agent |-> FALSE, list |-> L] ELSE copy[x][z]
  BY <1>1, <1>6, <1>7 DEF UpdateAgent, TypeInv, TypeGs
<1>9. \A x, t \in Server :
        net'[x][t] = IF x = s /\ t \in k.list \ L THEN Append(net[x][t], Delete(y))
                     ELSE IF x = s /\ t \in L \ k.list THEN Append(net[x][t], Create(y, r))
                     ELSE net[x][t]
  BY <1>1, <1>6, <1>7 DEF UpdateAgent, TypeInv, TypeNet
<1>10. MovedWithin(s, y, r, L)
  BY <1>0, <1>6, <1>8, <1>9 DEF MovedWithin
<1>11. L \subseteq Server
  BY <1>0, <1>1, <1>6, NearType DEF TypeInv, Copy
<1>12. QED
  BY <1>0, <1>5, <1>10, <1>11 DEF ClientMessage, ilmVars

LEMMA FollowMove ==
  ASSUME WorldInv, FollowInv, Settled, NEW y \in Player, ClientMessage(y), NEW p \in Player,
         ~UNCHANGED <<copy, net, client>>
  PROVE  FollowedBy(client[p].server, p)'
<1>0. PICK e, s, r : e = client[p].server /\ s = order[y].server /\ r = order[y].to
  OBVIOUS
<1>1. /\ TypeInv /\ e \in Server /\ FollowedBy(e, p) /\ copy[e][p] \in Copy /\ mst[e] = owner
      /\ s = client[y].server /\ s \in Server /\ r \in Region /\ FollowedBy(s, y)
  BY <1>0, SettledFacts DEF ClientMessage
<1>2. UNCHANGED <<client, mst, owner>>
  BY WithinEffect
<1>3. PICK L \in SUBSET Server : MovedWithin(s, y, r, L)
  BY <1>0, WithinEffect
<1> DEFINE old == copy[s][y].list
<1>4. /\ L = Near(s, r) \/ (L = old /\ r = copy[s][y].at)
      /\ \A x \in Server, z \in Player :
           copy'[x][z] = IF x = s /\ z = y THEN [at |-> r, agent |-> FALSE, list |-> L]
                         ELSE copy[x][z]
      /\ \A x, t \in Server :
           net'[x][t] = IF x = s /\ t \in old \ L THEN Append(net[x][t], Delete(y))
                        ELSE IF x = s /\ t \in L \ old THEN Append(net[x][t], Create(y, r))
                        ELSE net[x][t]
  BY <1>3 DEF MovedWithin
<1>5. /\ Delete(y) \in Message /\ Delete(y).player = y /\ Delete(y).type = "delete"
      /\ Create(y, r) \in Message /\ Create(y, r).player = y /\ Create(y, r).type = "create"
      /\ \A x, t \in Server : net[x][t] \in Seq(Message)
  BY <1>1 DEF Message, Delete, Create, TypeInv, TypeNet
<1>6. order'[p] # None => order'[p] = order[p]
  BY <1>1 DEF ClientMessage, TypeInv, TypeClient
<1>7. \A x, t \in Server : \A m \in ToSet(net'[x][t]) : m.player = p => x = e
  <2> SUFFICES ASSUME NEW x \in Server, NEW t \in Server, NEW m \in ToSet(net'[x][t]), m.player = p
               PROVE  x = e
    OBVIOUS
  <2>1. m \in ToSet(net[x][t]) \/ (x = s /\ (m = Delete(y) \/ m = Create(y, r)))
    BY <1>4, <1>5, AppendToSet
  <2>2. QED
    BY <1>0, <1>1, <1>5, <2>1 DEF FollowedBy
<1>8. CASE p = y
  <2>1. e = s
    BY <1>0, <1>1, <1>8
  <2>2. copy'[e][p] = [at |-> r, agent |-> FALSE, list |-> L]
    BY <1>1, <1>4, <1>8, <2>1
  <2>3. IsEntity(e, p)'
    <3>1. [at |-> r, agent |-> FALSE, list |-> L] \in Copy
      BY <1>1 DEF Copy
    <3>2. copy'[e][p] # None
      BY <2>2, <3>1, NoneIsNothing
    <3>3. copy'[e][p].agent = FALSE
      BY <2>2
    <3>4. QED
      BY <3>2, <3>3 DEF IsEntity, Has
  <2>4. copy'[e][p].list \in {{}, Near(e, copy'[e][p].at)}
    BY <1>1, <1>4, <1>8, <2>1, <2>2 DEF FollowedBy
  <2>5. Near(e, copy[e][p].at)' = Near(e, copy'[e][p].at)
    BY <1>2 DEF Near
  <2>6. ASSUME NEW t \in Server \ {e}
        PROVE  t \in L <=> WillHave(e, t, p)'
    <3>1. t \in old <=> Arrives(net[e][t], p, Has(t, p))
      BY <1>1, <1>8, <2>1, <2>6 DEF FollowedBy, WillHave
    <3>2. Has(t, p)' = Has(t, p) /\ Has(t, p) \in BOOLEAN
      BY <1>4, <2>1, <2>6 DEF Has
    <3>3. /\ Arrives(Append(net[e][t], Delete(y)), p, Has(t, p)) = FALSE
          /\ Arrives(Append(net[e][t], Create(y, r)), p, Has(t, p)) = TRUE
      <4>1. PICK h \in BOOLEAN : h = Has(t, p)
        BY <3>2
      <4>2. /\ Arrives(Append(net[e][t], Delete(y)), p, h) <=> FALSE
            /\ Arrives(Append(net[e][t], Create(y, r)), p, h) <=> TRUE
        BY <1>1, <1>5, <1>8, ArrivesAppend
      <4>3. QED
        BY <4>1, <4>2 DEF Arrives
    <3>4. WillHave(e, t, p)' = Arrives(net'[e][t], p, Has(t, p))
      BY <3>2 DEF WillHave, Arrives
    <3>5. CASE t \in old \ L
      <4>1. net'[e][t] = Append(net[e][t], Delete(y))
        BY <1>1, <1>4, <2>1, <3>5
      <4>2. QED
        BY <3>3, <3>4, <3>5, <4>1
    <3>6. CASE t \in L \ old
      <4>1. net'[e][t] = Append(net[e][t], Create(y, r))
        BY <1>1, <1>4, <2>1, <3>6
      <4>2. QED
        BY <3>3, <3>4, <3>6, <4>1
    <3>7. CASE t \in L <=> t \in old
      <4>1. net'[e][t] = net[e][t]
        BY <1>1, <1>4, <2>1, <3>7
      <4>2. QED
        BY <3>1, <3>4, <3>7, <4>1
    <3>8. QED
      BY <3>5, <3>6, <3>7
  <2>7. order'[p] = None
    BY <1>1, <1>8 DEF ClientMessage, TypeInv, TypeClient
  <2>8. FollowedBy(e, p)'
    BY <1>7, <2>2, <2>3, <2>4, <2>5, <2>6, <2>7 DEF FollowedBy
  <2>9. QED
    BY <1>0, <1>2, <2>8
<1>9. CASE p # y
  <2>1. \A x \in Server : copy'[x][p] = copy[x][p]
    BY <1>4, <1>9
  <2>2. IsEntity(e, p)' /\ Near(e, copy[e][p].at)' = Near(e, copy[e][p].at)
    BY <1>1, <1>2, <2>1 DEF FollowedBy, IsEntity, Has, Near
  <2>3. ASSUME NEW t \in Server \ {e}
        PROVE  t \in copy[e][p].list <=> WillHave(e, t, p)'
    <3>1. t \in copy[e][p].list <=> Arrives(net[e][t], p, Has(t, p))
      BY <1>1, <2>3 DEF FollowedBy, WillHave
    <3>2. Has(t, p)' = Has(t, p) /\ Has(t, p) \in BOOLEAN
      BY <2>1, <2>3 DEF Has
    <3>3. WillHave(e, t, p)' = Arrives(net'[e][t], p, Has(t, p))
      BY <3>2 DEF WillHave, Arrives
    <3>4. PICK h \in BOOLEAN : h = Has(t, p)
      BY <3>2
    <3>5. /\ Arrives(Append(net[e][t], Delete(y)), p, h) <=> Arrives(net[e][t], p, h)
          /\ Arrives(Append(net[e][t], Create(y, r)), p, h) <=> Arrives(net[e][t], p, h)
      BY <1>1, <1>5, <1>9, ArrivesAppend
    <3>6. \/ net'[e][t] = net[e][t] \/ net'[e][t] = Append(net[e][t], Delete(y))
          \/ net'[e][t] = Append(net[e][t], Create(y, r))
      BY <1>1, <1>4
    <3>7. Arrives(net'[e][t], p, h) <=> Arrives(net[e][t], p, h)
      BY <3>5, <3>6
    <3>8. QED
      BY <3>1, <3>3, <3>4, <3>7
  <2>4. FollowedBy(e, p)'
    BY <1>1, <1>2, <1>6, <1>7, <2>1, <2>2, <2>3 DEF FollowedBy
  <2>5. QED
    BY <1>0, <1>2, <2>4
<1>10. QED
  BY <1>8, <1>9

LEMMA FollowAgent ==
  ASSUME WorldInv, FollowInv, Settled, NEW s \in Server, NEW t \in Server,
         CreateAgent(s, t) \/ DeleteAgent(s, t), NEW p \in Player
  PROVE  FollowedBy(client[p].server, p)'
<1>0. PICK e : e = client[p].server
  OBVIOUS
<1>1. TypeInv /\ StageInv /\ PlayerInv /\ e \in Server /\ FollowedBy(e, p)
  BY <1>0, SettledFacts
<1>2. PICK y \in Player, c \in Copy \cup {None} : AgentStep(s, t, y, c)
  BY <1>1, AgentEffect
<1>3. /\ net[s][t] # <<>> /\ MessageInv(t, Head(net[s][t])) /\ Head(net[s][t]).player = y
      /\ copy' = [copy EXCEPT ![t][y] = c] /\ net' = [net EXCEPT ![s][t] = Tail(net[s][t])]
      /\ UNCHANGED <<client, order, mst, owner>>
  BY <1>2 DEF AgentStep
<1>4. Has(t, y)' = (Head(net[s][t]).type = "create")
  <2>1. CASE CreateAgent(s, t)
    <3>1. /\ Head(net[s][t]).type = "create"
          /\ copy' = [copy EXCEPT ![t][y] = IF Has(t, y) THEN [@ EXCEPT !.agent = TRUE]
                                            ELSE NewCopy(Head(net[s][t]).at, TRUE)]
      BY <1>3, <2>1 DEF CreateAgent
    <3>2. Head(net[s][t]) \in Message
      BY <1>1, <1>3, HeadTail DEF TypeInv, TypeNet
    <3>3. CASE Has(t, y)
      <4>1. copy[t][y] \in Copy
        BY <1>1, <3>3, CopyType DEF TypeInv
      <4>2. [copy[t][y] EXCEPT !.agent = TRUE] \in Copy
        BY <4>1 DEF Copy
      <4>3. copy'[t][y] = [copy[t][y] EXCEPT !.agent = TRUE]
        BY <1>1, <3>1, <3>3 DEF TypeInv, TypeGs
      <4>4. QED
        BY <3>1, <4>2, <4>3, NoneIsNothing DEF Has
    <3>4. CASE ~Has(t, y)
      <4>1. copy'[t][y] = NewCopy(Head(net[s][t]).at, TRUE)
        BY <1>1, <3>1, <3>4 DEF TypeInv, TypeGs
      <4>2. Head(net[s][t]).at \in Region
        BY <3>1, <3>2 DEF Message
      <4>3. QED
        BY <3>1, <4>1, <4>2, NewCopyType DEF Has
    <3>5. QED
      BY <3>3, <3>4
  <2>2. CASE DeleteAgent(s, t)
    <3>1. Head(net[s][t]).type = "delete" /\ copy' = [copy EXCEPT ![t][y] = None]
      BY <1>3, <2>2 DEF DeleteAgent
    <3>2. copy'[t][y] = None
      BY <1>1, <3>1 DEF TypeInv, TypeGs
    <3>3. QED
      BY <3>1, <3>2 DEF Has
  <2>3. QED
    BY <2>1, <2>2
<1>5. /\ \A x, u \in Server : net[x][u] \in Seq(Message)
      /\ \A x, u \in Server : net'[x][u] = IF x = s /\ u = t THEN Tail(net[s][t]) ELSE net[x][u]
      /\ \A x \in Server, z \in Player : x # t \/ z # y => copy'[x][z] = copy[x][z]
  BY <1>1, <1>3 DEF TypeInv, TypeNet, TypeGs
<1>6. \A x, u \in Server : ToSet(net'[x][u]) \subseteq ToSet(net[x][u])
  BY <1>3, <1>5, TailProperties
<1>7. y = p => e = s /\ t # e
  <2>1. Head(net[s][t]) \in ToSet(net[s][t])
    BY <1>3, <1>5, TailProperties
  <2>2. QED
    BY <1>0, <1>1, <1>3, <2>1 DEF FollowedBy, MessageInv
<1>8. copy'[e][p] = copy[e][p]
  BY <1>1, <1>5, <1>7
<1>9. IsEntity(e, p)' /\ Near(e, copy[e][p].at)' = Near(e, copy[e][p].at)
  BY <1>1, <1>3, <1>8 DEF FollowedBy, IsEntity, Has, Near
<1>10. ASSUME NEW u \in Server \ {e}
       PROVE  u \in copy[e][p].list <=> WillHave(e, u, p)'
  <2>1. u \in copy[e][p].list <=> Arrives(net[e][u], p, Has(u, p))
    BY <1>1, <1>10 DEF FollowedBy, WillHave
  <2>2. PICK h \in BOOLEAN : h = Has(u, p)
    BY DEF Has
  <2>3. PICK k \in BOOLEAN : k = Has(u, p)'
    BY DEF Has
  <2>4. WillHave(e, u, p)' = Arrives(net'[e][u], p, k)
    BY <2>3 DEF WillHave, Arrives
  <2>5. CASE e = s /\ u = t
    <3>1. /\ Head(net[s][t]).player = p => (k <=> Head(net[s][t]).type = "create")
          /\ Head(net[s][t]).player # p => (k <=> h)
      <4>1. CASE y = p
        BY <1>3, <1>4, <2>3, <2>5, <4>1
      <4>2. CASE y # p
        <5>1. copy'[u][p] = copy[u][p]
          BY <1>5, <1>10, <4>2
        <5>2. QED
          BY <1>3, <2>2, <2>3, <4>2, <5>1 DEF Has
      <4>3. QED
        BY <4>1, <4>2
    <3>2. Arrives(net[s][t], p, h) <=> Arrives(Tail(net[s][t]), p, k)
      <4>1. PICK q \in Seq(Message) : q = net[s][t]
        BY <1>5
      <4>2. /\ q # <<>>
            /\ Head(q).player = p => (k <=> Head(q).type = "create")
            /\ Head(q).player # p => (k <=> h)
        BY <1>3, <3>1, <4>1
      <4>3. Arrives(q, p, h) <=> Arrives(Tail(q), p, k)
        BY <4>2, ArrivesTail
      <4>4. QED
        BY <4>1, <4>3
    <3>3. QED
      BY <1>5, <2>1, <2>2, <2>4, <2>5, <3>2
  <2>6. CASE ~(e = s /\ u = t)
    <3>1. net'[e][u] = net[e][u]
      BY <1>1, <1>5, <1>10, <2>6
    <3>2. copy'[u][p] = copy[u][p]
      BY <1>5, <1>7, <1>10, <2>6
    <3>3. k = h
      BY <2>2, <2>3, <3>2 DEF Has
    <3>4. QED
      BY <2>1, <2>2, <2>4, <3>1, <3>3
  <2>7. QED
    BY <2>5, <2>6
<1>11. FollowedBy(e, p)'
  BY <1>1, <1>3, <1>6, <1>8, <1>9, <1>10 DEF FollowedBy
<1>12. QED
  BY <1>0, <1>3, <1>11

LEMMA FollowStep ==
  ASSUME WorldInv, FollowInv, [Next]_vars
  PROVE  FollowInv'
<1> SUFFICES ASSUME Settled, NEW p \in Player
             PROVE  FollowedBy(client[p].server, p)'
  BY WorldStays DEF FollowInv, Settled
<1>1. /\ "plan" \notin world /\ "across" \notin world
      /\ plan.stage = "idle" /\ (\A s \in Server : cmd[s] = <<>>)
      /\ client[p].server \in Server /\ FollowedBy(client[p].server, p)
      /\ order \in [Player -> Order \cup {None}]
  BY SettledFacts DEF Settled, TypeInv, TypeClient
<1>2. ASSUME UNCHANGED <<copy, net, client, mst, owner>>,
             order'[p] # None => owner[order'[p].to] = client[p].server
      PROVE  FollowedBy(client[p].server, p)'
  <2>1. PICK e : e = client[p].server
    OBVIOUS
  <2>2. FollowedBy(e, p)'
    BY <1>1, <1>2, <2>1, FollowStays
  <2>3. QED
    BY <1>2, <2>1, <2>2
<1>3. order[p] # None => owner[order[p].to] = client[p].server
  BY <1>1 DEF FollowedBy
<1>4. ASSUME NEW y \in Player, NEW r \in Region, ClientOrders(y, r)
      PROVE  FollowedBy(client[p].server, p)'
  <2>1. /\ UNCHANGED <<copy, net, client, mst, owner>>
        /\ owner[r] = client[y].server
        /\ order' = [order EXCEPT ![y] = [server |-> client[y].server, to |-> r]]
    BY <1>1, <1>4 DEF ClientOrders, gsVars, ilmVars
  <2>2. order'[p] # None => owner[order'[p].to] = client[p].server
    BY <1>1, <1>3, <2>1
  <2>3. QED
    BY <1>2, <2>1, <2>2
<1>5. ASSUME NEW y \in Player, ClientMessage(y)
      PROVE  FollowedBy(client[p].server, p)'
  <2>1. CASE UNCHANGED <<copy, net, client>>
    <3>1. UNCHANGED <<mst, owner>> /\ order' = [order EXCEPT ![y] = None]
      BY <1>5 DEF ClientMessage, ilmVars
    <3>2. order'[p] # None => order'[p] = order[p]
      BY <1>1, <3>1
    <3>3. QED
      BY <1>2, <1>3, <2>1, <3>1, <3>2
  <2>2. QED
    BY <1>5, <2>1, FollowMove
<1>6. ASSUME NEW s \in Server
      PROVE  ~PackMap(s) /\ ~UnpackMap(s) /\ ~UnlockMap(s) /\ ~UpdateMST(s)
  BY <1>1 DEF PackMap, UnpackMap, UnlockMap, UpdateMST, At
<1>7. ~ChangeMST /\ \A z \in Zones, s, t \in Server : ~StartPlan(z, s, t)
  BY <1>1 DEF ChangeMST, StartPlan, Replied
<1>8. ASSUME UNCHANGED <<copy, net, client, mst, owner, order>>
      PROVE  FollowedBy(client[p].server, p)'
  BY <1>2, <1>3, <1>8
<1>9. QED
  BY <1>4, <1>5, <1>6, <1>7, <1>8, FollowAgent
     DEF Next, vars, gsVars, ilmVars, StartPartition, SendUnlock, FinishPlan, Abort, LockMap,
         PartitionDone

\* While zones stay and nobody crosses to another server, an entity's list names the
\* servers of the square around it, or nobody before it was told, and those have a
\* shadow or will have one, in any grid and with any number of players.
THEOREM ListsAreExact == Spec => []ListExact
<1>1. Spec => []FollowInv
  BY FollowInit, FollowStep, WorldKept, PTL DEF Spec
<1>2. ASSUME WorldInv, FollowInv
      PROVE  ListExact
  <2> SUFFICES ASSUME Settled, NEW s \in Server, NEW p \in Player, IsEntity(s, p)
               PROVE  /\ copy[s][p].list \in {{}, {owner[q] : q \in Square(copy[s][p].at)} \ {s}}
                      /\ \A t \in Server \ {s} : t \in copy[s][p].list <=> WillHave(s, t, p)
    BY DEF ListExact, Settled
  <2>1. /\ PlayerInv /\ plan.stage = "idle" /\ FollowedBy(client[p].server, p)
        /\ mst[s] = owner
    BY <1>2, SettledFacts
  <2>2. s = client[p].server
    BY <2>1 DEF PlayerInv, EntityInv, Twice, AfterUnpack
  <2>3. copy[s][p].at \in Region /\ owner[copy[s][p].at] = s
    BY <1>2, <2>2, SettledFacts
  <2>4. Near(s, copy[s][p].at) = {owner[q] : q \in Square(copy[s][p].at)} \ {s}
    BY <2>1, <2>3, AroundIsSquare DEF Near
  <2>5. QED
    BY <2>1, <2>2, <2>4 DEF FollowedBy
<1>3. QED
  BY <1>1, <1>2, WorldKept, PTL
=============================================================================
