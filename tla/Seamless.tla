------------------------------ MODULE Seamless ------------------------------
(***************************************************************************)
(* The game servers of one world.  Its regions are a grid, every region is  *)
(* run by one server (the MST), and the copies of a player at the servers   *)
(* are an entity, which decides, and agents ("shadows") at the servers of   *)
(* the regions around.  The ILM moves the regions of a zone from one server *)
(* to another in the stages of ServerManager!DoPlan: lock, partition, MST,  *)
(* unlock.                                                                  *)
(*                                                                          *)
(* The main thread of a server takes messages of the ILM and of the other   *)
(* servers from ILMInQueue and messages of clients from ProxyInQueue; every *)
(* message is handled to its end, so a handler is one action.  The order of *)
(* messages of different senders is open, that of one sender is kept.       *)
(*                                                                          *)
(* Outside: the game's OnMessage, which answers a client's order by         *)
(* ObjectMove and may tell the neighbours (SendMsgToNeighbour); a client    *)
(* sends one order at a time, to the server it was told last, and none      *)
(* between LOCK_OBJECT_REQUEST and CHANGE_SERVERID.                         *)
(***************************************************************************)
EXTENDS Integers, FiniteSets, SequencesExt

CONSTANTS
  Server, Player,
  Rows, Cols,    \* m_nRowRegionNum, m_nColRegionNum
  FirstOwner,    \* the MST the servers start with
  Zones,         \* the sets of regions a plan moves: of one region, for the ids of a
                 \* longer list are 32 bits wide in LOCK_MAP and in the partition
                 \* request of the ILM and read as 16 by the server (module Wire)
  Worlds,        \* what a behaviour may contain, see world
  MaxNet,        \* bound: messages between two servers
  MaxPlans,      \* bound: plans
  None

Region == 1..(Rows * Cols)

ASSUME SeamlessAssumption ==
  /\ Rows \in Nat \ {0} /\ Cols \in Nat \ {0, 1}
  /\ FirstOwner \in [Region -> Server] /\ Zones \subseteq {{r} : r \in Region}
  /\ MaxNet \in Nat /\ MaxPlans \in Nat
  /\ Worlds \subseteq SUBSET {"across", "plan", "near", "late", "enter", "abort"}
  /\ None \notin [at : Region, agent : BOOLEAN, list : SUBSET Server]
  /\ None \notin [server : Server, to : Region]

VARIABLES
  copy,     \* the player of a server's UniG_PlayerMgr, or None
  session,  \* m_mapSession of a server: the entry of a player's client
  isDest,   \* SeamlessService::m_nIsThisSrvDest
  locked,   \* m_bLocked of the regions of a server
  mst,      \* MSTInfo of a server
  net,      \* what is under way from a server to another
  owner,    \* the MST of the ILM
  plan,     \* its plan: stage, zone, from, to, and the servers it waits for
  plans,    \* how many it has started
  cmd,      \* its commands at each server, in order
  block,    \* the package of the partition, and how far it is
  client,   \* the server a client talks to, and whether it is locked
  order,    \* its order under way, or None
  world     \* a member of Worlds: plans, orders that cross to another server, that
            \* are under way at a pack, that enter the zone of a plan; destinations
            \* that are near, or not done with what they had; aborted plans

gsVars  == <<copy, session, isDest, locked, mst>>
ilmVars == <<owner, plan, plans, cmd, block>>
vars    == <<gsVars, net, ilmVars, client, order, world>>

-----------------------------------------------------------------------------
(* Messages, and the grid                                                   *)

Create(p, r) == [type |-> "create", player |-> p, at |-> r]
Delete(p)    == [type |-> "delete", player |-> p]
Lock(z)      == [type |-> "lock", zone |-> z]
Part(z, s, t) == [type |-> "part", zone |-> z, from |-> s, to |-> t]
Mst(m)       == [type |-> "mst", mst |-> m]
Unlock(z)    == [type |-> "unlock", zone |-> z]
NoBlock == [at |-> "none", objects |-> {}]
Idle == [stage |-> "idle", zone |-> {}, from |-> None, to |-> None, wait |-> {}]

\* UniG_SubMap::GetAroundRegion: the row above and the row below, each with
\* its two ends cut at the border, then left and right.
Row(i) == {i} \cup (IF i % Cols # 1 THEN {i - 1} ELSE {}) \cup (IF i % Cols # 0 THEN {i + 1} ELSE {})

Around(r) == (IF r > Cols THEN Row(r - Cols) ELSE {})
             \cup (IF r <= Cols * (Rows - 1) THEN Row(r + Cols) ELSE {})
             \cup (Row(r) \ {r})

\* The other servers around a region, as server s sees it
Near(s, r) == {mst[s][q] : q \in Around(r)} \ {s}

NewCopy(r, agent) == [at |-> r, agent |-> agent, list |-> {}]

Has(s, p) == copy[s][p] # None
IsEntity(s, p) == Has(s, p) /\ ~copy[s][p].agent
Inside(s, z) == {p \in Player : Has(s, p) /\ copy[s][p].at \in z}

Init ==
  /\ \E at \in [Player -> Region] :
       /\ copy = [s \in Server |-> [p \in Player |->
                    IF FirstOwner[at[p]] = s THEN NewCopy(at[p], FALSE) ELSE None]]
       /\ session = [s \in Server |-> [p \in Player |->
                       IF FirstOwner[at[p]] = s THEN "open" ELSE "none"]]
       /\ client = [p \in Player |-> [server |-> FirstOwner[at[p]], frozen |-> FALSE]]
  /\ isDest = [s \in Server |-> FALSE] /\ locked = [s \in Server |-> {}]
  /\ mst = [s \in Server |-> FirstOwner] /\ owner = FirstOwner
  /\ net = [s \in Server |-> [t \in Server |-> <<>>]]
  /\ plan = Idle /\ plans = 0 /\ cmd = [s \in Server |-> <<>>] /\ block = NoBlock
  /\ order = [p \in Player |-> None]
  /\ world \in Worlds

-----------------------------------------------------------------------------
(* Players that move                                                        *)

\* A client sends an order: to stay, or to go to a region around.
ClientOrders(p, r) ==
  LET s == client[p].server IN
  /\ order[p] = None /\ ~client[p].frozen /\ Has(s, p)
  /\ r \in Around(copy[s][p].at) \cup {copy[s][p].at}
  /\ "across" \in world \/ owner[r] = s
  /\ "enter" \in world \/ r \notin plan.zone \/ copy[s][p].at \in plan.zone
  /\ order' = [order EXCEPT ![p] = [server |-> s, to |-> r]]
  /\ UNCHANGED <<gsVars, net, ilmVars, client, world>>

\* Mutant: servers that are left stay on the list.
UpdateAgentGrows(s, p, c, new) ==
  /\ copy' = [copy EXCEPT ![s][p] = [c EXCEPT !.list = @ \cup new]]
  /\ net' = [net EXCEPT ![s] = [t \in Server |->
               IF t \in c.list \ new THEN Append(@[t], Delete(p))
               ELSE IF t \in new \ c.list THEN Append(@[t], Create(p, c.at))
               ELSE @[t]]]

\* AgentInfo::UpdateAgent: RemoveAgent and AddAgent for the servers that differ
UpdateAgent(s, p, c, new) ==
  /\ copy' = [copy EXCEPT ![s][p] = [c EXCEPT !.list = new]]
  /\ net' = [net EXCEPT ![s] = [t \in Server |->
               IF t \in c.list \ new THEN Append(@[t], Delete(p))
               ELSE IF t \in new \ c.list THEN Append(@[t], Create(p, c.at))
               ELSE @[t]]]

\* OnRegionChange: which of its three cases a move from q to r is
StaysHere(s, p, q, r) == ~copy[s][p].agent /\ mst[s][q] = s /\ mst[s][r] = s
GoesAway(s, p, q, r)  == ~copy[s][p].agent /\ mst[s][q] = s /\ mst[s][r] # s
\* Mutant: a shadow that comes home stays a shadow.
ComesHereNever(s, p, q, r) == copy[s][p].agent /\ mst[s][q] = s /\ mst[s][r] = s

ComesHere(s, p, q, r) == copy[s][p].agent /\ mst[s][q] # s /\ mst[s][r] = s

\* Whether the copy is an agent after the move
AgentAfter(s, p, q, r) ==
  CASE GoesAway(s, p, q, r)  -> TRUE
    [] ComesHere(s, p, q, r) -> FALSE
    [] OTHER                 -> copy[s][p].agent

\* ProcessClientMsg, then ObjectMove, OnRegionChange and, when the game tells
\* the neighbours, Assitant.  A player that goes away has its client told
\* nThisServer, the server that it leaves.
ClientMessage(p) ==
  /\ order[p] # None
  /\ order' = [order EXCEPT ![p] = None]
  /\ LET s == order[p].server
         r == order[p].to
         q == copy[s][p].at
         c == [copy[s][p] EXCEPT !.at = r, !.agent = AgentAfter(s, p, q, r)]
     IN IF session[s][p] = "none" \/ ~Has(s, p)
        THEN UNCHANGED <<copy, net, client>>
        ELSE /\ \A t \in Server : Len(net[s][t]) < MaxNet
             /\ \E told \in BOOLEAN :
                  UpdateAgent(s, p, c, IF \/ q # r /\ StaysHere(s, p, q, r)
                                          \/ told /\ ~c.agent
                                       THEN Near(s, r) ELSE c.list)
             /\ client' = IF GoesAway(s, p, q, r)
                          THEN [client EXCEPT ![p] = [server |-> s, frozen |-> FALSE]]
                          ELSE client
  /\ UNCHANGED <<session, isDest, locked, mst, ilmVars, world>>

\* SessionMgr::CreateSession finds the entry of a client whether its session
\* is still there or not.
CreateSession(s, ps) == [session EXCEPT ![s] =
  [p \in Player |-> IF p \in ps /\ @[p] = "none" THEN "open" ELSE @[p]]]

\* AGENT_CREATE_REQUEST, and SESSION_CREATE_REQUEST, which comes next and finds
\* the session that DeSerialize has created
CreateAgent(s, t) ==
  /\ net[s][t] # <<>> /\ Head(net[s][t]).type = "create"
  /\ LET m == Head(net[s][t])
     IN /\ copy' = [copy EXCEPT ![t][m.player] =
                      IF Has(t, m.player) THEN [@ EXCEPT !.agent = TRUE]
                      ELSE NewCopy(m.at, TRUE)]
        /\ session' = IF Has(t, m.player) THEN session ELSE CreateSession(t, {m.player})
  /\ net' = [net EXCEPT ![s][t] = Tail(@)]
  /\ UNCHANGED <<isDest, locked, mst, ilmVars, client, order, world>>

\* AGENT_DELETE_REQUEST: DestroySession leaves the entry of the session.
DeleteAgent(s, t) ==
  /\ net[s][t] # <<>> /\ Head(net[s][t]).type = "delete"
  /\ LET p == Head(net[s][t]).player
     IN /\ copy' = [copy EXCEPT ![t][p] = None]
        /\ session' = IF Has(t, p) /\ session[t][p] # "none"
                      THEN [session EXCEPT ![t][p] = "freed"] ELSE session
  /\ net' = [net EXCEPT ![s][t] = Tail(@)]
  /\ UNCHANGED <<isDest, locked, mst, ilmVars, client, order, world>>

-----------------------------------------------------------------------------
(* Zones that move: the ILM                                                 *)

SendAll(c, to) == cmd' = [s \in Server |-> IF s \in to THEN Append(cmd[s], c) ELSE cmd[s]]

\* Outside "near" a plan goes to a server that runs nothing, and that has no
\* player, message or place on a list left of what it may have run before.
Unused(t) ==
  /\ \A r \in Region : owner[r] # t
  /\ \A p \in Player : ~Has(t, p)
  /\ \A s \in Server : /\ net[s][t] = <<>>
                       /\ \A p \in Player : Has(s, p) => t \notin copy[s][p].list

StartPlan(z, s, t) ==
  /\ plan.stage = "idle" /\ plans < MaxPlans /\ plans' = plans + 1
  /\ s # t /\ \A r \in z : owner[r] = s
  /\ "plan" \in world /\ ("near" \in world \/ Unused(t))
  /\ plan' = [stage |-> "lock", zone |-> z, from |-> s, to |-> t, wait |-> Server]
  /\ SendAll(Lock(z), Server)
  /\ UNCHANGED <<gsVars, net, owner, block, client, order, world>>

Replied(stage) == plan.stage = stage /\ plan.wait = {}

StartPartition ==
  /\ Replied("lock")
  /\ plan' = [plan EXCEPT !.stage = "part", !.wait = {plan.from}]
  /\ SendAll(Part(plan.zone, plan.from, plan.to), {plan.from, plan.to})
  /\ UNCHANGED <<gsVars, net, owner, plans, block, client, order, world>>

ChangeMST ==
  /\ Replied("part")
  /\ owner' = [r \in Region |-> IF r \in plan.zone THEN plan.to ELSE owner[r]]
  /\ plan' = [plan EXCEPT !.stage = "mst", !.wait = Server]
  /\ SendAll(Mst(owner'), Server)
  /\ UNCHANGED <<gsVars, net, plans, block, client, order, world>>

SendUnlock ==
  /\ Replied("mst")
  /\ plan' = [plan EXCEPT !.stage = "unlock", !.wait = Server]
  /\ SendAll(Unlock(plan.zone), Server)
  /\ UNCHANGED <<gsVars, net, owner, plans, block, client, order, world>>

FinishPlan ==
  /\ Replied("unlock") /\ plan' = Idle
  /\ UNCHANGED <<gsVars, net, owner, plans, cmd, block, client, order, world>>

\* A stage that takes too long is given up, without a word to the servers.
Abort ==
  /\ "abort" \in world /\ plan.stage \in {"lock", "part"} /\ plan.wait # {}
  /\ plan' = Idle
  /\ UNCHANGED <<gsVars, net, owner, plans, cmd, block, client, order, world>>

-----------------------------------------------------------------------------
(* Zones that move: the servers                                             *)

At(s, type) == cmd[s] # <<>> /\ Head(cmd[s]).type = type
Zone(s) == Head(cmd[s]).zone
Done(s) == cmd' = [cmd EXCEPT ![s] = Tail(@)]
Replies(s) == Done(s) /\ plan' = [plan EXCEPT !.wait = @ \ {s}]

\* LOCK_MAP_REQUEST
LockMap(s) ==
  /\ At(s, "lock") /\ Replies(s)
  /\ locked' = [locked EXCEPT ![s] = @ \cup Zone(s)]
  /\ UNCHANGED <<copy, session, isDest, mst, net, owner, plans, block, client, order, world>>

\* LockObject reaches the clients of entities only (EnqueMsg).
Freeze(s, ps) == [p \in Player |-> IF p \in ps /\ IsEntity(s, p)
                                   THEN [client[p] EXCEPT !.frozen = TRUE] ELSE client[p]]

\* PackObject: what is packed of a player
Package(s, z) == {[player |-> p, at |-> copy[s][p].at] : p \in Inside(s, z)}

\* TransferMigrators up to RecvBlock, and PACK_MAP_REQUEST
PackMap(s) ==
  /\ At(s, "part") /\ Head(cmd[s]).from = s /\ block.at = "none"
  /\ "late" \in world \/ \A p \in Player : order[p] = None
  /\ isDest' = [isDest EXCEPT ![s] = FALSE]
  /\ client' = Freeze(s, Inside(s, Zone(s)))
  /\ block' = [at |-> "sent", objects |-> Package(s, Zone(s))]
  /\ UNCHANGED <<copy, session, locked, mst, net, owner, plan, plans, cmd, order, world>>

\* Mutant: what is unpacked is a shadow.
UnpackedShadow(t, p) ==
  IF Has(t, p) \/ ~\E o \in block.objects : o.player = p THEN copy[t][p]
  ELSE NewCopy((CHOOSE o \in block.objects : o.player = p).at, TRUE)

\* DeSearialize: a player that has a copy already is left as it is.
Unpacked(t, p) ==
  IF Has(t, p) \/ ~\E o \in block.objects : o.player = p THEN copy[t][p]
  ELSE NewCopy((CHOOSE o \in block.objects : o.player = p).at, FALSE)

\* AcceptMigrators and UNPACK_MAP_REQUEST.  The clients of the entities that are
\* now in the regions are told this server (ChangeServer).
UnpackMap(t) ==
  /\ At(t, "part") /\ Head(cmd[t]).to = t /\ block.at = "sent"
  /\ isDest' = [isDest EXCEPT ![t] = TRUE]
  /\ copy' = [copy EXCEPT ![t] = [p \in Player |-> Unpacked(t, p)]]
  /\ session' = CreateSession(t, {o.player : o \in block.objects})
  /\ client' = [p \in Player |->
       IF copy'[t][p] # None /\ copy'[t][p].at \in Zone(t) /\ ~copy'[t][p].agent
       THEN [server |-> t, frozen |-> FALSE] ELSE client[p]]
  /\ block' = [block EXCEPT !.at = "answered"] /\ Done(t)
  /\ UNCHANGED <<locked, mst, net, owner, plan, plans, order, world>>

\* TransferMigrators from RecvBlock on
PartitionDone(s) ==
  /\ At(s, "part") /\ Head(cmd[s]).from = s /\ block.at = "answered"
  /\ block' = NoBlock /\ Replies(s)
  /\ UNCHANGED <<gsVars, net, owner, plans, client, order, world>>

\* Mutant: only the servers of the plan take the new MST.
UpdateMSTParties(s) ==
  /\ At(s, "mst") /\ Replies(s)
  /\ mst' = [mst EXCEPT ![s] = IF s \in {plan.from, plan.to} THEN Head(cmd[s]).mst ELSE @]
  /\ UNCHANGED <<copy, session, isDest, locked, net, owner, plans, block, client, order, world>>

\* UPDATE_MST_REQUEST, handled by the thread of the ILM connection
UpdateMST(s) ==
  /\ At(s, "mst") /\ Replies(s)
  /\ mst' = [mst EXCEPT ![s] = Head(cmd[s]).mst]
  /\ UNCHANGED <<copy, session, isDest, locked, net, owner, plans, block, client, order, world>>

\* Mutant: an entity of the source stays one.
ClearedAgents(s, p) ==
  IF isDest[s] \/ p \notin Inside(s, Zone(s)) \/ IsEntity(s, p) THEN copy[s][p] ELSE None

\* Mutant: the destination clears its entities too.
ClearedBoth(s, p) ==
  IF p \notin Inside(s, Zone(s)) THEN copy[s][p]
  ELSE IF IsEntity(s, p) THEN [copy[s][p] EXCEPT !.agent = TRUE]
  ELSE None

\* ClearAgent: at the source an entity becomes an agent and an agent is removed.
Cleared(s, p) ==
  IF isDest[s] \/ p \notin Inside(s, Zone(s)) THEN copy[s][p]
  ELSE IF IsEntity(s, p) THEN [copy[s][p] EXCEPT !.agent = TRUE]
  ELSE None

\* UNLOCK_MAP_REQUEST
UnlockMap(s) ==
  /\ At(s, "unlock") /\ Replies(s)
  /\ copy' = [copy EXCEPT ![s] = [p \in Player |-> Cleared(s, p)]]
  /\ locked' = [locked EXCEPT ![s] = @ \ Zone(s)]
  /\ UNCHANGED <<session, isDest, mst, net, owner, plans, block, client, order, world>>

-----------------------------------------------------------------------------
Next ==
  \/ \E p \in Player : ClientMessage(p) \/ (\E r \in Region : ClientOrders(p, r))
  \/ \E s, t \in Server : \/ CreateAgent(s, t) \/ DeleteAgent(s, t)
                          \/ \E z \in Zones : StartPlan(z, s, t)
  \/ StartPartition \/ ChangeMST \/ SendUnlock \/ FinishPlan \/ Abort
  \/ \E s \in Server : \/ LockMap(s) \/ PackMap(s) \/ UnpackMap(s) \/ PartitionDone(s)
                       \/ UpdateMST(s) \/ UnlockMap(s)

\* The main threads, the ILM and the connections between them go on; clients
\* need not order, and plans need not start or be given up.
Fairness ==
  /\ WF_vars(StartPartition \/ ChangeMST \/ SendUnlock \/ FinishPlan)
  /\ \A p \in Player : WF_vars(ClientMessage(p))
  /\ \A t \in Server : WF_vars(\E s \in Server : CreateAgent(s, t) \/ DeleteAgent(s, t))
  /\ \A s \in Server : WF_vars(LockMap(s) \/ PackMap(s) \/ UnpackMap(s) \/ PartitionDone(s)
                                \/ UpdateMST(s) \/ UnlockMap(s))

Spec == Init /\ [][Next]_vars /\ Fairness
=============================================================================
