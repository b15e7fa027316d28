--------------------------- MODULE ServerManager ---------------------------
(***************************************************************************)
(* The ILM server: its registry of game servers, the directory that says   *)
(* which server runs which zone, and the plan that moves one zone from a   *)
(* game server to another (lock, partition, change the MST, unlock).       *)
(*                                                                         *)
(* The ILM is one thread: a loop (ILMServer.cpp) whose connection          *)
(* callbacks run only inside Epoll.wait.  `pc` is the place of the loop;   *)
(* the places of Window are the waits, where callbacks are enabled.        *)
(* Everything between two waits is one step.                               *)
(*                                                                         *)
(* A Listener is one connection of a game server, used once: a server that *)
(* comes back is a new listener.  Server ids are given by the ILM and may  *)
(* repeat.                                                                 *)
(***************************************************************************)
EXTENDS Naturals, SequencesExt

CONSTANTS
  Listener,    \* connections of game servers
  NoListener,  \* the NULL pointer
  Zone,        \* zone ids; 0 is "no zone"
  Island,      \* the zones config.cfg declares to be islands
  InitGroups,  \* the zone groups of config.cfg, in the order they are given out
  IdReset,     \* the id at which the id cursor restarts, 2 in the code
  RetryLimit,  \* timeouts before a stage gives up, 21 in the code
  CountMod,    \* range of plan.count, 256 in the code (uint8_t)
  MaxBacklog   \* bound: commands and replies in flight to one server

ASSUME ConstantsAssumption ==
  /\ NoListener \notin Listener
  /\ Zone \subseteq Nat \ {0}
  /\ Island \subseteq Zone
  /\ InitGroups \in Seq(SUBSET Zone)
  /\ \A z \in Zone : \E i \in DOMAIN InitGroups : z \in InitGroups[i]
  /\ \A i, j \in DOMAIN InitGroups : InitGroups[i] \cap InitGroups[j] # {} => i = j
  /\ {IdReset, RetryLimit, CountMod, MaxBacklog} \subseteq Nat \ {0}

VARIABLES
  prep, regular,   \* _prepGameServers, _regularGameServers
  idleServers,     \* m_lstIdleServer: never shrinks
  connSucc,        \* listeners whose m_bConnSucc is set
  srvId,           \* m_srvInfo._id of each listener
  gsrvIdCursor,    \* _gsrvIdCursor
  lstZone,         \* m_lstZone of each listener
  zoneServer,      \* m_nServerID of each zone, 0 when nobody runs it
  zoneGroups,      \* m_vZoneGroup: groups of zones waiting for a server
  hasInit,         \* zones whose m_bHasInit is set: SetServerID has been called
  pm,              \* _pProxyMgrServerListener # NULL
  iFlag, plan, needReplay, \* m_iFlag, m_plan, m_needReplay
  pc, waiting,     \* place in the main loop; the case of doPlan that waits
  loaded,          \* listeners whose m_iplayerNum may be above 0: they have had a zone
  link,            \* state of each connection
  inbox, outbox,   \* commands not yet handled by, replies not yet read from a server
  host             \* the listener whose server last unpacked the zone's objects

srvVars  == <<prep, regular, idleServers, connSucc, srvId, gsrvIdCursor, loaded>>
dirVars  == <<lstZone, zoneServer, zoneGroups, hasInit>>
planVars == <<iFlag, plan, needReplay>>
ctlVars  == <<pc, waiting>>
netVars  == <<link, inbox, outbox, host>>
vars     == <<srvVars, dirVars, planVars, ctlVars, netVars, pm>>

Window   == {"wait", "query", "acceptWait", "mstWait", "planWait"}
Place    == Window \cup {"accept", "plan", "crashed"}
\* "new": not connected yet; "down": lost, not noticed by the ILM;
\* "gone": the ILM has noticed and taken it out of epoll
LinkState == {"new", "up", "down", "gone"}
Id       == 0 .. IdReset
NoPlan   == [from |-> 0, to |-> 0, zone |-> 0, count |-> 0]
Lock     == [type |-> "lock"]
Unlock   == [type |-> "unlock"]
Mst      == [type |-> "mst"]
Part(f, t, z) == [type |-> "part", from |-> f, to |-> t, zone |-> z]
Command  == {Lock, Unlock, Mst} \cup {Part(f, t, z) : f, t \in Id, z \in Zone}
Reply    == {"lock", "unlock", "mst", "part"}
Stage    == {0, 1, 2, 3, 4, 5, 7, 8, 9, 99}

TypeOK ==
  /\ {prep, regular, idleServers} \subseteq Seq(Listener)
  /\ connSucc \subseteq Listener
  /\ srvId \in [Listener -> Id]
  /\ gsrvIdCursor \in 0 .. IdReset - 1
  /\ lstZone \in [Listener -> SUBSET Zone]
  /\ zoneServer \in [Zone -> Id]
  /\ zoneGroups \in Seq(SUBSET Zone)
  /\ hasInit \subseteq Zone
  /\ pm \in BOOLEAN
  /\ iFlag \in Stage
  /\ plan \in [from : Id, to : Id, zone : Zone \cup {0}, count : 0 .. CountMod - 1]
  /\ needReplay \subseteq Id
  /\ pc \in Place
  /\ waiting \in {0, 1, 2, 3, 4, 5, 7, 8}
  /\ loaded \subseteq Listener
  /\ link \in [Listener -> LinkState]
  /\ inbox \in [Listener -> Seq(Command)]
  /\ outbox \in [Listener -> Seq(Reply)]
  /\ host \in [Zone -> Listener \cup {NoListener}]

Init ==
  /\ prep = <<>> /\ regular = <<>> /\ idleServers = <<>>
  /\ connSucc = {}
  /\ srvId = [l \in Listener |-> 0]
  /\ gsrvIdCursor = 0
  /\ lstZone = [l \in Listener |-> {}]
  /\ zoneServer = [z \in Zone |-> 0]
  /\ zoneGroups = InitGroups
  /\ hasInit = {}
  /\ pm = FALSE
  /\ iFlag = 0 /\ plan = NoPlan /\ needReplay = {}
  /\ pc = "wait" /\ waiting = 0
  /\ loaded = {}
  /\ link = [l \in Listener |-> "new"]
  /\ inbox = [l \in Listener |-> <<>>]
  /\ outbox = [l \in Listener |-> <<>>]
  /\ host = [z \in Zone |-> NoListener]
-----------------------------------------------------------------------------
(* Helpers *)

\* Mutant: the search starts at the second element.
FindGameServerByIdFrom1(id) ==
  LET i == SelectInSeq(regular, LAMBDA l : srvId[l] = id)
  IN  IF i <= 1 THEN NoListener ELSE regular[i]

\* The first regular listener with that id, as findGameServerById returns it.
FindGameServerById(id) ==
  LET i == SelectInSeq(regular, LAMBDA l : srvId[l] = id)
  IN  IF i = 0 THEN NoListener ELSE regular[i]

RegularIds == {srvId[l] : l \in ToSet(regular)}
Backlog(l) == Len(inbox[l]) + Len(outbox[l])

\* A listener that removeGameServer left in the vector because no proxy
\* manager was connected: it is out of epoll, so the next send to it throws
\* an EpollException nobody catches.
Zombie == \E l \in ToSet(regular) : link[l] = "gone"

\* The command m reaches every live server of S.
Sent(S, m) ==
  [l \in Listener |-> IF l \in S /\ link[l] = "up" THEN Append(inbox[l], m)
                                                   ELSE inbox[l]]

\* Mutant: the partition stage is skipped.
NextStageSkipsPartition == [s \in {1, 2, 3, 4, 5, 7, 8} |->
                CASE s \in {1, 2, 3, 4} -> 5 [] s = 5 -> 7 [] s \in {7, 8} -> 9]

\* The stage that follows when the wait of a stage sees every reply.
NextStage == [s \in {1, 2, 3, 4, 5, 7, 8} |->
                CASE s \in {1, 2} -> 3 [] s \in {3, 4} -> 5
                  [] s = 5 -> 7        [] s \in {7, 8} -> 9]

\* Entry of waitGameServerReply for the case s with m_iFlag = f: with no
\* regular server it returns true at once and the case sets the next stage.
WaitGameServerReply(s, f) ==
  IF regular = <<>>
    THEN iFlag' = NextStage[s] /\ pc' = "wait" /\ waiting' = 0
    ELSE iFlag' = f /\ pc' = "planWait" /\ waiting' = s
-----------------------------------------------------------------------------
(* Callbacks of the ILM: run inside a wait *)

\* GameServerAcceptor: a game server connects.
Connect(l) ==
  /\ pc \in Window /\ link[l] = "new"
  /\ link' = [link EXCEPT ![l] = "up"]
  /\ prep' = Append(prep, l)
  /\ UNCHANGED <<regular, idleServers, connSucc, srvId, gsrvIdCursor, loaded, dirVars,
                 planVars, ctlVars, inbox, outbox, host, pm>>

\* SERVER_CONNECT_ILM_REQUEST: the game server says who it is.
Announce(l) ==
  /\ pc \in Window /\ link[l] = "up" /\ l \in ToSet(prep) \ connSucc
  /\ connSucc' = connSucc \cup {l}
  /\ UNCHANGED <<prep, regular, idleServers, srvId, gsrvIdCursor, loaded, dirVars,
                 planVars, ctlVars, netVars, pm>>

\* A reply is read: whatever command it answers, it takes every occurrence
\* of the server's id out of m_needReplay.
OnReply(l) ==
  /\ pc \in Window /\ link[l] \in {"up", "down"} /\ outbox[l] # <<>>
  /\ outbox' = [outbox EXCEPT ![l] = Tail(@)]
  /\ needReplay' = needReplay \ {srvId[l]}
  /\ UNCHANGED <<srvVars, dirVars, iFlag, plan, ctlVars, link, inbox, host, pm>>

\* Mutants: the zones keep their server; they are not put back.
RecoveryManagedZoneRecorded(l) ==
  /\ UNCHANGED <<zoneServer, hasInit>>
  /\ zoneGroups' = Append(zoneGroups, lstZone[l])

RecoveryManagedZoneDropped(l) ==
  /\ zoneServer' = [z \in Zone |-> IF z \in lstZone[l] THEN 0 ELSE zoneServer[z]]
  /\ UNCHANGED <<zoneGroups, hasInit>>

\* The zones of a lost server go back to the end of the pool as one group.
RecoveryManagedZone(l) ==
  /\ zoneServer' = [z \in Zone |-> IF z \in lstZone[l] THEN 0 ELSE zoneServer[z]]
  /\ hasInit' = hasInit \cup lstZone[l]
  /\ zoneGroups' = Append(zoneGroups, lstZone[l])

\* The plan is aborted; the listener is erased and deleted only when a proxy
\* manager is there to be told.
RemoveGameServer(l) ==
  /\ iFlag' = 9
  /\ RecoveryManagedZone(l)
  /\ link' = [link EXCEPT ![l] = "gone"]
  /\ inbox' = [inbox EXCEPT ![l] = <<>>]
  /\ outbox' = [outbox EXCEPT ![l] = <<>>]
  /\ IF pm
       THEN /\ prep' = RemoveFirst(prep, l)
            /\ regular' = RemoveFirst(regular, l)
            /\ connSucc' = connSucc \ {l}
            /\ lstZone' = [lstZone EXCEPT ![l] = {}]
       ELSE UNCHANGED <<prep, regular, connSucc, lstZone>>

\* GameServerAction::execute meets an exception: the connection is lost.
ServerLost(l) ==
  /\ pc \in Window /\ link[l] = "down"
  /\ RemoveGameServer(l)
  /\ UNCHANGED <<idleServers, srvId, gsrvIdCursor, loaded, plan, needReplay, ctlVars,
                 host, pm>>

AddProxyMgrServer ==
  /\ pc \in Window /\ ~pm
  /\ pm' = TRUE
  /\ UNCHANGED <<srvVars, dirVars, planVars, ctlVars, netVars>>

OnProxyMgrServerException ==
  /\ pc \in Window /\ pm
  /\ pm' = FALSE
  /\ UNCHANGED <<srvVars, dirVars, planVars, ctlVars, netVars>>

\* Mutant: the plan in progress is not looked at.
AdoptUnguarded(f, t, z) ==
  /\ \A l \in ToSet(regular) : Backlog(l) < MaxBacklog
  /\ plan' = [from |-> f, to |-> t, zone |-> z, count |-> 0]
  /\ iFlag' = 1

\* A plan is adopted by the console or by the load balancer.
Adopt(f, t, z) ==
  /\ iFlag = 0 /\ plan.zone = 0
  /\ \A l \in ToSet(regular) : Backlog(l) < MaxBacklog
  /\ plan' = [from |-> f, to |-> t, zone |-> z, count |-> 0]
  /\ iFlag' = 1

\* The operator asks for a plan: both servers must exist and the zone must
\* be recorded as the first one's.
GetPlanFromConsole(f, t, z) ==
  /\ pc \in Window
  /\ {f, t} \subseteq RegularIds
  /\ zoneServer[z] = f
  /\ Adopt(f, t, z)
  /\ UNCHANGED <<srvVars, dirVars, needReplay, ctlVars, netVars, pm>>
-----------------------------------------------------------------------------
(* The main loop: wait, acceptGameServers, the timed query, a plan, doPlan *)

EndLoopWait ==
  /\ pc = "wait" /\ pc' = "accept"
  /\ UNCHANGED <<srvVars, dirVars, planVars, waiting, netVars, pm>>

\* acceptGameServers returns: nothing to do, or the front of the queue has
\* not announced itself and goes to the end.
AcceptNothing ==
  /\ pc = "accept"
  /\ \/ (~pm \/ prep = <<>>) /\ UNCHANGED prep
     \/ /\ pm /\ prep # <<>> /\ Head(prep) \notin connSucc
        /\ prep' = Append(Tail(prep), Head(prep))
  /\ pc' = "query"
  /\ UNCHANGED <<regular, idleServers, connSucc, srvId, gsrvIdCursor, loaded, dirVars,
                 planVars, waiting, netVars, pm>>

\* Mutants: the cursor is never reset; the id is read before it moves.
AllocateSrvIdUnbounded(l) ==
  /\ srvId' = [srvId EXCEPT ![l] = gsrvIdCursor + 1]
  /\ gsrvIdCursor' = gsrvIdCursor + 1

AllocateSrvIdLate(l) ==
  /\ srvId' = [srvId EXCEPT ![l] = gsrvIdCursor]
  /\ gsrvIdCursor' = IF gsrvIdCursor + 1 = IdReset THEN 0 ELSE gsrvIdCursor + 1

\* The id under the cursor, which restarts after IdReset.
AllocateSrvId(l) ==
  LET id == gsrvIdCursor + 1
  IN  /\ srvId' = [srvId EXCEPT ![l] = id]
      /\ gsrvIdCursor' = IF id = IdReset THEN 0 ELSE id

\* The front is a listener already out of epoll: join fails.
AcceptRefused ==
  /\ pc = "accept" /\ pm /\ prep # <<>>
  /\ LET l == Head(prep)
     IN  l \in connSucc /\ link[l] = "gone" /\ AllocateSrvId(l) /\ RemoveGameServer(l)
  /\ UNCHANGED <<idleServers, loaded, plan, needReplay, ctlVars, host, pm>>

\* The new server takes the first group of the pool, even an empty one, or
\* becomes an idle server.
AddGameServerToMST(l) ==
  IF zoneGroups = <<>>
    THEN idleServers' = Append(idleServers, l) /\ UNCHANGED <<dirVars, loaded>>
    ELSE /\ lstZone' = [lstZone EXCEPT ![l] = @ \cup Head(zoneGroups)]
         /\ zoneServer' = [z \in Zone |-> IF z \in Head(zoneGroups) THEN srvId'[l]
                                                                    ELSE zoneServer[z]]
         /\ hasInit' = hasInit \cup Head(zoneGroups)
         /\ zoneGroups' = Tail(zoneGroups)
         /\ loaded' = IF Head(zoneGroups) = {} THEN loaded ELSE loaded \cup {l}
         /\ UNCHANGED idleServers

\* The front joins: id, registry, zones, and an MST update for everybody.
AcceptGameServer ==
  /\ pc = "accept" /\ pm /\ prep # <<>> /\ ~Zombie
  /\ LET l == Head(prep)
     IN  /\ l \in connSucc /\ link[l] # "gone"
         /\ AllocateSrvId(l)
         /\ prep' = Tail(prep)
         /\ regular' = Append(regular, l)
         /\ AddGameServerToMST(l)
         /\ needReplay' = needReplay \cup {srvId'[k] : k \in ToSet(regular')}
         /\ inbox' = Sent(ToSet(regular'), Mst)
  /\ pc' = "acceptWait"
  /\ UNCHANGED <<connSucc, iFlag, plan, waiting, link, outbox, host, pm>>

EndAcceptWait ==
  /\ pc = "acceptWait" /\ pc' = "accept"
  /\ UNCHANGED <<srvVars, dirVars, planVars, waiting, netVars, pm>>

\* makePlanWhileRequired finds nothing to do.
EndQuery ==
  /\ pc = "query" /\ pc' = "plan"
  /\ UNCHANGED <<srvVars, dirVars, planVars, waiting, netVars, pm>>

\* Islands first; the pointer to the lightest zone is uninitialised when the
\* server has no zone, and may then be any zone of an earlier call.
CandidateZones(l) ==
  LET islands == lstZone[l] \cap Island
  IN  IF islands # {} THEN islands ELSE IF lstZone[l] # {} THEN lstZone[l] ELSE Zone

\* The front of the idle list (its id is garbage once it has been deleted),
\* or a server with less load, which is another one.
CandidateTargets(l) ==
  IF idleServers # <<>>
    THEN IF Head(idleServers) \in ToSet(prep) \cup ToSet(regular)
           THEN {srvId[Head(idleServers)]} ELSE Id
    ELSE {srvId[k] : k \in ToSet(regular) \ {l}}

\* makePlanWhileRequired: the urgent server gives a zone away.  Loads are
\* abstracted: any server that has had players may be the urgent one.
MakePlan(u, t, z) ==
  /\ pc = "query" /\ pc' = "plan"
  /\ Len(regular) > 1 /\ u \in ToSet(regular) \cap loaded
  /\ LET l == FindGameServerById(srvId[u])
     IN  l # NoListener /\ z \in CandidateZones(l) /\ t \in CandidateTargets(l)
  /\ Adopt(srvId[u], t, z)
  /\ UNCHANGED <<srvVars, dirVars, needReplay, waiting, netVars, pm>>
-----------------------------------------------------------------------------
(* doPlan: one action per case *)

From == FindGameServerById(plan.from)
To   == FindGameServerById(plan.to)

DoNothing ==
  /\ pc = "plan" /\ iFlag = 0 /\ pc' = "wait"
  /\ UNCHANGED <<srvVars, dirVars, planVars, waiting, netVars, pm>>

\* Mutant: only the losing server's reply is awaited.
SendToAllAwaitsSource(m) ==
  /\ needReplay' = {plan.from}
  /\ inbox' = Sent(ToSet(regular), m)

\* sendLockToServer and sendUnLockToServer: every regular server is asked.
SendToAll(m) ==
  /\ needReplay' = RegularIds
  /\ inbox' = Sent(ToSet(regular), m)

SendLock ==
  /\ pc = "plan" /\ iFlag = 1 /\ ~Zombie
  /\ SendToAll(Lock)
  /\ WaitGameServerReply(1, 2)
  /\ UNCHANGED <<srvVars, dirVars, plan, link, outbox, host, pm>>

\* Mutant: a limit that the counter never exceeds.
GiveUpBeyond == plan.count > RetryLimit

\* The retry limit of cases 2, 4 and 8; a plan whose counter is 0 has had it.
GiveUp == plan.count % RetryLimit = 0

WaitLockReply ==
  /\ pc = "plan" /\ iFlag = 2
  /\ WaitGameServerReply(2, IF GiveUp THEN 9 ELSE 2)
  /\ UNCHANGED <<srvVars, dirVars, plan, needReplay, netVars, pm>>

\* startPartition: only the reply of the losing server is awaited; when a
\* server is missing the stage is set to 99.
StartPartition ==
  /\ pc = "plan" /\ iFlag = 3
  /\ LET sent == plan.from # 0 /\ plan.to # 0 /\ From # NoListener /\ To # NoListener
         m    == Part(plan.from, plan.to, plan.zone)
     IN  IF sent
           THEN /\ link[From] # "gone" /\ link[To] # "gone"
                /\ needReplay' = {plan.from}
                /\ inbox' = [Sent({From}, m) EXCEPT
                      ![To] = IF link[To] = "up" THEN Append(@, m) ELSE @]
                /\ WaitGameServerReply(3, 4)
           ELSE /\ needReplay' = {}
                /\ WaitGameServerReply(3, IF plan.from # 0 /\ plan.to # 0 THEN 99 ELSE 3)
                /\ UNCHANGED inbox
  /\ UNCHANGED <<srvVars, dirVars, plan, link, outbox, host, pm>>

WaitPartitionReply ==
  /\ pc = "plan" /\ iFlag = 4
  /\ plan' = IF GiveUp THEN [plan EXCEPT !.count = 0] ELSE plan
  /\ WaitGameServerReply(4, IF GiveUp THEN 9 ELSE 4)
  /\ UNCHANGED <<srvVars, dirVars, needReplay, netVars, pm>>

\* Mutants: the zone is not taken from b; a and b are exchanged.
HandZoneKeepsSource(z, a, b, recorded) ==
  /\ lstZone' = [lstZone EXCEPT ![a] = @ \cup {z}]
  /\ zoneServer' = [zoneServer EXCEPT ![z] = IF z \in lstZone[a] THEN recorded
                                                                ELSE srvId[a]]
  /\ hasInit' = hasInit \cup {z}
  /\ UNCHANGED zoneGroups

HandZoneBack(z, a, b, recorded) ==
  /\ lstZone' = [[lstZone EXCEPT ![b] = @ \cup {z}] EXCEPT ![a] = @ \ {z}]
  /\ zoneServer' = [zoneServer EXCEPT ![z] = srvId[b]]
  /\ hasInit' = hasInit \cup {z}
  /\ UNCHANGED zoneGroups

\* addZone: a zone already in the list keeps its recorded server; then the
\* zone leaves the list of b (which may be a itself).
HandZone(z, a, b, recorded) ==
  /\ lstZone' = [[lstZone EXCEPT ![a] = @ \cup {z}] EXCEPT ![b] = @ \ {z}]
  /\ zoneServer' = [zoneServer EXCEPT ![z] = IF z \in lstZone[a] THEN recorded
                                                                ELSE srvId[a]]
  /\ hasInit' = hasInit \cup {z}
  /\ UNCHANGED zoneGroups

\* changeMST and the MST update that tells everybody.
ChangeMST ==
  /\ pc = "plan" /\ iFlag = 5 /\ ~Zombie
  /\ NoListener \notin {From, To}
  /\ HandZone(plan.zone, To, From, plan.to)
  /\ loaded' = loaded \cup {To}
  /\ SendToAll(Mst)
  /\ pc' = "mstWait" /\ waiting' = 5
  /\ UNCHANGED <<prep, regular, idleServers, connSucc, srvId, gsrvIdCursor, iFlag,
                 plan, link, outbox, host, pm>>

EndMstWait ==
  /\ pc = "mstWait"
  /\ WaitGameServerReply(5, iFlag)
  /\ UNCHANGED <<srvVars, dirVars, plan, needReplay, netVars, pm>>

SendUnlock ==
  /\ pc = "plan" /\ iFlag = 7 /\ ~Zombie
  /\ SendToAll(Unlock)
  /\ WaitGameServerReply(7, 8)
  /\ UNCHANGED <<srvVars, dirVars, plan, link, outbox, host, pm>>

WaitUnlockReply ==
  /\ pc = "plan" /\ iFlag = 8
  /\ WaitGameServerReply(8, IF GiveUp THEN 99 ELSE 8)
  /\ UNCHANGED <<srvVars, dirVars, plan, needReplay, netVars, pm>>

FinishPlan ==
  /\ pc = "plan" /\ iFlag = 9
  /\ plan' = NoPlan /\ iFlag' = 0 /\ needReplay' = {} /\ pc' = "wait"
  /\ UNCHANGED <<srvVars, dirVars, waiting, netVars, pm>>

\* recoverMST and updateMST2, whose replies nobody waits for.
RecoverMST ==
  /\ pc = "plan" /\ iFlag = 99 /\ ~Zombie
  /\ NoListener \notin {From, To}
  /\ HandZone(plan.zone, From, To, plan.to)
  /\ inbox' = Sent(ToSet(regular), Mst)
  /\ needReplay' = {} /\ iFlag' = 9 /\ pc' = "wait"
  /\ UNCHANGED <<srvVars, plan, waiting, link, outbox, host, pm>>

\* waitGameServerReply sees every reply: the case sets the next stage, over
\* whatever a callback stored in m_iFlag during the wait.
AllReplied ==
  /\ pc = "planWait" /\ needReplay = {}
  /\ iFlag' = NextStage[waiting]
  /\ plan' = [plan EXCEPT !.count = 0]
  /\ pc' = "wait" /\ waiting' = 0
  /\ UNCHANGED <<srvVars, dirVars, needReplay, netVars, pm>>

\* It gives up for this round.  MaxBacklog bounds the MST updates that case
\* 5, which has no retry limit, sends to a server that does not answer.
TimedOut ==
  /\ pc = "planWait" /\ needReplay # {}
  /\ waiting = 5 => \A l \in ToSet(regular) : Backlog(l) < MaxBacklog
  /\ plan' = [plan EXCEPT !.count = (@ + 1) % CountMod]
  /\ pc' = "wait" /\ waiting' = 0
  /\ UNCHANGED <<srvVars, dirVars, iFlag, needReplay, netVars, pm>>

\* LoadNeighbourState of a zone that has had a server: its server is looked
\* up without a check, IsBridge takes the last of the server's other map
\* units when there is none, and the servers of the neighbouring zones are
\* looked up without a check.  Which zones are neighbours is left open.
LoadNeighbourStateFails(z) ==
  \/ /\ z \notin Island
     /\ LET l == FindGameServerById(zoneServer[z])
        IN  l = NoListener \/ lstZone[l] \ Island \subseteq {z}
  \/ \E y \in Zone : zoneServer[y] # zoneServer[z] /\ zoneServer[y] \notin RegularIds

\* MakePlan: the zone is read through an uninitialised pointer, or no server
\* can take it and UpdateZoneInfo looks at every zone.
MakePlanFails ==
  /\ pc = "query" /\ iFlag = 0 /\ Len(regular) > 1
  /\ \/ \E l \in ToSet(regular) \cap loaded : lstZone[l] = {}
     \/ /\ idleServers = <<>> /\ ToSet(regular) \cap loaded # {}
        /\ \E z \in hasInit : LoadNeighbourStateFails(z)

\* The next send to a zombie.
SendsToZombie ==
  \/ pc = "query" /\ Zombie
  \/ /\ pc = "accept" /\ pm /\ prep # <<>> /\ Zombie
     /\ Head(prep) \in connSucc /\ link[Head(prep)] # "gone"
  \/ pc = "plan" /\ iFlag \in {1, 5, 7, 99} /\ Zombie
  \/ /\ pc = "plan" /\ iFlag = 3 /\ plan.from # 0 /\ plan.to # 0
     /\ NoListener \notin {From, To} /\ "gone" \in {link[From], link[To]}

\* The ILM process ends: also with a NULL party in changeMST or recoverMST,
\* or with two losses in one epoll batch (the second listener is used after
\* it was deleted).
Terminates ==
  \/ SendsToZombie \/ MakePlanFails
  \/ pc = "plan" /\ iFlag \in {5, 99} /\ NoListener \in {From, To}
  \/ /\ pc \in Window /\ pm
     /\ \E l, m \in ToSet(prep) \cup ToSet(regular) :
           l # m /\ link[l] = "down" /\ link[m] = "down"

Terminate ==
  /\ Terminates
  /\ pc' = "crashed"
  /\ UNCHANGED <<srvVars, dirVars, planVars, waiting, netVars, pm>>
-----------------------------------------------------------------------------
(* The game servers, as far as the ILM can tell: the ILM thread of each    *)
(* handles its commands in order and answers them.                         *)

Head1(l) == inbox[l][1]

\* Lock, unlock and MST commands are always answered.
Answer(l) ==
  /\ link[l] = "up" /\ inbox[l] # <<>> /\ Head1(l).type # "part"
  /\ inbox' = [inbox EXCEPT ![l] = Tail(@)]
  /\ outbox' = [outbox EXCEPT ![l] = Append(@, Head1(l).type)]
  /\ UNCHANGED <<srvVars, dirVars, planVars, ctlVars, link, host, pm>>

\* l is at the partition command for a zone that it has to give away.
Giving(l) == /\ link[l] = "up" /\ inbox[l] # <<>> /\ Head1(l).type = "part"
             /\ Head1(l).from = srvId[l]

\* TransferMigrators and AcceptMigrators meet: the block with the zone's
\* objects is sent, unpacked and acknowledged.  Either side blocks in
\* RecvBlock until the other one comes.
Transfer(l, m) ==
  /\ Giving(l) /\ l # m /\ srvId[m] # srvId[l]
  /\ link[m] = "up" /\ inbox[m] # <<>> /\ Head1(m).type = "part"
  /\ Head1(m).from = srvId[l] /\ srvId[m] = Head1(m).to /\ srvId[m] = Head1(l).to
  /\ host' = [host EXCEPT ![Head1(l).zone] = m]
  /\ inbox' = [inbox EXCEPT ![l] = Tail(@), ![m] = Tail(@)]
  /\ outbox' = [outbox EXCEPT ![l] = Append(@, "part")]
  /\ UNCHANGED <<srvVars, dirVars, planVars, ctlVars, link, pm>>

\* The giving server knows no connection to the other one: it answers with
\* result 0, which the ILM ignores.
TransferFails(l) ==
  /\ Giving(l)
  /\ inbox' = [inbox EXCEPT ![l] = Tail(@)]
  /\ UNCHANGED <<srvVars, dirVars, planVars, ctlVars, link, outbox, host, pm>>

\* The game server dies or its connection breaks.
GsCrash(l) ==
  /\ pc # "crashed" /\ link[l] = "up"
  /\ link' = [link EXCEPT ![l] = "down"]
  /\ inbox' = [inbox EXCEPT ![l] = <<>>]
  /\ UNCHANGED <<srvVars, dirVars, planVars, ctlVars, outbox, host, pm>>
-----------------------------------------------------------------------------
IlmStep ==
  \/ EndLoopWait \/ AcceptNothing \/ AcceptRefused \/ AcceptGameServer
  \/ EndAcceptWait \/ EndQuery
  \/ DoNothing \/ SendLock \/ WaitLockReply \/ StartPartition
  \/ WaitPartitionReply \/ ChangeMST \/ EndMstWait \/ SendUnlock
  \/ WaitUnlockReply \/ FinishPlan \/ RecoverMST \/ AllReplied \/ TimedOut

NewPlan ==
  \E f, t \in Id, z \in Zone :
     \/ GetPlanFromConsole(f, t, z)
     \/ \E u \in Listener : MakePlan(u, t, z)

GsStep(l) == Answer(l) \/ TransferFails(l) \/ \E m \in Listener : Transfer(l, m)

Next ==
  \/ IlmStep \/ Terminate \/ NewPlan
  \/ AddProxyMgrServer \/ OnProxyMgrServerException
  \/ \E l \in Listener :
        Connect(l) \/ Announce(l) \/ OnReply(l) \/ ServerLost(l) \/ GsStep(l) \/ GsCrash(l)

\* The loop never stops; a live server answers, and hands a zone over when
\* both sides are ready; what has arrived is reported by one of the waits,
\* which come and go (hence the strong fairness).
Fairness ==
  /\ WF_vars(IlmStep \/ (pc \notin Window /\ Terminate))
  /\ \A l \in Listener :
        /\ WF_vars(Answer(l) \/ \E m \in Listener : Transfer(l, m))
        /\ SF_vars(OnReply(l)) /\ SF_vars(ServerLost(l))

Spec == Init /\ [][Next]_vars /\ Fairness
=============================================================================
