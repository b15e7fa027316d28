----------------------- MODULE ServerManagerProofs --------------------------
(***************************************************************************)
(* The directory of the ILM, for every value of the constants: no zone is  *)
(* lost, each is run by one server or waits once in the pool, the two      *)
(* records of who runs it agree, and the ILM implements ZoneDirectory.     *)
(*                                                                         *)
(* The types come first.  TypeOK is not inductive: the stages of doPlan    *)
(* take plan.zone for a zone, which it is only while a plan runs.  PlanInv *)
(* says when that is.                                                      *)
(***************************************************************************)
EXTENDS ServerManagerProps, SequenceLemmas

PlanInv ==
  /\ iFlag \notin {0, 9} => PlanRuns
  /\ pc \in {"planWait", "mstWait"} => waiting # 0 /\ PlanRuns
  /\ waiting # 0 => pc \in {"planWait", "mstWait", "crashed"}
  /\ pc = "mstWait" => waiting = 5

TypeInv == TypeOK /\ PlanInv

\* The constants, as the leaves of the proofs need them.
LEMMA Constants ==
  /\ NoListener \notin Listener
  /\ Zone \subseteq Nat /\ 0 \notin Zone
  /\ InitGroups \in Seq(SUBSET Zone)
  /\ \A z \in Zone : \E i \in DOMAIN InitGroups : z \in InitGroups[i]
  /\ \A i, j \in DOMAIN InitGroups : InitGroups[i] \cap InitGroups[j] # {} => i = j
  /\ IdReset \in Nat \ {0} /\ CountMod \in Nat \ {0}
BY ConstantsAssumption

LEMMA ModBound ==
  ASSUME NEW a \in Nat, NEW n \in Nat \ {0}
  PROVE  a % n \in 0 .. n - 1
OBVIOUS

\* findGameServerById returns NULL or a registered listener with that id, and
\* finds one when there is one.
LEMMA FindProperties ==
  ASSUME TypeOK, NEW id
  PROVE  /\ FindGameServerById(id) \in ToSet(regular) \cup {NoListener}
         /\ FindGameServerById(id) \in ToSet(regular) =>
               srvId[FindGameServerById(id)] = id
         /\ FindGameServerById(id) = NoListener => id \notin RegularIds
<1> DEFINE I == {i \in 1 .. Len(regular) : srvId[regular[i]] = id}
<1>1. regular \in Seq(Listener) /\ ToSet(regular) \subseteq Listener
  BY ToSetType DEF TypeOK
<1>2. CASE I = {}
  <2>1. FindGameServerById(id) = NoListener
    BY <1>2 DEF FindGameServerById, SelectInSeq
  <2>2. ASSUME NEW l \in ToSet(regular), srvId[l] = id
        PROVE  FALSE
    <3>1. PICK i \in 1 .. Len(regular) : regular[i] = l
      BY <1>1 DEF ToSet
    <3>2. i \in I
      BY <2>2, <3>1
    <3>3. QED
      BY <1>2, <3>2
  <2>3. QED
    BY <1>1, <2>1, <2>2, Constants DEF RegularIds
<1>3. CASE I # {}
  <2>1. Min(I) \in I
    <3>1. I \subseteq Nat
      OBVIOUS
    <3> HIDE DEF I
    <3>2. QED
      BY <1>3, <3>1, MinIsMember
  <2>2. FindGameServerById(id) = regular[Min(I)]
    BY <1>3, <2>1 DEF FindGameServerById, SelectInSeq
  <2>3. regular[Min(I)] \in ToSet(regular) /\ srvId[regular[Min(I)]] = id
    <3>1. Min(I) \in DOMAIN regular /\ srvId[regular[Min(I)]] = id
      BY <1>1, <2>1
    <3>2. QED
      BY <3>1 DEF ToSet
  <2>4. QED
    BY <1>1, <2>2, <2>3, Constants
<1>4. QED
  BY <1>2, <1>3

LEMMA SentType ==
  ASSUME TypeOK, NEW S, NEW m \in Command
  PROVE  Sent(S, m) \in [Listener -> Seq(Command)]
<1>1. ASSUME NEW l \in Listener
      PROVE  Append(inbox[l], m) \in Seq(Command) /\ inbox[l] \in Seq(Command)
  BY AppendProperties DEF TypeOK
<1>2. QED
  BY <1>1 DEF Sent

LEMMA CommandType ==
  /\ {Lock, Unlock, Mst} \subseteq Command
  /\ \A f, t \in Id, z \in Zone : Part(f, t, z) \in Command
BY DEF Command

LEMMA NextStageType ==
  ASSUME NEW s \in {1, 2, 3, 4, 5, 7, 8}
  PROVE  NextStage[s] \in Stage \ {0}
BY DEF NextStage, Stage

\* The entry of waitGameServerReply.
LEMMA WaitType ==
  ASSUME TypeOK, NEW s \in {1, 2, 3, 4, 5, 7, 8}, NEW f \in Stage,
         WaitGameServerReply(s, f)
  PROVE  /\ iFlag' \in Stage
         /\ \/ pc' = "wait" /\ waiting' = 0
            \/ pc' = "planWait" /\ waiting' = s
BY NextStageType DEF WaitGameServerReply

LEMMA HandZoneType ==
  ASSUME TypeOK, NEW a \in Listener, NEW b \in Listener, NEW z \in Zone,
         NEW r \in Id, HandZone(z, a, b, r)
  PROVE  /\ lstZone' \in [Listener -> SUBSET Zone]
         /\ zoneServer' \in [Zone -> Id]
         /\ zoneGroups' \in Seq(SUBSET Zone) /\ hasInit' \subseteq Zone
BY DEF TypeOK, HandZone

LEMMA RemoveGameServerType ==
  ASSUME TypeOK, NEW l \in Listener, RemoveGameServer(l)
  PROVE  /\ {prep', regular'} \subseteq Seq(Listener)
         /\ connSucc' \subseteq Listener
         /\ lstZone' \in [Listener -> SUBSET Zone]
         /\ zoneServer' \in [Zone -> Id]
         /\ zoneGroups' \in Seq(SUBSET Zone) /\ hasInit' \subseteq Zone
         /\ link' \in [Listener -> LinkState]
         /\ inbox' \in [Listener -> Seq(Command)]
         /\ outbox' \in [Listener -> Seq(Reply)]
         /\ iFlag' = 9
<1>1. /\ RemoveFirst(prep, l) \in Seq(Listener)
      /\ RemoveFirst(regular, l) \in Seq(Listener)
  BY RemoveFirstProperties DEF TypeOK
<1>2. {prep', regular'} \subseteq Seq(Listener) /\ connSucc' \subseteq Listener
  BY <1>1 DEF TypeOK, RemoveGameServer
<1>3. /\ lstZone' \in [Listener -> SUBSET Zone]
      /\ link' \in [Listener -> LinkState]
      /\ inbox' \in [Listener -> Seq(Command)]
      /\ outbox' \in [Listener -> Seq(Reply)]
      /\ iFlag' = 9
  <2>1. <<>> \in Seq(Command) /\ <<>> \in Seq(Reply) /\ "gone" \in LinkState
    BY DEF LinkState
  <2>2. link \in [Listener -> LinkState] /\ lstZone \in [Listener -> SUBSET Zone]
    BY DEF TypeOK
  <2>3. inbox \in [Listener -> Seq(Command)] /\ outbox \in [Listener -> Seq(Reply)]
    BY DEF TypeOK
  <2>4. lstZone' \in [Listener -> SUBSET Zone]
    BY <2>2 DEF RemoveGameServer
  <2>5. QED
    BY <2>1, <2>2, <2>3, <2>4 DEF RemoveGameServer
<1>4. /\ zoneServer' \in [Zone -> Id]
      /\ zoneGroups' \in Seq(SUBSET Zone) /\ hasInit' \subseteq Zone
  <2>1. 0 \in Id
    BY Constants DEF Id
  <2>2. zoneServer \in [Zone -> Id]
    BY DEF TypeOK
  <2>3. zoneServer' = [z \in Zone |-> IF z \in lstZone[l] THEN 0 ELSE zoneServer[z]]
    BY DEF RemoveGameServer, RecoveryManagedZone
  <2>4. zoneServer' \in [Zone -> Id]
    BY <2>1, <2>2, <2>3
  <2>5. zoneGroups' = Append(zoneGroups, lstZone[l])
    BY DEF RemoveGameServer, RecoveryManagedZone
  <2>6. zoneGroups \in Seq(SUBSET Zone) /\ lstZone[l] \in SUBSET Zone
    BY DEF TypeOK
  <2>7. zoneGroups' \in Seq(SUBSET Zone)
    BY <2>5, <2>6, AppendProperties
  <2>8. hasInit' \subseteq Zone
    BY <2>6 DEF TypeOK, RemoveGameServer, RecoveryManagedZone
  <2>9. QED
    BY <2>4, <2>7, <2>8
<1>5. QED
  BY <1>2, <1>3, <1>4
-----------------------------------------------------------------------------
LEMMA TypeInit == Init => TypeInv
<1> SUFFICES ASSUME Init PROVE TypeInv
  OBVIOUS
<1> DEFINE PlanType == [from : Id, to : Id, zone : Zone \cup {0}, count : 0 .. CountMod - 1]
<1>1. TypeOK
  <2>1. 0 \in Id /\ 0 \in 0 .. CountMod - 1 /\ 0 \in 0 .. IdReset - 1
    BY Constants DEF Id
  <2>2. NoPlan \in PlanType
    BY <2>1 DEF NoPlan
  <2>3. /\ srvId \in [Listener -> Id] /\ lstZone \in [Listener -> SUBSET Zone]
        /\ zoneServer \in [Zone -> Id] /\ host \in [Zone -> Listener \cup {NoListener}]
        /\ link \in [Listener -> LinkState]
    BY <2>1 DEF Init, LinkState
  <2>4. inbox \in [Listener -> Seq(Command)] /\ outbox \in [Listener -> Seq(Reply)]
    BY DEF Init
  <2>5. /\ {prep, regular, idleServers} \subseteq Seq(Listener)
        /\ zoneGroups \in Seq(SUBSET Zone) /\ hasInit \subseteq Zone
    BY Constants DEF Init
  <2>6. pc \in Place /\ iFlag \in Stage /\ pm \in BOOLEAN
    BY DEF Init, Place, Window, Stage
  <2>7. /\ connSucc \subseteq Listener /\ loaded \subseteq Listener /\ needReplay \subseteq Id
        /\ waiting \in {0, 1, 2, 3, 4, 5, 7, 8} /\ plan \in PlanType
        /\ gsrvIdCursor \in 0 .. IdReset - 1
    BY <2>1, <2>2 DEF Init
  <2>8. QED
    BY <2>3, <2>4, <2>5, <2>6, <2>7 DEF TypeOK
<1>2. PlanInv
  BY DEF Init, PlanInv
<1>3. QED
  BY <1>1, <1>2 DEF TypeInv

\* The callbacks of the ILM and the steps of the game servers.
LEMMA TypeCallbacks ==
  ASSUME TypeInv, NEW l \in Listener,
         Connect(l) \/ Announce(l) \/ OnReply(l) \/ ServerLost(l) \/ GsStep(l) \/ GsCrash(l)
  PROVE  TypeInv'
<1> USE DEF TypeInv, PlanInv, PlanRuns
<1>1. CASE Connect(l)
  <2>1. prep' \in Seq(Listener)
    BY <1>1, AppendProperties DEF Connect, TypeOK
  <2>2. link' \in [Listener -> LinkState]
    BY <1>1 DEF Connect, TypeOK, LinkState
  <2>3. QED
    BY <1>1, <2>1, <2>2 DEF Connect, TypeOK, dirVars, planVars, ctlVars
<1>2. CASE Announce(l)
  BY <1>2 DEF Announce, TypeOK, dirVars, planVars, ctlVars, netVars
<1>3. CASE OnReply(l)
  <2>1. outbox' \in [Listener -> Seq(Reply)]
    <3>1. Tail(outbox[l]) \in Seq(Reply)
      BY <1>3, HeadTailProperties DEF OnReply, TypeOK
    <3>2. QED
      BY <1>3, <3>1 DEF OnReply, TypeOK
  <2>2. QED
    BY <1>3, <2>1 DEF OnReply, TypeOK, srvVars, dirVars, ctlVars
<1>4. CASE ServerLost(l)
  <2>1. RemoveGameServer(l)
    BY <1>4 DEF ServerLost
  <2>2. 9 \in Stage
    BY DEF Stage
  <2>3. QED
    BY <1>4, <2>1, <2>2, RemoveGameServerType DEF ServerLost, TypeOK, ctlVars
<1>5. CASE GsStep(l)
  <2>1. ASSUME Answer(l) \/ TransferFails(l)
        PROVE  TypeInv'
    <3>1. inbox' \in [Listener -> Seq(Command)]
      <4>1. Tail(inbox[l]) \in Seq(Command)
        BY <2>1, HeadTailProperties DEF Answer, TransferFails, Giving, TypeOK
      <4>2. QED
        BY <2>1, <4>1 DEF Answer, TransferFails, TypeOK
    <3>2. outbox' \in [Listener -> Seq(Reply)]
      <4>1. CASE Answer(l)
        <5>1. inbox[l] \in Seq(Command) /\ inbox[l] # <<>> /\ Head1(l) \in Command
          BY <4>1 DEF Answer, TypeOK, Head1
        <5>2. Head1(l).type \in Reply
          BY <5>1 DEF Command, Reply, Lock, Unlock, Mst, Part
        <5>3. Append(outbox[l], Head1(l).type) \in Seq(Reply)
          BY <5>2, AppendProperties DEF TypeOK
        <5>4. QED
          BY <4>1, <5>3 DEF Answer, TypeOK
      <4>2. CASE TransferFails(l)
        BY <4>2 DEF TransferFails, TypeOK
      <4>3. QED
        BY <2>1, <4>1, <4>2
    <3>3. UNCHANGED <<srvVars, dirVars, planVars, ctlVars, link, host, pm>>
      BY <2>1 DEF Answer, TransferFails
    <3>4. TypeOK'
      BY <3>1, <3>2, <3>3 DEF TypeOK, srvVars, dirVars, planVars, ctlVars
    <3>5. QED
      BY <3>3, <3>4 DEF planVars, ctlVars
  <2>2. ASSUME NEW m \in Listener, Transfer(l, m)
        PROVE  TypeInv'
    <3>1. inbox[l] \in Seq(Command) /\ inbox[l] # <<>>
          /\ inbox[m] \in Seq(Command) /\ inbox[m] # <<>>
      BY <2>2 DEF Transfer, Giving, TypeOK
    <3>2. Tail(inbox[l]) \in Seq(Command) /\ Tail(inbox[m]) \in Seq(Command)
      BY <3>1, HeadTailProperties
    <3>3. inbox' \in [Listener -> Seq(Command)]
      BY <2>2, <3>2 DEF Transfer, TypeOK
    <3>4. Append(outbox[l], "part") \in Seq(Reply)
      BY AppendProperties DEF TypeOK, Reply
    <3>5. outbox' \in [Listener -> Seq(Reply)]
      BY <2>2, <3>4 DEF Transfer, TypeOK
    <3>6. host' \in [Zone -> Listener \cup {NoListener}]
      BY <2>2 DEF Transfer, TypeOK
    <3>7. QED
      BY <2>2, <3>3, <3>5, <3>6 DEF Transfer, TypeOK, srvVars, dirVars, planVars, ctlVars
  <2>3. QED
    BY <1>5, <2>1, <2>2 DEF GsStep
<1>6. CASE GsCrash(l)
  BY <1>6 DEF GsCrash, TypeOK, srvVars, dirVars, planVars, ctlVars, LinkState
<1>7. QED
  BY <1>1, <1>2, <1>3, <1>4, <1>5, <1>6

\* A plan is adopted.
LEMMA TypeAdopt ==
  ASSUME TypeInv, NEW f \in Id, NEW t \in Id, NEW z \in Zone, Adopt(f, t, z)
  PROVE  /\ plan' \in [from : Id, to : Id, zone : Zone \cup {0}, count : 0 .. CountMod - 1]
         /\ iFlag' \in Stage /\ PlanRuns'
         /\ ~PlanRuns /\ iFlag = 0
BY Constants DEF Adopt, Stage, PlanRuns

LEMMA TypeNewPlan ==
  ASSUME TypeInv, NEW f \in Id, NEW t \in Id, NEW z \in Zone,
         GetPlanFromConsole(f, t, z) \/ \E u \in Listener : MakePlan(u, t, z)
  PROVE  TypeInv'
<1>1. CASE GetPlanFromConsole(f, t, z)
  <2>1. Adopt(f, t, z)
    BY <1>1 DEF GetPlanFromConsole
  <2>2. QED
    BY <1>1, <2>1, TypeAdopt
       DEF TypeInv, TypeOK, PlanInv, GetPlanFromConsole, srvVars, dirVars, ctlVars, netVars
<1>2. ASSUME NEW u \in Listener, MakePlan(u, t, z)
      PROVE  TypeInv'
  <2>1. Adopt(srvId[u], t, z) /\ srvId[u] \in Id
    BY <1>2 DEF MakePlan, TypeInv, TypeOK
  <2>2. pc' = "plan" /\ "plan" \in Place /\ waiting = 0
    BY <1>2 DEF MakePlan, Place, TypeInv, PlanInv
  <2>3. QED
    BY <1>2, <2>1, <2>2, TypeAdopt
       DEF TypeInv, TypeOK, PlanInv, MakePlan, srvVars, dirVars, netVars
<1>3. QED
  BY <1>1, <1>2

\* The steps that do not touch the plan: the loop's, the proxy manager's, the end.
LEMMA TypeLoop ==
  ASSUME TypeInv,
         \/ EndLoopWait \/ AcceptNothing \/ AcceptRefused \/ AcceptGameServer
         \/ EndAcceptWait \/ EndQuery \/ DoNothing \/ Terminate
         \/ AddProxyMgrServer \/ OnProxyMgrServerException
  PROVE  TypeInv'
<1> USE DEF TypeInv, PlanInv, PlanRuns
<1>1. CASE EndLoopWait
  BY <1>1 DEF EndLoopWait, TypeOK, srvVars, dirVars, planVars, netVars, Place
<1>2. CASE AcceptNothing
  <2>1. prep' \in Seq(Listener)
    <3>1. CASE UNCHANGED prep
      BY <3>1 DEF TypeOK
    <3>2. CASE prep # <<>> /\ prep' = Append(Tail(prep), Head(prep))
      BY <3>2, HeadTailProperties, AppendProperties DEF TypeOK
    <3>3. QED
      BY <1>2, <3>1, <3>2 DEF AcceptNothing
  <2>2. /\ UNCHANGED <<regular, idleServers, connSucc, srvId, gsrvIdCursor, loaded, dirVars,
                        planVars, waiting, netVars, pm>>
        /\ pc = "accept" /\ pc' = "query"
    BY <1>2 DEF AcceptNothing
  <2>3. QED
    BY <2>1, <2>2 DEF TypeOK, dirVars, planVars, netVars, Place, Window
<1>3. CASE AcceptRefused
  <2>1. PICK l \in Listener : AllocateSrvId(l) /\ RemoveGameServer(l)
    BY <1>3, HeadTailProperties DEF AcceptRefused, TypeOK
  <2>2. gsrvIdCursor + 1 \in Id
    BY Constants DEF TypeOK, Id
  <2>3. srvId' \in [Listener -> Id] /\ gsrvIdCursor' \in 0 .. IdReset - 1
    <3>1. srvId' \in [Listener -> Id]
      BY <2>1, <2>2 DEF AllocateSrvId, TypeOK
    <3>2. gsrvIdCursor' \in 0 .. IdReset - 1
      BY <2>1, <2>2, Constants DEF AllocateSrvId, TypeOK, Id
    <3>3. QED
      BY <3>1, <3>2
  <2>4. 9 \in Stage
    BY DEF Stage
  <2>5. QED
    BY <1>3, <2>1, <2>3, <2>4, RemoveGameServerType DEF AcceptRefused, TypeOK, ctlVars
<1>4. CASE AcceptGameServer
  <2> DEFINE l == Head(prep)
  <2>1. l \in Listener /\ prep' \in Seq(Listener) /\ regular' \in Seq(Listener)
    BY <1>4, HeadTailProperties, AppendProperties DEF AcceptGameServer, TypeOK
  <2>2. AllocateSrvId(l) /\ AddGameServerToMST(l)
    BY <1>4 DEF AcceptGameServer
  <2> HIDE DEF l
  <2>3. gsrvIdCursor + 1 \in Id
    BY Constants DEF TypeOK, Id
  <2>4. srvId' \in [Listener -> Id] /\ gsrvIdCursor' \in 0 .. IdReset - 1
    <3>1. srvId' \in [Listener -> Id]
      BY <2>1, <2>2, <2>3 DEF AllocateSrvId, TypeOK
    <3>2. gsrvIdCursor' \in 0 .. IdReset - 1
      BY <2>1, <2>2, <2>3, Constants DEF AllocateSrvId, TypeOK, Id
    <3>3. QED
      BY <3>1, <3>2
  <2>5. ToSet(regular') \subseteq Listener
    BY <2>1, ToSetType
  <2>6. needReplay' \subseteq Id
    BY <1>4, <2>4, <2>5 DEF AcceptGameServer, TypeOK
  <2>7. inbox' \in [Listener -> Seq(Command)]
    BY <1>4, SentType, CommandType DEF AcceptGameServer
  <2>8. /\ idleServers' \in Seq(Listener) /\ zoneGroups' \in Seq(SUBSET Zone)
        /\ lstZone' \in [Listener -> SUBSET Zone] /\ zoneServer' \in [Zone -> Id]
        /\ loaded' \subseteq Listener /\ hasInit' \subseteq Zone
    <3>1. CASE zoneGroups = <<>>
      <4>1. idleServers' = Append(idleServers, l) /\ UNCHANGED <<dirVars, loaded>>
        BY <2>2, <3>1 DEF AddGameServerToMST
      <4>2. idleServers' \in Seq(Listener)
        BY <2>1, <4>1, AppendProperties DEF TypeOK
      <4>3. QED
        BY <4>1, <4>2 DEF TypeOK, dirVars
    <3>2. CASE zoneGroups # <<>>
      <4>1. Head(zoneGroups) \in SUBSET Zone /\ Tail(zoneGroups) \in Seq(SUBSET Zone)
        BY <3>2, HeadTailProperties DEF TypeOK
      <4>2. lstZone \in [Listener -> SUBSET Zone] /\ zoneServer \in [Zone -> Id]
            /\ idleServers \in Seq(Listener) /\ loaded \subseteq Listener /\ hasInit \subseteq Zone
        BY DEF TypeOK
      <4>3. /\ lstZone' = [lstZone EXCEPT ![l] = @ \cup Head(zoneGroups)]
            /\ zoneServer' = [z \in Zone |-> IF z \in Head(zoneGroups) THEN srvId'[l]
                                                                      ELSE zoneServer[z]]
            /\ zoneGroups' = Tail(zoneGroups) /\ hasInit' = hasInit \cup Head(zoneGroups)
            /\ loaded' \subseteq loaded \cup {l}
            /\ idleServers' = idleServers
        BY <2>2, <3>2 DEF AddGameServerToMST
      <4>4. lstZone' \in [Listener -> SUBSET Zone]
        BY <2>1, <4>1, <4>2, <4>3
      <4>5. srvId'[l] \in Id
        BY <2>1, <2>4
      <4>6. zoneServer' \in [Zone -> Id]
        BY <4>2, <4>3, <4>5
      <4>7. QED
        BY <2>1, <4>1, <4>2, <4>3, <4>4, <4>6
    <3>3. QED
      BY <3>1, <3>2
  <2>9. /\ connSucc' = connSucc /\ iFlag' = iFlag /\ plan' = plan /\ waiting' = waiting
        /\ link' = link /\ outbox' = outbox /\ host' = host /\ pm' = pm
        /\ pc = "accept" /\ pc' = "acceptWait" /\ pc' \in Place
    BY <1>4 DEF AcceptGameServer, Place, Window
  <2>10. TypeOK'
    BY <2>1, <2>4, <2>6, <2>7, <2>8, <2>9 DEF TypeOK
  <2>11. QED
    BY <2>9, <2>10
<1>5. CASE EndAcceptWait
  BY <1>5 DEF EndAcceptWait, TypeOK, srvVars, dirVars, planVars, netVars, Place
<1>6. CASE EndQuery
  BY <1>6 DEF EndQuery, TypeOK, srvVars, dirVars, planVars, netVars, Place
<1>7. CASE DoNothing
  BY <1>7 DEF DoNothing, TypeOK, srvVars, dirVars, planVars, netVars, Place, Window
<1>8. CASE Terminate
  BY <1>8 DEF Terminate, TypeOK, srvVars, dirVars, planVars, netVars, Place
<1>9. CASE AddProxyMgrServer
  BY <1>9 DEF AddProxyMgrServer, TypeOK, srvVars, dirVars, planVars, ctlVars, netVars
<1>10. CASE OnProxyMgrServerException
  BY <1>10 DEF OnProxyMgrServerException, TypeOK, srvVars, dirVars, planVars, ctlVars, netVars
<1>11. QED
  BY <1>1, <1>2, <1>3, <1>4, <1>5, <1>6, <1>7, <1>8, <1>9, <1>10

\* The stages of doPlan.
LEMMA TypeStages ==
  ASSUME TypeInv,
         \/ SendLock \/ WaitLockReply \/ StartPartition \/ WaitPartitionReply \/ ChangeMST
         \/ EndMstWait \/ SendUnlock \/ WaitUnlockReply \/ FinishPlan \/ RecoverMST
         \/ AllReplied \/ TimedOut
  PROVE  TypeInv'
<1> DEFINE PlanType == [from : Id, to : Id, zone : Zone \cup {0}, count : 0 .. CountMod - 1]
           Kept == /\ UNCHANGED <<srvVars, link, outbox, host, pm>>
<1>1. /\ TypeOK /\ plan \in PlanType /\ plan.zone \in Zone \cup {0} /\ 0 \in Id
      /\ plan.from \in Id /\ plan.to \in Id /\ RegularIds \subseteq Id
      /\ {0, 2, 3, 4, 5, 7, 8, 9, 99} \subseteq Stage
      /\ {"wait", "planWait", "mstWait"} \subseteq Place
  <2>1. ToSet(regular) \subseteq Listener
    BY ToSetType DEF TypeInv, TypeOK
  <2>2. RegularIds \subseteq Id
    BY <2>1 DEF TypeInv, TypeOK, RegularIds
  <2>3. TypeOK /\ plan \in PlanType
    BY DEF TypeInv, TypeOK
  <2>4. plan.zone \in Zone \cup {0} /\ plan.from \in Id /\ plan.to \in Id
    BY <2>3
  <2>5. 0 \in Id
    BY Constants DEF Id
  <2>6. /\ {0, 2, 3, 4, 5, 7, 8, 9, 99} \subseteq Stage
        /\ {"wait", "planWait", "mstWait"} \subseteq Place
    BY DEF Stage, Place, Window
  <2>7. QED
    BY <2>2, <2>3, <2>4, <2>5, <2>6
\* What a stage that waits for replies has to establish.
<1>2. ASSUME NEW s \in {1, 2, 3, 4, 5, 7, 8}, NEW f \in Stage, WaitGameServerReply(s, f),
             PlanRuns, Kept, UNCHANGED dirVars,
             plan' \in PlanType, plan'.zone = plan.zone, needReplay' \subseteq Id,
             inbox' \in [Listener -> Seq(Command)]
      PROVE  TypeInv'
  <2>1. /\ iFlag' \in Stage
        /\ \/ pc' = "wait" /\ waiting' = 0
           \/ pc' = "planWait" /\ waiting' = s
    BY <1>1, <1>2, WaitType
  <2>2. TypeOK'
    BY <1>1, <1>2, <2>1 DEF TypeOK, srvVars, dirVars
  <2>3. PlanInv'
    BY <1>2, <2>1 DEF PlanInv, PlanRuns
  <2>4. QED
    BY <2>2, <2>3 DEF TypeInv
<1>3. CASE SendLock
  <2>1. PlanRuns
    BY <1>3 DEF SendLock, TypeInv, PlanInv
  <2>2. inbox' \in [Listener -> Seq(Command)] /\ needReplay' \subseteq Id
    BY <1>1, <1>3, SentType, CommandType DEF SendLock, SendToAll
  <2>3. QED
    BY <1>1, <1>2, <1>3, <2>1, <2>2 DEF SendLock
<1>4. CASE WaitLockReply
  <2>1. PlanRuns
    BY <1>4 DEF WaitLockReply, TypeInv, PlanInv
  <2>2. (IF GiveUp THEN 9 ELSE 2) \in Stage
    BY <1>1
  <2>3. QED
    BY <1>1, <1>2, <1>4, <2>1, <2>2 DEF WaitLockReply, TypeOK, netVars
<1>5. CASE StartPartition
  <2> DEFINE sent == plan.from # 0 /\ plan.to # 0 /\ From # NoListener /\ To # NoListener
             m    == Part(plan.from, plan.to, plan.zone)
  <2>1. PlanRuns /\ plan.zone \in Zone
    BY <1>1, <1>5 DEF StartPartition, TypeInv, PlanInv, PlanRuns
  <2>2. Kept /\ UNCHANGED dirVars /\ plan' = plan
    BY <1>5 DEF StartPartition
  <2>3. CASE sent
    <3>1. /\ inbox' = [Sent({From}, m) EXCEPT
                          ![To] = IF link[To] = "up" THEN Append(@, m) ELSE @]
          /\ needReplay' = {plan.from} /\ WaitGameServerReply(3, 4)
      BY <1>5, <2>3 DEF StartPartition
    <3>2. m \in Command
      BY <1>1, <2>1, CommandType
    <3> HIDE DEF m
    <3>3. Sent({From}, m) \in [Listener -> Seq(Command)]
      BY <1>1, <3>2, SentType
    <3>4. To \in Listener
      BY <1>1, <2>3, FindProperties, ToSetType DEF To, TypeOK
    <3>5. Append(Sent({From}, m)[To], m) \in Seq(Command)
      BY <3>2, <3>3, <3>4, AppendProperties
    <3>6. inbox' \in [Listener -> Seq(Command)]
      BY <3>1, <3>3, <3>4, <3>5
    <3>7. QED
      BY <1>1, <1>2, <2>1, <2>2, <3>1, <3>6
  <2>4. CASE ~sent
    <3>1. /\ WaitGameServerReply(3, IF plan.from # 0 /\ plan.to # 0 THEN 99 ELSE 3)
          /\ needReplay' = {} /\ UNCHANGED inbox
      BY <1>5, <2>4 DEF StartPartition
    <3>2. (IF plan.from # 0 /\ plan.to # 0 THEN 99 ELSE 3) \in Stage
      BY <1>1
    <3>3. QED
      BY <1>1, <1>2, <2>1, <2>2, <3>1, <3>2 DEF TypeOK
  <2>5. QED
    BY <2>3, <2>4
<1>6. CASE WaitPartitionReply
  <2>1. PlanRuns
    BY <1>6 DEF WaitPartitionReply, TypeInv, PlanInv
  <2>2. (IF GiveUp THEN 9 ELSE 4) \in Stage /\ 0 \in 0 .. CountMod - 1
    BY <1>1, Constants
  <2>3. plan' \in PlanType /\ plan'.zone = plan.zone
    BY <1>1, <1>6, <2>2 DEF WaitPartitionReply
  <2>4. QED
    BY <1>1, <1>2, <1>6, <2>1, <2>2, <2>3 DEF WaitPartitionReply, TypeOK, netVars
<1>7. CASE ChangeMST
  <2>1. PlanRuns /\ plan.zone \in Zone
    BY <1>1, <1>7 DEF ChangeMST, TypeInv, PlanInv, PlanRuns
  <2>2. From \in Listener /\ To \in Listener
    BY <1>1, <1>7, FindProperties, ToSetType DEF ChangeMST, From, To, TypeOK
  <2>3. /\ lstZone' \in [Listener -> SUBSET Zone] /\ zoneServer' \in [Zone -> Id]
        /\ zoneGroups' \in Seq(SUBSET Zone) /\ hasInit' \subseteq Zone
    BY <1>1, <1>7, <2>1, <2>2, HandZoneType DEF ChangeMST
  <2>4. inbox' \in [Listener -> Seq(Command)] /\ needReplay' \subseteq Id
    BY <1>1, <1>7, SentType, CommandType DEF ChangeMST, SendToAll
  <2>5. loaded' \subseteq Listener
    BY <1>7, <2>2 DEF ChangeMST, TypeInv, TypeOK
  <2>6. /\ UNCHANGED <<prep, regular, idleServers, connSucc, srvId, gsrvIdCursor, iFlag,
                        plan, link, outbox, host, pm>>
        /\ pc' = "mstWait" /\ waiting' = 5
    BY <1>7 DEF ChangeMST
  <2>7. TypeOK'
    BY <1>1, <2>3, <2>4, <2>5, <2>6 DEF TypeOK
  <2>8. PlanInv'
    BY <2>1, <2>6 DEF PlanInv, PlanRuns
  <2>9. QED
    BY <2>7, <2>8 DEF TypeInv
<1>8. CASE EndMstWait
  <2>1. PlanRuns
    BY <1>8 DEF EndMstWait, TypeInv, PlanInv
  <2>2. QED
    BY <1>1, <1>2, <1>8, <2>1 DEF EndMstWait, TypeOK, netVars
<1>9. CASE SendUnlock
  <2>1. PlanRuns
    BY <1>9 DEF SendUnlock, TypeInv, PlanInv
  <2>2. inbox' \in [Listener -> Seq(Command)] /\ needReplay' \subseteq Id
    BY <1>1, <1>9, SentType, CommandType DEF SendUnlock, SendToAll
  <2>3. QED
    BY <1>1, <1>2, <1>9, <2>1, <2>2 DEF SendUnlock
<1>10. CASE WaitUnlockReply
  <2>1. PlanRuns
    BY <1>10 DEF WaitUnlockReply, TypeInv, PlanInv
  <2>2. (IF GiveUp THEN 99 ELSE 8) \in Stage
    BY <1>1
  <2>3. /\ plan' = plan /\ needReplay' = needReplay /\ inbox' = inbox /\ UNCHANGED dirVars /\ Kept
        /\ WaitGameServerReply(8, IF GiveUp THEN 99 ELSE 8)
    BY <1>10 DEF WaitUnlockReply, netVars
  <2>4. plan' \in PlanType /\ plan'.zone = plan.zone /\ needReplay' \subseteq Id /\ inbox' \in [Listener -> Seq(Command)]
    BY <1>1, <2>3 DEF TypeOK
  <2>5. QED
    BY <1>2, <2>1, <2>2, <2>3, <2>4
<1>11. CASE FinishPlan
  <2>1. waiting = 0 /\ NoPlan \in PlanType
    BY <1>1, <1>11, Constants DEF FinishPlan, TypeInv, PlanInv, NoPlan
  <2>2. QED
    BY <1>1, <1>11, <2>1
       DEF FinishPlan, TypeInv, TypeOK, PlanInv, srvVars, dirVars, netVars
<1>12. CASE RecoverMST
  <2>1. plan.zone \in Zone /\ waiting = 0
    BY <1>1, <1>12 DEF RecoverMST, TypeInv, PlanInv, PlanRuns
  <2>2. From \in Listener /\ To \in Listener
    BY <1>1, <1>12, FindProperties, ToSetType DEF RecoverMST, From, To, TypeOK
  <2>3. /\ lstZone' \in [Listener -> SUBSET Zone] /\ zoneServer' \in [Zone -> Id]
        /\ zoneGroups' \in Seq(SUBSET Zone) /\ hasInit' \subseteq Zone
    BY <1>1, <1>12, <2>1, <2>2, HandZoneType DEF RecoverMST
  <2>4. inbox' \in [Listener -> Seq(Command)]
    BY <1>1, <1>12, SentType, CommandType DEF RecoverMST
  <2>5. /\ UNCHANGED <<srvVars, plan, waiting, link, outbox, host, pm>>
        /\ needReplay' = {} /\ iFlag' = 9 /\ pc' = "wait"
    BY <1>12 DEF RecoverMST
  <2>6. TypeOK'
    BY <1>1, <2>3, <2>4, <2>5 DEF TypeOK, srvVars
  <2>7. PlanInv'
    BY <2>1, <2>5 DEF PlanInv
  <2>8. QED
    BY <2>6, <2>7 DEF TypeInv
<1>13. CASE AllReplied
  <2>1. waiting \in {1, 2, 3, 4, 5, 7, 8} /\ PlanRuns
    BY <1>13 DEF AllReplied, TypeInv, TypeOK, PlanInv
  <2>2. iFlag' \in Stage
    BY <1>13, <2>1, NextStageType DEF AllReplied
  <2>3. plan' \in PlanType /\ plan'.zone = plan.zone
    <3>1. 0 \in 0 .. CountMod - 1
      BY Constants
    <3>2. QED
      BY <1>1, <1>13, <3>1 DEF AllReplied
  <2>4. QED
    BY <1>1, <1>13, <2>1, <2>2, <2>3
       DEF AllReplied, TypeInv, TypeOK, PlanInv, PlanRuns, srvVars, dirVars, netVars
<1>14. CASE TimedOut
  <2>1. PlanRuns
    BY <1>14 DEF TimedOut, TypeInv, PlanInv
  <2>2. plan' \in PlanType /\ plan'.zone = plan.zone
    <3>1. (plan.count + 1) % CountMod \in 0 .. CountMod - 1
      <4>1. plan.count + 1 \in Nat
        BY <1>1, Constants
      <4>2. QED
        BY <4>1, ModBound, Constants
    <3>2. QED
      BY <1>1, <1>14, <3>1 DEF TimedOut
  <2>3. QED
    BY <1>1, <1>14, <2>1, <2>2
       DEF TimedOut, TypeInv, TypeOK, PlanInv, PlanRuns, srvVars, dirVars, netVars
<1>15. QED
  BY <1>3, <1>4, <1>5, <1>6, <1>7, <1>8, <1>9, <1>10, <1>11, <1>12, <1>13, <1>14

LEMMA TypeStep == TypeInv /\ [Next]_vars => TypeInv'
<1> SUFFICES ASSUME TypeInv, [Next]_vars PROVE TypeInv'
  OBVIOUS
<1>1. CASE IlmStep
  BY <1>1, TypeLoop, TypeStages DEF IlmStep
<1>2. CASE NewPlan
  BY <1>2, TypeNewPlan DEF NewPlan
<1>3. CASE Terminate \/ AddProxyMgrServer \/ OnProxyMgrServerException
  BY <1>3, TypeLoop
<1>4. ASSUME NEW l \in Listener,
             Connect(l) \/ Announce(l) \/ OnReply(l) \/ ServerLost(l) \/ GsStep(l) \/ GsCrash(l)
      PROVE  TypeInv'
  BY <1>4, TypeCallbacks
<1>5. CASE UNCHANGED vars
  BY <1>5 DEF TypeInv, TypeOK, PlanInv, PlanRuns, vars, srvVars, dirVars, planVars, ctlVars, netVars
<1>6. QED
  BY <1>1, <1>2, <1>3, <1>4, <1>5 DEF Next

LEMMA DisciplinedTypeInv == DisciplinedSpec => []TypeInv
<1>1. [Next /\ Discipline]_vars => [Next]_vars
  OBVIOUS
<1>2. QED
  BY <1>1, TypeInit, TypeStep, PTL DEF DisciplinedSpec

\* Every variable keeps its type, whatever the environment does.
THEOREM TypeCorrect == Spec \/ DisciplinedSpec => []TypeOK
<1>1. TypeInv => TypeOK
  BY DEF TypeInv
<1>2. Spec => []TypeInv
  BY TypeInit, TypeStep, PTL DEF Spec
<1>3. QED
  BY <1>1, <1>2, DisciplinedTypeInv, PTL

-----------------------------------------------------------------------------
(* The directory                                                           *)

\* The steps that change the directory.
LEMMA DirectoryChanges ==
  ASSUME Next
  PROVE  \/ UNCHANGED dirVars
         \/ \E l \in Listener : ServerLost(l)
         \/ AcceptRefused \/ AcceptGameServer \/ ChangeMST \/ RecoverMST
<1>1. ASSUME IlmStep
      PROVE  UNCHANGED dirVars \/ AcceptRefused \/ AcceptGameServer \/ ChangeMST \/ RecoverMST
  BY <1>1 DEF IlmStep, EndLoopWait, AcceptNothing, EndAcceptWait, EndQuery, DoNothing,
              SendLock, WaitLockReply, StartPartition, WaitPartitionReply, EndMstWait,
              SendUnlock, WaitUnlockReply, FinishPlan, AllReplied, TimedOut
<1>2. ASSUME NewPlan
      PROVE  UNCHANGED dirVars
  BY <1>2 DEF NewPlan, GetPlanFromConsole, MakePlan
<1>3. ASSUME Terminate \/ AddProxyMgrServer \/ OnProxyMgrServerException
      PROVE  UNCHANGED dirVars
  BY <1>3 DEF Terminate, AddProxyMgrServer, OnProxyMgrServerException
<1>4. ASSUME NEW l \in Listener,
             Connect(l) \/ Announce(l) \/ OnReply(l) \/ ServerLost(l) \/ GsStep(l) \/ GsCrash(l)
      PROVE  UNCHANGED dirVars \/ ServerLost(l)
  BY <1>4 DEF Connect, Announce, OnReply, GsStep, Answer, TransferFails, Transfer, GsCrash
<1>5. QED
  BY <1>1, <1>2, <1>3, <1>4 DEF Next

\* A plan keeps its parties and its zone until it ends.
LEMMA PlanKept ==
  ASSUME TypeInv, [Next]_vars
  PROVE  \/ plan' = NoPlan \/ (NewPlan /\ NewPlanNow)
         \/ plan'.from = plan.from /\ plan'.to = plan.to /\ plan'.zone = plan.zone
<1> DEFINE P == \/ plan' = NoPlan \/ (NewPlan /\ NewPlanNow)
                \/ plan'.from = plan.from /\ plan'.to = plan.to /\ plan'.zone = plan.zone
<1>1. plan \in [from : Id, to : Id, zone : Zone \cup {0}, count : 0 .. CountMod - 1]
  BY DEF TypeInv, TypeOK
<1>2. ASSUME plan' = plan
      PROVE  P
  BY <1>2
<1>3. CASE WaitPartitionReply \/ AllReplied \/ TimedOut
  BY <1>1, <1>3 DEF WaitPartitionReply, AllReplied, TimedOut
<1>4. CASE FinishPlan
  BY <1>4 DEF FinishPlan
<1>5. ASSUME IlmStep
      PROVE  \/ WaitPartitionReply \/ AllReplied \/ TimedOut \/ FinishPlan
             \/ plan' = plan
  BY <1>5 DEF IlmStep, EndLoopWait, AcceptNothing, AcceptRefused, AcceptGameServer,
              EndAcceptWait, EndQuery, DoNothing, SendLock, WaitLockReply, StartPartition,
              ChangeMST, EndMstWait, SendUnlock, WaitUnlockReply, RecoverMST, planVars
<1>6. CASE NewPlan
  BY <1>6, Constants DEF NewPlan, GetPlanFromConsole, MakePlan, Adopt, PlanRuns, NewPlanNow
<1>7. CASE Terminate \/ AddProxyMgrServer \/ OnProxyMgrServerException
  BY <1>2, <1>7 DEF Terminate, AddProxyMgrServer, OnProxyMgrServerException, planVars
<1>8. ASSUME NEW l \in Listener,
             Connect(l) \/ Announce(l) \/ OnReply(l) \/ ServerLost(l) \/ GsStep(l) \/ GsCrash(l)
      PROVE  plan' = plan
  BY <1>8 DEF Connect, Announce, OnReply, ServerLost, GsStep, Answer, TransferFails, Transfer,
              GsCrash, planVars
<1>9. CASE UNCHANGED vars
  BY <1>2, <1>9 DEF vars, planVars
<1>10. QED
  BY <1>2, <1>3, <1>4, <1>5, <1>6, <1>7, <1>8, <1>9 DEF Next
-----------------------------------------------------------------------------
(* No zone is lost. *)

LostInv == NoZoneLost /\ (PlanRuns => plan.from # plan.to)

LEMMA LostInit == Init => LostInv
<1>1. Init => /\ zoneGroups = InitGroups /\ ~PlanRuns
  BY DEF Init, PlanRuns, NoPlan
<1>2. Init => \A z \in Zone : Pools(z) # {}
  BY <1>1, Constants DEF Pools
<1>3. QED
  BY <1>1, <1>2 DEF LostInv, NoZoneLost

\* The two listeners between which doPlan hands a zone.
LEMMA Parties ==
  ASSUME TypeInv, PlanRuns => plan.from # plan.to,
         ChangeMST \/ RecoverMST
  PROVE  /\ From \in ToSet(regular) /\ To \in ToSet(regular)
         /\ ToSet(regular) \subseteq Listener
         /\ srvId[From] = plan.from /\ srvId[To] = plan.to /\ From # To
         /\ PlanRuns /\ plan.zone \in Zone
<1>1. PlanRuns /\ plan.zone \in Zone
  BY DEF ChangeMST, RecoverMST, TypeInv, TypeOK, PlanInv, PlanRuns
<1>2. From # NoListener /\ To # NoListener
  BY DEF ChangeMST, RecoverMST
<1>3. /\ From \in ToSet(regular) /\ To \in ToSet(regular)
      /\ srvId[From] = plan.from /\ srvId[To] = plan.to
  BY <1>2, FindProperties DEF From, To, TypeInv
<1>4. ToSet(regular) \subseteq Listener
  BY ToSetType DEF TypeInv, TypeOK
<1>5. QED
  BY <1>1, <1>3, <1>4

LEMMA LostRemove ==
  ASSUME TypeInv, NoZoneLost, NEW l \in Listener, RemoveGameServer(l)
  PROVE  NoZoneLost'
<1>1. /\ zoneGroups \in Seq(SUBSET Zone) /\ lstZone \in [Listener -> SUBSET Zone]
      /\ zoneGroups' = Append(zoneGroups, lstZone[l])
      /\ \A m \in Listener : m # l => lstZone'[m] = lstZone[m]
  BY DEF TypeInv, TypeOK, RemoveGameServer, RecoveryManagedZone
<1>2. /\ DOMAIN zoneGroups' = 1 .. Len(zoneGroups) + 1
      /\ zoneGroups'[Len(zoneGroups) + 1] = lstZone[l]
      /\ \A i \in DOMAIN zoneGroups : i \in DOMAIN zoneGroups' /\ zoneGroups'[i] = zoneGroups[i]
  BY <1>1
<1>3. ASSUME NEW z \in Zone
      PROVE  Holders(z)' # {} \/ Pools(z)' # {}
  <2>1. CASE z \in lstZone[l]
    <3>1. Len(zoneGroups) + 1 \in Pools(z)'
      BY <1>1, <1>2, <2>1 DEF Pools
    <3>2. QED
      BY <3>1
  <2>2. CASE z \notin lstZone[l]
    BY <1>1, <1>2, <2>2 DEF NoZoneLost, Holders, Pools
  <2>3. QED
    BY <2>1, <2>2
<1>4. QED
  BY <1>3 DEF NoZoneLost

LEMMA LostAccept ==
  ASSUME TypeInv, NoZoneLost, AcceptGameServer
  PROVE  NoZoneLost'
<1> DEFINE l == Head(prep)
<1>1. l \in Listener /\ AddGameServerToMST(l)
  BY HeadTailProperties DEF AcceptGameServer, TypeInv, TypeOK
<1> HIDE DEF l
<1>2. CASE zoneGroups = <<>>
  BY <1>1, <1>2 DEF AddGameServerToMST, dirVars, NoZoneLost, Holders, Pools
<1>3. CASE zoneGroups # <<>>
  <2>1. /\ zoneGroups \in Seq(SUBSET Zone) /\ lstZone \in [Listener -> SUBSET Zone]
        /\ zoneGroups' = Tail(zoneGroups)
        /\ lstZone' = [lstZone EXCEPT ![l] = @ \cup Head(zoneGroups)]
    BY <1>1, <1>3 DEF AddGameServerToMST, TypeInv, TypeOK
  <2>2. /\ DOMAIN zoneGroups = 1 .. Len(zoneGroups)
        /\ DOMAIN zoneGroups' = 1 .. Len(zoneGroups) - 1
        /\ \A i \in DOMAIN zoneGroups' : zoneGroups'[i] = zoneGroups[i + 1]
        /\ Head(zoneGroups) = zoneGroups[1] /\ Len(zoneGroups) \in Nat
    BY <1>3, <2>1
  <2>3. ASSUME NEW z \in Zone
        PROVE  Holders(z)' # {} \/ Pools(z)' # {}
    <3>1. CASE Holders(z) # {}
      BY <1>1, <2>1, <3>1 DEF Holders
    <3>2. ASSUME NEW i \in Pools(z)
          PROVE  Holders(z)' # {} \/ Pools(z)' # {}
      <4>1. i \in 1 .. Len(zoneGroups) /\ z \in zoneGroups[i]
        BY <2>2 DEF Pools
      <4>2. CASE i = 1
        <5>1. z \in lstZone'[l]
          BY <1>1, <2>1, <2>2, <4>1, <4>2
        <5>2. QED
          BY <1>1, <5>1 DEF Holders
      <4>3. CASE i # 1
        <5>1. i - 1 \in DOMAIN zoneGroups' /\ (i - 1) + 1 = i
          BY <2>2, <4>1, <4>3
        <5>2. i - 1 \in Pools(z)'
          BY <2>2, <4>1, <5>1 DEF Pools
        <5>3. QED
          BY <5>2
      <4>4. QED
        BY <4>2, <4>3
    <3>3. QED
      BY <3>1, <3>2 DEF NoZoneLost
  <2>4. QED
    BY <2>3 DEF NoZoneLost
<1>4. QED
  BY <1>2, <1>3

LEMMA LostHandZone ==
  ASSUME TypeInv, NoZoneLost, NEW a \in Listener, NEW b \in Listener, a # b,
         NEW z \in Zone, NEW r, HandZone(z, a, b, r)
  PROVE  NoZoneLost'
<1>1. /\ lstZone \in [Listener -> SUBSET Zone]
      /\ lstZone' = [[lstZone EXCEPT ![a] = @ \cup {z}] EXCEPT ![b] = @ \ {z}]
      /\ zoneGroups' = zoneGroups
  BY DEF TypeInv, TypeOK, HandZone
<1>2. z \in lstZone'[a]
  BY <1>1
<1>3. \A y \in Zone, m \in Listener : y # z /\ y \in lstZone[m] => y \in lstZone'[m]
  BY <1>1
<1>4. QED
  BY <1>1, <1>2, <1>3 DEF NoZoneLost, Holders, Pools

LEMMA LostStep ==
  ASSUME "plan" \in Rules, TypeInv, LostInv, [Next /\ Discipline]_vars
  PROVE  LostInv'
<1>1. PlanRuns' => plan'.from # plan'.to
  <2>1. [Next]_vars
    OBVIOUS
  <2>2. NewPlanNow => plan'.from # plan'.to
    BY DEF Discipline, PlanRule, vars, planVars, NewPlanNow, PlanRuns
  <2>3. ~NewPlanNow /\ PlanRuns' => PlanRuns
    BY DEF NewPlanNow
  <2>4. QED
    BY <2>1, <2>2, <2>3, PlanKept DEF LostInv, PlanRuns, NoPlan
<1>2. NoZoneLost'
  <2>1. CASE UNCHANGED dirVars
    BY <2>1 DEF LostInv, NoZoneLost, Holders, Pools, dirVars
  <2>2. ASSUME NEW l \in Listener, ServerLost(l)
        PROVE  NoZoneLost'
    BY <2>2, LostRemove DEF ServerLost, LostInv
  <2>3. CASE AcceptRefused
    <3>1. RemoveGameServer(Head(prep)) /\ Head(prep) \in Listener
      BY <2>3, HeadTailProperties DEF AcceptRefused, TypeInv, TypeOK
    <3>2. QED
      BY <3>1, LostRemove DEF LostInv
  <2>4. CASE AcceptGameServer
    BY <2>4, LostAccept DEF LostInv
  <2>5. CASE ChangeMST
    BY <2>5, Parties, LostHandZone DEF LostInv, ChangeMST
  <2>6. CASE RecoverMST
    BY <2>6, Parties, LostHandZone DEF LostInv, RecoverMST
  <2>7. QED
    BY <2>1, <2>2, <2>3, <2>4, <2>5, <2>6, DirectoryChanges DEF vars
<1>3. QED
  BY <1>1, <1>2 DEF LostInv

\* No zone is lost as long as plans are between two different servers, with
\* any number of servers, losses, timeouts and retries.
THEOREM NoZoneIsLost ==
  ASSUME "plan" \in Rules
  PROVE  DisciplinedSpec => []NoZoneLost
<1>1. TypeInv /\ LostInv /\ [Next /\ Discipline]_vars => LostInv'
  BY LostStep
<1>2. LostInv => NoZoneLost
  BY DEF LostInv
<1>3. QED
  BY <1>1, <1>2, LostInit, DisciplinedTypeInv, PTL DEF DisciplinedSpec
-----------------------------------------------------------------------------
(* Each zone is run by one server.                                         *)
(* The inductive invariant adds to the two properties that the registry is *)
(* sound and where the zone of the plan is: doPlan finds its parties by id *)
(* and takes the zone from a server without looking whether it is there.   *)

OwnInv ==
  /\ RegistryConsistent /\ PlanZoneAtParty
  /\ OneServerPerZone /\ RecordedServerHolds

OwnershipRulesHold == {"ids", "pm", "plan", "join"} \subseteq Rules

LEMMA OwnInit == Init => OwnInv
<1> SUFFICES ASSUME Init PROVE OwnInv
  OBVIOUS
<1>1. /\ prep = <<>> /\ regular = <<>> /\ connSucc = {} /\ ToSet(prep) = {} /\ ToSet(regular) = {}
      /\ link = [l \in Listener |-> "new"] /\ lstZone = [l \in Listener |-> {}]
      /\ zoneServer = [z \in Zone |-> 0] /\ zoneGroups = InitGroups /\ ~PlanRuns
  BY DEF Init, ToSet, PlanRuns, NoPlan
<1>2. RegistryConsistent
  BY <1>1 DEF RegistryConsistent, Announcing, IsInjective
<1>3. PlanZoneAtParty
  BY <1>1 DEF PlanZoneAtParty
<1>4. OneServerPerZone /\ RecordedServerHolds
  <2>1. \A z \in Zone : Holders(z) = {} /\ zoneServer[z] = 0
    BY <1>1 DEF Holders
  <2>2. \A z \in Zone : \A i, j \in Pools(z) : i = j
    BY <1>1, Constants DEF Pools
  <2>3. QED
    BY <2>1, <2>2 DEF OneServerPerZone, RecordedServerHolds
<1>5. QED
  BY <1>2, <1>3, <1>4 DEF OwnInv

LEMMA Discipline4 ==
  ASSUME OwnershipRulesHold, Discipline
  PROVE  IdsRule /\ PmRule /\ PlanRule /\ JoinRule
BY DEF OwnershipRulesHold, Discipline

\* No registered or connecting listener is out of epoll.
LEMMA NobodyRefused ==
  ASSUME TypeInv, RegistryConsistent
  PROVE  ~AcceptRefused
<1> SUFFICES ASSUME AcceptRefused PROVE FALSE
  OBVIOUS
<1>1. prep \in Seq(Listener) /\ prep # <<>> /\ link[Head(prep)] = "gone"
  BY DEF AcceptRefused, TypeInv, TypeOK
<1>2. Head(prep) \in ToSet(prep) /\ Head(prep) \in Listener
  BY <1>1, TailProperties, HeadTailProperties
<1>3. QED
  BY <1>1, <1>2 DEF RegistryConsistent

\* Facts of the sequences that the cases below use.
LEMMA Queues ==
  ASSUME TypeInv
  PROVE  /\ prep \in Seq(Listener) /\ regular \in Seq(Listener)
         /\ ToSet(prep) \subseteq Listener /\ ToSet(regular) \subseteq Listener
         /\ link \in [Listener -> LinkState] /\ srvId \in [Listener -> Id]
         /\ lstZone \in [Listener -> SUBSET Zone] /\ gsrvIdCursor \in Nat
BY ToSetType DEF TypeInv, TypeOK

\* removeGameServer with a proxy manager: the listener leaves everything.
LEMMA Removed ==
  ASSUME TypeInv, RegistryConsistent, NEW l \in Listener, ServerLost(l)
  PROVE  /\ prep' \in Seq(Listener) /\ regular' \in Seq(Listener)
         /\ IsInjective(prep') /\ IsInjective(regular')
         /\ ToSet(prep') = ToSet(prep) \ {l} /\ ToSet(regular') = ToSet(regular) \ {l}
         /\ connSucc' = connSucc \ {l}
         /\ link' = [link EXCEPT ![l] = "gone"]
         /\ lstZone' = [lstZone EXCEPT ![l] = {}]
         /\ zoneServer' = [z \in Zone |-> IF z \in lstZone[l] THEN 0 ELSE zoneServer[z]]
         /\ zoneGroups' = Append(zoneGroups, lstZone[l])
         /\ srvId' = srvId /\ gsrvIdCursor' = gsrvIdCursor /\ pm' = pm
         /\ iFlag' = 9 /\ waiting' = waiting
<1>1. pm
  BY DEF ServerLost, RegistryConsistent
<1>2. /\ prep' = RemoveFirst(prep, l) /\ regular' = RemoveFirst(regular, l)
      /\ connSucc' = connSucc \ {l} /\ lstZone' = [lstZone EXCEPT ![l] = {}]
  BY <1>1 DEF ServerLost, RemoveGameServer
<1>3. IsInjective(prep) /\ IsInjective(regular)
  BY DEF RegistryConsistent
<1>4. QED
  BY <1>2, <1>3, Queues, RemoveFirstProperties
     DEF ServerLost, RemoveGameServer, RecoveryManagedZone, ctlVars

\* A join: the one announced listener gets an id of its own.
LEMMA Joined ==
  ASSUME TypeInv, RegistryConsistent, AcceptGameServer
  PROVE  LET l == Head(prep) IN
         /\ l \in ToSet(prep) /\ l \in Announcing /\ l \notin ToSet(regular)
         /\ prep' = Tail(prep) /\ prep' \in Seq(Listener) /\ IsInjective(prep')
         /\ ToSet(prep') = ToSet(prep) \ {l}
         /\ regular' \in Seq(Listener) /\ IsInjective(regular')
         /\ ToSet(regular') = ToSet(regular) \cup {l}
         /\ srvId' = [srvId EXCEPT ![l] = gsrvIdCursor + 1]
         /\ gsrvIdCursor + 1 \notin RegularIds
         /\ connSucc' = connSucc /\ link' = link /\ pm' = pm
         /\ AddGameServerToMST(l)
<1> DEFINE l == Head(prep)
<1>1. /\ prep # <<>> /\ l \in connSucc /\ prep' = Tail(prep)
      /\ regular' = Append(regular, l) /\ AddGameServerToMST(l)
      /\ srvId' = [srvId EXCEPT ![l] = gsrvIdCursor + 1]
      /\ connSucc' = connSucc /\ link' = link /\ pm' = pm
  BY DEF AcceptGameServer, AllocateSrvId
<1>2. IsInjective(prep) /\ IsInjective(regular) /\ ToSet(prep) \cap ToSet(regular) = {}
  BY DEF RegistryConsistent
<1>3. /\ l \in ToSet(prep) /\ ToSet(prep') = ToSet(prep) \ {l} /\ l \in Listener
      /\ prep' \in Seq(Listener) /\ IsInjective(prep')
  BY <1>1, <1>2, Queues, TailProperties
<1>4. l \in Announcing
  BY <1>1, <1>3 DEF Announcing
<1>5. /\ regular' \in Seq(Listener) /\ IsInjective(regular')
      /\ ToSet(regular') = ToSet(regular) \cup {l}
  <2> HIDE DEF l
  <2>1. l \notin ToSet(regular)
    BY <1>2, <1>3
  <2>2. QED
    BY <1>1, <1>2, <1>3, <2>1, Queues, AppendToSet
<1>6. gsrvIdCursor + 1 \notin RegularIds
  BY <1>4 DEF RegistryConsistent
<1>7. QED
  BY <1>1, <1>2, <1>3, <1>4, <1>5, <1>6

\* The steps that change neither the registry nor who lists what.
LEMMA RegistryChanges ==
  ASSUME Next
  PROVE  \/ UNCHANGED <<prep, regular, connSucc, srvId, gsrvIdCursor, link, pm>>
            /\ (UNCHANGED lstZone \/ ChangeMST \/ RecoverMST)
         \/ \E l \in Listener : Connect(l) \/ Announce(l) \/ ServerLost(l) \/ GsCrash(l)
         \/ AcceptNothing \/ AcceptRefused \/ AcceptGameServer
         \/ AddProxyMgrServer \/ OnProxyMgrServerException
<1> DEFINE Kept == /\ UNCHANGED <<prep, regular, connSucc, srvId, gsrvIdCursor, link, pm>>
                   /\ UNCHANGED lstZone \/ ChangeMST \/ RecoverMST
<1>1. ASSUME IlmStep
      PROVE  Kept \/ AcceptNothing \/ AcceptRefused \/ AcceptGameServer
  BY <1>1 DEF IlmStep, EndLoopWait, EndAcceptWait, EndQuery, DoNothing, SendLock, WaitLockReply,
              StartPartition, WaitPartitionReply, ChangeMST, EndMstWait, SendUnlock,
              WaitUnlockReply, FinishPlan, RecoverMST, AllReplied, TimedOut,
              srvVars, dirVars, netVars
<1>2. ASSUME NewPlan \/ Terminate
      PROVE  Kept
  BY <1>2 DEF NewPlan, GetPlanFromConsole, MakePlan, Terminate, srvVars, dirVars, netVars
<1>3. ASSUME NEW l \in Listener, OnReply(l) \/ GsStep(l)
      PROVE  Kept
  BY <1>3 DEF OnReply, GsStep, Answer, TransferFails, Transfer, srvVars, dirVars
<1>4. QED
  BY <1>1, <1>2, <1>3 DEF Next

LEMMA RegistryStep ==
  ASSUME OwnershipRulesHold, TypeInv, OwnInv, Next, Discipline
  PROVE  RegistryConsistent'
<1> USE Queues
<1>1. RegistryConsistent /\ IdsRule /\ PmRule /\ (PlanRuns => plan.from # plan.to)
  BY Discipline4 DEF OwnInv, PlanZoneAtParty
<1>2. CASE UNCHANGED <<prep, regular, connSucc, srvId, gsrvIdCursor, link, pm>>
           /\ (UNCHANGED lstZone \/ ChangeMST \/ RecoverMST)
  <2>1. \A l \in Listener \ ToSet(regular') : lstZone'[l] = {}
    <3>1. CASE UNCHANGED lstZone
      BY <1>1, <1>2, <3>1 DEF RegistryConsistent
    <3>2. CASE ChangeMST \/ RecoverMST
      <4>1. From \in ToSet(regular) /\ To \in ToSet(regular)
        BY <1>1, <3>2, Parties
      <4>2. \A l \in Listener \ ToSet(regular) : lstZone'[l] = lstZone[l]
        BY <3>2, <4>1 DEF ChangeMST, RecoverMST, HandZone
      <4>3. QED
        BY <1>1, <1>2, <4>2 DEF RegistryConsistent
    <3>3. QED
      BY <1>2, <3>1, <3>2
  <2>2. QED
    BY <1>1, <1>2, <2>1 DEF RegistryConsistent, Announcing, RegularIds, IsInjective
<1>3. ASSUME NEW l \in Listener, Connect(l)
      PROVE  RegistryConsistent'
  <2>1. link[l] = "new" /\ prep' = Append(prep, l) /\ link' = [link EXCEPT ![l] = "up"]
        /\ UNCHANGED <<regular, connSucc, srvId, gsrvIdCursor, lstZone, pm>>
    BY <1>3 DEF Connect, dirVars
  <2>2. l \notin ToSet(prep) /\ l \notin ToSet(regular) /\ l \notin connSucc
    BY <1>1, <2>1 DEF RegistryConsistent
  <2>3. ToSet(prep') = ToSet(prep) \cup {l} /\ IsInjective(prep')
    BY <1>1, <2>1, <2>2, AppendToSet DEF RegistryConsistent
  <2>4. Announcing' = Announcing /\ RegularIds' = RegularIds
    BY <2>1, <2>2, <2>3 DEF Announcing, RegularIds
  <2>5. QED
    BY <1>1, <2>1, <2>2, <2>3, <2>4 DEF RegistryConsistent
<1>4. ASSUME NEW l \in Listener, Announce(l)
      PROVE  RegistryConsistent'
  <2>1. /\ l \in ToSet(prep) /\ l \notin connSucc /\ connSucc' = connSucc \cup {l}
        /\ UNCHANGED <<prep, regular, srvId, gsrvIdCursor, lstZone, link, pm>>
    BY <1>4 DEF Announce, dirVars, netVars
  <2>2. Announcing = {} /\ gsrvIdCursor + 1 \notin RegularIds
    BY <1>1, <2>1 DEF IdsRule
  <2>3. Announcing' = {l} /\ RegularIds' = RegularIds
    BY <2>1, <2>2 DEF Announcing, RegularIds
  <2>4. QED
    BY <1>1, <2>1, <2>2, <2>3 DEF RegistryConsistent
<1>5. ASSUME NEW l \in Listener, ServerLost(l)
      PROVE  RegistryConsistent'
  <2> DEFINE R == /\ IsInjective(prep') /\ IsInjective(regular')
                  /\ ToSet(prep') = ToSet(prep) \ {l} /\ ToSet(regular') = ToSet(regular) \ {l}
                  /\ connSucc' = connSucc \ {l}
                  /\ link' = [link EXCEPT ![l] = "gone"]
                  /\ lstZone' = [lstZone EXCEPT ![l] = {}]
                  /\ srvId' = srvId /\ gsrvIdCursor' = gsrvIdCursor /\ pm' = pm
  <2>1. R
    BY <1>1, <1>5, Removed
  <2>2. Announcing' \subseteq Announcing /\ RegularIds' \subseteq RegularIds
    BY <2>1 DEF Announcing, RegularIds
  <2>3. \A m \in Listener \ ToSet(regular') : lstZone'[m] = {}
    BY <1>1, <2>1 DEF RegistryConsistent
  <2>4. \A m \in Listener :
           m \in ToSet(prep') \cup ToSet(regular') <=> link'[m] \in {"up", "down"}
    BY <1>1, <2>1 DEF RegistryConsistent
  <2>5. \A m \in Listener : link'[m] = "down" => pm'
    BY <1>1, <2>1 DEF RegistryConsistent
  <2>6. QED
    BY <1>1, <2>1, <2>2, <2>3, <2>4, <2>5 DEF RegistryConsistent
<1>6. ASSUME NEW l \in Listener, GsCrash(l)
      PROVE  RegistryConsistent'
  <2>1. /\ link[l] = "up" /\ link' = [link EXCEPT ![l] = "down"]
        /\ UNCHANGED <<prep, regular, connSucc, srvId, gsrvIdCursor, lstZone, pm>>
    BY <1>6 DEF GsCrash, srvVars, dirVars
  <2>2. pm
    BY <1>1, <2>1 DEF PmRule
  <2>3. QED
    BY <1>1, <2>1, <2>2 DEF RegistryConsistent, Announcing, RegularIds, IsInjective
<1>7. CASE AcceptNothing
  <2>1. UNCHANGED <<regular, connSucc, srvId, gsrvIdCursor, lstZone, link, pm>>
    BY <1>7 DEF AcceptNothing, dirVars, netVars
  <2>2. IsInjective(prep') /\ ToSet(prep') = ToSet(prep)
    <3>1. CASE UNCHANGED prep
      BY <1>1, <3>1 DEF RegistryConsistent, IsInjective
    <3>2. CASE prep # <<>> /\ prep' = Append(Tail(prep), Head(prep))
      <4> DEFINE h == Head(prep)
                 t == Tail(prep)
      <4>1. /\ t \in Seq(Listener) /\ IsInjective(t)
            /\ h \in Listener /\ h \notin ToSet(t)
            /\ ToSet(prep) = ToSet(t) \cup {h}
        BY <1>1, <3>2, TailProperties, HeadTailProperties DEF RegistryConsistent
      <4>2. prep' = Append(t, h)
        BY <3>2
      <4> HIDE DEF h, t
      <4>3. ToSet(Append(t, h)) = ToSet(t) \cup {h} /\ IsInjective(Append(t, h))
        BY <4>1, AppendToSet
      <4>4. QED
        BY <4>1, <4>2, <4>3
    <3>3. QED
      BY <1>7, <3>1, <3>2 DEF AcceptNothing
  <2>3. Announcing' = Announcing /\ RegularIds' = RegularIds
    BY <2>1, <2>2 DEF Announcing, RegularIds
  <2>4. QED
    BY <1>1, <2>1, <2>2, <2>3 DEF RegistryConsistent, IsInjective
<1>8. CASE AcceptGameServer
  <2> DEFINE l == Head(prep)
  <2>1. /\ l \in ToSet(prep) /\ l \in Announcing /\ l \notin ToSet(regular)
        /\ IsInjective(prep') /\ ToSet(prep') = ToSet(prep) \ {l}
        /\ IsInjective(regular') /\ ToSet(regular') = ToSet(regular) \cup {l}
        /\ srvId' = [srvId EXCEPT ![l] = gsrvIdCursor + 1]
        /\ gsrvIdCursor + 1 \notin RegularIds
        /\ connSucc' = connSucc /\ link' = link /\ pm' = pm
        /\ AddGameServerToMST(l)
    BY <1>1, <1>8, Joined
  <2> HIDE DEF l
  <2>2. Announcing' = {}
    BY <1>1, <2>1 DEF RegistryConsistent, Announcing
  <2>3. \A k, m \in ToSet(regular') : srvId'[k] = srvId'[m] => k = m
    <3>1. \A k \in ToSet(regular) : srvId'[k] = srvId[k] /\ srvId[k] # gsrvIdCursor + 1
      BY <2>1 DEF RegularIds
    <3>2. srvId'[l] = gsrvIdCursor + 1
      BY <2>1
    <3>3. QED
      BY <1>1, <2>1, <3>1, <3>2 DEF RegistryConsistent
  <2>4. \A k \in ToSet(regular') : srvId'[k] # 0
    BY <1>1, <2>1 DEF RegistryConsistent
  <2>5. \A k \in Listener \ ToSet(regular') : lstZone'[k] = {}
    <3>1. \A k \in Listener : k # l => lstZone'[k] = lstZone[k]
      BY <2>1 DEF AddGameServerToMST, dirVars
    <3>2. QED
      BY <1>1, <2>1, <3>1 DEF RegistryConsistent
  <2>6. /\ ToSet(prep') \cap ToSet(regular') = {}
        /\ ToSet(prep') \cup ToSet(regular') = ToSet(prep) \cup ToSet(regular)
        /\ ToSet(regular') \subseteq connSucc'
    BY <1>1, <2>1 DEF RegistryConsistent, Announcing
  <2>7. /\ connSucc' \subseteq ToSet(prep') \cup ToSet(regular')
        /\ \A m \in Listener :
              /\ m \in ToSet(prep') \cup ToSet(regular') <=> link'[m] \in {"up", "down"}
              /\ link'[m] = "down" => pm'
    BY <1>1, <2>1, <2>6 DEF RegistryConsistent
  <2>8. QED
    BY <2>1, <2>2, <2>3, <2>4, <2>5, <2>6, <2>7 DEF RegistryConsistent
<1>9. CASE AddProxyMgrServer \/ OnProxyMgrServerException
  <2>1. UNCHANGED <<prep, regular, connSucc, srvId, gsrvIdCursor, lstZone, link>>
    BY <1>9 DEF AddProxyMgrServer, OnProxyMgrServerException, srvVars, dirVars, netVars
  <2>2. \A m \in Listener : link'[m] = "down" => pm'
    BY <1>1, <1>9, <2>1
       DEF RegistryConsistent, PmRule, AddProxyMgrServer, OnProxyMgrServerException
  <2>3. QED
    BY <1>1, <2>1, <2>2 DEF RegistryConsistent, Announcing, RegularIds, IsInjective
<1>10. QED
  BY <1>1, <1>2, <1>3, <1>4, <1>5, <1>6, <1>7, <1>8, <1>9, NobodyRefused, RegistryChanges

\* The ids of the listeners that have zones do not change.
LEMMA SrvIdKept ==
  ASSUME TypeInv, RegistryConsistent, Next
  PROVE  \A l \in ToSet(regular) : srvId'[l] = srvId[l]
<1>1. CASE AcceptGameServer
  BY <1>1, Joined, Queues
<1>2. ASSUME ~AcceptGameServer
      PROVE  srvId' = srvId
  <2>1. ASSUME NEW l \in Listener, Connect(l) \/ Announce(l) \/ ServerLost(l) \/ GsCrash(l)
        PROVE  srvId' = srvId
    BY <2>1 DEF Connect, Announce, ServerLost, GsCrash, srvVars
  <2>2. CASE AcceptNothing \/ AddProxyMgrServer \/ OnProxyMgrServerException
    BY <2>2 DEF AcceptNothing, AddProxyMgrServer, OnProxyMgrServerException, srvVars
  <2>3. QED
    BY <1>2, <2>1, <2>2, NobodyRefused, RegistryChanges
<1>3. QED
  BY <1>1, <1>2

Ownership == OneServerPerZone /\ RecordedServerHolds

\* A zone with a server is not in the pool, and its server is registered.
LEMMA HolderFacts ==
  ASSUME TypeInv, RegistryConsistent, Ownership, NEW z \in Zone, NEW l \in Listener,
         z \in lstZone[l]
  PROVE  /\ Holders(z) = {l} /\ Pools(z) = {} /\ l \in ToSet(regular)
         /\ zoneServer[z] = srvId[l]
BY Queues DEF Ownership, OneServerPerZone, RecordedServerHolds, Holders, RegistryConsistent

LEMMA OwnershipUnchanged ==
  ASSUME TypeInv, RegistryConsistent, Ownership, Next, UNCHANGED dirVars
  PROVE  Ownership'
<1>1. \A z \in Zone : Holders(z)' = Holders(z) /\ Pools(z)' = Pools(z)
  BY DEF Holders, Pools, dirVars
<1>2. \A z \in Zone : \A l \in Holders(z) : l \in ToSet(regular)
  BY Queues DEF Holders, RegistryConsistent
<1>3. QED
  BY <1>1, <1>2, SrvIdKept DEF Ownership, OneServerPerZone, RecordedServerHolds, dirVars

LEMMA OwnershipLost ==
  ASSUME TypeInv, RegistryConsistent, Ownership, NEW l \in Listener, ServerLost(l)
  PROVE  Ownership'
<1>1. /\ zoneGroups \in Seq(SUBSET Zone) /\ lstZone \in [Listener -> SUBSET Zone]
      /\ zoneServer' = [z \in Zone |-> IF z \in lstZone[l] THEN 0 ELSE zoneServer[z]]
      /\ zoneGroups' = Append(zoneGroups, lstZone[l])
      /\ lstZone' = [lstZone EXCEPT ![l] = {}] /\ srvId' = srvId
  BY Removed DEF TypeInv, TypeOK
<1>2. /\ DOMAIN zoneGroups = 1 .. Len(zoneGroups)
      /\ DOMAIN zoneGroups' = 1 .. Len(zoneGroups) + 1 /\ Len(zoneGroups) \in Nat
      /\ zoneGroups'[Len(zoneGroups) + 1] = lstZone[l]
      /\ \A i \in 1 .. Len(zoneGroups) : zoneGroups'[i] = zoneGroups[i]
  BY <1>1
<1>3. ASSUME NEW z \in Zone, z \in lstZone[l]
      PROVE  Holders(z)' = {} /\ Pools(z)' = {Len(zoneGroups) + 1} /\ zoneServer'[z] = 0
  <2>1. Holders(z) = {l} /\ Pools(z) = {}
    BY <1>3, HolderFacts
  <2>2. Holders(z)' = {}
    BY <1>1, <2>1 DEF Holders
  <2>3. \A i \in 1 .. Len(zoneGroups) : z \notin zoneGroups[i]
    BY <1>2, <2>1 DEF Pools
  <2>4. Pools(z)' = {Len(zoneGroups) + 1}
    BY <1>2, <1>3, <2>3 DEF Pools
  <2>5. QED
    BY <1>1, <1>3, <2>2, <2>4
<1>4. ASSUME NEW z \in Zone, z \notin lstZone[l]
      PROVE  Holders(z)' = Holders(z) /\ Pools(z)' = Pools(z) /\ zoneServer'[z] = zoneServer[z]
  <2>1. Holders(z)' = Holders(z)
    BY <1>1, <1>4 DEF Holders
  <2>2. Pools(z)' = Pools(z)
    BY <1>2, <1>4 DEF Pools
  <2>3. QED
    BY <1>1, <1>4, <2>1, <2>2
<1>5. QED
  BY <1>1, <1>3, <1>4 DEF Ownership, OneServerPerZone, RecordedServerHolds

LEMMA OwnershipJoin ==
  ASSUME TypeInv, RegistryConsistent, Ownership, Next, AcceptGameServer
  PROVE  Ownership'
<1> DEFINE l == Head(prep)
<1>1. /\ l \in Listener /\ l \notin ToSet(regular) /\ lstZone[l] = {}
      /\ AddGameServerToMST(l)
  BY Joined, Queues DEF RegistryConsistent
<1> HIDE DEF l
<1>2. CASE zoneGroups = <<>>
  BY <1>1, <1>2, OwnershipUnchanged DEF AddGameServerToMST
<1>3. CASE zoneGroups # <<>>
  <2>1. /\ zoneGroups \in Seq(SUBSET Zone) /\ lstZone \in [Listener -> SUBSET Zone]
        /\ zoneGroups' = Tail(zoneGroups)
        /\ lstZone' = [lstZone EXCEPT ![l] = @ \cup Head(zoneGroups)]
        /\ zoneServer' = [z \in Zone |-> IF z \in Head(zoneGroups) THEN srvId'[l]
                                                                  ELSE zoneServer[z]]
    BY <1>1, <1>3 DEF AddGameServerToMST, TypeInv, TypeOK
  <2>2. /\ DOMAIN zoneGroups = 1 .. Len(zoneGroups) /\ Len(zoneGroups) \in Nat \ {0}
        /\ DOMAIN zoneGroups' = 1 .. Len(zoneGroups) - 1
        /\ \A i \in 1 .. Len(zoneGroups) - 1 : zoneGroups'[i] = zoneGroups[i + 1]
        /\ Head(zoneGroups) = zoneGroups[1]
    BY <1>3, <2>1
  <2>3. ASSUME NEW z \in Zone, NEW i \in Pools(z)'
        PROVE  i + 1 \in Pools(z) /\ i \in Nat \ {0}
    <3>1. i \in 1 .. Len(zoneGroups) - 1 /\ z \in zoneGroups[i + 1]
      BY <2>2 DEF Pools
    <3>2. i + 1 \in 1 .. Len(zoneGroups)
      BY <2>2, <3>1
    <3>3. QED
      BY <2>2, <3>1, <3>2 DEF Pools
  <2>4. ASSUME NEW z \in Zone, z \in Head(zoneGroups)
        PROVE  Holders(z)' = {l} /\ Pools(z)' = {} /\ zoneServer'[z] = srvId'[l]
    <3>1. 1 \in Pools(z)
      BY <2>2, <2>4 DEF Pools
    <3>2. Holders(z) = {} /\ \A i \in Pools(z) : i = 1
      BY <3>1 DEF Ownership, OneServerPerZone
    <3>3. Pools(z)' = {}
      <4>1. SUFFICES ASSUME NEW i \in Pools(z)' PROVE FALSE
        OBVIOUS
      <4>2. i + 1 = 1 /\ i \in Nat \ {0}
        BY <2>3, <3>2
      <4>3. QED
        BY <4>2
    <3>4. Holders(z)' = {l}
      BY <1>1, <2>1, <2>4, <3>2 DEF Holders
    <3>5. QED
      BY <2>1, <2>4, <3>3, <3>4
  <2>5. ASSUME NEW z \in Zone, z \notin Head(zoneGroups)
        PROVE  /\ Holders(z)' = Holders(z) /\ zoneServer'[z] = zoneServer[z]
               /\ \A i, j \in Pools(z)' : i = j
               /\ Pools(z)' # {} => Pools(z) # {}
    <3>1. Holders(z)' = Holders(z)
      BY <1>1, <2>1, <2>5 DEF Holders
    <3>2. ASSUME NEW i \in Pools(z)', NEW j \in Pools(z)'
          PROVE  i = j
      <4>1. i + 1 \in Pools(z) /\ j + 1 \in Pools(z) /\ i \in Nat /\ j \in Nat
        BY <2>3
      <4>2. i + 1 = j + 1
        BY <4>1 DEF Ownership, OneServerPerZone
      <4>3. QED
        BY <4>1, <4>2
    <3>3. Pools(z)' # {} => Pools(z) # {}
      BY <2>3
    <3>4. QED
      BY <2>1, <2>5, <3>1, <3>2, <3>3
  <2>6. \A z \in Zone : \A k \in Holders(z) : k \in ToSet(regular) /\ srvId'[k] = srvId[k]
    BY SrvIdKept, Queues DEF Holders, RegistryConsistent
  <2>7. QED
    BY <2>4, <2>5, <2>6 DEF Ownership, OneServerPerZone, RecordedServerHolds
<1>4. QED
  BY <1>2, <1>3

LEMMA OwnershipHandZone ==
  ASSUME TypeInv, RegistryConsistent, Ownership, Next,
         NEW a \in ToSet(regular), NEW b \in ToSet(regular), a # b, NEW z \in Zone, NEW r,
         HandZone(z, a, b, r), z \in lstZone[a] \cup lstZone[b],
         z \in lstZone[a] => r = srvId[a]
  PROVE  /\ Ownership'
         /\ lstZone' = [m \in Listener |->
                          CASE m = a -> lstZone[a] \cup {z} [] m = b -> lstZone[b] \ {z}
                            [] OTHER -> lstZone[m]]
<1>1. /\ lstZone \in [Listener -> SUBSET Zone] /\ zoneServer \in [Zone -> Id]
      /\ a \in Listener /\ b \in Listener
      /\ lstZone' = [[lstZone EXCEPT ![a] = @ \cup {z}] EXCEPT ![b] = @ \ {z}]
      /\ zoneServer' = [zoneServer EXCEPT ![z] = IF z \in lstZone[a] THEN r ELSE srvId[a]]
      /\ zoneGroups' = zoneGroups
  BY Queues DEF HandZone, TypeInv, TypeOK
<1>2. lstZone' = [m \in Listener |->
                    CASE m = a -> lstZone[a] \cup {z} [] m = b -> lstZone[b] \ {z}
                      [] OTHER -> lstZone[m]]
  BY <1>1
<1>3. \A y \in Zone : Pools(y)' = Pools(y)
  BY <1>1 DEF Pools
<1>4. Holders(z)' = {a} /\ Pools(z) = {} /\ zoneServer'[z] = srvId[a]
  <2>1. Pools(z) = {} /\ Holders(z) \subseteq {a, b}
    BY <1>1, HolderFacts
  <2>2. Holders(z)' = {a}
    BY <1>2, <1>1, <2>1 DEF Holders
  <2>3. zoneServer'[z] = srvId[a]
    BY <1>1
  <2>4. QED
    BY <2>1, <2>2, <2>3
<1>5. \A y \in Zone : y # z => Holders(y)' = Holders(y) /\ zoneServer'[y] = zoneServer[y]
  BY <1>1, <1>2 DEF Holders
<1>6. \A y \in Zone : \A k \in Holders(y) : k \in ToSet(regular) /\ srvId'[k] = srvId[k]
  BY SrvIdKept, Queues DEF Holders, RegistryConsistent
<1>7. srvId'[a] = srvId[a]
  BY SrvIdKept
<1>8. QED
  BY <1>2, <1>3, <1>4, <1>5, <1>6, <1>7 DEF Ownership, OneServerPerZone, RecordedServerHolds

LEMMA OwnershipStep ==
  ASSUME TypeInv, OwnInv, Next
  PROVE  Ownership'
<1>1. RegistryConsistent /\ Ownership /\ (PlanRuns => plan.from # plan.to)
  BY DEF OwnInv, Ownership, PlanZoneAtParty
<1>2. CASE UNCHANGED dirVars
  BY <1>1, <1>2, OwnershipUnchanged
<1>3. ASSUME NEW l \in Listener, ServerLost(l)
      PROVE  Ownership'
  BY <1>1, <1>3, OwnershipLost
<1>4. CASE AcceptGameServer
  BY <1>1, <1>4, OwnershipJoin
<1>5. CASE ChangeMST
  <2>1. /\ From \in ToSet(regular) /\ To \in ToSet(regular) /\ From # To
        /\ srvId[From] = plan.from /\ srvId[To] = plan.to /\ PlanRuns /\ plan.zone \in Zone
    BY <1>1, <1>5, Parties
  <2>2. plan.zone \in lstZone[From] \cup lstZone[To]
    BY <2>1 DEF OwnInv, PlanZoneAtParty
  <2>3. HandZone(plan.zone, To, From, plan.to)
    BY <1>5 DEF ChangeMST
  <2>4. QED
    BY <1>1, <2>1, <2>2, <2>3, OwnershipHandZone
<1>6. CASE RecoverMST
  <2>1. /\ From \in ToSet(regular) /\ To \in ToSet(regular) /\ From # To
        /\ srvId[From] = plan.from /\ srvId[To] = plan.to /\ PlanRuns /\ plan.zone \in Zone
        /\ ToSet(regular) \subseteq Listener
    BY <1>1, <1>6, Parties
  <2>2. plan.zone \in lstZone[To]
    BY <1>6, <2>1 DEF OwnInv, PlanZoneAtParty, Changed, RecoverMST
  <2>3. plan.zone \notin lstZone[From]
    BY <1>1, <2>1, <2>2 DEF Ownership, OneServerPerZone, Holders
  <2>4. HandZone(plan.zone, From, To, plan.to)
    BY <1>6 DEF RecoverMST
  <2>5. QED
    BY <1>1, <2>1, <2>2, <2>3, <2>4, OwnershipHandZone
<1>7. QED
  BY <1>1, <1>2, <1>3, <1>4, <1>5, <1>6, NobodyRefused, DirectoryChanges

\* A stage that finds no missing party does not enter the part of the plan
\* that follows changeMST other than through changeMST.
LEMMA ChangedKept ==
  ASSUME TypeInv, Next, Changed', PlanRuns, PlanRuns'
  PROVE  \/ Changed \/ ChangeMST
         \/ StartPartition /\ NoListener \in {From, To}
<1> USE DEF Changed
<1>1. PlanInv /\ waiting \in {0, 1, 2, 3, 4, 5, 7, 8}
  BY DEF TypeInv, TypeOK
<1>2. ASSUME iFlag' = iFlag /\ waiting' = waiting
      PROVE  Changed
  BY <1>2
<1>3. CASE SendLock \/ WaitLockReply \/ WaitPartitionReply
  BY <1>3 DEF SendLock, WaitLockReply, WaitPartitionReply, WaitGameServerReply, NextStage
<1>4. CASE StartPartition /\ NoListener \notin {From, To}
  BY <1>4 DEF StartPartition, WaitGameServerReply, NextStage
<1>5. CASE EndMstWait
  BY <1>1, <1>5 DEF EndMstWait, PlanInv
<1>6. CASE SendUnlock \/ WaitUnlockReply
  BY <1>6 DEF SendUnlock, WaitUnlockReply
<1>7. CASE FinishPlan
  BY <1>7 DEF FinishPlan, PlanRuns, NoPlan
<1>8. CASE RecoverMST
  BY <1>8 DEF RecoverMST
<1>9. CASE AllReplied
  BY <1>1, <1>9 DEF AllReplied, NextStage, PlanInv
<1>10. CASE TimedOut
  BY <1>10 DEF TimedOut
<1>11. ASSUME NEW l \in Listener, ServerLost(l)
       PROVE  Changed
  BY <1>11 DEF ServerLost, RemoveGameServer, ctlVars
<1>12. CASE AcceptRefused
  BY <1>12 DEF AcceptRefused, RemoveGameServer, ctlVars
<1>13. ASSUME EndLoopWait \/ AcceptNothing \/ AcceptGameServer \/ EndAcceptWait \/ EndQuery
              \/ DoNothing \/ Terminate \/ AddProxyMgrServer \/ OnProxyMgrServerException
       PROVE  Changed
  BY <1>2, <1>13 DEF EndLoopWait, AcceptNothing, AcceptGameServer, EndAcceptWait, EndQuery,
       DoNothing, Terminate, AddProxyMgrServer, OnProxyMgrServerException, planVars, ctlVars
<1>14. ASSUME NEW l \in Listener,
              Connect(l) \/ Announce(l) \/ OnReply(l) \/ GsStep(l) \/ GsCrash(l)
       PROVE  Changed
  BY <1>2, <1>14 DEF Connect, Announce, OnReply, GsStep, Answer, TransferFails, Transfer,
       GsCrash, planVars, ctlVars
<1>15. CASE NewPlan
  BY <1>15 DEF NewPlan, GetPlanFromConsole, MakePlan, Adopt, PlanRuns
<1>16. QED
  BY <1>3, <1>4, <1>5, <1>6, <1>7, <1>8, <1>9, <1>10, <1>11, <1>12, <1>13, <1>14, <1>15
     DEF Next, IlmStep

LEMMA PlanZoneStep ==
  ASSUME OwnershipRulesHold, TypeInv, OwnInv, Next, Discipline
  PROVE  PlanZoneAtParty'
<1> DEFINE Parties2(f, t) == srvId[f] = plan.from /\ srvId[t] = plan.to
<1>1. RegistryConsistent /\ PlanZoneAtParty /\ Ownership /\ PlanRule /\ JoinRule
  BY Discipline4 DEF OwnInv, Ownership
<1>2. ASSUME NewPlan, NewPlanNow
      PROVE  PlanZoneAtParty'
  <2>1. /\ UNCHANGED <<prep, regular, connSucc, srvId, lstZone>> /\ iFlag' = 1
        /\ waiting' = waiting
    BY <1>2 DEF NewPlan, GetPlanFromConsole, MakePlan, Adopt, srvVars, dirVars, ctlVars
  <2>2. waiting = 0
    BY <1>2 DEF NewPlan, GetPlanFromConsole, MakePlan, TypeInv, PlanInv, NewPlanNow, Window
  <2>3. ~Changed'
    BY <2>1, <2>2 DEF Changed
  <2>4. Announcing' = {}
    BY <1>1, <1>2, <2>1 DEF JoinRule, Announcing
  <2>5. plan'.from # plan'.to
    BY <1>1, <1>2 DEF PlanRule
  <2>6. \A f \in ToSet(regular) : srvId[f] = plan'.from => plan'.zone \in lstZone[f]
    BY <1>1, <1>2 DEF PlanRule, RegistryConsistent
  <2>7. QED
    BY <2>1, <2>3, <2>4, <2>5, <2>6 DEF PlanZoneAtParty
<1>3. ASSUME PlanRuns, PlanRuns',
             plan'.from = plan.from, plan'.to = plan.to, plan'.zone = plan.zone
      PROVE  PlanZoneAtParty'
  <2>1. Announcing = {} /\ plan.from # plan.to /\ connSucc' \subseteq connSucc
    BY <1>1, <1>3 DEF PlanZoneAtParty, JoinRule
  <2>2. ~AcceptGameServer
    BY <1>1, <2>1, Joined
  <2>3. /\ ToSet(regular') \subseteq ToSet(regular)
        /\ \A l \in ToSet(prep') : l \in ToSet(prep) \/ link[l] = "new"
    <3>1. ASSUME NEW l \in Listener, Connect(l)
          PROVE  ToSet(prep') = ToSet(prep) \cup {l} /\ link[l] = "new" /\ regular' = regular
      BY <3>1, Queues, AppendToSet DEF Connect
    <3>2. ASSUME NEW l \in Listener, Announce(l) \/ GsCrash(l)
          PROVE  prep' = prep /\ regular' = regular
      BY <3>2 DEF Announce, GsCrash, srvVars
    <3>3. ASSUME NEW l \in Listener, ServerLost(l)
          PROVE  ToSet(prep') \subseteq ToSet(prep) /\ ToSet(regular') \subseteq ToSet(regular)
      BY <1>1, <3>3, Removed
    <3>4. CASE AcceptNothing
      <4>1. CASE UNCHANGED prep
        BY <3>4, <4>1 DEF AcceptNothing
      <4>2. CASE prep # <<>> /\ prep' = Append(Tail(prep), Head(prep))
        <5> DEFINE h == Head(prep)
                   t == Tail(prep)
        <5>1. /\ t \in Seq(Listener) /\ h \in Listener
              /\ ToSet(prep) = ToSet(t) \cup {h} /\ prep' = Append(t, h)
          BY <4>2, Queues, TailProperties, HeadTailProperties
        <5> HIDE DEF h, t
        <5>2. ToSet(Append(t, h)) = ToSet(t) \cup {h}
          BY <5>1, AppendToSet
        <5>3. QED
          BY <3>4, <5>1, <5>2 DEF AcceptNothing
      <4>3. QED
        BY <3>4, <4>1, <4>2 DEF AcceptNothing
    <3>5. CASE AddProxyMgrServer \/ OnProxyMgrServerException
      BY <3>5 DEF AddProxyMgrServer, OnProxyMgrServerException, srvVars
    <3>6. QED
      BY <1>1, <2>2, <3>1, <3>2, <3>3, <3>4, <3>5, NobodyRefused, RegistryChanges
  <2>4. Announcing' = {}
    BY <1>1, <2>1, <2>3, Queues DEF Announcing, RegistryConsistent
  <2>5. ASSUME NEW f \in ToSet(regular'), NEW t \in ToSet(regular'), Parties2(f, t)'
        PROVE  /\ plan'.zone \in lstZone'[f] \cup lstZone'[t]
               /\ Changed' => plan'.zone \in lstZone'[t]
    <3>1. f \in ToSet(regular) /\ t \in ToSet(regular) /\ Parties2(f, t)
      BY <1>1, <1>3, <2>3, <2>5, SrvIdKept
    <3>2. /\ plan.zone \in lstZone[f] \cup lstZone[t]
          /\ Changed => plan.zone \in lstZone[t]
      BY <1>1, <1>3, <3>1 DEF PlanZoneAtParty
    <3>3. CASE ChangeMST \/ RecoverMST
      <4>1. /\ From = f /\ To = t /\ f # t /\ plan.zone \in Zone
            /\ ToSet(regular) \subseteq Listener
        BY <1>1, <2>1, <3>1, <3>3, Parties DEF RegistryConsistent
      <4>2. CASE ChangeMST
        <5>1. HandZone(plan.zone, t, f, plan.to)
          BY <4>1, <4>2 DEF ChangeMST
        <5>2. plan.zone \in lstZone'[t]
          BY <1>1, <3>1, <3>2, <4>1, <5>1, OwnershipHandZone
        <5>3. QED
          BY <1>3, <5>2
      <4>3. CASE RecoverMST
        <5>1. HandZone(plan.zone, f, t, plan.to) /\ Changed
          BY <4>1, <4>3 DEF RecoverMST, Changed
        <5>2. plan.zone \in lstZone[t] /\ plan.zone \notin lstZone[f]
          BY <1>1, <3>1, <3>2, <4>1, <5>1 DEF Ownership, OneServerPerZone, Holders
        <5>3. plan.zone \in lstZone'[f]
          BY <1>1, <3>1, <4>1, <5>1, <5>2, OwnershipHandZone
        <5>4. ~Changed'
          BY <4>3 DEF RecoverMST, Changed, TypeInv, PlanInv
        <5>5. QED
          BY <1>3, <5>3, <5>4
      <4>4. QED
        BY <3>3, <4>2, <4>3
    <3>4. CASE ~ChangeMST /\ ~RecoverMST
      <4>1. lstZone'[f] = lstZone[f] /\ lstZone'[t] = lstZone[t]
        <5>1. CASE UNCHANGED dirVars
          BY <5>1 DEF dirVars
        <5>2. ASSUME NEW l \in Listener, ServerLost(l)
              PROVE  lstZone'[f] = lstZone[f] /\ lstZone'[t] = lstZone[t]
          <6>1. ToSet(regular') = ToSet(regular) \ {l} /\ lstZone' = [lstZone EXCEPT ![l] = {}]
            BY <1>1, <5>2, Removed
          <6>2. QED
            BY <2>5, <3>1, <6>1, Queues
        <5>3. QED
          BY <1>1, <2>2, <3>4, <5>1, <5>2, NobodyRefused, DirectoryChanges
      <4>2. Changed' => Changed
        <5>1. ~(StartPartition /\ NoListener \in {From, To})
          <6>1. plan.from \in RegularIds /\ plan.to \in RegularIds
            BY <3>1 DEF RegularIds
          <6>2. From # NoListener /\ To # NoListener
            BY <6>1, FindProperties DEF From, To, TypeInv
          <6>3. QED
            BY <6>2
        <5>2. QED
          BY <1>3, <3>4, <5>1, ChangedKept
      <4>3. QED
        BY <1>3, <3>2, <4>1, <4>2
    <3>5. QED
      BY <3>3, <3>4
  <2>6. QED
    BY <1>3, <2>1, <2>4, <2>5 DEF PlanZoneAtParty
<1>4. ASSUME ~PlanRuns'
      PROVE  PlanZoneAtParty'
  BY <1>4 DEF PlanZoneAtParty
<1>5. [Next]_vars
  OBVIOUS
<1>6. QED
  BY <1>2, <1>3, <1>4, <1>5, PlanKept DEF PlanRuns, NoPlan

LEMMA OwnStep ==
  ASSUME OwnershipRulesHold, TypeInv, OwnInv, [Next /\ Discipline]_vars
  PROVE  OwnInv'
<1>1. CASE Next /\ Discipline
  BY <1>1, RegistryStep, PlanZoneStep, OwnershipStep DEF OwnInv, Ownership
<1>2. CASE UNCHANGED vars
  BY <1>2 DEF OwnInv, RegistryConsistent, PlanZoneAtParty, OneServerPerZone, RecordedServerHolds,
              Announcing, RegularIds, PlanRuns, Changed, Holders, Pools, IsInjective,
              vars, srvVars, dirVars, planVars, ctlVars, netVars
<1>3. QED
  BY <1>1, <1>2

LEMMA OwnInvHolds ==
  ASSUME OwnershipRulesHold
  PROVE  DisciplinedSpec => []OwnInv
<1>1. TypeInv /\ OwnInv /\ [Next /\ Discipline]_vars => OwnInv'
  BY OwnStep
<1>2. QED
  BY <1>1, OwnInit, DisciplinedTypeInv, PTL DEF DisciplinedSpec

\* Under the four rules a zone is run by one server or waits once in the
\* pool, for any number of servers, zones, groups and replies in flight.
THEOREM ZoneHasOneServer ==
  ASSUME OwnershipRulesHold
  PROVE  DisciplinedSpec => []OneServerPerZone
<1>1. OwnInv => OneServerPerZone
  BY DEF OwnInv
<1>2. QED
  BY <1>1, OwnInvHolds, PTL

\* Under the four rules the MST names the server that lists the zone.
THEOREM DirectoryAgrees ==
  ASSUME OwnershipRulesHold
  PROVE  DisciplinedSpec => []RecordedServerHolds
<1>1. OwnInv => RecordedServerHolds
  BY DEF OwnInv
<1>2. QED
  BY <1>1, OwnInvHolds, PTL

\* Under the four rules doPlan finds the zone of the plan where it takes it
\* from, and every registered server has an id of its own.
THEOREM PlanFindsItsZone ==
  ASSUME OwnershipRulesHold
  PROVE  DisciplinedSpec => [](PlanZoneAtParty /\ RegistryConsistent)
<1>1. OwnInv => PlanZoneAtParty /\ RegistryConsistent
  BY DEF OwnInv
<1>2. QED
  BY <1>1, OwnInvHolds, PTL

\* Under the four rules the two queues of listeners are sound and no two
\* registered servers share an id.
THEOREM RegistryIsSound ==
  ASSUME OwnershipRulesHold
  PROVE  DisciplinedSpec => []RegistryConsistent
<1>1. OwnInv => RegistryConsistent
  BY DEF OwnInv
<1>2. QED
  BY <1>1, OwnInvHolds, PTL
-----------------------------------------------------------------------------
(* The ILM implements ZoneDirectory: every step of its loop, of its        *)
(* callbacks and of the game servers is a step of the abstract directory   *)
(* or leaves it as it is.                                                  *)

\* Without a plan the parties are 0, the id of nobody.
IdleInv == ~PlanRuns => plan.from = 0 /\ plan.to = 0

RefInv == TypeInv /\ OwnInv /\ IdleInv

LEMMA IdleInvHolds == DisciplinedSpec => []IdleInv
<1>1. Init => IdleInv
  BY DEF Init, IdleInv, NoPlan
<1>2. TypeInv /\ IdleInv /\ [Next /\ Discipline]_vars => IdleInv'
  <2>1. ASSUME TypeInv, IdleInv, [Next /\ Discipline]_vars
        PROVE  IdleInv'
    <3>1. [Next]_vars
      BY <2>1
    <3>2. \/ plan' = NoPlan \/ NewPlanNow
          \/ plan'.from = plan.from /\ plan'.to = plan.to /\ plan'.zone = plan.zone
      BY <2>1, <3>1, PlanKept
    <3>3. QED
      BY <2>1, <3>2 DEF IdleInv, PlanRuns, NewPlanNow, NoPlan
  <2>2. QED
    BY <2>1
<1>3. QED
  BY <1>1, <1>2, DisciplinedTypeInv, PTL DEF DisciplinedSpec

\* What the abstract directory sees of a zone and of the plan's parties.
View ==
  /\ Holder = [z \in Zone |-> Holder[z]]
  /\ \A z \in Zone : Holder[z] \in Listener \cup {NoListener}
  /\ \A z \in Zone : \A l \in Listener : (Holder[z] = l) <=> (z \in lstZone[l])
  /\ From \in ToSet(regular) \cup {NoListener} /\ To \in ToSet(regular) \cup {NoListener}
  /\ \A l \in ToSet(regular) : (From = l) <=> (srvId[l] = plan.from)
  /\ \A l \in ToSet(regular) : (To = l) <=> (srvId[l] = plan.to)
  /\ ~PlanRuns => From = NoListener /\ To = NoListener

LEMMA HolderIs ==
  ASSUME OneServerPerZone, NEW z \in Zone
  PROVE  /\ Holder[z] \in Listener \cup {NoListener}
         /\ \A l \in Listener : (Holder[z] = l) <=> (z \in lstZone[l])
<1>1. CASE Holders(z) = {}
  <2>1. Holder[z] = NoListener
    BY <1>1 DEF Holder
  <2>2. \A l \in Listener : z \notin lstZone[l]
    BY <1>1 DEF Holders
  <2>3. QED
    BY <2>1, <2>2, Constants
<1>2. CASE Holders(z) # {}
  <2>1. PICK k \in Listener : Holders(z) = {k}
    BY <1>2 DEF OneServerPerZone, Holders
  <2>2. Holder[z] = k
    BY <2>1 DEF Holder
  <2>3. \A l \in Listener : z \in lstZone[l] <=> l = k
    BY <2>1 DEF Holders
  <2>4. QED
    BY <2>2, <2>3
<1>3. QED
  BY <1>1, <1>2

LEMMA ViewHolds == RefInv => View
<1> SUFFICES ASSUME RefInv PROVE View
  OBVIOUS
<1>1. /\ \A z \in Zone : Holder[z] \in Listener \cup {NoListener}
      /\ \A z \in Zone : \A l \in Listener : (Holder[z] = l) <=> (z \in lstZone[l])
  BY HolderIs DEF RefInv, OwnInv
<1>2. Holder = [z \in Zone |-> Holder[z]]
  BY DEF Holder
<1>3. /\ From \in ToSet(regular) \cup {NoListener} /\ To \in ToSet(regular) \cup {NoListener}
      /\ From \in ToSet(regular) => srvId[From] = plan.from
      /\ To \in ToSet(regular) => srvId[To] = plan.to
      /\ From = NoListener => plan.from \notin RegularIds
      /\ To = NoListener => plan.to \notin RegularIds
  BY FindProperties DEF RefInv, TypeInv, From, To
<1>4. /\ \A l, m \in ToSet(regular) : srvId[l] = srvId[m] => l = m
      /\ \A l \in ToSet(regular) : srvId[l] # 0
      /\ ToSet(regular) \subseteq Listener /\ NoListener \notin Listener
  BY Queues, Constants DEF RefInv, OwnInv, RegistryConsistent
<1>5. /\ \A l \in ToSet(regular) : (From = l) <=> (srvId[l] = plan.from)
      /\ \A l \in ToSet(regular) : (To = l) <=> (srvId[l] = plan.to)
  BY <1>3, <1>4 DEF RegularIds
<1>6. ~PlanRuns => From = NoListener /\ To = NoListener
  BY <1>3, <1>4 DEF RefInv, IdleInv
<1>7. QED
  BY <1>1, <1>2, <1>3, <1>5, <1>6 DEF View

LEMMA SameHolder ==
  ASSUME View, View', lstZone' = lstZone
  PROVE  Holder' = Holder
<1>1. \A z \in Zone : Holder'[z] = Holder[z]
  BY Constants DEF View
<1>2. QED
  BY <1>1 DEF View

\* The registered listeners with the ids of the plan are the same.
LEMMA SameParties ==
  ASSUME View, View', ToSet(regular') = ToSet(regular), ToSet(regular) \subseteq Listener,
         \A l \in ToSet(regular) : srvId'[l] = srvId[l],
         plan'.from = plan.from, plan'.to = plan.to
  PROVE  From' = From /\ To' = To
BY Constants DEF View

LEMMA RefineInit == Init => Directory!DirInit
<1> SUFFICES ASSUME Init PROVE Directory!DirInit
  OBVIOUS
<1>1. RefInv /\ ~PlanRuns /\ plan.zone = 0 /\ lstZone = [l \in Listener |-> {}]
  BY TypeInit, OwnInit DEF RefInv, IdleInv, Init, NoPlan, PlanRuns
<1>2. From = NoListener /\ To = NoListener
  BY <1>1, ViewHolds DEF View
<1>3. Holder = [z \in Zone |-> NoListener]
  BY <1>1, ViewHolds DEF View
<1>4. QED
  BY <1>1, <1>2, <1>3 DEF Directory!DirInit
-----------------------------------------------------------------------------
(* The steps *)

RefState == RefInv /\ View

LEMMA JoinGrants ==
  ASSUME RefState, RefState', AcceptGameServer
  PROVE  \E l \in Listener : Directory!Grant(l)
<1> DEFINE l == Head(prep)
           G == IF zoneGroups = <<>> THEN {} ELSE Head(zoneGroups)
<1>1. TypeInv /\ OwnInv /\ IdleInv /\ View /\ View' /\ RegistryConsistent
  BY DEF RefState, RefInv, OwnInv
<1>2. /\ l \in Listener /\ l \in Announcing /\ l \notin ToSet(regular)
      /\ AddGameServerToMST(l) /\ ToSet(regular') = ToSet(regular) \cup {l}
      /\ srvId' = [srvId EXCEPT ![l] = gsrvIdCursor + 1]
  BY <1>1, Joined, Queues
<1>3. ~PlanRuns /\ plan' = plan
  BY <1>1, <1>2 DEF OwnInv, PlanZoneAtParty, AcceptGameServer
<1>4. UNCHANGED <<plan.zone, From, To>>
  BY <1>1, <1>3 DEF View, PlanRuns
<1>5. lstZone[l] = {} /\ lstZone \in [Listener -> SUBSET Zone]
  BY <1>1, <1>2, Queues DEF RegistryConsistent
<1>6. /\ G \subseteq Zone
      /\ \A z \in G : Pools(z) # {}
  <2>1. CASE zoneGroups = <<>>
    BY <2>1
  <2>2. CASE zoneGroups # <<>>
    <3>1. zoneGroups \in Seq(SUBSET Zone)
      BY <1>1 DEF TypeInv, TypeOK
    <3>2. 1 \in DOMAIN zoneGroups /\ G = zoneGroups[1] /\ G \in SUBSET Zone
      BY <2>2, <3>1
    <3>3. QED
      BY <3>2 DEF Pools
  <2>3. QED
    BY <2>1, <2>2
<1> HIDE DEF l, G
<1>7. /\ lstZone' = [lstZone EXCEPT ![l] = G]
  BY <1>2, <1>5 DEF AddGameServerToMST, dirVars, G
<1>8. G \in SUBSET {z \in Zone : Holder[z] = NoListener}
  BY <1>1, <1>6 DEF View, OwnInv, OneServerPerZone, Holders
<1>9. \A z \in Zone : Holder[z] # l
  BY <1>1, <1>2, <1>5 DEF View
<1>10. Holder' = [z \in Zone |-> IF z \in G THEN l ELSE Holder[z]]
  <2>1. \A z \in Zone : Holder'[z] = IF z \in G THEN l ELSE Holder[z]
    BY <1>1, <1>2, <1>5, <1>7, <1>8, <1>9, Constants DEF View
  <2>2. QED
    BY <1>1, <2>1 DEF View
<1>11. Directory!Grant(l)
  BY <1>3, <1>4, <1>8, <1>9, <1>10 DEF Directory!Grant, PlanRuns
<1>12. QED
  BY <1>2, <1>11

LEMMA LossReleases ==
  ASSUME RefState, RefState', NEW l \in Listener, ServerLost(l)
  PROVE  Directory!Release(l)
<1>1. TypeInv /\ View /\ View' /\ RegistryConsistent
  BY DEF RefState, RefInv, OwnInv
<1>2. /\ ToSet(regular') = ToSet(regular) \ {l} /\ srvId' = srvId
      /\ lstZone' = [lstZone EXCEPT ![l] = {}] /\ plan' = plan
      /\ ToSet(regular) \subseteq Listener /\ lstZone \in [Listener -> SUBSET Zone]
  BY <1>1, Removed, Queues DEF ServerLost
<1>3. Holder' = [z \in Zone |-> IF Holder[z] = l THEN NoListener ELSE Holder[z]]
  <2>1. \A z \in Zone : Holder'[z] = IF Holder[z] = l THEN NoListener ELSE Holder[z]
    BY <1>1, <1>2, Constants DEF View
  <2>2. QED
    BY <1>1, <2>1 DEF View
<1>4. From' = IF From = l THEN NoListener ELSE From
  BY <1>1, <1>2, Constants DEF View
<1>5. To' = IF To = l THEN NoListener ELSE To
  BY <1>1, <1>2, Constants DEF View
<1>6. QED
  BY <1>2, <1>3, <1>4, <1>5 DEF Directory!Release

\* The zone goes to a from b, which both are parties.
LEMMA HandMoves ==
  ASSUME View, View', NEW a \in Listener, NEW b \in Listener, a # b, plan.zone \in Zone,
         lstZone \in [Listener -> SUBSET Zone],
         lstZone' = [[lstZone EXCEPT ![a] = @ \cup {plan.zone}] EXCEPT ![b] = @ \ {plan.zone}],
         plan.zone \in lstZone[a] \cup lstZone[b]
  PROVE  /\ Holder[plan.zone] \in {a, b}
         /\ Holder' = [Holder EXCEPT ![plan.zone] = a]
<1>1. Holder[plan.zone] \in {a, b}
  BY DEF View
<1>2. /\ plan.zone \in lstZone'[a] /\ a # NoListener
      /\ \A z \in Zone : z # plan.zone =>
            \A l \in Listener : (z \in lstZone'[l]) <=> (z \in lstZone[l])
  BY Constants
<1>3. Holder'[plan.zone] = a
  BY <1>2 DEF View
<1>4. ASSUME NEW z \in Zone, z # plan.zone
      PROVE  Holder'[z] = Holder[z]
  <2>1. /\ Holder[z] \in Listener \cup {NoListener} /\ Holder'[z] \in Listener \cup {NoListener}
        /\ \A l \in Listener : (Holder[z] = l) <=> (Holder'[z] = l)
    BY <1>2, <1>4 DEF View
  <2>2. QED
    BY <2>1, Constants
<1>5. QED
  BY <1>1, <1>3, <1>4 DEF View

LEMMA HandIsMove ==
  ASSUME RefState, RefState', ChangeMST \/ RecoverMST
  PROVE  Directory!Move \/ UNCHANGED <<Holder, plan.zone, From, To>>
<1>1. /\ TypeInv /\ View /\ View' /\ RegistryConsistent /\ PlanZoneAtParty
      /\ (PlanRuns => plan.from # plan.to)
  BY DEF RefState, RefInv, OwnInv, PlanZoneAtParty
<1>2. /\ From \in ToSet(regular) /\ To \in ToSet(regular) /\ From # To
      /\ ToSet(regular) \subseteq Listener
      /\ srvId[From] = plan.from /\ srvId[To] = plan.to /\ PlanRuns /\ plan.zone \in Zone
  BY <1>1, Parties
<1>3. plan.zone \in lstZone[From] \cup lstZone[To]
  BY <1>1, <1>2 DEF PlanZoneAtParty
<1>4. UNCHANGED <<regular, srvId, plan>>
  BY DEF ChangeMST, RecoverMST, srvVars
<1>5. From' = From /\ To' = To
  BY <1>1, <1>2, <1>4, SameParties
<1>6. plan.zone # 0 /\ NoListener \notin {From, To}
  BY <1>2, Constants
<1>7. Holder \in [Zone -> Listener \cup {NoListener}]
  BY <1>1 DEF View
<1>8. CASE ChangeMST
  <2>1. lstZone' = [[lstZone EXCEPT ![To] = @ \cup {plan.zone}] EXCEPT ![From] = @ \ {plan.zone}]
    BY <1>8 DEF ChangeMST, HandZone
  <2>2. Holder[plan.zone] \in {To, From} /\ Holder' = [Holder EXCEPT ![plan.zone] = To]
    BY <1>1, <1>2, <1>3, <2>1, HandMoves, Queues
  <2>3. QED
    BY <1>2, <1>4, <1>5, <1>6, <1>7, <2>2 DEF Directory!Move
<1>9. CASE RecoverMST
  <2>1. lstZone' = [[lstZone EXCEPT ![From] = @ \cup {plan.zone}] EXCEPT ![To] = @ \ {plan.zone}]
    BY <1>9 DEF RecoverMST, HandZone
  <2>2. Holder[plan.zone] \in {From, To} /\ Holder' = [Holder EXCEPT ![plan.zone] = From]
    BY <1>1, <1>2, <1>3, <2>1, HandMoves, Queues
  <2>3. QED
    BY <1>2, <1>4, <1>5, <1>6, <1>7, <2>2 DEF Directory!Move
<1>10. QED
  BY <1>8, <1>9

\* A step that changes neither who lists what nor the registry of ids.
LEMMA OtherSteps ==
  ASSUME TypeInv, RegistryConsistent, Next,
         ~AcceptGameServer, ~ChangeMST, ~RecoverMST, \A l \in Listener : ~ServerLost(l)
  PROVE  regular' = regular /\ lstZone' = lstZone
<1>1. lstZone' = lstZone
  BY NobodyRefused, DirectoryChanges DEF dirVars
<1>2. ASSUME NEW l \in Listener, Connect(l) \/ Announce(l) \/ GsCrash(l)
      PROVE  regular' = regular
  BY <1>2 DEF Connect, Announce, GsCrash, srvVars
<1>3. ASSUME AcceptNothing \/ AddProxyMgrServer \/ OnProxyMgrServerException
      PROVE  regular' = regular
  BY <1>3 DEF AcceptNothing, AddProxyMgrServer, OnProxyMgrServerException, srvVars
<1>4. QED
  BY <1>1, <1>2, <1>3, NobodyRefused, RegistryChanges

LEMMA NewPlanBegins ==
  ASSUME OwnershipRulesHold, RefState, RefState', Discipline, NewPlan, NewPlanNow,
         regular' = regular, lstZone' = lstZone
  PROVE  \E z \in Zone, f, t \in Listener : Directory!Begin(z, f, t)
<1>1. /\ TypeInv /\ View /\ View' /\ TypeOK'
      /\ plan'.from # plan'.to /\ plan'.to \in RegularIds
      /\ \E l \in ToSet(regular) : srvId[l] = plan'.from /\ plan'.zone \in lstZone[l]
  BY Discipline4 DEF RefState, RefInv, TypeInv, PlanRule
<1>2. srvId' = srvId
  BY DEF NewPlan, GetPlanFromConsole, MakePlan, srvVars
<1>3. PICK f \in ToSet(regular) : srvId[f] = plan'.from /\ plan'.zone \in lstZone[f]
  BY <1>1
<1>4. PICK t \in ToSet(regular) : srvId[t] = plan'.to
  BY <1>1 DEF RegularIds
<1>5. f \in Listener /\ t \in Listener /\ f # t
  BY <1>1, <1>3, <1>4, Queues
<1>6. From' = f /\ To' = t
  BY <1>1, <1>2, <1>3, <1>4 DEF View
<1>7. plan'.zone \in Zone /\ plan.zone = 0
  BY <1>1 DEF TypeOK, NewPlanNow, PlanRuns
<1>8. Holder' = Holder /\ Holder[plan'.zone] = f
  BY <1>1, <1>3, <1>5, <1>7, SameHolder DEF View
<1>9. Directory!Begin(plan'.zone, f, t)
  BY <1>5, <1>6, <1>7, <1>8 DEF Directory!Begin
<1>10. QED
  BY <1>5, <1>7, <1>9

LEMMA RefineStep ==
  ASSUME OwnershipRulesHold, RefState, RefState', Next, Discipline
  PROVE  Directory!DirNext \/ UNCHANGED <<Holder, plan.zone, From, To>>
<1>1. TypeInv /\ RegistryConsistent /\ View /\ View' /\ IdleInv /\ TypeOK'
  BY DEF RefState, RefInv, OwnInv, TypeInv
<1>2. CASE AcceptGameServer
  BY <1>2, JoinGrants DEF Directory!DirNext
<1>3. ASSUME NEW l \in Listener, ServerLost(l)
      PROVE  Directory!DirNext
  BY <1>3, LossReleases DEF Directory!DirNext
<1>4. CASE ChangeMST \/ RecoverMST
  BY <1>4, HandIsMove DEF Directory!DirNext
<1>5. ASSUME regular' = regular, lstZone' = lstZone
      PROVE  Directory!DirNext \/ UNCHANGED <<Holder, plan.zone, From, To>>
  <2>1. Holder' = Holder /\ ToSet(regular) \subseteq Listener
        /\ \A l \in ToSet(regular) : srvId'[l] = srvId[l]
    BY <1>1, <1>5, SameHolder, Queues, SrvIdKept
  <2>2. CASE NewPlan /\ NewPlanNow
    BY <1>5, <2>2, NewPlanBegins DEF Directory!DirNext
  <2>3. CASE plan'.from = plan.from /\ plan'.to = plan.to /\ plan'.zone = plan.zone
    BY <1>1, <1>5, <2>1, <2>3, SameParties
  <2>4. CASE plan' = NoPlan
    <3>1. ~PlanRuns' /\ plan'.zone = 0 /\ From' = NoListener /\ To' = NoListener
      BY <1>1, <2>4 DEF View, PlanRuns, NoPlan
    <3>2. CASE PlanRuns
      BY <2>1, <3>1, <3>2 DEF Directory!DirNext, Directory!End, PlanRuns
    <3>3. CASE ~PlanRuns
      BY <1>1, <2>1, <3>1, <3>3 DEF View, PlanRuns
    <3>4. QED
      BY <3>2, <3>3
  <2>5. QED
    BY <1>1, <2>2, <2>3, <2>4, PlanKept
<1>6. QED
  BY <1>1, <1>2, <1>3, <1>4, <1>5, OtherSteps

\* The ILM implements the abstract directory under the four rules: whatever
\* is lost, repeated, late or undone, a zone changes hands only by a join, by
\* a loss, or between the two servers of the current plan.
THEOREM DirectoryImplemented ==
  ASSUME OwnershipRulesHold
  PROVE  DisciplinedSpec => ImplementsDirectory
<1> DEFINE State == <<Holder, plan.zone, From, To>>
<1>1. RefState /\ RefState' /\ [Next /\ Discipline]_vars => [Directory!DirNext]_State
  <2>1. ASSUME RefState, RefState', Next, Discipline
        PROVE  [Directory!DirNext]_State
    BY <2>1, RefineStep
  <2>2. ASSUME RefState, RefState', UNCHANGED vars
        PROVE  UNCHANGED State
    <3>1. View /\ View' /\ ToSet(regular) \subseteq Listener
      BY <2>2, Queues DEF RefState, RefInv
    <3>2. UNCHANGED <<lstZone, regular, srvId, plan>>
      BY <2>2 DEF vars, srvVars, dirVars, planVars
    <3>3. QED
      BY <3>1, <3>2, SameHolder, SameParties
  <2>3. QED
    BY <2>1, <2>2
<1>2. RefInv => RefState
  BY ViewHolds DEF RefState
<1>3. DisciplinedSpec => []RefInv
  BY DisciplinedTypeInv, OwnInvHolds, IdleInvHolds, PTL DEF RefInv
<1>4. QED
  BY <1>1, <1>2, <1>3, RefineInit, PTL
     DEF DisciplinedSpec, ImplementsDirectory, Directory!DirSpec, Directory!dirState

-----------------------------------------------------------------------------
(***************************************************************************)
(* The stages of a plan, for every value of the constants: the partition   *)
(* is ordered only when every server has locked, the MST is changed only   *)
(* when the zone's objects have moved, and no plan ends the ILM unless a   *)
(* game server was lost.                                                   *)
(*                                                                         *)
(* AllLocked is not inductive: a reply takes an id out of m_needReplay      *)
(* whatever it answers, so the invariant has to say that in the lock stage  *)
(* nothing but the lock command and its answer is under way.  This needs    *)
(* the rule "quiet", unique ids, and that nobody joins.                     *)
(***************************************************************************)

\* Servers with nothing under way; servers with one command or answer under
\* way, which is awaited; servers without a lock command or an answer to one.
Silent   == {l \in Listener : inbox[l] = <<>> /\ outbox[l] = <<>>}
Asked    == {l \in Listener : srvId[l] \in needReplay /\ Len(inbox[l]) + Len(outbox[l]) = 1}
LockFree == {l \in Listener : Lock \notin ToSet(inbox[l]) /\ "lock" \notin ToSet(outbox[l])}

\* Only registered servers are sent anything.  A plan starts in quiet, so what
\* is under way in the lock stage is the lock command or its answer.  A wait for
\* the MST's answers is not a place where a stage is taken back.
LockInv ==
  /\ Listener \ ToSet(regular) \subseteq Silent
  /\ iFlag = 1 => waiting = 0 /\ ToSet(regular) \subseteq Silent
  /\ iFlag = 2 \/ waiting \in {1, 2} => ToSet(regular) \subseteq Silent \cup Asked
  /\ iFlag = 3 => ToSet(regular) \subseteq LockFree
  /\ waiting = 5 => iFlag \in {5, 9}

SomeoneLost == \E l \in Listener : link[l] \in {"down", "gone"}

\* Without a loss both parties of a plan stay registered.
PartyInv ==
  /\ iFlag = 0 => ~PlanRuns
  /\ PlanRuns => {plan.from, plan.to} \subseteq RegularIds \/ SomeoneLost
  /\ PlanSurvives

\* A step that brings no server a new command, and no reply nobody awaits.
Calm ==
  /\ Silent \subseteq Silent'
  /\ Asked \cap ToSet(regular) \subseteq Silent' \cup Asked'
  /\ LockFree \subseteq LockFree'

LEMMA Boxes ==
  ASSUME TypeInv
  PROVE  /\ inbox \in [Listener -> Seq(Command)] /\ outbox \in [Listener -> Seq(Reply)]
         /\ link \in [Listener -> LinkState] /\ srvId \in [Listener -> Id]
         /\ regular \in Seq(Listener) /\ ToSet(regular) \subseteq Listener
BY ToSetType DEF TypeInv, TypeOK

LEMMA SilentIsLockFree == Silent \subseteq LockFree
BY DEF Silent, LockFree, ToSet

\* Lengths and elements after a command is read, or an answer is given.
LEMMA TailOf ==
  ASSUME NEW S, NEW s \in Seq(S), s # <<>>
  PROVE  /\ Len(Tail(s)) = Len(s) - 1 /\ Len(s) \in Nat \ {0}
         /\ Tail(s) \in Seq(S) /\ ToSet(Tail(s)) \subseteq ToSet(s)
         /\ s[1] \in ToSet(s) /\ s[1] \in S
         /\ Len(s) = 1 => Tail(s) = <<>>
<1>1. Tail(s) \in Seq(S) /\ ToSet(Tail(s)) \subseteq ToSet(s) /\ Head(s) \in ToSet(s)
  BY TailProperties
<1>2. Head(s) = s[1] /\ ToSet(s) \subseteq S
  BY ToSetType
<1>3. Len(s) \in Nat \ {0} /\ Len(Tail(s)) = Len(s) - 1
  OBVIOUS
<1>4. ASSUME Len(s) = 1
      PROVE  Tail(s) = <<>>
  <2>1. Len(Tail(s)) = 0
    BY <1>3, <1>4
  <2>2. QED
    BY <1>1, <2>1, EmptySeq
<1>5. QED
  BY <1>1, <1>2, <1>3, <1>4

LEMMA AppendOf ==
  ASSUME NEW S, NEW s \in Seq(S), NEW e \in S
  PROVE  /\ Append(s, e) \in Seq(S) /\ Len(Append(s, e)) = Len(s) + 1
         /\ ToSet(Append(s, e)) = ToSet(s) \cup {e}
BY AppendToSet

LEMMA Shift == \A a, b \in Nat : (a - 1) + (b + 1) = a + b
OBVIOUS

LEMMA NoneOfTwo == \A a, b \in Nat : a + b = 0 => a = 0 /\ b = 0
OBVIOUS

LEMMA OneOfTwo ==
  \A a, b \in Nat : a + b = 1 => (a # 0 => a = 1 /\ b = 0) /\ (b # 0 => b = 1 /\ a = 0)
OBVIOUS

\* A step that leaves the boxes and the awaited answers alone is calm.
LEMMA CalmBoxes ==
  ASSUME UNCHANGED <<inbox, outbox, needReplay, srvId>>
  PROVE  Calm
BY DEF Calm, Silent, Asked, LockFree

LEMMA CalmKeeps ==
  ASSUME TypeInv, LockInv, Calm, UNCHANGED <<regular, iFlag, waiting>>
  PROVE  LockInv'
<1>1. ToSet(regular') = ToSet(regular) /\ iFlag' = iFlag /\ waiting' = waiting
  OBVIOUS
<1>2. QED
  BY <1>1 DEF LockInv, Calm

\* One server's part of a calm step.
CalmAt(k, silent, asked, free) ==
  /\ k \in Silent => k \in silent
  /\ k \in Asked => k \in silent \cup asked
  /\ k \in LockFree => k \in free

LEMMA CalmAll ==
  ASSUME \A k \in Listener : CalmAt(k, Silent', Asked', LockFree')
  PROVE  Calm
<1>1. Silent \subseteq Listener /\ Asked \subseteq Listener /\ LockFree \subseteq Listener
  BY DEF Silent, Asked, LockFree
<1>2. QED
  BY <1>1 DEF Calm, CalmAt

LEMMA SameAt ==
  ASSUME NEW k \in Listener, inbox'[k] = inbox[k], outbox'[k] = outbox[k],
         needReplay' = needReplay, srvId' = srvId
  PROVE  CalmAt(k, Silent', Asked', LockFree')
BY DEF CalmAt, Silent, Asked, LockFree

\* A game server answers a command.
LEMMA AnswerAt ==
  ASSUME TypeInv, NEW l \in Listener, inbox[l] # <<>>, NEW r \in Reply,
         r = "lock" => inbox[l][1] = Lock,
         inbox'[l] = Tail(inbox[l]), outbox'[l] = Append(outbox[l], r),
         needReplay' = needReplay, srvId' = srvId
  PROVE  CalmAt(l, Silent', Asked', LockFree')
<1>1. inbox[l] \in Seq(Command) /\ outbox[l] \in Seq(Reply)
  BY Boxes
<1>2. l \notin Silent
  BY DEF Silent
<1>3. l \in Asked => l \in Asked'
  <2>1. Len(inbox'[l]) = Len(inbox[l]) - 1 /\ Len(outbox'[l]) = Len(outbox[l]) + 1
    BY <1>1, TailOf, AppendOf
  <2>2. Len(inbox[l]) \in Nat /\ Len(outbox[l]) \in Nat
    BY <1>1
  <2>3. Len(inbox'[l]) + Len(outbox'[l]) = Len(inbox[l]) + Len(outbox[l])
    BY <2>1, <2>2, Shift
  <2>4. QED
    BY <2>3 DEF Asked
<1>4. l \in LockFree => l \in LockFree'
  <2>1. ToSet(inbox'[l]) \subseteq ToSet(inbox[l]) /\ inbox[l][1] \in ToSet(inbox[l])
    BY <1>1, TailOf
  <2>2. ToSet(outbox'[l]) = ToSet(outbox[l]) \cup {r}
    BY <1>1, AppendOf
  <2>3. QED
    BY <2>1, <2>2 DEF LockFree
<1>5. QED
  BY <1>2, <1>3, <1>4 DEF CalmAt

\* A command or an answer gets lost, or the giving server answers nothing.
LEMMA LossAt ==
  ASSUME TypeInv, NEW l \in Listener,
         (inbox'[l] = Tail(inbox[l]) /\ inbox[l] # <<>>) \/ inbox'[l] = <<>>,
         outbox'[l] = outbox[l],
         needReplay' = needReplay, srvId' = srvId
  PROVE  CalmAt(l, Silent', Asked', LockFree')
<1>1. inbox[l] \in Seq(Command) /\ outbox[l] \in Seq(Reply)
  BY Boxes
<1>2. l \in Silent => l \in Silent'
  BY DEF Silent
<1>3. ASSUME l \in Asked
      PROVE  l \in Silent' \cup Asked'
  <2>0. Len(inbox[l]) \in Nat /\ Len(outbox[l]) \in Nat
    BY <1>1
  <2>1. Len(inbox[l]) + Len(outbox[l]) = 1
    BY <1>3 DEF Asked
  <2>2. CASE inbox[l] = <<>>
    BY <1>3, <2>2 DEF Asked
  <2>3. CASE inbox[l] # <<>>
    <3>0. Len(inbox[l]) # 0
      BY <1>1, <2>3, EmptySeq
    <3>1. Len(inbox[l]) = 1 /\ Len(outbox[l]) = 0
      BY <2>0, <2>1, <3>0, OneOfTwo
    <3>2. inbox'[l] = <<>> /\ outbox[l] = <<>>
      BY <1>1, <2>3, <3>1, TailOf, EmptySeq
    <3>3. QED
      BY <3>2 DEF Silent
  <2>4. QED
    BY <2>2, <2>3
<1>4. l \in LockFree => l \in LockFree'
  <2>1. ToSet(<<>>) = {}
    BY DEF ToSet
  <2>2. ToSet(inbox'[l]) \subseteq ToSet(inbox[l])
    BY <1>1, <2>1, TailOf
  <2>3. QED
    BY <2>2 DEF LockFree
<1>5. QED
  BY <1>2, <1>3, <1>4 DEF CalmAt

\* An answer is read: it takes the server's own id out of the awaited ones.
LEMMA CalmReply ==
  ASSUME TypeInv, RegistryConsistent, LockInv, NEW l \in Listener, OnReply(l)
  PROVE  Calm
<1>1. inbox[l] \in Seq(Command) /\ outbox[l] \in Seq(Reply) /\ outbox[l] # <<>>
  BY Boxes DEF OnReply
<1>2. /\ outbox' = [outbox EXCEPT ![l] = Tail(outbox[l])] /\ inbox' = inbox
      /\ needReplay' = needReplay \ {srvId[l]} /\ srvId' = srvId
  BY DEF OnReply, srvVars
<1>3. l \in ToSet(regular) /\ l \notin Silent
  BY <1>1 DEF LockInv, Silent
<1>4. outbox'[l] = Tail(outbox[l]) /\ \A k \in Listener \ {l} : outbox'[k] = outbox[k]
  BY <1>2, Boxes
<1>5. ASSUME l \in Asked
      PROVE  l \in Silent'
  <2>1. Len(inbox[l]) \in Nat /\ Len(outbox[l]) \in Nat
    BY <1>1
  <2>2. Len(inbox[l]) + Len(outbox[l]) = 1
    BY <1>5 DEF Asked
  <2>3. Len(outbox[l]) # 0
    BY <1>1, EmptySeq
  <2>4. Len(outbox[l]) = 1 /\ Len(inbox[l]) = 0
    BY <2>1, <2>2, <2>3, OneOfTwo
  <2>5. outbox'[l] = <<>>
    BY <1>1, <1>4, <2>4, TailOf
  <2>6. inbox'[l] = <<>>
    BY <1>1, <1>2, <2>4, EmptySeq
  <2>7. QED
    BY <2>5, <2>6 DEF Silent
<1>6. \A k \in ToSet(regular) \ {l} : srvId[k] # srvId[l]
  BY <1>3 DEF RegistryConsistent
<1>7. \A k \in ToSet(regular) \ {l} : k \in Asked => k \in Asked'
  BY <1>2, <1>4, <1>6 DEF Asked
<1>8. \A k \in Listener \ {l} : k \in Silent => k \in Silent'
  BY <1>2, <1>4 DEF Silent
<1>9. \A k \in Listener : k \in LockFree => k \in LockFree'
  <2>1. ToSet(outbox'[l]) \subseteq ToSet(outbox[l])
    BY <1>1, <1>4, TailOf
  <2>2. QED
    BY <1>2, <1>4, <2>1 DEF LockFree
<1>10. Silent \subseteq Silent' /\ LockFree \subseteq LockFree'
  BY <1>3, <1>8, <1>9 DEF Silent, LockFree
<1>11. Asked \cap ToSet(regular) \subseteq Silent' \cup Asked'
  BY <1>5, <1>7
<1>12. QED
  BY <1>10, <1>11 DEF Calm

\* The steps of the game servers are calm.
LEMMA CalmServers ==
  ASSUME TypeInv, RegistryConsistent, LockInv, NEW l \in Listener,
         GsStep(l) \/ GsCrash(l) \/ OnReply(l) \/ Connect(l) \/ Announce(l)
  PROVE  /\ Calm
         /\ UNCHANGED <<regular, iFlag, waiting>>
<1>1. UNCHANGED <<regular, iFlag, waiting>>
  BY DEF GsStep, Answer, Transfer, TransferFails, GsCrash, OnReply, Connect, Announce,
         srvVars, planVars, ctlVars
<1>2. CASE Answer(l)
  <2>1. /\ inbox' = [inbox EXCEPT ![l] = Tail(inbox[l])] /\ inbox[l] # <<>>
        /\ outbox' = [outbox EXCEPT ![l] = Append(outbox[l], inbox[l][1].type)]
        /\ needReplay' = needReplay /\ srvId' = srvId /\ inbox[l][1].type # "part"
    BY <1>2 DEF Answer, Head1, planVars, srvVars
  <2>2. inbox[l][1] \in Command
    BY <2>1, Boxes, TailOf
  <2>3. /\ inbox[l][1].type \in Reply
        /\ inbox[l][1].type = "lock" => inbox[l][1] = Lock
    BY <2>1, <2>2 DEF Command, Lock, Unlock, Mst, Part, Reply
  <2>4. /\ inbox'[l] = Tail(inbox[l]) /\ outbox'[l] = Append(outbox[l], inbox[l][1].type)
        /\ \A k \in Listener \ {l} : inbox'[k] = inbox[k] /\ outbox'[k] = outbox[k]
    BY <2>1, Boxes
  <2>5. CalmAt(l, Silent', Asked', LockFree')
    BY <2>1, <2>3, <2>4, AnswerAt
  <2>6. \A k \in Listener \ {l} : CalmAt(k, Silent', Asked', LockFree')
    BY <2>1, <2>4, SameAt
  <2>7. QED
    BY <1>1, <2>5, <2>6, CalmAll
<1>3. CASE TransferFails(l)
  <2>1. /\ inbox' = [inbox EXCEPT ![l] = Tail(inbox[l])] /\ inbox[l] # <<>>
        /\ outbox' = outbox /\ needReplay' = needReplay /\ srvId' = srvId
    BY <1>3 DEF TransferFails, Giving, planVars, srvVars
  <2>2. inbox'[l] = Tail(inbox[l]) /\ \A k \in Listener \ {l} : inbox'[k] = inbox[k]
    BY <2>1, Boxes
  <2>3. CalmAt(l, Silent', Asked', LockFree')
    BY <2>1, <2>2, LossAt
  <2>4. \A k \in Listener \ {l} : CalmAt(k, Silent', Asked', LockFree')
    BY <2>1, <2>2, SameAt
  <2>5. QED
    BY <1>1, <2>3, <2>4, CalmAll
<1>4. CASE GsCrash(l)
  <2>1. /\ inbox' = [inbox EXCEPT ![l] = <<>>]
        /\ outbox' = outbox /\ needReplay' = needReplay /\ srvId' = srvId
    BY <1>4 DEF GsCrash, planVars, srvVars
  <2>2. inbox'[l] = <<>> /\ \A k \in Listener \ {l} : inbox'[k] = inbox[k]
    BY <2>1, Boxes
  <2>3. CalmAt(l, Silent', Asked', LockFree')
    BY <2>1, <2>2, LossAt
  <2>4. \A k \in Listener \ {l} : CalmAt(k, Silent', Asked', LockFree')
    BY <2>1, <2>2, SameAt
  <2>5. QED
    BY <1>1, <2>3, <2>4, CalmAll
<1>5. CASE OnReply(l)
  BY <1>1, <1>5, CalmReply
<1>6. CASE Connect(l) \/ Announce(l)
  <2>1. UNCHANGED <<inbox, outbox, needReplay, srvId>>
    BY <1>6 DEF Connect, Announce, planVars, netVars
  <2>2. QED
    BY <1>1, <2>1, CalmBoxes
<1>7. ASSUME NEW m \in Listener, Transfer(l, m)
      PROVE  Calm
  <2>1. /\ inbox' = [inbox EXCEPT ![l] = Tail(inbox[l]), ![m] = Tail(inbox[m])] /\ l # m
        /\ outbox' = [outbox EXCEPT ![l] = Append(outbox[l], "part")]
        /\ needReplay' = needReplay /\ srvId' = srvId /\ inbox[l] # <<>> /\ inbox[m] # <<>>
    BY <1>7 DEF Transfer, Giving, planVars, srvVars
  <2>2. /\ inbox'[l] = Tail(inbox[l]) /\ inbox'[m] = Tail(inbox[m])
        /\ outbox'[l] = Append(outbox[l], "part") /\ outbox'[m] = outbox[m]
        /\ \A k \in Listener \ {l, m} : inbox'[k] = inbox[k] /\ outbox'[k] = outbox[k]
    BY <2>1, Boxes
  <2>3. CalmAt(l, Silent', Asked', LockFree')
    BY <2>1, <2>2, AnswerAt DEF Reply
  <2>4. CalmAt(m, Silent', Asked', LockFree')
    BY <2>1, <2>2, LossAt
  <2>5. \A k \in Listener \ {l, m} : CalmAt(k, Silent', Asked', LockFree')
    BY <2>1, <2>2, SameAt
  <2>6. QED
    BY <2>3, <2>4, <2>5, CalmAll
<1>8. QED
  BY <1>1, <1>2, <1>3, <1>4, <1>5, <1>6, <1>7 DEF GsStep
-----------------------------------------------------------------------------
(* The steps of the ILM *)

LEMMA SameBoxes ==
  ASSUME UNCHANGED <<inbox, outbox>>
  PROVE  /\ Silent' = Silent /\ LockFree' = LockFree
         /\ UNCHANGED <<needReplay, srvId>> => Asked' = Asked
BY DEF Silent, LockFree, Asked

\* A command is sent to the servers of S.
LEMMA SentTo ==
  ASSUME TypeInv, NEW S, S \subseteq Listener, NEW m \in Command,
         inbox' = Sent(S, m), outbox' = outbox
  PROVE  /\ Silent \ S \subseteq Silent'
         /\ srvId' = srvId /\ (\A l \in S : srvId[l] \in needReplay')
               => S \cap Silent \subseteq Silent' \cup Asked'
<1>1. \A l \in Listener : inbox'[l] = IF l \in S /\ link[l] = "up" THEN Append(inbox[l], m)
                                                                   ELSE inbox[l]
  BY DEF Sent
<1>2. Silent \ S \subseteq Silent'
  BY <1>1 DEF Silent
<1>3. ASSUME srvId' = srvId, \A l \in S : srvId[l] \in needReplay',
             NEW l \in S, l \in Silent
      PROVE  l \in Silent' \cup Asked'
  <2>1. inbox[l] = <<>> /\ outbox[l] = <<>> /\ l \in Listener
    BY <1>3 DEF Silent
  <2>2. CASE link[l] = "up"
    <3>1. inbox'[l] = Append(<<>>, m)
      BY <1>1, <1>3, <2>1, <2>2
    <3>2. Len(inbox'[l]) = 1 /\ Len(outbox'[l]) = 0
      BY <2>1, <3>1
    <3>3. Len(inbox'[l]) + Len(outbox'[l]) = 1
      BY <3>2
    <3>4. srvId'[l] \in needReplay'
      BY <1>3
    <3>5. QED
      BY <2>1, <3>3, <3>4 DEF Asked
  <2>3. CASE link[l] # "up"
    BY <1>1, <2>1, <2>3 DEF Silent
  <2>4. QED
    BY <2>2, <2>3
<1>4. QED
  BY <1>2, <1>3

LEMMA LockLost ==
  ASSUME TypeInv, RegistryConsistent, LockInv, NEW l \in Listener, ServerLost(l)
  PROVE  LockInv'
<1>1. ToSet(regular') = ToSet(regular) \ {l} /\ ToSet(regular) \subseteq Listener
  BY Removed, Queues
<1>2. /\ iFlag' = 9 /\ waiting' = waiting /\ needReplay' = needReplay /\ srvId' = srvId
      /\ inbox' = [inbox EXCEPT ![l] = <<>>] /\ outbox' = [outbox EXCEPT ![l] = <<>>]
  BY DEF ServerLost, RemoveGameServer, ctlVars
<1>3. /\ inbox'[l] = <<>> /\ outbox'[l] = <<>>
      /\ \A k \in Listener \ {l} : inbox'[k] = inbox[k] /\ outbox'[k] = outbox[k]
  BY <1>2, Boxes
<1>4. Silent \cup {l} \subseteq Silent'
  BY <1>3 DEF Silent
<1>5. Asked \ {l} \subseteq Asked'
  BY <1>2, <1>3 DEF Asked
<1>6. Listener \ ToSet(regular') \subseteq Silent'
  BY <1>1, <1>4 DEF LockInv
<1>7. waiting' \in {1, 2} => ToSet(regular') \subseteq Silent' \cup Asked'
  BY <1>1, <1>2, <1>4, <1>5 DEF LockInv
<1>8. QED
  BY <1>2, <1>6, <1>7 DEF LockInv

LEMMA LockJoin ==
  ASSUME TypeInv, OwnInv, LockInv, AcceptGameServer
  PROVE  LockInv'
<1>1. RegistryConsistent /\ PlanZoneAtParty /\ PlanInv
  BY DEF OwnInv, TypeInv
<1>2. /\ ToSet(regular) \subseteq ToSet(regular') /\ ToSet(regular') \subseteq Listener
      /\ Announcing # {}
  BY <1>1, Joined, Queues
<1>3. /\ inbox' = Sent(ToSet(regular'), Mst) /\ outbox' = outbox
      /\ iFlag' = iFlag /\ waiting' = waiting /\ pc = "accept"
  BY DEF AcceptGameServer
<1>4. waiting = 0 /\ iFlag \notin {1, 2, 3}
  BY <1>1, <1>2, <1>3 DEF PlanInv, PlanZoneAtParty
<1>5. Silent \ ToSet(regular') \subseteq Silent'
  BY <1>2, <1>3, SentTo, CommandType
<1>6. QED
  BY <1>2, <1>3, <1>4, <1>5 DEF LockInv

LEMMA LockSent ==
  ASSUME TypeInv, LockInv, NEW m \in Command,
         SendToAll(m), UNCHANGED <<regular, srvId, outbox>>
  PROVE  /\ Listener \ ToSet(regular') \subseteq Silent'
         /\ iFlag = 1 => ToSet(regular') \subseteq Silent' \cup Asked'
<1>1. /\ inbox' = Sent(ToSet(regular), m) /\ ToSet(regular) \subseteq Listener
      /\ regular' = regular /\ outbox' = outbox /\ srvId' = srvId
      /\ \A l \in ToSet(regular) : srvId[l] \in needReplay'
  BY Queues DEF SendToAll, RegularIds
<1>2. /\ Silent \ ToSet(regular) \subseteq Silent'
      /\ ToSet(regular) \cap Silent \subseteq Silent' \cup Asked'
  BY <1>1, SentTo
<1>3. QED
  BY <1>1, <1>2 DEF LockInv

LEMMA LockStages ==
  ASSUME TypeInv, OwnInv, LockInv,
         \/ SendLock \/ WaitLockReply \/ StartPartition \/ WaitPartitionReply \/ ChangeMST
         \/ EndMstWait \/ SendUnlock \/ WaitUnlockReply \/ FinishPlan \/ RecoverMST
         \/ AllReplied
  PROVE  LockInv'
<1>1. PlanInv /\ waiting \in {0, 1, 2, 3, 4, 5, 7, 8} /\ TypeOK
  BY DEF TypeInv, TypeOK
<1>2. Lock \in Command /\ Mst \in Command /\ Unlock \in Command
  BY CommandType
<1>3. regular = <<>> => ToSet(regular) = {}
  BY DEF ToSet
<1>4. CASE SendLock
  <2>1. /\ UNCHANGED <<regular, srvId, outbox>> /\ SendToAll(Lock) /\ iFlag = 1
        /\ WaitGameServerReply(1, 2)
    BY <1>4 DEF SendLock, srvVars
  <2>2. /\ \/ iFlag' = 3 /\ waiting' = 0 /\ regular = <<>>
           \/ iFlag' = 2 /\ waiting' = 1
    BY <2>1 DEF WaitGameServerReply, NextStage
  <2>3. QED
    BY <1>2, <1>3, <2>1, <2>2, LockSent DEF LockInv
<1>5. CASE WaitLockReply
  <2>1. /\ UNCHANGED <<inbox, outbox, needReplay, srvId, regular>> /\ iFlag = 2
        /\ \/ iFlag' = 3 /\ waiting' = 0 /\ regular = <<>>
           \/ iFlag' \in {2, 9} /\ waiting' = 2
    BY <1>5 DEF WaitLockReply, WaitGameServerReply, NextStage, srvVars, netVars
  <2>2. QED
    BY <1>3, <2>1, SameBoxes DEF LockInv
<1>6. CASE StartPartition
  <2>1. /\ UNCHANGED <<outbox, srvId, regular>> /\ iFlag = 3
    BY <1>6 DEF StartPartition, srvVars
  <2>2. CASE inbox' = inbox
    <3>1. iFlag' \in {3, 4, 5, 99} /\ waiting' \in {0, 3}
      BY <1>6 DEF StartPartition, WaitGameServerReply, NextStage
    <3>2. QED
      BY <2>1, <2>2, <3>1, SameBoxes DEF LockInv
  <2>3. CASE inbox' # inbox
    <3>1. /\ From # NoListener /\ To # NoListener
          /\ inbox' = [Sent({From}, Part(plan.from, plan.to, plan.zone)) EXCEPT
                ![To] = IF link[To] = "up" THEN Append(@, Part(plan.from, plan.to, plan.zone))
                                           ELSE @]
          /\ WaitGameServerReply(3, 4)
      BY <1>6, <2>3 DEF StartPartition
    <3>2. From \in ToSet(regular) /\ To \in ToSet(regular)
      BY <1>1, <3>1, FindProperties DEF From, To
    <3>3. iFlag' \in {4, 5} /\ waiting' \in {0, 3}
      BY <3>1 DEF WaitGameServerReply, NextStage
    <3>4. \A k \in Listener \ ToSet(regular) : inbox'[k] = inbox[k]
      BY <3>1, <3>2 DEF Sent
    <3>5. Listener \ ToSet(regular) \subseteq Silent'
      BY <2>1, <3>4 DEF LockInv, Silent
    <3>6. QED
      BY <2>1, <3>3, <3>5 DEF LockInv
  <2>4. QED
    BY <2>2, <2>3
<1>7. CASE WaitPartitionReply
  <2>1. /\ UNCHANGED <<inbox, outbox, srvId, regular>>
        /\ iFlag' \in {4, 5, 9} /\ waiting' \in {0, 4}
    BY <1>7 DEF WaitPartitionReply, WaitGameServerReply, NextStage, srvVars, netVars
  <2>2. QED
    BY <2>1, SameBoxes DEF LockInv
<1>8. CASE ChangeMST
  <2>1. /\ UNCHANGED <<regular, srvId, outbox>> /\ SendToAll(Mst)
        /\ iFlag' = 5 /\ waiting' = 5
    BY <1>8 DEF ChangeMST
  <2>2. QED
    BY <1>2, <2>1, LockSent DEF LockInv
<1>9. CASE EndMstWait
  <2>1. waiting = 5
    BY <1>1, <1>9 DEF EndMstWait, PlanInv
  <2>2. /\ UNCHANGED <<inbox, outbox, srvId, regular>>
        /\ \/ iFlag' = 7 /\ waiting' = 0
           \/ iFlag' = iFlag /\ waiting' = 5
    BY <1>9 DEF EndMstWait, WaitGameServerReply, NextStage, srvVars, netVars
  <2>3. iFlag \in {5, 9}
    BY <2>1 DEF LockInv
  <2>4. QED
    BY <2>2, <2>3, SameBoxes DEF LockInv
<1>10. CASE SendUnlock
  <2>1. /\ UNCHANGED <<regular, srvId, outbox>> /\ SendToAll(Unlock)
        /\ iFlag' \in {8, 9} /\ waiting' \in {0, 7}
    BY <1>10 DEF SendUnlock, WaitGameServerReply, NextStage, srvVars
  <2>2. QED
    BY <1>2, <2>1, LockSent DEF LockInv
<1>11. CASE WaitUnlockReply
  <2>1. /\ UNCHANGED <<inbox, outbox, srvId, regular>>
        /\ iFlag' \in {8, 9, 99} /\ waiting' \in {0, 8}
    BY <1>11 DEF WaitUnlockReply, WaitGameServerReply, NextStage, srvVars, netVars
  <2>2. QED
    BY <2>1, SameBoxes DEF LockInv
<1>12. CASE FinishPlan
  <2>1. /\ UNCHANGED <<inbox, outbox, srvId, regular>>
        /\ iFlag' = 0 /\ waiting' = 0
    BY <1>1, <1>12 DEF FinishPlan, PlanInv, srvVars, netVars
  <2>2. QED
    BY <2>1, SameBoxes DEF LockInv
<1>13. CASE RecoverMST
  <2>1. /\ regular' = regular /\ srvId' = srvId /\ outbox' = outbox
        /\ inbox' = Sent(ToSet(regular), Mst) /\ iFlag' = 9 /\ waiting' = 0
    BY <1>1, <1>13 DEF RecoverMST, PlanInv, srvVars
  <2>2. Silent \ ToSet(regular) \subseteq Silent'
    BY <1>2, <2>1, Queues, SentTo
  <2>3. QED
    BY <2>1, <2>2 DEF LockInv
<1>14. CASE AllReplied
  <2>1. /\ UNCHANGED <<inbox, outbox, needReplay, srvId, regular>> /\ needReplay = {}
        /\ iFlag' = NextStage[waiting] /\ waiting' = 0 /\ waiting # 0
    BY <1>1, <1>14 DEF AllReplied, PlanInv, srvVars, netVars
  <2>2. /\ iFlag' \in {3, 5, 7, 9}
        /\ iFlag' = 3 => waiting \in {1, 2}
    BY <1>1, <2>1 DEF NextStage
  <2>3. Asked = {}
    BY <2>1 DEF Asked
  <2>4. iFlag' = 3 => ToSet(regular) \subseteq LockFree
    BY <2>2, <2>3, SilentIsLockFree DEF LockInv
  <2>5. QED
    BY <2>1, <2>2, <2>4, SameBoxes DEF LockInv
<1>15. QED
  BY <1>4, <1>5, <1>6, <1>7, <1>8, <1>9, <1>10, <1>11, <1>12, <1>13, <1>14

StageRulesHold == {"ids", "pm", "plan", "join", "quiet"} \subseteq Rules

\* A plan is adopted in quiet.
LEMMA LockAdopt ==
  ASSUME StageRulesHold, TypeInv, LockInv, NewPlan, Discipline
  PROVE  LockInv'
<1>1. /\ UNCHANGED <<inbox, outbox, needReplay, srvId, regular, waiting>>
      /\ iFlag' = 1 /\ pc \in Window \cup {"query"} /\ NewPlanNow
  <2>1. PICK f \in Id, t \in Id, z \in Zone :
           \/ GetPlanFromConsole(f, t, z)
           \/ \E u \in Listener : MakePlan(u, t, z)
    BY DEF NewPlan
  <2>2. CASE GetPlanFromConsole(f, t, z)
    <3>1. ~PlanRuns /\ PlanRuns'
      BY <2>2, TypeAdopt DEF GetPlanFromConsole
    <3>2. QED
      BY <2>2, <3>1 DEF GetPlanFromConsole, Adopt, NewPlanNow, srvVars, netVars, ctlVars
  <2>3. CASE \E u \in Listener : MakePlan(u, t, z)
    <3>1. PICK u \in Listener : MakePlan(u, t, z)
      BY <2>3
    <3>2. srvId[u] \in Id /\ Adopt(srvId[u], t, z)
      BY <3>1, Queues DEF MakePlan
    <3>3. ~PlanRuns /\ PlanRuns'
      BY <3>2, TypeAdopt
    <3>4. QED
      BY <3>1, <3>3 DEF MakePlan, Adopt, NewPlanNow, srvVars, netVars
  <2>4. QED
    BY <2>1, <2>2, <2>3
<1>2. waiting = 0
  BY <1>1 DEF TypeInv, PlanInv, NewPlanNow, Window
<1>3. \A l \in ToSet(regular) : Backlog(l) = 0
  BY <1>1 DEF StageRulesHold, Discipline, QuietRule
<1>4. ASSUME NEW l \in ToSet(regular)
      PROVE  l \in Silent
  <2>1. l \in Listener /\ inbox[l] \in Seq(Command) /\ outbox[l] \in Seq(Reply)
    BY Boxes
  <2>2. Len(inbox[l]) + Len(outbox[l]) = 0
    BY <1>3 DEF Backlog
  <2>3. Len(inbox[l]) \in Nat /\ Len(outbox[l]) \in Nat
    BY <2>1
  <2>4. Len(inbox[l]) = 0 /\ Len(outbox[l]) = 0
    BY <2>2, <2>3, NoneOfTwo
  <2>5. QED
    BY <2>1, <2>4, EmptySeq DEF Silent
<1>5. QED
  BY <1>1, <1>2, <1>4, SameBoxes DEF LockInv

\* The other steps leave the boxes, the stage and the registry alone.
LEMMA LockOther ==
  ASSUME TypeInv, LockInv,
         \/ EndLoopWait \/ AcceptNothing \/ EndAcceptWait \/ EndQuery \/ DoNothing \/ TimedOut
         \/ Terminate \/ AddProxyMgrServer \/ OnProxyMgrServerException
  PROVE  LockInv'
<1>1. UNCHANGED <<inbox, outbox, needReplay, srvId, regular, iFlag>>
  BY DEF EndLoopWait, AcceptNothing, EndAcceptWait, EndQuery, DoNothing, TimedOut, Terminate,
         AddProxyMgrServer, OnProxyMgrServerException, srvVars, planVars, netVars
<1>2. waiting' \in {0, waiting}
  BY DEF EndLoopWait, AcceptNothing, EndAcceptWait, EndQuery, DoNothing, TimedOut, Terminate,
         AddProxyMgrServer, OnProxyMgrServerException, ctlVars
<1>3. QED
  BY <1>1, <1>2, SameBoxes DEF LockInv

LEMMA LockStep ==
  ASSUME StageRulesHold, TypeInv, OwnInv, LockInv, [Next /\ Discipline]_vars
  PROVE  LockInv'
<1>1. RegistryConsistent
  BY DEF OwnInv
<1>2. CASE IlmStep
  BY <1>1, <1>2, NobodyRefused, LockJoin, LockStages, LockOther DEF IlmStep
<1>3. CASE NewPlan /\ Discipline
  BY <1>3, LockAdopt
<1>4. CASE Terminate \/ AddProxyMgrServer \/ OnProxyMgrServerException
  BY <1>4, LockOther
<1>5. ASSUME NEW l \in Listener,
             Connect(l) \/ Announce(l) \/ OnReply(l) \/ GsStep(l) \/ GsCrash(l)
      PROVE  LockInv'
  BY <1>1, <1>5, CalmServers, CalmKeeps
<1>6. ASSUME NEW l \in Listener, ServerLost(l)
      PROVE  LockInv'
  BY <1>1, <1>6, LockLost
<1>7. CASE UNCHANGED vars
  <2>1. UNCHANGED <<inbox, outbox, needReplay, srvId, regular, iFlag, waiting>>
    BY <1>7 DEF vars, srvVars, netVars, planVars, ctlVars
  <2>2. QED
    BY <2>1, CalmBoxes, CalmKeeps
<1>8. QED
  BY <1>2, <1>3, <1>4, <1>5, <1>6, <1>7 DEF Next

LEMMA LockInit == Init => LockInv
<1> SUFFICES ASSUME Init PROVE LockInv
  OBVIOUS
<1>1. /\ inbox = [l \in Listener |-> <<>>] /\ outbox = [l \in Listener |-> <<>>]
      /\ iFlag = 0 /\ waiting = 0
  BY DEF Init
<1>2. Silent = Listener
  BY <1>1 DEF Silent
<1>3. QED
  BY <1>1, <1>2 DEF LockInv

LEMMA LockInvHolds ==
  ASSUME StageRulesHold
  PROVE  DisciplinedSpec => [](TypeInv /\ OwnInv /\ LockInv)
<1>1. OwnershipRulesHold
  BY DEF StageRulesHold, OwnershipRulesHold
<1>2. TypeInv /\ OwnInv /\ LockInv /\ [Next /\ Discipline]_vars => LockInv'
  BY LockStep
<1>3. QED
  BY <1>1, <1>2, LockInit, DisciplinedTypeInv, OwnInvHolds, PTL DEF DisciplinedSpec

\* Under the five rules the partition is ordered only when every registered
\* server has locked (waitGameServerReply after sendLockToServer).
THEOREM LockedBeforePartition ==
  ASSUME StageRulesHold
  PROVE  DisciplinedSpec => []AllLocked
<1>1. LockInv => AllLocked
  BY DEF LockInv, AllLocked, LockFree
<1>2. QED
  BY <1>1, LockInvHolds, PTL
-----------------------------------------------------------------------------
(* No plan ends the ILM. *)

\* A lost server stays lost.  Without one the registry only grows, and nobody
\* has lost a listener.
LEMMA LossKept ==
  ASSUME TypeInv, RegistryConsistent, Next
  PROVE  /\ SomeoneLost => SomeoneLost'
         /\ ~SomeoneLost' => RegularIds \subseteq RegularIds'
<1> DEFINE P == /\ SomeoneLost => SomeoneLost'
                /\ ~SomeoneLost' => ToSet(regular) \subseteq ToSet(regular')
<1>1. link \in [Listener -> LinkState]
  BY Queues
<1>2. ASSUME UNCHANGED <<regular, link>>
      PROVE  P
  BY <1>2 DEF SomeoneLost
<1>3. ASSUME NEW l \in Listener, Connect(l)
      PROVE  P
  BY <1>1, <1>3 DEF Connect, SomeoneLost
<1>4. ASSUME NEW l \in Listener, GsCrash(l)
      PROVE  P
  <2>1. SomeoneLost'
    BY <1>1, <1>4 DEF GsCrash, SomeoneLost
  <2>2. QED
    BY <2>1
<1>5. ASSUME NEW l \in Listener, ServerLost(l)
      PROVE  P
  <2>1. SomeoneLost'
    BY <1>1, <1>5 DEF ServerLost, RemoveGameServer, SomeoneLost
  <2>2. QED
    BY <2>1
<1>6. ASSUME AcceptGameServer
      PROVE  P
  <2>1. ToSet(regular) \subseteq ToSet(regular') /\ link' = link
    BY <1>6, Joined DEF AcceptGameServer
  <2>2. QED
    BY <2>1 DEF SomeoneLost
<1>7. ASSUME AcceptNothing \/ AddProxyMgrServer \/ OnProxyMgrServerException
      PROVE  P
  BY <1>2, <1>7 DEF AcceptNothing, AddProxyMgrServer, OnProxyMgrServerException, srvVars, netVars
<1>8. ASSUME NEW l \in Listener, Announce(l)
      PROVE  P
  BY <1>2, <1>8 DEF Announce, netVars
<1>9. P
  BY <1>2, <1>3, <1>4, <1>5, <1>6, <1>7, <1>8, NobodyRefused, RegistryChanges
<1>10. \A l \in ToSet(regular) : srvId'[l] = srvId[l]
  BY SrvIdKept
<1>11. QED
  BY <1>9, <1>10 DEF RegularIds

\* Stage 0 is entered only by the end of a plan.
LEMMA StageZero ==
  ASSUME TypeInv, [Next]_vars, iFlag' = 0
  PROVE  FinishPlan \/ iFlag = 0
<1>1. PlanInv /\ waiting \in {0, 1, 2, 3, 4, 5, 7, 8}
  BY DEF TypeInv, TypeOK
<1>2. ASSUME IlmStep, ~AcceptRefused
      PROVE  FinishPlan \/ iFlag = 0
  BY <1>1, <1>2 DEF IlmStep, EndLoopWait, AcceptNothing, AcceptGameServer, EndAcceptWait,
     EndQuery, DoNothing, SendLock, WaitLockReply, StartPartition, WaitPartitionReply,
     ChangeMST, EndMstWait, SendUnlock, WaitUnlockReply, RecoverMST, AllReplied, TimedOut,
     WaitGameServerReply, NextStage, PlanInv, planVars
<1>3. CASE AcceptRefused
  BY <1>3 DEF AcceptRefused, RemoveGameServer
<1>4. CASE NewPlan
  BY <1>4 DEF NewPlan, GetPlanFromConsole, MakePlan, Adopt
<1>5. CASE Terminate \/ AddProxyMgrServer \/ OnProxyMgrServerException
  BY <1>5 DEF Terminate, AddProxyMgrServer, OnProxyMgrServerException, planVars
<1>6. ASSUME NEW l \in Listener,
             Connect(l) \/ Announce(l) \/ OnReply(l) \/ ServerLost(l) \/ GsStep(l) \/ GsCrash(l)
      PROVE  iFlag = 0
  BY <1>6 DEF Connect, Announce, OnReply, ServerLost, RemoveGameServer, GsStep, Answer,
     TransferFails, Transfer, GsCrash, planVars
<1>7. CASE UNCHANGED vars
  BY <1>7 DEF vars, planVars
<1>8. QED
  BY <1>2, <1>3, <1>4, <1>5, <1>6, <1>7 DEF Next

\* What ends the process during a plan is a loss.
LEMMA EndedByLoss ==
  ASSUME TypeInv, PartyInv, Terminate, PlanRuns
  PROVE  SomeoneLost
<1> SUFFICES ASSUME ~SomeoneLost PROVE FALSE
  OBVIOUS
<1>1. /\ TypeOK /\ ToSet(regular) \subseteq Listener /\ ToSet(prep) \subseteq Listener
      /\ iFlag # 0 /\ plan.from \in RegularIds /\ plan.to \in RegularIds
  BY Queues DEF TypeInv, PartyInv
<1>2. ~Zombie
  BY <1>1 DEF Zombie, SomeoneLost
<1>3. From \in ToSet(regular) /\ To \in ToSet(regular)
  BY <1>1, FindProperties DEF From, To
<1>4. link[From] # "gone" /\ link[To] # "gone"
  BY <1>1, <1>3 DEF SomeoneLost
<1>5. NoListener \notin {From, To}
  BY <1>1, <1>3, Constants
<1>6. ~SendsToZombie
  BY <1>2, <1>4 DEF SendsToZombie
<1>7. ~MakePlanFails
  BY <1>1 DEF MakePlanFails
<1>8. ~\E l, m \in ToSet(prep) \cup ToSet(regular) :
           l # m /\ link[l] = "down" /\ link[m] = "down"
  BY <1>1 DEF SomeoneLost
<1>9. QED
  BY <1>5, <1>6, <1>7, <1>8 DEF Terminate, Terminates

LEMMA NotCrashed ==
  ASSUME [Next]_vars, pc' = "crashed"
  PROVE  pc = "crashed" \/ Terminate
<1>1. CASE IlmStep
  BY <1>1 DEF IlmStep, EndLoopWait, AcceptNothing, AcceptRefused, AcceptGameServer,
     EndAcceptWait, EndQuery, DoNothing, SendLock, WaitLockReply, StartPartition,
     WaitPartitionReply, ChangeMST, EndMstWait, SendUnlock, WaitUnlockReply, FinishPlan,
     RecoverMST, AllReplied, TimedOut, WaitGameServerReply, ctlVars
<1>2. CASE NewPlan
  BY <1>2 DEF NewPlan, GetPlanFromConsole, MakePlan, ctlVars
<1>3. CASE AddProxyMgrServer \/ OnProxyMgrServerException
  BY <1>3 DEF AddProxyMgrServer, OnProxyMgrServerException, ctlVars
<1>4. ASSUME NEW l \in Listener,
             Connect(l) \/ Announce(l) \/ OnReply(l) \/ ServerLost(l) \/ GsStep(l) \/ GsCrash(l)
      PROVE  pc = "crashed"
  BY <1>4 DEF Connect, Announce, OnReply, ServerLost, GsStep, Answer, TransferFails, Transfer,
     GsCrash, ctlVars
<1>5. CASE UNCHANGED vars
  BY <1>5 DEF vars, ctlVars
<1>6. QED
  BY <1>1, <1>2, <1>3, <1>4, <1>5 DEF Next

LEMMA PartyStep ==
  ASSUME OwnershipRulesHold, TypeInv, OwnInv, PartyInv, Next, Discipline
  PROVE  PartyInv'
<1>1. RegistryConsistent /\ PlanRule /\ [Next]_vars
  BY Discipline4 DEF OwnInv
<1>2. iFlag' = 0 => ~PlanRuns'
  <2>1. SUFFICES ASSUME iFlag' = 0, PlanRuns' PROVE FALSE
    OBVIOUS
  <2>2. plan' # NoPlan
    BY <2>1 DEF PlanRuns, NoPlan
  <2>3. iFlag = 0
    BY <1>1, <2>1, <2>2, StageZero DEF FinishPlan
  <2>4. ~NewPlan
    BY <2>1 DEF NewPlan, GetPlanFromConsole, MakePlan, Adopt
  <2>5. PlanRuns
    BY <1>1, <2>1, <2>2, <2>4, PlanKept DEF PlanRuns
  <2>6. QED
    BY <2>3, <2>5 DEF PartyInv
<1>3. PlanRuns' => {plan'.from, plan'.to} \subseteq RegularIds' \/ SomeoneLost'
  <2>1. SUFFICES ASSUME PlanRuns', ~SomeoneLost'
                 PROVE  {plan'.from, plan'.to} \subseteq RegularIds'
    OBVIOUS
  <2>2. RegularIds \subseteq RegularIds' /\ ~SomeoneLost
    BY <1>1, <2>1, LossKept
  <2>3. CASE NewPlanNow
    BY <1>1, <2>2, <2>3 DEF PlanRule, RegularIds
  <2>4. CASE ~NewPlanNow
    <3>1. PlanRuns /\ plan' # NoPlan
      BY <2>1, <2>4 DEF NewPlanNow, PlanRuns, NoPlan
    <3>2. plan'.from = plan.from /\ plan'.to = plan.to
      BY <1>1, <2>4, <3>1, PlanKept
    <3>3. QED
      BY <2>2, <3>1, <3>2 DEF PartyInv
  <2>5. QED
    BY <2>3, <2>4
<1>4. PlanSurvives'
  <2>1. SUFFICES ASSUME pc' = "crashed", PlanRuns'
                 PROVE  SomeoneLost'
    BY DEF PlanSurvives, SomeoneLost
  <2>2. CASE Terminate
    <3>1. PlanRuns
      BY <2>1, <2>2 DEF Terminate, planVars, PlanRuns
    <3>2. QED
      BY <1>1, <2>2, <3>1, EndedByLoss, LossKept
  <2>3. CASE ~Terminate
    <3>1. pc = "crashed"
      BY <1>1, <2>1, <2>3, NotCrashed
    <3>2. ~NewPlan /\ plan' # NoPlan
      BY <2>1, <3>1 DEF NewPlan, GetPlanFromConsole, MakePlan, Window, PlanRuns, NoPlan
    <3>3. PlanRuns
      BY <1>1, <2>1, <3>2, PlanKept DEF PlanRuns
    <3>4. SomeoneLost
      BY <3>1, <3>3 DEF PartyInv, PlanSurvives, SomeoneLost
    <3>5. QED
      BY <1>1, <3>4, LossKept
  <2>4. QED
    BY <2>2, <2>3
<1>5. QED
  BY <1>2, <1>3, <1>4 DEF PartyInv

LEMMA PartyInvHolds ==
  ASSUME OwnershipRulesHold
  PROVE  DisciplinedSpec => []PartyInv
<1>1. Init => PartyInv
  BY DEF Init, PartyInv, PlanSurvives, PlanRuns, NoPlan
<1>2. ASSUME TypeInv, OwnInv, PartyInv, [Next /\ Discipline]_vars
      PROVE  PartyInv'
  <2>1. CASE UNCHANGED vars
    BY <1>2, <2>1 DEF PartyInv, PlanSurvives, PlanRuns, RegularIds, SomeoneLost,
                      vars, srvVars, planVars, ctlVars, netVars
  <2>2. QED
    BY <1>2, <2>1, PartyStep
<1>3. QED
  BY <1>1, <1>2, DisciplinedTypeInv, OwnInvHolds, PTL DEF DisciplinedSpec

\* Under the four rules no stage of a plan ends the ILM process unless a game
\* server has been lost: the parties that changeMST and recoverMST use without
\* a check are registered.
THEOREM PlanSurvivesHolds ==
  ASSUME OwnershipRulesHold
  PROVE  DisciplinedSpec => []PlanSurvives
<1>1. PartyInv => PlanSurvives
  BY DEF PartyInv
<1>2. QED
  BY <1>1, PartyInvHolds, PTL
-----------------------------------------------------------------------------
(* The MST follows the transfer.                                           *)
(* MoveAfterTransfer needs to know who may unpack the zone while the plan   *)
(* runs, and that the reply the partition stage awaits is the one that the  *)
(* giving server sends with the transfer.                                   *)

PlanPart == Part(plan.from, plan.to, plan.zone)

\* The partition has been ordered and its reply is awaited.
Ordered == iFlag = 4 \/ waiting \in {3, 4}

\* The registered servers of the plan: f gives the zone, t gets it.
Party(f, t) == srvId[f] = plan.from /\ srvId[t] = plan.to

\* The objects are with t, or f has answered nothing since the order.
Moving(f, t) ==
  \/ host[plan.zone] = t
  \/ ToSet(inbox[f]) \subseteq {PlanPart} /\ outbox[f] = <<>> /\ plan.from \in needReplay

\* No command of another plan is under way; the partition is ordered in quiet;
\* between the order and changeMST the zone is moving, then it has moved.
HostInv ==
  PlanRuns =>
    /\ \A l \in Listener : ToSet(inbox[l]) \subseteq {Lock, Unlock, Mst, PlanPart}
    /\ iFlag = 3 => ToSet(regular) \subseteq Silent
    /\ \A f, t \in ToSet(regular) : Party(f, t) =>
          /\ Ordered => Moving(f, t)
          /\ iFlag = 5 => host[plan.zone] = t

LEMMA NothingIn == ToSet(<<>>) = {}
BY DEF ToSet

\* Only registered servers have anything under way, and ids are their own.
LEMMA Busy ==
  ASSUME TypeInv, RegistryConsistent, LockInv
  PROVE  /\ \A l \in Listener : inbox[l] # <<>> \/ outbox[l] # <<>> => l \in ToSet(regular)
         /\ \A l, k \in ToSet(regular) : srvId[l] = srvId[k] => l = k
         /\ \A l \in ToSet(regular) : srvId[l] # 0
BY DEF LockInv, Silent, RegistryConsistent

\* The zone's objects go to the receiving server of the plan, in one step with
\* the giving server's answer.
LEMMA PlannedTransfer ==
  ASSUME TypeInv, RegistryConsistent, LockInv, HostInv, PlanRuns,
         NEW l \in Listener, NEW k \in Listener, Transfer(l, k)
  PROVE  Party(l, k) /\ {l, k} \subseteq ToSet(regular) /\ host' = [host EXCEPT ![plan.zone] = k]
<1>1. /\ inbox[l] # <<>> /\ inbox[k] # <<>> /\ inbox[l][1].type = "part"
      /\ inbox[l][1].from = srvId[l] /\ inbox[l][1].to = srvId[k]
      /\ host' = [host EXCEPT ![inbox[l][1].zone] = k]
  BY DEF Transfer, Giving, Head1
<1>2. inbox[l][1] \in ToSet(inbox[l])
  BY <1>1, Boxes, TailOf
<1>3. inbox[l][1] \in {Lock, Unlock, Mst, PlanPart}
  BY <1>2 DEF HostInv
<1>4. inbox[l][1] = PlanPart
  BY <1>1, <1>3 DEF Lock, Unlock, Mst
<1>5. PlanPart.from = plan.from /\ PlanPart.to = plan.to /\ PlanPart.zone = plan.zone
  BY DEF PlanPart, Part
<1>6. QED
  BY <1>1, <1>4, <1>5, Busy DEF Party

\* Enough for a step within a plan: what is under way is of the plan, and each
\* pair of parties of the next state is one of this state and keeps what is
\* said of it.
LEMMA HostKept ==
  ASSUME plan'.from = plan.from, plan'.to = plan.to, plan'.zone = plan.zone, PlanRuns,
         \A l \in Listener : ToSet(inbox'[l]) \subseteq {Lock, Unlock, Mst, PlanPart},
         iFlag' = 3 => ToSet(regular') \subseteq Silent',
         \A f, t \in ToSet(regular') : srvId'[f] = plan.from /\ srvId'[t] = plan.to =>
            /\ Ordered' => Moving(f, t)'
            /\ iFlag' = 5 => host'[plan.zone] = t
  PROVE  HostInv'
<1>1. PlanPart' = PlanPart
  BY DEF PlanPart, Part
<1>2. QED
  BY <1>1 DEF HostInv, Party

\* The steps of the game servers.
LEMMA HostServers ==
  ASSUME TypeInv, RegistryConsistent, LockInv, HostInv, PlanRuns, NEW l \in Listener,
         GsStep(l) \/ GsCrash(l) \/ OnReply(l) \/ Connect(l) \/ Announce(l)
  PROVE  HostInv'
<1>1. /\ Calm /\ UNCHANGED <<regular, iFlag, waiting>>
      /\ UNCHANGED <<plan, srvId>>
  <2>1. UNCHANGED <<plan, srvId>>
    BY DEF GsStep, Answer, Transfer, TransferFails, GsCrash, OnReply, Connect, Announce,
           srvVars, planVars
  <2>2. QED
    BY <2>1, CalmServers
<1>2. iFlag' = 3 => ToSet(regular') \subseteq Silent'
  <2>1. ToSet(regular') = ToSet(regular) /\ Silent \subseteq Silent'
    BY <1>1 DEF Calm
  <2>2. QED
    BY <1>1, <2>1 DEF HostInv
<1>3. \A k \in Listener : ToSet(inbox'[k]) \subseteq ToSet(inbox[k])
  <2>1. ASSUME NEW k \in Listener, inbox'[k] \in {inbox[k], <<>>} \/ (inbox'[k] = Tail(inbox[k]) /\ inbox[k] # <<>>)
        PROVE  ToSet(inbox'[k]) \subseteq ToSet(inbox[k])
    BY <2>1, Boxes, TailOf, NothingIn
  <2>2. ASSUME NEW k \in Listener
        PROVE  inbox'[k] \in {inbox[k], <<>>} \/ (inbox'[k] = Tail(inbox[k]) /\ inbox[k] # <<>>)
    <3>1. CASE Answer(l) \/ TransferFails(l)
      BY <3>1, Boxes DEF Answer, TransferFails, Giving
    <3>2. ASSUME NEW m \in Listener, Transfer(l, m)
          PROVE  inbox'[k] \in {inbox[k], <<>>} \/ (inbox'[k] = Tail(inbox[k]) /\ inbox[k] # <<>>)
      BY <3>2, Boxes DEF Transfer, Giving
    <3>3. CASE GsCrash(l)
      BY <3>3, Boxes DEF GsCrash
    <3>4. CASE OnReply(l) \/ Connect(l) \/ Announce(l)
      BY <3>4 DEF OnReply, Connect, Announce, netVars
    <3>5. QED
      BY <3>1, <3>2, <3>3, <3>4 DEF GsStep
  <2>3. QED
    BY <2>1, <2>2
<1>4. \A k \in Listener : ToSet(inbox'[k]) \subseteq {Lock, Unlock, Mst, PlanPart}
  BY <1>3 DEF HostInv
<1>5. plan.zone \in Zone /\ host \in [Zone -> Listener \cup {NoListener}]
  BY DEF TypeInv, TypeOK, PlanRuns
<1>6. ASSUME NEW f \in ToSet(regular), NEW t \in ToSet(regular), Party(f, t)
      PROVE  /\ host[plan.zone] = t => host'[plan.zone] = t
             /\ Moving(f, t) => Moving(f, t)'
  <2>1. f \in Listener /\ inbox[f] \in Seq(Command) /\ outbox[f] \in Seq(Reply)
    BY Boxes
  <2>2. ASSUME NEW k \in Listener, Transfer(l, k)
        PROVE  host'[plan.zone] = t
    <3>1. Party(l, k) /\ {l, k} \subseteq ToSet(regular) /\ host' = [host EXCEPT ![plan.zone] = k]
      BY <2>2, PlannedTransfer
    <3>2. k = t
      BY <1>6, <3>1, Busy DEF Party
    <3>3. QED
      BY <1>5, <3>1, <3>2
  <2>3. ASSUME \A k \in Listener : ~Transfer(l, k)
        PROVE  host' = host
    BY <2>3 DEF GsStep, Answer, TransferFails, GsCrash, OnReply, Connect, Announce, netVars
  <2>4. host[plan.zone] = t => host'[plan.zone] = t
    BY <2>2, <2>3
  <2>5. ASSUME ToSet(inbox[f]) \subseteq {PlanPart}, outbox[f] = <<>>, plan.from \in needReplay,
               \A k \in Listener : ~Transfer(l, k)
        PROVE  Moving(f, t)'
    <3>1. ToSet(inbox'[f]) \subseteq {PlanPart}
      BY <1>3, <2>1, <2>5
    <3>2. outbox'[f] = <<>>
      <4>1. CASE Answer(l)
        <5>1. /\ inbox[l] # <<>> /\ inbox[l][1].type # "part"
              /\ outbox' = [outbox EXCEPT ![l] = Append(@, inbox[l][1].type)]
          BY <4>1 DEF Answer, Head1
        <5>2. inbox[l][1] \in ToSet(inbox[l])
          BY <5>1, Boxes, TailOf
        <5>3. l # f
          BY <2>5, <5>1, <5>2 DEF PlanPart, Part
        <5>4. QED
          BY <2>1, <2>5, <5>1, <5>3, Boxes
      <4>2. CASE OnReply(l)
        <5>1. outbox[l] # <<>> /\ outbox' = [outbox EXCEPT ![l] = Tail(@)]
          BY <4>2 DEF OnReply
        <5>2. QED
          BY <2>1, <2>5, <5>1, Boxes
      <4>3. CASE TransferFails(l) \/ GsCrash(l) \/ Connect(l) \/ Announce(l)
        BY <2>5, <4>3 DEF TransferFails, GsCrash, Connect, Announce, netVars
      <4>4. QED
        BY <2>5, <4>1, <4>2, <4>3 DEF GsStep
    <3>3. plan.from \in needReplay'
      <4>1. CASE OnReply(l)
        <5>1. /\ outbox[l] # <<>> /\ needReplay' = needReplay \ {srvId[l]}
          BY <4>1 DEF OnReply
        <5>2. l \in ToSet(regular) /\ l # f
          BY <2>5, <5>1, Busy
        <5>3. srvId[l] # plan.from
          BY <1>6, <5>2, Busy DEF Party
        <5>4. QED
          BY <2>5, <5>1, <5>3
      <4>2. CASE ~OnReply(l)
        <5>1. needReplay' = needReplay
          BY <4>2 DEF GsStep, Answer, Transfer, TransferFails, GsCrash, Connect, Announce, planVars
        <5>2. QED
          BY <2>5, <5>1
      <4>3. QED
        BY <4>1, <4>2
    <3>4. QED
      BY <1>1, <3>1, <3>2, <3>3 DEF Moving, PlanPart
  <2>6. host'[plan.zone] = t => Moving(f, t)'
    BY <1>1 DEF Moving
  <2>7. QED
    BY <2>2, <2>4, <2>5, <2>6 DEF Moving
<1>7. ASSUME NEW f \in ToSet(regular'), NEW t \in ToSet(regular'),
             srvId'[f] = plan.from, srvId'[t] = plan.to
      PROVE  /\ Ordered' => Moving(f, t)'
             /\ iFlag' = 5 => host'[plan.zone] = t
  <2>1. f \in ToSet(regular) /\ t \in ToSet(regular) /\ Party(f, t)
    BY <1>1, <1>7 DEF Party
  <2>2. /\ Ordered => Moving(f, t)
        /\ iFlag = 5 => host[plan.zone] = t
    BY <2>1 DEF HostInv
  <2>3. Ordered' => Ordered
    BY <1>1 DEF Ordered
  <2>4. QED
    BY <1>1, <1>6, <2>1, <2>2, <2>3
<1>8. QED
  BY <1>1, <1>2, <1>4, <1>7, HostKept

\* A server is lost: the plan stays only for the others.
LEMMA HostLost ==
  ASSUME TypeInv, RegistryConsistent, HostInv, PlanRuns, NEW l \in Listener, ServerLost(l)
  PROVE  HostInv'
<1>1. /\ ToSet(regular') = ToSet(regular) \ {l} /\ ToSet(regular) \subseteq Listener
      /\ iFlag' = 9 /\ waiting' = waiting /\ srvId' = srvId
  BY Removed, Queues
<1>2. /\ plan' = plan /\ needReplay' = needReplay /\ host' = host
      /\ inbox' = [inbox EXCEPT ![l] = <<>>] /\ outbox' = [outbox EXCEPT ![l] = <<>>]
  BY DEF ServerLost, RemoveGameServer
<1>3. /\ inbox'[l] = <<>>
      /\ \A k \in Listener \ {l} : inbox'[k] = inbox[k] /\ outbox'[k] = outbox[k]
  BY <1>2, Boxes
<1>4. \A k \in Listener : ToSet(inbox'[k]) \subseteq {Lock, Unlock, Mst, PlanPart}
  BY <1>3, NothingIn DEF HostInv
<1>5. ASSUME NEW f \in ToSet(regular'), NEW t \in ToSet(regular'),
             srvId'[f] = plan.from, srvId'[t] = plan.to
      PROVE  Ordered' => Moving(f, t)'
  <2>1. f \in ToSet(regular) /\ t \in ToSet(regular) /\ Party(f, t) /\ f \in Listener \ {l}
    BY <1>1, <1>5 DEF Party
  <2>2. Ordered' => Moving(f, t)
    BY <1>1, <2>1 DEF HostInv, Ordered
  <2>3. Moving(f, t) => Moving(f, t)'
    BY <1>2, <1>3, <2>1 DEF Moving, PlanPart
  <2>4. QED
    BY <2>2, <2>3
<1>6. QED
  BY <1>1, <1>2, <1>4, <1>5, HostKept

\* The stages of a plan.
LEMMA HostStages ==
  ASSUME TypeInv, OwnInv, LockInv, HostInv, PlanRuns,
         \/ SendLock \/ WaitLockReply \/ StartPartition \/ WaitPartitionReply \/ ChangeMST
         \/ EndMstWait \/ SendUnlock \/ WaitUnlockReply \/ RecoverMST \/ AllReplied
  PROVE  HostInv'
<1>1. PlanInv /\ waiting \in {0, 1, 2, 3, 4, 5, 7, 8} /\ TypeOK /\ RegistryConsistent
      /\ plan.from # plan.to
  BY DEF TypeInv, TypeOK, OwnInv, PlanZoneAtParty
<1>2. /\ UNCHANGED <<outbox, host, regular, srvId>>
      /\ plan'.from = plan.from /\ plan'.to = plan.to /\ plan'.zone = plan.zone
  <2>1. UNCHANGED <<outbox, host, regular, srvId>>
    BY DEF SendLock, WaitLockReply, StartPartition, WaitPartitionReply, ChangeMST, EndMstWait,
           SendUnlock, WaitUnlockReply, RecoverMST, AllReplied, srvVars, netVars
  <2>2. plan \in [from : Id, to : Id, zone : Zone \cup {0}, count : 0 .. CountMod - 1]
    BY <1>1 DEF TypeOK
  <2>3. CASE WaitPartitionReply \/ AllReplied
    BY <2>1, <2>2, <2>3 DEF WaitPartitionReply, AllReplied
  <2>4. CASE ~(WaitPartitionReply \/ AllReplied)
    BY <2>1, <2>4 DEF SendLock, WaitLockReply, StartPartition, ChangeMST, EndMstWait,
                SendUnlock, WaitUnlockReply, RecoverMST
  <2>5. QED
    BY <2>3, <2>4
<1>3. regular = <<>> <=> ToSet(regular) = {}
  BY Boxes, ToSetType
<1>4. \A k \in Listener : ToSet(inbox[k]) \subseteq {Lock, Unlock, Mst, PlanPart}
  BY DEF HostInv
\* Enough: what is under way, and what is said of each pair of parties.
<1> DEFINE Kept == \A f, t \in ToSet(regular) : Party(f, t) =>
                      /\ Ordered' => Moving(f, t)'
                      /\ iFlag' = 5 => host[plan.zone] = t
<1>5. ASSUME \A k \in Listener : ToSet(inbox'[k]) \subseteq {Lock, Unlock, Mst, PlanPart},
             iFlag' = 3 => ToSet(regular) \subseteq Silent',
             Kept
      PROVE  HostInv'
  <2>1. ToSet(regular') = ToSet(regular)
    BY <1>2
  <2>2. \A f, t \in ToSet(regular') : srvId'[f] = plan.from /\ srvId'[t] = plan.to =>
          /\ Ordered' => Moving(f, t)'
          /\ iFlag' = 5 => host'[plan.zone] = t
    BY <1>2, <1>5, <2>1 DEF Party
  <2>3. QED
    BY <1>2, <1>5, <2>1, <2>2, HostKept
\* A command that is not a partition.
<1>6. ASSUME NEW m \in {Lock, Unlock, Mst}, inbox' = Sent(ToSet(regular), m)
      PROVE  \A k \in Listener : ToSet(inbox'[k]) \subseteq {Lock, Unlock, Mst, PlanPart}
  <2>1. SUFFICES ASSUME NEW k \in Listener
                 PROVE  ToSet(inbox'[k]) \subseteq {Lock, Unlock, Mst, PlanPart}
    OBVIOUS
  <2>2. inbox'[k] \in {inbox[k], Append(inbox[k], m)}
    BY <1>6 DEF Sent
  <2>3. ToSet(Append(inbox[k], m)) = ToSet(inbox[k]) \cup {m}
    BY Boxes, AppendOf, CommandType
  <2>4. QED
    BY <1>4, <2>2, <2>3
<1>7. ASSUME inbox' = inbox
      PROVE  /\ Silent' = Silent
             /\ \A k \in Listener : ToSet(inbox'[k]) \subseteq {Lock, Unlock, Mst, PlanPart}
  BY <1>2, <1>4, <1>7, SameBoxes
<1>8. ASSUME NEW f, NEW t, inbox' = inbox, needReplay' = needReplay, Moving(f, t)
      PROVE  Moving(f, t)'
  BY <1>2, <1>8 DEF Moving, PlanPart
<1>9. CASE SendLock
  <2>1. /\ inbox' = Sent(ToSet(regular), Lock)
        /\ \/ iFlag' = 3 /\ waiting' = 0 /\ regular = <<>>
           \/ iFlag' = 2 /\ waiting' = 1
    BY <1>9 DEF SendLock, SendToAll, WaitGameServerReply, NextStage
  <2>2. Kept
    BY <1>3, <2>1 DEF Ordered
  <2>3. \A k \in Listener : ToSet(inbox'[k]) \subseteq {Lock, Unlock, Mst, PlanPart}
    BY <1>6, <2>1
  <2>4. iFlag' = 3 => ToSet(regular) \subseteq Silent'
    BY <1>3, <2>1
  <2>5. QED
    BY <1>5, <2>2, <2>3, <2>4
<1>10. CASE WaitLockReply
  <2>1. /\ inbox' = inbox
        /\ \/ iFlag' = 3 /\ waiting' = 0 /\ regular = <<>>
           \/ iFlag' \in {2, 9} /\ waiting' = 2
    BY <1>10 DEF WaitLockReply, WaitGameServerReply, NextStage, netVars
  <2>2. Kept
    BY <1>3, <2>1 DEF Ordered
  <2>3. QED
    BY <1>3, <1>5, <1>7, <2>1, <2>2
<1>11. CASE StartPartition
  <2>0. /\ iFlag = 3 /\ ToSet(regular) \subseteq Silent /\ ToSet(regular) \subseteq Listener
        /\ (plan.from # 0 /\ plan.to # 0) => \/ (iFlag' = 4 /\ waiting' = 3)
                                              \/ regular = <<>>
                                              \/ NoListener \in {From, To}
    BY <1>11, Queues DEF StartPartition, WaitGameServerReply, HostInv
  <2>1. CASE NoListener \in {From, To} \/ plan.from = 0 \/ plan.to = 0
    <3>1. inbox' = inbox
      BY <1>11, <2>1 DEF StartPartition
    <3>2. ASSUME NEW f \in ToSet(regular), NEW t \in ToSet(regular), Party(f, t)
          PROVE  FALSE
      <4>1. plan.from \in RegularIds /\ plan.to \in RegularIds
        BY <3>2 DEF Party, RegularIds
      <4>2. plan.from # 0 /\ plan.to # 0
        BY <1>1, <3>2, Busy DEF Party
      <4>3. NoListener \notin {From, To}
        BY <1>1, <4>1, FindProperties DEF From, To
      <4>4. QED
        BY <2>1, <4>2, <4>3
    <3>3. Kept
      BY <3>2
    <3>4. QED
      BY <1>5, <1>7, <2>0, <3>1, <3>3
  <2>2. CASE NoListener \notin {From, To} /\ plan.from # 0 /\ plan.to # 0
    <3>1. /\ inbox' = [Sent({From}, PlanPart) EXCEPT
                 ![To] = IF link[To] = "up" THEN Append(@, PlanPart) ELSE @]
          /\ needReplay' = {plan.from}
          /\ WaitGameServerReply(3, 4)
      BY <1>11, <2>2 DEF StartPartition, PlanPart
    <3>2. /\ From \in ToSet(regular) /\ To \in ToSet(regular)
          /\ srvId[From] = plan.from /\ srvId[To] = plan.to
      BY <1>1, <2>2, FindProperties DEF From, To
    <3>3. iFlag' = 4 /\ waiting' = 3
      BY <1>3, <3>1, <3>2 DEF WaitGameServerReply
    <3>4. \A k \in ToSet(regular) : inbox[k] = <<>> /\ outbox[k] = <<>>
      BY <2>0 DEF Silent
    <3>5. From # To
      BY <1>1, <3>2
    <3>6. PlanPart \in Command
      BY <1>1, CommandType DEF PlanPart, PlanRuns, TypeOK
    <3>7. \A k \in Listener : inbox'[k] \in {inbox[k], Append(inbox[k], PlanPart)}
      BY <2>0, <3>1, <3>2, <3>5 DEF Sent
    <3>8. ASSUME NEW k \in Listener
          PROVE  ToSet(inbox'[k]) \subseteq ToSet(inbox[k]) \cup {PlanPart}
      <4>1. ToSet(Append(inbox[k], PlanPart)) = ToSet(inbox[k]) \cup {PlanPart}
        BY <3>6, Boxes, AppendOf
      <4>2. QED
        BY <3>7, <4>1
    <3>9. \A k \in Listener : ToSet(inbox'[k]) \subseteq {Lock, Unlock, Mst, PlanPart}
      BY <1>4, <3>8
    <3>10. Kept
      <4>1. SUFFICES ASSUME NEW f \in ToSet(regular), NEW t \in ToSet(regular), Party(f, t)
                     PROVE  Moving(f, t)'
        BY <3>3
      <4>2. ToSet(inbox'[f]) \subseteq {PlanPart}
        BY <2>0, <3>4, <3>8, NothingIn
      <4>3. PlanPart' = PlanPart
        BY <1>2 DEF PlanPart
      <4>4. outbox'[f] = <<>> /\ plan'.from \in needReplay'
        BY <1>2, <3>1, <3>4
      <4>5. QED
        BY <4>2, <4>3, <4>4 DEF Moving
    <3>11. QED
      BY <1>5, <3>3, <3>9, <3>10
  <2>3. QED
    BY <2>1, <2>2
<1>12. CASE WaitPartitionReply
  <2>1. /\ inbox' = inbox /\ needReplay' = needReplay /\ iFlag = 4
        /\ \/ iFlag' = 5 /\ regular = <<>>
           \/ iFlag' \in {4, 9}
    BY <1>12 DEF WaitPartitionReply, WaitGameServerReply, NextStage, netVars
  <2>2. ASSUME NEW f \in ToSet(regular), NEW t \in ToSet(regular), Party(f, t)
        PROVE  Moving(f, t)' /\ iFlag' # 5
    <3>1. Moving(f, t)
      BY <2>1, <2>2 DEF HostInv, Ordered
    <3>2. QED
      BY <1>3, <1>8, <2>1, <2>2, <3>1
  <2>3. Kept
    BY <2>2
  <2>4. \A k \in Listener : ToSet(inbox'[k]) \subseteq {Lock, Unlock, Mst, PlanPart}
    BY <1>7, <2>1
  <2>5. iFlag' # 3
    BY <2>1
  <2>6. QED
    BY <1>5, <2>3, <2>4, <2>5
<1>13. CASE ChangeMST
  <2>1. /\ inbox' = Sent(ToSet(regular), Mst) /\ iFlag = 5 /\ iFlag' = 5 /\ waiting' = 5
    BY <1>13 DEF ChangeMST, SendToAll
  <2>2. Kept
    BY <2>1 DEF HostInv, Ordered
  <2>3. QED
    BY <1>5, <1>6, <2>1, <2>2
<1>14. CASE EndMstWait
  <2>1. waiting = 5 /\ iFlag \in {5, 9}
    BY <1>1, <1>14 DEF EndMstWait, PlanInv, LockInv
  <2>2. /\ inbox' = inbox
        /\ \/ iFlag' = 7 /\ waiting' = 0
           \/ iFlag' = iFlag /\ waiting' = 5
    BY <1>14 DEF EndMstWait, WaitGameServerReply, NextStage, netVars
  <2>3. Kept
    BY <2>1, <2>2 DEF HostInv, Ordered
  <2>4. QED
    BY <1>5, <1>7, <2>1, <2>2, <2>3
<1>15. CASE SendUnlock
  <2>1. /\ inbox' = Sent(ToSet(regular), Unlock) /\ iFlag' \in {8, 9} /\ waiting' \in {0, 7}
    BY <1>15 DEF SendUnlock, SendToAll, WaitGameServerReply, NextStage
  <2>2. Kept
    BY <2>1 DEF Ordered
  <2>3. QED
    BY <1>5, <1>6, <2>1, <2>2
<1>16. CASE WaitUnlockReply
  <2>1. inbox' = inbox /\ iFlag' \in {8, 9, 99} /\ waiting' \in {0, 8}
    BY <1>16 DEF WaitUnlockReply, WaitGameServerReply, NextStage, netVars
  <2>2. Kept
    BY <2>1 DEF Ordered
  <2>3. QED
    BY <1>5, <1>7, <2>1, <2>2
<1>17. CASE RecoverMST
  <2>1. inbox' = Sent(ToSet(regular), Mst) /\ iFlag' = 9 /\ waiting' = 0
    BY <1>1, <1>17 DEF RecoverMST, PlanInv
  <2>2. Kept
    BY <2>1 DEF Ordered
  <2>3. QED
    BY <1>5, <1>6, <2>1, <2>2
<1>18. CASE AllReplied
  <2>1. /\ inbox' = inbox /\ needReplay = {} /\ waiting # 0
        /\ iFlag' = NextStage[waiting] /\ waiting' = 0
    BY <1>1, <1>18 DEF AllReplied, PlanInv, netVars
  <2>2. /\ iFlag' \in {3, 5, 7, 9}
        /\ iFlag' = 3 => waiting \in {1, 2}
        /\ iFlag' = 5 => waiting \in {3, 4}
    BY <1>1, <2>1 DEF NextStage
  <2>3. iFlag' = 3 => ToSet(regular) \subseteq Silent
    <3>1. Asked = {}
      BY <2>1 DEF Asked
    <3>2. QED
      BY <2>2, <3>1 DEF LockInv
  <2>4. Kept
    <3>1. SUFFICES ASSUME NEW f \in ToSet(regular), NEW t \in ToSet(regular), Party(f, t),
                          iFlag' = 5
                   PROVE  host[plan.zone] = t
      BY <2>1, <2>2 DEF Ordered
    <3>2. Moving(f, t)
      BY <2>2, <3>1 DEF HostInv, Ordered
    <3>3. QED
      BY <2>1, <3>2 DEF Moving
  <2>5. QED
    BY <1>5, <1>7, <2>1, <2>3, <2>4
<1>19. QED
  BY <1>9, <1>10, <1>11, <1>12, <1>13, <1>14, <1>15, <1>16, <1>17, <1>18

\* A plan is adopted when no command and no answer is under way.
LEMMA HostAdopt ==
  ASSUME StageRulesHold, TypeInv, LockInv, NewPlan, Discipline
  PROVE  HostInv'
<1>1. /\ UNCHANGED <<inbox, outbox, regular>>
      /\ iFlag' = 1 /\ waiting' = 0 /\ NewPlanNow
  <2>1. PICK f \in Id, t \in Id, z \in Zone :
           \/ GetPlanFromConsole(f, t, z)
           \/ \E u \in Listener : MakePlan(u, t, z)
    BY DEF NewPlan
  <2>2. CASE GetPlanFromConsole(f, t, z)
    <3>1. ~PlanRuns /\ PlanRuns'
      BY <2>2, TypeAdopt DEF GetPlanFromConsole
    <3>2. waiting = 0
      BY <2>2, <3>1 DEF GetPlanFromConsole, TypeInv, PlanInv, Window
    <3>3. QED
      BY <2>2, <3>1, <3>2 DEF GetPlanFromConsole, Adopt, NewPlanNow, srvVars, netVars, ctlVars
  <2>3. CASE \E u \in Listener : MakePlan(u, t, z)
    <3>1. PICK u \in Listener : MakePlan(u, t, z)
      BY <2>3
    <3>2. srvId[u] \in Id /\ Adopt(srvId[u], t, z)
      BY <3>1, Queues DEF MakePlan
    <3>3. ~PlanRuns /\ PlanRuns'
      BY <3>2, TypeAdopt
    <3>4. waiting = 0
      BY <3>1 DEF MakePlan, TypeInv, PlanInv
    <3>5. QED
      BY <3>1, <3>3, <3>4 DEF MakePlan, Adopt, NewPlanNow, srvVars, netVars
  <2>4. QED
    BY <2>1, <2>2, <2>3
<1>2. \A l \in ToSet(regular) : Backlog(l) = 0
  BY <1>1 DEF StageRulesHold, Discipline, QuietRule
<1>3. ASSUME NEW l \in Listener
      PROVE  inbox[l] = <<>>
  <2>1. CASE l \in ToSet(regular)
    <3>1. Len(inbox[l]) \in Nat /\ Len(outbox[l]) \in Nat
      BY Boxes
    <3>2. Len(inbox[l]) = 0
      BY <1>2, <2>1, <3>1, NoneOfTwo DEF Backlog
    <3>3. QED
      BY <3>2, Boxes, EmptySeq
  <2>2. CASE l \notin ToSet(regular)
    BY <2>2 DEF LockInv, Silent
  <2>3. QED
    BY <2>1, <2>2
<1>4. QED
  BY <1>1, <1>3, NothingIn DEF HostInv, Ordered

\* The other steps leave the boxes, the registry and the zone's place alone.
LEMMA HostOther ==
  ASSUME TypeInv, HostInv, PlanRuns,
         plan'.from = plan.from, plan'.to = plan.to, plan'.zone = plan.zone,
         UNCHANGED <<inbox, outbox, needReplay, srvId, regular, iFlag, host>>,
         waiting' \in {0, waiting}
  PROVE  HostInv'
<1>1. PlanPart' = PlanPart /\ Silent' = Silent /\ ToSet(regular') = ToSet(regular)
  BY SameBoxes DEF PlanPart
<1>2. \A l \in Listener : ToSet(inbox'[l]) \subseteq {Lock, Unlock, Mst, PlanPart}
  BY DEF HostInv
<1>3. ASSUME NEW f \in ToSet(regular'), NEW t \in ToSet(regular'),
             srvId'[f] = plan.from, srvId'[t] = plan.to
      PROVE  /\ Ordered' => Moving(f, t)'
             /\ iFlag' = 5 => host'[plan.zone] = t
  <2>1. f \in ToSet(regular) /\ t \in ToSet(regular) /\ Party(f, t)
    BY <1>1, <1>3 DEF Party
  <2>2. Ordered' => Ordered
    BY DEF Ordered
  <2>3. Moving(f, t)' = Moving(f, t)
    BY <1>1 DEF Moving
  <2>4. QED
    BY <2>1, <2>2, <2>3 DEF HostInv
<1>4. iFlag' = 3 => ToSet(regular') \subseteq Silent'
  BY <1>1 DEF HostInv
<1>5. QED
  BY <1>2, <1>3, <1>4, HostKept

LEMMA HostStep ==
  ASSUME StageRulesHold, TypeInv, OwnInv, LockInv, HostInv, [Next /\ Discipline]_vars
  PROVE  HostInv'
<1> SUFFICES ASSUME PlanRuns' PROVE HostInv'
  BY DEF HostInv
<1>1. RegistryConsistent /\ PlanZoneAtParty
  BY DEF OwnInv
<1>2. CASE NewPlan /\ Discipline
  BY <1>2, LockInv, HostAdopt
<1>3. CASE ~NewPlan
  <2>1. plan' # NoPlan /\ [Next]_vars
    BY DEF PlanRuns, NoPlan
  <2>2. plan'.from = plan.from /\ plan'.to = plan.to /\ plan'.zone = plan.zone /\ PlanRuns
    BY <1>3, <2>1, PlanKept DEF PlanRuns
  <2>3. CASE \/ SendLock \/ WaitLockReply \/ StartPartition \/ WaitPartitionReply \/ ChangeMST
             \/ EndMstWait \/ SendUnlock \/ WaitUnlockReply \/ RecoverMST \/ AllReplied
    BY <2>2, <2>3, HostStages
  <2>4. ~AcceptGameServer /\ ~AcceptRefused /\ ~FinishPlan
    <3>1. ~AcceptGameServer
      BY <1>1, <2>2, Joined DEF PlanZoneAtParty
    <3>2. ~FinishPlan
      BY <2>1 DEF FinishPlan
    <3>3. QED
      BY <1>1, <3>1, <3>2, NobodyRefused
  <2>5. CASE \/ EndLoopWait \/ AcceptNothing \/ EndAcceptWait \/ EndQuery \/ DoNothing \/ TimedOut
             \/ Terminate \/ AddProxyMgrServer \/ OnProxyMgrServerException
    <3>1. UNCHANGED <<inbox, outbox, needReplay, srvId, regular, iFlag, host>>
      BY <2>5 DEF EndLoopWait, AcceptNothing, EndAcceptWait, EndQuery, DoNothing, TimedOut,
         Terminate, AddProxyMgrServer, OnProxyMgrServerException, srvVars, planVars, netVars
    <3>2. waiting' \in {0, waiting}
      BY <2>5 DEF EndLoopWait, AcceptNothing, EndAcceptWait, EndQuery, DoNothing, TimedOut,
         Terminate, AddProxyMgrServer, OnProxyMgrServerException, ctlVars
    <3>3. QED
      BY <2>2, <3>1, <3>2, HostOther
  <2>6. ASSUME NEW l \in Listener,
               Connect(l) \/ Announce(l) \/ OnReply(l) \/ GsStep(l) \/ GsCrash(l)
        PROVE  HostInv'
    BY <1>1, <2>2, <2>6, HostServers
  <2>7. ASSUME NEW l \in Listener, ServerLost(l)
        PROVE  HostInv'
    BY <1>1, <2>2, <2>7, HostLost
  <2>8. CASE UNCHANGED vars
    <3>1. UNCHANGED <<inbox, outbox, needReplay, srvId, regular, iFlag, host, waiting>>
      BY <2>8 DEF vars, srvVars, planVars, netVars, ctlVars
    <3>2. QED
      BY <2>2, <3>1, HostOther
  <2>9. QED
    BY <1>3, <2>3, <2>4, <2>5, <2>6, <2>7, <2>8 DEF Next, IlmStep
<1>4. QED
  BY <1>2, <1>3 DEF vars, planVars, NewPlan, GetPlanFromConsole, MakePlan, Adopt

LEMMA HostInvHolds ==
  ASSUME StageRulesHold
  PROVE  DisciplinedSpec => [](TypeInv /\ OwnInv /\ LockInv /\ HostInv)
<1>1. Init => HostInv
  BY DEF Init, HostInv, PlanRuns, NoPlan
<1>2. TypeInv /\ OwnInv /\ LockInv /\ HostInv /\ [Next /\ Discipline]_vars => HostInv'
  BY HostStep
<1>3. QED
  BY <1>1, <1>2, LockInvHolds, PTL DEF DisciplinedSpec

\* Under the five rules the MST is changed only after the server that gets the
\* zone has unpacked its objects, whatever was lost, timed out or repeated before
\* (changeMST after startPartition's reply).
THEOREM MstFollowsTransfer ==
  ASSUME StageRulesHold
  PROVE  DisciplinedSpec => MoveAfterTransfer
<1>1. ASSUME TypeInv, OwnInv, HostInv, ChangeMST
      PROVE  host[plan.zone] = To
  <2>1. PlanRuns => plan.from # plan.to
    BY <1>1 DEF OwnInv, PlanZoneAtParty
  <2>2. /\ From \in ToSet(regular) /\ To \in ToSet(regular) /\ PlanRuns
        /\ srvId[From] = plan.from /\ srvId[To] = plan.to /\ iFlag = 5
    BY <1>1, <2>1, Parties DEF ChangeMST
  <2>3. QED
    BY <1>1, <2>2 DEF HostInv, Party
<1>2. TypeInv /\ OwnInv /\ HostInv => [ChangeMST => host[plan.zone] = To]_vars
  BY <1>1
<1>3. QED
  BY <1>2, HostInvHolds, PTL DEF MoveAfterTransfer
=============================================================================
