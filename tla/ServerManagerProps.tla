------------------------- MODULE ServerManagerProps -------------------------
(***************************************************************************)
(* What the ILM server promises, and what it has to be given for it.       *)
(*                                                                         *)
(* The code keeps its promises only in an environment it does not enforce. *)
(* Each condition is a rule about the environment's own steps (a server    *)
(* that connects, announces itself or dies, the proxy manager, the         *)
(* operator); Rules is the set of those that a run assumes.                *)
(***************************************************************************)
EXTENDS ServerManager

CONSTANT Rules

ASSUME RulesAssumption == Rules \subseteq {"ids", "pm", "plan", "join", "quiet"}

Announcing == connSucc \cap ToSet(prep)
PlanRuns   == plan.zone # 0
NewPlanNow == ~PlanRuns /\ PlanRuns'

\* Game servers are restarted in such an order that the id that allocateSrvId
\* gives to the next one is not in use.
IdsRule == \/ connSucc' \subseteq connSucc
           \/ Announcing = {} /\ gsrvIdCursor + 1 \notin RegularIds

\* A game server is lost only while the proxy manager is connected.
PmRule == /\ (\E l \in Listener : link[l] = "up" /\ link'[l] = "down") => pm
          /\ (pm /\ ~pm') => \A l \in Listener : link[l] # "down"

\* A plan moves a zone from the server that has it to another one that
\* exists.
PlanRule == NewPlanNow =>
  /\ plan'.from # plan'.to /\ plan'.to \in RegularIds
  /\ \E l \in ToSet(regular) : srvId[l] = plan'.from /\ plan'.zone \in lstZone[l]

\* No game server joins while a plan runs.
JoinRule == /\ PlanRuns => connSucc' \subseteq connSucc
            /\ NewPlanNow => Announcing = {}

\* A plan starts when every earlier command has been answered.
QuietRule == NewPlanNow => \A l \in ToSet(regular) : Backlog(l) = 0

Discipline ==
  /\ "ids"   \in Rules => IdsRule
  /\ "pm"    \in Rules => PmRule
  /\ "plan"  \in Rules => PlanRule
  /\ "join"  \in Rules => JoinRule
  /\ "quiet" \in Rules => QuietRule

DisciplinedSpec     == Init /\ [][Next /\ Discipline]_vars
FairDisciplinedSpec == DisciplinedSpec /\ Fairness
-----------------------------------------------------------------------------
Holders(z) == {l \in Listener : z \in lstZone[l]}
Pools(z)   == {i \in DOMAIN zoneGroups : z \in zoneGroups[i]}

\* No zone is lost: it is always run by some server or waits in the pool,
\* whatever is lost, aborted or repeated (ServerManager::removeGameServer,
\* changeMST, recoverMST).
NoZoneLost == \A z \in Zone : Holders(z) # {} \/ Pools(z) # {}

\* A zone belongs to one server only (Zone.h), and is never both with a
\* server and in the pool, from where a second server would take it.
OneServerPerZone ==
  \A z \in Zone :
     /\ \A l, m \in Holders(z) : l = m
     /\ \A i, j \in Pools(z) : i = j
     /\ Holders(z) = {} \/ Pools(z) = {}

\* The two representations of the directory agree: the server recorded in a
\* zone, from which the MST is generated, is the one that lists the zone.
RecordedServerHolds ==
  \A z \in Zone :
     /\ \A l \in Holders(z) : zoneServer[z] = srvId[l]
     /\ Pools(z) # {} => zoneServer[z] = 0

\* The registry is sound: a listener that is connected is in one of the two
\* queues, once; registered servers have ids of their own; nobody else has
\* zones; and the one server that may join next will get a free id
\* (acceptGameServers, allocateSrvId, removeGameServer).
RegistryConsistent ==
  /\ IsInjective(prep) /\ IsInjective(regular)
  /\ ToSet(prep) \cap ToSet(regular) = {}
  /\ \A l \in Listener :
        l \in ToSet(prep) \cup ToSet(regular) <=> link[l] \in {"up", "down"}
  /\ ToSet(regular) \subseteq connSucc
  /\ connSucc \subseteq ToSet(prep) \cup ToSet(regular)
  /\ \A l, m \in ToSet(regular) : srvId[l] = srvId[m] => l = m
  /\ \A l \in ToSet(regular) : srvId[l] # 0
  /\ \A l \in Listener \ ToSet(regular) : lstZone[l] = {}
  /\ \A l, m \in Announcing : l = m
  /\ Announcing # {} => gsrvIdCursor + 1 \notin RegularIds
  /\ \A l \in Listener : link[l] = "down" => pm

\* The MST has been changed and the plan may still be undone.
Changed == iFlag \in {7, 8, 99} \/ waiting \in {5, 7, 8}

\* While both servers of the plan are there one of them has the plan's zone,
\* the new one from changeMST on: a repetition of case 5 and the recovery of
\* case 99 find it where they take it from.
PlanZoneAtParty ==
  PlanRuns =>
    /\ Announcing = {} /\ plan.from # plan.to
    /\ \A f, t \in ToSet(regular) :
          srvId[f] = plan.from /\ srvId[t] = plan.to =>
             /\ plan.zone \in lstZone[f] \cup lstZone[t]
             /\ Changed => plan.zone \in lstZone[t]

\* The server that lists a zone, NoListener when none does.
Holder == [z \in Zone |-> IF Holders(z) = {} THEN NoListener
                                            ELSE CHOOSE l \in Holders(z) : TRUE]

Directory == INSTANCE ZoneDirectory WITH
  Server <- Listener, NoServer <- NoListener,
  holder <- Holder, zone <- plan.zone, from <- From, to <- To

\* The registry, the plan's stages, their retries and their recovery keep the
\* promises of the abstract directory: a zone changes hands only by a join, a
\* loss, or between the two servers of the current plan.
ImplementsDirectory == Directory!DirSpec

\* The lock stage ends only when every server has locked: no lock command
\* and no answer to one is still under way when the partition is ordered.
AllLocked ==
  iFlag = 3 => \A l \in ToSet(regular) :
                  Lock \notin ToSet(inbox[l]) /\ "lock" \notin ToSet(outbox[l])

\* The MST gives a zone to the new server only after that server has
\* unpacked the zone's objects (changeMST after the partition's reply).
MoveAfterTransfer ==
  [][ChangeMST => host[plan.zone] = To]_vars

\* As long as no game server is lost no plan ends the ILM process: the
\* parties, the listeners and the zones that doPlan and its waits use without
\* a check are there at every stage.
PlanSurvives ==
  pc = "crashed" /\ PlanRuns => \E l \in Listener : link[l] \in {"down", "gone"}

\* Every plan ends: with success, by giving up or with the ILM's own end, however
\* late the servers answer.  Only the change of the MST may be repeated for ever: case
\* 5 has no limit, and answers that always come between two of its waits never count.
PlanEnds == <>[](iFlag = 5) \/ (PlanRuns ~> ~PlanRuns \/ pc = "crashed")
=============================================================================
