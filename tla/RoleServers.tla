---------------------------- MODULE RoleServers ----------------------------
(***************************************************************************)
(* The ILM and the role servers.  Role servers join over the queues of     *)
(* ServerManager; the ILM tells them with every query which game servers   *)
(* there are, and at once when one leaves.  A role server sends a client   *)
(* to the first of its list.                                               *)
(*                                                                         *)
(* Of the game servers only the ids in _regularGameServers count here;     *)
(* ServerManager has their joining, and its rules "ids" and "pm" hold: an  *)
(* id in use is not given again, and the proxy manager stays once it is    *)
(* connected.  The waits inside removeGameServer and removeRoleServer      *)
(* handle events that commute with them; they are one step.                *)
(***************************************************************************)
EXTENDS Integers, SequencesExt

CONSTANTS
  Role,       \* role servers
  GameID,     \* the ids of game servers
  RoleBase,   \* 3000: the first of the ids of role servers
  IdWidth,    \* 65536: ids have 16 bits
  MaxStarts,  \* bound: starts of a role server
  MaxJoins,   \* bound: joins of game servers
  MaxQueue    \* bound: messages on the way to a role server at a query

ASSUME RoleAssumption ==
  /\ GameID \subseteq 1 .. RoleBase
  /\ {RoleBase, IdWidth, MaxStarts, MaxJoins, MaxQueue} \subseteq Nat /\ RoleBase < IdWidth

VARIABLES
  pm,        \* a proxy manager is connected to the ILM
  games,     \* ids in _regularGameServers
  joins,     \* how many game servers have joined
  prep,      \* _prepRoleServers
  roles,     \* _regularRoleServers
  asked,     \* role servers whose SERVER_CONNECT_ILM_REQUEST the ILM has read
  cursor,    \* _rsrvIdCursor
  toRole,    \* what is on the way to a role server
  phase,     \* of a role server: "off", "open", "joining", "on"
  starts,    \* how often it was started
  gsList     \* m_GSList of a role server

ilmVars  == <<pm, games, joins, prep, roles, asked, cursor>>
roleVars == <<phase, starts, gsList>>
allVars == <<ilmVars, roleVars, toRole>>

RolesInit ==
  /\ pm = FALSE /\ games = <<>> /\ joins = 0
  /\ prep = <<>> /\ roles = <<>> /\ asked = {} /\ cursor = RoleBase
  /\ toRole = [r \in Role |-> <<>>]
  /\ phase = [r \in Role |-> "off"] /\ starts = [r \in Role |-> 0]
  /\ gsList = [r \in Role |-> <<>>]

ToRoles(m) == toRole' = [r \in Role |-> IF r \in ToSet(roles) THEN Append(toRole[r], m) ELSE toRole[r]]

-----------------------------------------------------------------------------
(* The processes around the ILM                                            *)

PmConnect == ~pm /\ pm' = TRUE /\ UNCHANGED <<games, joins, prep, roles, asked, cursor, roleVars, toRole>>

\* ServerManager::acceptGameServers, toRegular
GameJoin(id) ==
  /\ pm /\ joins < MaxJoins /\ id \notin ToSet(games)
  /\ games' = Append(games, id) /\ joins' = joins + 1
  /\ UNCHANGED <<pm, prep, roles, asked, cursor, roleVars, toRole>>

\* Mutant: the next query brings the list without the server.
GameLostM(id) ==
  /\ id \in ToSet(games)
  /\ games' = RemoveFirst(games, id)
  /\ UNCHANGED <<pm, joins, prep, roles, asked, cursor, roleVars, toRole>>

\* removeGameServer, sendRemoveGameServer
GameLost(id) ==
  /\ id \in ToSet(games)
  /\ ToRoles([type |-> "remove", id |-> id])
  /\ games' = RemoveFirst(games, id)
  /\ UNCHANGED <<pm, joins, prep, roles, asked, cursor, roleVars>>

\* A role server connects: RoleServerAcceptor, addRoleServer.
RoleStart(r) ==
  /\ phase[r] = "off" /\ starts[r] < MaxStarts
  /\ phase' = [phase EXCEPT ![r] = "open"] /\ starts' = [starts EXCEPT ![r] = @ + 1]
  /\ prep' = Append(prep, r)
  /\ UNCHANGED <<pm, games, joins, roles, asked, cursor, gsList, toRole>>

\* It sends its request, and the ILM reads it: ILMObject::Init, completeConn.
RoleAsk(r) ==
  /\ phase[r] = "open"
  /\ phase' = [phase EXCEPT ![r] = "joining"] /\ asked' = asked \cup {r}
  /\ UNCHANGED <<pm, games, joins, prep, roles, cursor, starts, gsList, toRole>>

\* removeRoleServer, and the end of the role server's process
Forget(r) ==
  /\ prep' = RemoveFirst(prep, r) /\ roles' = RemoveFirst(roles, r) /\ asked' = asked \ {r}
  /\ phase' = [phase EXCEPT ![r] = "off"]
  /\ gsList' = [gsList EXCEPT ![r] = <<>>] /\ toRole' = [toRole EXCEPT ![r] = <<>>]

\* A role server is lost.  removeRoleServer does not look whether there is a
\* proxy manager: without one the ILM would end here.
RoleLost(r) ==
  /\ phase[r] # "off" /\ pm /\ starts[r] < MaxStarts
  /\ Forget(r)
  /\ UNCHANGED <<pm, games, joins, cursor, starts>>

-----------------------------------------------------------------------------
(* The main loop of the ILM                                                *)

\* allocateRoleSrvId
RoleID == (cursor + 1 + RoleBase) % IdWidth

\* Mutant: who has not asked yet stays first.
AcceptRoleM ==
  LET r == Head(prep) IN
  /\ pm /\ prep # <<>> /\ r \in asked
  /\ cursor' = (cursor + 1) % IdWidth
  /\ IF RoleID >= RoleBase
     THEN /\ prep' = Tail(prep) /\ roles' = Append(roles, r)
          /\ toRole' = [toRole EXCEPT ![r] = Append(@, [type |-> "joined", id |-> RoleID])]
          /\ UNCHANGED <<asked, phase, gsList>>
     ELSE Forget(r)
  /\ UNCHANGED <<pm, games, joins, starts>>

\* acceptRoleServers for the first in the queue: an id below RoleBase, after the
\* counter has passed its end, is refused; who has not asked yet goes to the end.
AcceptRole ==
  LET r == Head(prep) IN
  /\ pm /\ prep # <<>>
  /\ \/ /\ r \in asked /\ RoleID >= RoleBase
        /\ cursor' = (cursor + 1) % IdWidth
        /\ prep' = Tail(prep) /\ roles' = Append(roles, r)
        /\ toRole' = [toRole EXCEPT ![r] = Append(@, [type |-> "joined", id |-> RoleID])]
        /\ UNCHANGED <<asked, phase, gsList>>
     \/ /\ r \in asked /\ RoleID < RoleBase
        /\ cursor' = (cursor + 1) % IdWidth
        /\ Forget(r)
     \/ /\ r \notin asked
        /\ prep' = Append(Tail(prep), r)
        /\ UNCHANGED <<roles, asked, cursor, toRole, phase, gsList>>
  /\ UNCHANGED <<pm, games, joins, starts>>

\* timedQueryServerStat, queryRoleServerStat, getAllGameServerID
QueryRoles ==
  /\ roles # <<>> /\ \A r \in ToSet(roles) : Len(toRole[r]) < MaxQueue
  /\ ToRoles([type |-> "query", list |-> games])
  /\ UNCHANGED <<ilmVars, roleVars>>

-----------------------------------------------------------------------------
(* The role server                                                         *)

\* m_GSList after a message: an empty list is not taken over, and of an id that
\* is removed the first entry.
ListAfter(list, m) ==
  CASE m.type = "query" /\ m.list # <<>> -> m.list
    [] m.type = "remove"                 -> RemoveFirst(list, m.id)
    [] OTHER                             -> list

\* ILMObject::OnRead, for one message; the first is the answer that Init waits for
RoleRead(r) ==
  /\ toRole[r] # <<>>
  /\ toRole' = [toRole EXCEPT ![r] = Tail(@)]
  /\ LET m == Head(toRole[r]) IN
       /\ gsList' = [gsList EXCEPT ![r] = ListAfter(@, m)]
       /\ phase' = [phase EXCEPT ![r] = "on"]
  /\ UNCHANGED <<ilmVars, starts>>

RolesNext ==
  \/ PmConnect \/ AcceptRole \/ QueryRoles
  \/ \E id \in GameID : GameJoin(id) \/ GameLost(id)
  \/ \E r \in Role : RoleStart(r) \/ RoleAsk(r) \/ RoleLost(r) \/ RoleRead(r)

RolesSpec == RolesInit /\ [][RolesNext]_allVars

\* The main loop comes round to both of its calls, and role servers read.
RolesFairness ==
  /\ WF_allVars(AcceptRole) /\ WF_allVars(QueryRoles)
  /\ \A r \in Role : WF_allVars(RoleRead(r))

-----------------------------------------------------------------------------
(* Properties                                                              *)

\* A list after some messages
ListAfterAll(list, messages) ==
  LET after[k \in 0 .. Len(messages)] ==
        IF k = 0 THEN list ELSE ListAfter(after[k - 1], messages[k])
  IN  after[Len(messages)]

\* The list a role server will have when it has read what is on the way
ListToBe(r) == ListAfterAll(gsList[r], toRole[r])

\* A role server sends no client to a game server that has left, longer than the
\* notice takes: whatever the order of queries and losses, also when the last
\* one leaves and the query, which is empty then, changes nothing.
NoLostServer == \A r \in Role : ToSet(ListToBe(r)) \subseteq ToSet(games)

\* A role server that asks is registered or refused, whoever before it in the
\* queue never asks (moveToEnd), and comes to list the game servers there are.
RoleInformed ==
  \A r \in Role :
    pm /\ phase[r] = "joining" ~>
      phase[r] = "off" \/ (phase[r] = "on" /\ ToSet(gsList[r]) = ToSet(games))
=============================================================================
