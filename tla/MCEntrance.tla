----------------------------- MODULE MCEntrance -----------------------------
(* The way into the game for TLC, one of three parts in a behaviour:            *)
(*   "login"   clients log in at the login server (LoginServer);                *)
(*   "roles"   the ILM tells the role servers of the game servers (RoleServers);*)
(*   "servers" the ILM tells the proxy manager and the proxies of both          *)
(*             (ProxyManager), without losses.                                  *)
(* The parts have no variable in common.                                        *)
EXTENDS LoginServer, RoleServers

CONSTANTS c1, c2, c3, u1, u2, Proxy, Login, GameServer, RoleServer, Width, NoLoad,
          MaxBacklog, MaxList, MaxGrants, MaxPlayers

VARIABLES proxies, maxProxyID, servers, addServerCount, login, session, sessionlist,
          ilm, joined, link, peer, toProxy, toPM, fromILM, pmObject, proxyID, authen,
          gs, players, ticket, pmWorld,
          part  \* of {"login", "roles", "servers"}

serverVars == <<proxies, maxProxyID, servers, addServerCount, login, session, sessionlist,
                ilm, joined, link, peer, toProxy, toPM, fromILM, pmObject, proxyID, authen,
                gs, players, ticket, pmWorld>>

Users(a, b, c) == [x \in Conn |-> CASE x = c1 -> a [] x = c2 -> b [] x = c3 -> c]

World(C, users_, right, leaves) == [conns |-> C, user |-> users_, right |-> right, leaves |-> leaves]

Nobody == World({}, Users(u1, u1, u1), {}, {})

\* Two users and a wrong password; one user twice; clients that leave after the
\* result, of two users and of one; and one that leaves whenever it likes.
EntranceWorlds ==
  {Nobody,
   World(Conn, Users(u1, u2, u2), {c1, c2}, {}),
   World(Conn, Users(u1, u1, u2), Conn, {}),
   World({c1, c2}, Users(u1, u2, u2), Conn, {"late"}),
   World(Conn, Users(u1, u1, u1), Conn, {"late"}),
   World({c1}, Users(u1, u1, u1), Conn, {"early", "late"})}

Game == {1, 2}
Roles == {6001}
NoFaults == {[faults |-> {}, servers |-> {1, 6001}, users |-> {}, ids |-> 2]}

Servers == INSTANCE ProxyManagerProps WITH Conn <- {c1, c2}, Worlds <- NoFaults, world <- pmWorld

MCInit ==
  /\ Init /\ RolesInit /\ Servers!Init
  /\ part \in {"login", "roles", "servers"}
  /\ (part = "login") = (world # Nobody)

MCNext ==
  /\ \/ part = "login" /\ Next /\ UNCHANGED <<allVars, serverVars>>
     \/ part = "roles" /\ RolesNext /\ UNCHANGED <<vars, serverVars>>
     \/ part = "servers" /\ Servers!Next /\ UNCHANGED <<vars, allVars>>
  /\ UNCHANGED part

\* The fairness of ProxyManager (FairSpec), where its part runs.  Where one of the others does
\* not run, none of its fair actions is ever enabled.
ServersFairness ==
  /\ WF_serverVars(part = "servers" /\ Servers!HandleILM)
  /\ \A c \in {c1, c2} : WF_serverVars(part = "servers" /\ Servers!Handle(c))
  /\ \A p \in Proxy : WF_serverVars(part = "servers" /\ Servers!ProxyStep(p))

MCSpec == /\ MCInit /\ [][MCNext]_<<vars, allVars, serverVars, part>>
          /\ Fairness /\ RolesFairness /\ ServersFairness

\* A server that stays is listed (ProxyManagerProps).
ServerListed == Servers!ServerListed
=============================================================================
