---------------------------- MODULE ProxyManager ----------------------------
(***************************************************************************)
(* The proxy manager with its peers: the proxies that carry the players'    *)
(* traffic, the login servers that ask for a proxy and a session for a      *)
(* user, and the ILM, which announces the servers that join and leave.      *)
(*                                                                          *)
(* The proxy manager is one thread over an epoll loop: a handler runs to    *)
(* its end, so each is one action.  A proxy is one thread as well and       *)
(* handles the messages of the proxy manager one by one.                    *)
(*                                                                          *)
(* A connection that breaks is first "broken": the peer is gone and the     *)
(* proxy manager does not know yet.  It learns it from an event of the      *)
(* connection (ProxyGone), or never if the network swallowed the end of     *)
(* the connection; then only alreadyHaveThisProxy removes the item, when    *)
(* the proxy joins again.                                                   *)
(***************************************************************************)
EXTENDS Integers, FiniteSets, SequencesExt

CONSTANTS
  Proxy,       \* the proxies, each with its address
  Conn,        \* the connections between proxies and the proxy manager
  Login,       \* the login servers
  User,        \* the users
  GameServer,  \* ids of game servers  (ILM: 1 to 3000)
  RoleServer,  \* ids of role servers  (ILM: above 6000)
  None,        \* no connection, no address, no message
  Width,       \* the values of the uint16_t _addServerCount, 65536
  NoLoad,      \* the load of a proxy that has not told it yet, 65535
  MaxBacklog,  \* bound: messages waiting in one channel
  MaxList,     \* bound: entries of _servers, and answers awaited
  MaxGrants,   \* bound: sessions the proxies hold
  MaxPlayers,  \* bound: clients of a proxy
  Worlds       \* what a behaviour may contain: servers, users, and faults
               \* (see the actions that name them)

Server == GameServer \cup RoleServer

Fault == {"silent", "count", "cut", "restart", "ilm", "pm", "login", "refuse"}

ASSUME PMAssumption ==
  /\ Width \in Nat /\ Width > 1 /\ NoLoad \in Nat
  /\ MaxBacklog \in Nat /\ MaxList \in Nat /\ MaxGrants \in Nat /\ MaxPlayers \in Nat
  /\ Worlds \subseteq [faults : SUBSET Fault, servers : SUBSET Server, users : SUBSET User,
                       ids : Nat]
  /\ None \notin Proxy \cup Conn \cup Login
  /\ Server \subseteq Nat \ {0}
  /\ GameServer \cap RoleServer = {}

VARIABLES
  proxies,         \* _proxies: the items by connection
  maxProxyID,      \* _maxProxyID
  servers,         \* _servers and _roleservers, in order of arrival
  addServerCount,  \* _addServerCount
  login,           \* _login: a login server is "new", "up" or "gone"
  session,         \* _session: the number the next user is given
  sessionlist,     \* _sessionlist: the session of each user seen so far
  ilm,             \* the connection to the ILM: "down", "up" or "ended"
  joined,          \* the servers the ILM has, ServerManager's two lists
  link,            \* a connection: "free", "new", "open", "broken", "leaked"
  peer,            \* the proxy that opened a connection
  toProxy, toPM,   \* what is on the way on a connection
  fromILM,         \* what is on the way from the ILM
  pmObject,        \* ProxyManagerObject: the connection of a proxy, or None
  proxyID,         \* mProxyID of a proxy
  authen,          \* mAuthenInfo of a proxy
  gs,              \* mMapServerList of a proxy: the servers it talks to
  players,         \* mClientSum of a proxy
  ticket,          \* answers to login servers that no client has used yet
  world            \* the member of Worlds of this behaviour; ids bounds maxProxyID

pmVars    == <<proxies, maxProxyID, servers, addServerCount, login, session, sessionlist>>
ilmVars   == <<ilm, joined, fromILM, world>>
netVars   == <<link, peer, toProxy, toPM>>
proxyVars == <<pmObject, proxyID, authen, gs, players, ticket>>
vars      == <<pmVars, ilmVars, netVars, proxyVars>>

-----------------------------------------------------------------------------
(* Messages.  The user, the proxy id and the login server travel with a     *)
(* session to the proxy and back.                                           *)

Join(id)             == [type |-> "join", id |-> id]
Joined(ok, id, list) == [type |-> "joined", ok |-> ok, id |-> id, list |-> list]
Complete             == [type |-> "complete"]
Query                == [type |-> "query"]
Status(n)            == [type |-> "status", num |-> n]
Add(s)               == [type |-> "add", server |-> s]
Added(s)             == [type |-> "added", server |-> s]
Leave(s)             == [type |-> "leave", server |-> s]
Grant(u, k, l, id)   == [type |-> "grant", user |-> u, session |-> k, login |-> l, id |-> id]
Granted(m)           == [m EXCEPT !.type = "granted"]

\* A message to a peer that is gone is lost.
Put(chan, c, m) == IF link[c] = "open" THEN [chan EXCEPT ![c] = Append(@, m)] ELSE chan

\* ProxyItem::ProxyItem
NewItem == [addr |-> None, num |-> NoLoad, id |-> 0, valid |-> FALSE]

Items == DOMAIN proxies

Init ==
  /\ proxies = <<>> /\ maxProxyID = 0
  /\ servers = <<>> /\ addServerCount = 0
  /\ login = [l \in Login |-> "new"] /\ session = 1 /\ sessionlist = <<>>
  /\ ilm = "down" /\ joined = {} /\ fromILM = <<>>
  /\ link = [c \in Conn |-> "free"] /\ peer = [c \in Conn |-> None]
  /\ toProxy = [c \in Conn |-> <<>>] /\ toPM = [c \in Conn |-> <<>>]
  /\ pmObject = [p \in Proxy |-> None] /\ proxyID = [p \in Proxy |-> 0]
  /\ authen = [p \in Proxy |-> <<>>] /\ gs = [p \in Proxy |-> {}]
  /\ players = [p \in Proxy |-> 0] /\ ticket = {} /\ world \in Worlds

\* Mgr.cpp waits on epoll only while the ILM is connected; the events of the
\* batch that told the loss of the ILM are still handled ("ended").
Serving == ilm \in {"up", "ended"}

-----------------------------------------------------------------------------
(* Joining of proxies                                                       *)

\* ProxyManagerObject::Init: a proxy without a connection opens one and sends
\* its address and its id, 0 when it has none yet.  Unless "silent" is a fault,
\* the proxy manager learns of a broken connection before the proxy is back.
ProxyConnect(p, c) ==
  /\ pmObject[p] = None /\ link[c] = "free"
  /\ "silent" \in world.faults \/ \A d \in Conn : peer[d] = p => link[d] # "broken"
  /\ pmObject' = [pmObject EXCEPT ![p] = c]
  /\ link' = [link EXCEPT ![c] = "new"] /\ peer' = [peer EXCEPT ![c] = p]
  /\ toPM' = [toPM EXCEPT ![c] = <<Join(proxyID[p])>>]
  /\ UNCHANGED <<pmVars, ilmVars, toProxy, proxyID, authen, gs, players, ticket>>

\* ProxyAcceptAction::execute, addProxy
AcceptProxy(c) ==
  /\ Serving /\ link[c] = "new"
  /\ link' = [link EXCEPT ![c] = "open"]
  /\ proxies' = [d \in Items \cup {c} |-> IF d = c THEN NewItem ELSE proxies[d]]
  /\ UNCHANGED <<maxProxyID, servers, addServerCount, login, session, sessionlist,
                 ilmVars, peer, toProxy, toPM, proxyVars>>

\* The next message of a connection, handled by the proxy manager
Receive(c, type) ==
  /\ Serving /\ link[c] \in {"open", "broken"}
  /\ toPM[c] # <<>> /\ Head(toPM[c]).type = type

Received(c) == toPM' = [toPM EXCEPT ![c] = Tail(@)]

\* Mutant: a proxy that joins again is not found.
SameProxyUnseen(p) == {}

\* alreadyHaveThisProxy: the items with the address of the proxy that joins
SameProxy(p) == {d \in Items : proxies[d].addr = p}

\* allocProxyID
AllocProxyID == maxProxyID + 1

\* proxyJoin.  A proxy that is known is given the id it sent, not the id of
\* the item; the item and its connection leave the epoll set, and nothing
\* closes the connection.  Without an id the answer is a failure and the item
\* of the new connection stays as it was.
JoinId(c) == IF SameProxy(peer[c]) = {} THEN AllocProxyID ELSE Head(toPM[c]).id

ProxyJoin(c) ==
  /\ Receive(c, "join") /\ maxProxyID < world.ids
  /\ LET known == SameProxy(peer[c])
         id    == JoinId(c)
     IN /\ maxProxyID' = IF known = {} THEN AllocProxyID ELSE maxProxyID
        /\ proxies' = [d \in Items \ known |->
                         IF d = c /\ id # 0 THEN [proxies[d] EXCEPT !.addr = peer[c], !.id = id]
                         ELSE proxies[d]]
        /\ link' = [d \in Conn |-> IF d \in known THEN "leaked" ELSE link[d]]
        /\ toPM' = [d \in Conn |-> IF d = c THEN Tail(toPM[c])
                                   ELSE IF d \in known THEN <<>> ELSE toPM[d]]
        /\ \/ toProxy' = Put(toProxy, c, Joined(id # 0, id, IF id = 0 THEN <<>> ELSE servers))
           \/ "count" \in world.faults /\ id # 0 /\ UNCHANGED toProxy
  /\ UNCHANGED <<servers, addServerCount, login, session, sessionlist, ilmVars, peer, proxyVars>>

\* getServers counts in an uninitialised variable, and size() reserves the
\* packet of the answer by that count before pack() sets the right one.  With
\* too small a count push() throws and the proxy is removed with its
\* connection; with too large a count the packet does not fit the output
\* buffer and is dropped (above); in between the answer is sent.
ProxyJoinThrows(c) ==
  /\ "count" \in world.faults
  /\ Receive(c, "join") /\ maxProxyID < world.ids /\ JoinId(c) # 0 /\ servers # <<>>
  /\ LET known == SameProxy(peer[c])
     IN /\ maxProxyID' = IF known = {} THEN AllocProxyID ELSE maxProxyID
        /\ proxies' = [d \in Items \ (known \cup {c}) |-> proxies[d]]
        /\ link' = [d \in Conn |-> IF d = c THEN "free" ELSE IF d \in known THEN "leaked" ELSE link[d]]
        /\ peer' = [peer EXCEPT ![c] = None]
        /\ pmObject' = [p \in Proxy |-> IF pmObject[p] = c THEN None ELSE pmObject[p]]
        /\ toPM' = [d \in Conn |-> IF d \in known \cup {c} THEN <<>> ELSE toPM[d]]
        /\ toProxy' = [toProxy EXCEPT ![c] = <<>>]
  /\ UNCHANGED <<servers, addServerCount, login, session, sessionlist, ilmVars,
                 proxyID, authen, gs, players, ticket>>

\* proxyJoinComplete; a proxy always reports success.
ProxyJoinComplete(c) ==
  /\ Receive(c, "complete") /\ Received(c)
  /\ proxies' = [proxies EXCEPT ![c].valid = TRUE]
  /\ UNCHANGED <<maxProxyID, servers, addServerCount, login, session, sessionlist,
                 ilmVars, link, peer, toProxy, proxyVars>>

\* Every broken read or write ends in removeProxy; _addServerCount keeps
\* waiting for what the proxy owed.
ProxyGone(c) ==
  /\ Serving /\ link[c] = "broken"
  /\ link' = [link EXCEPT ![c] = "free"] /\ peer' = [peer EXCEPT ![c] = None]
  /\ proxies' = [d \in Items \ {c} |-> proxies[d]]
  /\ toPM' = [toPM EXCEPT ![c] = <<>>]
  /\ UNCHANGED <<maxProxyID, servers, addServerCount, login, session, sessionlist,
                 ilmVars, toProxy, proxyVars>>

-----------------------------------------------------------------------------
(* The load of the proxies                                                  *)

\* queryProxies: every valid proxy is asked (at most one query on the way)
QueryProxies ==
  LET asked == {c \in Items : proxies[c].valid}
  IN /\ ilm = "up" /\ asked # {}
     /\ \A c \in Conn : toProxy[c] = <<>> /\ toPM[c] = <<>>
     /\ toProxy' = [c \in Conn |-> IF c \in asked /\ link[c] = "open" THEN <<Query>> ELSE <<>>]
     /\ UNCHANGED <<pmVars, ilmVars, link, peer, toPM, proxyVars>>

\* updateProxy with the answer
ProxyStatus(c) ==
  /\ Receive(c, "status") /\ Received(c)
  /\ proxies' = [proxies EXCEPT ![c].num = Head(toPM[c]).num]
  /\ UNCHANGED <<maxProxyID, servers, addServerCount, login, session, sessionlist,
                 ilmVars, link, peer, toProxy, proxyVars>>

-----------------------------------------------------------------------------
(* Servers that join and leave                                              *)

\* The bounds on what the ILM starts
Room == /\ Len(fromILM) < MaxBacklog /\ Len(servers) < MaxList /\ addServerCount < MaxList
        /\ \A c \in Conn : Len(toProxy[c]) < MaxBacklog /\ Len(toPM[c]) < MaxBacklog

\* ServerManager::acceptGameServers, acceptRoleServers: gameServerJoin
IlmJoin(s) ==
  /\ ilm = "up" /\ s \in world.servers \ joined /\ Room
  /\ joined' = joined \cup {s}
  /\ fromILM' = Append(fromILM, Add(s))
  /\ UNCHANGED <<pmVars, ilm, world, netVars, proxyVars>>

\* ServerManager::removeGameServer, removeRoleServer: gameServerLeave
IlmLeave(s) ==
  /\ ilm = "up" /\ s \in joined /\ Room
  /\ joined' = joined \ {s}
  /\ fromILM' = Append(fromILM, Leave(s))
  /\ UNCHANGED <<pmVars, ilm, world, netVars, proxyVars>>

NextFromILM(type) == /\ ilm = "up" /\ fromILM # <<>> /\ Head(fromILM).type = type
                     /\ fromILM' = Tail(fromILM)

\* push_back of onAddServerMessage and onAddServerMessageReply
ListedWhenAsked(s) == IF addServerCount = 0 THEN servers ELSE Append(servers, s)

Listed(s) == Append(servers, s)

\* onAddServerMessage without a proxy: listed and answered at once
AddServerAlone ==
  /\ NextFromILM("add") /\ Items = {}
  /\ servers' = Listed(Head(fromILM).server)
  /\ UNCHANGED <<proxies, maxProxyID, addServerCount, login, session, sessionlist,
                 ilm, joined, world, netVars, proxyVars>>

\* Mutant: only joined proxies are counted.
AskedJoined == (addServerCount + Cardinality({c \in Items : proxies[c].valid})) % Width

\* One answer awaited for every item
Asked == (addServerCount + Cardinality(Items)) % Width

\* onAddServerMessage: forwarded to every item, joined or not
AddServerForward ==
  /\ NextFromILM("add") /\ Items # {}
  /\ toProxy' = [c \in Conn |-> IF c \in Items /\ link[c] = "open"
                                THEN Append(toProxy[c], Head(fromILM)) ELSE toProxy[c]]
  /\ addServerCount' = Asked
  /\ UNCHANGED <<proxies, maxProxyID, servers, login, session, sessionlist,
                 ilm, joined, world, link, peer, toPM, proxyVars>>

\* The proxy manager ends and is started again: its tables are empty and its
\* connections closed; the proxies and login servers see it.
StartAgain ==
  /\ proxies' = <<>> /\ maxProxyID' = 0 /\ servers' = <<>> /\ addServerCount' = 0
  /\ session' = 1 /\ sessionlist' = <<>>
  /\ login' = [l \in Login |-> IF login[l] = "up" THEN "gone" ELSE login[l]]
  /\ ilm' = "down" /\ fromILM' = <<>>
  /\ link' = [c \in Conn |-> "free"] /\ peer' = [c \in Conn |-> None]
  /\ toProxy' = [c \in Conn |-> <<>>] /\ toPM' = [c \in Conn |-> <<>>]
  /\ pmObject' = [p \in Proxy |-> None]
  /\ UNCHANGED <<joined, world, proxyID, authen, gs, players, ticket>>

\* onAddServerMessageReply: one entry for every proxy that answers.  When the
\* count is 0 the ILM is answered, which only prints that.
Counted(c) ==
  /\ Received(c)
  /\ servers' = Listed(Head(toPM[c]).server)
  /\ addServerCount' = (addServerCount + Width - 1) % Width
  /\ UNCHANGED <<proxies, maxProxyID, login, session, sessionlist,
                 ilmVars, link, peer, toProxy, proxyVars>>

OnAddServerReply(c) == /\ Receive(c, "added")
                       /\ ilm = "up" \/ (addServerCount + Width - 1) % Width # 0
                       /\ Counted(c)

\* In the batch that told the loss of the ILM, _ILMListener is null and the
\* answer is written through it.
AnswerNobody(c) == /\ Receive(c, "added")
                   /\ ilm = "ended" /\ (addServerCount + Width - 1) % Width = 0
                   /\ StartAgain

First(s) == CHOOSE i \in DOMAIN servers : servers[i] = s /\ \A j \in 1..(i - 1) : servers[j] # s

\* removeServer: the first entry only
RemoveServer ==
  /\ NextFromILM("leave")
  /\ LET s == Head(fromILM).server
     IN servers' = IF s \in ToSet(servers) THEN RemoveAt(servers, First(s)) ELSE servers
  /\ UNCHANGED <<proxies, maxProxyID, addServerCount, login, session, sessionlist,
                 ilm, joined, world, netVars, proxyVars>>

-----------------------------------------------------------------------------
(* The connection to the ILM                                                *)

\* connectILM; the ILM announces every server it has (gameServerInfo,
\* roleServerInfo).
ConnectILM ==
  /\ ilm = "down" /\ ilm' = "up"
  /\ fromILM' = [i \in 1..Cardinality(joined) |-> Add(SetToSeq(joined)[i])]
  /\ UNCHANGED <<pmVars, joined, world, netVars, proxyVars>>

\* The loss of the ILM: onILMServerException
IlmLost ==
  /\ "ilm" \in world.faults /\ ilm = "up" /\ ilm' = "ended"
  /\ Len(servers) < MaxList /\ addServerCount < MaxList
  /\ fromILM' = <<>>
  /\ UNCHANGED <<pmVars, joined, world, netVars, proxyVars>>

\* The end of the batch: main now waits for the ILM only.
EndBatch ==
  /\ ilm = "ended" /\ ilm' = "down"
  /\ UNCHANGED <<pmVars, joined, fromILM, world, netVars, proxyVars>>

PmRestart == "pm" \in world.faults /\ ilm = "up" /\ StartAgain

-----------------------------------------------------------------------------
(* Sessions                                                                 *)

\* LoginServerAcceptor::execute: a login server that comes back is another one.
LoginConnect(l) ==
  /\ Serving /\ login[l] = "new" /\ login' = [login EXCEPT ![l] = "up"]
  /\ UNCHANGED <<proxies, maxProxyID, servers, addServerCount, session, sessionlist,
                 ilmVars, netVars, proxyVars>>

\* onLoginServerException
LoginGone(l) ==
  /\ "login" \in world.faults /\ Serving /\ login[l] = "up" /\ login' = [login EXCEPT ![l] = "gone"]
  /\ UNCHANGED <<proxies, maxProxyID, servers, addServerCount, session, sessionlist,
                 ilmVars, netVars, proxyVars>>

\* allocPriProxyForClient: a valid proxy of the least load
Least(c) == /\ c \in Items /\ proxies[c].valid
            /\ \A d \in Items : proxies[d].valid => proxies[c].num <= proxies[d].num

\* createSession stores the counter for a new user and returns the next value.
CreateSession(u) == IF u \in DOMAIN sessionlist THEN sessionlist[u] ELSE session + 1

\* addClient2Proxy; without a valid proxy the request has no answer.
AddClient(l, u, c) ==
  /\ Serving /\ u \in world.users /\ login[l] = "up" /\ Least(c)
  /\ Len(toProxy[c]) < MaxBacklog /\ Len(toPM[c]) < MaxBacklog
  /\ MapThenSumSet(LAMBDA p : Len(authen[p]), Proxy) < MaxGrants
  /\ toProxy' = Put(toProxy, c, Grant(u, CreateSession(u), l, proxies[c].id))
  /\ IF u \in DOMAIN sessionlist THEN UNCHANGED <<session, sessionlist>>
     ELSE /\ session' = session + 1
          /\ sessionlist' = [v \in DOMAIN sessionlist \cup {u} |->
                               IF v = u THEN session ELSE sessionlist[v]]
  /\ UNCHANGED <<proxies, maxProxyID, servers, addServerCount, login,
                 ilmVars, link, peer, toPM, proxyVars>>

\* findProxybyID
WithId(id) == {c \in Items : proxies[c].valid /\ proxies[c].id = id}

\* SEND_SESSION_TO_PROXY_RESPONSE: the login server is told the address of the
\* proxy with the id; dropped when either is gone.
OnGranted(c) ==
  /\ Receive(c, "granted") /\ Received(c)
  /\ LET m == Head(toPM[c])
     IN IF login[m.login] # "up" \/ WithId(m.id) = {} THEN UNCHANGED ticket
        ELSE \E d \in WithId(m.id) :
               ticket' = ticket \cup {[user |-> m.user, session |-> m.session,
                                       addr |-> proxies[d].addr]}
  /\ UNCHANGED <<pmVars, ilmVars, link, peer, toProxy, pmObject, proxyID, authen, gs, players>>

-----------------------------------------------------------------------------
(* The proxy's side: ProxyManagerObject::OnRead                             *)

Got(p, type) == /\ pmObject[p] # None /\ toProxy[pmObject[p]] # <<>>
                /\ Head(toProxy[pmObject[p]]).type = type
                /\ toProxy' = [toProxy EXCEPT ![pmObject[p]] = Tail(@)]

Message(p) == Head(toProxy[pmObject[p]])

Tell(p, m) == toPM' = [toPM EXCEPT ![pmObject[p]] = Append(@, m)]

\* ConnectGameServer for each of a set of servers; one may refuse.
ConnectGameServers(p, ss) ==
  \E some \in SUBSET ss :
    /\ "refuse" \in world.faults \/ some = ss
    /\ gs' = [gs EXCEPT ![p] = @ \cup some]

\* The result of the join is not looked at.
OnJoined(p) ==
  /\ Got(p, "joined") /\ Tell(p, Complete)
  /\ proxyID' = [proxyID EXCEPT ![p] = Message(p).id]
  /\ ConnectGameServers(p, ToSet(Message(p).list))
  /\ UNCHANGED <<pmVars, ilmVars, link, peer, pmObject, authen, players, ticket>>

\* The answer is written before the connection to the server is tried.
OnAdd(p) ==
  /\ Got(p, "add") /\ Tell(p, Added(Message(p).server))
  /\ ConnectGameServers(p, {Message(p).server})
  /\ UNCHANGED <<pmVars, ilmVars, link, peer, pmObject, proxyID, authen, players, ticket>>

\* PutAuthenInfo
OnGrant(p) ==
  /\ Got(p, "grant") /\ Tell(p, Granted(Message(p)))
  /\ authen' = [authen EXCEPT ![p] = Append(@, Message(p).session)]
  /\ UNCHANGED <<pmVars, ilmVars, link, peer, pmObject, proxyID, gs, players, ticket>>

OnQuery(p) ==
  /\ Got(p, "query") /\ Tell(p, Status(players[p]))
  /\ UNCHANGED <<pmVars, ilmVars, link, peer, pmObject, proxyID, authen, gs, players, ticket>>

\* FindAuthenInfo takes the first entry with the session off the list.
FindAuthenInfoAll(p, k) == SelectSeq(authen[p], LAMBDA e : e # k)

FirstOf(p, k) == CHOOSE i \in DOMAIN authen[p] :
                   authen[p][i] = k /\ \A j \in 1..(i - 1) : authen[p][j] # k

FindAuthenInfo(p, k) == RemoveAt(authen[p], FirstOf(p, k))

\* A client uses its ticket.
ClientConnects(p, t) ==
  /\ t.addr = p /\ players[p] < MaxPlayers
  /\ ticket' = ticket \ {t}
  /\ IF t.session \in ToSet(authen[p])
     THEN /\ authen' = [authen EXCEPT ![p] = FindAuthenInfo(p, t.session)]
          /\ players' = [players EXCEPT ![p] = @ + 1]
     ELSE UNCHANGED <<authen, players>>
  /\ UNCHANGED <<pmVars, ilmVars, netVars, pmObject, proxyID, gs>>

\* ClientObject::OnError
ClientLeaves(p) ==
  /\ players[p] > 0 /\ players' = [players EXCEPT ![p] = @ - 1]
  /\ UNCHANGED <<pmVars, ilmVars, netVars, pmObject, proxyID, authen, gs, ticket>>

\* ServerObject::OnError: the connection to a server that left
GameServerGone(p, s) ==
  /\ s \in gs[p] \ joined /\ gs' = [gs EXCEPT ![p] = @ \ {s}]
  /\ UNCHANGED <<pmVars, ilmVars, netVars, pmObject, proxyID, authen, players, ticket>>

\* The connection of a proxy breaks; what it has sent may still be read.
Broken(p) == LET c == pmObject[p]
             IN /\ c # None
                /\ link' = [link EXCEPT ![c] = CASE @ = "new"    -> "free"
                                                    [] @ = "open"   -> "broken"
                                                    [] @ = "leaked" -> "leaked"]
                /\ peer' = IF link[c] = "new" THEN [peer EXCEPT ![c] = None] ELSE peer
                /\ toProxy' = [toProxy EXCEPT ![c] = <<>>]
                /\ toPM' = IF link[c] = "new" THEN [toPM EXCEPT ![c] = <<>>] ELSE toPM
                /\ pmObject' = [pmObject EXCEPT ![p] = None]
                /\ UNCHANGED <<pmVars, ilmVars>>

\* ProxyManagerObject::OnError: the proxy keeps what it has.
ProxyCut(p) == "cut" \in world.faults /\ Broken(p) /\ UNCHANGED <<proxyID, authen, gs, players, ticket>>

\* The process of a proxy ends; the tickets for it are void.
ProxyRestart(p) ==
  /\ "restart" \in world.faults /\ Broken(p)
  /\ proxyID' = [proxyID EXCEPT ![p] = 0]
  /\ authen' = [authen EXCEPT ![p] = <<>>] /\ gs' = [gs EXCEPT ![p] = {}]
  /\ players' = [players EXCEPT ![p] = 0]
  /\ ticket' = {t \in ticket : t.addr # p}

-----------------------------------------------------------------------------
\* What the proxy manager does about one connection
Handle(c) == \/ AcceptProxy(c) \/ ProxyJoin(c) \/ ProxyJoinThrows(c) \/ ProxyJoinComplete(c)
             \/ ProxyGone(c) \/ ProxyStatus(c) \/ OnAddServerReply(c) \/ AnswerNobody(c) \/ OnGranted(c)

HandleILM == AddServerAlone \/ AddServerForward \/ RemoveServer \/ EndBatch \/ ConnectILM

\* What a proxy does by itself
ProxyStep(p) == \/ \E c \in Conn : ProxyConnect(p, c)
                \/ OnJoined(p) \/ OnAdd(p) \/ OnGrant(p) \/ OnQuery(p)

Outside ==
  \/ QueryProxies \/ IlmLost \/ PmRestart
  \/ \E s \in Server : IlmJoin(s) \/ IlmLeave(s) \/ (\E p \in Proxy : GameServerGone(p, s))
  \/ \E l \in Login : \/ LoginConnect(l) \/ LoginGone(l)
                      \/ \E u \in User, c \in Conn : AddClient(l, u, c)
  \/ \E p \in Proxy : \/ \E t \in ticket : ClientConnects(p, t)
                      \/ ClientLeaves(p) \/ ProxyCut(p) \/ ProxyRestart(p)

Next == \/ \E c \in Conn : Handle(c)
        \/ HandleILM
        \/ \E p \in Proxy : ProxyStep(p)
        \/ Outside

Spec == Init /\ [][Next]_vars

\* epoll reports every connection with something to read, and every process
\* goes on with its loop.
FairSpec == /\ Spec /\ WF_vars(HandleILM)
            /\ \A c \in Conn : WF_vars(Handle(c))
            /\ \A p \in Proxy : WF_vars(ProxyStep(p))
=============================================================================
