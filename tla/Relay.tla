------------------------------- MODULE Relay -------------------------------
(***************************************************************************)
(* The way of a player's messages: from the client over its proxy to the   *)
(* role server or the game server it names, and back.                      *)
(*                                                                         *)
(* A proxy is one thread.  A server has a thread that reads what proxies   *)
(* send, a main thread that handles it, and a thread that sends what is    *)
(* waiting in the sessions.  What a proxy wrote and the server's main      *)
(* thread has not taken yet (the socket and ProxyInQueue) is one queue per *)
(* connection; the order between connections is open.                      *)
(*                                                                         *)
(* The code tells clients apart by the id of the proxy and the client's    *)
(* number there.  The client in a message of this module is what the ids   *)
(* stand for; no guard reads it.                                           *)
(***************************************************************************)
EXTENDS Integers, FiniteSets, SequencesExt

CONSTANTS
  Proxy,     \* the proxies
  Client,    \* connections of clients
  User,      \* the users they log in
  Home,      \* the proxy of a client
  IdMod,     \* the values of a client's number, 65536
  MaxAsks,   \* bound: messages of one client
  MaxLink,   \* bound: connections of a proxy to one server, one after the other
  Worlds     \* what a behaviour may contain: clients, and what happens to them

Server == {"role", "game"}

\* MsgCode.h: USER_ENTER_GAME to the role server, NEW_USER_LOGIN and
\* OBJECT_MESSAGE to a game server
Kind == {"enter", "login", "object"}

To(kind) == IF kind = "enter" THEN "role" ELSE "game"

Event == {"leave", "stranger", "break", "rejoin", "pm", "wrap", "clash"}

ASSUME RelayAssumption ==
  /\ Home \in [Client -> Proxy]
  /\ {IdMod, MaxLink} \subseteq Nat \ {0} /\ MaxAsks \in Nat
  /\ Worlds \subseteq [clients : SUBSET Client, kinds : SUBSET Kind, asks : [Client -> 0..MaxAsks],
                       events : SUBSET Event, user : [Client -> User]]

Link == Proxy \X Server \X (1..MaxLink)

VARIABLES
  proxyID,   \* mProxyID of a proxy
  maxID,     \* the last id the proxy manager gave out
  curID,     \* ClientObjectFactory::mCurID of a proxy
  clientID,  \* mClientID of a client
  state,     \* of a client: "out", "open", "in", "refused", "left"
  clients,   \* mMapClientObj of a proxy
  servers,   \* mMapServerList of a proxy: the connection to a server
  proxies,   \* m_mapProxyObject of a server: the connection of a proxy id
  alive,     \* connections that work
  used,      \* connections that were made
  up, down,  \* what is on the way on a connection
  sessions,  \* m_mapSession of a server: the messages that wait, and the player
  player,    \* at the game server: the session of a user's player, or <<>>
  sending,   \* the batch a server's sender has written and not removed yet
  asked,     \* the messages of a client that its proxy read
  got,       \* the answers a client received
  acted,     \* the object messages that a player got, and whose player it was
  world      \* the member of Worlds of this behaviour

proxyVars  == <<proxyID, maxID, curID, clientID, state, clients, servers>>
linkVars   == <<proxies, alive, used>>
serverVars == <<sessions, player, sending, acted>>
vars == <<proxyVars, linkVars, up, down, serverVars, asked, got, world>>

\* A function with one more pair, unless the key is there: map::insert
Insert(f, k, v) == [x \in DOMAIN f \cup {k} |-> IF x \in DOMAIN f THEN f[x] ELSE v]
Erase(f, k) == [x \in DOMAIN f \ {k} |-> f[x]]

NoBatch == [key |-> <<>>, count |-> 0]

\* The proxies have joined the proxy manager, one by one, and are connected
\* to both servers.
Init ==
  /\ LET join == CHOOSE f \in [Proxy -> 1..Cardinality(Proxy)] : IsInjective(f) IN
        /\ proxyID = join
        /\ proxies = [s \in Server |-> [i \in Range(join) |-> <<CHOOSE p \in Proxy : join[p] = i, s, 1>>]]
  /\ world \in Worlds
  /\ maxID = IF "pm" \in world.events THEN 0 ELSE Cardinality(Proxy)
  /\ curID = [p \in Proxy |-> 0] /\ clientID = [c \in Client |-> 0]
  /\ state = [c \in Client |-> "out"]
  /\ clients = [p \in Proxy |-> <<>>]
  /\ servers = [p \in Proxy |-> [s \in Server |-> <<p, s, 1>>]]
  /\ alive = Proxy \X Server \X {1} /\ used = alive
  /\ up = [k \in Link |-> <<>>] /\ down = [k \in Link |-> <<>>]
  /\ sessions = [s \in Server |-> <<>>]
  /\ player = [u \in User |-> <<>>]
  /\ sending = [s \in Server |-> NoBatch]
  /\ asked = [c \in Client |-> <<>>] /\ got = [c \in Client |-> <<>>]
  /\ acted = {}

-----------------------------------------------------------------------------
(* The proxy                                                               *)

\* Clients of a proxy that have or had a number
Had(p, id) == {c \in Client : Home[c] = p /\ state[c] # "out" /\ clientID[c] = id}

\* Nobody looks whether a number is free.  The world says whether one comes round
\* after its client has left ("wrap"), and while it is there ("clash").
MayTake(p, id) ==
  /\ Had(p, id) # {} => "wrap" \in world.events
  /\ id \in DOMAIN clients[p] => "clash" \in world.events

\* Mutant: the number is the size of the map, so one that became free is used again.
CreateM(c) ==
  LET p == Home[c]
      id == (Cardinality(DOMAIN clients[p]) + 1) % IdMod
  IN /\ c \in world.clients /\ state[c] = "out"
     /\ clientID' = [clientID EXCEPT ![c] = id]
     /\ clients' = [clients EXCEPT ![p] = Insert(@, id, c)]
     /\ state' = [state EXCEPT ![c] = "open"]
     /\ UNCHANGED <<proxyID, maxID, curID, servers, linkVars, up, down, serverVars, asked, got>>

\* ClientObjectFactory::Create: the number has 16 bits where it is used.
Create(c) ==
  LET p == Home[c]
      id == (curID[p] + 1) % IdMod
  IN /\ c \in world.clients /\ state[c] = "out" /\ MayTake(p, id)
     /\ curID' = [curID EXCEPT ![p] = @ + 1]
     /\ clientID' = [clientID EXCEPT ![c] = id]
     /\ clients' = [clients EXCEPT ![p] = Insert(@, id, c)]
     /\ state' = [state EXCEPT ![c] = "open"]
     /\ UNCHANGED <<proxyID, maxID, servers, linkVars, up, down, serverVars, asked, got>>

\* ClientObject::OnRead of the first packet, the session code.  A client whose
\* code is unknown is not read any more, and stays in the map.
ReadCode(c) ==
  /\ state[c] = "open"
  /\ \/ state' = [state EXCEPT ![c] = "in"]
     \/ "stranger" \in world.events /\ state' = [state EXCEPT ![c] = "refused"]
  /\ UNCHANGED <<proxyID, maxID, curID, clientID, clients, servers, linkVars, up, down,
                 serverVars, asked, got>>

\* ClientObject::OnRead of a later packet: it gets the ids and goes to the
\* server it names, or nowhere.  A write to a connection that broke is lost.
ReadClient(c, kind) ==
  LET p == Home[c]
      m == [key |-> <<proxyID[p], clientID[c]>>, client |-> c, num |-> Len(asked[c]) + 1, kind |-> kind,
            user |-> world.user[c]]
      via == IF To(kind) \in DOMAIN servers[p] THEN {servers[p][To(kind)]} ELSE {}
  IN /\ state[c] = "in" /\ Len(asked[c]) < world.asks[c]
     /\ asked' = [asked EXCEPT ![c] = Append(@, [kind |-> kind, via |-> via])]
     /\ up' = [k \in Link |-> IF k \in via \cap alive THEN Append(up[k], m) ELSE up[k]]
     /\ UNCHANGED <<proxyVars, linkVars, down, serverVars, got>>

\* ClientObject::OnError erases the entry of its number, whoever has it.
Leave(c) ==
  /\ "leave" \in world.events /\ state[c] \in {"open", "in", "refused"}
  /\ state' = [state EXCEPT ![c] = "left"]
  /\ clients' = [clients EXCEPT ![Home[c]] = Erase(@, clientID[c])]
  /\ UNCHANGED <<proxyID, maxID, curID, clientID, servers, linkVars, up, down,
                 serverVars, asked, got>>

\* ServerObject::OnRead
ReadServer(k) ==
  /\ down[k] # <<>>
  /\ down' = [down EXCEPT ![k] = Tail(@)]
  /\ LET m == Head(down[k])
         map == clients[k[1]]
     IN got' = IF m.key[2] \in DOMAIN map
               THEN [got EXCEPT ![map[m.key[2]]] = Append(@, m)] ELSE got
  /\ UNCHANGED <<proxyVars, linkVars, up, serverVars, asked>>

-----------------------------------------------------------------------------
(* Connections between proxies and servers                                 *)

\* ServerObject::OnError erases the entry of the server, also when the entry
\* is another connection.  What the server has not read may still arrive.
Break(k) ==
  /\ "break" \in world.events /\ k \in alive
  /\ alive' = alive \ {k}
  /\ servers' = [servers EXCEPT ![k[1]] = Erase(@, k[2])]
  /\ down' = [down EXCEPT ![k] = <<>>]
  /\ UNCHANGED <<proxyID, maxID, curID, clientID, state, clients, proxies, used, up,
                 serverVars, asked, got>>

\* A proxy that lost the proxy manager joins again: it keeps its id if the
\* proxy manager still has its item, or gets the next one; from a proxy manager
\* that was started again ("pm") the first one.  It connects to
\* every server of the answer (ConnectGameServer, PutServerObject) with the id
\* as its first message, and the server inserts it (ProxyObjectFactory::Create);
\* neither replaces an entry.
Rejoin(p) ==
  LET n == 1 + Cardinality({k \in used : k[1] = p /\ k[2] = "role"}) IN
  /\ world.events \cap {"rejoin", "pm"} # {} /\ n <= MaxLink
  /\ \E id \in {maxID + 1} \cup (IF "pm" \in world.events THEN {} ELSE {proxyID[p]}) :
       /\ maxID' = IF id = maxID + 1 THEN id ELSE maxID
       /\ proxyID' = [proxyID EXCEPT ![p] = id]
       /\ proxies' = [s \in Server |-> Insert(proxies[s], id, <<p, s, n>>)]
  /\ servers' = [servers EXCEPT ![p] = [s \in Server |-> IF s \in DOMAIN @ THEN @[s] ELSE <<p, s, n>>]]
  /\ alive' = alive \cup ({p} \X Server \X {n}) /\ used' = used \cup alive'
  /\ UNCHANGED <<curID, clientID, state, clients, up, down, serverVars, asked, got>>

-----------------------------------------------------------------------------
(* The servers                                                             *)

NewSession == [queue |-> <<>>, player |-> CHOOSE u \in User : TRUE]

\* GetSessioin: the session of a message, by the id of the proxy and the number
\* of the client
KeyOf(m) == m.key

\* Mutant: a session that is there is taken to be answered already.
ProcessRoleM(m) ==
  /\ sessions' = [sessions EXCEPT !["role"] =
                    Insert(@, KeyOf(m), [NewSession EXCEPT !.queue = <<m>>])]
  /\ UNCHANGED <<player, acted>>

\* UniG_SessionMgr::ProcessClientMsg of the role server: a session for a
\* client that has none; the message is answered into the session's queue.
ProcessRole(m) ==
  LET with == Insert(sessions["role"], KeyOf(m), NewSession)
  IN /\ sessions' = [sessions EXCEPT !["role"] = [with EXCEPT ![KeyOf(m)].queue = Append(@, m)]]
     /\ UNCHANGED <<player, acted>>

\* Mutant: a session that is there keeps the player it has.
ProcessLoginM(m) ==
  LET new == [NewSession EXCEPT !.player = m.user]
  IN /\ sessions' = [sessions EXCEPT !["game"] = Insert(@, KeyOf(m), new)]
     /\ player' = [player EXCEPT ![m.user] = KeyOf(m)]
     /\ UNCHANGED acted

\* UniG_SessionMgr::ProcessClientMsg of the game server, NEW_USER_LOGIN: the
\* session, an old one of the same key too, and the user's player get each
\* other.
ProcessLogin(m) ==
  LET with == Insert(sessions["game"], KeyOf(m), NewSession)
  IN /\ sessions' = [sessions EXCEPT !["game"] = [with EXCEPT ![KeyOf(m)].player = m.user]]
     /\ player' = [player EXCEPT ![m.user] = KeyOf(m)]
     /\ UNCHANGED acted

\* OBJECT_MESSAGE: to the player of the session, if there is one; the game
\* logic answers the player's session.
ProcessObject(m) ==
  IF KeyOf(m) \in DOMAIN sessions["game"]
  THEN LET u == sessions["game"][KeyOf(m)].player IN
         /\ acted' = acted \cup {[client |-> m.client, num |-> m.num, user |-> u]}
         /\ sessions' = [sessions EXCEPT !["game"][player[u]].queue = Append(@, m)]
         /\ UNCHANGED player
  ELSE UNCHANGED <<sessions, player, acted>>

\* MainRun: the next message of a connection
Process(k) ==
  /\ up[k] # <<>>
  /\ up' = [up EXCEPT ![k] = Tail(@)]
  /\ LET m == Head(up[k]) IN
       CASE m.kind = "enter"  -> ProcessRole(m)
         [] m.kind = "login"  -> ProcessLogin(m)
         [] m.kind = "object" -> ProcessObject(m)
  /\ UNCHANGED <<proxyVars, linkVars, down, sending, asked, got>>

\* ProxyMsgSender::run, SendMsgToProxy: the sender writes what a session has.
\* To an id without a connection the game server sends nothing; the role
\* server leaves the messages where they are.
SendBatch(s, key) ==
  LET queue == sessions[s][key].queue
      batch == [i \in DOMAIN queue |-> [queue[i] EXCEPT !.key = key]]
      known == key[1] \in DOMAIN proxies[s]
  IN /\ sending[s] = NoBatch /\ queue # <<>>
     /\ s = "role" => known
     /\ down' = IF known /\ proxies[s][key[1]] \in alive
                THEN [down EXCEPT ![proxies[s][key[1]]] = @ \o batch] ELSE down
     /\ sending' = [sending EXCEPT ![s] = [key |-> key, count |-> Len(queue)]]
     /\ UNCHANGED <<proxyVars, linkVars, up, sessions, player, acted, asked, got>>

\* PopBatch, after the main thread may have added more
PopBatch(s) ==
  /\ sending[s] # NoBatch
  /\ sessions' = [sessions EXCEPT ![s][sending[s].key].queue =
                    SubSeq(@, sending[s].count + 1, Len(@))]
  /\ sending' = [sending EXCEPT ![s] = NoBatch]
  /\ UNCHANGED <<proxyVars, linkVars, up, down, player, acted, asked, got>>

\* A step of a proxy or of one of the threads of a server for what it has read
Runs ==
  \/ \E k \in Link : ReadServer(k) \/ Process(k)
  \/ \E s \in Server : PopBatch(s) \/ \E key \in DOMAIN sessions[s] : SendBatch(s, key)

Next ==
  /\ \/ \E c \in Client : Create(c) \/ ReadCode(c) \/ Leave(c) \/ \E kind \in world.kinds : ReadClient(c, kind)
     \/ \E k \in Link : Break(k)
     \/ \E p \in Proxy : Rejoin(p)
     \/ Runs
  /\ UNCHANGED world

Spec == Init /\ [][Next]_vars

\* The threads go on; with a bounded number of messages none can be kept waiting
\* by the others.
FairSpec == Spec /\ WF_vars(Runs /\ UNCHANGED world)

-----------------------------------------------------------------------------
(* Properties                                                              *)

\* The question that a message is or answers went to its server over it.
Via(m) == asked[m.client][m.num].via

\* The number of a client is nobody else's, neither before nor after it.
Unshared(c) == Had(Home[c], clientID[c]) = {c}

\* A client gets answers to its own messages only, although the id of a proxy and
\* the number of a client are all that brings them back (ServerObject::OnRead,
\* GetProxy): not after a client left and not after a proxy was numbered anew.
\* Where numbers come round, a client still gets what an earlier one of its number
\* asked for.  And as far as a client's own questions go over one connection and
\* their answers come back under one id they come in the order of the questions and
\* once, although the main thread adds to what the sender is writing.
AnswerToAsker ==
  \A c \in Client : \A i \in DOMAIN got[c] :
    /\ "wrap" \notin world.events \/ Unshared(c) => got[c][i].client = c
    /\ \A j \in 1..(i - 1) :
         /\ got[c][j].client = got[c][i].client
         /\ Via(got[c][j]) = Via(got[c][i]) /\ got[c][j].key = got[c][i].key
         => got[c][j].num < got[c][i].num

\* Before its n-th question the client has logged in.
LoggedIn(c, n) == \E i \in 1..(n - 1) : asked[c][i].kind = "login"

\* An object message acts on the player of its client's own user, also in a session
\* that an earlier client of the same number left behind with another player, and
\* although what that client sent last is still on the way when the next one logs in.
\* Only a client whose number came round and that does not log in first finds the
\* earlier player.
ActsAsUser ==
  \A a \in acted : "wrap" \notin world.events \/ LoggedIn(a.client, a.num)
                     => a.user = world.user[a.client]

\* The connection works that took the n-th question of a client to its server.
Reaches(c, n) == n \in DOMAIN asked[c] /\ asked[c][n].via \cap alive # {}

\* A client that stays gets the server it may enter, as long as that connection
\* works.
Answered ==
  \A c \in Client : \A n \in 1..MaxAsks :
    Reaches(c, n) /\ asked[c][n].kind = "enter" ~>
      (\E i \in DOMAIN got[c] : got[c][i].client = c /\ got[c][i].num = n) \/ state[c] = "left" \/ ~Reaches(c, n)
=============================================================================
