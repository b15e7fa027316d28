-------------------------- MODULE ProxyManagerProofs --------------------------
(***************************************************************************)
(* The promises of the proxy manager for every value of the constants: a    *)
(* proxy has one item and an id names one item, a ticket is honoured, every *)
(* server of the ILM is known, and the answers awaited are counted.         *)
(***************************************************************************)
EXTENDS ProxyManagerProps, SequenceLemmas

-----------------------------------------------------------------------------
(* Types                                                                    *)

Item == [addr : Proxy \cup {None}, num : Nat, id : Nat, valid : BOOLEAN]

JoinMsg    == [type : {"join"}, id : Nat]
AddedMsg   == [type : {"added"}, server : Server]
GrantedMsg == [type : {"granted"}, user : User, session : Nat, login : Login, id : Nat]
ToPMMsg    == JoinMsg \cup AddedMsg \cup GrantedMsg
              \cup [type : {"complete"}] \cup [type : {"status"}, num : Nat]
JoinedMsg  == [type : {"joined"}, ok : BOOLEAN, id : Nat, list : Seq(Server)]
AddMsg     == [type : {"add"}, server : Server]
GrantMsg   == [type : {"grant"}, user : User, session : Nat, login : Login, id : Nat]
ToProxyMsg == JoinedMsg \cup AddMsg \cup GrantMsg \cup [type : {"query"}]
IlmMsg     == [type : {"add", "leave"}, server : Server]
Ticket     == [user : User, session : Nat, addr : Proxy \cup {None}]

TypeItems == /\ Items \subseteq Conn /\ IsFiniteSet(Items)
             /\ \A c \in Items : proxies[c] \in Item

TypePm ==
  /\ TypeItems
  /\ maxProxyID \in Nat /\ servers \in Seq(Server) /\ addServerCount \in Nat
  /\ login \in [Login -> {"new", "up", "gone"}] /\ session \in Nat
  /\ DOMAIN sessionlist \subseteq User /\ \A u \in DOMAIN sessionlist : sessionlist[u] \in Nat

TypeIlm ==
  /\ ilm \in {"down", "up", "ended"} /\ world \in Worlds
  /\ joined \subseteq Server /\ IsFiniteSet(joined) /\ fromILM \in Seq(IlmMsg)

TypeNet ==
  /\ link \in [Conn -> {"free", "new", "open", "broken", "leaked"}]
  /\ peer \in [Conn -> Proxy \cup {None}]
  /\ toProxy \in [Conn -> Seq(ToProxyMsg)] /\ toPM \in [Conn -> Seq(ToPMMsg)]

TypeProxy ==
  /\ pmObject \in [Proxy -> Conn \cup {None}] /\ proxyID \in [Proxy -> Nat]
  /\ authen \in [Proxy -> Seq(Nat)] /\ gs \in [Proxy -> SUBSET Server]
  /\ players \in [Proxy -> Nat] /\ ticket \subseteq Ticket

TypeInv == TypePm /\ TypeIlm /\ TypeNet /\ TypeProxy

LEMMA NobodyIsNone == None \notin Proxy /\ None \notin Conn
BY PMAssumption

LEMMA MessageTypes ==
  /\ \A id \in Nat : Join(id) \in ToPMMsg
  /\ Complete \in ToPMMsg /\ Query \in ToProxyMsg
  /\ \A n \in Nat : Status(n) \in ToPMMsg
  /\ \A s \in Server : /\ Add(s) \in ToProxyMsg /\ Add(s) \in IlmMsg /\ Added(s) \in ToPMMsg
                       /\ Leave(s) \in IlmMsg
  /\ \A ok \in BOOLEAN, id \in Nat, list \in Seq(Server) : Joined(ok, id, list) \in ToProxyMsg
  /\ \A u \in User, k \in Nat, l \in Login, id \in Nat : Grant(u, k, l, id) \in ToProxyMsg
<1>1. /\ \A id \in Nat : Join(id) \in JoinMsg
      /\ \A s \in Server : /\ Add(s) \in AddMsg /\ Add(s) \in IlmMsg
                           /\ Added(s) \in AddedMsg /\ Leave(s) \in IlmMsg
  BY DEF Join, JoinMsg, Add, AddMsg, IlmMsg, Added, AddedMsg, Leave
<1>2. \A ok \in BOOLEAN, id \in Nat, list \in Seq(Server) : Joined(ok, id, list) \in JoinedMsg
  BY DEF Joined, JoinedMsg
<1>3. \A u \in User, k \in Nat, l \in Login, id \in Nat : Grant(u, k, l, id) \in GrantMsg
  BY DEF Grant, GrantMsg
<1>4. /\ Complete \in [type : {"complete"}] /\ Query \in [type : {"query"}]
      /\ \A n \in Nat : Status(n) \in [type : {"status"}, num : Nat]
  BY DEF Complete, Query, Status
<1>5. QED
  BY <1>1, <1>2, <1>3, <1>4 DEF ToPMMsg, ToProxyMsg

\* What a message holds, by its type
LEMMA ToPMFields ==
  ASSUME NEW m \in ToPMMsg
  PROVE  /\ m.type = "join" => m \in JoinMsg /\ m.id \in Nat
         /\ m.type = "added" => m \in AddedMsg /\ m.server \in Server
         /\ m.type = "granted" => /\ m \in GrantedMsg /\ m.user \in User /\ m.session \in Nat
                                  /\ m.login \in Login /\ m.id \in Nat
         /\ m.type = "status" => m.num \in Nat
<1> USE DEF JoinMsg, AddedMsg, GrantedMsg
<1>1. CASE m \in JoinMsg
  BY <1>1
<1>2. CASE m \in AddedMsg
  BY <1>2
<1>3. CASE m \in GrantedMsg
  BY <1>3
<1>4. CASE m \in [type : {"complete"}] \cup [type : {"status"}, num : Nat]
  BY <1>4
<1>5. QED
  BY <1>1, <1>2, <1>3, <1>4 DEF ToPMMsg

LEMMA ToProxyFields ==
  ASSUME NEW m \in ToProxyMsg
  PROVE  /\ m.type = "joined" => m.ok \in BOOLEAN /\ m.id \in Nat /\ m.list \in Seq(Server)
         /\ m.type = "add" => m.server \in Server /\ m = Add(m.server)
         /\ m.type = "grant" => /\ m.user \in User /\ m.session \in Nat /\ m.login \in Login
                                /\ m.id \in Nat /\ Granted(m) \in ToPMMsg
                                /\ Granted(m).type = "granted" /\ Granted(m).id = m.id
                                /\ Granted(m).session = m.session
<1>1. CASE m \in JoinedMsg
  BY <1>1 DEF JoinedMsg
<1>2. CASE m \in AddMsg
  BY <1>2 DEF AddMsg, Add
<1>3. CASE m \in GrantMsg
  <2>1. Granted(m) \in GrantedMsg
    BY <1>3 DEF GrantMsg, GrantedMsg, Granted
  <2>2. /\ m.type = "grant" /\ m.user \in User /\ m.session \in Nat /\ m.login \in Login
        /\ m.id \in Nat /\ Granted(m).type = "granted" /\ Granted(m).id = m.id
        /\ Granted(m).session = m.session
    BY <1>3 DEF GrantMsg, Granted
  <2>3. QED
    BY <2>1, <2>2 DEF ToPMMsg
<1>4. CASE m \in [type : {"query"}]
  BY <1>4
<1>5. QED
  BY <1>1, <1>2, <1>3, <1>4 DEF ToProxyMsg

LEMMA IlmFields ==
  ASSUME NEW m \in IlmMsg
  PROVE  /\ m.server \in Server
         /\ m.type = "add" => m = Add(m.server) /\ m \in ToProxyMsg
         /\ m.type = "leave" => m = Leave(m.server)
<1>1. m \in [type : {"add"}, server : Server] \/ m \in [type : {"leave"}, server : Server]
  BY DEF IlmMsg
<1>2. m.type = "add" => m = Add(m.server)
  BY DEF IlmMsg, Add
<1>3. m.type = "leave" => m = Leave(m.server)
  BY DEF IlmMsg, Leave
<1>4. m.server \in Server
  BY DEF IlmMsg
<1>5. QED
  BY <1>2, <1>3, <1>4, MessageTypes

LEMMA ItemFields ==
  /\ NewItem \in Item /\ NewItem.addr = None /\ NewItem.id = 0
  /\ \A i \in Item : /\ i.addr \in Proxy \cup {None} /\ i.num \in Nat /\ i.id \in Nat
                     /\ [i EXCEPT !.valid = TRUE] \in Item
                     /\ [i EXCEPT !.valid = TRUE].addr = i.addr
                     /\ [i EXCEPT !.valid = TRUE].id = i.id
  /\ \A i \in Item, n \in Nat : /\ [i EXCEPT !.num = n] \in Item
                                /\ [i EXCEPT !.num = n].addr = i.addr
                                /\ [i EXCEPT !.num = n].id = i.id
  /\ \A i \in Item, p \in Proxy, n \in Nat : /\ [i EXCEPT !.addr = p, !.id = n] \in Item
                                             /\ [i EXCEPT !.addr = p, !.id = n].addr = p
                                             /\ [i EXCEPT !.addr = p, !.id = n].id = n
BY PMAssumption DEF NewItem, Item

LEMMA ReceiveTypes ==
  ASSUME TypeInv, NEW c \in Conn, NEW type, Receive(c, type)
  PROVE  /\ Head(toPM[c]) \in ToPMMsg /\ Tail(toPM[c]) \in Seq(ToPMMsg)
         /\ Head(toPM[c]) = toPM[c][1] /\ 1 \in DOMAIN toPM[c] /\ Head(toPM[c]).type = type
         /\ link[c] \in {"open", "broken"} /\ ilm # "down"
<1>1. toPM[c] \in Seq(ToPMMsg) /\ toPM[c] # <<>>
  BY DEF TypeInv, TypeNet, Receive
<1>2. Head(toPM[c]) = toPM[c][1] /\ 1 \in DOMAIN toPM[c]
  BY <1>1
<1>3. QED
  BY <1>1, <1>2, HeadTail DEF Receive, Serving

LEMMA ReceivedTypes ==
  ASSUME TypeInv, NEW c \in Conn, NEW type, Receive(c, type), Received(c)
  PROVE  toPM' \in [Conn -> Seq(ToPMMsg)]
BY ReceiveTypes DEF TypeInv, TypeNet, Received

LEMMA GotTypes ==
  ASSUME TypeInv, NEW p \in Proxy, NEW type, Got(p, type)
  PROVE  /\ pmObject[p] \in Conn /\ Message(p) \in ToProxyMsg /\ Message(p).type = type
         /\ Message(p) = toProxy[pmObject[p]][1] /\ 1 \in DOMAIN toProxy[pmObject[p]]
         /\ toProxy[pmObject[p]] # <<>> /\ toProxy[pmObject[p]] \in Seq(ToProxyMsg)
         /\ toProxy' = [toProxy EXCEPT ![pmObject[p]] = Tail(@)]
         /\ toProxy' \in [Conn -> Seq(ToProxyMsg)]
<1>1. pmObject[p] \in Conn
  BY DEF TypeInv, TypeProxy, Got
<1>2. toProxy[pmObject[p]] \in Seq(ToProxyMsg) /\ toProxy[pmObject[p]] # <<>>
  BY <1>1 DEF TypeInv, TypeNet, Got
<1>3. /\ Message(p) \in ToProxyMsg /\ Tail(toProxy[pmObject[p]]) \in Seq(ToProxyMsg)
      /\ Message(p) = toProxy[pmObject[p]][1] /\ 1 \in DOMAIN toProxy[pmObject[p]]
  BY <1>2, HeadTail DEF Message
<1>4. QED
  BY <1>1, <1>2, <1>3 DEF Got, TypeInv, TypeNet, Message

LEMMA TellTypes ==
  ASSUME TypeInv, NEW p \in Proxy, pmObject[p] \in Conn, NEW m \in ToPMMsg, Tell(p, m)
  PROVE  toPM' \in [Conn -> Seq(ToPMMsg)]
BY DEF TypeInv, TypeNet, Tell

LEMMA PutTypes ==
  ASSUME TypeInv, NEW c \in Conn, NEW m \in ToProxyMsg
  PROVE  Put(toProxy, c, m) \in [Conn -> Seq(ToProxyMsg)]
BY DEF TypeInv, TypeNet, Put

LEMMA ConnectTypes ==
  ASSUME TypeInv, NEW p \in Proxy, NEW ss \in SUBSET Server, ConnectGameServers(p, ss)
  PROVE  gs' \in [Proxy -> SUBSET Server]
BY DEF TypeInv, TypeProxy, ConnectGameServers

LEMMA CountTypes ==
  ASSUME NEW a \in Int, a >= 0
  PROVE  a % Width \in Nat
BY PMAssumption

LEMMA StartAgainTypes ==
  ASSUME TypeInv, StartAgain
  PROVE  TypeInv'
<1>1. TypePm'
  BY FS_EmptySet DEF TypeInv, TypePm, TypeItems, Items, StartAgain
<1>2. QED
  BY <1>1 DEF TypeInv, TypeIlm, TypeNet, TypeProxy, StartAgain

LEMMA FirstInList ==
  ASSUME TypeInv, NEW s \in ToSet(servers)
  PROVE  First(s) \in 1 .. Len(servers) /\ servers[First(s)] = s
<1> DEFINE I == {i \in DOMAIN servers : servers[i] = s}
<1>1. servers \in Seq(Server) /\ DOMAIN servers = 1 .. Len(servers)
  BY DEF TypeInv, TypePm
<1>2. I \subseteq Nat /\ I # {}
  BY <1>1 DEF ToSet
<1>3. Min(I) \in I /\ \A j \in I : Min(I) <= j
  <2> HIDE DEF I
  <2>1. QED
    BY <1>2, MinIsMember
<1>4. \E i \in DOMAIN servers : servers[i] = s /\ \A j \in 1..(i - 1) : servers[j] # s
  <2>1. ASSUME NEW j \in 1 .. (Min(I) - 1), servers[j] = s
        PROVE  FALSE
    <3>1. Min(I) \in 1 .. Len(servers) /\ servers[Min(I)] = s
      BY <1>1, <1>3
    <3>2. j \in I /\ j < Min(I) /\ Min(I) \in Nat /\ j \in Nat
      <4> DEFINE n == Min(I)
      <4>1. n \in 1 .. Len(servers) /\ j \in 1 .. (n - 1) /\ Len(servers) \in Nat
        BY <1>1, <3>1
      <4> HIDE DEF n
      <4>2. j \in DOMAIN servers /\ j < n /\ n \in Nat /\ j \in Nat
        BY <1>1, <4>1
      <4>3. QED
        BY <2>1, <4>2 DEF n
    <3>3. Min(I) <= j
      BY <1>3, <3>2
    <3> HIDE DEF I
    <3>4. QED
      BY <3>2, <3>3
  <2>2. QED
    BY <1>3, <2>1
<1>5. QED
  BY <1>1, <1>4 DEF First

LEMMA SessionTypes ==
  ASSUME TypeInv, NEW u \in User
  PROVE  CreateSession(u) \in Nat
BY DEF TypeInv, TypePm, CreateSession

\* The world of a behaviour stays.
LEMMA SameWorld == [Next]_vars => world' = world
BY DEF Next, vars, ilmVars, Handle, AcceptProxy, ProxyJoin, ProxyJoinThrows,
       ProxyJoinComplete, ProxyGone, ProxyStatus, OnAddServerReply, Counted, AnswerNobody, StartAgain,
       OnGranted, HandleILM, AddServerAlone, AddServerForward, RemoveServer, EndBatch,
       ConnectILM, ProxyStep, ProxyConnect, OnJoined, OnAdd, OnGrant, OnQuery, Outside,
       QueryProxies, IlmLost, PmRestart, IlmJoin, IlmLeave, GameServerGone, LoginConnect,
       LoginGone, AddClient, ClientConnects, ClientLeaves, ProxyCut, ProxyRestart, Broken

LEMMA JoinTypes ==
  ASSUME TypeInv, NEW c \in Conn, Receive(c, "join")
  PROVE  JoinId(c) \in Nat /\ AllocProxyID \in Nat
<1>1. Head(toPM[c]).id \in Nat
  BY ReceiveTypes, ToPMFields
<1>2. QED
  BY <1>1 DEF JoinId, AllocProxyID, TypeInv, TypePm

LEMMA TypeHandle ==
  ASSUME TypeInv, NEW c \in Conn, Handle(c)
  PROVE  TypeInv'
<1> USE DEF TypeInv, pmVars, ilmVars, netVars, proxyVars
<1>1. CASE AcceptProxy(c)
  <2>1. /\ Items' = Items \cup {c}
        /\ \A d \in Items' : proxies'[d] \in Item
    BY <1>1, ItemFields DEF AcceptProxy, TypePm, TypeItems, Items
  <2>2. TypeItems'
    BY <2>1, FS_AddElement DEF TypePm, TypeItems
  <2>3. TypePm' /\ TypeNet'
    BY <1>1, <2>2 DEF AcceptProxy, TypePm, TypeNet
  <2>4. QED
    BY <1>1, <2>3 DEF AcceptProxy, TypeIlm, TypeProxy
<1>2. CASE ProxyJoin(c)
  <2> DEFINE known == SameProxy(peer[c])
             id == JoinId(c)
  <2>1. Receive(c, "join") /\ id \in Nat /\ AllocProxyID \in Nat
    BY <1>2, JoinTypes DEF ProxyJoin
  <2>2. /\ Items' = Items \ known
        /\ proxies' = [d \in Items \ known |->
                         IF d = c /\ id # 0 THEN [proxies[d] EXCEPT !.addr = peer[c], !.id = id]
                         ELSE proxies[d]]
    BY <1>2 DEF ProxyJoin, Items
  <2>3. peer[c] \in Proxy \cup {None}
    BY DEF TypeNet
  <2>4. ASSUME NEW d \in Items'
        PROVE  proxies'[d] \in Item
    <3>1. proxies[d] \in Item /\ d \in Items \ known
      BY <2>2 DEF TypePm, TypeItems
    <3>2. [proxies[d] EXCEPT !.addr = peer[c], !.id = id] \in Item
      BY <2>1, <2>3, <3>1 DEF Item
    <3>3. QED
      BY <2>2, <3>1, <3>2
  <2>5. TypeItems'
    BY <2>2, <2>4, FS_Subset DEF TypePm, TypeItems
  <2>6. TypePm'
    BY <1>2, <2>1, <2>5 DEF ProxyJoin, TypePm
  <2>7. toPM' \in [Conn -> Seq(ToPMMsg)] /\ link' \in [Conn -> {"free", "new", "open", "broken", "leaked"}]
    <3>1. Tail(toPM[c]) \in Seq(ToPMMsg) /\ <<>> \in Seq(ToPMMsg)
      BY <2>1, ReceiveTypes
    <3>2. toPM' = [d \in Conn |-> IF d = c THEN Tail(toPM[c])
                                  ELSE IF d \in known THEN <<>> ELSE toPM[d]]
      BY <1>2 DEF ProxyJoin
    <3>3. link' = [d \in Conn |-> IF d \in known THEN "leaked" ELSE link[d]]
      BY <1>2 DEF ProxyJoin
    <3>4. QED
      BY <3>1, <3>2, <3>3 DEF TypeNet
  <2>8. Joined(id # 0, id, IF id = 0 THEN <<>> ELSE servers) \in ToProxyMsg
    <3>1. (IF id = 0 THEN <<>> ELSE servers) \in Seq(Server)
      BY DEF TypePm
    <3>2. QED
      BY <2>1, <3>1, MessageTypes
  <2>9. toProxy' \in [Conn -> Seq(ToProxyMsg)]
    <3>1. toProxy' = Put(toProxy, c, Joined(id # 0, id, IF id = 0 THEN <<>> ELSE servers))
          \/ toProxy' = toProxy
      BY <1>2 DEF ProxyJoin
    <3>2. QED
      BY <2>8, <3>1, PutTypes DEF TypeNet
  <2>10. QED
    BY <1>2, <2>6, <2>7, <2>9 DEF ProxyJoin, TypeIlm, TypeNet, TypeProxy
<1>3. CASE ProxyJoinThrows(c)
  <2>1. AllocProxyID \in Nat
    BY <1>3, JoinTypes DEF ProxyJoinThrows
  <2>2. Items' \subseteq Items /\ \A d \in Items' : proxies'[d] = proxies[d]
    BY <1>3 DEF ProxyJoinThrows, Items
  <2>3. TypeItems'
    BY <2>2, FS_Subset DEF TypePm, TypeItems
  <2>4. TypePm'
    BY <1>3, <2>1, <2>3 DEF ProxyJoinThrows, TypePm
  <2>5. TypeNet' /\ TypeProxy'
    BY <1>3 DEF ProxyJoinThrows, TypeNet, TypeProxy
  <2>6. QED
    BY <1>3, <2>4, <2>5 DEF ProxyJoinThrows, TypeIlm
<1>4. CASE ProxyJoinComplete(c) \/ ProxyStatus(c)
  <2>1. toPM' \in [Conn -> Seq(ToPMMsg)]
    BY <1>4, ReceivedTypes DEF ProxyJoinComplete, ProxyStatus
  <2>2. ProxyStatus(c) => Head(toPM[c]).num \in Nat
    BY ReceiveTypes, ToPMFields DEF ProxyStatus
  <2>3. /\ Items' = Items
        /\ \A d \in Items : \/ proxies'[d] = proxies[d]
                            \/ proxies'[d] = [proxies[d] EXCEPT !.valid = TRUE]
                            \/ ProxyStatus(c) /\ proxies'[d] = [proxies[d] EXCEPT !.num = Head(toPM[c]).num]
    BY <1>4 DEF ProxyJoinComplete, ProxyStatus, Items
  <2>4. TypeItems'
    <3>1. \A d \in Items : proxies'[d] \in Item
      <4>1. SUFFICES ASSUME NEW d \in Items
                     PROVE  proxies'[d] \in Item
        OBVIOUS
      <4>2. proxies[d] \in Item
        BY DEF TypePm, TypeItems
      <4>3. [proxies[d] EXCEPT !.valid = TRUE] \in Item
        BY <4>2, ItemFields
      <4>4. ProxyStatus(c) => [proxies[d] EXCEPT !.num = Head(toPM[c]).num] \in Item
        BY <2>2, <4>2, ItemFields
      <4>5. QED
        BY <2>3, <4>2, <4>3, <4>4
    <3>2. QED
      BY <2>3, <3>1 DEF TypePm, TypeItems
  <2>5. QED
    BY <1>4, <2>1, <2>4 DEF ProxyJoinComplete, ProxyStatus, TypePm, TypeIlm, TypeNet, TypeProxy
<1>5. CASE ProxyGone(c)
  <2>1. Items' \subseteq Items /\ \A d \in Items' : proxies'[d] = proxies[d]
    BY <1>5 DEF ProxyGone, Items
  <2>2. TypeItems'
    BY <2>1, FS_Subset DEF TypePm, TypeItems
  <2>3. QED
    BY <1>5, <2>2 DEF ProxyGone, TypePm, TypeIlm, TypeNet, TypeProxy
<1>6. CASE OnAddServerReply(c)
  <2>1. toPM' \in [Conn -> Seq(ToPMMsg)]
    BY <1>6, ReceivedTypes DEF OnAddServerReply, Counted
  <2>2. Head(toPM[c]).server \in Server
    BY <1>6, ReceiveTypes, ToPMFields DEF OnAddServerReply
  <2>3. servers' \in Seq(Server)
    BY <1>6, <2>2, AppendToSet DEF OnAddServerReply, Counted, Listed, TypePm
  <2>4. addServerCount' \in Nat
    <3>1. addServerCount + Width - 1 \in Int /\ addServerCount + Width - 1 >= 0
      BY PMAssumption DEF TypePm
    <3>2. QED
      BY <1>6, <3>1, CountTypes DEF OnAddServerReply, Counted
  <2>5. TypeItems'
    BY <1>6 DEF OnAddServerReply, Counted, TypePm, TypeItems, Items
  <2>6. QED
    BY <1>6, <2>1, <2>3, <2>4, <2>5 DEF OnAddServerReply, Counted, TypePm, TypeIlm, TypeNet, TypeProxy
<1>7. CASE AnswerNobody(c)
  BY <1>7, StartAgainTypes DEF AnswerNobody
<1>8. CASE OnGranted(c)
  <2> DEFINE m == Head(toPM[c])
  <2>1. m.user \in User /\ m.session \in Nat
    BY <1>8, ReceiveTypes, ToPMFields DEF OnGranted
  <2>2. \A d \in Items : proxies[d].addr \in Proxy \cup {None}
    BY ItemFields DEF TypePm, TypeItems
  <2>3. \A d \in WithId(m.id) : [user |-> m.user, session |-> m.session, addr |-> proxies[d].addr] \in Ticket
    BY <2>1, <2>2 DEF Ticket, WithId
  <2>4. ticket' \subseteq Ticket
    <3>1. \/ UNCHANGED ticket
          \/ \E d \in WithId(m.id) :
               ticket' = ticket \cup {[user |-> m.user, session |-> m.session,
                                       addr |-> proxies[d].addr]}
      BY <1>8 DEF OnGranted
    <3>2. CASE UNCHANGED ticket
      BY <3>2 DEF TypeProxy
    <3>3. ASSUME NEW d \in WithId(m.id),
                 ticket' = ticket \cup {[user |-> m.user, session |-> m.session,
                                         addr |-> proxies[d].addr]}
          PROVE  ticket' \subseteq Ticket
      <4> DEFINE t == [user |-> m.user, session |-> m.session, addr |-> proxies[d].addr]
      <4>1. t \in Ticket
        BY <2>3
      <4>2. ticket' = ticket \cup {t}
        BY <3>3
      <4> HIDE DEF t
      <4>3. QED
        BY <4>1, <4>2 DEF TypeProxy
    <3>4. QED
      BY <3>1, <3>2, <3>3
  <2>5. toPM' \in [Conn -> Seq(ToPMMsg)]
    BY <1>8, ReceivedTypes DEF OnGranted
  <2>6. TypePm'
    BY <1>8 DEF OnGranted, TypePm, TypeItems, Items
  <2>7. QED
    BY <1>8, <2>4, <2>5, <2>6 DEF OnGranted, TypeIlm, TypeNet, TypeProxy
<1>9. QED
  BY <1>1, <1>2, <1>3, <1>4, <1>5, <1>6, <1>7, <1>8 DEF Handle

LEMMA IlmTypes ==
  ASSUME TypeInv, NEW type, NextFromILM(type)
  PROVE  /\ Head(fromILM) \in IlmMsg /\ Head(fromILM).type = type
         /\ Head(fromILM) = fromILM[1] /\ 1 \in DOMAIN fromILM
         /\ fromILM # <<>> /\ fromILM' = Tail(fromILM) /\ fromILM' \in Seq(IlmMsg)
<1>1. fromILM \in Seq(IlmMsg) /\ fromILM # <<>>
  BY DEF TypeInv, TypeIlm, NextFromILM
<1>2. Head(fromILM) = fromILM[1] /\ 1 \in DOMAIN fromILM
  BY <1>1
<1>3. QED
  BY <1>1, <1>2, HeadTail DEF NextFromILM

LEMMA TypeHandleILM ==
  ASSUME TypeInv, HandleILM
  PROVE  TypeInv'
<1> USE DEF TypeInv, pmVars, ilmVars, netVars, proxyVars
<1>1. CASE AddServerAlone
  <2>1. Head(fromILM).server \in Server /\ fromILM' \in Seq(IlmMsg)
    BY <1>1, IlmTypes, IlmFields DEF AddServerAlone
  <2>2. servers' \in Seq(Server)
    BY <1>1, <2>1, AppendToSet DEF AddServerAlone, Listed, TypePm
  <2>3. TypeItems'
    BY <1>1 DEF AddServerAlone, TypePm, TypeItems, Items
  <2>4. QED
    BY <1>1, <2>1, <2>2, <2>3 DEF AddServerAlone, TypePm, TypeIlm, TypeNet, TypeProxy
<1>2. CASE AddServerForward
  <2>1. Head(fromILM) \in ToProxyMsg /\ fromILM' \in Seq(IlmMsg)
    BY <1>2, IlmTypes, IlmFields DEF AddServerForward
  <2>2. toProxy' \in [Conn -> Seq(ToProxyMsg)]
    BY <1>2, <2>1 DEF AddServerForward, TypeNet
  <2>3. addServerCount' \in Nat
    <3>1. Cardinality(Items) \in Nat
      BY FS_CardinalityType DEF TypePm, TypeItems
    <3>2. QED
      BY <1>2, <3>1, CountTypes DEF AddServerForward, Asked, TypePm
  <2>4. TypeItems'
    BY <1>2 DEF AddServerForward, TypePm, TypeItems, Items
  <2>5. QED
    BY <1>2, <2>1, <2>2, <2>3, <2>4 DEF AddServerForward, TypePm, TypeIlm, TypeNet, TypeProxy
<1>3. CASE RemoveServer
  <2>1. fromILM' \in Seq(IlmMsg)
    BY <1>3, IlmTypes DEF RemoveServer
  <2>2. servers' \in Seq(Server)
    BY <1>3, FirstInList, RemoveAtProperties DEF RemoveServer, TypePm
  <2>3. TypeItems'
    BY <1>3 DEF RemoveServer, TypePm, TypeItems, Items
  <2>4. QED
    BY <1>3, <2>1, <2>2, <2>3 DEF RemoveServer, TypePm, TypeIlm, TypeNet, TypeProxy
<1>4. CASE EndBatch
  BY <1>4 DEF EndBatch, TypePm, TypeItems, Items, TypeIlm, TypeNet, TypeProxy
<1>5. CASE ConnectILM
  <2> DEFINE n == Cardinality(joined)
             q == [i \in 1 .. n |-> Add(SetToSeq(joined)[i])]
  <2>1. n \in Nat /\ \A i \in 1 .. n : SetToSeq(joined)[i] \in Server
    BY SetToSeqLists DEF TypeIlm
  <2>2. \A i \in 1 .. n : Add(SetToSeq(joined)[i]) \in IlmMsg
    BY <2>1, MessageTypes
  <2>3. q \in Seq(IlmMsg)
    BY <2>1, <2>2
  <2>4. fromILM' \in Seq(IlmMsg)
    BY <1>5, <2>3 DEF ConnectILM
  <2>5. QED
    BY <1>5, <2>4 DEF ConnectILM, TypePm, TypeItems, Items, TypeIlm, TypeNet, TypeProxy
<1>6. QED
  BY <1>1, <1>2, <1>3, <1>4, <1>5 DEF HandleILM

LEMMA TypeProxyStep ==
  ASSUME TypeInv, NEW p \in Proxy, ProxyStep(p)
  PROVE  TypeInv'
<1> USE DEF TypeInv, pmVars, ilmVars, netVars, proxyVars
<1>1. ASSUME NEW c \in Conn, ProxyConnect(p, c)
      PROVE  TypeInv'
  <2>1. Join(proxyID[p]) \in ToPMMsg
    BY MessageTypes DEF TypeProxy
  <2>2. <<Join(proxyID[p])>> \in Seq(ToPMMsg)
    BY <2>1
  <2>3. TypeNet' /\ TypeProxy'
    BY <1>1, <2>2 DEF ProxyConnect, TypeNet, TypeProxy
  <2>4. QED
    BY <1>1, <2>3 DEF ProxyConnect, TypePm, TypeItems, Items, TypeIlm
<1>2. CASE OnJoined(p) \/ OnAdd(p) \/ OnGrant(p) \/ OnQuery(p)
  <2>1. \/ Got(p, "joined") /\ OnJoined(p)
        \/ Got(p, "add") /\ OnAdd(p)
        \/ Got(p, "grant") /\ OnGrant(p)
        \/ Got(p, "query") /\ OnQuery(p)
    BY <1>2 DEF OnJoined, OnAdd, OnGrant, OnQuery
  <2>2. /\ pmObject[p] \in Conn /\ Message(p) \in ToProxyMsg
        /\ toProxy' \in [Conn -> Seq(ToProxyMsg)]
        /\ \/ Message(p).type = "joined" /\ OnJoined(p)
           \/ Message(p).type = "add" /\ OnAdd(p)
           \/ Message(p).type = "grant" /\ OnGrant(p)
           \/ Message(p).type = "query" /\ OnQuery(p)
    BY <2>1, GotTypes
  <2>3. \E m \in ToPMMsg : Tell(p, m)
    <3>1. OnJoined(p) => Tell(p, Complete)
      BY DEF OnJoined
    <3>2. OnAdd(p) => Tell(p, Added(Message(p).server))
      BY DEF OnAdd
    <3>3. OnGrant(p) => Tell(p, Granted(Message(p)))
      BY DEF OnGrant
    <3>4. OnQuery(p) => Tell(p, Status(players[p]))
      BY DEF OnQuery
    <3>5. players[p] \in Nat
      BY DEF TypeProxy
    <3>6. QED
      BY <2>2, <3>1, <3>2, <3>3, <3>4, <3>5, MessageTypes, ToProxyFields
  <2>4. toPM' \in [Conn -> Seq(ToPMMsg)]
    BY <2>2, <2>3, TellTypes
  <2>5. TypeNet'
    BY <1>2, <2>2, <2>4 DEF TypeNet, OnJoined, OnAdd, OnGrant, OnQuery
  <2>6. proxyID' \in [Proxy -> Nat]
    BY <2>2, ToProxyFields DEF OnJoined, OnAdd, OnGrant, OnQuery, TypeProxy
  <2>7. gs' \in [Proxy -> SUBSET Server]
    <3>1. OnJoined(p) /\ Message(p).type = "joined" => ConnectGameServers(p, ToSet(Message(p).list)) /\ ToSet(Message(p).list) \subseteq Server
      BY <2>2, ToProxyFields, ToSetType DEF OnJoined
    <3>2. OnAdd(p) /\ Message(p).type = "add" => ConnectGameServers(p, {Message(p).server}) /\ {Message(p).server} \subseteq Server
      BY <2>2, ToProxyFields DEF OnAdd
    <3>3. OnGrant(p) \/ OnQuery(p) => gs' \in [Proxy -> SUBSET Server]
      BY DEF OnGrant, OnQuery, TypeProxy
    <3>4. QED
      BY <2>2, <3>1, <3>2, <3>3, ConnectTypes
  <2>8. authen' \in [Proxy -> Seq(Nat)]
    <3>1. Message(p).type = "grant" => Append(authen[p], Message(p).session) \in Seq(Nat)
      BY <2>2, ToProxyFields, AppendToSet DEF TypeProxy
    <3>2. QED
      BY <2>2, <3>1 DEF OnJoined, OnAdd, OnGrant, OnQuery, TypeProxy
  <2>9. TypeProxy'
    BY <1>2, <2>6, <2>7, <2>8 DEF TypeProxy, OnJoined, OnAdd, OnGrant, OnQuery
  <2>10. QED
    BY <1>2, <2>5, <2>9 DEF OnJoined, OnAdd, OnGrant, OnQuery, TypePm, TypeItems, Items, TypeIlm
<1>3. QED
  BY <1>1, <1>2 DEF ProxyStep

LEMMA FirstOfPlace ==
  ASSUME TypeInv, NEW p \in Proxy, NEW k \in ToSet(authen[p])
  PROVE  FirstOf(p, k) \in 1 .. Len(authen[p]) /\ authen[p][FirstOf(p, k)] = k
<1> DEFINE s == authen[p]
           I == {i \in DOMAIN s : s[i] = k}
<1>1. s \in Seq(Nat) /\ DOMAIN s = 1 .. Len(s) /\ Len(s) \in Nat
  BY DEF TypeInv, TypeProxy
<1> HIDE DEF s
<1>2. I \subseteq Nat /\ I # {}
  BY <1>1 DEF ToSet, s
<1>3. Min(I) \in I /\ \A j \in I : Min(I) <= j
  <2> HIDE DEF I
  <2>1. QED
    BY <1>2, MinIsMember
<1>4. PICK n \in I : \A j \in I : n <= j
  BY <1>3
<1>5. \A j \in 1 .. (n - 1) : s[j] # k
  BY <1>1, <1>4
<1>6. \E i \in DOMAIN s : s[i] = k /\ \A j \in 1 .. (i - 1) : s[j] # k
  BY <1>4, <1>5
<1>7. QED
  BY <1>1, <1>6 DEF FirstOf, s

LEMMA BrokenTypes ==
  ASSUME TypeInv, NEW p \in Proxy, Broken(p)
  PROVE  /\ pmObject[p] \in Conn /\ TypePm' /\ TypeIlm'
         /\ pmObject' \in [Proxy -> Conn \cup {None}]
         /\ toProxy' \in [Conn -> Seq(ToProxyMsg)] /\ toPM' \in [Conn -> Seq(ToPMMsg)]
         /\ peer' \in [Conn -> Proxy \cup {None}]
<1>1. pmObject[p] \in Conn
  BY DEF Broken, TypeInv, TypeProxy
<1>2. TypePm' /\ TypeIlm'
  BY DEF Broken, TypeInv, TypePm, TypeItems, Items, TypeIlm, pmVars, ilmVars
<1>3. pmObject' \in [Proxy -> Conn \cup {None}]
  BY DEF Broken, TypeInv, TypeProxy
<1>4. QED
  BY <1>1, <1>2, <1>3 DEF Broken, TypeInv, TypeNet

-----------------------------------------------------------------------------
(* Connections and items                                                    *)

\* The proxy manager has an item for every connection that it accepted and
\* does not know to be gone.
ItemInv == Items = {c \in Conn : link[c] \in {"open", "broken"}}

\* A connection in use has a proxy.
PeerInv == \A c \in Conn : /\ link[c] = "free" => peer[c] = None
                           /\ link[c] # "free" => peer[c] \in Proxy

\* Nothing is on the way to a proxy that is gone or was not accepted.
ChanInv == \A c \in Conn : /\ link[c] = "free" => toPM[c] = <<>>
                           /\ link[c] \in {"free", "new", "broken"} => toProxy[c] = <<>>

\* A proxy and its connection name each other.
ObjInv ==
  /\ \A p \in Proxy : pmObject[p] # None =>
       peer[pmObject[p]] = p /\ link[pmObject[p]] \in {"new", "open", "leaked"}
  /\ \A c \in Conn : link[c] \in {"new", "open"} => pmObject[peer[c]] = c

\* An item has the address of the proxy of its connection once it has an id.
AddrInv == \A c \in Items : /\ proxies[c].addr \in {None, peer[c]}
                            /\ proxies[c].addr = None <=> proxies[c].id = 0

\* A proxy joins once on a connection, before it says anything else.
JoinInv ==
  \A c \in Conn : \A i \in DOMAIN toPM[c] : toPM[c][i].type = "join" =>
     i = 1 /\ (c \in Items => proxies[c].addr = None)

\* alreadyHaveThisProxy leaves at most one item with an address.
UniqueAddr == \A c, d \in Items : Known(c) /\ proxies[c].addr = proxies[d].addr => c = d

EndedInv == ilm = "ended" => "ilm" \in world.faults

LinkInv == /\ ItemInv /\ PeerInv /\ ChanInv /\ ObjInv
           /\ AddrInv /\ JoinInv /\ UniqueAddr /\ EndedInv

\* What most steps leave alone: the connections and the names of the items
ItemsKept == Items' = Items /\ \A c \in Items : /\ proxies'[c].addr = proxies[c].addr
                                                /\ proxies'[c].id = proxies[c].id

ConnectionsKept == ItemsKept /\ UNCHANGED <<link, peer, pmObject>>

\* What such a step may do to the channels: take the next message, or add one
\* behind the others on a connection that is open for it
Fewer(q) == q' = q \/ (q # <<>> /\ q' = Tail(q))

More(q) == \E m \in ToPMMsg : m.type # "join" /\ q' = Append(q, m)

ToPMStep == \A c \in Conn : Fewer(toPM[c]) \/ (link[c] # "free" /\ More(toPM[c]))

ToProxyStep == \A c \in Conn : link[c] \in {"free", "new", "broken"} => toProxy'[c] = toProxy[c]

Steady == ConnectionsKept /\ ToPMStep /\ ToProxyStep
          /\ (ilm' = "ended" => ilm = "ended" \/ "ilm" \in world.faults)
          /\ world' = world

LEMMA SteadyKeepsLinks ==
  ASSUME TypeInv, LinkInv, Steady
  PROVE  LinkInv'
<1>1. ItemInv' /\ PeerInv' /\ ObjInv' /\ AddrInv' /\ UniqueAddr' /\ EndedInv'
  BY DEF LinkInv, ItemInv, PeerInv, ObjInv, AddrInv, UniqueAddr, EndedInv, Known,
         Steady, ConnectionsKept, ItemsKept
<1>2. ChanInv'
  BY DEF LinkInv, ChanInv, Steady, ConnectionsKept, ToPMStep, ToProxyStep, Fewer, More
<1>3. JoinInv'
  <2>1. SUFFICES ASSUME NEW c \in Conn, NEW i \in DOMAIN toPM'[c], toPM'[c][i].type = "join"
                 PROVE  i = 1 /\ (c \in Items => proxies[c].addr = None)
    BY DEF JoinInv, Steady, ConnectionsKept, ItemsKept
  <2>2. \E j \in DOMAIN toPM[c] : j >= i /\ toPM[c][j] = toPM'[c][i] /\ i \in Nat \ {0}
    <3>1. toPM[c] \in Seq(ToPMMsg)
      BY DEF TypeInv, TypeNet
    <3>2. CASE toPM'[c] = toPM[c]
      BY <3>1, <3>2
    <3>3. CASE toPM[c] # <<>> /\ toPM'[c] = Tail(toPM[c])
      <4>1. i + 1 \in DOMAIN toPM[c] /\ toPM[c][i + 1] = toPM'[c][i] /\ i \in Nat \ {0}
        BY <3>1, <3>3
      <4>2. QED
        BY <4>1
    <3>4. ASSUME NEW m \in ToPMMsg, m.type # "join", toPM'[c] = Append(toPM[c], m)
          PROVE  i \in DOMAIN toPM[c] /\ toPM[c][i] = toPM'[c][i] /\ i \in Nat \ {0}
      <4>1. i \in 1 .. Len(toPM[c]) + 1 /\ i # Len(toPM[c]) + 1
        BY <2>1, <3>1, <3>4
      <4>2. QED
        BY <3>1, <3>4, <4>1
    <3>5. Fewer(toPM[c]) \/ More(toPM[c])
      BY DEF Steady, ToPMStep
    <3>6. QED
      BY <3>2, <3>3, <3>4, <3>5 DEF Fewer, More
  <2>3. QED
    BY <2>1, <2>2 DEF LinkInv, JoinInv
<1>4. QED
  BY <1>1, <1>2, <1>3 DEF LinkInv

LEMMA LinkInit == Init => TypeInv /\ LinkInv
<1> SUFFICES ASSUME Init
             PROVE  TypeInv /\ LinkInv
  OBVIOUS
<1>1. Items = {}
  BY DEF Init, Items
<1>2. TypeInv
  BY <1>1, FS_EmptySet, PMAssumption
  DEF Init, TypeInv, TypePm, TypeItems, TypeIlm, TypeNet, TypeProxy
<1>3. LinkInv
  BY <1>1, NobodyIsNone
  DEF Init, LinkInv, ItemInv, PeerInv, ChanInv, ObjInv, AddrInv, JoinInv, UniqueAddr, EndedInv
<1>4. QED
  BY <1>2, <1>3

\* The fields of the items stay under the two updates of one of them.
LEMMA UpdateKeepsItems ==
  ASSUME TypeInv, NEW c \in Conn, ProxyJoinComplete(c) \/ ProxyStatus(c)
  PROVE  ItemsKept
<1>1. /\ Items' = Items
      /\ \A d \in Items : \/ proxies'[d] = proxies[d]
                          \/ proxies'[d] = [proxies[d] EXCEPT !.valid = TRUE]
                          \/ ProxyStatus(c) /\ proxies'[d] = [proxies[d] EXCEPT !.num = Head(toPM[c]).num]
  BY DEF ProxyJoinComplete, ProxyStatus, Items
<1>2. ProxyStatus(c) => Head(toPM[c]).num \in Nat
  BY ReceiveTypes, ToPMFields DEF ProxyStatus
<1>3. ASSUME NEW d \in Items
      PROVE  proxies'[d].addr = proxies[d].addr /\ proxies'[d].id = proxies[d].id
  <2>1. proxies[d] \in Item
    BY DEF TypeInv, TypePm, TypeItems
  <2>2. LET e == [proxies[d] EXCEPT !.valid = TRUE]
        IN  e.addr = proxies[d].addr /\ e.id = proxies[d].id
    BY <2>1, ItemFields
  <2>3. ProxyStatus(c) => LET e == [proxies[d] EXCEPT !.num = Head(toPM[c]).num]
                          IN  e.addr = proxies[d].addr /\ e.id = proxies[d].id
    BY <1>2, <2>1, ItemFields
  <2>4. QED
    BY <1>1, <2>2, <2>3
<1>4. QED
  BY <1>1, <1>3 DEF ItemsKept

LEMMA ReceivedSteps ==
  ASSUME TypeInv, NEW c \in Conn, NEW type, Receive(c, type), Received(c)
  PROVE  ToPMStep
BY DEF Receive, Received, ToPMStep, Fewer, TypeInv, TypeNet

LEMMA HandleSteady ==
  ASSUME TypeInv, LinkInv, NEW c \in Conn,
         ProxyJoinComplete(c) \/ ProxyStatus(c) \/ OnAddServerReply(c) \/ OnGranted(c)
  PROVE  Steady
<1>1. ToPMStep
  BY ReceivedSteps DEF ProxyJoinComplete, ProxyStatus, OnAddServerReply, Counted, OnGranted
<1>2. ItemsKept
  <2>1. OnAddServerReply(c) \/ OnGranted(c) => proxies' = proxies
    BY DEF OnAddServerReply, Counted, OnGranted, pmVars
  <2>2. QED
    BY <2>1, UpdateKeepsItems DEF ItemsKept, Items
<1>3. QED
  BY <1>1, <1>2 DEF Steady, ConnectionsKept, ToProxyStep, ilmVars, proxyVars,
     ProxyJoinComplete, ProxyStatus, OnAddServerReply, Counted, OnGranted

LEMMA HandleILMSteady ==
  ASSUME TypeInv, LinkInv, HandleILM
  PROVE  Steady
<1>1. ConnectionsKept /\ ToPMStep /\ world' = world
  BY DEF HandleILM, AddServerAlone, AddServerForward, RemoveServer, EndBatch, ConnectILM,
         pmVars, ilmVars, netVars, proxyVars, ConnectionsKept, ItemsKept, Items, ToPMStep, Fewer
<1>2. ToProxyStep
  BY DEF HandleILM, AddServerAlone, AddServerForward, RemoveServer, EndBatch, ConnectILM,
         netVars, ToProxyStep, TypeInv, TypeNet
<1>3. ilm' = "ended" => ilm = "ended"
  BY DEF HandleILM, AddServerAlone, AddServerForward, RemoveServer, EndBatch, ConnectILM
<1>4. QED
  BY <1>1, <1>2, <1>3 DEF Steady

\* A proxy hears only on a connection the proxy manager wrote to.
LEMMA HeardLink ==
  ASSUME TypeInv, LinkInv, NEW p \in Proxy, NEW type, Got(p, type)
  PROVE  /\ pmObject[p] \in Conn /\ peer[pmObject[p]] = p
         /\ link[pmObject[p]] \in {"open", "leaked"}
<1>1. pmObject[p] \in Conn /\ toProxy[pmObject[p]] # <<>>
  BY GotTypes
<1>2. QED
  BY <1>1, NobodyIsNone DEF LinkInv, ObjInv, ChanInv

\* What a proxy answers
LEMMA Answer ==
  ASSUME TypeInv, LinkInv, NEW p \in Proxy, OnJoined(p) \/ OnAdd(p) \/ OnGrant(p) \/ OnQuery(p)
  PROVE  \E m \in ToPMMsg :
           /\ Tell(p, m)
           /\ \/ OnJoined(p) /\ Got(p, "joined") /\ m = Complete
              \/ OnAdd(p) /\ Got(p, "add") /\ m = Added(Message(p).server)
              \/ OnGrant(p) /\ Got(p, "grant") /\ m = Granted(Message(p))
              \/ OnQuery(p) /\ Got(p, "query") /\ m = Status(players[p])
<1>1. CASE OnJoined(p)
  BY <1>1, MessageTypes DEF OnJoined
<1>2. CASE OnAdd(p)
  <2>1. Got(p, "add") /\ Tell(p, Added(Message(p).server))
    BY <1>2 DEF OnAdd
  <2>2. Message(p).server \in Server
    BY <2>1, GotTypes, ToProxyFields
  <2>3. QED
    BY <1>2, <2>1, <2>2, MessageTypes
<1>3. CASE OnGrant(p)
  <2>1. Got(p, "grant") /\ Tell(p, Granted(Message(p)))
    BY <1>3 DEF OnGrant
  <2>2. Granted(Message(p)) \in ToPMMsg
    BY <2>1, GotTypes, ToProxyFields
  <2>3. QED
    BY <1>3, <2>1, <2>2
<1>4. CASE OnQuery(p)
  <2>1. players[p] \in Nat
    BY DEF TypeInv, TypeProxy
  <2>2. QED
    BY <1>4, <2>1, MessageTypes DEF OnQuery
<1>5. QED
  BY <1>1, <1>2, <1>3, <1>4

LEMMA ProxyStepSteady ==
  ASSUME TypeInv, LinkInv, NEW p \in Proxy, OnJoined(p) \/ OnAdd(p) \/ OnGrant(p) \/ OnQuery(p)
  PROVE  Steady
<1>1. PICK m \in ToPMMsg :
        /\ Tell(p, m)
        /\ \/ OnJoined(p) /\ Got(p, "joined") /\ m = Complete
           \/ OnAdd(p) /\ Got(p, "add") /\ m = Added(Message(p).server)
           \/ OnGrant(p) /\ Got(p, "grant") /\ m = Granted(Message(p))
           \/ OnQuery(p) /\ Got(p, "query") /\ m = Status(players[p])
  BY Answer
<1>2. /\ pmObject[p] \in Conn /\ link[pmObject[p]] \in {"open", "leaked"}
      /\ toProxy' = [toProxy EXCEPT ![pmObject[p]] = Tail(@)]
  BY <1>1, HeardLink, GotTypes
<1>3. m.type # "join"
  <2>1. Got(p, "grant") => Granted(Message(p)).type = "granted"
    BY GotTypes, ToProxyFields
  <2>2. QED
    BY <1>1, <2>1 DEF Complete, Added, Status
<1>4. ToPMStep
  BY <1>1, <1>2, <1>3 DEF ToPMStep, Fewer, More, Tell, TypeInv, TypeNet
<1>5. ToProxyStep
  BY <1>2 DEF ToProxyStep, TypeInv, TypeNet
<1>6. QED
  BY <1>4, <1>5 DEF Steady, ConnectionsKept, ItemsKept, Items, OnJoined, OnAdd, OnGrant, OnQuery,
     pmVars, ilmVars

LEMMA OutsideSteady ==
  ASSUME TypeInv, LinkInv, Outside
  PROVE  Steady \/ PmRestart \/ \E p \in Proxy : ProxyCut(p) \/ ProxyRestart(p)
<1> USE DEF pmVars, ilmVars, netVars, proxyVars
<1>1. QueryProxies => Steady
  BY DEF QueryProxies, Steady, ConnectionsKept, ItemsKept, Items, ToPMStep, Fewer, ToProxyStep,
         LinkInv, ItemInv
<1>2. IlmLost => Steady
  BY DEF IlmLost, Steady, ConnectionsKept, ItemsKept, Items, ToPMStep, Fewer, ToProxyStep
<1>3. ASSUME NEW s \in Server, IlmJoin(s) \/ IlmLeave(s) \/ (\E p \in Proxy : GameServerGone(p, s))
      PROVE  Steady
  BY <1>3 DEF IlmJoin, IlmLeave, GameServerGone, Steady, ConnectionsKept, ItemsKept, Items,
              ToPMStep, Fewer, ToProxyStep
<1>4. ASSUME NEW l \in Login, LoginConnect(l) \/ LoginGone(l)
      PROVE  Steady
  BY <1>4 DEF LoginConnect, LoginGone, Steady, ConnectionsKept, ItemsKept, Items,
              ToPMStep, Fewer, ToProxyStep
<1>5. ASSUME NEW l \in Login, NEW u \in User, NEW c \in Conn, AddClient(l, u, c)
      PROVE  Steady
  <2>1. ToProxyStep
    BY <1>5 DEF AddClient, Put, ToProxyStep, TypeInv, TypeNet
  <2>2. ConnectionsKept /\ ToPMStep /\ ilm' = ilm /\ world' = world
    BY <1>5 DEF AddClient, ConnectionsKept, ItemsKept, Items, ToPMStep, Fewer
  <2>3. QED
    BY <2>1, <2>2 DEF Steady
<1>6. ASSUME NEW p \in Proxy, (\E t \in ticket : ClientConnects(p, t)) \/ ClientLeaves(p)
      PROVE  Steady
  BY <1>6 DEF ClientConnects, ClientLeaves, Steady, ConnectionsKept, ItemsKept, Items,
              ToPMStep, Fewer, ToProxyStep
<1>7. QED
  BY <1>1, <1>2, <1>3, <1>4, <1>5, <1>6 DEF Outside

LEMMA JoinAtHead ==
  ASSUME TypeInv, LinkInv, NEW c \in Conn, Receive(c, "join")
  PROVE  /\ c \in Items /\ proxies[c].addr = None /\ proxies[c].id = 0 /\ peer[c] \in Proxy
         /\ SameProxy(peer[c]) \subseteq Items \ {c}
         /\ \A i \in DOMAIN Tail(toPM[c]) : Tail(toPM[c])[i].type # "join"
<1>1. /\ toPM[c] \in Seq(ToPMMsg) /\ toPM[c] # <<>> /\ link[c] \in {"open", "broken"}
      /\ 1 \in DOMAIN toPM[c] /\ toPM[c][1].type = "join"
  <2>1. toPM[c] \in Seq(ToPMMsg) /\ toPM[c] # <<>>
    BY DEF TypeInv, TypeNet, Receive
  <2>2. QED
    BY <2>1, ReceiveTypes
<1>2. c \in Items /\ proxies[c].addr = None /\ proxies[c].id = 0 /\ peer[c] \in Proxy
  BY <1>1 DEF LinkInv, ItemInv, JoinInv, AddrInv, PeerInv
<1>3. SameProxy(peer[c]) \subseteq Items \ {c}
  BY <1>2, NobodyIsNone DEF SameProxy
<1>4. ASSUME NEW i \in DOMAIN Tail(toPM[c]), Tail(toPM[c])[i].type = "join"
      PROVE  FALSE
  <2>1. i \in Nat \ {0} /\ i + 1 \in DOMAIN toPM[c] /\ toPM[c][i + 1].type = "join"
    BY <1>1, <1>4
  <2>2. i + 1 = 1
    BY <2>1 DEF LinkInv, JoinInv
  <2>3. QED
    BY <2>1, <2>2
<1>5. QED
  BY <1>2, <1>3, <1>4

LEMMA JoinKeepsLinks ==
  ASSUME TypeInv, LinkInv, NEW c \in Conn, ProxyJoin(c)
  PROVE  LinkInv'
<1> DEFINE known == SameProxy(peer[c])
           id == JoinId(c)
<1>1. Receive(c, "join")
  BY DEF ProxyJoin
<1>2. /\ c \in Items /\ proxies[c].addr = None /\ peer[c] \in Proxy
      /\ known \subseteq Items \ {c}
      /\ \A i \in DOMAIN Tail(toPM[c]) : Tail(toPM[c])[i].type # "join"
  BY <1>1, JoinAtHead
<1>3. /\ Items' = Items \ known
      /\ \A d \in Items \ known :
           proxies'[d] = IF d = c /\ id # 0 THEN [proxies[d] EXCEPT !.addr = peer[c], !.id = id]
                         ELSE proxies[d]
      /\ link' = [d \in Conn |-> IF d \in known THEN "leaked" ELSE link[d]]
      /\ toPM' = [d \in Conn |-> IF d = c THEN Tail(toPM[c])
                                 ELSE IF d \in known THEN <<>> ELSE toPM[d]]
      /\ \A d \in Conn : d # c \/ link[c] # "open" => toProxy'[d] = toProxy[d]
      /\ UNCHANGED <<peer, pmObject, ilm, world>>
  <2>1. toProxy' = toProxy \/ \E m : toProxy' = Put(toProxy, c, m)
    BY DEF ProxyJoin
  <2>2. \A d \in Conn : d # c \/ link[c] # "open" => toProxy'[d] = toProxy[d]
    BY <2>1 DEF Put, TypeInv, TypeNet
  <2>3. QED
    BY <2>2 DEF ProxyJoin, Items, ilmVars, proxyVars
<1>4. id \in Nat
  BY <1>1, JoinTypes
<1>5. /\ \A d \in Items \ known : d # c => proxies'[d] = proxies[d]
      /\ \/ proxies'[c].addr = peer[c] /\ proxies'[c].id = id /\ id # 0
         \/ proxies'[c] = proxies[c]
  <2>1. proxies[c] \in Item
    BY <1>2 DEF TypeInv, TypePm, TypeItems
  <2>2. /\ [proxies[c] EXCEPT !.addr = peer[c], !.id = id].addr = peer[c]
        /\ [proxies[c] EXCEPT !.addr = peer[c], !.id = id].id = id
    BY <2>1 DEF Item
  <2>3. c \in Items \ known
    BY <1>2
  <2>4. QED
    BY <1>3, <2>2, <2>3
<1> HIDE DEF id
<1>6. known = {d \in Items : proxies[d].addr = peer[c]}
  BY DEF SameProxy
<1> HIDE DEF known
<1>7. ItemInv' /\ PeerInv'
  BY <1>2, <1>3 DEF LinkInv, ItemInv, PeerInv
<1>8. ChanInv' /\ ObjInv'
  <2>1. ASSUME NEW d \in Conn
        PROVE  /\ link'[d] = "free" => toPM'[d] = <<>>
               /\ link'[d] \in {"free", "new", "broken"} => toProxy'[d] = <<>>
    <3>1. link'[d] \in {"free", "new", "broken"} => d \notin known /\ link'[d] = link[d]
      BY <1>3
    <3>2. link[c] # "free"
      BY <1>2 DEF LinkInv, ItemInv
    <3>3. link[d] = "free" => d # c /\ (d \notin known => toPM'[d] = toPM[d])
      BY <1>3, <3>2
    <3>4. link[d] \in {"free", "new", "broken"} => toProxy'[d] = toProxy[d]
      BY <1>3
    <3>5. QED
      BY <3>1, <3>3, <3>4 DEF LinkInv, ChanInv
  <2>2. ASSUME NEW p \in Proxy, pmObject'[p] # None
        PROVE  peer'[pmObject'[p]] = p /\ link'[pmObject'[p]] \in {"new", "open", "leaked"}
    <3>1. pmObject[p] \in Conn /\ pmObject'[p] = pmObject[p]
      BY <1>3, <2>2 DEF TypeInv, TypeProxy
    <3>2. QED
      BY <1>3, <2>2, <3>1 DEF LinkInv, ObjInv
  <2>3. \A d \in Conn : link'[d] \in {"new", "open"} => pmObject'[peer'[d]] = d
    BY <1>3 DEF LinkInv, ObjInv
  <2>4. QED
    BY <2>1, <2>2, <2>3 DEF ChanInv, ObjInv
<1>9. AddrInv'
  <2>1. ASSUME NEW d \in Items'
        PROVE  /\ proxies'[d].addr \in {None, peer'[d]}
               /\ proxies'[d].addr = None <=> proxies'[d].id = 0
    <3>1. d \in Items \ known /\ peer' = peer
      BY <1>3
    <3>2. CASE proxies'[d] = proxies[d]
      BY <3>1, <3>2 DEF LinkInv, AddrInv
    <3>3. CASE d = c /\ proxies'[c].addr = peer[c] /\ proxies'[c].id = id /\ id # 0
      BY <1>2, <3>1, <3>3, NobodyIsNone
    <3>4. QED
      BY <1>5, <3>1, <3>2, <3>3
  <2>2. QED
    BY <2>1 DEF AddrInv
<1>10. JoinInv'
  <2>1. SUFFICES ASSUME NEW d \in Conn, NEW i \in DOMAIN toPM'[d], toPM'[d][i].type = "join"
                 PROVE  i = 1 /\ (d \in Items' => proxies'[d].addr = None)
    BY DEF JoinInv
  <2>2. d # c /\ toPM'[d] = toPM[d]
    <3>1. toPM'[d] = IF d = c THEN Tail(toPM[c]) ELSE IF d \in known THEN <<>> ELSE toPM[d]
      BY <1>3
    <3>2. toPM'[d] # <<>>
      BY <2>1
    <3>3. d # c
      BY <1>2, <2>1, <3>1
    <3>4. QED
      BY <3>1, <3>2, <3>3
  <2>3. QED
    BY <1>3, <1>5, <2>1, <2>2 DEF LinkInv, JoinInv
<1>11. UniqueAddr'
  <2>1. SUFFICES ASSUME NEW d \in Items', NEW e \in Items', proxies'[d].addr # None,
                        proxies'[d].addr = proxies'[e].addr
                 PROVE  d = e
    BY DEF UniqueAddr, Known
  <2>2. CASE d # c /\ e # c
    BY <1>3, <1>5, <2>1, <2>2 DEF LinkInv, UniqueAddr, Known
  <2>3. ASSUME NEW x \in Items', x # c, proxies'[x].addr = proxies'[c].addr, proxies'[c].addr # None
        PROVE  FALSE
    <3>1. proxies'[x] = proxies[x] /\ x \in Items /\ x \notin known
      BY <1>3, <1>5, <2>3
    <3>2. proxies'[c].addr = peer[c]
      BY <1>2, <1>5, <2>3
    <3>3. QED
      BY <1>6, <2>3, <3>1, <3>2
  <2>4. QED
    BY <2>1, <2>2, <2>3
<1>12. EndedInv'
  BY <1>3 DEF LinkInv, EndedInv
<1>13. QED
  BY <1>7, <1>8, <1>9, <1>10, <1>11, <1>12 DEF LinkInv

LEMMA JoinThrowsKeepsLinks ==
  ASSUME TypeInv, LinkInv, NEW c \in Conn, ProxyJoinThrows(c)
  PROVE  LinkInv'
<1> DEFINE known == SameProxy(peer[c])
<1>1. Receive(c, "join")
  BY DEF ProxyJoinThrows
<1>2. /\ c \in Items /\ peer[c] \in Proxy /\ known \subseteq Items \ {c}
  BY <1>1, JoinAtHead
<1>3. /\ Items' = Items \ (known \cup {c})
      /\ \A d \in Items' : proxies'[d] = proxies[d]
      /\ link' = [d \in Conn |-> IF d = c THEN "free" ELSE IF d \in known THEN "leaked" ELSE link[d]]
      /\ peer' = [peer EXCEPT ![c] = None]
      /\ pmObject' = [p \in Proxy |-> IF pmObject[p] = c THEN None ELSE pmObject[p]]
      /\ toPM' = [d \in Conn |-> IF d \in known \cup {c} THEN <<>> ELSE toPM[d]]
      /\ toProxy' = [toProxy EXCEPT ![c] = <<>>]
      /\ ilm' = ilm /\ world' = world
  BY DEF ProxyJoinThrows, Items, ilmVars
<1> HIDE DEF known
<1>4. ItemInv' /\ PeerInv'
  BY <1>2, <1>3 DEF LinkInv, ItemInv, PeerInv, TypeInv, TypeNet
<1>5. ChanInv'
  BY <1>2, <1>3 DEF LinkInv, ItemInv, ChanInv, TypeInv, TypeNet
<1>6. ObjInv'
  <2>1. ASSUME NEW p \in Proxy, pmObject'[p] # None
        PROVE  peer'[pmObject'[p]] = p /\ link'[pmObject'[p]] \in {"new", "open", "leaked"}
    <3>1. pmObject'[p] = pmObject[p] /\ pmObject[p] # c /\ pmObject[p] \in Conn
      BY <1>3, <2>1 DEF TypeInv, TypeProxy
    <3>2. QED
      BY <1>3, <2>1, <3>1 DEF LinkInv, ObjInv, TypeInv, TypeNet
  <2>2. ASSUME NEW d \in Conn, link'[d] \in {"new", "open"}
        PROVE  pmObject'[peer'[d]] = d
    <3>1. d # c /\ link[d] \in {"new", "open"} /\ peer'[d] = peer[d] /\ peer[d] \in Proxy
      BY <1>3, <2>2 DEF LinkInv, PeerInv, TypeInv, TypeNet
    <3>2. QED
      BY <1>3, <3>1 DEF LinkInv, ObjInv
  <2>3. QED
    BY <2>1, <2>2 DEF ObjInv
<1>7. AddrInv' /\ UniqueAddr' /\ EndedInv'
  <2>1. ASSUME NEW d \in Items'
        PROVE  d \in Items /\ proxies'[d] = proxies[d] /\ peer'[d] = peer[d]
    BY <1>3 DEF TypeInv, TypePm, TypeItems, TypeNet
  <2>2. QED
    BY <1>3, <2>1 DEF LinkInv, AddrInv, UniqueAddr, Known, EndedInv
<1>8. JoinInv'
  BY <1>3 DEF LinkInv, JoinInv
<1>9. QED
  BY <1>4, <1>5, <1>6, <1>7, <1>8 DEF LinkInv

LEMMA AcceptKeepsLinks ==
  ASSUME TypeInv, LinkInv, NEW c \in Conn, AcceptProxy(c)
  PROVE  LinkInv'
<1>1. /\ Items' = Items \cup {c} /\ c \notin Items /\ link[c] = "new"
      /\ proxies'[c] = NewItem /\ \A d \in Items : proxies'[d] = proxies[d]
      /\ link' = [link EXCEPT ![c] = "open"]
      /\ UNCHANGED <<peer, toPM, toProxy, pmObject, ilm, world>>
  BY DEF AcceptProxy, Items, ilmVars, proxyVars, LinkInv, ItemInv
<1>2. NewItem.addr = None /\ NewItem.id = 0
  BY ItemFields
<1>3. ItemInv' /\ PeerInv' /\ ChanInv' /\ EndedInv'
  BY <1>1 DEF LinkInv, ItemInv, PeerInv, ChanInv, EndedInv, TypeInv, TypeNet
<1>4. ObjInv'
  BY <1>1 DEF LinkInv, ObjInv, TypeInv, TypeNet, TypeProxy
<1>5. AddrInv' /\ UniqueAddr' /\ JoinInv'
  BY <1>1, <1>2 DEF LinkInv, AddrInv, UniqueAddr, Known, JoinInv
<1>6. QED
  BY <1>3, <1>4, <1>5 DEF LinkInv

LEMMA GoneKeepsLinks ==
  ASSUME TypeInv, LinkInv, NEW c \in Conn, ProxyGone(c)
  PROVE  LinkInv'
<1>1. /\ Items' = Items \ {c} /\ \A d \in Items' : proxies'[d] = proxies[d]
      /\ link[c] = "broken" /\ link' = [link EXCEPT ![c] = "free"]
      /\ peer' = [peer EXCEPT ![c] = None] /\ toPM' = [toPM EXCEPT ![c] = <<>>]
      /\ UNCHANGED <<toProxy, pmObject, ilm, world>>
  BY DEF ProxyGone, Items, ilmVars, proxyVars
<1>2. ItemInv' /\ PeerInv' /\ ChanInv' /\ EndedInv'
  BY <1>1 DEF LinkInv, ItemInv, PeerInv, ChanInv, EndedInv, TypeInv, TypeNet
<1>3. ObjInv'
  BY <1>1 DEF LinkInv, ObjInv, TypeInv, TypeNet, TypeProxy
<1>4. AddrInv' /\ UniqueAddr' /\ JoinInv'
  <2>1. ASSUME NEW d \in Items'
        PROVE  d \in Items /\ proxies'[d] = proxies[d] /\ peer'[d] = peer[d]
    BY <1>1 DEF TypeInv, TypePm, TypeItems, TypeNet
  <2>2. AddrInv' /\ UniqueAddr'
    BY <2>1 DEF LinkInv, AddrInv, UniqueAddr, Known
  <2>3. \A d \in Conn : toPM'[d] = toPM[d] \/ toPM'[d] = <<>>
    BY <1>1 DEF TypeInv, TypeNet
  <2>4. JoinInv'
    BY <2>1, <2>3 DEF LinkInv, JoinInv
  <2>5. QED
    BY <2>2, <2>4
<1>5. QED
  BY <1>2, <1>3, <1>4 DEF LinkInv

LEMMA StartAgainKeepsLinks ==
  ASSUME TypeInv, LinkInv, StartAgain
  PROVE  LinkInv'
<1>1. Items' = {}
  BY DEF StartAgain, Items
<1>2. QED
  BY <1>1, NobodyIsNone
  DEF StartAgain, LinkInv, ItemInv, PeerInv, ChanInv, ObjInv, AddrInv, JoinInv, UniqueAddr, EndedInv

LEMMA ConnectKeepsLinks ==
  ASSUME TypeInv, LinkInv, NEW p \in Proxy, NEW c \in Conn, ProxyConnect(p, c)
  PROVE  LinkInv'
<1>1. /\ pmObject[p] = None /\ link[c] = "free" /\ toPM[c] = <<>>
      /\ pmObject' = [pmObject EXCEPT ![p] = c] /\ link' = [link EXCEPT ![c] = "new"]
      /\ peer' = [peer EXCEPT ![c] = p] /\ toPM' = [toPM EXCEPT ![c] = <<Join(proxyID[p])>>]
      /\ UNCHANGED <<proxies, toProxy, ilm, world>> /\ Items' = Items /\ c \notin Items
  BY DEF ProxyConnect, Items, pmVars, ilmVars, LinkInv, ChanInv, ItemInv
<1>2. c # None
  BY NobodyIsNone
<1>3. ItemInv' /\ PeerInv' /\ ChanInv' /\ EndedInv'
  BY <1>1 DEF LinkInv, ItemInv, PeerInv, ChanInv, EndedInv, TypeInv, TypeNet
<1>4. ObjInv'
  <2>1. ASSUME NEW q \in Proxy, pmObject'[q] # None
        PROVE  peer'[pmObject'[q]] = q /\ link'[pmObject'[q]] \in {"new", "open", "leaked"}
    <3>1. CASE q = p
      BY <1>1, <3>1 DEF TypeInv, TypeNet, TypeProxy
    <3>2. CASE q # p
      <4>1. pmObject'[q] = pmObject[q] /\ pmObject[q] # c /\ pmObject[q] \in Conn
        BY <1>1, <2>1, <3>2 DEF LinkInv, ObjInv, TypeInv, TypeProxy
      <4>2. QED
        BY <1>1, <2>1, <4>1 DEF LinkInv, ObjInv, TypeInv, TypeNet
    <3>3. QED
      BY <3>1, <3>2
  <2>2. ASSUME NEW d \in Conn, link'[d] \in {"new", "open"}
        PROVE  pmObject'[peer'[d]] = d
    <3>1. CASE d = c
      BY <1>1, <3>1 DEF TypeInv, TypeNet, TypeProxy
    <3>2. CASE d # c
      <4>1. link[d] \in {"new", "open"} /\ peer'[d] = peer[d] /\ pmObject[peer[d]] = d
            /\ peer[d] \in Proxy
        BY <1>1, <2>2, <3>2 DEF LinkInv, ObjInv, PeerInv, TypeInv, TypeNet
      <4>2. peer[d] # p
        BY <1>1, <4>1, NobodyIsNone
      <4>3. QED
        BY <1>1, <4>1, <4>2 DEF TypeInv, TypeProxy
    <3>3. QED
      BY <3>1, <3>2
  <2>3. QED
    BY <2>1, <2>2 DEF ObjInv
<1>5. AddrInv' /\ UniqueAddr'
  BY <1>1 DEF LinkInv, AddrInv, UniqueAddr, Known, TypeInv, TypeNet, TypePm, TypeItems
<1>6. JoinInv'
  BY <1>1 DEF LinkInv, JoinInv, TypeInv, TypeNet
<1>7. QED
  BY <1>3, <1>4, <1>5, <1>6 DEF LinkInv

\* The connection of a proxy breaks.
LEMMA BrokenLink ==
  ASSUME TypeInv, LinkInv, NEW p \in Proxy, Broken(p), NEW c, c = pmObject[p]
  PROVE  /\ c \in Conn /\ peer[c] = p /\ link[c] \in {"new", "open", "leaked"}
         /\ link' = [link EXCEPT ![c] = IF link[c] = "new" THEN "free"
                                        ELSE IF link[c] = "open" THEN "broken" ELSE "leaked"]
         /\ peer' = IF link[c] = "new" THEN [peer EXCEPT ![c] = None] ELSE peer
         /\ toProxy' = [toProxy EXCEPT ![c] = <<>>]
         /\ toPM' = IF link[c] = "new" THEN [toPM EXCEPT ![c] = <<>>] ELSE toPM
         /\ pmObject' = [pmObject EXCEPT ![p] = None]
         /\ UNCHANGED <<pmVars, ilmVars>>
<1>1. c \in Conn
  BY DEF Broken, TypeInv, TypeProxy
<1>2. peer[c] = p /\ link[c] \in {"new", "open", "leaked"}
  BY <1>1, NobodyIsNone DEF LinkInv, ObjInv
<1>3. link' = [link EXCEPT ![c] = IF link[c] = "new" THEN "free"
                                  ELSE IF link[c] = "open" THEN "broken" ELSE "leaked"]
  BY <1>1, <1>2 DEF Broken
<1>4. QED
  BY <1>1, <1>2, <1>3 DEF Broken

LEMMA BrokenKeepsLinks ==
  ASSUME TypeInv, LinkInv, NEW p \in Proxy, Broken(p)
  PROVE  LinkInv' /\ link' \in [Conn -> {"free", "new", "open", "broken", "leaked"}]
<1>1. PICK c \in Conn : c = pmObject[p]
  BY DEF Broken, TypeInv, TypeProxy
<1>2. /\ peer[c] = p /\ link[c] \in {"new", "open", "leaked"} /\ p # None
      /\ link' = [link EXCEPT ![c] = IF link[c] = "new" THEN "free"
                                     ELSE IF link[c] = "open" THEN "broken" ELSE "leaked"]
      /\ peer' = IF link[c] = "new" THEN [peer EXCEPT ![c] = None] ELSE peer
      /\ toProxy' = [toProxy EXCEPT ![c] = <<>>]
      /\ toPM' = IF link[c] = "new" THEN [toPM EXCEPT ![c] = <<>>] ELSE toPM
      /\ pmObject' = [pmObject EXCEPT ![p] = None]
      /\ UNCHANGED <<proxies, ilm, world>>
  BY <1>1, BrokenLink, NobodyIsNone DEF pmVars, ilmVars
<1>3. ItemInv' /\ PeerInv' /\ EndedInv'
  BY <1>2 DEF LinkInv, ItemInv, PeerInv, EndedInv, Items, TypeInv, TypeNet
<1>4. ChanInv'
  BY <1>2 DEF LinkInv, ChanInv, TypeInv, TypeNet
<1>5. ObjInv'
  <2>1. ASSUME NEW q \in Proxy, pmObject'[q] # None
        PROVE  peer'[pmObject'[q]] = q /\ link'[pmObject'[q]] \in {"new", "open", "leaked"}
    <3>1. q # p /\ pmObject'[q] = pmObject[q] /\ pmObject[q] \in Conn /\ peer[pmObject[q]] = q
          /\ link[pmObject[q]] \in {"new", "open", "leaked"}
      BY <1>2, <2>1 DEF LinkInv, ObjInv, TypeInv, TypeProxy
    <3>2. pmObject[q] # c
      BY <1>2, <3>1
    <3>3. QED
      BY <1>2, <3>1, <3>2 DEF TypeInv, TypeNet
  <2>2. ASSUME NEW d \in Conn, link'[d] \in {"new", "open"}
        PROVE  pmObject'[peer'[d]] = d
    <3>1. d # c /\ link[d] \in {"new", "open"} /\ peer'[d] = peer[d]
      BY <1>2, <2>2 DEF TypeInv, TypeNet
    <3>2. pmObject[peer[d]] = d /\ peer[d] \in Proxy
      BY <3>1 DEF LinkInv, ObjInv, PeerInv
    <3>3. peer[d] # p
      BY <1>1, <3>1, <3>2
    <3>4. QED
      BY <1>2, <3>1, <3>2, <3>3 DEF TypeInv, TypeProxy
  <2>3. QED
    BY <2>1, <2>2 DEF ObjInv
<1>6. AddrInv' /\ UniqueAddr'
  BY <1>2 DEF LinkInv, AddrInv, UniqueAddr, Known, Items, ItemInv, TypeInv, TypeNet
<1>7. JoinInv'
  BY <1>2 DEF LinkInv, JoinInv, Items, TypeInv, TypeNet
<1>8. link' \in [Conn -> {"free", "new", "open", "broken", "leaked"}]
  BY <1>2 DEF TypeInv, TypeNet
<1>9. QED
  BY <1>3, <1>4, <1>5, <1>6, <1>7, <1>8 DEF LinkInv

LEMMA TypeOutside ==
  ASSUME TypeInv, LinkInv, Outside
  PROVE  TypeInv'
<1> USE DEF TypeInv, pmVars, ilmVars, netVars, proxyVars
<1>1. CASE QueryProxies
  <2>1. <<Query>> \in Seq(ToProxyMsg) /\ <<>> \in Seq(ToProxyMsg)
    BY MessageTypes
  <2>2. toProxy' \in [Conn -> Seq(ToProxyMsg)]
    <3> DEFINE Q(c) == c \in {d \in Items : proxies[d].valid} /\ link[c] = "open"
    <3>1. toProxy' = [c \in Conn |-> IF Q(c) THEN <<Query>> ELSE <<>>]
      BY <1>1 DEF QueryProxies
    <3> HIDE DEF Q
    <3>2. QED
      BY <2>1, <3>1
  <2>3. QED
    BY <1>1, <2>2 DEF QueryProxies, TypePm, TypeItems, Items, TypeIlm, TypeNet, TypeProxy
<1>2. CASE IlmLost
  BY <1>2 DEF IlmLost, TypePm, TypeItems, Items, TypeIlm, TypeNet, TypeProxy
<1>3. CASE PmRestart
  BY <1>3, StartAgainTypes DEF PmRestart
<1>4. ASSUME NEW s \in Server, IlmJoin(s) \/ IlmLeave(s)
      PROVE  TypeInv'
  <2>1. joined' \subseteq Server /\ IsFiniteSet(joined')
    BY <1>4, FS_AddElement, FS_RemoveElement DEF IlmJoin, IlmLeave, TypeIlm
  <2>2. fromILM' \in Seq(IlmMsg)
    BY <1>4, MessageTypes, AppendToSet DEF IlmJoin, IlmLeave, TypeIlm
  <2>3. QED
    BY <1>4, <2>1, <2>2
    DEF IlmJoin, IlmLeave, TypePm, TypeItems, Items, TypeIlm, TypeNet, TypeProxy
<1>5. ASSUME NEW s \in Server, NEW p \in Proxy, GameServerGone(p, s)
      PROVE  TypeInv'
  BY <1>5 DEF GameServerGone, TypePm, TypeItems, Items, TypeIlm, TypeNet, TypeProxy
<1>6. ASSUME NEW l \in Login, LoginConnect(l) \/ LoginGone(l)
      PROVE  TypeInv'
  BY <1>6 DEF LoginConnect, LoginGone, TypePm, TypeItems, Items, TypeIlm, TypeNet, TypeProxy
<1>7. ASSUME NEW l \in Login, NEW u \in User, NEW c \in Conn, AddClient(l, u, c)
      PROVE  TypeInv'
  <2>1. CreateSession(u) \in Nat /\ proxies[c].id \in Nat
    BY <1>7, SessionTypes, ItemFields DEF AddClient, Least, TypePm, TypeItems
  <2>2. Grant(u, CreateSession(u), l, proxies[c].id) \in ToProxyMsg
    BY <2>1, MessageTypes
  <2>3. toProxy' \in [Conn -> Seq(ToProxyMsg)]
    BY <1>7, <2>2, PutTypes DEF AddClient
  <2>4. session' \in Nat /\ DOMAIN sessionlist' \subseteq User
        /\ \A v \in DOMAIN sessionlist' : sessionlist'[v] \in Nat
    <3>1. \/ session' = session /\ sessionlist' = sessionlist
          \/ /\ session' = session + 1
             /\ sessionlist' = [v \in DOMAIN sessionlist \cup {u} |->
                                  IF v = u THEN session ELSE sessionlist[v]]
      BY <1>7 DEF AddClient
    <3>2. CASE session' = session /\ sessionlist' = sessionlist
      BY <3>2 DEF TypePm
    <3>3. CASE /\ session' = session + 1
               /\ sessionlist' = [v \in DOMAIN sessionlist \cup {u} |->
                                    IF v = u THEN session ELSE sessionlist[v]]
      BY <3>3 DEF TypePm
    <3>4. QED
      BY <3>1, <3>2, <3>3
  <2>5. TypePm'
    BY <1>7, <2>4 DEF AddClient, TypePm, TypeItems, Items
  <2>6. QED
    BY <1>7, <2>3, <2>5 DEF AddClient, TypeIlm, TypeNet, TypeProxy
<1>8. ASSUME NEW p \in Proxy, NEW t \in ticket, ClientConnects(p, t)
      PROVE  TypeInv'
  <2>1. authen' \in [Proxy -> Seq(Nat)]
    <3>1. CASE t.session \in ToSet(authen[p])
      <4>1. FirstOf(p, t.session) \in 1 .. Len(authen[p]) /\ authen[p] \in Seq(Nat)
        BY <3>1, FirstOfPlace DEF TypeProxy
      <4>2. FindAuthenInfo(p, t.session) \in Seq(Nat)
        BY <4>1, RemoveAtProperties DEF FindAuthenInfo
      <4>3. QED
        BY <1>8, <3>1, <4>2 DEF ClientConnects, TypeProxy
    <3>2. CASE t.session \notin ToSet(authen[p])
      BY <1>8, <3>2 DEF ClientConnects, TypeProxy
    <3>3. QED
      BY <3>1, <3>2
  <2>2. players' \in [Proxy -> Nat] /\ ticket' \subseteq Ticket
    <3>1. players' = [players EXCEPT ![p] = @ + 1] \/ players' = players
      BY <1>8 DEF ClientConnects
    <3>2. ticket' = ticket \ {t}
      BY <1>8 DEF ClientConnects
    <3>3. players \in [Proxy -> Nat] /\ ticket \subseteq Ticket
      BY DEF TypeProxy
    <3>4. players' \in [Proxy -> Nat]
      BY <3>1, <3>3
    <3>5. QED
      BY <3>2, <3>3, <3>4
  <2>3. QED
    BY <1>8, <2>1, <2>2 DEF ClientConnects, TypePm, TypeItems, Items, TypeIlm, TypeNet, TypeProxy
<1>9. ASSUME NEW p \in Proxy, ClientLeaves(p)
      PROVE  TypeInv'
  BY <1>9 DEF ClientLeaves, TypePm, TypeItems, Items, TypeIlm, TypeNet, TypeProxy
<1>10. ASSUME NEW p \in Proxy, ProxyCut(p) \/ ProxyRestart(p)
       PROVE  TypeInv'
  <2>1. Broken(p)
    BY <1>10 DEF ProxyCut, ProxyRestart
  <2>2. TypePm' /\ TypeIlm' /\ TypeNet' /\ pmObject' \in [Proxy -> Conn \cup {None}]
    BY <2>1, BrokenTypes, BrokenKeepsLinks DEF TypeNet
  <2>3. TypeProxy'
    <3>1. CASE ProxyCut(p)
      BY <2>2, <3>1 DEF ProxyCut, TypeProxy
    <3>2. CASE ProxyRestart(p)
      <4>1. ticket' \subseteq ticket
        BY <3>2 DEF ProxyRestart
      <4>2. /\ proxyID' \in [Proxy -> Nat] /\ authen' \in [Proxy -> Seq(Nat)]
            /\ gs' \in [Proxy -> SUBSET Server] /\ players' \in [Proxy -> Nat]
        BY <3>2 DEF ProxyRestart, TypeProxy
      <4>3. QED
        BY <2>2, <4>1, <4>2 DEF TypeProxy
    <3>3. QED
      BY <1>10, <3>1, <3>2
  <2>4. QED
    BY <2>2, <2>3
<1>11. QED
  BY <1>1, <1>2, <1>3, <1>4, <1>5, <1>6, <1>7, <1>8, <1>9, <1>10 DEF Outside

LEMMA TypeNext ==
  ASSUME TypeInv, LinkInv, Next
  PROVE  TypeInv'
BY TypeHandle, TypeHandleILM, TypeProxyStep, TypeOutside DEF Next

\* Every step is one of these.
LEMMA NextCases ==
  ASSUME TypeInv, LinkInv, Next
  PROVE  \/ Steady
         \/ StartAgain
         \/ \E c \in Conn : \/ AcceptProxy(c) \/ ProxyJoin(c) \/ ProxyJoinThrows(c) \/ ProxyGone(c)
                            \/ \E p \in Proxy : ProxyConnect(p, c)
         \/ \E p \in Proxy : ProxyCut(p) \/ ProxyRestart(p)
<1>1. ASSUME NEW c \in Conn, Handle(c)
      PROVE  Steady \/ StartAgain \/ AcceptProxy(c) \/ ProxyJoin(c) \/ ProxyJoinThrows(c) \/ ProxyGone(c)
  BY <1>1, HandleSteady DEF Handle, AnswerNobody
<1>2. HandleILM => Steady
  BY HandleILMSteady
<1>3. ASSUME NEW p \in Proxy, ProxyStep(p)
      PROVE  Steady \/ \E c \in Conn : ProxyConnect(p, c)
  BY <1>3, ProxyStepSteady DEF ProxyStep
<1>4. Outside => Steady \/ StartAgain \/ \E p \in Proxy : ProxyCut(p) \/ ProxyRestart(p)
  BY OutsideSteady DEF PmRestart
<1>5. QED
  BY <1>1, <1>2, <1>3, <1>4 DEF Next

LEMMA LinkNext ==
  ASSUME TypeInv, LinkInv, Next
  PROVE  LinkInv'
BY NextCases, SteadyKeepsLinks, StartAgainKeepsLinks, AcceptKeepsLinks, JoinKeepsLinks,
   JoinThrowsKeepsLinks, GoneKeepsLinks, ConnectKeepsLinks, BrokenKeepsLinks
DEF ProxyCut, ProxyRestart

LEMMA StutterKeepsLinks ==
  ASSUME TypeInv, LinkInv, UNCHANGED vars
  PROVE  TypeInv' /\ LinkInv'
<1> USE DEF vars, pmVars, ilmVars, netVars, proxyVars
<1>1. TypeInv'
  BY DEF TypeInv, TypePm, TypeItems, Items, TypeIlm, TypeNet, TypeProxy
<1>2. LinkInv'
  BY DEF LinkInv, ItemInv, PeerInv, ChanInv, ObjInv, AddrInv, JoinInv, UniqueAddr, Known,
         EndedInv, Items
<1>3. QED
  BY <1>1, <1>2

LEMMA LinksKept == Spec => [](TypeInv /\ LinkInv)
<1>1. TypeInv /\ LinkInv /\ [Next]_vars => TypeInv' /\ LinkInv'
  BY TypeNext, LinkNext, StutterKeepsLinks
<1>2. QED
  BY <1>1, LinkInit, PTL DEF Spec

\* Every variable keeps its type, for any number of proxies, connections,
\* servers, login servers and users and in every world of faults.
THEOREM ProxyManagerTypes == Spec => []TypeInv
BY LinksKept, PTL

-----------------------------------------------------------------------------
(* Ids                                                                      *)

\* Everything that ties an id to a proxy: the proxy has it, its item has it, or
\* a message on its connection carries it.
ClaimedToPM(c, id)    == \E m \in ToSet(toPM[c]) : m.type \in {"join", "granted"} /\ m.id = id

ClaimedToProxy(c, id) == \E m \in ToSet(toProxy[c]) : m.type \in {"joined", "grant"} /\ m.id = id

Claims(p, id) ==
  \/ proxyID[p] = id
  \/ \E c \in Conn : /\ peer[c] = p
                     /\ \/ c \in Items /\ proxies[c].id = id
                        \/ ClaimedToPM(c, id)
                        \/ ClaimedToProxy(c, id)

\* An id was given out, and to one proxy.
ClaimsInv ==
  IdsOnce => \A p \in Proxy, id \in Nat \ {0} :
    Claims(p, id) => id <= maxProxyID /\ \A q \in Proxy : Claims(q, id) => q = p

ClaimantsKept == \A p \in Proxy, id \in Nat \ {0} : Claims(p, id)' => Claims(p, id)

LEMMA KeptClaims ==
  ASSUME TypeInv, TypeInv', ClaimsInv, ClaimantsKept, world' = world, maxProxyID' >= maxProxyID
  PROVE  ClaimsInv'
<1>1. SUFFICES ASSUME IdsOnce, NEW p \in Proxy, NEW id \in Nat \ {0}, Claims(p, id)'
               PROVE  id <= maxProxyID' /\ \A q \in Proxy : Claims(q, id)' => q = p
  BY DEF ClaimsInv, IdsOnce
<1>2. Claims(p, id) /\ \A q \in Proxy : Claims(q, id)' => Claims(q, id)
  BY <1>1 DEF ClaimantsKept
<1>3. id <= maxProxyID /\ \A q \in Proxy : Claims(q, id) => q = p
  BY <1>1, <1>2 DEF ClaimsInv
<1>4. maxProxyID \in Nat /\ maxProxyID' \in Nat
  BY DEF TypeInv, TypePm
<1>5. QED
  BY <1>2, <1>3, <1>4

\* The claims after a step, by where they are
OwnId(p)     == proxyID'[p] # 0 => Claims(p, proxyID'[p])
ItemId(c)    == c \in Items' /\ proxies'[c].id # 0 => Claims(peer'[c], proxies'[c].id)
ToPMIds(c)   == \A m \in ToSet(toPM'[c]) :
                  m.type \in {"join", "granted"} /\ m.id # 0 => Claims(peer'[c], m.id)
ToProxyIds(c) == \A m \in ToSet(toProxy'[c]) :
                  m.type \in {"joined", "grant"} /\ m.id # 0 => Claims(peer'[c], m.id)

LEMMA ClaimPlaces ==
  ASSUME \A p \in Proxy : OwnId(p),
         \A c \in Conn : peer'[c] \in Proxy => ItemId(c) /\ ToPMIds(c) /\ ToProxyIds(c)
  PROVE  ClaimantsKept
BY DEF ClaimantsKept, Claims, ClaimedToPM, ClaimedToProxy, OwnId, ItemId, ToPMIds, ToProxyIds

LEMMA ClaimOf ==
  ASSUME NEW c \in Conn
  PROVE  /\ c \in Items => Claims(peer[c], proxies[c].id)
         /\ \A m \in ToSet(toPM[c]) : m.type \in {"join", "granted"} => Claims(peer[c], m.id)
         /\ \A m \in ToSet(toProxy[c]) : m.type \in {"joined", "grant"} => Claims(peer[c], m.id)
         /\ \A p \in Proxy : Claims(p, proxyID[p])
BY DEF Claims, ClaimedToPM, ClaimedToProxy

\* What a steady step leaves of the claims: only what it writes is new.
LEMMA SteadyClaims ==
  ASSUME TypeInv, Steady, \A p \in Proxy : OwnId(p),
         \A c \in Conn : \A m \in ToSet(toPM'[c]) \ ToSet(toPM[c]) :
            m.type \in {"join", "granted"} => Claims(peer[c], m.id),
         \A c \in Conn : \A m \in ToSet(toProxy'[c]) \ ToSet(toProxy[c]) :
            m.type \in {"joined", "grant"} => Claims(peer[c], m.id)
  PROVE  ClaimantsKept
<1>1. /\ peer' = peer /\ Items' = Items
      /\ \A c \in Items : proxies'[c].id = proxies[c].id
  BY DEF Steady, ConnectionsKept, ItemsKept
<1>2. ASSUME NEW c \in Conn
      PROVE  ItemId(c) /\ ToPMIds(c) /\ ToProxyIds(c)
  BY <1>1, ClaimOf DEF ItemId, ToPMIds, ToProxyIds
<1>3. QED
  BY <1>2, ClaimPlaces

LEMMA TailSet ==
  ASSUME NEW S, NEW q \in Seq(S), q # <<>>
  PROVE  ToSet(Tail(q)) \subseteq ToSet(q)
BY TailProperties

LEMMA ReceivedNews ==
  ASSUME TypeInv, NEW c \in Conn, NEW type, Receive(c, type), Received(c)
  PROVE  \A d \in Conn : ToSet(toPM'[d]) \subseteq ToSet(toPM[d])
<1>1. toPM[c] \in Seq(ToPMMsg) /\ toPM[c] # <<>>
  BY DEF TypeInv, TypeNet, Receive
<1>2. ToSet(Tail(toPM[c])) \subseteq ToSet(toPM[c])
  BY <1>1, TailSet
<1>3. QED
  BY <1>2 DEF Received, TypeInv, TypeNet

LEMMA HandleClaims ==
  ASSUME TypeInv, LinkInv, NEW c \in Conn,
         ProxyJoinComplete(c) \/ ProxyStatus(c) \/ OnAddServerReply(c) \/ OnGranted(c)
  PROVE  ClaimantsKept /\ maxProxyID' = maxProxyID
<1>1. \A d \in Conn : ToSet(toPM'[d]) \subseteq ToSet(toPM[d])
  BY ReceivedNews DEF ProxyJoinComplete, ProxyStatus, OnAddServerReply, Counted, OnGranted
<1>2. UNCHANGED <<toProxy, proxyID, maxProxyID>>
  BY DEF ProxyJoinComplete, ProxyStatus, OnAddServerReply, Counted, OnGranted, pmVars, proxyVars
<1>3. Steady
  BY HandleSteady
<1>4. \A p \in Proxy : OwnId(p)
  BY <1>2 DEF OwnId, Claims
<1>5. QED
  BY <1>1, <1>2, <1>3, <1>4, SteadyClaims

LEMMA HandleILMClaims ==
  ASSUME TypeInv, LinkInv, HandleILM
  PROVE  ClaimantsKept /\ maxProxyID' = maxProxyID
<1>1. UNCHANGED <<toPM, proxyID, maxProxyID>>
  BY DEF HandleILM, AddServerAlone, AddServerForward, RemoveServer, EndBatch, ConnectILM,
         pmVars, netVars, proxyVars
<1>2. Steady
  BY HandleILMSteady
<1>3. \A c \in Conn : \A m \in ToSet(toProxy'[c]) \ ToSet(toProxy[c]) : m.type = "add"
  <2>1. CASE AddServerForward
    <3>1. Head(fromILM) \in ToProxyMsg /\ Head(fromILM).type = "add"
      BY <2>1, IlmTypes, IlmFields DEF AddServerForward
    <3>2. ASSUME NEW c \in Conn
          PROVE  toProxy'[c] = toProxy[c] \/ toProxy'[c] = Append(toProxy[c], Head(fromILM))
      BY <2>1 DEF AddServerForward
    <3>3. \A c \in Conn : toProxy[c] \in Seq(ToProxyMsg)
      BY DEF TypeInv, TypeNet
    <3>4. ASSUME NEW c \in Conn
          PROVE  ToSet(toProxy'[c]) \subseteq ToSet(toProxy[c]) \cup {Head(fromILM)}
      <4>1. ToSet(Append(toProxy[c], Head(fromILM))) = ToSet(toProxy[c]) \cup {Head(fromILM)}
        BY <3>1, <3>3, AppendToSet
      <4>2. QED
        BY <3>2, <4>1
    <3>5. QED
      BY <3>1, <3>4
  <2>2. CASE ~ AddServerForward
    BY <2>2 DEF HandleILM, AddServerAlone, RemoveServer, EndBatch, ConnectILM, netVars
  <2>3. QED
    BY <2>1, <2>2
<1>4. \A p \in Proxy : OwnId(p)
  BY <1>1 DEF OwnId, Claims
<1>5. QED
  BY <1>1, <1>2, <1>3, <1>4, SteadyClaims

LEMMA ProxyStepClaims ==
  ASSUME TypeInv, LinkInv, NEW p \in Proxy, OnJoined(p) \/ OnAdd(p) \/ OnGrant(p) \/ OnQuery(p)
  PROVE  ClaimantsKept /\ maxProxyID' = maxProxyID
<1>1. PICK m \in ToPMMsg :
        /\ Tell(p, m)
        /\ \/ OnJoined(p) /\ Got(p, "joined") /\ m = Complete
           \/ OnAdd(p) /\ Got(p, "add") /\ m = Added(Message(p).server)
           \/ OnGrant(p) /\ Got(p, "grant") /\ m = Granted(Message(p))
           \/ OnQuery(p) /\ Got(p, "query") /\ m = Status(players[p])
  BY Answer
<1>2. PICK c \in Conn : c = pmObject[p]
  BY <1>1, HeardLink
<1>3. /\ peer[c] = p /\ toProxy[c] \in Seq(ToProxyMsg) /\ toProxy[c] # <<>>
      /\ Message(p) \in ToSet(toProxy[c]) /\ Message(p) \in ToProxyMsg
      /\ toProxy' = [toProxy EXCEPT ![c] = Tail(@)]
  <2>1. /\ peer[c] = p /\ toProxy[c] \in Seq(ToProxyMsg) /\ toProxy[c] # <<>>
        /\ Message(p) = toProxy[c][1] /\ 1 \in DOMAIN toProxy[c] /\ Message(p) \in ToProxyMsg
        /\ toProxy' = [toProxy EXCEPT ![c] = Tail(@)]
    BY <1>1, <1>2, HeardLink, GotTypes
  <2>2. QED
    BY <2>1 DEF ToSet
<1>4. \A d \in Conn : ToSet(toProxy'[d]) \subseteq ToSet(toProxy[d])
  <2>1. ToSet(Tail(toProxy[c])) \subseteq ToSet(toProxy[c])
    BY <1>3, TailSet
  <2>2. QED
    BY <1>3, <2>1 DEF TypeInv, TypeNet
<1>5. \A d \in Conn : toPM'[d] = toPM[d] \/ (d = c /\ ToSet(toPM'[d]) = ToSet(toPM[d]) \cup {m})
  <2>1. toPM' = [toPM EXCEPT ![c] = Append(@, m)]
    BY <1>1, <1>2 DEF Tell
  <2>2. ToSet(Append(toPM[c], m)) = ToSet(toPM[c]) \cup {m}
    BY AppendToSet DEF TypeInv, TypeNet
  <2>3. QED
    BY <2>1, <2>2 DEF TypeInv, TypeNet
<1>6. m.type \in {"join", "granted"} => Claims(p, m.id)
  <2>1. CASE Got(p, "grant") /\ m = Granted(Message(p))
    <3>1. Message(p).type = "grant" /\ m.id = Message(p).id
      <4>1. Message(p).type = "grant"
        BY <2>1, GotTypes
      <4>2. Granted(Message(p)).id = Message(p).id
        BY <1>3, <4>1, ToProxyFields
      <4>3. QED
        BY <2>1, <4>1, <4>2
    <3>2. QED
      BY <1>3, <3>1, ClaimOf
  <2>2. CASE ~ (Got(p, "grant") /\ m = Granted(Message(p)))
    BY <1>1, <2>2 DEF Complete, Added, Status
  <2>3. QED
    BY <2>1, <2>2
<1>7. \A q \in Proxy : OwnId(q)
  <2>1. SUFFICES ASSUME NEW q \in Proxy
                 PROVE  Claims(q, proxyID'[q])
    BY DEF OwnId
  <2>2. CASE proxyID'[q] = proxyID[q]
    BY <2>2, ClaimOf
  <2>3. CASE proxyID'[q] # proxyID[q]
    <3>1. OnJoined(p) /\ proxyID' = [proxyID EXCEPT ![p] = Message(p).id]
      BY <2>3 DEF OnJoined, OnAdd, OnGrant, OnQuery
    <3>2. q = p /\ proxyID'[q] = Message(p).id
      BY <2>3, <3>1 DEF TypeInv, TypeProxy
    <3>3. Message(p).type = "joined"
      BY <3>1, GotTypes DEF OnJoined
    <3>4. QED
      BY <1>3, <3>2, <3>3, ClaimOf
  <2>4. QED
    BY <2>2, <2>3
<1>8. Steady /\ maxProxyID' = maxProxyID
  BY ProxyStepSteady DEF OnJoined, OnAdd, OnGrant, OnQuery, pmVars
<1>9. QED
  BY <1>3, <1>4, <1>5, <1>6, <1>7, <1>8, SteadyClaims

LEMMA OutsideClaims ==
  ASSUME TypeInv, LinkInv, Outside, ~ PmRestart, \A p \in Proxy : ~ (ProxyCut(p) \/ ProxyRestart(p))
  PROVE  ClaimantsKept /\ maxProxyID' = maxProxyID
<1>1. Steady
  BY OutsideSteady
<1>2. UNCHANGED <<toPM, proxyID, maxProxyID>>
  BY DEF Outside, QueryProxies, IlmLost, IlmJoin, IlmLeave, GameServerGone, LoginConnect,
         LoginGone, AddClient, ClientConnects, ClientLeaves, pmVars, netVars, proxyVars
<1>3. \A c \in Conn : \A m \in ToSet(toProxy'[c]) \ ToSet(toProxy[c]) :
        m.type \in {"joined", "grant"} => Claims(peer[c], m.id)
  <2>1. CASE QueryProxies
    <3>1. ASSUME NEW c \in Conn
          PROVE  toProxy'[c] = <<Query>> \/ toProxy'[c] = <<>>
      BY <2>1 DEF QueryProxies
    <3>2. \A m \in ToSet(<<Query>>) : m.type = "query"
      BY DEF ToSet, Query
    <3>3. ToSet(<<>>) = {}
      BY DEF ToSet
    <3>4. QED
      BY <3>1, <3>2, <3>3
  <2>2. ASSUME NEW l \in Login, NEW u \in User, NEW c \in Conn, AddClient(l, u, c)
        PROVE  \A d \in Conn : \A m \in ToSet(toProxy'[d]) \ ToSet(toProxy[d]) :
                 m.type \in {"joined", "grant"} => Claims(peer[d], m.id)
    <3> DEFINE g == Grant(u, CreateSession(u), l, proxies[c].id)
    <3>1. c \in Items /\ g \in ToProxyMsg /\ g.id = proxies[c].id /\ toProxy' = Put(toProxy, c, g)
      <4>1. CreateSession(u) \in Nat /\ proxies[c].id \in Nat /\ c \in Items
        BY <2>2, SessionTypes, ItemFields DEF AddClient, Least, TypeInv, TypePm, TypeItems
      <4>2. QED
        BY <2>2, <4>1, MessageTypes DEF AddClient, Grant
    <3> HIDE DEF g
    <3>2. \A d \in Conn : toProxy'[d] = toProxy[d] \/ (d = c /\ toProxy'[d] = Append(toProxy[c], g))
      BY <3>1 DEF Put, TypeInv, TypeNet
    <3>3. ToSet(Append(toProxy[c], g)) = ToSet(toProxy[c]) \cup {g}
      BY <3>1, AppendToSet DEF TypeInv, TypeNet
    <3>4. Claims(peer[c], g.id)
      BY <3>1, ClaimOf
    <3>5. ASSUME NEW d \in Conn
          PROVE  \/ ToSet(toProxy'[d]) = ToSet(toProxy[d])
                 \/ d = c /\ ToSet(toProxy'[d]) = ToSet(toProxy[d]) \cup {g}
      BY <3>2, <3>3
    <3>6. QED
      BY <3>4, <3>5
  <2>3. CASE toProxy' = toProxy
    BY <2>3
  <2>4. \/ QueryProxies \/ toProxy' = toProxy
        \/ \E l \in Login, u \in User, c \in Conn : AddClient(l, u, c)
    BY DEF Outside, IlmLost, IlmJoin, IlmLeave, GameServerGone, LoginConnect,
           LoginGone, ClientConnects, ClientLeaves, netVars
  <2>5. QED
    BY <2>1, <2>2, <2>3, <2>4
<1>4. \A p \in Proxy : OwnId(p)
  BY <1>2 DEF OwnId, Claims
<1>5. QED
  BY <1>1, <1>2, <1>3, <1>4, SteadyClaims

\* A connection that is closed takes its claims along; the others keep theirs.
LEMMA ClosedClaims ==
  ASSUME TypeInv, NEW c \in Conn,
         \A p \in Proxy : proxyID'[p] \in {0, proxyID[p]},
         Items' \subseteq Items, \A d \in Items' : proxies'[d] = proxies[d],
         \A d \in Conn : peer'[d] \in Proxy => peer'[d] = peer[d],
         \A d \in Conn : /\ ToSet(toPM'[d]) \subseteq ToSet(toPM[d])
                         /\ ToSet(toProxy'[d]) \subseteq ToSet(toProxy[d])
  PROVE  ClaimantsKept
<1>1. \A p \in Proxy : OwnId(p)
  BY ClaimOf DEF OwnId
<1>2. ASSUME NEW d \in Conn, peer'[d] \in Proxy
      PROVE  ItemId(d) /\ ToPMIds(d) /\ ToProxyIds(d)
  BY <1>2, ClaimOf DEF ItemId, ToPMIds, ToProxyIds
<1>3. QED
  BY <1>1, <1>2, ClaimPlaces

LEMMA EmptySet == ToSet(<<>>) = {}
BY DEF ToSet

LEMMA LossClaims ==
  ASSUME TypeInv, LinkInv
  PROVE  /\ \A c \in Conn : ProxyGone(c) \/ ProxyJoinThrows(c) =>
              ClaimantsKept /\ maxProxyID' >= maxProxyID
         /\ \A p \in Proxy : ProxyCut(p) \/ ProxyRestart(p) =>
              ClaimantsKept /\ maxProxyID' = maxProxyID
<1>1. ASSUME NEW c \in Conn, ProxyGone(c)
      PROVE  ClaimantsKept /\ maxProxyID' = maxProxyID
  <2>1. /\ proxyID' = proxyID /\ maxProxyID' = maxProxyID /\ toProxy' = toProxy
        /\ Items' \subseteq Items /\ \A d \in Items' : proxies'[d] = proxies[d]
        /\ \A d \in Conn : peer'[d] \in Proxy => peer'[d] = peer[d]
        /\ \A d \in Conn : toPM'[d] = toPM[d] \/ toPM'[d] = <<>>
    BY <1>1, NobodyIsNone DEF ProxyGone, Items, proxyVars, TypeInv, TypeNet
  <2>2. \A d \in Conn : ToSet(toPM'[d]) \subseteq ToSet(toPM[d])
    BY <2>1, EmptySet
  <2>3. QED
    BY <2>1, <2>2, ClosedClaims
<1>2. ASSUME NEW c \in Conn, ProxyJoinThrows(c)
      PROVE  ClaimantsKept /\ maxProxyID' >= maxProxyID
  <2>1. /\ proxyID' = proxyID /\ maxProxyID' \in {maxProxyID, AllocProxyID}
        /\ Items' \subseteq Items /\ \A d \in Items' : proxies'[d] = proxies[d]
        /\ \A d \in Conn : peer'[d] \in Proxy => peer'[d] = peer[d]
        /\ \A d \in Conn : toPM'[d] = toPM[d] \/ toPM'[d] = <<>>
        /\ \A d \in Conn : toProxy'[d] = toProxy[d] \/ toProxy'[d] = <<>>
    BY <1>2, NobodyIsNone DEF ProxyJoinThrows, Items, TypeInv, TypeNet
  <2>2. \A d \in Conn : /\ ToSet(toPM'[d]) \subseteq ToSet(toPM[d])
                        /\ ToSet(toProxy'[d]) \subseteq ToSet(toProxy[d])
    BY <2>1, EmptySet
  <2>3. maxProxyID' >= maxProxyID
    BY <2>1 DEF AllocProxyID, TypeInv, TypePm
  <2>4. QED
    BY <2>1, <2>2, <2>3, ClosedClaims
<1>3. ASSUME NEW p \in Proxy, ProxyCut(p) \/ ProxyRestart(p)
      PROVE  ClaimantsKept /\ maxProxyID' = maxProxyID
  <2>1. Broken(p)
    BY <1>3 DEF ProxyCut, ProxyRestart
  <2>2. PICK c \in Conn : c = pmObject[p]
    BY <2>1, BrokenLink
  <2>3. /\ peer' = IF link[c] = "new" THEN [peer EXCEPT ![c] = None] ELSE peer
        /\ toProxy' = [toProxy EXCEPT ![c] = <<>>]
        /\ toPM' = IF link[c] = "new" THEN [toPM EXCEPT ![c] = <<>>] ELSE toPM
        /\ UNCHANGED <<proxies, maxProxyID>>
    BY <2>1, <2>2, BrokenLink DEF pmVars
  <2>4. /\ \A d \in Conn : peer'[d] \in Proxy => peer'[d] = peer[d]
        /\ \A d \in Conn : toPM'[d] = toPM[d] \/ toPM'[d] = <<>>
        /\ \A d \in Conn : toProxy'[d] = toProxy[d] \/ toProxy'[d] = <<>>
    BY <2>3, NobodyIsNone DEF TypeInv, TypeNet
  <2>5. \A d \in Conn : /\ ToSet(toPM'[d]) \subseteq ToSet(toPM[d])
                        /\ ToSet(toProxy'[d]) \subseteq ToSet(toProxy[d])
    BY <2>4, EmptySet
  <2>6. \A q \in Proxy : proxyID'[q] \in {0, proxyID[q]}
    BY <1>3 DEF ProxyCut, ProxyRestart, TypeInv, TypeProxy
  <2>7. QED
    BY <2>2, <2>3, <2>4, <2>5, <2>6, ClosedClaims DEF Items
<1>4. maxProxyID \in Nat
  BY DEF TypeInv, TypePm
<1>5. QED
  BY <1>1, <1>2, <1>3, <1>4

LEMMA AcceptClaims ==
  ASSUME TypeInv, LinkInv, NEW c \in Conn, AcceptProxy(c)
  PROVE  ClaimantsKept /\ maxProxyID' = maxProxyID
<1>1. /\ UNCHANGED <<peer, toPM, toProxy, proxyID, maxProxyID>>
      /\ Items' = Items \cup {c} /\ \A d \in Items' : proxies'[d] = proxies[d] \/ proxies'[d] = NewItem
      /\ \A d \in Items : d # c => proxies'[d] = proxies[d]
      /\ proxies'[c] = NewItem
  BY DEF AcceptProxy, Items, proxyVars
<1>2. ASSUME NEW d \in Conn
      PROVE  ItemId(d) /\ ToPMIds(d) /\ ToProxyIds(d)
  <2>1. ItemId(d)
    BY <1>1, ClaimOf, ItemFields DEF ItemId
  <2>2. QED
    BY <1>1, <2>1, ClaimOf DEF ToPMIds, ToProxyIds
<1>3. \A p \in Proxy : OwnId(p)
  BY <1>1, ClaimOf DEF OwnId
<1>4. QED
  BY <1>1, <1>2, <1>3, ClaimPlaces

LEMMA ConnectClaims ==
  ASSUME TypeInv, LinkInv, NEW p \in Proxy, NEW c \in Conn, ProxyConnect(p, c)
  PROVE  ClaimantsKept /\ maxProxyID' = maxProxyID
<1>1. /\ UNCHANGED <<proxies, toProxy, proxyID, maxProxyID>> /\ link[c] = "free"
      /\ peer' = [peer EXCEPT ![c] = p] /\ toPM' = [toPM EXCEPT ![c] = <<Join(proxyID[p])>>]
  BY DEF ProxyConnect, pmVars
<1>2. c \notin Items /\ toProxy[c] = <<>>
  BY <1>1 DEF LinkInv, ItemInv, ChanInv
<1>3. ASSUME NEW d \in Conn, d # c
      PROVE  ItemId(d) /\ ToPMIds(d) /\ ToProxyIds(d)
  <2>1. peer'[d] = peer[d] /\ toPM'[d] = toPM[d]
    BY <1>1, <1>3 DEF TypeInv, TypeNet
  <2>2. QED
    BY <1>1, <2>1, ClaimOf DEF ItemId, ToPMIds, ToProxyIds, Items
<1>4. ItemId(c) /\ ToPMIds(c) /\ ToProxyIds(c)
  <2>1. toPM'[c] = <<Join(proxyID[p])>> /\ peer'[c] = p
    BY <1>1 DEF TypeInv, TypeNet
  <2>2. \A m \in ToSet(<<Join(proxyID[p])>>) : m.id = proxyID[p]
    BY DEF ToSet, Join
  <2>3. ToPMIds(c)
    BY <2>1, <2>2, ClaimOf DEF ToPMIds
  <2>4. QED
    BY <1>1, <1>2, <2>3, EmptySet DEF ItemId, ToProxyIds, Items
<1>5. \A q \in Proxy : OwnId(q)
  BY <1>1, ClaimOf DEF OwnId
<1>6. QED
  BY <1>1, <1>3, <1>4, <1>5, ClaimPlaces

\* proxyJoin gives the proxy the next id, or leaves it the one it claims.
LEMMA JoinClaims ==
  ASSUME TypeInv, TypeInv', LinkInv, ClaimsInv, NEW c \in Conn, ProxyJoin(c)
  PROVE  ClaimsInv'
<1> DEFINE known == SameProxy(peer[c])
           id == JoinId(c)
           p == peer[c]
<1>1. Receive(c, "join")
  BY DEF ProxyJoin
<1>2. /\ c \in Items /\ p \in Proxy /\ known \subseteq Items \ {c} /\ id \in Nat
  BY <1>1, JoinAtHead, JoinTypes
<1>3. /\ Items' = Items \ known
      /\ \A d \in Items \ known :
           proxies'[d] = IF d = c /\ id # 0 THEN [proxies[d] EXCEPT !.addr = p, !.id = id]
                         ELSE proxies[d]
      /\ toPM' = [d \in Conn |-> IF d = c THEN Tail(toPM[c])
                                 ELSE IF d \in known THEN <<>> ELSE toPM[d]]
      /\ UNCHANGED <<peer, proxyID, world>>
      /\ maxProxyID' = IF known = {} THEN maxProxyID + 1 ELSE maxProxyID
  BY DEF ProxyJoin, Items, ilmVars, proxyVars, AllocProxyID
<1>4. maxProxyID \in Nat
  BY DEF TypeInv, TypePm
\* the id is new, or the proxy has it already
<1>5. \/ known = {} /\ id = maxProxyID + 1
      \/ known # {} /\ Claims(p, id)
  <2>1. known = {} => id = maxProxyID + 1
    BY DEF JoinId, AllocProxyID
  <2>2. CASE known # {}
    <3>1. id = Head(toPM[c]).id /\ Head(toPM[c]) \in ToSet(toPM[c]) /\ Head(toPM[c]).type = "join"
      <4>1. id = Head(toPM[c]).id
        BY <2>2 DEF JoinId
      <4>2. Head(toPM[c]) = toPM[c][1] /\ 1 \in DOMAIN toPM[c] /\ Head(toPM[c]).type = "join"
        BY <1>1, ReceiveTypes
      <4>3. QED
        BY <4>1, <4>2 DEF ToSet
    <3> HIDE DEF id
    <3>2. QED
      BY <2>2, <3>1, ClaimOf
  <2>3. QED
    BY <2>1, <2>2
<1>6. \A d \in Conn : ToSet(toPM'[d]) \subseteq ToSet(toPM[d])
  <2>1. ToSet(Tail(toPM[c])) \subseteq ToSet(toPM[c])
    BY TailSet DEF Receive, ProxyJoin, TypeInv, TypeNet
  <2>2. QED
    BY <1>3, <2>1, EmptySet
<1>7. \A d \in Conn : \A m \in ToSet(toProxy'[d]) \ ToSet(toProxy[d]) : d = c /\ m.id = id
  <2> DEFINE j == Joined(id # 0, id, IF id = 0 THEN <<>> ELSE servers)
  <2>1. toProxy' = Put(toProxy, c, j) \/ toProxy' = toProxy
    BY DEF ProxyJoin
  <2>2. j \in ToProxyMsg /\ j.id = id
    <3>1. (IF id = 0 THEN <<>> ELSE servers) \in Seq(Server)
      BY DEF TypeInv, TypePm
    <3>2. j \in ToProxyMsg
      BY <1>2, <3>1, MessageTypes
    <3>3. QED
      BY <3>2 DEF Joined
  <2> HIDE DEF j
  <2>3. \A d \in Conn : toProxy'[d] = toProxy[d] \/ (d = c /\ toProxy'[d] = Append(toProxy[c], j))
    BY <2>1 DEF Put, TypeInv, TypeNet
  <2>4. ToSet(Append(toProxy[c], j)) = ToSet(toProxy[c]) \cup {j}
    BY <2>2, AppendToSet DEF TypeInv, TypeNet
  <2>5. QED
    BY <2>2, <2>3, <2>4
<1>8. /\ \A d \in Items' : d # c => d \in Items /\ proxies'[d] = proxies[d]
      /\ c \in Items' => proxies'[c].id \in {id, proxies[c].id}
  <2>1. proxies[c] \in Item
    BY <1>2 DEF TypeInv, TypePm, TypeItems
  <2>2. [proxies[c] EXCEPT !.addr = p, !.id = id].id = id
    BY <2>1 DEF Item
  <2>3. QED
    BY <1>3, <2>2
<1> HIDE DEF id, p, known
\* every claim is an old one or the proxy's claim to this id
<1>9. ASSUME NEW q \in Proxy, NEW n \in Nat \ {0}, Claims(q, n)'
      PROVE  Claims(q, n) \/ (q = p /\ n = id)
  <2>1. CASE proxyID'[q] = n
    BY <1>3, <2>1 DEF Claims
  <2>2. ASSUME NEW d \in Conn, peer'[d] = q,
               \/ d \in Items' /\ proxies'[d].id = n
               \/ ClaimedToPM(d, n)'
               \/ ClaimedToProxy(d, n)'
        PROVE  Claims(q, n) \/ (q = p /\ n = id)
    <3>1. peer[d] = q
      BY <1>3, <2>2
    <3>2. CASE d \in Items' /\ proxies'[d].id = n
      BY <1>2, <1>8, <3>1, <3>2, ClaimOf DEF p
    <3>3. CASE ClaimedToPM(d, n)'
      BY <1>6, <3>1, <3>3, ClaimOf DEF ClaimedToPM
    <3>4. CASE ClaimedToProxy(d, n)'
      BY <1>7, <3>1, <3>4, ClaimOf DEF ClaimedToProxy, p
    <3>5. QED
      BY <2>2, <3>2, <3>3, <3>4
  <2>3. QED
    BY <1>9, <2>1, <2>2 DEF Claims
<1>10. SUFFICES ASSUME IdsOnce, NEW q \in Proxy, NEW n \in Nat \ {0}, Claims(q, n)'
                PROVE  n <= maxProxyID' /\ \A o \in Proxy : Claims(o, n)' => o = q
  BY <1>3 DEF ClaimsInv, IdsOnce
<1>11. /\ maxProxyID' \in Nat /\ maxProxyID' >= maxProxyID
       /\ known = {} => maxProxyID' = maxProxyID + 1
  <2>1. maxProxyID' = IF known = {} THEN maxProxyID + 1 ELSE maxProxyID
    BY <1>3
  <2>2. QED
    BY <1>4, <2>1
<1>12. CASE n = id
  <2>1. CASE known = {} /\ id = maxProxyID + 1
    <3>1. \A o \in Proxy : ~ Claims(o, n)
      BY <1>4, <1>10, <1>12, <2>1 DEF ClaimsInv
    <3>2. \A o \in Proxy : Claims(o, n)' => o = p
      BY <1>9, <1>10, <3>1
    <3>3. q = p
      BY <1>10, <3>2
    <3>4. n <= maxProxyID'
      BY <1>4, <1>12, <1>11, <2>1
    <3>5. QED
      BY <3>2, <3>3, <3>4
  <2>2. CASE known # {} /\ Claims(p, id)
    <3>1. n <= maxProxyID /\ \A o \in Proxy : Claims(o, n) => o = p
      BY <1>2, <1>10, <1>12, <2>2 DEF ClaimsInv
    <3>2. \A o \in Proxy : Claims(o, n)' => o = p
      BY <1>9, <1>10, <3>1
    <3>3. q = p
      BY <1>10, <3>2
    <3>4. n <= maxProxyID'
      BY <1>4, <1>11, <3>1
    <3>5. QED
      BY <3>2, <3>3, <3>4
  <2>3. QED
    BY <1>5, <2>1, <2>2
<1>13. CASE n # id
  <2>1. \A o \in Proxy : Claims(o, n)' => Claims(o, n)
    BY <1>9, <1>10, <1>13
  <2>2. n <= maxProxyID /\ \A o \in Proxy : Claims(o, n) => o = q
    BY <1>10, <2>1 DEF ClaimsInv
  <2>3. n <= maxProxyID'
    BY <1>4, <1>11, <2>2
  <2>4. QED
    BY <2>1, <2>2, <2>3
<1>14. QED
  BY <1>12, <1>13

\* Without the loss of the ILM and restarts the proxy manager starts once.
LEMMA StartsOnce ==
  ASSUME LinkInv, IdsOnce
  PROVE  ~ PmRestart /\ \A c \in Conn : ~ AnswerNobody(c)
BY DEF PmRestart, AnswerNobody, LinkInv, EndedInv, IdsOnce

LEMMA ClaimsNext ==
  ASSUME TypeInv, LinkInv, TypeInv', ClaimsInv, Next
  PROVE  ClaimsInv'
<1>1. world' = world
  BY SameWorld
<1>2. SUFFICES ASSUME IdsOnce
               PROVE  ClaimsInv'
  BY <1>1 DEF ClaimsInv, IdsOnce
<1>3. ~ PmRestart /\ \A c \in Conn : ~ AnswerNobody(c)
  BY <1>2, StartsOnce
<1>4. maxProxyID \in Nat
  BY DEF TypeInv, TypePm
<1>5. ASSUME NEW c \in Conn, Handle(c)
      PROVE  ClaimsInv' \/ (ClaimantsKept /\ maxProxyID' >= maxProxyID)
  BY <1>3, <1>4, <1>5, HandleClaims, LossClaims, AcceptClaims, JoinClaims DEF Handle
<1>6. HandleILM => ClaimantsKept /\ maxProxyID' >= maxProxyID
  BY <1>4, HandleILMClaims
<1>7. ASSUME NEW p \in Proxy, ProxyStep(p)
      PROVE  ClaimantsKept /\ maxProxyID' >= maxProxyID
  BY <1>4, <1>7, ProxyStepClaims, ConnectClaims DEF ProxyStep
<1>8. Outside => ClaimantsKept /\ maxProxyID' >= maxProxyID
  BY <1>3, <1>4, OutsideClaims, LossClaims
<1>9. QED
  BY <1>1, <1>5, <1>6, <1>7, <1>8, KeptClaims DEF Next

LEMMA ClaimsInit == Init => ClaimsInv
<1> SUFFICES ASSUME Init
             PROVE  ClaimsInv
  OBVIOUS
<1>1. /\ \A p \in Proxy : proxyID[p] = 0
      /\ \A c \in Conn : peer[c] = None
  BY DEF Init
<1>2. QED
  BY <1>1, NobodyIsNone DEF ClaimsInv, Claims

LEMMA ClaimsKept == Spec => [](TypeInv /\ LinkInv /\ ClaimsInv)
<1>1. TypeInv /\ LinkInv /\ TypeInv' /\ LinkInv' /\ ClaimsInv /\ [Next]_vars => ClaimsInv'
  <2>1. UNCHANGED vars /\ ClaimsInv => ClaimsInv'
    BY DEF vars, pmVars, ilmVars, netVars, proxyVars, ClaimsInv, IdsOnce, Claims,
           ClaimedToPM, ClaimedToProxy, Items
  <2>2. QED
    BY <2>1, ClaimsNext
<1>2. QED
  BY <1>1, LinksKept, ClaimsInit, PTL DEF Spec

LEMMA ClaimsNameOne ==
  ASSUME TypeInv, LinkInv, ClaimsInv
  PROVE  OneItemPerProxy
<1>1. SUFFICES ASSUME NEW c \in Items, NEW d \in Items, Known(c), Known(d)
               PROVE  /\ proxies[c].addr = proxies[d].addr => c = d
                      /\ proxies[c].id = proxies[d].id /\ IdsOnce => c = d
  BY DEF OneItemPerProxy
<1>2. proxies[c].addr = proxies[d].addr => c = d
  BY <1>1 DEF LinkInv, UniqueAddr
<1>3. ASSUME proxies[c].id = proxies[d].id, IdsOnce
      PROVE  c = d
  <2>1. /\ c \in Conn /\ d \in Conn /\ proxies[c] \in Item
        /\ proxies[c].addr = peer[c] /\ proxies[d].addr = peer[d]
        /\ proxies[c].id # 0 /\ peer[c] \in Proxy /\ peer[d] \in Proxy
    BY <1>1 DEF LinkInv, AddrInv, ItemInv, PeerInv, Known, TypeInv, TypePm, TypeItems
  <2>2. proxies[c].id \in Nat \ {0}
    BY <2>1, ItemFields
  <2>3. Claims(peer[c], proxies[c].id) /\ Claims(peer[d], proxies[c].id)
    BY <1>1, <1>3, <2>1, ClaimOf
  <2>4. peer[c] = peer[d]
    BY <1>3, <2>1, <2>2, <2>3 DEF ClaimsInv
  <2>5. QED
    BY <1>2, <2>1, <2>4
<1>4. QED
  BY <1>2, <1>3

\* proxyJoin with alreadyHaveThisProxy and allocProxyID: whatever connections
\* are lost and however often proxies join again, no two items have the address
\* of one proxy and, while the proxy manager does not start again, no two have
\* one id.
THEOREM OneProxyOneItem == Spec => []OneItemPerProxy
BY ClaimsKept, ClaimsNameOne, PTL

-----------------------------------------------------------------------------
(* Servers                                                                  *)

\* Where no proxy is lost no connection is.
NoLoss == ProxiesStay => \A c \in Conn : link[c] \notin {"broken", "leaked"}

LEMMA NoSecondItem ==
  ASSUME TypeInv, LinkInv, NoLoss, ProxiesStay, NEW c \in Conn, Receive(c, "join")
  PROVE  SameProxy(peer[c]) = {}
<1>1. SUFFICES ASSUME NEW d \in SameProxy(peer[c])
               PROVE  FALSE
  OBVIOUS
<1>2. /\ c \in Items /\ d \in Items /\ d # c /\ proxies[d].addr = peer[c] /\ peer[c] \in Proxy
  BY <1>1, JoinAtHead DEF SameProxy
<1>3. peer[d] = peer[c]
  BY <1>2, NobodyIsNone DEF LinkInv, AddrInv
<1>4. c \in Conn /\ d \in Conn /\ link[c] = "open" /\ link[d] = "open"
  BY <1>2 DEF LinkInv, ItemInv, NoLoss
<1>5. QED
  BY <1>2, <1>3, <1>4 DEF LinkInv, ObjInv

LEMMA NoLossNext ==
  ASSUME TypeInv, LinkInv, NoLoss, Next
  PROVE  NoLoss'
<1>1. world' = world
  BY SameWorld
<1>2. SUFFICES ASSUME ProxiesStay
               PROVE  \A c \in Conn : link'[c] \notin {"broken", "leaked"}
  BY <1>1 DEF NoLoss, ProxiesStay
<1>3. \A c \in Conn : ~ ProxyJoinThrows(c) /\ ~ ProxyGone(c)
  BY <1>2 DEF ProxyJoinThrows, ProxyGone, ProxiesStay, NoLoss
<1>4. \A p \in Proxy : ~ ProxyCut(p) /\ ~ ProxyRestart(p)
  BY <1>2 DEF ProxyCut, ProxyRestart, ProxiesStay
<1>5. CASE Steady
  BY <1>2, <1>5 DEF Steady, ConnectionsKept, NoLoss
<1>6. CASE StartAgain
  BY <1>6 DEF StartAgain
<1>7. ASSUME NEW c \in Conn, AcceptProxy(c) \/ \E p \in Proxy : ProxyConnect(p, c)
      PROVE  \A d \in Conn : link'[d] \notin {"broken", "leaked"}
  BY <1>2, <1>7 DEF AcceptProxy, ProxyConnect, NoLoss, TypeInv, TypeNet
<1>8. ASSUME NEW c \in Conn, ProxyJoin(c)
      PROVE  \A d \in Conn : link'[d] \notin {"broken", "leaked"}
  BY <1>2, <1>8, NoSecondItem DEF ProxyJoin, NoLoss
<1>9. QED
  BY <1>3, <1>4, <1>5, <1>6, <1>7, <1>8, NextCases

\* What the ILM said of a server and is not handled yet
LastAdd(s) == \E i \in DOMAIN fromILM :
                /\ fromILM[i] = Add(s)
                /\ \A j \in DOMAIN fromILM : j > i => fromILM[j] # Leave(s)
NoLeave(s) == \A j \in DOMAIN fromILM : fromILM[j] # Leave(s)

\* The proxy manager has listed a server, or a proxy asked about it will answer.
Held(s) == \/ s \in ToSet(servers)
           \/ \E c \in Conn : Add(s) \in ToSet(toProxy[c]) \/ Added(s) \in ToSet(toPM[c])

Announced == ProxiesStay /\ ilm = "up" => \A s \in joined : LastAdd(s) \/ (NoLeave(s) /\ Held(s))

LEMMA OtherMessages ==
  ASSUME NEW s, NEW t
  PROVE  /\ Add(s).type = "add" /\ Added(s).type = "added" /\ Leave(s).type = "leave"
         /\ Add(s) # Leave(t)
         /\ Leave(s) = Leave(t) => s = t
         /\ Add(s) = Add(t) => s = t
         /\ Added(s) = Added(t) => s = t
<1>1. Add(s).type = "add" /\ Added(s).type = "added" /\ Leave(s).type = "leave" /\ Leave(t).type = "leave"
  BY DEF Add, Added, Leave
<1>2. /\ Leave(s).server = s /\ Leave(t).server = t /\ Add(s).server = s /\ Add(t).server = t
      /\ Added(s).server = s /\ Added(t).server = t
  BY DEF Add, Added, Leave
<1>3. QED
  BY <1>1, <1>2

HeldKept == \A s \in Server : Held(s) => Held(s)'

\* The messages about servers stay on their way.
AddsKept(c) == /\ \A m \in ToSet(toProxy[c]) : m.type = "add" => m \in ToSet(toProxy'[c])
               /\ \A m \in ToSet(toPM[c]) : m.type = "added" => m \in ToSet(toPM'[c])

LEMMA KeptOnTheWay ==
  ASSUME servers' = servers, \A c \in Conn : AddsKept(c)
  PROVE  HeldKept
<1>1. SUFFICES ASSUME NEW s \in Server, Held(s)
               PROVE  Held(s)'
  BY DEF HeldKept
<1>2. Add(s).type = "add" /\ Added(s).type = "added"
  BY OtherMessages
<1>3. CASE s \in ToSet(servers)
  BY <1>3 DEF Held
<1>4. ASSUME NEW c \in Conn, Add(s) \in ToSet(toProxy[c]) \/ Added(s) \in ToSet(toPM[c])
      PROVE  Held(s)'
  <2>1. Add(s) \in ToSet(toProxy'[c]) \/ Added(s) \in ToSet(toPM'[c])
    BY <1>2, <1>4 DEF AddsKept
  <2>2. QED
    BY <2>1 DEF Held
<1>5. QED
  BY <1>1, <1>3, <1>4 DEF Held

LEMMA KeptAnnounced ==
  ASSUME TypeInv, Announced, HeldKept, world' = world, joined' = joined, fromILM' = fromILM,
         ilm' = "up" => ilm = "up"
  PROVE  Announced'
<1>1. joined \subseteq Server
  BY DEF TypeInv, TypeIlm
<1>2. \A s : LastAdd(s)' = LastAdd(s) /\ NoLeave(s)' = NoLeave(s)
  BY DEF LastAdd, NoLeave
<1>3. QED
  BY <1>1, <1>2 DEF Announced, ProxiesStay, HeldKept

LEMMA ReceivedKeeps ==
  ASSUME TypeInv, NEW c \in Conn, NEW type, type # "added", Receive(c, type),
         toPM'[c] = Tail(toPM[c])
  PROVE  \A m \in ToSet(toPM[c]) : m.type = "added" => m \in ToSet(toPM'[c])
<1>1. toPM[c] \in Seq(ToPMMsg) /\ toPM[c] # <<>> /\ Head(toPM[c]).type = type
  BY DEF TypeInv, TypeNet, Receive
<1>2. ToSet(toPM[c]) = ToSet(Tail(toPM[c])) \cup {Head(toPM[c])}
  BY <1>1, TailProperties
<1>3. QED
  BY <1>1, <1>2

LEMMA HandleAnnounced ==
  ASSUME TypeInv, LinkInv, NoLoss, Announced, NEW c \in Conn, Handle(c)
  PROVE  Announced'
<1>1. SUFFICES ASSUME ProxiesStay
               PROVE  Announced'
  <2>1. world' = world
    BY SameWorld DEF Next
  <2>2. QED
    BY <2>1 DEF Announced, ProxiesStay
<1>2. CASE AcceptProxy(c)
  <2>1. UNCHANGED <<servers, toProxy, toPM, ilmVars>>
    BY <1>2 DEF AcceptProxy
  <2>2. HeldKept
    BY <2>1 DEF HeldKept, Held
  <2>3. QED
    BY <2>1, <2>2, KeptAnnounced DEF ilmVars
<1>3. CASE ProxyJoin(c)
  <2> DEFINE id == JoinId(c)
             j == Joined(id # 0, id, IF id = 0 THEN <<>> ELSE servers)
  <2>1. Receive(c, "join") /\ SameProxy(peer[c]) = {}
    BY <1>1, <1>3, NoSecondItem DEF ProxyJoin
  <2>2. toPM' = [d \in Conn |-> IF d = c THEN Tail(toPM[c]) ELSE toPM[d]]
    BY <1>3, <2>1 DEF ProxyJoin
  <2>3. toProxy' = Put(toProxy, c, j) \/ toProxy' = toProxy
    BY <1>3 DEF ProxyJoin
  <2>4. UNCHANGED <<servers, ilmVars>>
    BY <1>3 DEF ProxyJoin
  <2>5. j \in ToProxyMsg
    <3>1. id \in Nat /\ (IF id = 0 THEN <<>> ELSE servers) \in Seq(Server)
      BY <2>1, JoinTypes DEF TypeInv, TypePm
    <3>2. QED
      BY <3>1, MessageTypes
  <2> HIDE DEF j
  <2>6. ASSUME NEW d \in Conn
        PROVE  AddsKept(d)
    <3>1. toProxy'[d] = toProxy[d] \/ toProxy'[d] = Append(toProxy[d], j)
      BY <2>3 DEF Put, TypeInv, TypeNet
    <3>2. ToSet(Append(toProxy[d], j)) = ToSet(toProxy[d]) \cup {j}
      BY <2>5, AppendToSet DEF TypeInv, TypeNet
    <3>3. \A m \in ToSet(toPM[d]) : m.type = "added" => m \in ToSet(toPM'[d])
      BY <2>1, <2>2, ReceivedKeeps
    <3>4. QED
      BY <3>1, <3>2, <3>3 DEF AddsKept
  <2>7. QED
    BY <2>4, <2>6, KeptOnTheWay, KeptAnnounced DEF ilmVars
<1>4. CASE ProxyJoinComplete(c) \/ ProxyStatus(c) \/ OnGranted(c)
  <2>1. PICK type \in {"complete", "status", "granted"} : Receive(c, type)
    BY <1>4 DEF ProxyJoinComplete, ProxyStatus, OnGranted
  <2>2. Received(c) /\ UNCHANGED <<servers, ilmVars, toProxy>>
    BY <1>4 DEF ProxyJoinComplete, ProxyStatus, OnGranted, pmVars
  <2>3. ASSUME NEW d \in Conn
        PROVE  AddsKept(d)
    <3>1. toPM'[d] = IF d = c THEN Tail(toPM[c]) ELSE toPM[d]
      BY <2>2 DEF Received, TypeInv, TypeNet
    <3>2. QED
      BY <2>1, <2>2, <3>1, ReceivedKeeps DEF AddsKept
  <2>4. QED
    BY <2>2, <2>3, KeptOnTheWay, KeptAnnounced DEF ilmVars
<1>5. CASE OnAddServerReply(c)
  <2> DEFINE h == Head(toPM[c])
  <2>1. Receive(c, "added") /\ Received(c) /\ servers' = Append(servers, h.server)
        /\ UNCHANGED <<ilmVars, toProxy>>
    BY <1>5 DEF OnAddServerReply, Counted, Listed
  <2>2. h = Added(h.server) /\ h.server \in Server
    <3>1. h \in AddedMsg /\ h.server \in Server
      BY <2>1, ReceiveTypes, ToPMFields
    <3>2. QED
      BY <3>1 DEF AddedMsg, Added
  <2>3. ToSet(servers') = ToSet(servers) \cup {h.server}
    BY <2>1, <2>2, AppendToSet DEF TypeInv, TypePm
  <2>4. ToSet(toPM[c]) = ToSet(toPM'[c]) \cup {h}
    <3>1. toPM'[c] = Tail(toPM[c]) /\ toPM[c] \in Seq(ToPMMsg) /\ toPM[c] # <<>>
      BY <2>1 DEF Received, Receive, TypeInv, TypeNet
    <3>2. QED
      BY <3>1, TailProperties
  <2>5. \A d \in Conn : d # c => toPM'[d] = toPM[d]
    BY <2>1 DEF Received, TypeInv, TypeNet
  <2> HIDE DEF h
  <2>6. HeldKept
    <3>1. SUFFICES ASSUME NEW s \in Server, Held(s), s # h.server
                   PROVE  Held(s)'
      BY <2>3 DEF HeldKept, Held
    <3>2. Added(s) # h
      BY <2>2, <3>1, OtherMessages
    <3>3. CASE s \in ToSet(servers)
      BY <2>3, <3>3 DEF Held
    <3>4. ASSUME NEW d \in Conn, Add(s) \in ToSet(toProxy[d]) \/ Added(s) \in ToSet(toPM[d])
          PROVE  Held(s)'
      <4>1. Add(s) \in ToSet(toProxy'[d]) \/ Added(s) \in ToSet(toPM'[d])
        BY <2>1, <2>4, <2>5, <3>2, <3>4
      <4>2. QED
        BY <4>1 DEF Held
    <3>5. QED
      BY <3>1, <3>3, <3>4 DEF Held
  <2>7. QED
    BY <2>1, <2>6, KeptAnnounced DEF ilmVars
<1>6. CASE AnswerNobody(c)
  BY <1>6 DEF AnswerNobody, StartAgain, Announced
<1>7. ~ ProxyJoinThrows(c) /\ ~ ProxyGone(c)
  BY <1>1 DEF ProxyJoinThrows, ProxyGone, ProxiesStay, NoLoss
<1>8. QED
  BY <1>2, <1>3, <1>4, <1>5, <1>6, <1>7 DEF Handle

\* The next announcement is handled.
LEMMA NextAnnounced ==
  ASSUME TypeInv, NEW type, NextFromILM(type), NEW s \in Server
  PROVE  /\ LastAdd(s) => LastAdd(s)' \/ (Head(fromILM) = Add(s) /\ NoLeave(s)')
         /\ NoLeave(s) => NoLeave(s)' /\ Head(fromILM) # Leave(s)
<1>1. /\ fromILM \in Seq(IlmMsg) /\ fromILM # <<>> /\ fromILM' = Tail(fromILM)
      /\ Head(fromILM) = fromILM[1] /\ 1 \in DOMAIN fromILM
  BY IlmTypes DEF TypeInv, TypeIlm
<1>2. \A j \in DOMAIN fromILM' : j + 1 \in DOMAIN fromILM /\ fromILM'[j] = fromILM[j + 1] /\ j \in Nat \ {0}
  BY <1>1
<1>3. ASSUME LastAdd(s)
      PROVE  LastAdd(s)' \/ (Head(fromILM) = Add(s) /\ NoLeave(s)')
  <2>1. PICK i \in DOMAIN fromILM : /\ fromILM[i] = Add(s)
                                    /\ \A j \in DOMAIN fromILM : j > i => fromILM[j] # Leave(s)
    BY <1>3 DEF LastAdd
  <2>2. CASE i = 1
    <3>1. \A j \in DOMAIN fromILM' : fromILM'[j] # Leave(s)
      BY <1>2, <2>1, <2>2
    <3>2. QED
      BY <1>1, <2>1, <2>2, <3>1 DEF NoLeave
  <2>3. CASE i # 1
    <3>1. i - 1 \in DOMAIN fromILM' /\ fromILM'[i - 1] = fromILM[i] /\ i \in Nat
      BY <1>1, <2>3
    <3>2. \A j \in DOMAIN fromILM' : j > i - 1 => fromILM'[j] # Leave(s)
      BY <1>2, <2>1, <3>1
    <3>3. QED
      BY <2>1, <3>1, <3>2 DEF LastAdd
  <2>4. QED
    BY <2>2, <2>3
<1>4. NoLeave(s) => NoLeave(s)' /\ Head(fromILM) # Leave(s)
  BY <1>1, <1>2 DEF NoLeave
<1>5. QED
  BY <1>3, <1>4

LEMMA RemoveKeepsOthers ==
  ASSUME TypeInv, NEW s \in ToSet(servers), NEW t \in ToSet(servers), t # s
  PROVE  t \in ToSet(RemoveAt(servers, First(s)))
<1> DEFINE k == First(s)
           r == RemoveAt(servers, k)
<1>1. servers \in Seq(Server) /\ k \in 1 .. Len(servers) /\ servers[k] = s
  BY FirstInList DEF TypeInv, TypePm
<1>2. /\ r \in Seq(Server) /\ Len(r) = Len(servers) - 1
      /\ \A i \in 1 .. Len(servers) - 1 : r[i] = IF i < k THEN servers[i] ELSE servers[i + 1]
  BY <1>1, RemoveAtProperties
<1> HIDE DEF k, r
<1>3. PICK i \in 1 .. Len(servers) : servers[i] = t
  BY <1>1 DEF ToSet
<1>4. \E j \in DOMAIN r : r[j] = t
  <2>1. CASE i < k
    <3>1. i \in 1 .. Len(servers) - 1
      BY <1>1, <2>1
    <3>2. r[i] = t /\ i \in DOMAIN r
      BY <1>2, <1>3, <2>1, <3>1
    <3>3. QED
      BY <3>2
  <2>2. CASE i > k
    <3>1. i - 1 \in 1 .. Len(servers) - 1 /\ ~ (i - 1 < k) /\ (i - 1) + 1 = i
      BY <1>1, <2>2
    <3>2. r[i - 1] = t /\ i - 1 \in DOMAIN r
      BY <1>2, <1>3, <3>1
    <3>3. QED
      BY <3>2
  <2>3. QED
    BY <1>1, <1>3, <2>1, <2>2
<1>5. QED
  BY <1>4 DEF ToSet, r, k

LEMMA HandleILMAnnounced ==
  ASSUME TypeInv, LinkInv, NoLoss, Announced, HandleILM
  PROVE  Announced'
<1>1. world' = world /\ joined \subseteq Server
  BY SameWorld DEF Next, TypeInv, TypeIlm
<1>2. SUFFICES ASSUME ProxiesStay, ilm' = "up", NEW s \in Server, s \in joined'
               PROVE  LastAdd(s)' \/ (NoLeave(s)' /\ Held(s)')
  <2>1. joined' = joined
    BY DEF HandleILM, AddServerAlone, AddServerForward, RemoveServer, EndBatch, ConnectILM
  <2>2. QED
    BY <1>1, <2>1 DEF Announced, ProxiesStay
<1> DEFINE h == Head(fromILM)
<1>3. CASE AddServerAlone
  <2>1. /\ NextFromILM("add") /\ ilm = "up" /\ UNCHANGED <<joined, toProxy, toPM>>
        /\ servers' = Append(servers, h.server)
    BY <1>3 DEF AddServerAlone, NextFromILM, netVars, Listed
  <2>2. h.server \in Server /\ h = Add(h.server)
    BY <2>1, IlmTypes, IlmFields
  <2>3. ToSet(servers') = ToSet(servers) \cup {h.server}
    BY <2>1, <2>2, AppendToSet DEF TypeInv, TypePm
  <2>4. Held(s) => Held(s)'
    BY <2>1, <2>3 DEF Held
  <2>5. h = Add(s) => Held(s)'
    BY <2>2, <2>3, OtherMessages DEF Held
  <2>6. LastAdd(s) \/ (NoLeave(s) /\ Held(s))
    BY <1>2, <2>1 DEF Announced
  <2>7. QED
    BY <2>1, <2>4, <2>5, <2>6, NextAnnounced
<1>4. CASE AddServerForward
  <2>1. /\ NextFromILM("add") /\ ilm = "up" /\ UNCHANGED <<joined, servers, toPM>>
        /\ toProxy' = [c \in Conn |-> IF c \in Items /\ link[c] = "open"
                                      THEN Append(toProxy[c], h) ELSE toProxy[c]]
    BY <1>4 DEF AddServerForward, NextFromILM
  <2>2. h \in ToProxyMsg
    BY <2>1, IlmTypes, IlmFields
  <2>3. PICK c \in Items : c \in Conn /\ link[c] = "open"
    BY <1>2, <1>4 DEF AddServerForward, LinkInv, ItemInv, NoLoss
  <2>4. ASSUME NEW d \in Conn
        PROVE  /\ ToSet(toProxy[d]) \subseteq ToSet(toProxy'[d])
               /\ d = c => h \in ToSet(toProxy'[d])
    <3>1. ToSet(Append(toProxy[d], h)) = ToSet(toProxy[d]) \cup {h}
      BY <2>2, AppendToSet DEF TypeInv, TypeNet
    <3>2. toProxy'[d] = toProxy[d] \/ toProxy'[d] = Append(toProxy[d], h)
      BY <2>1
    <3>3. d = c => toProxy'[d] = Append(toProxy[d], h)
      BY <2>1, <2>3
    <3>4. QED
      BY <3>1, <3>2, <3>3
  <2>5. Held(s) => Held(s)'
    BY <2>1, <2>4 DEF Held
  <2>6. h = Add(s) => Held(s)'
    BY <2>3, <2>4 DEF Held
  <2>7. LastAdd(s) \/ (NoLeave(s) /\ Held(s))
    BY <1>2, <2>1 DEF Announced
  <2>8. QED
    BY <2>1, <2>5, <2>6, <2>7, NextAnnounced
<1>5. CASE RemoveServer
  <2>1. /\ NextFromILM("leave") /\ ilm = "up" /\ UNCHANGED <<joined, toProxy, toPM>>
        /\ servers' = IF h.server \in ToSet(servers) THEN RemoveAt(servers, First(h.server)) ELSE servers
    BY <1>5 DEF RemoveServer, NextFromILM, netVars
  <2>2. h.server \in Server /\ h = Leave(h.server)
    BY <2>1, IlmTypes, IlmFields
  <2>3. s # h.server /\ s \in ToSet(servers) => s \in ToSet(servers')
    BY <2>1, RemoveKeepsOthers
  <2>4. s # h.server /\ Held(s) => Held(s)'
    BY <2>1, <2>3 DEF Held
  <2>5. h # Add(s) /\ (h # Leave(s) => s # h.server)
    BY <2>2, OtherMessages
  <2>6. LastAdd(s) \/ (NoLeave(s) /\ Held(s))
    BY <1>2, <2>1 DEF Announced
  <2>7. QED
    BY <2>1, <2>4, <2>5, <2>6, NextAnnounced
<1>6. CASE EndBatch
  BY <1>2, <1>6 DEF EndBatch
<1>7. CASE ConnectILM
  <2> DEFINE n == Cardinality(joined)
  <2>1. /\ n \in Nat /\ \A i \in 1 .. n : SetToSeq(joined)[i] \in joined
        /\ \E i \in 1 .. n : SetToSeq(joined)[i] = s
    BY <1>2, <1>7, SetToSeqLists DEF ConnectILM, TypeInv, TypeIlm
  <2>2. fromILM' = [i \in 1 .. n |-> Add(SetToSeq(joined)[i])]
    BY <1>7 DEF ConnectILM
  <2> HIDE DEF n
  <2>3. PICK i \in 1 .. n : SetToSeq(joined)[i] = s
    BY <2>1
  <2>4. i \in DOMAIN fromILM' /\ fromILM'[i] = Add(s)
    BY <2>2, <2>3
  <2>5. \A j \in DOMAIN fromILM' : fromILM'[j] # Leave(s)
    <3>1. ASSUME NEW j \in DOMAIN fromILM'
          PROVE  fromILM'[j] # Leave(s)
      <4>1. fromILM'[j] = Add(SetToSeq(joined)[j])
        BY <2>2
      <4>2. QED
        BY <4>1, OtherMessages
    <3>2. QED
      BY <3>1
  <2>6. LastAdd(s)'
    BY <2>4, <2>5 DEF LastAdd
  <2>7. QED
    BY <2>6
<1>8. QED
  BY <1>3, <1>4, <1>5, <1>6, <1>7 DEF HandleILM

LEMMA ProxyStepAnnounced ==
  ASSUME TypeInv, LinkInv, Announced, NEW p \in Proxy, ProxyStep(p)
  PROVE  Announced'
<1>1. ASSUME NEW c \in Conn, ProxyConnect(p, c)
      PROVE  Announced'
  <2>1. /\ UNCHANGED <<servers, toProxy, ilmVars>> /\ link[c] = "free"
        /\ toPM' = [toPM EXCEPT ![c] = <<Join(proxyID[p])>>]
    BY <1>1 DEF ProxyConnect, pmVars
  <2>2. toPM[c] = <<>>
    BY <2>1 DEF LinkInv, ChanInv
  <2>3. \A d \in Conn : AddsKept(d)
    BY <2>1, <2>2, EmptySet DEF AddsKept, TypeInv, TypeNet
  <2>4. QED
    BY <2>1, <2>3, KeptOnTheWay, KeptAnnounced DEF ilmVars
<1>2. CASE OnJoined(p) \/ OnAdd(p) \/ OnGrant(p) \/ OnQuery(p)
  <2>1. PICK m \in ToPMMsg :
          /\ Tell(p, m)
          /\ \/ OnJoined(p) /\ Got(p, "joined") /\ m = Complete
             \/ OnAdd(p) /\ Got(p, "add") /\ m = Added(Message(p).server)
             \/ OnGrant(p) /\ Got(p, "grant") /\ m = Granted(Message(p))
             \/ OnQuery(p) /\ Got(p, "query") /\ m = Status(players[p])
    BY <1>2, Answer
  <2>2. PICK c \in Conn : c = pmObject[p]
    BY <2>1, HeardLink
  <2> DEFINE h == Message(p)
  <2>3. /\ toProxy[c] \in Seq(ToProxyMsg) /\ toProxy[c] # <<>> /\ h \in ToProxyMsg
        /\ h = Head(toProxy[c]) /\ toProxy' = [toProxy EXCEPT ![c] = Tail(@)]
        /\ h.type = "add" => m = Added(h.server) /\ h = Add(h.server) /\ h.server \in Server
    <3>1. /\ toProxy[c] \in Seq(ToProxyMsg) /\ toProxy[c] # <<>> /\ h \in ToProxyMsg
          /\ h = Head(toProxy[c]) /\ toProxy' = [toProxy EXCEPT ![c] = Tail(@)]
      BY <2>1, <2>2, GotTypes DEF Message
    <3>2. h.type = "add" => m = Added(h.server)
      BY <2>1, GotTypes
    <3>3. QED
      BY <3>1, <3>2, ToProxyFields
  <2>4. UNCHANGED <<servers, ilmVars>>
    BY <1>2 DEF OnJoined, OnAdd, OnGrant, OnQuery, pmVars
  <2>5. /\ ToSet(toProxy[c]) = ToSet(toProxy'[c]) \cup {h}
        /\ \A d \in Conn : d # c => toProxy'[d] = toProxy[d]
    <3>1. ToSet(toProxy[c]) = ToSet(Tail(toProxy[c])) \cup {h}
      BY <2>3, TailProperties
    <3>2. QED
      BY <2>3, <3>1 DEF TypeInv, TypeNet
  <2>6. /\ ToSet(toPM'[c]) = ToSet(toPM[c]) \cup {m}
        /\ \A d \in Conn : d # c => toPM'[d] = toPM[d]
    <3>1. toPM' = [toPM EXCEPT ![c] = Append(@, m)]
      BY <2>1, <2>2 DEF Tell
    <3>2. ToSet(Append(toPM[c], m)) = ToSet(toPM[c]) \cup {m}
      BY AppendToSet DEF TypeInv, TypeNet
    <3>3. QED
      BY <3>1, <3>2 DEF TypeInv, TypeNet
  <2> HIDE DEF h
  <2>7. HeldKept
    <3>1. SUFFICES ASSUME NEW s \in Server, Held(s)
                   PROVE  Held(s)'
      BY DEF HeldKept
    <3>2. Add(s) = h => Added(s) = m
      <4>1. SUFFICES ASSUME Add(s) = h
                     PROVE  Added(s) = m
        OBVIOUS
      <4>2. h.type = "add"
        BY <4>1, OtherMessages
      <4>3. h.server = s
        BY <4>1 DEF Add
      <4>4. QED
        BY <2>3, <4>2, <4>3
    <3>3. CASE s \in ToSet(servers)
      BY <2>4, <3>3 DEF Held
    <3>4. ASSUME NEW d \in Conn, Add(s) \in ToSet(toProxy[d]) \/ Added(s) \in ToSet(toPM[d])
          PROVE  Held(s)'
      <4>1. Add(s) \in ToSet(toProxy'[d]) \/ Added(s) \in ToSet(toPM'[d])
        BY <2>5, <2>6, <3>2, <3>4
      <4>2. QED
        BY <4>1 DEF Held
    <3>5. QED
      BY <3>1, <3>3, <3>4 DEF Held
  <2>8. QED
    BY <2>4, <2>7, KeptAnnounced DEF ilmVars
<1>3. QED
  BY <1>1, <1>2 DEF ProxyStep

LEMMA OutsideAnnounced ==
  ASSUME TypeInv, LinkInv, NoLoss, Announced, Outside
  PROVE  Announced'
<1>1. world' = world
  BY SameWorld DEF Next
<1>2. SUFFICES ASSUME ProxiesStay, ilm' = "up"
               PROVE  Announced'
  BY <1>1 DEF Announced, ProxiesStay
<1>3. CASE QueryProxies
  <2>1. UNCHANGED <<servers, ilmVars, toPM>> /\ \A c \in Conn : toProxy[c] = <<>> /\ toPM[c] = <<>>
    BY <1>3 DEF QueryProxies, pmVars
  <2>2. HeldKept
    BY <2>1, EmptySet DEF HeldKept, Held
  <2>3. QED
    BY <2>1, <2>2, KeptAnnounced DEF ilmVars
<1>4. ~ IlmLost /\ ~ PmRestart
  BY <1>2 DEF IlmLost, PmRestart, StartAgain
<1>5. ASSUME NEW s \in Server, IlmJoin(s) \/ IlmLeave(s)
      PROVE  Announced'
  <2>1. PICK m \in {Add(s), Leave(s)} :
          /\ fromILM' = Append(fromILM, m) /\ ilm = "up" /\ UNCHANGED <<servers, toProxy, toPM>>
          /\ \/ m = Add(s) /\ joined' = joined \cup {s}
             \/ m = Leave(s) /\ joined' = joined \ {s}
    BY <1>5 DEF IlmJoin, IlmLeave, pmVars, netVars
  <2>2. fromILM \in Seq(IlmMsg) /\ m \in IlmMsg /\ joined \subseteq Server
    BY <2>1, MessageTypes DEF TypeInv, TypeIlm
  <2>3. /\ \A i \in DOMAIN fromILM : i \in DOMAIN fromILM' /\ fromILM'[i] = fromILM[i]
        /\ \A i \in DOMAIN fromILM' : i \in DOMAIN fromILM \/ fromILM'[i] = m
        /\ Len(fromILM) + 1 \in DOMAIN fromILM' /\ fromILM'[Len(fromILM) + 1] = m
        /\ \A i \in DOMAIN fromILM' : ~ (i > Len(fromILM) + 1)
    BY <2>1, <2>2
  <2>4. SUFFICES ASSUME NEW t \in joined'
                 PROVE  LastAdd(t)' \/ (NoLeave(t)' /\ Held(t)')
    BY DEF Announced
  <2>5. CASE m = Add(t)
    BY <2>3, <2>5 DEF LastAdd
  <2>6. CASE m # Add(t)
    <3>1. t \in joined /\ m # Leave(t)
      BY <2>1, <2>4, <2>6, OtherMessages
    <3>2. LastAdd(t) => LastAdd(t)'
      <4>1. SUFFICES ASSUME LastAdd(t)
                     PROVE  LastAdd(t)'
        OBVIOUS
      <4>2. PICK i \in DOMAIN fromILM :
              /\ fromILM[i] = Add(t)
              /\ \A j \in DOMAIN fromILM : j > i => fromILM[j] # Leave(t)
        BY <4>1 DEF LastAdd
      <4>3. /\ i \in DOMAIN fromILM' /\ fromILM'[i] = Add(t)
            /\ \A j \in DOMAIN fromILM' : j > i => fromILM'[j] # Leave(t)
        BY <2>3, <3>1, <4>2
      <4>4. QED
        BY <4>3 DEF LastAdd
    <3>3. NoLeave(t) => NoLeave(t)'
      BY <2>3, <3>1 DEF NoLeave
    <3>4. Held(t) => Held(t)'
      BY <2>1 DEF Held
    <3>5. QED
      BY <1>2, <2>1, <3>1, <3>2, <3>3, <3>4 DEF Announced
  <2>7. QED
    BY <2>5, <2>6
<1>6. ASSUME NEW l \in Login, NEW u \in User, NEW c \in Conn, AddClient(l, u, c)
      PROVE  Announced'
  <2> DEFINE g == Grant(u, CreateSession(u), l, proxies[c].id)
  <2>1. /\ g \in ToProxyMsg /\ toProxy' = Put(toProxy, c, g)
        /\ UNCHANGED <<servers, ilmVars, toPM>>
    <3>1. CreateSession(u) \in Nat /\ proxies[c].id \in Nat
      BY <1>6, SessionTypes, ItemFields DEF AddClient, Least, TypeInv, TypePm, TypeItems
    <3>2. QED
      BY <1>6, <3>1, MessageTypes DEF AddClient
  <2> HIDE DEF g
  <2>2. ASSUME NEW d \in Conn
        PROVE  AddsKept(d)
    <3>1. ToSet(Append(toProxy[d], g)) = ToSet(toProxy[d]) \cup {g}
      BY <2>1, AppendToSet DEF TypeInv, TypeNet
    <3>2. toProxy'[d] = toProxy[d] \/ toProxy'[d] = Append(toProxy[d], g)
      BY <2>1 DEF Put, TypeInv, TypeNet
    <3>3. QED
      BY <2>1, <3>1, <3>2 DEF AddsKept
  <2>3. QED
    BY <2>1, <2>2, KeptOnTheWay, KeptAnnounced DEF ilmVars
<1>7. CASE UNCHANGED <<servers, toProxy, toPM, ilmVars>>
  <2>1. HeldKept
    BY <1>7 DEF HeldKept, Held
  <2>2. QED
    BY <1>7, <2>1, KeptAnnounced DEF ilmVars
<1>8. \A p \in Proxy : ~ ProxyCut(p) /\ ~ ProxyRestart(p)
  BY <1>2 DEF ProxyCut, ProxyRestart, ProxiesStay
<1>9. ASSUME \/ \E s \in Server, p \in Proxy : GameServerGone(p, s)
             \/ \E l \in Login : LoginConnect(l) \/ LoginGone(l)
             \/ \E p \in Proxy : (\E t \in ticket : ClientConnects(p, t)) \/ ClientLeaves(p)
      PROVE  UNCHANGED <<servers, toProxy, toPM, ilmVars>>
  BY <1>9 DEF GameServerGone, LoginConnect, LoginGone, ClientConnects, ClientLeaves,
     pmVars, netVars
<1>10. QED
  BY <1>3, <1>4, <1>5, <1>6, <1>7, <1>8, <1>9 DEF Outside

LEMMA AnnouncedKept == Spec => [](TypeInv /\ LinkInv /\ NoLoss /\ Announced)
<1>1. Init => NoLoss /\ Announced
  BY DEF Init, NoLoss, Announced
<1>2. TypeInv /\ LinkInv /\ NoLoss /\ Announced /\ [Next]_vars => NoLoss' /\ Announced'
  <2>1. TypeInv /\ LinkInv /\ NoLoss /\ Announced /\ Next => NoLoss' /\ Announced'
    BY NoLossNext, HandleAnnounced, HandleILMAnnounced, ProxyStepAnnounced, OutsideAnnounced
    DEF Next
  <2>2. UNCHANGED vars /\ NoLoss /\ Announced => NoLoss' /\ Announced'
    BY DEF vars, pmVars, ilmVars, netVars, proxyVars, NoLoss, Announced, ProxiesStay,
           LastAdd, NoLeave, Held
  <2>3. QED
    BY <2>1, <2>2
<1>3. QED
  BY <1>1, <1>2, LinksKept, PTL DEF Spec

LEMMA AnnouncedIsKnown ==
  ASSUME Announced
  PROVE  ServersKnown
<1>1. SUFFICES ASSUME ProxiesStay, Quiet, NEW s \in joined
               PROVE  s \in ToSet(servers)
  BY DEF ServersKnown
<1>2. /\ ilm = "up" /\ fromILM = <<>> /\ \A c \in Conn : toProxy[c] = <<>> /\ toPM[c] = <<>>
  BY <1>1 DEF Quiet
<1>3. ~ LastAdd(s)
  BY <1>2 DEF LastAdd
<1>4. Held(s)
  BY <1>1, <1>2, <1>3 DEF Announced
<1>5. QED
  BY <1>2, <1>4, EmptySet DEF Held

\* Every server that the ILM has is listed once nothing is on the way any more,
\* whether it was announced with proxies to ask or without (onAddServerMessage,
\* onAddServerMessageReply), whatever other servers left meanwhile (removeServer),
\* and after losses of the ILM and restarts of the proxy manager: no order of
\* these steps loses one while no proxy is lost.
THEOREM EveryServerKnown == Spec => []ServersKnown
BY AnnouncedKept, AnnouncedIsKnown, PTL

-----------------------------------------------------------------------------
(* Sessions                                                                 *)

\* The answers of a proxy for a session that have not arrived
OnWay(p, k) == {x \in Conn \X Nat : /\ peer[x[1]] = p /\ x[2] \in DOMAIN toPM[x[1]]
                                    /\ toPM[x[1]][x[2]].type = "granted"
                                    /\ toPM[x[1]][x[2]].session = k}

\* The tickets for a session at a proxy, and the entries the proxy holds for it
Tickets(p, k) == {t \in ticket : t.addr = p /\ t.session = k}
Kept(p, k)    == {i \in DOMAIN authen[p] : authen[p][i] = k}

Backed(p, k) == Cardinality(Tickets(p, k)) + Cardinality(OnWay(p, k)) <= Cardinality(Kept(p, k))

Sessions == IdsOnce /\ "restart" \notin world.faults

\* There are never more tickets and answers on the way to them than entries.
SessionInv ==
  /\ IsFiniteSet(ticket)
  /\ \A p \in Proxy, k \in Nat : IsFiniteSet(OnWay(p, k)) /\ (Sessions => Backed(p, k))

LEMMA KeptFinite ==
  ASSUME TypeInv, NEW p \in Proxy, NEW k
  PROVE  IsFiniteSet(Kept(p, k)) /\ Cardinality(Kept(p, k)) \in Nat
<1>1. authen[p] \in Seq(Nat) /\ DOMAIN authen[p] = 1 .. Len(authen[p]) /\ Len(authen[p]) \in Nat
  BY DEF TypeInv, TypeProxy
<1>2. IsFiniteSet(1 .. Len(authen[p]))
  BY <1>1, FS_Interval
<1>3. Kept(p, k) \subseteq 1 .. Len(authen[p])
  BY <1>1 DEF Kept
<1>4. QED
  BY <1>2, <1>3, FS_Subset, FS_CardinalityType

\* The message that a step takes off a connection
Taken(c) == toPM[c] # <<>> /\ toPM'[c] = Tail(toPM[c])

\* What a step may do to a connection without a new answer on the way
NoAnswer(c) ==
  \/ \A i \in DOMAIN toPM'[c] : toPM'[c][i].type # "granted"
  \/ /\ peer'[c] = peer[c]
     /\ \/ toPM'[c] = toPM[c] \/ Taken(c)
        \/ \E m \in ToPMMsg : m.type # "granted" /\ toPM'[c] = Append(toPM[c], m)

\* The answers on the way after such a step were there before, one place further
\* back where a message was taken.
LEMMA AnswersShift ==
  ASSUME TypeInv, NEW p \in Proxy, NEW k \in Nat, IsFiniteSet(OnWay(p, k)),
         \A c \in Conn : peer'[c] = p => NoAnswer(c)
  PROVE  LET rest == {x \in OnWay(p, k) : ~ (Taken(x[1]) /\ x[2] = 1)}
         IN  /\ IsFiniteSet(OnWay(p, k)') /\ IsFiniteSet(rest)
             /\ Cardinality(OnWay(p, k)') <= Cardinality(rest)
             /\ Cardinality(rest) <= Cardinality(OnWay(p, k))
<1> DEFINE rest == {x \in OnWay(p, k) : ~ (Taken(x[1]) /\ x[2] = 1)}
           new == OnWay(p, k)'
           at(x) == IF Taken(x[1]) THEN x[2] + 1 ELSE x[2]
           f == [x \in new |-> <<x[1], at(x)>>]
<1>1. ASSUME NEW x \in new
      PROVE  f[x] \in rest /\ x \in Conn \X Nat
  <2>1. PICK c \in Conn, i \in Nat : x = <<c, i>>
    BY DEF OnWay
  <2>2. /\ peer'[c] = p /\ i \in DOMAIN toPM'[c] /\ toPM'[c][i].type = "granted"
        /\ toPM'[c][i].session = k
    BY <2>1 DEF OnWay
  <2>3. toPM[c] \in Seq(ToPMMsg)
    BY DEF TypeInv, TypeNet
  <2>4. peer[c] = p
    BY <2>2 DEF NoAnswer
  <2>5. CASE Taken(c)
    <3>1. i + 1 \in DOMAIN toPM[c] /\ toPM[c][i + 1] = toPM'[c][i] /\ i \in Nat \ {0}
      BY <2>2, <2>3, <2>5 DEF Taken
    <3>2. f[x] = <<c, i + 1>>
      BY <2>1, <2>5
    <3>3. <<c, i + 1>> \in rest
      BY <2>2, <2>4, <3>1 DEF OnWay
    <3>4. QED
      BY <2>1, <3>2, <3>3
  <2>6. CASE ~ Taken(c)
    <3>1. f[x] = x
      BY <2>1, <2>6
    <3>2. i \in DOMAIN toPM[c] /\ toPM[c][i] = toPM'[c][i]
      <4>1. CASE toPM'[c] = toPM[c]
        BY <2>2, <4>1
      <4>2. ASSUME NEW m \in ToPMMsg, m.type # "granted", toPM'[c] = Append(toPM[c], m)
            PROVE  i \in DOMAIN toPM[c] /\ toPM[c][i] = toPM'[c][i]
        <5>1. i \in 1 .. Len(toPM[c]) + 1 /\ i # Len(toPM[c]) + 1
          BY <2>2, <2>3, <4>2
        <5>2. QED
          BY <2>3, <4>2, <5>1
      <4>3. QED
        BY <2>2, <2>6, <4>1, <4>2 DEF NoAnswer
    <3>3. x \in rest
      BY <2>1, <2>2, <2>4, <2>6, <3>2 DEF OnWay
    <3>4. QED
      BY <2>1, <3>1, <3>3
  <2>7. QED
    BY <2>5, <2>6
<1>2. ASSUME NEW x \in new, NEW y \in new, f[x] = f[y]
      PROVE  x = y
  <2>1. x \in Conn \X Nat /\ y \in Conn \X Nat
    BY <1>1
  <2>2. f[x] = <<x[1], at(x)>> /\ f[y] = <<y[1], at(y)>>
    OBVIOUS
  <2>3. x[1] = y[1] /\ at(x) = at(y)
    BY <1>2, <2>2
  <2>4. x[2] = y[2]
    BY <2>1, <2>3
  <2>5. QED
    BY <2>1, <2>3, <2>4
<1>3. f \in [new -> rest]
  BY <1>1
<1>4. IsFiniteSet(rest) /\ Cardinality(rest) <= Cardinality(OnWay(p, k))
  BY FS_Subset
<1> HIDE DEF f, rest, new
<1>5. f \in Injection(new, rest)
  BY <1>2, <1>3 DEF Injection, IsInjective
<1>6. QED
  BY <1>4, <1>5, FS_Injection DEF new, rest

\* A step without a new answer, ticket or entry keeps the tickets backed.
LEMMA QuietSessions ==
  ASSUME TypeInv, TypeInv', SessionInv, world' = world, authen' = authen, ticket' \subseteq ticket,
         \A c \in Conn : peer'[c] \in Proxy => NoAnswer(c)
  PROVE  SessionInv'
<1>1. IsFiniteSet(ticket')
  BY FS_Subset DEF SessionInv
<1>2. SUFFICES ASSUME NEW p \in Proxy, NEW k \in Nat
               PROVE  IsFiniteSet(OnWay(p, k)') /\ (Sessions => Backed(p, k)')
  BY <1>1 DEF SessionInv, Sessions, IdsOnce
<1>3. /\ IsFiniteSet(OnWay(p, k)) /\ IsFiniteSet(OnWay(p, k)')
      /\ Cardinality(OnWay(p, k)') <= Cardinality(OnWay(p, k))
      /\ Cardinality(OnWay(p, k)) \in Nat /\ Cardinality(OnWay(p, k)') \in Nat
  <2> DEFINE rest == {x \in OnWay(p, k) : ~ (Taken(x[1]) /\ x[2] = 1)}
  <2>1. /\ IsFiniteSet(OnWay(p, k)) /\ IsFiniteSet(OnWay(p, k)') /\ IsFiniteSet(rest)
        /\ Cardinality(OnWay(p, k)') <= Cardinality(rest)
        /\ Cardinality(rest) <= Cardinality(OnWay(p, k))
    BY AnswersShift DEF SessionInv
  <2> HIDE DEF rest
  <2>2. /\ Cardinality(OnWay(p, k)') \in Nat /\ Cardinality(rest) \in Nat
        /\ Cardinality(OnWay(p, k)) \in Nat
    BY <2>1, FS_CardinalityType
  <2>3. QED
    BY <2>1, <2>2
<1>4. /\ Cardinality(Tickets(p, k)') <= Cardinality(Tickets(p, k))
      /\ Cardinality(Tickets(p, k)') \in Nat /\ Cardinality(Tickets(p, k)) \in Nat
  <2>1. IsFiniteSet(Tickets(p, k))
    BY FS_Subset DEF SessionInv, Tickets
  <2>2. Tickets(p, k)' \subseteq Tickets(p, k)
    BY DEF Tickets
  <2>3. QED
    BY <2>1, <2>2, FS_Subset, FS_CardinalityType
<1>5. Kept(p, k)' = Kept(p, k) /\ Cardinality(Kept(p, k)) \in Nat
  BY KeptFinite DEF Kept
<1>6. ASSUME Sessions
      PROVE  Backed(p, k)'
  <2>1. Cardinality(Tickets(p, k)) + Cardinality(OnWay(p, k)) <= Cardinality(Kept(p, k))
    BY <1>6 DEF SessionInv, Backed
  <2>2. Cardinality(Tickets(p, k)') + Cardinality(OnWay(p, k)') <= Cardinality(Kept(p, k)')
    BY <1>3, <1>4, <1>5, <2>1
  <2>3. QED
    BY <2>2 DEF Backed
<1>7. QED
  BY <1>3, <1>6

\* FindAuthenInfo takes one entry of the session and leaves those of the others.
LEMMA EntryTaken ==
  ASSUME NEW s \in Seq(Nat), NEW j \in 1 .. Len(s), NEW k
  PROVE  LET old == {i \in DOMAIN s : s[i] = k}
             new == {i \in DOMAIN RemoveAt(s, j) : RemoveAt(s, j)[i] = k}
         IN  IsFiniteSet(old) /\ IsFiniteSet(new) /\ Cardinality(old \ {j}) <= Cardinality(new)
<1> DEFINE r == RemoveAt(s, j)
           old == {i \in DOMAIN s : s[i] = k}
           new == {i \in DOMAIN r : r[i] = k}
           at(i) == IF i < j THEN i ELSE i - 1
           f == [i \in old \ {j} |-> at(i)]
<1>1. /\ r \in Seq(Nat) /\ Len(r) = Len(s) - 1
      /\ \A i \in 1 .. Len(s) - 1 : r[i] = IF i < j THEN s[i] ELSE s[i + 1]
  BY RemoveAtProperties
<1> HIDE DEF r
<1>2. DOMAIN s = 1 .. Len(s) /\ DOMAIN r = 1 .. Len(s) - 1 /\ Len(s) \in Nat
  BY <1>1
<1>3. ASSUME NEW i \in old \ {j}
      PROVE  at(i) \in new
  <2>1. i \in 1 .. Len(s) /\ i # j /\ s[i] = k
    BY <1>2
  <2>2. CASE i < j
    <3>1. i \in 1 .. Len(s) - 1
      BY <2>1, <2>2
    <3>2. r[i] = k
      BY <1>1, <2>1, <2>2, <3>1
    <3>3. QED
      BY <1>2, <2>2, <3>1, <3>2
  <2>3. CASE ~ (i < j)
    <3>1. i - 1 \in 1 .. Len(s) - 1 /\ ~ (i - 1 < j) /\ (i - 1) + 1 = i
      BY <2>1, <2>3
    <3>2. r[i - 1] = k
      BY <1>1, <2>1, <3>1
    <3>3. QED
      BY <1>2, <2>3, <3>1, <3>2
  <2>4. QED
    BY <2>2, <2>3
<1>4. \A x \in old \ {j}, y \in old \ {j} : at(x) = at(y) => x = y
  BY <1>2
<1>5. f \in Injection(old \ {j}, new)
  BY <1>3, <1>4 DEF Injection, IsInjective
<1>6. IsFiniteSet(1 .. Len(s)) /\ IsFiniteSet(1 .. Len(s) - 1)
  BY <1>2, FS_Interval
<1>7. old \subseteq 1 .. Len(s) /\ new \subseteq 1 .. Len(s) - 1
  BY <1>2
<1> HIDE DEF f, old, new
<1>8. IsFiniteSet(old) /\ IsFiniteSet(new)
  BY <1>6, <1>7, FS_Subset
<1>9. QED
  BY <1>5, <1>8, FS_Injection DEF old, new, r

\* Counting at one proxy and one session: what a step has to keep
LEMMA StillBacked ==
  ASSUME TypeInv, TypeInv', SessionInv, NEW p \in Proxy, NEW k \in Nat, Sessions,
         IsFiniteSet(Tickets(p, k)'), IsFiniteSet(OnWay(p, k)'),
         NEW a \in Int, NEW b \in Int, NEW d \in Int, a + b <= d,
         Cardinality(Tickets(p, k)') <= Cardinality(Tickets(p, k)) + a,
         Cardinality(OnWay(p, k)') <= Cardinality(OnWay(p, k)) + b,
         Cardinality(Kept(p, k)') >= Cardinality(Kept(p, k)) + d
  PROVE  Backed(p, k)'
<1>1. Cardinality(Kept(p, k)) \in Nat
  BY KeptFinite
<1>2. Cardinality(Kept(p, k)') \in Nat
  <2>1. authen'[p] \in Seq(Nat) /\ DOMAIN authen'[p] = 1 .. Len(authen'[p]) /\ Len(authen'[p]) \in Nat
    BY DEF TypeInv, TypeProxy
  <2>2. IsFiniteSet(1 .. Len(authen'[p]))
    <3>1. ASSUME NEW n \in Nat
          PROVE  IsFiniteSet(1 .. n)
      BY FS_Interval
    <3>2. QED
      BY <2>1, <3>1
  <2>3. Kept(p, k)' \subseteq 1 .. Len(authen'[p])
    BY <2>1 DEF Kept
  <2>4. QED
    BY <2>2, <2>3, FS_Subset, FS_CardinalityType
<1>3. IsFiniteSet(Tickets(p, k)) /\ IsFiniteSet(OnWay(p, k)) /\ Backed(p, k)
  BY FS_Subset DEF SessionInv, Tickets
<1>4. /\ Cardinality(Tickets(p, k)) \in Nat /\ Cardinality(OnWay(p, k)) \in Nat
      /\ Cardinality(Tickets(p, k)') \in Nat /\ Cardinality(OnWay(p, k)') \in Nat
  BY <1>3, FS_CardinalityType
<1>5. Cardinality(Tickets(p, k)) + Cardinality(OnWay(p, k)) <= Cardinality(Kept(p, k))
  BY <1>3 DEF Backed
<1>6. Cardinality(Tickets(p, k)') + Cardinality(OnWay(p, k)') <= Cardinality(Kept(p, k)')
  BY <1>1, <1>2, <1>4, <1>5
<1>7. QED
  BY <1>6 DEF Backed

\* PutAuthenInfo comes before the answer.
LEMMA GrantSessions ==
  ASSUME TypeInv, TypeInv', LinkInv, SessionInv, NEW p \in Proxy, OnGrant(p)
  PROVE  SessionInv'
<1>1. PICK m \in ToPMMsg : Tell(p, m) /\ m = Granted(Message(p))
  <2>1. Got(p, "grant") /\ Tell(p, Granted(Message(p)))
    BY DEF OnGrant
  <2>2. Granted(Message(p)) \in ToPMMsg
    BY <2>1, GotTypes, ToProxyFields
  <2>3. QED
    BY <2>1, <2>2
<1>2. PICK c \in Conn : c = pmObject[p] /\ peer[c] = p
  BY HeardLink DEF OnGrant
<1>3. m.session = Message(p).session /\ Message(p).session \in Nat
  BY <1>1, GotTypes, ToProxyFields DEF OnGrant
<1> DEFINE s == m.session
           last == <<c, Len(toPM[c]) + 1>>
<1>4. /\ UNCHANGED <<world, ticket, peer>>
      /\ toPM' = [toPM EXCEPT ![c] = Append(@, m)]
      /\ authen' = [authen EXCEPT ![p] = Append(@, s)]
  BY <1>1, <1>2, <1>3 DEF OnGrant, Tell, ilmVars
<1>5. SUFFICES ASSUME NEW q \in Proxy, NEW k \in Nat
               PROVE  IsFiniteSet(OnWay(q, k)') /\ (Sessions => Backed(q, k)')
  BY <1>4 DEF SessionInv, Sessions, IdsOnce
<1>6. ASSUME NEW x \in OnWay(q, k)', x \notin OnWay(q, k)
      PROVE  x = last /\ q = p /\ k = s
  <2>1. PICK d \in Conn, i \in Nat : x = <<d, i>>
    BY DEF OnWay
  <2>2. /\ peer[d] = q /\ i \in DOMAIN toPM'[d] /\ toPM'[d][i].type = "granted"
        /\ toPM'[d][i].session = k
    BY <1>4, <2>1 DEF OnWay
  <2>3. toPM \in [Conn -> Seq(ToPMMsg)]
    BY DEF TypeInv, TypeNet
  <2>4. d = c
    <3>1. d # c => toPM'[d] = toPM[d]
      BY <1>4, <2>3
    <3>2. QED
      BY <1>6, <2>1, <2>2, <3>1 DEF OnWay
  <2>5. toPM'[c] = Append(toPM[c], m) /\ toPM[c] \in Seq(ToPMMsg)
    BY <1>4, <2>3
  <2>6. i = Len(toPM[c]) + 1
    <3>1. i \in 1 .. Len(toPM[c]) + 1
      BY <2>2, <2>4, <2>5
    <3>2. i # Len(toPM[c]) + 1 => i \in DOMAIN toPM[c] /\ toPM'[c][i] = toPM[c][i]
      BY <2>5, <3>1
    <3>3. QED
      BY <1>6, <2>1, <2>2, <2>4, <3>2 DEF OnWay
  <2>7. toPM'[c][i] = m
    BY <2>5, <2>6
  <2>8. QED
    BY <1>2, <2>1, <2>2, <2>4, <2>6, <2>7
<1> HIDE DEF last, s
<1>7. OnWay(q, k)' \subseteq OnWay(q, k) \cup {last}
  BY <1>6
<1>8. /\ IsFiniteSet(OnWay(q, k)) /\ IsFiniteSet(OnWay(q, k)')
      /\ Cardinality(OnWay(q, k)) \in Nat /\ Cardinality(OnWay(q, k)') \in Nat
      /\ Cardinality(OnWay(q, k)') <= Cardinality(OnWay(q, k)) + 1
      /\ ~ (q = p /\ k = s) => Cardinality(OnWay(q, k)') <= Cardinality(OnWay(q, k))
  <2>1. IsFiniteSet(OnWay(q, k)) /\ IsFiniteSet(OnWay(q, k) \cup {last})
    BY FS_AddElement DEF SessionInv
  <2>2. IsFiniteSet(OnWay(q, k)')
    BY <1>7, <2>1, FS_Subset
  <2>3. Cardinality(OnWay(q, k)') <= Cardinality(OnWay(q, k) \cup {last})
    BY <1>7, <2>1, FS_Subset
  <2>4. /\ Cardinality(OnWay(q, k)) \in Nat /\ Cardinality(OnWay(q, k)') \in Nat
        /\ Cardinality(OnWay(q, k) \cup {last}) \in Nat
    BY <2>1, <2>2, FS_CardinalityType
  <2>5. Cardinality(OnWay(q, k) \cup {last}) <= Cardinality(OnWay(q, k)) + 1
    BY <2>1, <2>4, FS_AddElement
  <2>6. ~ (q = p /\ k = s) => OnWay(q, k)' \subseteq OnWay(q, k)
    BY <1>6
  <2>7. ~ (q = p /\ k = s) => Cardinality(OnWay(q, k)') <= Cardinality(OnWay(q, k))
    BY <2>1, <2>6, FS_Subset
  <2>8. QED
    BY <2>1, <2>2, <2>3, <2>4, <2>5, <2>7
<1>9. IsFiniteSet(Kept(q, k)) /\ Cardinality(Kept(q, k)) \in Nat
  BY KeptFinite
<1>10. /\ ~ (q = p /\ k = s) => Kept(q, k)' = Kept(q, k)
       /\ (q = p /\ k = s) => Cardinality(Kept(q, k)') = Cardinality(Kept(q, k)) + 1
  <2>1. authen \in [Proxy -> Seq(Nat)] /\ s \in Nat
    BY <1>3 DEF TypeInv, TypeProxy, s
  <2>2. CASE q # p
    BY <1>4, <2>1, <2>2 DEF Kept
  <2>3. CASE q = p
    <3> DEFINE n == Len(authen[p]) + 1
    <3>1. /\ authen'[p] = Append(authen[p], s) /\ n \in Nat
          /\ DOMAIN authen[p] = 1 .. n - 1 /\ DOMAIN authen'[p] = 1 .. n
          /\ authen'[p][n] = s
          /\ \A i \in 1 .. n - 1 : authen'[p][i] = authen[p][i]
      BY <1>4, <2>1
    <3> HIDE DEF n
    <3>2. k # s => Kept(p, k)' = Kept(p, k)
      BY <3>1 DEF Kept
    <3>3. k = s => Kept(p, k)' = Kept(p, k) \cup {n} /\ n \notin Kept(p, k)
      BY <3>1 DEF Kept
    <3>4. QED
      BY <1>9, <2>3, <3>2, <3>3, FS_AddElement
  <2>4. QED
    BY <2>2, <2>3
<1>11. Tickets(q, k)' = Tickets(q, k) /\ IsFiniteSet(Tickets(q, k)) /\ Cardinality(Tickets(q, k)) \in Nat
  <2>1. IsFiniteSet(Tickets(q, k))
    BY FS_Subset DEF SessionInv, Tickets
  <2>2. QED
    BY <1>4, <2>1, FS_CardinalityType DEF Tickets
<1>12. ASSUME Sessions
       PROVE  Backed(q, k)'
  <2>1. CASE q = p /\ k = s
    <3>1. 0 + 1 <= 1 /\ Cardinality(Tickets(q, k)') <= Cardinality(Tickets(q, k)) + 0
      BY <1>11
    <3>2. QED
      BY <1>8, <1>10, <1>11, <1>12, <2>1, <3>1, StillBacked, 0 \in Int, 1 \in Int, <1>9
  <2>2. CASE ~ (q = p /\ k = s)
    <3>1. /\ Cardinality(Tickets(q, k)') <= Cardinality(Tickets(q, k)) + 0
          /\ Cardinality(OnWay(q, k)') <= Cardinality(OnWay(q, k)) + 0
          /\ Cardinality(Kept(q, k)') >= Cardinality(Kept(q, k)) + 0
      BY <1>8, <1>9, <1>10, <1>11, <2>2
    <3>2. QED
      BY <1>8, <1>11, <1>12, <3>1, StillBacked
  <2>3. QED
    BY <2>1, <2>2
<1>13. QED
  BY <1>8, <1>12

\* The answer that is handled becomes a ticket for the proxy that gave it.
LEMMA GrantedSessions ==
  ASSUME TypeInv, TypeInv', LinkInv, ClaimsInv, SessionInv, NEW c \in Conn, OnGranted(c)
  PROVE  SessionInv'
<1> DEFINE m == Head(toPM[c])
<1>1. /\ Receive(c, "granted") /\ Received(c) /\ UNCHANGED <<world, peer, authen>>
      /\ \/ ticket' = ticket
         \/ \E d \in WithId(m.id) :
              ticket' = ticket \cup {[user |-> m.user, session |-> m.session, addr |-> proxies[d].addr]}
  BY DEF OnGranted, ilmVars
<1>2. \A d \in Conn : NoAnswer(d)
  BY <1>1 DEF NoAnswer, Taken, Received, Receive, TypeInv, TypeNet
<1>3. CASE ticket' = ticket
  BY <1>1, <1>2, <1>3, QuietSessions
<1>4. ASSUME NEW d \in WithId(m.id),
             ticket' = ticket \cup {[user |-> m.user, session |-> m.session, addr |-> proxies[d].addr]}
      PROVE  SessionInv'
  <2> DEFINE t == [user |-> m.user, session |-> m.session, addr |-> proxies[d].addr]
             head == <<c, 1>>
  <2>1. /\ m \in ToPMMsg /\ m = toPM[c][1] /\ 1 \in DOMAIN toPM[c] /\ m.type = "granted"
        /\ link[c] \in {"open", "broken"} /\ toPM[c] # <<>>
    BY <1>1, ReceiveTypes DEF Receive
  <2>2. ticket' = ticket \cup {t} /\ t.session = m.session /\ t.addr = proxies[d].addr
    BY <1>4
  <2>3. SUFFICES ASSUME NEW p \in Proxy, NEW k \in Nat
                 PROVE  IsFiniteSet(OnWay(p, k)') /\ (Sessions => Backed(p, k)')
    <3>1. IsFiniteSet(ticket')
      BY <2>2, FS_AddElement DEF SessionInv
    <3>2. QED
      BY <1>1, <2>3, <3>1 DEF SessionInv, Sessions, IdsOnce
  <2>4. ASSUME IdsOnce, proxies[d].addr = p
        PROVE  peer[c] = p
    <3>1. /\ d \in Items /\ d \in Conn /\ proxies[d] \in Item /\ proxies[d].id = m.id
          /\ proxies[d].addr = peer[d] /\ proxies[d].id # 0 /\ peer[d] = p
      BY <2>4, NobodyIsNone DEF WithId, LinkInv, AddrInv, TypeInv, TypePm, TypeItems
    <3>2. m.id \in Nat \ {0}
      BY <3>1, ItemFields
    <3>3. peer[c] \in Proxy
      BY <2>1 DEF LinkInv, PeerInv
    <3>4. Claims(p, m.id)
      BY <3>1 DEF Claims
    <3>5. m \in ToSet(toPM[c])
      BY <2>1 DEF ToSet
    <3>6. ClaimedToPM(c, m.id)
      BY <2>1, <3>5 DEF ClaimedToPM
    <3>7. Claims(peer[c], m.id)
      BY <3>6 DEF Claims
    <3>8. QED
      BY <2>4, <3>2, <3>3, <3>4, <3>7 DEF ClaimsInv
  <2>5. Taken(c)
    BY <1>1, <2>1 DEF Taken, Received, TypeInv, TypeNet
  <2> DEFINE rest == {x \in OnWay(p, k) : ~ (Taken(x[1]) /\ x[2] = 1)}
             mine == p = proxies[d].addr /\ k = m.session
  <2>6. /\ IsFiniteSet(OnWay(p, k)) /\ IsFiniteSet(OnWay(p, k)') /\ IsFiniteSet(rest)
        /\ Cardinality(OnWay(p, k)') <= Cardinality(rest)
        /\ Cardinality(rest) <= Cardinality(OnWay(p, k))
    BY <1>2, AnswersShift DEF SessionInv
  <2>7. rest \subseteq OnWay(p, k) \ {head}
    <3>1. head[1] = c /\ head[2] = 1
      OBVIOUS
    <3>2. head \notin rest
      BY <2>5, <3>1
    <3>3. QED
      BY <3>2
  <2>8. IdsOnce /\ mine => head \in OnWay(p, k)
    BY <2>1, <2>4 DEF OnWay
  <2> HIDE DEF rest, head, m
  <2>9. /\ IsFiniteSet(Tickets(p, k)) /\ IsFiniteSet(Tickets(p, k)')
        /\ Cardinality(Tickets(p, k)') <= Cardinality(Tickets(p, k)) + 1
        /\ ~ mine => Cardinality(Tickets(p, k)') <= Cardinality(Tickets(p, k)) + 0
    <3>1. IsFiniteSet(Tickets(p, k)) /\ IsFiniteSet(Tickets(p, k) \cup {t})
      <4>1. IsFiniteSet(Tickets(p, k))
        BY FS_Subset DEF SessionInv, Tickets
      <4> HIDE DEF t
      <4>2. QED
        BY <4>1, FS_AddElement
    <3>2. Tickets(p, k)' \subseteq Tickets(p, k) \cup {t}
      BY <2>2 DEF Tickets
    <3>3. ~ mine => Tickets(p, k)' = Tickets(p, k)
      BY <2>2 DEF Tickets
    <3> HIDE DEF t, mine
    <3>4. IsFiniteSet(Tickets(p, k)') /\ Cardinality(Tickets(p, k)') <= Cardinality(Tickets(p, k) \cup {t})
      BY <3>1, <3>2, FS_Subset
    <3>5. /\ Cardinality(Tickets(p, k)) \in Nat /\ Cardinality(Tickets(p, k)') \in Nat
          /\ Cardinality(Tickets(p, k) \cup {t}) \in Nat
      BY <3>1, <3>4, FS_CardinalityType
    <3>6. Cardinality(Tickets(p, k) \cup {t}) <= Cardinality(Tickets(p, k)) + 1
      BY <3>1, <3>5, FS_AddElement
    <3>7. QED
      BY <3>1, <3>3, <3>4, <3>5, <3>6
  <2>10. Cardinality(Kept(p, k)) \in Nat /\ Kept(p, k)' = Kept(p, k)
    BY <1>1, KeptFinite DEF Kept
  <2>11. Cardinality(Kept(p, k)') >= Cardinality(Kept(p, k)) + 0
    BY <2>10
  <2>12. /\ Cardinality(OnWay(p, k)) \in Nat /\ Cardinality(OnWay(p, k)') \in Nat
         /\ Cardinality(rest) \in Nat
    BY <2>6, FS_CardinalityType
  <2> HIDE DEF mine, t
  <2>13. ASSUME Sessions, mine
         PROVE  Backed(p, k)'
    <3>1. head \in OnWay(p, k)
      BY <2>8, <2>13 DEF Sessions
    <3>2. /\ Cardinality(OnWay(p, k) \ {head}) = Cardinality(OnWay(p, k)) - 1
          /\ IsFiniteSet(OnWay(p, k) \ {head})
      BY <2>6, <3>1, FS_RemoveElement
    <3>3. Cardinality(rest) <= Cardinality(OnWay(p, k) \ {head})
      BY <2>7, <3>2, FS_Subset
    <3>4. Cardinality(OnWay(p, k)') <= Cardinality(OnWay(p, k)) + (-1)
      BY <2>6, <2>12, <3>2, <3>3
    <3>5. 1 + (-1) <= 0 /\ -1 \in Int
      OBVIOUS
    <3>6. QED
      BY <2>6, <2>9, <2>11, <2>13, <3>4, <3>5, StillBacked
  <2>14. ASSUME Sessions, ~ mine
         PROVE  Backed(p, k)'
    <3>1. Cardinality(OnWay(p, k)') <= Cardinality(OnWay(p, k)) + 0
      BY <2>6, <2>12
    <3>2. QED
      BY <2>6, <2>9, <2>11, <2>14, <3>1, StillBacked
  <2>15. QED
    BY <2>6, <2>13, <2>14
<1>5. QED
  BY <1>1, <1>3, <1>4

\* A client that comes with its ticket takes one entry.
LEMMA ClientSessions ==
  ASSUME TypeInv, TypeInv', SessionInv, NEW p \in Proxy, NEW t \in ticket, ClientConnects(p, t)
  PROVE  SessionInv'
<1> DEFINE s == t.session
<1>1. /\ UNCHANGED <<world, peer, toPM>> /\ ticket' = ticket \ {t} /\ t.addr = p
      /\ IF s \in ToSet(authen[p])
         THEN authen' = [authen EXCEPT ![p] = FindAuthenInfo(p, s)]
         ELSE authen' = authen
  BY DEF ClientConnects, ilmVars, netVars
<1>2. IsFiniteSet(ticket')
  BY <1>1, FS_RemoveElement DEF SessionInv
<1>3. SUFFICES ASSUME NEW q \in Proxy, NEW k \in Nat
               PROVE  IsFiniteSet(OnWay(q, k)') /\ (Sessions => Backed(q, k)')
  BY <1>1, <1>2 DEF SessionInv, Sessions, IdsOnce
<1>4. /\ OnWay(q, k)' = OnWay(q, k) /\ IsFiniteSet(OnWay(q, k)) /\ IsFiniteSet(OnWay(q, k)')
      /\ Cardinality(OnWay(q, k)) \in Nat
  BY <1>1, FS_CardinalityType DEF OnWay, SessionInv
<1>5. Cardinality(OnWay(q, k)') <= Cardinality(OnWay(q, k)) + 0
  BY <1>4
<1> DEFINE mine == q = p /\ k = s
<1>6. /\ IsFiniteSet(Tickets(q, k)')
      /\ mine => Cardinality(Tickets(q, k)') <= Cardinality(Tickets(q, k)) + (-1)
      /\ ~ mine => Cardinality(Tickets(q, k)') <= Cardinality(Tickets(q, k)) + 0
  <2>1. IsFiniteSet(Tickets(q, k))
    BY FS_Subset DEF SessionInv, Tickets
  <2>2. Tickets(q, k)' = Tickets(q, k) \ {t}
    BY <1>1 DEF Tickets
  <2>3. IF mine THEN t \in Tickets(q, k) ELSE t \notin Tickets(q, k)
    BY <1>1 DEF Tickets
  <2> HIDE DEF mine
  <2>4. Cardinality(Tickets(q, k)) \in Nat
    BY <2>1, FS_CardinalityType
  <2>5. /\ IsFiniteSet(Tickets(q, k) \ {t})
        /\ t \in Tickets(q, k) => Cardinality(Tickets(q, k) \ {t}) = Cardinality(Tickets(q, k)) - 1
        /\ t \notin Tickets(q, k) => Cardinality(Tickets(q, k) \ {t}) = Cardinality(Tickets(q, k))
    BY <2>1, FS_RemoveElement
  <2>6. CASE mine
    BY <2>2, <2>3, <2>4, <2>5, <2>6
  <2>7. CASE ~ mine
    BY <2>2, <2>3, <2>4, <2>5, <2>7
  <2>8. QED
    BY <2>6, <2>7
<1>7. /\ mine => Cardinality(Kept(q, k)') >= Cardinality(Kept(q, k)) + (-1)
      /\ ~ mine => Cardinality(Kept(q, k)') >= Cardinality(Kept(q, k)) + 0
  <2>1. IsFiniteSet(Kept(q, k)) /\ Cardinality(Kept(q, k)) \in Nat
    BY KeptFinite
  <2>2. CASE q # p \/ s \notin ToSet(authen[p])
    <3>1. Kept(q, k)' = Kept(q, k)
      BY <1>1, <2>2 DEF Kept, TypeInv, TypeProxy
    <3>2. QED
      BY <2>1, <3>1
  <2>3. CASE q = p /\ s \in ToSet(authen[p])
    <3> DEFINE j == FirstOf(p, s)
               old == {i \in DOMAIN authen[p] : authen[p][i] = k}
               new == {i \in DOMAIN RemoveAt(authen[p], j) : RemoveAt(authen[p], j)[i] = k}
    <3>1. authen[p] \in Seq(Nat) /\ j \in 1 .. Len(authen[p]) /\ authen[p][j] = s
      BY <2>3, FirstOfPlace DEF TypeInv, TypeProxy
    <3>2. authen'[p] = RemoveAt(authen[p], j)
      BY <1>1, <2>3 DEF FindAuthenInfo, TypeInv, TypeProxy
    <3>3. Kept(q, k) = old /\ Kept(q, k)' = new
      BY <2>3, <3>2 DEF Kept
    <3>4. j \in old <=> k = s
      BY <3>1
    <3> HIDE DEF j
    <3>5. IsFiniteSet(old) /\ IsFiniteSet(new) /\ Cardinality(old \ {j}) <= Cardinality(new)
      BY <3>1, EntryTaken
    <3> HIDE DEF old, new
    <3>6. Cardinality(old \ {j}) = IF k = s THEN Cardinality(old) - 1 ELSE Cardinality(old)
      BY <3>4, <3>5, FS_RemoveElement
    <3>7. Cardinality(old) \in Nat /\ Cardinality(new) \in Nat
      BY <3>5, FS_CardinalityType
    <3>8. QED
      BY <2>3, <3>3, <3>5, <3>6, <3>7
  <2>4. QED
    BY <2>2, <2>3
<1> HIDE DEF mine
<1>8. ASSUME Sessions
      PROVE  Backed(q, k)'
  <2>1. (-1) + 0 <= -1 /\ -1 \in Int
    OBVIOUS
  <2>2. CASE mine
    BY <1>4, <1>5, <1>6, <1>7, <1>8, <2>1, <2>2, StillBacked
  <2>3. CASE ~ mine
    BY <1>4, <1>5, <1>6, <1>7, <1>8, <2>3, StillBacked
  <2>4. QED
    BY <2>2, <2>3
<1>9. QED
  BY <1>4, <1>8

LEMMA HandleSessions ==
  ASSUME TypeInv, TypeInv', LinkInv, ClaimsInv, SessionInv, NEW c \in Conn, Handle(c)
  PROVE  SessionInv'
<1>1. CASE OnGranted(c)
  BY <1>1, GrantedSessions
<1>2. CASE AcceptProxy(c)
  BY <1>2, QuietSessions DEF AcceptProxy, NoAnswer, proxyVars, ilmVars
<1>3. CASE ProxyJoinComplete(c) \/ ProxyStatus(c) \/ OnAddServerReply(c)
  <2>1. /\ UNCHANGED <<world, peer, authen, ticket>> /\ Received(c) /\ toPM[c] # <<>>
    BY <1>3 DEF ProxyJoinComplete, ProxyStatus, OnAddServerReply, Counted, Receive, proxyVars, ilmVars
  <2>2. \A d \in Conn : NoAnswer(d)
    BY <2>1 DEF NoAnswer, Taken, Received, TypeInv, TypeNet
  <2>3. QED
    BY <2>1, <2>2, QuietSessions
<1>4. CASE ProxyJoin(c)
  <2>1. /\ UNCHANGED <<world, peer, authen, ticket>> /\ toPM[c] # <<>>
        /\ \A d \in Conn : toPM'[d] \in {Tail(toPM[c]), <<>>, toPM[d]}
        /\ toPM'[c] = Tail(toPM[c])
    BY <1>4 DEF ProxyJoin, Receive, proxyVars, ilmVars
  <2>2. \A d \in Conn : d # c => toPM'[d] \in {<<>>, toPM[d]}
    BY <1>4 DEF ProxyJoin
  <2>3. \A d \in Conn : NoAnswer(d)
    BY <2>1, <2>2 DEF NoAnswer, Taken
  <2>4. QED
    BY <2>1, <2>3, QuietSessions
<1>5. CASE ProxyJoinThrows(c)
  <2>1. /\ UNCHANGED <<world, authen, ticket>>
        /\ peer' = [peer EXCEPT ![c] = None]
        /\ \A d \in Conn : toPM'[d] \in {<<>>, toPM[d]}
        /\ toPM'[c] = <<>>
    BY <1>5 DEF ProxyJoinThrows, ilmVars
  <2>2. \A d \in Conn : NoAnswer(d)
    BY <2>1 DEF NoAnswer, TypeInv, TypeNet
  <2>3. QED
    BY <2>1, <2>2, QuietSessions
<1>6. CASE ProxyGone(c)
  <2>1. /\ UNCHANGED <<world, authen, ticket>>
        /\ peer' = [peer EXCEPT ![c] = None]
        /\ toPM' = [toPM EXCEPT ![c] = <<>>]
    BY <1>6 DEF ProxyGone, ilmVars, proxyVars
  <2>2. \A d \in Conn : NoAnswer(d)
    BY <2>1 DEF NoAnswer, TypeInv, TypeNet
  <2>3. QED
    BY <2>1, <2>2, QuietSessions
<1>7. CASE AnswerNobody(c)
  BY <1>7, QuietSessions DEF AnswerNobody, StartAgain, NoAnswer
<1>8. QED
  BY <1>1, <1>2, <1>3, <1>4, <1>5, <1>6, <1>7 DEF Handle

LEMMA ProxyStepSessions ==
  ASSUME TypeInv, TypeInv', LinkInv, SessionInv, NEW p \in Proxy, ProxyStep(p)
  PROVE  SessionInv'
<1>1. CASE OnGrant(p)
  BY <1>1, GrantSessions
<1>2. ASSUME NEW c \in Conn, ProxyConnect(p, c)
      PROVE  SessionInv'
  <2> DEFINE j == Join(proxyID[p])
  <2>1. /\ UNCHANGED <<world, authen, ticket>>
        /\ peer' = [peer EXCEPT ![c] = p] /\ toPM' = [toPM EXCEPT ![c] = <<j>>]
    BY <1>2 DEF ProxyConnect, ilmVars
  <2>2. j.type # "granted"
    BY DEF Join
  <2> HIDE DEF j
  <2>3. toPM'[c] = <<j>> /\ \A i \in DOMAIN <<j>> : <<j>>[i].type # "granted"
    BY <2>1, <2>2 DEF TypeInv, TypeNet
  <2>4. \A d \in Conn : d # c => toPM'[d] = toPM[d] /\ peer'[d] = peer[d]
    BY <2>1 DEF TypeInv, TypeNet
  <2>5. \A d \in Conn : NoAnswer(d)
    BY <2>3, <2>4 DEF NoAnswer
  <2>6. QED
    BY <2>1, <2>5, QuietSessions
<1>3. CASE OnJoined(p) \/ OnAdd(p) \/ OnQuery(p)
  <2>1. PICK m \in ToPMMsg :
          /\ Tell(p, m)
          /\ \/ m = Complete \/ m = Added(Message(p).server) \/ m = Status(players[p])
             \/ OnGrant(p)
    BY <1>3, Answer
  <2>2. CASE OnGrant(p)
    BY <2>2, GrantSessions
  <2>3. CASE ~ OnGrant(p)
    <3>1. m.type # "granted"
      BY <2>1, <2>3 DEF Complete, Added, Status
    <3>2. UNCHANGED <<world, authen, ticket, peer>>
      BY <1>3 DEF OnJoined, OnAdd, OnQuery, ilmVars
    <3>3. \A d \in Conn : toPM'[d] = toPM[d] \/ toPM'[d] = Append(toPM[d], m)
      BY <2>1 DEF Tell, TypeInv, TypeNet
    <3>4. \A d \in Conn : NoAnswer(d)
      BY <3>1, <3>2, <3>3 DEF NoAnswer
    <3>5. QED
      BY <3>2, <3>4, QuietSessions
  <2>4. QED
    BY <2>2, <2>3
<1>4. QED
  BY <1>1, <1>2, <1>3 DEF ProxyStep

LEMMA BrokenAnswers ==
  ASSUME TypeInv, LinkInv, NEW p \in Proxy, Broken(p)
  PROVE  \A c \in Conn : peer'[c] \in Proxy => NoAnswer(c)
<1> DEFINE c == pmObject[p]
<1>1. c \in Conn
  BY BrokenTypes
<1>2. CASE link[c] = "new"
  <2>1. peer' = [peer EXCEPT ![c] = None] /\ toPM' = [toPM EXCEPT ![c] = <<>>]
    BY <1>2 DEF Broken
  <2>2. QED
    BY <1>1, <2>1 DEF NoAnswer, TypeInv, TypeNet
<1>3. CASE link[c] # "new"
  BY <1>3 DEF Broken, NoAnswer
<1>4. QED
  BY <1>2, <1>3

LEMMA OutsideSessions ==
  ASSUME TypeInv, TypeInv', LinkInv, SessionInv, Outside
  PROVE  SessionInv'
<1>1. ASSUME NEW p \in Proxy, NEW t \in ticket, ClientConnects(p, t)
      PROVE  SessionInv'
  BY <1>1, ClientSessions
<1>2. ASSUME NEW p \in Proxy, ProxyCut(p)
      PROVE  SessionInv'
  <2>1. Broken(p) /\ UNCHANGED <<world, authen, ticket>>
    BY <1>2 DEF ProxyCut, Broken, ilmVars
  <2>2. QED
    BY <2>1, BrokenAnswers, QuietSessions
<1>3. ASSUME NEW p \in Proxy, ProxyRestart(p)
      PROVE  SessionInv'
  <2>1. Broken(p) /\ world' = world /\ "restart" \in world.faults /\ ticket' \subseteq ticket
    BY <1>3 DEF ProxyRestart, Broken, ilmVars
  <2>2. ~ Sessions /\ ~ Sessions'
    BY <2>1 DEF Sessions, IdsOnce
  <2>3. IsFiniteSet(ticket')
    BY <2>1, FS_Subset DEF SessionInv
  <2>4. \A q \in Proxy, k \in Nat : IsFiniteSet(OnWay(q, k)')
    BY <2>1, BrokenAnswers, AnswersShift DEF SessionInv
  <2>5. QED
    BY <2>2, <2>3, <2>4 DEF SessionInv
<1>4. CASE PmRestart
  BY <1>4, QuietSessions DEF PmRestart, StartAgain, NoAnswer
<1>5. ASSUME UNCHANGED <<world, authen, ticket, peer, toPM>>
      PROVE  SessionInv'
  BY <1>5, QuietSessions DEF NoAnswer
<1>6. QED
  BY <1>1, <1>2, <1>3, <1>4, <1>5
  DEF Outside, QueryProxies, IlmLost, IlmJoin, IlmLeave, GameServerGone, LoginConnect, LoginGone,
      AddClient, ClientLeaves, ilmVars, netVars, proxyVars

LEMMA SessionsInit == Init => SessionInv
<1> SUFFICES ASSUME Init
             PROVE  SessionInv
  OBVIOUS
<1>1. ticket = {} /\ \A c \in Conn : toPM[c] = <<>>
  BY DEF Init
<1>2. ASSUME NEW p \in Proxy, NEW k \in Nat
      PROVE  OnWay(p, k) = {} /\ Tickets(p, k) = {}
  BY <1>1 DEF OnWay, Tickets
<1>3. TypeInv
  BY LinkInit
<1>4. ASSUME NEW p \in Proxy, NEW k \in Nat
      PROVE  Backed(p, k)
  <2>1. Cardinality(Kept(p, k)) \in Nat
    BY <1>3, KeptFinite
  <2>2. QED
    BY <1>2, <2>1, FS_EmptySet DEF Backed
<1>5. QED
  BY <1>1, <1>2, <1>4, FS_EmptySet DEF SessionInv

LEMMA SessionsKept == Spec => [](TypeInv /\ SessionInv)
<1>1. ASSUME TypeInv, LinkInv, TypeInv', ClaimsInv, SessionInv, [Next]_vars
      PROVE  SessionInv'
  <2>1. CASE UNCHANGED vars
    BY <1>1, <2>1, QuietSessions DEF vars, ilmVars, netVars, proxyVars, NoAnswer
  <2>2. CASE HandleILM
    <3>1. UNCHANGED <<world, authen, ticket, peer, toPM>>
      BY <2>2 DEF HandleILM, AddServerAlone, AddServerForward, RemoveServer, EndBatch, ConnectILM,
                  netVars, proxyVars
    <3>2. QED
      BY <1>1, <3>1, QuietSessions DEF NoAnswer
  <2>3. QED
    BY <1>1, <2>1, <2>2, HandleSessions, ProxyStepSessions, OutsideSessions DEF Next
<1>2. TypeInv /\ LinkInv /\ ClaimsInv /\ TypeInv' /\ LinkInv' /\ ClaimsInv' /\ SessionInv /\ [Next]_vars
      => SessionInv'
  BY <1>1
<1>3. QED
  BY <1>2, ClaimsKept, SessionsInit, PTL DEF Spec

\* PutAuthenInfo, SEND_SESSION_TO_PROXY_RESPONSE and FindAuthenInfo: a client
\* that was told of a proxy and a session finds an entry there for every ticket
\* with that session, whatever connections are lost on the way and although two
\* users may share a session, as long as no proxy restarts and every id is
\* given out once.
THEOREM TicketsHonoured == Spec => []TicketKept
<1>1. TypeInv /\ SessionInv => TicketKept
  <2>1. SUFFICES ASSUME TypeInv, SessionInv, Sessions, NEW p \in Proxy, NEW t \in ticket, t.addr = p
                 PROVE  Cardinality({u \in ticket : u.addr = p /\ u.session = t.session})
                          <= Count(authen[p], t.session)
    BY DEF TicketKept, Sessions
  <2>2. t.session \in Nat
    BY <2>1 DEF TypeInv, TypeProxy, Ticket
  <2> DEFINE k == t.session
  <2>3. Backed(p, k) /\ IsFiniteSet(OnWay(p, k)) /\ IsFiniteSet(Tickets(p, k))
    BY <2>1, <2>2, FS_Subset DEF SessionInv, Tickets
  <2>4. /\ Cardinality(OnWay(p, k)) \in Nat /\ Cardinality(Tickets(p, k)) \in Nat
        /\ Cardinality(Kept(p, k)) \in Nat
    BY <2>1, <2>3, KeptFinite, FS_CardinalityType
  <2>5. Cardinality(Tickets(p, k)) <= Cardinality(Kept(p, k))
    BY <2>3, <2>4 DEF Backed
  <2>6. QED
    BY <2>5 DEF Tickets, Kept, Count
<1>2. QED
  BY <1>1, SessionsKept, PTL

-----------------------------------------------------------------------------
(* The answers that are awaited                                             *)

Asking == {"add", "added"}
AnyMsg == ToPMMsg \cup ToProxyMsg

\* The places of a and b, one behind the other, that hold a question or an answer
Marked(a, b) == {i \in 1 .. Len(a) + Len(b) :
                   (IF i <= Len(a) THEN a[i] ELSE b[i - Len(a)]).type \in Asking}

LEMMA AwaitedMarked ==
  ASSUME NEW a \in Seq(AnyMsg), NEW b \in Seq(AnyMsg)
  PROVE  {i \in DOMAIN (a \o b) : (a \o b)[i].type \in {"add", "added"}} = Marked(a, b)
<1>1. DOMAIN (a \o b) = 1 .. Len(a) + Len(b) /\ Len(a) \in Nat /\ Len(b) \in Nat
  OBVIOUS
<1>2. \A i \in 1 .. Len(a) + Len(b) : (a \o b)[i] = IF i <= Len(a) THEN a[i] ELSE b[i - Len(a)]
  OBVIOUS
<1>3. QED
  BY <1>1, <1>2 DEF Marked, Asking

LEMMA MarkedFinite ==
  ASSUME NEW a \in Seq(AnyMsg), NEW b \in Seq(AnyMsg)
  PROVE  IsFiniteSet(Marked(a, b)) /\ Marked(a, b) \subseteq Nat \ {0}
<1>1. Len(a) + Len(b) \in Nat
  OBVIOUS
<1>2. IsFiniteSet(1 .. Len(a) + Len(b))
  BY <1>1, FS_Interval
<1>3. Marked(a, b) \subseteq 1 .. Len(a) + Len(b)
  BY DEF Marked
<1>4. QED
  BY <1>1, <1>2, <1>3, FS_Subset

\* The proxy manager takes a message: every place comes one nearer.
LEMMA MarkedTail ==
  ASSUME NEW a \in Seq(AnyMsg), NEW b \in Seq(AnyMsg), a # <<>>
  PROVE  /\ 1 \in Marked(a, b) <=> Head(a).type \in Asking
         /\ \A j \in Nat : j \in Marked(Tail(a), b) <=> j >= 1 /\ j + 1 \in Marked(a, b)
<1>1. /\ Len(a) \in Nat /\ Len(a) >= 1 /\ Len(b) \in Nat /\ Head(a) = a[1]
      /\ Len(Tail(a)) = Len(a) - 1
      /\ \A i \in 1 .. Len(a) - 1 : Tail(a)[i] = a[i + 1]
  OBVIOUS
<1>2. 1 \in Marked(a, b) <=> Head(a).type \in Asking
  BY <1>1 DEF Marked
<1>3. ASSUME NEW j \in Nat
      PROVE  j \in Marked(Tail(a), b) <=> j >= 1 /\ j + 1 \in Marked(a, b)
  <2> DEFINE x == IF j <= Len(a) - 1 THEN Tail(a)[j] ELSE b[j - (Len(a) - 1)]
             y == IF j + 1 <= Len(a) THEN a[j + 1] ELSE b[(j + 1) - Len(a)]
  <2>1. j \in Marked(Tail(a), b) <=> j \in 1 .. (Len(a) - 1) + Len(b) /\ x.type \in Asking
    BY <1>1 DEF Marked
  <2>2. j + 1 \in Marked(a, b) <=> j + 1 \in 1 .. Len(a) + Len(b) /\ y.type \in Asking
    BY DEF Marked
  <2>3. j >= 1 => x = y
    BY <1>1
  <2> HIDE DEF x, y
  <2>4. QED
    BY <1>1, <2>1, <2>2, <2>3
<1>4. QED
  BY <1>2, <1>3

\* The proxy manager writes a message.
LEMMA MarkedAppend ==
  ASSUME NEW a \in Seq(AnyMsg), NEW b \in Seq(AnyMsg), NEW m \in AnyMsg
  PROVE  Marked(a, Append(b, m)) = IF m.type \in Asking THEN Marked(a, b) \cup {Len(a) + Len(b) + 1}
                                   ELSE Marked(a, b)
<1> DEFINE k == Len(a)
           n == Len(b)
           c == Append(b, m)
<1>1. /\ k \in Nat /\ n \in Nat /\ Len(c) = n + 1
      /\ \A i \in 1 .. n : c[i] = b[i]
      /\ c[n + 1] = m
  OBVIOUS
<1>2. \A i \in 1 .. k + n : (IF i <= k THEN a[i] ELSE c[i - k]) = (IF i <= k THEN a[i] ELSE b[i - k])
  <2> SUFFICES ASSUME NEW i \in 1 .. k + n
               PROVE  (IF i <= k THEN a[i] ELSE c[i - k]) = (IF i <= k THEN a[i] ELSE b[i - k])
    OBVIOUS
  <2> HIDE DEF k, n, c
  <2>1. ~(i <= k) => i - k \in 1 .. n
    BY <1>1
  <2>2. QED
    BY <1>1, <2>1
<1>3. (IF k + n + 1 <= k THEN a[k + n + 1] ELSE c[(k + n + 1) - k]) = m
  <2> HIDE DEF k, n, c
  <2>1. ~(k + n + 1 <= k) /\ (k + n + 1) - k = n + 1
    BY <1>1
  <2>2. QED
    BY <1>1, <2>1
<1>4. Marked(a, c) = {i \in 1 .. k + (n + 1) : (IF i <= k THEN a[i] ELSE c[i - k]).type \in Asking}
  BY <1>1 DEF Marked
<1>5. Marked(a, b) = {i \in 1 .. k + n : (IF i <= k THEN a[i] ELSE b[i - k]).type \in Asking}
  BY DEF Marked
<1>6. 1 .. k + (n + 1) = (1 .. k + n) \cup {k + n + 1} /\ k + n + 1 \notin 1 .. k + n
  <2> HIDE DEF k, n
  <2>1. QED
    BY <1>1
<1> HIDE DEF k, n, c
<1>7. QED
  BY <1>2, <1>3, <1>4, <1>5, <1>6 DEF k, n, c

\* A proxy answers: the answer is at the place of the question.
LEMMA MarkedTurn ==
  ASSUME NEW a \in Seq(AnyMsg), NEW b \in Seq(AnyMsg), b # <<>>, NEW m \in AnyMsg,
         m.type \in Asking <=> Head(b).type \in Asking
  PROVE  Marked(Append(a, m), Tail(b)) = Marked(a, b)
<1> DEFINE k == Len(a)
           n == Len(b)
           c == Append(a, m)
           d == Tail(b)
<1>1. /\ k \in Nat /\ n \in Nat /\ n >= 1 /\ Len(c) = k + 1 /\ Len(d) = n - 1
      /\ \A i \in 1 .. k : c[i] = a[i]
      /\ c[k + 1] = m /\ Head(b) = b[1]
      /\ \A i \in 1 .. n - 1 : d[i] = b[i + 1]
  OBVIOUS
<1>2. Marked(c, d) = {i \in 1 .. (k + 1) + (n - 1) : (IF i <= k + 1 THEN c[i] ELSE d[i - (k + 1)]).type \in Asking}
  BY <1>1 DEF Marked
<1>3. Marked(a, b) = {i \in 1 .. k + n : (IF i <= k THEN a[i] ELSE b[i - k]).type \in Asking}
  BY DEF Marked
<1> HIDE DEF k, n, c, d
<1>4. (k + 1) + (n - 1) = k + n
  BY <1>1
<1>5. ASSUME NEW i \in 1 .. k + n
      PROVE  (IF i <= k + 1 THEN c[i] ELSE d[i - (k + 1)]).type \in Asking
             <=> (IF i <= k THEN a[i] ELSE b[i - k]).type \in Asking
  <2>1. CASE i <= k
    BY <1>1, <2>1
  <2>2. CASE i = k + 1
    BY <1>1, <2>2
  <2>3. CASE i > k + 1
    <3>1. i - (k + 1) \in 1 .. n - 1 /\ (i - (k + 1)) + 1 = i - k /\ ~(i <= k) /\ ~(i <= k + 1)
      BY <1>1, <2>3
    <3>2. d[i - (k + 1)] = b[i - k]
      BY <1>1, <3>1
    <3>3. QED
      BY <3>1, <3>2
  <2>4. QED
    BY <1>1, <2>1, <2>2, <2>3
<1>6. QED
  BY <1>2, <1>3, <1>4, <1>5 DEF c, d

\* A proxy is cut off from what it has not read.
LEMMA MarkedCut ==
  ASSUME NEW a \in Seq(AnyMsg), NEW b \in Seq(AnyMsg)
  PROVE  Marked(a, <<>>) \subseteq Marked(a, b)
BY DEF Marked

LEMMA MarkedNothing == Marked(<<>>, <<>>) = {}
BY DEF Marked

\* When what is marked on c comes one place nearer, the marked places are as many
\* as before, or one less where the first was marked.
LEMMA NearerPlaces ==
  ASSUME NEW P \in SUBSET (Conn \X Nat), IsFiniteSet(P), NEW Q \in SUBSET (Conn \X Nat), NEW c \in Conn,
         \A d \in Conn, i \in Nat : <<d, i>> \in Q =>
           IF d = c THEN i >= 1 /\ <<d, i + 1>> \in P ELSE <<d, i>> \in P
  PROVE  /\ IsFiniteSet(Q) /\ Cardinality(Q) \in Nat
         /\ Cardinality(Q) + (IF <<c, 1>> \in P THEN 1 ELSE 0) <= Cardinality(P)
         /\ (\A d \in Conn, i \in Nat : IF d = c THEN i >= 1 /\ <<d, i + 1>> \in P => <<d, i>> \in Q
                                       ELSE <<d, i>> \in P => <<d, i>> \in Q)
            /\ (\A i \in Nat : <<c, i>> \in P => i >= 1)
            => Cardinality(Q) + (IF <<c, 1>> \in P THEN 1 ELSE 0) = Cardinality(P)
<1> DEFINE T == P \ {<<c, 1>>}
           f == [x \in Q |-> IF x[1] = c THEN <<c, x[2] + 1>> ELSE x]
<1>1. \A d \in Conn, i \in Nat : <<d, i>> \in Q =>
        f[<<d, i>>] = (IF d = c THEN <<c, i + 1>> ELSE <<d, i>>) /\ f[<<d, i>>] \in T
  <2> SUFFICES ASSUME NEW d \in Conn, NEW i \in Nat, <<d, i>> \in Q
               PROVE  f[<<d, i>>] = (IF d = c THEN <<c, i + 1>> ELSE <<d, i>>) /\ f[<<d, i>>] \in T
    OBVIOUS
  <2>1. f[<<d, i>>] = IF d = c THEN <<c, i + 1>> ELSE <<d, i>>
    OBVIOUS
  <2>2. CASE d = c
    <3>1. i >= 1 /\ <<c, i + 1>> \in P
      BY <2>2
    <3>2. <<c, i + 1>> # <<c, 1>>
      BY <3>1
    <3>3. QED
      BY <2>1, <2>2, <3>1, <3>2
  <2>3. CASE d # c
    BY <2>1, <2>3
  <2>4. QED
    BY <2>1, <2>2, <2>3
<1>2. IsFiniteSet(T) /\ Cardinality(T) = Cardinality(P) - (IF <<c, 1>> \in P THEN 1 ELSE 0)
  <2>1. Cardinality(P) \in Nat
    BY FS_CardinalityType
  <2>2. PICK z : z = <<c, 1>>
    OBVIOUS
  <2>3. /\ IsFiniteSet(P \ {z})
        /\ Cardinality(P \ {z}) = IF z \in P THEN Cardinality(P) - 1 ELSE Cardinality(P)
    BY FS_RemoveElement
  <2>4. QED
    BY <2>1, <2>2, <2>3
<1>3. \A x \in Q : f[x] \in T
  BY <1>1
<1>4. \A x, y \in Q : f[x] = f[y] => x = y
  <2> SUFFICES ASSUME NEW d \in Conn, NEW i \in Nat, NEW e \in Conn, NEW j \in Nat,
                      <<d, i>> \in Q, <<e, j>> \in Q, f[<<d, i>>] = f[<<e, j>>]
               PROVE  d = e /\ i = j
    OBVIOUS
  <2>1. (IF d = c THEN <<c, i + 1>> ELSE <<d, i>>) = (IF e = c THEN <<c, j + 1>> ELSE <<e, j>>)
    BY <1>1
  <2>2. QED
    BY <2>1
<1>5. f \in Injection(Q, T)
  <2>1. f \in [Q -> T]
    BY <1>3
  <2> HIDE DEF f, T
  <2>2. QED
    BY <2>1, <1>4 DEF Injection, IsInjective
<1>6. ASSUME \A d \in Conn, i \in Nat : IF d = c THEN i >= 1 /\ <<d, i + 1>> \in P => <<d, i>> \in Q
                                        ELSE <<d, i>> \in P => <<d, i>> \in Q,
             \A i \in Nat : <<c, i>> \in P => i >= 1
      PROVE  f \in Surjection(Q, T)
  <2>1. ASSUME NEW y \in T
        PROVE  \E x \in Q : f[x] = y
    <3>1. PICK d \in Conn : \E i \in Nat : y = <<d, i>>
      OBVIOUS
    <3>2. PICK i \in Nat : y = <<d, i>>
      BY <3>1
    <3>3. CASE d = c
      <4>1. <<c, i>> \in P /\ i # 1 /\ i >= 1
        BY <1>6, <3>2, <3>3
      <4>2. i - 1 \in Nat /\ i - 1 >= 1 /\ (i - 1) + 1 = i
        BY <4>1
      <4>3. <<c, i - 1>> \in Q
        BY <1>6, <4>1, <4>2
      <4>4. f[<<c, i - 1>>] = <<c, i>>
        BY <1>1, <4>2, <4>3
      <4>5. QED
        BY <3>2, <3>3, <4>3, <4>4
    <3>4. CASE d # c
      <4>1. <<d, i>> \in Q
        BY <1>6, <3>2, <3>4
      <4>2. f[<<d, i>>] = <<d, i>>
        BY <1>1, <3>4, <4>1
      <4>3. QED
        BY <3>2, <4>1, <4>2
    <3>5. QED
      BY <3>3, <3>4
  <2>2. f \in [Q -> T]
    BY <1>3
  <2> HIDE DEF f, T
  <2>3. QED
    BY <2>1, <2>2 DEF Surjection
<1> HIDE DEF f, T
<1>7. /\ IsFiniteSet(Q) /\ Cardinality(Q) <= Cardinality(T)
      /\ Cardinality(Q) = Cardinality(T) <=> f \in Surjection(Q, T)
  BY <1>2, <1>5, FS_Injection
<1>8. Cardinality(Q) \in Nat /\ Cardinality(P) \in Nat
  BY <1>7, FS_CardinalityType
<1>9. QED
  BY <1>2, <1>6, <1>7, <1>8

LEMMA PlaceBehind ==
  ASSUME NEW a \in Seq(AnyMsg), NEW b \in Seq(AnyMsg)
  PROVE  Len(a) + Len(b) + 1 \in Nat /\ Len(a) + Len(b) + 1 \notin Marked(a, b)
BY DEF Marked

LEMMA OneLess ==
  ASSUME NEW o \in Nat, NEW q \in Nat, NEW n \in Nat, o = q + 1, o <= n
  PROVE  n >= 1 /\ q <= n - 1 /\ (n = o => n - 1 = q)
OBVIOUS

\* A question to each of some connections
Each(S, n) == {<<c, n[c]>> : c \in S}

LEMMA OneMoreEach ==
  ASSUME NEW P \in SUBSET (Conn \X Nat), IsFiniteSet(P), NEW S \in SUBSET Conn, IsFiniteSet(S),
         NEW n \in [S -> Nat], \A c \in S : <<c, n[c]>> \notin P
  PROVE  Cardinality(P \cup Each(S, n)) = Cardinality(P) + Cardinality(S)
<1> DEFINE T == Each(S, n)
           f == [c \in S |-> <<c, n[c]>>]
<1>1. f \in Bijection(S, T)
  <2>1. f \in [S -> T] /\ (\A c, d \in S : f[c] = f[d] => c = d) /\ \A t \in T : \E c \in S : f[c] = t
    BY DEF Each
  <2> HIDE DEF f, T
  <2>2. QED
    BY <2>1 DEF Bijection, Injection, IsInjective, Surjection
<1>2. P \cap T = {} /\ T = Each(S, n)
  BY DEF Each
<1> HIDE DEF f, T
<1>3. IsFiniteSet(T) /\ Cardinality(T) = Cardinality(S)
  BY <1>1, FS_Bijection DEF ExistsBijection
<1>4. Cardinality(P) \in Nat /\ Cardinality(T) \in Nat
  BY <1>3, FS_CardinalityType
<1>5. Cardinality(P \cup T) = Cardinality(P) + Cardinality(T) - Cardinality({})
  BY <1>2, <1>3, FS_Union
<1>6. QED
  BY <1>2, <1>3, <1>4, <1>5, FS_EmptySet

-----------------------------------------------------------------------------
(* The count of the answers awaited                                         *)

PlacesOf(I, a, b) == {x \in Conn \X Nat : x[1] \in I /\ x[2] \in Marked(a[x[1]], b[x[1]])}

\* The places of a connection that hold a question or an answer, and those of all items
MarkedOn(c) == Marked(toPM[c], toProxy[c])
Places      == PlacesOf(Items, toPM, toProxy)

LEMMA PlacesFinite ==
  ASSUME NEW I \in SUBSET Conn, IsFiniteSet(I),
         NEW a \in [Conn -> Seq(AnyMsg)], NEW b \in [Conn -> Seq(AnyMsg)]
  PROVE  /\ IsFiniteSet(PlacesOf(I, a, b)) /\ PlacesOf(I, a, b) \in SUBSET (Conn \X Nat)
         /\ PlacesOf(I, a, b) = UNION {{c} \X {i \in DOMAIN (a[c] \o b[c]) :
                                                (a[c] \o b[c])[i].type \in {"add", "added"}} : c \in I}
         /\ \A c \in Conn, i \in Nat : <<c, i>> \in PlacesOf(I, a, b) <=> c \in I /\ i \in Marked(a[c], b[c])
<1> DEFINE W == {{c} \X Marked(a[c], b[c]) : c \in I}
           A(c) == {i \in DOMAIN (a[c] \o b[c]) : (a[c] \o b[c])[i].type \in {"add", "added"}}
<1>1. \A c \in I : IsFiniteSet(Marked(a[c], b[c])) /\ Marked(a[c], b[c]) \subseteq Nat
                   /\ A(c) = Marked(a[c], b[c])
  BY MarkedFinite, AwaitedMarked
<1> HIDE DEF A
<1>2. \A w \in W : IsFiniteSet(w)
  <2>1. ASSUME NEW c \in I
        PROVE  IsFiniteSet({c} \X Marked(a[c], b[c]))
    BY <1>1, FS_Singleton, FS_Product
  <2>2. QED
    BY <2>1
<1>3. IsFiniteSet(W)
  <2> DEFINE f == [c \in I |-> {c} \X Marked(a[c], b[c])]
  <2>1. f \in [I -> W] /\ \A w \in W : \E c \in I : f[c] = w
    OBVIOUS
  <2> HIDE DEF f, W
  <2>2. f \in Surjection(I, W)
    BY <2>1 DEF Surjection
  <2>3. QED
    BY <2>2, FS_Surjection
<1>4. PlacesOf(I, a, b) = UNION W
  <2>1. ASSUME NEW x \in PlacesOf(I, a, b)
        PROVE  x \in UNION W
    BY DEF PlacesOf
  <2>2. ASSUME NEW x \in UNION W
        PROVE  x \in PlacesOf(I, a, b)
    <3>1. PICK c \in I : x \in {c} \X Marked(a[c], b[c])
      OBVIOUS
    <3>2. QED
      BY <1>1, <3>1 DEF PlacesOf
  <2>3. QED
    BY <2>1, <2>2
<1>5. {{c} \X A(c) : c \in I} = W
  BY <1>1
<1>6. IsFiniteSet(UNION W)
  <2> HIDE DEF W
  <2>1. QED
    BY <1>2, <1>3, FS_UNION
<1>7. PlacesOf(I, a, b) \in SUBSET (Conn \X Nat)
      /\ \A c \in Conn, i \in Nat : <<c, i>> \in PlacesOf(I, a, b) <=> c \in I /\ i \in Marked(a[c], b[c])
  BY DEF PlacesOf
<1>8. PlacesOf(I, a, b) = UNION {{c} \X A(c) : c \in I}
  BY <1>4, <1>5
<1>9. QED
  BY <1>4, <1>6, <1>7, <1>8 DEF A

LEMMA AnyChannel ==
  /\ \A q \in [Conn -> Seq(ToPMMsg)] : q \in [Conn -> Seq(AnyMsg)]
  /\ \A q \in [Conn -> Seq(ToProxyMsg)] : q \in [Conn -> Seq(AnyMsg)]
<1>1. \A s \in Seq(ToPMMsg) : s \in Seq(AnyMsg)
  BY DEF AnyMsg
<1>2. \A s \in Seq(ToProxyMsg) : s \in Seq(AnyMsg)
  BY DEF AnyMsg
<1>3. QED
  BY <1>1, <1>2

LEMMA OwedPlaces ==
  ASSUME TypeInv
  PROVE  /\ Owed = Cardinality(Places) /\ Owed \in Nat
         /\ IsFiniteSet(Places) /\ Places \in SUBSET (Conn \X Nat)
         /\ \A c \in Conn, i \in Nat : <<c, i>> \in Places <=> c \in Items /\ i \in MarkedOn(c)
         /\ \A c \in Conn : toPM[c] \in Seq(AnyMsg) /\ toProxy[c] \in Seq(AnyMsg)
                            /\ MarkedOn(c) \subseteq Nat \ {0}
<1>1. toPM \in [Conn -> Seq(AnyMsg)] /\ toProxy \in [Conn -> Seq(AnyMsg)]
  BY AnyChannel DEF TypeInv, TypeNet
<1>2. Items \in SUBSET Conn /\ IsFiniteSet(Items)
  BY DEF TypeInv, TypePm, TypeItems
<1>3. IsFiniteSet(Places)
  BY <1>1, <1>2, PlacesFinite DEF Places
<1>4. Owed = Cardinality(Places)
  BY <1>1, <1>2, PlacesFinite DEF Places, Owed, Awaited, Way
<1>5. /\ Places \in SUBSET (Conn \X Nat)
      /\ \A c \in Conn, i \in Nat : <<c, i>> \in Places <=> c \in Items /\ i \in MarkedOn(c)
  BY <1>1, <1>2, PlacesFinite DEF Places, MarkedOn
<1>6. \A c \in Conn : MarkedOn(c) \subseteq Nat \ {0}
  BY <1>1, MarkedFinite DEF MarkedOn
<1>7. QED
  BY <1>1, <1>3, <1>4, <1>5, <1>6, FS_CardinalityType

LEMMA OwedPlacesNext ==
  ASSUME TypeInv'
  PROVE  /\ Owed' = Cardinality(Places') /\ Owed' \in Nat
         /\ IsFiniteSet(Places') /\ Places' \in SUBSET (Conn \X Nat)
         /\ \A c \in Conn, i \in Nat : <<c, i>> \in Places' <=> c \in Items' /\ i \in MarkedOn(c)'
         /\ \A c \in Conn : MarkedOn(c)' \subseteq Nat \ {0}
<1>1. toPM' \in [Conn -> Seq(AnyMsg)] /\ toProxy' \in [Conn -> Seq(AnyMsg)]
  BY AnyChannel DEF TypeInv, TypeNet
<1>2. Items' \in SUBSET Conn /\ IsFiniteSet(Items')
  BY DEF TypeInv, TypePm, TypeItems
<1>3. IsFiniteSet(Places')
  BY <1>1, <1>2, PlacesFinite DEF Places
<1>4. Owed' = Cardinality(Places')
  BY <1>1, <1>2, PlacesFinite DEF Places, Owed, Awaited, Way
<1>5. /\ Places' \in SUBSET (Conn \X Nat)
      /\ \A c \in Conn, i \in Nat : <<c, i>> \in Places' <=> c \in Items' /\ i \in MarkedOn(c)'
  BY <1>1, <1>2, PlacesFinite DEF Places, MarkedOn
<1>6. \A c \in Conn : MarkedOn(c)' \subseteq Nat \ {0}
  BY <1>1, MarkedFinite DEF MarkedOn
<1>7. QED
  BY <1>3, <1>4, <1>5, <1>6, FS_CardinalityType

\* A step without a new question and without an answer taken
LEMMA NoMoreOwed ==
  ASSUME TypeInv, TypeInv',
         \A c \in Items' : MarkedOn(c)' = {} \/ (c \in Items /\ MarkedOn(c)' \subseteq MarkedOn(c))
  PROVE  /\ Owed' <= Owed
         /\ (\A c \in Items : c \in Items' /\ MarkedOn(c) \subseteq MarkedOn(c)') => Owed' = Owed
<1>1. Places' \subseteq Places
  <2>1. ASSUME NEW c \in Conn, NEW i \in Nat, <<c, i>> \in Places'
        PROVE  <<c, i>> \in Places
    BY <2>1, OwedPlaces, OwedPlacesNext
  <2>2. QED
    BY <2>1, OwedPlacesNext
<1>2. ASSUME \A c \in Items : c \in Items' /\ MarkedOn(c) \subseteq MarkedOn(c)'
      PROVE  Places' = Places
  <2>1. ASSUME NEW c \in Conn, NEW i \in Nat, <<c, i>> \in Places
        PROVE  <<c, i>> \in Places'
    BY <1>2, <2>1, OwedPlaces, OwedPlacesNext
  <2>2. Places \subseteq Places'
    BY <2>1, OwedPlaces
  <2>3. QED
    BY <1>1, <2>2
<1>3. /\ Owed = Cardinality(Places) /\ Owed' = Cardinality(Places') /\ IsFiniteSet(Places)
      /\ Cardinality(Places') <= Cardinality(Places)
  BY <1>1, OwedPlaces, OwedPlacesNext, FS_Subset
<1>4. QED
  BY <1>2, <1>3

\* The proxy manager takes a message of c and may write one to it.
LEMMA OneNearer ==
  ASSUME TypeInv, TypeInv', NEW c \in Items, toPM[c] # <<>>, toPM'[c] = Tail(toPM[c]),
         \/ toProxy'[c] = toProxy[c]
         \/ \E m \in ToProxyMsg : m.type \notin Asking /\ toProxy'[c] = Append(toProxy[c], m),
         Items' \subseteq Items, \A d \in Items' \ {c} : MarkedOn(d)' \subseteq MarkedOn(d)
  PROVE  LET taken == IF Head(toPM[c]).type \in Asking THEN 1 ELSE 0
         IN  /\ Owed' + taken <= Owed
             /\ Items' = Items /\ (\A d \in Items \ {c} : MarkedOn(d)' = MarkedOn(d))
                => Owed' + taken = Owed
<1>1. c \in Conn /\ toPM[c] \in Seq(AnyMsg) /\ toProxy[c] \in Seq(AnyMsg) /\ Tail(toPM[c]) \in Seq(AnyMsg)
  <2>1. c \in Conn
    BY DEF TypeInv, TypePm, TypeItems
  <2>2. toPM[c] \in Seq(AnyMsg) /\ toProxy[c] \in Seq(AnyMsg)
    BY <2>1, OwedPlaces
  <2>3. QED
    BY <2>1, <2>2, HeadTail
<1>2. MarkedOn(c)' = Marked(Tail(toPM[c]), toProxy[c])
  <2>1. ASSUME NEW m \in ToProxyMsg, m.type \notin Asking, toProxy'[c] = Append(toProxy[c], m)
        PROVE  MarkedOn(c)' = Marked(Tail(toPM[c]), toProxy[c])
    <3>1. Marked(Tail(toPM[c]), Append(toProxy[c], m)) = Marked(Tail(toPM[c]), toProxy[c])
      BY <1>1, <2>1, MarkedAppend DEF AnyMsg
    <3>2. QED
      BY <2>1, <3>1 DEF MarkedOn
  <2>2. QED
    BY <2>1 DEF MarkedOn
<1>3. /\ 1 \in MarkedOn(c) <=> Head(toPM[c]).type \in Asking
      /\ \A j \in Nat : j \in MarkedOn(c)' <=> j >= 1 /\ j + 1 \in MarkedOn(c)
  BY <1>1, <1>2, MarkedTail DEF MarkedOn
<1>4. \A d \in Conn, i \in Nat : <<d, i>> \in Places' =>
        IF d = c THEN i >= 1 /\ <<d, i + 1>> \in Places ELSE <<d, i>> \in Places
  <2>1. SUFFICES ASSUME NEW d \in Conn, NEW i \in Nat, <<d, i>> \in Places'
                 PROVE  IF d = c THEN i >= 1 /\ <<d, i + 1>> \in Places ELSE <<d, i>> \in Places
    OBVIOUS
  <2>2. d \in Items' /\ i \in MarkedOn(d)'
    BY <2>1, OwedPlacesNext
  <2>3. CASE d = c
    <3>1. i >= 1 /\ i + 1 \in MarkedOn(c) /\ i + 1 \in Nat
      BY <1>3, <2>2, <2>3
    <3>2. <<c, i + 1>> \in Places
      BY <1>1, <3>1, OwedPlaces
    <3>3. QED
      BY <2>3, <3>1, <3>2
  <2>4. CASE d # c
    BY <2>2, <2>4, OwedPlaces
  <2>5. QED
    BY <2>3, <2>4
<1>5. <<c, 1>> \in Places <=> Head(toPM[c]).type \in Asking
  BY <1>1, <1>3, OwedPlaces
<1>6. ASSUME Items' = Items, \A d \in Items \ {c} : MarkedOn(d)' = MarkedOn(d)
      PROVE  /\ \A d \in Conn, i \in Nat : IF d = c THEN i >= 1 /\ <<d, i + 1>> \in Places => <<d, i>> \in Places'
                                           ELSE <<d, i>> \in Places => <<d, i>> \in Places'
             /\ \A i \in Nat : <<c, i>> \in Places => i >= 1
  <2>1. ASSUME NEW i \in Nat, i >= 1, <<c, i + 1>> \in Places
        PROVE  <<c, i>> \in Places'
    <3>1. i + 1 \in Nat
      OBVIOUS
    <3>2. i + 1 \in MarkedOn(c)
      BY <1>1, <2>1, <3>1, OwedPlaces
    <3>3. i \in MarkedOn(c)'
      BY <1>3, <2>1, <3>2
    <3>4. QED
      BY <1>1, <1>6, <3>3, OwedPlacesNext
  <2>2. ASSUME NEW d \in Conn, d # c, NEW i \in Nat, <<d, i>> \in Places
        PROVE  <<d, i>> \in Places'
    BY <1>6, <2>2, OwedPlaces, OwedPlacesNext
  <2>3. \A i \in Nat : <<c, i>> \in Places => i >= 1
    BY <1>1, OwedPlaces
  <2>4. QED
    BY <2>1, <2>2, <2>3
<1>7. PICK P \in SUBSET (Conn \X Nat) : P = Places
  BY OwedPlaces
<1>8. PICK Q \in SUBSET (Conn \X Nat) : Q = Places'
  BY OwedPlacesNext
<1>9. /\ IsFiniteSet(P) /\ Cardinality(P) = Owed /\ Cardinality(Q) = Owed'
  BY <1>7, <1>8, OwedPlaces, OwedPlacesNext
<1>10. /\ Cardinality(Q) + (IF <<c, 1>> \in P THEN 1 ELSE 0) <= Cardinality(P)
       /\ (\A d \in Conn, i \in Nat : IF d = c THEN i >= 1 /\ <<d, i + 1>> \in P => <<d, i>> \in Q
                                     ELSE <<d, i>> \in P => <<d, i>> \in Q)
          /\ (\A i \in Nat : <<c, i>> \in P => i >= 1)
          => Cardinality(Q) + (IF <<c, 1>> \in P THEN 1 ELSE 0) = Cardinality(P)
  BY <1>1, <1>4, <1>7, <1>8, <1>9, NearerPlaces
<1>11. QED
  BY <1>5, <1>6, <1>7, <1>8, <1>9, <1>10

\* A question to each connection of a set
LEMMA OneMoreOwed ==
  ASSUME TypeInv, TypeInv', Items' = Items, toPM' = toPM, NEW S \in SUBSET Items, IsFiniteSet(S),
         NEW m \in ToProxyMsg, m.type \in Asking,
         toProxy' = [c \in Conn |-> IF c \in S THEN Append(toProxy[c], m) ELSE toProxy[c]]
  PROVE  Owed' = Owed + Cardinality(S)
<1> DEFINE n == [c \in S |-> Len(toPM[c]) + Len(toProxy[c]) + 1]
<1>1. S \subseteq Conn
  BY DEF TypeInv, TypePm, TypeItems
<1>2. \A c \in Conn : Len(toPM[c]) \in Nat /\ Len(toProxy[c]) \in Nat
  BY DEF TypeInv, TypeNet
<1>3. \A c \in Conn : MarkedOn(c)' = IF c \in S THEN MarkedOn(c) \cup {n[c]} ELSE MarkedOn(c)
  BY OwedPlaces, MarkedAppend DEF MarkedOn, AnyMsg
<1>4. ASSUME NEW c \in S
      PROVE  n[c] \in Nat /\ n[c] \notin MarkedOn(c)
  <2>1. n[c] = Len(toPM[c]) + Len(toProxy[c]) + 1 /\ c \in Conn
    BY <1>1
  <2>2. toPM[c] \in Seq(AnyMsg) /\ toProxy[c] \in Seq(AnyMsg)
    BY <2>1, OwedPlaces
  <2> HIDE DEF n
  <2>3. QED
    BY <2>1, <2>2, PlaceBehind DEF MarkedOn
<1>5. n \in [S -> Nat]
  BY <1>4
<1> HIDE DEF n
<1>6. \A c \in S : <<c, n[c]>> \notin Places
  BY <1>1, <1>4, OwedPlaces
<1>7. Places' = Places \cup Each(S, n)
  <2>1. ASSUME NEW c \in Conn, NEW i \in Nat
        PROVE  <<c, i>> \in Places' <=> <<c, i>> \in Places \/ (c \in S /\ i = n[c])
    BY <1>3, OwedPlaces, OwedPlacesNext
  <2>2. ASSUME NEW c \in Conn, NEW i \in Nat
        PROVE  <<c, i>> \in Each(S, n) <=> c \in S /\ i = n[c]
    BY DEF Each
  <2>3. Each(S, n) \subseteq Conn \X Nat
    BY <1>1, <1>4 DEF Each
  <2>4. Places' \subseteq Conn \X Nat /\ Places \subseteq Conn \X Nat
    BY OwedPlaces, OwedPlacesNext
  <2>5. QED
    BY <2>1, <2>2, <2>3, <2>4
<1>8. PICK P \in SUBSET (Conn \X Nat) : P = Places
  BY OwedPlaces
<1>9. Cardinality(Places') = Cardinality(P) + Cardinality(S)
  <2>1. S \in SUBSET Conn /\ IsFiniteSet(P) /\ \A c \in S : <<c, n[c]>> \notin P
    BY <1>1, <1>6, <1>8, OwedPlaces
  <2>2. PICK k \in [S -> Nat] : k = n
    BY <1>5
  <2>3. Cardinality(P \cup Each(S, k)) = Cardinality(P) + Cardinality(S)
    BY <2>1, <2>2, OneMoreEach
  <2>4. QED
    BY <1>7, <1>8, <2>2, <2>3
<1>10. QED
  BY <1>8, <1>9, OwedPlaces, OwedPlacesNext

SameMarks == Items' = Items /\ \A c \in Items : MarkedOn(c)' = MarkedOn(c)

LEMMA SameOwed ==
  ASSUME TypeInv, TypeInv', SameMarks
  PROVE  Owed' = Owed
BY NoMoreOwed DEF SameMarks

\* Nothing was asked on a connection that waits to be accepted.
NewInv == \A c \in Conn : link[c] = "new" => MarkedOn(c) = {}

Counts == /\ Owed <= addServerCount
          /\ ProxiesStay => addServerCount = Owed

\* The most answers that can be awaited
Limit == MaxList + Cardinality(Conn) * (MaxBacklog + Cardinality(Server))

\* What is announced still fits the counter.
Fits == IF ilm = "up" THEN addServerCount + (Cardinality(Conn) * Len(fromILM)) <= Limit
        ELSE fromILM = <<>> /\ addServerCount <= MaxList

CountFits == IsFiniteSet(Conn) /\ IsFiniteSet(Server) /\ Limit < Width

CountInv == NewInv /\ Counts /\ Fits

LEMMA KeepsCounts ==
  ASSUME TypeInv, TypeInv', world' = world, addServerCount' = addServerCount, Counts,
         Owed' <= Owed, ProxiesStay => Owed' = Owed
  PROVE  Counts'
<1>1. Owed \in Nat /\ Owed' \in Nat /\ addServerCount \in Nat
  BY OwedPlaces, OwedPlacesNext DEF TypeInv, TypePm
<1>2. ProxiesStay' = ProxiesStay
  BY DEF ProxiesStay
<1>3. QED
  BY <1>1, <1>2 DEF Counts

LEMMA StartAgainCounts ==
  ASSUME TypeInv, TypeInv', StartAgain
  PROVE  Counts'
<1>1. Items' = {} /\ addServerCount' = 0
  BY DEF StartAgain, Items
<1>2. Places' = {}
  BY <1>1, OwedPlacesNext
<1>3. Owed' = 0
  BY <1>2, OwedPlacesNext, FS_EmptySet
<1>4. QED
  BY <1>1, <1>3 DEF Counts

\* A message that is no answer is handled and may be replied to with no question.
LEMMA ReceiveCounts ==
  ASSUME TypeInv, TypeInv', LinkInv, Counts, world' = world, addServerCount' = addServerCount,
         NEW c \in Conn, NEW type, Receive(c, type), type \notin Asking, toPM'[c] = Tail(toPM[c]),
         \/ toProxy'[c] = toProxy[c]
         \/ \E m \in ToProxyMsg : m.type \notin Asking /\ toProxy'[c] = Append(toProxy[c], m),
         Items' \subseteq Items, \A d \in Items' \ {c} : MarkedOn(d)' \subseteq MarkedOn(d),
         ProxiesStay => SameMarks \/ (Items' = Items /\ \A d \in Items \ {c} : MarkedOn(d)' = MarkedOn(d))
  PROVE  Counts'
<1>1. c \in Items /\ toPM[c] # <<>> /\ Head(toPM[c]).type = type
  BY DEF Receive, LinkInv, ItemInv
<1> DEFINE taken == IF Head(toPM[c]).type \in Asking THEN 1 ELSE 0
<1>2. /\ Owed' + taken <= Owed
      /\ Items' = Items /\ (\A d \in Items \ {c} : MarkedOn(d)' = MarkedOn(d)) => Owed' + taken = Owed
  BY <1>1, OneNearer
<1>3. taken = 0 /\ Owed \in Nat /\ Owed' \in Nat
  BY <1>1, OwedPlaces, OwedPlacesNext
<1> HIDE DEF taken
<1>4. Owed' <= Owed /\ (ProxiesStay => Owed' = Owed)
  BY <1>2, <1>3, SameOwed
<1>5. QED
  BY <1>4, KeepsCounts

LEMMA JoinCounts ==
  ASSUME TypeInv, TypeInv', LinkInv, NoLoss, Counts, NEW c \in Conn, ProxyJoin(c)
  PROVE  Counts'
<1> DEFINE known == SameProxy(peer[c])
<1>1. Receive(c, "join") /\ known \subseteq Items \ {c} /\ c \in Items
  BY JoinAtHead DEF ProxyJoin
<1>2. /\ Items' = Items \ known
      /\ \A d \in Conn : toPM'[d] = IF d = c THEN Tail(toPM[c]) ELSE IF d \in known THEN <<>> ELSE toPM[d]
      /\ world' = world /\ addServerCount' = addServerCount
  BY DEF ProxyJoin, Items, ilmVars
<1>3. \A d \in Conn \ {c} : toProxy'[d] = toProxy[d]
  BY DEF ProxyJoin, Put, TypeInv, TypeNet
<1>4. \/ toProxy'[c] = toProxy[c]
      \/ \E m \in ToProxyMsg : m.type \notin Asking /\ toProxy'[c] = Append(toProxy[c], m)
  <2>1. JoinId(c) \in Nat
    BY <1>1, ReceiveTypes, ToPMFields DEF JoinId, AllocProxyID, TypeInv, TypePm
  <2>2. (IF JoinId(c) = 0 THEN <<>> ELSE servers) \in Seq(Server)
    BY DEF TypeInv, TypePm
  <2>3. PICK m : m = Joined(JoinId(c) # 0, JoinId(c), IF JoinId(c) = 0 THEN <<>> ELSE servers)
    OBVIOUS
  <2>4. m \in ToProxyMsg /\ m.type \notin Asking
    <3>1. (JoinId(c) # 0) \in BOOLEAN
      OBVIOUS
    <3>2. m \in ToProxyMsg
      BY <2>1, <2>2, <2>3, <3>1, MessageTypes
    <3>3. QED
      BY <2>3, <3>2 DEF Joined, Asking
  <2>5. toProxy' = toProxy \/ toProxy' = Put(toProxy, c, m)
    BY <2>3 DEF ProxyJoin
  <2>6. QED
    BY <2>4, <2>5 DEF Put, TypeInv, TypeNet
<1>5. \A d \in Items' \ {c} : MarkedOn(d)' = MarkedOn(d)
  BY <1>2, <1>3 DEF MarkedOn, TypeInv, TypePm, TypeItems
<1>6. ProxiesStay => Items' = Items
  BY <1>1, <1>2, NoSecondItem
<1> HIDE DEF known
<1>7. "join" \notin Asking /\ toPM'[c] = Tail(toPM[c]) /\ Items' \subseteq Items
  BY <1>2 DEF Asking
<1>8. QED
  BY <1>1, <1>2, <1>4, <1>5, <1>6, <1>7, ReceiveCounts

LEMMA ReplyCounts ==
  ASSUME TypeInv, TypeInv', LinkInv, Counts, CountFits, Fits, NEW c \in Conn, OnAddServerReply(c)
  PROVE  /\ Counts' /\ addServerCount' = addServerCount - 1
<1>1. /\ Receive(c, "added") /\ c \in Items /\ toPM[c] # <<>> /\ Head(toPM[c]).type = "added"
      /\ toPM' = [toPM EXCEPT ![c] = Tail(@)] /\ toProxy' = toProxy /\ Items' = Items
      /\ world' = world /\ addServerCount' = (addServerCount + Width - 1) % Width
  BY DEF OnAddServerReply, Counted, Received, Receive, LinkInv, ItemInv, Items, ilmVars
<1>2. toPM'[c] = Tail(toPM[c]) /\ \A d \in Items \ {c} : MarkedOn(d)' = MarkedOn(d)
  BY <1>1 DEF MarkedOn, TypeInv, TypeNet, TypePm, TypeItems
<1> DEFINE taken == IF Head(toPM[c]).type \in Asking THEN 1 ELSE 0
<1>3. Owed' + taken = Owed
  BY <1>1, <1>2, OneNearer
<1>4. taken = 1 /\ Owed \in Nat /\ Owed' \in Nat /\ addServerCount \in Nat
  BY <1>1, OwedPlaces, OwedPlacesNext DEF TypeInv, TypePm, Asking
<1> HIDE DEF taken
<1>5. Owed = Owed' + 1
  BY <1>3, <1>4
<1>6. addServerCount >= 1 /\ addServerCount < Width
  <2>1. addServerCount >= 1
    <3>1. Owed <= addServerCount
      BY DEF Counts
    <3>2. QED
      BY <1>4, <1>5, <3>1, OneLess
  <2>2. /\ Cardinality(Conn) \in Nat /\ Cardinality(Server) \in Nat /\ MaxBacklog \in Nat /\ MaxList \in Nat
        /\ Width \in Nat /\ Len(fromILM) \in Nat
    BY PMAssumption, FS_CardinalityType DEF CountFits, TypeInv, TypeIlm
  <2>3. \A x, y \in Nat : x * y \in Nat
    OBVIOUS
  <2>4. Cardinality(Conn) * Len(fromILM) \in Nat
        /\ Cardinality(Conn) * (MaxBacklog + Cardinality(Server)) \in Nat
    BY <2>2, <2>3
  <2>5. addServerCount <= Limit
    BY <1>4, <2>2, <2>4 DEF Fits, Limit
  <2>6. Limit \in Nat
    BY <2>2, <2>4 DEF Limit
  <2>7. QED
    BY <1>4, <2>1, <2>2, <2>5, <2>6 DEF CountFits
<1>7. addServerCount' = addServerCount - 1
  <2>1. Width \in Nat
    BY PMAssumption
  <2>2. addServerCount + Width - 1 = (addServerCount - 1) + Width
    BY <1>4, <2>1
  <2>3. ((addServerCount - 1) + Width) % Width = addServerCount - 1
    BY <1>4, <1>6, <2>1
  <2>4. QED
    BY <1>1, <2>2, <2>3
<1>8. Counts'
  <2>1. Owed' <= addServerCount' /\ (addServerCount = Owed => addServerCount' = Owed')
    <3>1. Owed <= addServerCount
      BY DEF Counts
    <3>2. QED
      BY <1>4, <1>7, <1>5, <3>1, OneLess
  <2>2. ProxiesStay' <=> ProxiesStay
    BY <1>1 DEF ProxiesStay
  <2>3. QED
    BY <2>1, <2>2 DEF Counts
<1>9. QED
  BY <1>7, <1>8

LEMMA HandleCounts ==
  ASSUME TypeInv, TypeInv', LinkInv, NoLoss, NewInv, Counts, CountFits, Fits, NEW c \in Conn, Handle(c)
  PROVE  Counts'
<1>0. c \in Conn /\ world' = world
  BY SameWorld DEF Next
<1>1. CASE AcceptProxy(c)
  <2>1. /\ Items' = Items \cup {c} /\ toPM' = toPM /\ toProxy' = toProxy /\ link[c] = "new"
        /\ addServerCount' = addServerCount
    BY <1>1 DEF AcceptProxy, Items
  <2>2. MarkedOn(c) = {} /\ \A d \in Conn : MarkedOn(d)' = MarkedOn(d)
    BY <2>1 DEF NewInv, MarkedOn
  <2>3. Items \subseteq Conn /\ Items' \subseteq Conn
    BY DEF TypeInv, TypePm, TypeItems
  <2>4. Owed' <= Owed /\ Owed' = Owed
    BY <2>1, <2>2, <2>3, NoMoreOwed
  <2>5. QED
    BY <1>0, <2>1, <2>4, KeepsCounts
<1>2. CASE ProxyJoin(c)
  BY <1>2, JoinCounts
<1>3. CASE ProxyJoinThrows(c)
  <2>1. /\ Items' \subseteq Items \ {c} /\ ~ ProxiesStay /\ addServerCount' = addServerCount
        /\ \A d \in Conn \ {c} : toProxy'[d] = toProxy[d] /\ toPM'[d] \in {<<>>, toPM[d]}
        /\ \A d \in Items' : toPM'[d] = toPM[d]
    BY <1>3 DEF ProxyJoinThrows, Items, ProxiesStay, TypeInv, TypeNet, TypePm, TypeItems
  <2>2. Items' \subseteq Conn
    BY DEF TypeInv, TypePm, TypeItems
  <2>3. \A d \in Items' : d \in Items /\ MarkedOn(d)' \subseteq MarkedOn(d)
    BY <2>1, <2>2 DEF MarkedOn
  <2>4. Owed' <= Owed
    BY <2>3, NoMoreOwed
  <2>5. QED
    BY <1>0, <2>1, <2>4, KeepsCounts
<1>4. CASE ProxyJoinComplete(c) \/ ProxyStatus(c) \/ OnGranted(c)
  <2>1. PICK type \in {"complete", "status", "granted"} : Receive(c, type)
    BY <1>4 DEF ProxyJoinComplete, ProxyStatus, OnGranted
  <2>2. /\ toPM' = [toPM EXCEPT ![c] = Tail(@)] /\ toProxy' = toProxy /\ Items' = Items
        /\ addServerCount' = addServerCount
    BY <1>4 DEF ProxyJoinComplete, ProxyStatus, OnGranted, Received, Items, pmVars
  <2>3. toPM'[c] = Tail(toPM[c]) /\ type \notin Asking
    BY <2>1, <2>2 DEF TypeInv, TypeNet, Asking
  <2>4. \A d \in Items \ {c} : MarkedOn(d)' = MarkedOn(d)
    BY <2>2 DEF MarkedOn, TypeInv, TypeNet, TypePm, TypeItems
  <2>5. QED
    BY <1>0, <2>1, <2>2, <2>3, <2>4, ReceiveCounts
<1>5. CASE ProxyGone(c)
  <2>1. /\ Items' = Items \ {c} /\ ~ ProxiesStay /\ addServerCount' = addServerCount
        /\ \A d \in Conn \ {c} : toProxy'[d] = toProxy[d] /\ toPM'[d] = toPM[d]
    BY <1>5 DEF ProxyGone, Items, NoLoss, TypeInv, TypeNet
  <2>2. Items' \subseteq Conn
    BY DEF TypeInv, TypePm, TypeItems
  <2>3. \A d \in Items' : d \in Items /\ MarkedOn(d)' \subseteq MarkedOn(d)
    BY <2>1, <2>2 DEF MarkedOn
  <2>4. Owed' <= Owed
    BY <2>3, NoMoreOwed
  <2>5. QED
    BY <1>0, <2>1, <2>4, KeepsCounts
<1>6. CASE OnAddServerReply(c)
  BY <1>6, ReplyCounts
<1>7. CASE AnswerNobody(c)
  BY <1>7, StartAgainCounts DEF AnswerNobody
<1>8. QED
  BY <1>1, <1>2, <1>3, <1>4, <1>5, <1>6, <1>7 DEF Handle

\* How often the connections fit in what is left of the counter
LEMMA RoomForMore ==
  ASSUME CountFits, TypeInv, Fits, ilm = "up", fromILM # <<>>
  PROVE  /\ addServerCount + Cardinality(Conn) < Width
         /\ addServerCount + Cardinality(Conn) + Cardinality(Conn) * Len(Tail(fromILM)) <= Limit
<1>1. /\ Cardinality(Conn) \in Nat /\ Len(fromILM) \in Nat /\ addServerCount \in Nat
      /\ Len(fromILM) >= 1 /\ Len(Tail(fromILM)) = Len(fromILM) - 1
  BY FS_CardinalityType DEF CountFits, TypeInv, TypeIlm, TypePm
<1>2. \A n, k \in Nat : k >= 1 => n * k = n + n * (k - 1) /\ n * (k - 1) \in Nat
  OBVIOUS
<1>3. PICK n \in Nat : n = Cardinality(Conn)
  BY <1>1
<1>4. PICK k \in Nat : k = Len(fromILM)
  BY <1>1
<1>5. PICK j \in Nat : j = n * (k - 1) /\ n * k = n + j
  BY <1>1, <1>2, <1>3, <1>4
<1>6. Limit \in Nat /\ Width \in Nat
  <2>1. /\ MaxList \in Nat /\ MaxBacklog + Cardinality(Server) \in Nat
    BY PMAssumption, FS_CardinalityType DEF CountFits
  <2>2. \A x, y \in Nat : x * y \in Nat
    OBVIOUS
  <2>3. n * (MaxBacklog + Cardinality(Server)) \in Nat
    BY <2>1, <2>2
  <2>4. QED
    BY <1>3, <2>1, <2>3, PMAssumption DEF Limit
<1>7. addServerCount + (n + j) <= Limit
  BY <1>3, <1>4, <1>5 DEF Fits
<1>8. Limit < Width
  BY DEF CountFits
<1>9. addServerCount + n < Width /\ addServerCount + n + j <= Limit
  <2>1. PICK a \in Nat : a = addServerCount
    BY <1>1
  <2>2. \A x, y, z, l, w \in Nat : x + (y + z) <= l /\ l < w => x + y < w /\ x + y + z <= l
    OBVIOUS
  <2>3. a + (n + j) <= Limit
    BY <1>7, <2>1
  <2>4. QED
    BY <1>6, <1>8, <2>1, <2>2, <2>3
<1>10. QED
  BY <1>1, <1>3, <1>4, <1>5, <1>9

LEMMA AskedCount ==
  ASSUME TypeInv, CountFits, Fits, AddServerForward
  PROVE  addServerCount' = addServerCount + Cardinality(Items) /\ Cardinality(Items) \in Nat
         /\ Cardinality(Items) <= Cardinality(Conn)
<1>1. Cardinality(Items) \in Nat /\ Cardinality(Items) <= Cardinality(Conn) /\ Cardinality(Conn) \in Nat
  BY FS_Subset, FS_CardinalityType DEF CountFits, TypeInv, TypePm, TypeItems
<1>2. addServerCount + Cardinality(Conn) < Width
  BY RoomForMore DEF AddServerForward, NextFromILM
<1>3. addServerCount \in Nat /\ Width \in Nat
  BY PMAssumption DEF TypeInv, TypePm
<1>4. addServerCount + Cardinality(Items) \in 0 .. Width - 1
  BY <1>1, <1>2, <1>3
<1>5. \A x \in 0 .. Width - 1 : x % Width = x
  BY <1>3
<1>6. QED
  BY <1>1, <1>4, <1>5 DEF AddServerForward, Asked

LEMMA ForwardCounts ==
  ASSUME TypeInv, TypeInv', LinkInv, NoLoss, Counts, CountFits, Fits, AddServerForward
  PROVE  Counts'
<1>1. /\ Items' = Items /\ toPM' = toPM /\ world' = world
      /\ addServerCount' = addServerCount + Cardinality(Items)
      /\ Cardinality(Items) \in Nat /\ Items \subseteq Conn /\ IsFiniteSet(Items)
  BY AskedCount DEF AddServerForward, Items, netVars, TypeInv, TypePm, TypeItems
<1> DEFINE S == {c \in Items : link[c] = "open"}
<1>2. IsFiniteSet(S) /\ Cardinality(S) <= Cardinality(Items) /\ Cardinality(S) \in Nat
  BY <1>1, FS_Subset, FS_CardinalityType
<1>3. PICK m : m = Head(fromILM)
  OBVIOUS
<1>4. m \in ToProxyMsg /\ m.type \in Asking
  <2>1. fromILM \in Seq(IlmMsg) /\ fromILM # <<>> /\ m.type = "add"
    BY <1>3 DEF TypeInv, TypeIlm, AddServerForward, NextFromILM
  <2>2. m \in IlmMsg
    BY <1>3, <2>1, HeadTail
  <2>3. QED
    BY <2>1, <2>2, IlmFields DEF Asking
<1>5. toProxy' = [c \in Conn |-> IF c \in S THEN Append(toProxy[c], m) ELSE toProxy[c]]
  BY <1>3 DEF AddServerForward
<1>6. PICK T \in SUBSET Items : T = S
  OBVIOUS
<1>7. Owed' = Owed + Cardinality(T)
  BY <1>1, <1>2, <1>4, <1>5, <1>6, OneMoreOwed
<1>8. ProxiesStay => T = Items
  BY <1>1, <1>6 DEF NoLoss, LinkInv, ItemInv
<1>9. /\ Owed \in Nat /\ addServerCount \in Nat /\ Owed <= addServerCount
      /\ Cardinality(T) \in Nat /\ Cardinality(T) <= Cardinality(Items)
  BY <1>2, <1>6, OwedPlaces DEF TypeInv, TypePm, Counts
<1>10. \A o, n, k, i \in Nat : o <= n /\ k <= i => o + k <= n + i
  OBVIOUS
<1>11. Owed' <= addServerCount'
  BY <1>1, <1>7, <1>9, <1>10
<1>12. ProxiesStay' => addServerCount' = Owed'
  <2>1. ProxiesStay' <=> ProxiesStay
    BY <1>1 DEF ProxiesStay
  <2>2. ASSUME ProxiesStay
        PROVE  addServerCount' = Owed'
    <3>1. addServerCount = Owed
      BY <2>2 DEF Counts
    <3>2. QED
      BY <1>1, <1>7, <1>8, <2>2, <3>1
  <2>3. QED
    BY <2>1, <2>2
<1>13. QED
  BY <1>11, <1>12 DEF Counts

\* Steps that leave the marked places alone
LEMMA SameCounts ==
  ASSUME TypeInv, TypeInv', Counts, world' = world, addServerCount' = addServerCount, SameMarks
  PROVE  Counts'
<1>1. Owed' = Owed /\ Owed \in Nat
  BY SameOwed, OwedPlaces
<1>2. Owed' <= Owed
  BY <1>1
<1>3. QED
  BY <1>1, <1>2, KeepsCounts

LEMMA AnswerMarks ==
  ASSUME TypeInv, LinkInv, NEW p \in Proxy, OnJoined(p) \/ OnAdd(p) \/ OnGrant(p) \/ OnQuery(p)
  PROVE  \A c \in Conn : MarkedOn(c)' = MarkedOn(c)
<1>1. PICK m \in ToPMMsg :
        /\ Tell(p, m)
        /\ \/ OnJoined(p) /\ Got(p, "joined") /\ m = Complete
           \/ OnAdd(p) /\ Got(p, "add") /\ m = Added(Message(p).server)
           \/ OnGrant(p) /\ Got(p, "grant") /\ m = Granted(Message(p))
           \/ OnQuery(p) /\ Got(p, "query") /\ m = Status(players[p])
  BY Answer
<1>2. PICK c \in Conn : c = pmObject[p]
  BY <1>1, GotTypes
<1>3. /\ toProxy[c] # <<>> /\ Message(p) = Head(toProxy[c]) /\ Message(p) \in ToProxyMsg
      /\ toProxy' = [toProxy EXCEPT ![c] = Tail(@)]
      /\ toPM' = [toPM EXCEPT ![c] = Append(@, m)]
  BY <1>1, <1>2, GotTypes DEF Message, Tell
<1>4. m.type \in Asking <=> Head(toProxy[c]).type \in Asking
  <2>1. CASE Got(p, "joined") /\ m = Complete
    <3>1. Message(p).type = "joined"
      BY <2>1, GotTypes
    <3>2. m.type = "complete"
      BY <2>1 DEF Complete
    <3>3. QED
      BY <1>3, <3>1, <3>2 DEF Asking
  <2>2. CASE Got(p, "add") /\ m = Added(Message(p).server)
    <3>1. Message(p).type = "add"
      BY <2>2, GotTypes
    <3>2. m.type = "added"
      BY <2>2 DEF Added
    <3>3. QED
      BY <1>3, <3>1, <3>2 DEF Asking
  <2>3. CASE Got(p, "grant") /\ m = Granted(Message(p))
    <3>1. Message(p).type = "grant" /\ Message(p) \in ToProxyMsg
      BY <2>3, GotTypes
    <3>2. m.type = "granted"
      BY <2>3, <3>1, ToProxyFields
    <3>3. Head(toProxy[c]).type = "grant"
      BY <1>3, <3>1
    <3>4. QED
      BY <3>2, <3>3 DEF Asking
  <2>4. CASE Got(p, "query") /\ m = Status(players[p])
    <3>1. Message(p).type = "query"
      BY <2>4, GotTypes
    <3>2. m.type = "status"
      BY <2>4 DEF Status
    <3>3. QED
      BY <1>3, <3>1, <3>2 DEF Asking
  <2>5. QED
    BY <1>1, <2>1, <2>2, <2>3, <2>4
<1>5. Marked(Append(toPM[c], m), Tail(toProxy[c])) = Marked(toPM[c], toProxy[c])
  <2>1. toPM[c] \in Seq(AnyMsg) /\ toProxy[c] \in Seq(AnyMsg) /\ m \in AnyMsg
    BY OwedPlaces DEF AnyMsg
  <2>2. QED
    BY <1>3, <1>4, <2>1, MarkedTurn
<1>6. QED
  BY <1>3, <1>5 DEF MarkedOn, TypeInv, TypeNet

LEMMA ProxyStepCounts ==
  ASSUME TypeInv, TypeInv', LinkInv, Counts, NEW p \in Proxy, ProxyStep(p)
  PROVE  Counts'
<1>0. world' = world
  BY SameWorld DEF Next
<1>1. ASSUME NEW c \in Conn, ProxyConnect(p, c)
      PROVE  SameMarks /\ addServerCount' = addServerCount
  <2>1. c \notin Items /\ Items' = Items /\ addServerCount' = addServerCount
    BY <1>1 DEF ProxyConnect, pmVars, Items, LinkInv, ItemInv
  <2>2. \A d \in Conn \ {c} : toPM'[d] = toPM[d] /\ toProxy'[d] = toProxy[d]
    BY <1>1 DEF ProxyConnect, TypeInv, TypeNet
  <2>3. Items \subseteq Conn
    BY DEF TypeInv, TypePm, TypeItems
  <2>4. QED
    BY <2>1, <2>2, <2>3 DEF SameMarks, MarkedOn
<1>2. ASSUME OnJoined(p) \/ OnAdd(p) \/ OnGrant(p) \/ OnQuery(p)
      PROVE  SameMarks /\ addServerCount' = addServerCount
  <2>1. Items' = Items /\ Items \subseteq Conn /\ addServerCount' = addServerCount
    BY <1>2 DEF OnJoined, OnAdd, OnGrant, OnQuery, pmVars, Items, TypeInv, TypePm, TypeItems
  <2>2. QED
    BY <1>2, <2>1, AnswerMarks DEF SameMarks
<1>3. SameMarks /\ addServerCount' = addServerCount
  BY <1>1, <1>2 DEF ProxyStep
<1>4. QED
  BY <1>0, <1>3, SameCounts

LEMMA HandleILMCounts ==
  ASSUME TypeInv, TypeInv', LinkInv, NoLoss, Counts, CountFits, Fits, HandleILM
  PROVE  Counts'
<1>1. CASE AddServerForward
  BY <1>1, ForwardCounts
<1>2. CASE AddServerAlone \/ RemoveServer \/ EndBatch \/ ConnectILM
  <2>1. /\ proxies' = proxies /\ toPM' = toPM /\ toProxy' = toProxy
        /\ addServerCount' = addServerCount /\ world' = world
    BY <1>2 DEF AddServerAlone, RemoveServer, EndBatch, ConnectILM, pmVars, netVars
  <2>2. SameMarks
    BY <2>1 DEF SameMarks, Items, MarkedOn
  <2>3. QED
    BY <2>1, <2>2, SameCounts
<1>3. QED
  BY <1>1, <1>2 DEF HandleILM

LEMMA OutsideCounts ==
  ASSUME TypeInv, TypeInv', LinkInv, Counts, Outside
  PROVE  Counts'
<1>0. world' = world
  BY SameWorld DEF Next
<1>1. Items \subseteq Conn
  BY DEF TypeInv, TypePm, TypeItems
<1>2. ASSUME toPM' = toPM, toProxy' = toProxy, proxies' = proxies
      PROVE  SameMarks
  BY <1>2 DEF SameMarks, Items, MarkedOn
<1>3. CASE QueryProxies
  <2>1. /\ Items' = Items /\ addServerCount' = addServerCount
        /\ \A c \in Conn : toPM[c] = <<>> /\ toPM'[c] = <<>> /\ toProxy[c] = <<>>
                           /\ toProxy'[c] \in {<<Query>>, <<>>}
    BY <1>3 DEF QueryProxies, Items, pmVars
  <2>2. Marked(<<>>, <<Query>>) = {}
    <3>1. <<>> \in Seq(AnyMsg) /\ Query \in AnyMsg /\ Append(<<>>, Query) = <<Query>>
      BY MessageTypes DEF AnyMsg
    <3>2. Query.type \notin Asking
      BY DEF Query, Asking
    <3>3. QED
      BY <3>1, <3>2, MarkedAppend, MarkedNothing
  <2>3. SameMarks
    BY <1>1, <2>1, <2>2, MarkedNothing DEF SameMarks, MarkedOn
  <2>4. QED
    BY <1>0, <2>1, <2>3, SameCounts
<1>4. CASE \/ IlmLost
           \/ \E s \in Server : IlmJoin(s) \/ IlmLeave(s) \/ (\E p \in Proxy : GameServerGone(p, s))
           \/ \E l \in Login : LoginConnect(l) \/ LoginGone(l)
           \/ \E p \in Proxy : (\E t \in ticket : ClientConnects(p, t)) \/ ClientLeaves(p)
  <2>1. toPM' = toPM /\ toProxy' = toProxy /\ proxies' = proxies /\ addServerCount' = addServerCount
    BY <1>4 DEF IlmLost, IlmJoin, IlmLeave, GameServerGone, LoginConnect, LoginGone, ClientConnects,
                ClientLeaves, pmVars, netVars
  <2>2. QED
    BY <1>0, <1>2, <2>1, SameCounts
<1>5. CASE PmRestart
  BY <1>5, StartAgainCounts DEF PmRestart
<1>6. ASSUME NEW l \in Login, NEW u \in User, NEW c \in Conn, AddClient(l, u, c)
      PROVE  Counts'
  <2>1. /\ toPM' = toPM /\ proxies' = proxies /\ addServerCount' = addServerCount /\ c \in Items
    BY <1>6 DEF AddClient, Least
  <2>2. PICK m : m = Grant(u, CreateSession(u), l, proxies[c].id)
    OBVIOUS
  <2>3. m \in AnyMsg /\ m.type \notin Asking
    <3>1. CreateSession(u) \in Nat
      BY DEF CreateSession, TypeInv, TypePm
    <3>2. proxies[c].id \in Nat
      BY <2>1, ItemFields DEF TypeInv, TypePm, TypeItems
    <3>3. m \in ToProxyMsg
      BY <2>2, <3>1, <3>2, MessageTypes
    <3>4. m.type = "grant"
      BY <2>2 DEF Grant
    <3>5. QED
      BY <3>3, <3>4 DEF AnyMsg, Asking
  <2>4. toProxy' = Put(toProxy, c, m)
    BY <1>6, <2>2 DEF AddClient
  <2>5. \A d \in Conn : toProxy'[d] = toProxy[d] \/ toProxy'[d] = Append(toProxy[d], m)
    BY <2>4 DEF Put, TypeInv, TypeNet
  <2>6. ASSUME NEW d \in Conn
        PROVE  MarkedOn(d)' = MarkedOn(d)
    <3>1. Marked(toPM[d], Append(toProxy[d], m)) = Marked(toPM[d], toProxy[d])
      BY <2>3, OwedPlaces, MarkedAppend
    <3>2. QED
      BY <2>1, <2>5, <3>1 DEF MarkedOn
  <2>7. SameMarks
    BY <1>1, <2>1, <2>6 DEF SameMarks, Items
  <2>8. QED
    BY <1>0, <2>1, <2>7, SameCounts
<1>7. ASSUME NEW p \in Proxy, ProxyCut(p) \/ ProxyRestart(p)
      PROVE  Counts'
  <2>1. Broken(p) /\ ~ ProxiesStay
    BY <1>7 DEF ProxyCut, ProxyRestart, ProxiesStay
  <2>2. PICK c : c = pmObject[p]
    OBVIOUS
  <2>3. /\ c \in Conn /\ link[c] \in {"new", "open", "leaked"}
        /\ toProxy' = [toProxy EXCEPT ![c] = <<>>]
        /\ toPM' = IF link[c] = "new" THEN [toPM EXCEPT ![c] = <<>>] ELSE toPM
        /\ UNCHANGED <<pmVars, ilmVars>>
    BY <2>1, <2>2, BrokenLink
  <2>4. Items' = Items /\ addServerCount' = addServerCount
    BY <2>3 DEF pmVars, Items
  <2>5. \A d \in Items : MarkedOn(d)' \subseteq MarkedOn(d)
    <3>1. SUFFICES ASSUME NEW d \in Items
                   PROVE  MarkedOn(d)' \subseteq MarkedOn(d)
      OBVIOUS
    <3>2. d \in Conn /\ link[d] # "new"
      BY <1>1 DEF LinkInv, ItemInv
    <3>3. toPM'[d] = toPM[d] /\ toProxy'[d] \in {<<>>, toProxy[d]}
      BY <2>3, <3>2 DEF TypeInv, TypeNet
    <3>4. Marked(toPM[d], <<>>) \subseteq Marked(toPM[d], toProxy[d])
      BY <3>2, OwedPlaces, MarkedCut
    <3>5. QED
      BY <3>3, <3>4 DEF MarkedOn
  <2>6. Owed' <= Owed
    BY <2>4, <2>5, NoMoreOwed
  <2>7. QED
    BY <1>0, <2>1, <2>4, <2>6, KeepsCounts
<1>8. QED
  BY <1>3, <1>4, <1>5, <1>6, <1>7 DEF Outside

LEMMA NewNext ==
  ASSUME TypeInv, LinkInv, NewInv, Next
  PROVE  NewInv'
<1>1. ASSUME \A c \in Conn : link'[c] = "new" => link[c] = "new" /\ toPM'[c] = toPM[c] /\ toProxy'[c] = toProxy[c]
      PROVE  NewInv'
  BY <1>1 DEF NewInv, MarkedOn
<1>2. ASSUME NEW c \in Conn, Handle(c)
      PROVE  \A d \in Conn : link'[d] = "new" => link[d] = "new" /\ toPM'[d] = toPM[d] /\ toProxy'[d] = toProxy[d]
  <2>1. CASE AcceptProxy(c) \/ ProxyGone(c)
    BY <2>1 DEF AcceptProxy, ProxyGone, TypeInv, TypeNet
  <2>2. CASE ProxyJoin(c) \/ ProxyJoinThrows(c)
    <3>1. Receive(c, "join")
      BY <2>2 DEF ProxyJoin, ProxyJoinThrows
    <3>2. link[c] \in {"open", "broken"}
      BY <3>1 DEF Receive
    <3>3. \A d \in Conn \ {c} : toProxy'[d] = toProxy[d]
      BY <2>2 DEF ProxyJoin, ProxyJoinThrows, Put, TypeInv, TypeNet
    <3>4. /\ link'[c] # "new"
          /\ \A d \in Conn \ {c} : link'[d] = "new" => link[d] = "new" /\ toPM'[d] = toPM[d]
      <4>1. CASE ProxyJoin(c)
        BY <3>2, <4>1 DEF ProxyJoin
      <4>2. CASE ProxyJoinThrows(c)
        BY <3>2, <4>2 DEF ProxyJoinThrows
      <4>3. QED
        BY <2>2, <4>1, <4>2
    <3>5. QED
      BY <3>3, <3>4
  <2>3. CASE ProxyJoinComplete(c) \/ ProxyStatus(c) \/ OnGranted(c) \/ OnAddServerReply(c)
    <3>1. /\ link' = link /\ link[c] \in {"open", "broken"} /\ toProxy' = toProxy
          /\ toPM' = [toPM EXCEPT ![c] = Tail(@)]
      BY <2>3 DEF ProxyJoinComplete, ProxyStatus, OnGranted, OnAddServerReply, Counted, Receive, Received
    <3>2. QED
      BY <3>1 DEF TypeInv, TypeNet
  <2>4. CASE AnswerNobody(c)
    BY <2>4 DEF AnswerNobody, StartAgain
  <2>5. QED
    BY <1>2, <2>1, <2>2, <2>3, <2>4 DEF Handle
<1>3. HandleILM => NewInv'
  <2>1. ASSUME HandleILM
        PROVE  \A d \in Conn : link'[d] = "new" => link[d] = "new" /\ toPM'[d] = toPM[d] /\ toProxy'[d] = toProxy[d]
    BY <2>1 DEF HandleILM, AddServerAlone, AddServerForward, RemoveServer, EndBatch, ConnectILM, netVars,
                TypeInv, TypeNet
  <2>2. QED
    BY <1>1, <2>1
<1>4. ASSUME NEW p \in Proxy, OnJoined(p) \/ OnAdd(p) \/ OnGrant(p) \/ OnQuery(p)
      PROVE  NewInv'
  <2>1. link' = link /\ \A c \in Conn : MarkedOn(c)' = MarkedOn(c)
    BY <1>4, AnswerMarks DEF OnJoined, OnAdd, OnGrant, OnQuery
  <2>2. QED
    BY <2>1 DEF NewInv
<1>5. ASSUME NEW p \in Proxy, NEW c \in Conn, ProxyConnect(p, c)
      PROVE  NewInv'
  <2>1. /\ \A d \in Conn \ {c} : link'[d] = link[d] /\ toPM'[d] = toPM[d]
        /\ toProxy' = toProxy /\ toProxy[c] = <<>> /\ toPM'[c] = <<Join(proxyID[p])>>
    BY <1>5 DEF ProxyConnect, LinkInv, ChanInv, TypeInv, TypeNet
  <2>2. PICK m : m = Join(proxyID[p])
    OBVIOUS
  <2>3. m.type \notin Asking
    BY <2>2 DEF Join, Asking
  <2>4. Marked(<<m>>, <<>>) = {}
    BY <2>3 DEF Marked
  <2>5. QED
    BY <2>1, <2>2, <2>4 DEF NewInv, MarkedOn
<1>6. Outside => NewInv'
  <2>1. ASSUME \/ IlmLost
               \/ \E s \in Server : IlmJoin(s) \/ IlmLeave(s) \/ (\E p \in Proxy : GameServerGone(p, s))
               \/ \E l \in Login : LoginConnect(l) \/ LoginGone(l)
               \/ \E p \in Proxy : (\E t \in ticket : ClientConnects(p, t)) \/ ClientLeaves(p)
        PROVE  NewInv'
    <3>1. link' = link /\ toPM' = toPM /\ toProxy' = toProxy
      BY <2>1 DEF IlmLost, IlmJoin, IlmLeave, GameServerGone, LoginConnect, LoginGone, ClientConnects,
                ClientLeaves, netVars
    <3>2. QED
      BY <3>1 DEF NewInv, MarkedOn
  <2>2. ASSUME QueryProxies
        PROVE  NewInv'
    <3>1. \A c \in Conn : link'[c] = "new" => /\ link[c] = "new" /\ toPM'[c] = toPM[c]
                                              /\ toProxy'[c] = toProxy[c]
      BY <2>2 DEF QueryProxies
    <3>2. QED
      BY <1>1, <3>1
  <2>3. ASSUME PmRestart
        PROVE  NewInv'
    BY <2>3 DEF PmRestart, StartAgain, NewInv
  <2>4. ASSUME NEW l \in Login, NEW u \in User, NEW c \in Conn, AddClient(l, u, c)
        PROVE  NewInv'
    <3>1. \A d \in Conn : link'[d] = "new" => /\ link[d] = "new" /\ toPM'[d] = toPM[d]
                                              /\ toProxy'[d] = toProxy[d]
      BY <2>4 DEF AddClient, Put, TypeInv, TypeNet
    <3>2. QED
      BY <1>1, <3>1
  <2>5. ASSUME NEW p \in Proxy, ProxyCut(p) \/ ProxyRestart(p)
        PROVE  NewInv'
    <3>1. Broken(p)
      BY <2>5 DEF ProxyCut, ProxyRestart
    <3>2. PICK c : c = pmObject[p]
      OBVIOUS
    <3>3. /\ c \in Conn
          /\ link' = [link EXCEPT ![c] = IF link[c] = "new" THEN "free"
                                         ELSE IF link[c] = "open" THEN "broken" ELSE "leaked"]
          /\ toProxy' = [toProxy EXCEPT ![c] = <<>>]
          /\ toPM' = IF link[c] = "new" THEN [toPM EXCEPT ![c] = <<>>] ELSE toPM
      BY <3>1, <3>2, BrokenLink
    <3>4. \A d \in Conn : link'[d] = "new" => /\ link[d] = "new" /\ toPM'[d] = toPM[d]
                                              /\ toProxy'[d] = toProxy[d]
      BY <3>3 DEF TypeInv, TypeNet
    <3>5. QED
      BY <1>1, <3>4
  <2>6. QED
    BY <2>1, <2>2, <2>3, <2>4, <2>5 DEF Outside
<1>7. QED
  BY <1>1, <1>2, <1>3, <1>4, <1>5, <1>6 DEF Next, ProxyStep

\* k servers announced at once fit, and so does one more message of the ILM.
LEMMA LimitHolds ==
  ASSUME CountFits, NEW a \in Nat, a <= MaxList, NEW k \in Nat,
         k <= MaxBacklog + Cardinality(Server)
  PROVE  a + (Cardinality(Conn) * k) <= Limit
<1>1. /\ Cardinality(Conn) \in Nat /\ MaxBacklog + Cardinality(Server) \in Nat /\ MaxList \in Nat
  BY PMAssumption, FS_CardinalityType DEF CountFits
<1>2. PICK n \in Nat : n = Cardinality(Conn)
  BY <1>1
<1>3. PICK l \in Nat : l = MaxBacklog + Cardinality(Server)
  BY <1>1
<1>4. PICK d \in Nat : l = k + d
  <2>1. l - k \in Nat /\ l = k + (l - k)
    BY <1>3
  <2>2. QED
    BY <2>1
<1>5. \A x, y, z \in Nat : x * (y + z) = x * y + x * z /\ x * y \in Nat
  OBVIOUS
<1>6. PICK u \in Nat : u = n * k
  BY <1>5
<1>7. PICK v \in Nat : v = n * d
  BY <1>5
<1>8. n * l = u + v
  BY <1>4, <1>5, <1>6, <1>7
<1>9. Limit = MaxList + (u + v)
  BY <1>2, <1>3, <1>8 DEF Limit
<1>10. \A x, y, z, w \in Nat : x <= w => x + y <= w + (y + z)
  OBVIOUS
<1>11. a + u <= MaxList + (u + v)
  BY <1>1, <1>10
<1>12. QED
  BY <1>2, <1>6, <1>9, <1>11

LEMMA SameFits ==
  ASSUME Fits, UNCHANGED <<ilm, fromILM, addServerCount>>
  PROVE  Fits'
BY DEF Fits

LEMMA StartAgainFits ==
  ASSUME StartAgain
  PROVE  Fits'
<1>1. ilm' = "down" /\ fromILM' = <<>> /\ addServerCount' = 0 /\ 0 <= MaxList
  BY PMAssumption DEF StartAgain
<1>2. QED
  BY <1>1 DEF Fits

LEMMA HandleFits ==
  ASSUME TypeInv, TypeInv', LinkInv, Counts, CountFits, Fits, NEW c \in Conn, Handle(c)
  PROVE  Fits'
<1>1. CASE OnAddServerReply(c)
  <2>1. addServerCount' = addServerCount - 1 /\ ilm' = ilm /\ fromILM' = fromILM
    BY <1>1, ReplyCounts DEF OnAddServerReply, Counted, ilmVars
  <2>2. addServerCount \in Nat /\ Len(fromILM) \in Nat /\ Cardinality(Conn) \in Nat /\ MaxList \in Nat
    BY PMAssumption, FS_CardinalityType DEF TypeInv, TypePm, TypeIlm, CountFits
  <2>3. PICK k \in Nat : k = Cardinality(Conn) * Len(fromILM)
    <3>1. \A x, y \in Nat : x * y \in Nat
      OBVIOUS
    <3>2. QED
      BY <2>2, <3>1
  <2>4. Limit \in Int
    <3>1. \A x, y \in Nat : x * y \in Nat
      OBVIOUS
    <3>2. MaxBacklog + Cardinality(Server) \in Nat
      BY PMAssumption, FS_CardinalityType DEF CountFits
    <3>3. QED
      BY <2>2, <3>1, <3>2 DEF Limit
  <2>5. \A x, y, l, m \in Int : /\ x + y <= l => x - 1 + y <= l
                                /\ x <= m => x - 1 <= m
    OBVIOUS
  <2>6. CASE ilm = "up"
    <3>1. addServerCount + k <= Limit
      BY <2>3, <2>6 DEF Fits
    <3>2. addServerCount - 1 + k <= Limit
      BY <2>2, <2>4, <2>5, <3>1
    <3>3. QED
      BY <2>1, <2>3, <2>6, <3>2 DEF Fits
  <2>7. CASE ilm # "up"
    <3>1. fromILM = <<>> /\ addServerCount <= MaxList
      BY <2>7 DEF Fits
    <3>2. addServerCount - 1 <= MaxList
      BY <2>2, <3>1
    <3>3. QED
      BY <2>1, <2>7, <3>1, <3>2 DEF Fits
  <2>8. QED
    BY <2>6, <2>7
<1>2. CASE AnswerNobody(c)
  BY <1>2, StartAgainFits DEF AnswerNobody
<1>3. CASE \/ AcceptProxy(c) \/ ProxyJoin(c) \/ ProxyJoinThrows(c) \/ ProxyJoinComplete(c)
           \/ ProxyGone(c) \/ ProxyStatus(c) \/ OnGranted(c)
  <2>1. ilm' = ilm /\ fromILM' = fromILM /\ addServerCount' = addServerCount
    BY <1>3 DEF AcceptProxy, ProxyJoin, ProxyJoinThrows, ProxyJoinComplete, ProxyGone, ProxyStatus,
                OnGranted, ilmVars, pmVars
  <2>2. QED
    BY <2>1, SameFits
<1>4. QED
  BY <1>1, <1>2, <1>3 DEF Handle

LEMMA HandleILMFits ==
  ASSUME TypeInv, TypeInv', LinkInv, CountFits, Fits, HandleILM
  PROVE  Fits'
<1>0. /\ Cardinality(Conn) \in Nat /\ addServerCount \in Nat /\ MaxBacklog \in Nat
      /\ Cardinality(Server) \in Nat /\ MaxList \in Nat
  BY PMAssumption, FS_CardinalityType DEF CountFits, TypeInv, TypePm
<1>1. ASSUME ilm = "up", ilm' = "up", fromILM # <<>>, fromILM' = Tail(fromILM),
             addServerCount' \in Nat, addServerCount' <= addServerCount + Cardinality(Conn)
      PROVE  Fits'
  <2>1. addServerCount + Cardinality(Conn) + Cardinality(Conn) * Len(Tail(fromILM)) <= Limit
    BY <1>1, RoomForMore
  <2>2. PICK k \in Nat : k = Cardinality(Conn) * Len(Tail(fromILM))
    <3>1. \A x, y \in Nat : x * y \in Nat
      OBVIOUS
    <3>2. Len(Tail(fromILM)) \in Nat
      BY <1>1 DEF TypeInv, TypeIlm
    <3>3. QED
      BY <1>0, <3>1, <3>2
  <2>3. Limit \in Nat
    <3>1. \A x, y \in Nat : x * y \in Nat
      OBVIOUS
    <3>2. MaxBacklog + Cardinality(Server) \in Nat
      BY <1>0
    <3>3. QED
      BY <1>0, <3>1, <3>2 DEF Limit
  <2>4. \A a, b, n, j, l \in Nat : a <= b + n /\ b + n + j <= l => a + j <= l
    OBVIOUS
  <2>5. addServerCount' + k <= Limit
    BY <1>0, <1>1, <2>1, <2>2, <2>3, <2>4
  <2>6. QED
    BY <1>1, <2>2, <2>5 DEF Fits
<1>2. CASE AddServerAlone \/ RemoveServer
  <2>1. /\ ilm = "up" /\ ilm' = "up" /\ fromILM # <<>> /\ fromILM' = Tail(fromILM)
        /\ addServerCount' = addServerCount
    BY <1>2 DEF AddServerAlone, RemoveServer, NextFromILM
  <2>2. QED
    BY <1>0, <1>1, <2>1
<1>3. CASE AddServerForward
  <2>1. ilm = "up" /\ ilm' = "up" /\ fromILM # <<>> /\ fromILM' = Tail(fromILM)
    BY <1>3 DEF AddServerForward, NextFromILM
  <2>2. /\ addServerCount' = addServerCount + Cardinality(Items) /\ Cardinality(Items) \in Nat
        /\ Cardinality(Items) <= Cardinality(Conn)
    BY <1>3, AskedCount
  <2>3. QED
    BY <1>0, <1>1, <2>1, <2>2
<1>4. CASE EndBatch
  <2>1. ilm # "up" /\ ilm' # "up" /\ fromILM' = fromILM /\ addServerCount' = addServerCount
    BY <1>4 DEF EndBatch, pmVars
  <2>2. QED
    BY <2>1 DEF Fits
<1>5. CASE ConnectILM
  <2>1. /\ ilm # "up" /\ ilm' = "up" /\ addServerCount' = addServerCount
        /\ fromILM' = [i \in 1 .. Cardinality(joined) |-> Add(SetToSeq(joined)[i])]
    BY <1>5 DEF ConnectILM, pmVars
  <2>2. addServerCount <= MaxList
    BY <2>1 DEF Fits
  <2>3. Cardinality(joined) \in Nat /\ Cardinality(joined) <= Cardinality(Server)
    BY FS_Subset, FS_CardinalityType DEF CountFits, TypeInv, TypeIlm
  <2>4. Len(fromILM') = Cardinality(joined)
    BY <2>1, <2>3
  <2>5. PICK k \in Nat : k = Cardinality(joined)
    BY <2>3
  <2>6. k <= MaxBacklog + Cardinality(Server)
    BY <1>0, <2>3, <2>5
  <2>7. addServerCount + (Cardinality(Conn) * k) <= Limit
    BY <1>0, <2>2, <2>6, LimitHolds
  <2>8. QED
    BY <2>1, <2>4, <2>5, <2>7 DEF Fits
<1>6. QED
  BY <1>2, <1>3, <1>4, <1>5 DEF HandleILM

LEMMA OutsideFits ==
  ASSUME TypeInv, CountFits, Fits, LinkInv, Outside
  PROVE  Fits'
<1>1. CASE IlmLost
  <2>1. ilm' = "ended" /\ fromILM' = <<>> /\ addServerCount' = addServerCount /\ addServerCount <= MaxList
    BY <1>1, PMAssumption DEF IlmLost, pmVars, TypeInv, TypePm
  <2>2. QED
    BY <2>1 DEF Fits
<1>2. ASSUME NEW s \in Server, IlmJoin(s) \/ IlmLeave(s)
      PROVE  Fits'
  <2>1. /\ ilm = "up" /\ ilm' = "up" /\ addServerCount' = addServerCount /\ addServerCount <= MaxList
        /\ Len(fromILM) < MaxBacklog /\ addServerCount \in Nat /\ MaxBacklog \in Nat
    BY <1>2, PMAssumption DEF IlmJoin, IlmLeave, Room, pmVars, TypeInv, TypePm
  <2>2. PICK m : fromILM' = Append(fromILM, m)
    BY <1>2 DEF IlmJoin, IlmLeave
  <2>3. Len(fromILM) \in Nat /\ Len(fromILM') = Len(fromILM) + 1
    BY <2>2 DEF TypeInv, TypeIlm
  <2>4. PICK k \in Nat : k = Len(fromILM')
    BY <2>3
  <2>5. k <= MaxBacklog + Cardinality(Server)
    <3>1. Cardinality(Server) \in Nat
      BY FS_CardinalityType DEF CountFits
    <3>2. QED
      BY <2>1, <2>3, <2>4, <3>1
  <2>6. addServerCount + (Cardinality(Conn) * k) <= Limit
    BY <2>1, <2>5, LimitHolds
  <2>7. QED
    BY <2>1, <2>4, <2>6 DEF Fits
<1>3. CASE PmRestart
  BY <1>3, StartAgainFits DEF PmRestart
<1>4. ASSUME NEW p \in Proxy, ProxyCut(p) \/ ProxyRestart(p)
      PROVE  Fits'
  <2>1. ilm' = ilm /\ fromILM' = fromILM /\ addServerCount' = addServerCount
    BY <1>4 DEF ProxyCut, ProxyRestart, Broken, pmVars, ilmVars
  <2>2. QED
    BY <2>1, SameFits
<1>5. CASE \/ QueryProxies
           \/ \E s \in Server, p \in Proxy : GameServerGone(p, s)
           \/ \E l \in Login : LoginConnect(l) \/ LoginGone(l) \/ \E u \in User, c \in Conn : AddClient(l, u, c)
           \/ \E p \in Proxy : (\E t \in ticket : ClientConnects(p, t)) \/ ClientLeaves(p)
  <2>1. ilm' = ilm /\ fromILM' = fromILM /\ addServerCount' = addServerCount
    BY <1>5 DEF QueryProxies, GameServerGone, LoginConnect, LoginGone, AddClient, ClientConnects,
                ClientLeaves, pmVars, ilmVars
  <2>2. QED
    BY <2>1, SameFits
<1>6. QED
  BY <1>1, <1>2, <1>3, <1>4, <1>5 DEF Outside

LEMMA ProxyStepFits ==
  ASSUME Fits, NEW p \in Proxy, ProxyStep(p)
  PROVE  Fits'
<1>1. ilm' = ilm /\ fromILM' = fromILM /\ addServerCount' = addServerCount
  BY DEF ProxyStep, ProxyConnect, OnJoined, OnAdd, OnGrant, OnQuery, pmVars, ilmVars
<1>2. QED
  BY <1>1, SameFits

LEMMA CountNext ==
  ASSUME CountFits, TypeInv, TypeInv', LinkInv, NoLoss, CountInv, [Next]_vars
  PROVE  CountInv'
<1>1. CASE Next
  BY <1>1, NewNext, HandleCounts, HandleFits, HandleILMCounts, HandleILMFits, ProxyStepCounts,
     ProxyStepFits, OutsideCounts, OutsideFits DEF Next, CountInv
<1>2. CASE UNCHANGED vars
  <2>1. /\ link' = link /\ toPM' = toPM /\ toProxy' = toProxy /\ proxies' = proxies /\ world' = world
        /\ addServerCount' = addServerCount /\ ilm' = ilm /\ fromILM' = fromILM
    BY <1>2 DEF vars, pmVars, ilmVars, netVars
  <2>2. SameMarks
    BY <2>1 DEF SameMarks, Items, MarkedOn
  <2>3. NewInv'
    BY <2>1 DEF CountInv, NewInv, MarkedOn
  <2>4. QED
    BY <2>1, <2>2, <2>3, SameCounts, SameFits DEF CountInv
<1>3. QED
  BY <1>1, <1>2

LEMMA CountInit ==
  ASSUME Init
  PROVE  CountInv
<1>1. TypeInv /\ Items = {} /\ addServerCount = 0 /\ ilm = "down" /\ fromILM = <<>> /\ 0 <= MaxList
  BY LinkInit, PMAssumption DEF Init, Items
<1>2. NewInv
  BY DEF Init, NewInv
<1>3. Places = {}
  BY <1>1, OwedPlaces
<1>4. Owed = 0
  BY <1>1, <1>3, OwedPlaces, FS_EmptySet
<1>5. Counts /\ Fits
  BY <1>1, <1>4 DEF Counts, Fits
<1>6. QED
  BY <1>2, <1>5 DEF CountInv

\* onAddServerMessage and onAddServerMessageReply: whatever proxies join, join
\* again, are cut off or restart while servers are announced, and whatever is lost
\* on the way, _addServerCount is at least the number of answers still to come,
\* so it never passes 0; and it is that number while no proxy is lost.  The
\* counter must be wide enough for what may be announced at once: an answer of
\* every connection for every server.
THEOREM AnswersAreCounted ==
  ASSUME CountFits
  PROVE  Spec => []CountExact
<1>1. Init => CountInv
  BY CountInit
<1>2. TypeInv /\ LinkInv /\ NoLoss /\ TypeInv' /\ CountInv /\ [Next]_vars => CountInv'
  BY CountNext
<1>3. CountInv => CountExact
  <2>1. ASSUME CountInv
        PROVE  CountExact
    BY <2>1 DEF CountInv, Counts, CountExact
  <2>2. QED
    BY <2>1
<1>4. QED
  BY <1>1, <1>2, <1>3, AnnouncedKept, PTL DEF Spec
=============================================================================
