-------------------------------- MODULE Wire --------------------------------
(* The layouts of the messages between the processes. Every process has its   *)
(* own class for a message: the sender packs with one class and the receiver  *)
(* unpacks with another, and nothing but two lists of push and pop calls      *)
(* keeps them together. A packet is its type followed by the fields; here a   *)
(* byte of a field is a pair of the field's place and the number of the byte, *)
(* a byte of a count is a number, so a reader that cuts the packet at other   *)
(* places obtains other values.                                               *)
EXTENDS Integers, Sequences, SequencesExt, FiniteSetsExt, TLC

CONSTANT MaxLen  \* bound: the length of a list in a message

(* --------------------------------- layouts --------------------------------- *)

\* A value of w bytes; a number of w bytes whose third and later bytes are zero
\* (a region id); a count of w bytes followed by that many elements.  And what a
\* size() does that takes for every element of a list the one with the number of
\* the element that has the list.
F(w) == [kind |-> "field", width |-> w, of |-> <<>>]
Id(w) == [kind |-> "id", width |-> w, of |-> <<>>]
L(w, of) == [kind |-> "list", width |-> w, of |-> of]
Outer(w, of) == [kind |-> "outer", width |-> w, of |-> of]
Fields(widths) == [i \in DOMAIN widths |-> F(widths[i])]

\* A message class: what pack pushes, what unpack pops, what size() adds up.
Class(pack, unpack, size) == [pack |-> pack, unpack |-> unpack, size |-> size]
Same(layout) == Class(layout, layout, layout)

TypeOnly == Same(<<>>)

(* ------- message/Server2ILM.cpp: the ILM's side of the game servers -------- *)

ServerConnectILMRequestMsg_T == Class(Fields(<<10>>), Fields(<<2, 10>>), Fields(<<2, 10>>))
ServerConnectILMResponseMsg_T == Same(Fields(<<1, 10, 2, 2, 2, 2>>))
UpdateMSTRequestMsg_T == Same(<<L(4, Fields(<<6>>)), L(2, Fields(<<10>>))>>)
UpdateMSTResponseMsg_T == Same(Fields(<<1>>))
ServerStatusQueryMsg_T == Same(<<L(2, Fields(<<2>>))>>)
ServerLoadToPM == Same(<<L(2, Fields(<<4>>))>>)
ServerStatusReplyMsg_T == Same(Fields(<<2, 2>>) \o <<L(2, Fields(<<6>>))>>)
StartPartitionRequestMsg_T == Same(Fields(<<2, 2>>) \o <<L(4, <<Id(4)>>)>>)
StartPartitionResponseMsg_T == Same(Fields(<<1>>))
ServerLeaveResponse_T == Same(Fields(<<1>>))
ServerLockMapRequest_T == Same(<<L(2, <<Id(4)>>)>>)
ServerLockMapResponse_T == Same(Fields(<<1>>))
ServerUnLockMapRequest_T == Same(<<L(2, <<Id(2)>>)>>)
ServerUnLockMapResponse_T == Same(Fields(<<1>>))

(* ---------- message/: the proxy manager, the login server, the ILM --------- *)

PMConnectILMRequestMsg_T == Same(Fields(<<6>>))
PMConnectILMResponseMsg_T == Same(Fields(<<6>>))
AddServerRequestMsg_T == Same(Fields(<<10, 6>>))
AddServerResponseMsg_T == Same(Fields(<<10, 6>>))
ServerLeaveRequestMsg_T == Same(Fields(<<2>>))
ServerLeaveResponseMsg_T == Same(Fields(<<1, 2>>))
ProxyConnectLoginRequestMsg_T == Same(Fields(<<4, 2, 2, 2>>))
ProxyConnectLoginResponseMsg_T == Same(Fields(<<1, 2, 2>>) \o <<L(2, Fields(<<10>>))>>)
ProxyConnectLoginCompleteMsg_T == Same(Fields(<<1>>))
ProxyStatusReplyMsg_T == Same(Fields(<<2, 2>>))
SendSession2ProxyReqestMsg_T == Same(Fields(<<4, 4, 10, 2, 2, 2, 16>>))
SendSession2ProxyResponseMsg_T == Same(Fields(<<1, 4, 4, 2, 2, 2, 16>>))
AddClientToPMRequestMsg_T == Same(Fields(<<4, 4, 10>>))
AddClientToPMResponseMsg_T == Same(Fields(<<4, 4, 6, 4>>))
GetPlanMsgRequest_T == Same(Fields(<<2, 2, 2>>))

(* --------------- GameServer/src/SeamlessMessage.cpp, GSMessage.cpp ---------- *)

GsProxyConnRequest == Same(Fields(<<2>>))
GsProxyConnResponse == Same(Fields(<<1>>))
GsConnRequest == Same(Fields(<<10>>))
GsConnResponse == Same(Fields(<<1>>))
GsServerConnectILMRequestMsg == Same(Fields(<<2, 10>>))
GsServerConnectILMResponseMsg == Same(Fields(<<1, 10, 2, 2, 2, 2>>))
\* Mutant: the game server reads the list of servers before the table.
GsUpdateMSTRequestMsgM == Same(<<L(2, Fields(<<10>>)), L(4, Fields(<<6>>))>>)

GsUpdateMSTRequestMsg == Same(<<L(4, Fields(<<6>>)), L(2, Fields(<<10>>))>>)
GsUpdateMSTResponseMsg == Same(Fields(<<1>>))
GsServerStatusReplyMsg == Same(Fields(<<2, 2>>) \o <<L(2, Fields(<<6>>))>>)
GsStartPartitionRequestMsg == Same(Fields(<<2, 2>>) \o <<L(4, <<Id(2)>>)>>)
GsStartPartitionResponseMsg == Same(Fields(<<1>>))
GsServerLeaveResponse == Same(Fields(<<1>>))
GsServerLockMapRequest == Same(<<L(2, <<Id(2)>>)>>)
GsServerLockMapResponse == Same(Fields(<<1>>))
GsServerUnlockMapRequest == Same(<<L(2, <<Id(2)>>)>>)
GsServerUnlockMapResponse == Same(Fields(<<1>>))
GsAgentCreateMessage == Same(Fields(<<4, 4, 2, 2, 2>>) \o <<L(4, Fields(<<1>>))>>)
GsAgentDeleteMessage == Same(Fields(<<4, 4>>))
GsSessionCreateMessage == Same(Fields(<<4, 4, 2, 2, 2>>))
GsProxyMessage == Same(Fields(<<2, 2, 2>>) \o <<L(2, Fields(<<1>>))>>)
GsObjectMessage == Same(<<L(2, Fields(<<1>>))>>)
GsSynAgentMessage == Same(GsObjectMessage.pack \o Fields(<<4, 4, 4, 2, 2>>))

\* The agents of a region travel as whole messages, each after its length. The
\* size of the block counts agent i of region i for every agent of region i; the
\* size that UnpackMapsRequest computes leaves the agents themselves out as well.
AgentPackage == Fields(<<4, 2>>) \o GsAgentCreateMessage.pack
MapPackages(agents) == <<L(2, <<F(4), agents>>)>>
GsPackMapsResponse ==
    Class(MapPackages(L(4, AgentPackage)), MapPackages(L(4, AgentPackage)), MapPackages(Outer(4, AgentPackage)))
GsUnpackMapsRequest ==
    Class(MapPackages(L(4, AgentPackage)), MapPackages(L(4, AgentPackage)), MapPackages(Outer(4, Fields(<<4>>))))

(* ------------------------ RoleSelectServer/src/ ---------------------------- *)

RsServerConnectILMRequestMsg == Same(Fields(<<2, 10>>))
RsServerConnectILMResponseMsg == Same(Fields(<<1, 10, 2, 2, 2, 2>>))
RsUpdateMSTResponseMsg == Same(Fields(<<1>>))
RsServerStatusQueryMsg == Class(<<>>, <<L(2, Fields(<<2>>))>>, <<>>)
RsServerStatusReplyMsg == Same(Fields(<<2, 2>>) \o <<L(2, Fields(<<6>>))>>)
RsServerLeaveRequest == Same(Fields(<<2>>))
RsServerLeaveResponse == Same(Fields(<<1>>))
RsProxyConnRequest == Same(Fields(<<2>>))
RsProxyConnResponse == Same(Fields(<<1>>))
RsProxyMessage == Same(Fields(<<2, 2, 2>>) \o <<L(2, Fields(<<1>>))>>)

(* ------------------------ Proxy/src/ProxyObject.cpp ------------------------ *)

PxLoginRequest == Same(Fields(<<4, 2, 2, 2>>))
PxLoginResponse == Same(Fields(<<1, 2, 2>>) \o <<L(2, Fields(<<10>>))>>)
PxLoginComplete == Same(Fields(<<1>>))
PxStatusReply == Same(Fields(<<2, 2>>))
PxSendSessionRequest == Same(Fields(<<4, 4, 10, 2, 2, 2, 16>>))
PxSendSessionResponse == Same(Fields(<<1, 4, 4, 2, 2, 2, 16>>))
PxAddServerRequest == Same(Fields(<<10, 6>>))
PxAddServerResponse == Same(Fields(<<10, 6>>))
PxProxyMessage == Same(Fields(<<2, 2, 2>>) \o <<L(2, Fields(<<1>>))>>)
PxSendProxyid2GS == Same(Fields(<<2>>))
\* The answer of a server is "unpacked" with a push: its result is never read.
PxSendProxyid2GSres == Class(Fields(<<1>>), <<>>, Fields(<<1>>))

(* -------------------------------- exchanges -------------------------------- *)

Msg(name, to, written, read) == [name |-> name, to |-> to, written |-> written, read |-> read]
To(to, rows) == {Msg(row[1], to, row[2], row[3]) : row \in rows}

\* Each receiver picks its class by the type of the packet.
AtGameServer ==
    To("gs", {<<"SERVER_STATUS_QUERY", ServerStatusQueryMsg_T, TypeOnly>>,
              <<"SERVER_CONNECT_ILM_RESPONSE", ServerConnectILMResponseMsg_T, GsServerConnectILMResponseMsg>>,
              <<"LOCK_MAP_REQUEST", ServerLockMapRequest_T, GsServerLockMapRequest>>,
              <<"UNLOCK_MAP_REQUEST", ServerUnLockMapRequest_T, GsServerUnlockMapRequest>>,
              <<"UPDATE_MST_REQUEST", UpdateMSTRequestMsg_T, GsUpdateMSTRequestMsg>>,
              <<"START_PARTITION_REQUEST", StartPartitionRequestMsg_T, GsStartPartitionRequestMsg>>,
              <<"SERVER_LEAVE_REQUEST", TypeOnly, TypeOnly>>})
AtPeer ==
    To("peer", {<<"CONN_REQUEST", GsConnRequest, GsConnRequest>>,
                <<"CONN_RESPONSE", GsConnResponse, GsConnResponse>>,
                <<"AGENT_CREATE_REQUEST", GsAgentCreateMessage, GsAgentCreateMessage>>,
                <<"AGENT_DELETE_REQUEST", GsAgentDeleteMessage, GsAgentDeleteMessage>>,
                <<"SESSION_CREATE_REQUEST", GsSessionCreateMessage, GsSessionCreateMessage>>,
                <<"SYNAGENT", GsSynAgentMessage, GsSynAgentMessage>>})
Block == Msg("PACK_MAP_RESPONSE", "peer", GsPackMapsResponse, GsUnpackMapsRequest)
GameServerToIlm ==
    To("ilm", {<<"SERVER_CONNECT_ILM_REQUEST", GsServerConnectILMRequestMsg, ServerConnectILMRequestMsg_T>>,
               <<"SERVER_STATUS_REPLY", GsServerStatusReplyMsg, ServerStatusReplyMsg_T>>,
               <<"UPDATE_MST_RESPONSE", GsUpdateMSTResponseMsg, UpdateMSTResponseMsg_T>>,
               <<"LOCK_MAP_RESPONSE", GsServerLockMapResponse, ServerLockMapResponse_T>>,
               <<"UNLOCK_MAP_RESPONSE", GsServerUnlockMapResponse, ServerUnLockMapResponse_T>>,
               <<"START_PARTITION_RESPONSE", GsStartPartitionResponseMsg, StartPartitionResponseMsg_T>>,
               <<"SERVER_LEAVE_RESPONSE", GsServerLeaveResponse, ServerLeaveResponse_T>>})
RoleToIlm ==
    To("ilm", {<<"ROLE_CONNECT_ILM_REQUEST", RsServerConnectILMRequestMsg, ServerConnectILMRequestMsg_T>>,
               <<"ROLE_STATUS_REPLY", RsServerStatusReplyMsg, ServerStatusReplyMsg_T>>,
               <<"ROLE_MST_RESPONSE", RsUpdateMSTResponseMsg, UpdateMSTResponseMsg_T>>,
               <<"ROLE_LEAVE_RESPONSE", RsServerLeaveResponse, ServerLeaveResponse_T>>})
AtRole ==
    To("role", {<<"SERVER_CONNECT_ILM_RESPONSE", ServerConnectILMResponseMsg_T, RsServerConnectILMResponseMsg>>,
                <<"SERVER_STATUS_QUERY", ServerStatusQueryMsg_T, RsServerStatusQueryMsg>>,
                <<"REMOVE_SERVER_REQUEST", ServerLeaveRequestMsg_T, RsServerLeaveRequest>>})
ProxyToServers ==
    To("server", {<<"PROXY_CONNECT_GS", PxSendProxyid2GS, GsProxyConnRequest>>,
                  <<"PROXY_CONNECT_RSS", PxSendProxyid2GS, RsProxyConnRequest>>,
                  <<"PROXY_MESSAGE_GS", PxProxyMessage, GsProxyMessage>>,
                  <<"PROXY_MESSAGE_RSS", PxProxyMessage, RsProxyMessage>>})
ServersToProxy ==
    To("proxy", {<<"PROXY_CONNECT_GS_RESPONSE", GsProxyConnResponse, PxSendProxyid2GSres>>,
                 <<"PROXY_CONNECT_RSS_RESPONSE", RsProxyConnResponse, PxSendProxyid2GSres>>,
                 <<"GS_MESSAGE", GsProxyMessage, PxProxyMessage>>,
                 <<"RSS_MESSAGE", RsProxyMessage, PxProxyMessage>>})
ProxyMgrToIlm ==
    To("ilm", {<<"PM_CONNECT_ILM_REQUEST", PMConnectILMRequestMsg_T, PMConnectILMRequestMsg_T>>,
               <<"ADD_SERVER_RESPONSE", AddServerResponseMsg_T, AddServerResponseMsg_T>>,
               <<"REMOVE_SERVER_RESPONSE", ServerLeaveResponseMsg_T, ServerLeaveResponseMsg_T>>})
IlmToProxyMgr ==
    To("pm", {<<"PM_CONNECT_ILM_RESPONSE", PMConnectILMResponseMsg_T, PMConnectILMResponseMsg_T>>,
              <<"ADD_SERVER_REQUEST", AddServerRequestMsg_T, AddServerRequestMsg_T>>,
              <<"REMOVE_SERVER_REQUEST", ServerLeaveRequestMsg_T, ServerLeaveRequestMsg_T>>,
              <<"SERVER_LOAD_PM", ServerLoadToPM, ServerLoadToPM>>})
ProxyToProxyMgr ==
    To("pm", {<<"PROXY_CONNECT_LOGIN_REQUEST", PxLoginRequest, ProxyConnectLoginRequestMsg_T>>,
              <<"PROXY_CONNECT_LOGIN_COMPLETE", PxLoginComplete, ProxyConnectLoginCompleteMsg_T>>,
              <<"PROXY_STATUS_REPLY", PxStatusReply, ProxyStatusReplyMsg_T>>,
              <<"SEND_SESSION_RESPONSE", PxSendSessionResponse, SendSession2ProxyResponseMsg_T>>,
              <<"ADD_SERVER_RESPONSE", PxAddServerResponse, AddServerResponseMsg_T>>})
ProxyMgrToProxy ==
    To("proxy", {<<"PROXY_CONNECT_LOGIN_RESPONSE", ProxyConnectLoginResponseMsg_T, PxLoginResponse>>,
                 <<"PROXY_STATUS_QUERY", TypeOnly, TypeOnly>>,
                 <<"SEND_SESSION_REQUEST", SendSession2ProxyReqestMsg_T, PxSendSessionRequest>>,
                 <<"ADD_SERVER_REQUEST", AddServerRequestMsg_T, PxAddServerRequest>>})
LoginToProxyMgr ==
    To("pm", {<<"ADD_CLIENT_REQUEST", AddClientToPMRequestMsg_T, AddClientToPMRequestMsg_T>>,
              <<"ADD_CLIENT_RESPONSE", AddClientToPMResponseMsg_T, AddClientToPMResponseMsg_T>>})
ConsoleToIlm == To("ilm", {<<"GET_PLAN_REQUEST", GetPlanMsgRequest_T, GetPlanMsgRequest_T>>})

Exchanges ==
    AtGameServer \cup AtPeer \cup {Block} \cup GameServerToIlm \cup RoleToIlm \cup AtRole
      \cup ProxyToServers \cup ServersToProxy \cup ProxyMgrToIlm \cup IlmToProxyMgr
      \cup ProxyToProxyMgr \cup ProxyMgrToProxy \cup LoginToProxyMgr \cup ConsoleToIlm

(* ---------------------------------- lists ---------------------------------- *)

\* What a message has in its lists: for the place of a list in the layout, for
\* each element, what that has in its lists.
NoLists == <<>>
Alike(n, element) == [j \in 1..n |-> element]

\* Lists of fields only, each of any length
Flat(layout) ==
    LET places == {i \in DOMAIN layout : layout[i].kind = "list"} IN
    {[i \in places |-> Alike(n[i], NoLists)] : n \in [places -> 0..MaxLen]}

\* The regions of a block, each with any number of agents.  The data of agents are
\* of one length: all objects have the table of properties of UniG_GameObject.
Region(agents, bytes) == 2 :> Alike(agents, 8 :> Alike(bytes, NoLists))
OfBlock == {1 :> [r \in DOMAIN agents |-> Region(agents[r], bytes)] :
              agents \in BoundedSeq(0..MaxLen, MaxLen), bytes \in 0..MaxLen}

(* ----------------------------- pack and unpack ----------------------------- *)

Zero == <<"number", 0>>
Number(width, n) == [k \in 1..width |-> IF k = 1 THEN <<"number", n>> ELSE Zero]

Bytes(f, at) == [k \in 1..f.width |-> IF f.kind = "field" \/ k <= 2 THEN <<at, k>> ELSE Zero]

\* The values of a message in the order of the layout, each as its bytes
RECURSIVE Written(_, _, _)
Written(layout, has, at) ==
    FlattenSeq([i \in DOMAIN layout |->
        LET f == layout[i] IN
        IF f.kind # "list" THEN <<Bytes(f, Append(at, i))>>
        ELSE <<Number(f.width, Len(has[i]))>> \o
             FlattenSeq([j \in DOMAIN has[i] |-> Written(f.of, has[i][j], at \o <<i, j>>)])])

Message(x, has) == Written(x.written.pack, has, <<>>)

\* A value as the reader holds it: leading zero bytes of the number say nothing.
Value(bytes) == SelectSeq(bytes, LAMBDA b : b # Zero)

\* The elements that size() asks for their size, in the n-th element of a list
Asked(f, elements, n) ==
    [j \in DOMAIN elements |-> IF f.kind = "outer" THEN n ELSE j]

TypeWidth == 2
RECURSIVE Width(_, _, _)
Width(layout, has, n) ==
    MapThenSumSet(LAMBDA i :
        LET f == layout[i] IN
        f.width + (IF f.kind \notin {"list", "outer"} THEN 0
                   ELSE LET asked == Asked(f, has[i], n) IN
                        MapThenSumSet(LAMBDA j : Width(f.of, has[i][asked[j]], asked[j]), DOMAIN asked)),
        DOMAIN layout)

SizeOf(x, has) == TypeWidth + Width(x.written.size, has, 0)

\* size() asks only elements that are there.
RECURSIVE InRange(_, _, _)
InRange(layout, has, n) ==
    \A i \in DOMAIN layout : layout[i].kind \in {"list", "outer"} =>
        \A j \in DOMAIN has[i] :
           LET asked == Asked(layout[i], has[i], n)[j] IN
           asked \in DOMAIN has[i] /\ InRange(layout[i].of, has[i][asked], asked)

SizeDefined(x, has) == InRange(x.written.size, has, 0)

Pushed(x, has) == [k \in 1..TypeWidth |-> <<"type", k>>] \o FlattenSeq(Message(x, has))

\* pack: reserve size() bytes, push the type and the fields. A push beyond what
\* is reserved throws; what is not pushed has the bytes that were there.  A size()
\* that asks for the size of an element that is not there may end the process, or
\* be anything.
Packed(x, has) ==
    LET bytes == Pushed(x, has)
        missing(size) == [k \in 1..(size - Len(bytes)) |-> <<"unwritten", k>>]
        packet(size) == IF Len(bytes) <= size THEN bytes \o missing(size) ELSE <<"threw">>
    IN IF SizeDefined(x, has) THEN {packet(SizeOf(x, has))}
       ELSE {<<"crashed">>} \cup {packet(size) : size \in {0, Len(bytes), Len(bytes) + 1}}

\* unpack: a pop beyond the end of the packet throws. "cursor" holds where the
\* reader is, what it has read, and whether it got there.
RECURSIVE Pop(_, _, _)
Pop(layout, bytes, cursor) ==
    FoldLeft(LAMBDA c, f :
        IF ~c.ok \/ c.at + f.width > Len(bytes) THEN [c EXCEPT !.ok = FALSE]
        ELSE LET cut == SubSeq(bytes, c.at + 1, c.at + f.width)
                 next == [c EXCEPT !.at = @ + f.width, !.values = Append(@, Value(cut))]
             IN  CASE f.kind # "list" -> next
                   [] f.kind = "list" /\ cut[1][1] = "number" ->
                        FoldLeft(LAMBDA d, j : Pop(f.of, bytes, d), next, [j \in 1..cut[1][2] |-> j])
                   [] OTHER -> [next EXCEPT !.ok = FALSE],
        cursor, layout)

Unpacked(x, bytes) == Pop(x.read.unpack, bytes, [at |-> TypeWidth, values |-> <<>>, ok |-> TRUE])

(* ------------------------------- the machine ------------------------------- *)

VARIABLES exchange, lists, packet, got

vars == <<exchange, lists, packet, got>>

Nothing == [at |-> 0, values |-> <<>>, ok |-> FALSE]
NoPacket == {<<"threw">>, <<"crashed">>}

\* The ILM's region ids are four bytes wide in the lock and partition commands
\* and two at the game server, so only the first id of a list arrives.
Narrowed == {"LOCK_MAP_REQUEST", "START_PARTITION_REQUEST"}

\* Of these the receiver reads the type alone.
Unread == {"SERVER_STATUS_QUERY", "PROXY_CONNECT_GS_RESPONSE", "PROXY_CONNECT_RSS_RESPONSE"}

Init ==
    /\ exchange \in Exchanges
    /\ lists \in IF exchange = Block THEN OfBlock ELSE Flat(exchange.written.pack)
    /\ packet = <<>>
    /\ got = Nothing

Pack ==
    /\ packet = <<>>
    /\ packet' \in Packed(exchange, lists)
    /\ UNCHANGED <<exchange, lists, got>>

Unpack ==
    /\ packet \notin {<<>>} \cup NoPacket
    /\ got = Nothing
    /\ got' = Unpacked(exchange, packet)
    /\ UNCHANGED <<exchange, lists, packet>>

Next == Pack \/ Unpack

Spec == Init /\ [][Next]_vars

(* ------------------------------- properties -------------------------------- *)

Values == LET m == Message(exchange, lists) IN [i \in DOMAIN m |-> Value(m[i])]

IsUnread == exchange.name \in Unread /\ exchange.to # "role"

\* The region ids of a command, at its end
Ids == Len(lists[CHOOSE i \in DOMAIN lists : TRUE])

\* For every message of the system and every length of its lists: what the
\* sender's class reserves is what it pushes, so that pack neither throws nor
\* leaves bytes that nobody wrote, unless size() asks for an element that is not
\* there (MigrantsPacked); and the receiver's class, whatever comes after them,
\* reads the fields that were written, in the same order and to the last of them.
\* A command with more than one region id does not arrive as it was written
\* (RegionsNamed): the number of ids and the first one do.
ReadAsWritten ==
    /\ packet # <<>> /\ SizeDefined(exchange, lists) => packet = Pushed(exchange, lists)
    /\ got # Nothing =>
         /\ got.ok
         /\ CASE IsUnread -> got.values = <<>>
              [] exchange.name \in Narrowed ->
                   LET some == Len(Values) - Ids + 1 IN
                   /\ Len(got.values) = Len(Values)
                   /\ Ids <= 1 => got.values = Values
                   /\ Ids > 1 => SubSeq(got.values, 1, some) = SubSeq(Values, 1, some)
              [] OTHER -> /\ got.values = Values
                          /\ got.at = Len(Pushed(exchange, lists))

\* The data of a partition are made: packing the players of the regions ends with a
\* packet to send (ILMObject::TransferMigrators, which is not prepared for less).
MigrantsPacked == exchange = Block => packet \notin NoPacket

\* The game server takes only ids of regions from a lock or partition command, none
\* that is 0 (ObjectTools::TransfromRegionID, which asserts it).
RegionsNamed ==
    exchange.name \in Narrowed /\ got # Nothing =>
        \A i \in DOMAIN got.values : i > Len(got.values) - Ids => got.values[i] # <<>>
=============================================================================
