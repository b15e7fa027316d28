# Verification of the seamless cloud

The repository is the server side of a seamless online game. The world is cut
into *zones* of *regions*; *game servers* run zones; the *ILM server* keeps the
directory of zones (the MST, "map to server table") and moves zones between game
servers to balance their load; *proxies* carry the players' traffic and a *proxy
manager* knows the proxies; a *login server* and *role servers* stand at the
entrance. Paths below are relative to `src/src/allservers/`.

This directory holds TLA+ modules of these servers, the TLC runs that check
them, and proofs about every process of the inventory and the buffers between them.
`PROJECT.json` names every component,
run, mutant, mapped definition, finding, hazard and theorem.

## 1. Inventory

| Component | State | Operations | What makes it correct | Module |
|---|---|---|---|---|
| ILM plan engine (`ILMServer/ServerManager`, `GameServerListener`) | queues of new, registered and idle servers; id cursor; `m_iFlag`, `m_plan`, `m_needReplay` | accept, join, loss of a server; plan by console or by load; the stages 1-9 and 99 | a plan ends; a stage ends when its answers are in; the ILM survives a plan | `ServerManager` |
| ILM directory (`Zone`, `ZoneMgr`, `Config`) | `m_nServerID` of a zone, `m_lstZone` of a listener, the pool `m_vZoneGroup` | give a group, take zones back, hand a zone over | every zone has one server or waits; both representations agree | `ServerManager`, `ZoneDirectory` |
| ILM configuration (`Config::LoadConfigFile`, `ZoneMgr`) | map units, neighbours, zone groups | load a file, number zones, form groups, generate the MST | neighbours are the units around; groups and MST cover the world once | `MapLayout` |
| ILM role servers (`RoleServer`) | a second registry | join, number, query, notice of a lost game server | every role server is served; no role server names a lost game server | `RoleServers` |
| ILM console, proxy manager listener | connections | move command; join and leave notices | | `ServerManager`, `ProxyManager` |
| Game server, ILM thread (`GameServer/src/ILMListener`) | queues to the main thread | lock, unlock, MST, partition | one answer per command, in order | `ServerManager`, `Seamless`, `BlockChannel` |
| Game server, block channel (`ServerContext`) | a context per peer, the list of blocks | connect, SendBlock, RecvBlock | what is taken is what was sent; nobody waits for nothing | `BlockChannel` |
| Game server, main loop (`UniG_GameServer`, `UniG_Map`, `UniG_SubMap`) | regions, objects, locks | lock, pack, unpack, clear, unlock; create and delete shadows | a player is decided by one server, shadows are where they are seen | `Seamless` |
| Game server, players, sessions, MST (`UniG_Player`, `UniG_SessionMgr`, `MSTInfo`) | entity or shadow, its list of servers; sessions; copy of the MST | region change, login, orders | a client talks to the server that decides its player | `Seamless`, `Relay` |
| Game server, role server: proxy connections (`ProxyListener`) | connections by proxy id; queues of answers | read, handle, send | answers come to who asked, in order, once | `Relay` |
| ProxyManager | proxies, servers, sessions, awaited add-server answers | proxy join and loss, add and remove server, admit client | one item per proxy; a ticket is honoured; every server is listed | `ProxyManager` |
| Proxy (`Proxy/src/ProxyObject`) | session codes, clients by number, connections to servers | join, add server, admit client, route | see ProxyManager and Relay | `ProxyManager`, `Relay` |
| LoginServer | connections, users, queries | log in, log out, pass the ticket on | every login is answered, and the right client | `LoginServer` |
| Messages (`message/`, `*Message.cpp`) | none | pack, unpack, size | the reader's class reads what the writer's wrote | `Wire` |
| Common (`common/`) | epoll set, input and output buffers | add, setup, wait; read, write, frame | a message is delivered or its loss is noticed | `Connection` |

How they interact: the ILM talks to every game server over one connection per
server, answered in order by that server's ILM thread, which waits for the game
server's main thread. Game servers exchange blocks and shadow messages directly.
The ILM tells the proxy manager who joins and leaves; the proxy manager tells
the proxies, which connect to every server. A client logs in at the login server,
which gets it a proxy and a session from the proxy manager; it then talks to that
proxy only. The proxy passes its messages to a role server, which names a game
server, and then to that one.

What is hard: the ILM is one thread, but its waits are nested, so callbacks run
in the middle of a stage; replies carry no number of the command they answer; a
server may be lost at any wait; ids of servers, proxies and clients are used
again or change while messages carry the old one; stages time out while answers
are under way; a partition needs two game servers, each with three threads, to
meet; a player may cross a border while its zone moves; what is compared on both
sides of a connection is written by different classes.

## 2. Modules

| Module | Content | Checked by |
|---|---|---|
| `ServerManager` | the ILM, its connections and, from outside, the game servers | |
| `ServerManagerProps` | the rules on the environment and the properties | `MCServerManager`: `Directory`, `Stages`, `JoinDuringPlan` |
| `ZoneDirectory` | the abstract directory: grant, release, begin, move, end | the refinement in `Directory`, and proved |
| `ServerManagerProofs` | proofs about the ILM: types, ownership and refinement; the stages of a plan | tlapm |
| `SequenceLemmas` | what the proofs use of sequences: Append, Tail, RemoveAt, RemoveFirst, SetToSeq, Min; and of functions defined by steps | tlapm |
| `Seamless`, `SeamlessProps` | the game servers of a world, their players and the stages of a plan at them | `MCSeamless`: `Regions`, `Crossing` |
| `SeamlessProofs` | proofs: types and stages; the players; the lists of the entities | tlapm |
| `BlockChannel` | two game servers that exchange a zone's objects | `Blocks` |
| `BlockChannelProofs` | proofs: the bytes of both ends, the turns of OnRead, the plans | tlapm |
| `ProxyManager`, `ProxyManagerProps` | the proxy manager and the proxies, with ILM and login servers around | `MCProxyManager`: `Proxies`; `MCEntrance`: `Entrance` |
| `ProxyManagerProofs` | proofs: connections and items, ids, servers, sessions, the count of answers | tlapm |
| `Relay` | proxies, role server and game server: a player's messages and their answers | `MCRelay`: `Relay` |
| `RelayProofs` | proofs: ids of proxies and clients, messages, their order, players | tlapm |
| `LoginServer`, `RoleServers` | the two ends of the entrance | `MCEntrance`: `Entrance` |
| `EntranceProofs` | proofs: logins and users; the lists of role servers | tlapm |
| `Wire`, `MapLayout`, `Connection` | messages, configuration, buffered connections | `MCMessages`: `Messages`; `Wire`: `Migrants`, `RegionIds` |
| `ConnectionProofs` | proofs: the stream of cells, room in the buffers, what two writers have under way | tlapm |

`ServerManager` sees game servers as queues of commands; `Seamless` takes the
ILM's stages as they come from there and has the players; `BlockChannel` has the
inside of the one step `Transfer` of the first and of the block of the second.
`RoleServers` assumes of game servers what `ServerManager` shows under its rules.
`Wire` says which messages of all these modules arrive as they were sent, and
`Connection` that accepted messages arrive at all.

Each module holds its properties at its end or in `...Props`. Operators whose
name ends in `M`, or whose comment begins with "Mutant", are plausible errors of
the code; every property of a passing run is violated by one of them.

### 2.1 ServerManager

`prep`, `regular`, `idleServers` are the three vectors of `ServerManager`.
`srvId`, `connSucc`, `lstZone` are fields of a listener; `zoneServer` and
`hasInit` are fields of a zone; `zoneGroups` is `Config`'s pool. `iFlag`,
`plan` and `needReplay` are `m_iFlag`, `m_plan` and `m_needReplay` (a set: the
code removes all occurrences at once). `pm` says whether a proxy manager is
connected. `pc` is the place of the ILM's thread: the main loop of
`ILMServer.cpp` goes `wait`, `accept`, `query`, `plan`; `acceptWait`, `mstWait`
and `planWait` are the waits inside `waitServerReply` and
`waitGameServerReply`, and `waiting` is the case of `doPlan` that waits.
Callbacks are enabled exactly at the waits. `link`, `inbox`, `outbox` are the
connection of a listener with what is under way in both directions; `host` is a
ghost: the server that last unpacked a zone. `loaded` abstracts player counts to
"may be above zero".

One action per callback and per case of `doPlan`. A case that waits is two
steps: the send, up to the wait (`SendLock`, `StartPartition`, `ChangeMST`,
`SendUnlock`, or only the wait for 2, 4 and 8), and the end of the wait
(`AllReplied` or `TimedOut`), with callbacks in between. This is what makes
"the case overwrites what a callback stored" visible. Case 6 is never entered:
no code sets `m_iFlag` to 6.

* `RemoveGameServer` is the whole of `removeGameServer`: abort, zones back to the
  pool, and erasure only with a proxy manager. Its nested waits are not separate
  steps: callbacks of another connection in them commute with the rest of the
  removal, except a second loss in the same batch of events, whose listener is
  used after its deletion and which is a disjunct of `Terminates`.
* `Terminate` is the end of the process by an uncaught exception or a fault: a
  send to a listener that is out of epoll, a missing party in `changeMST` or
  `recoverMST`, the uninitialised pointer of `IslandMigration`, or the unchecked
  lookups of `LoadNeighbourState`.
* The `catch(StreamException_T)` branches of `sendLockToServer`,
  `sendUnLockToServer`, `startPartition` and `updateMST` are unreachable: `write`
  only fills the output buffer, and `setup` throws an `EpollException`.
* `MakePlan` chooses among every zone and target that loads could select;
  the stage of plans between neighbours is dead (`AddNeighbour` is commented out).

External: `GsCrash` (a game server dies). What a game server does with a
command is read from `GameServer/src/ILMListener.cpp` and stands on its
side as one step per command; `Transfer` is the meeting of both ends.

The code keeps its promises only in an environment that it does not enforce.
Each condition is a rule on the environment's own steps; `Rules` is the set a
run assumes, and `DisciplinedSpec` is `Spec` without fairness, restricted to
them.

| Rule | Says | Why |
|---|---|---|
| `ids` | a server announces itself only when the next id is free and nobody else is being admitted | ids are 1, 2, 1, 2... (`allocateSrvId`, `ServerManager.cpp:2013`): the third server gets the id of the first, and a plan between ids moves the zone of the wrong listener |
| `pm` | a server is lost only while the proxy manager is connected | `removeGameServer` returns half way otherwise (146): zones in the pool and at a listener |
| `plan` | a plan moves a zone from the server that lists it to another registered one | the console accepts `from = to` (1503-1509; `changeMST` then removes the zone from its only list) and the load balancer may read an uninitialised pointer (`PlanMgr.cpp:362`) |
| `join` | no server joins while a plan runs | nothing in `acceptGameServers` waits for a plan; `JoinDuringPlan` shows it |
| `quiet` | a plan starts when all earlier commands are answered | replies are not matched to commands (`GameServerListener.cpp:412`), so a late one ends the lock stage |

Ordinary operation breaks each of them, and without any one of them TLC violates a
property. Two more comments of the code do not hold with all of them:
"all server replied!" at the unlock (1691: repeated MST updates leave answers
under way that count as answers to the unlock), and the 99 that `startPartition`
stores for a missing server (1939), which its caller overwrites with 5. The
constants carry one condition on the configuration: a zone is in exactly one of
the groups (`ConstantsAssumption`); `MapLayout` shows which files give that.

### 2.2 Seamless and BlockChannel

A player of `Seamless` has at each server a copy or none; a copy is the entity
or a shadow (`agent`), has a region, and as entity the list of servers with a
shadow (`AgentInfo`). One action is one message of the main thread or one command
of the ILM thread. The stages of a plan are those of `ServerManager`, one
order at a time, with answers matched; `Abort` may give a plan up at the lock or at the
partition. The other way to give up, case 8 after the MST was changed
(`ServerManager.cpp:1702-1707`), which leads to the roll-back of the MST by case 99
(1745-1757), is in `ServerManager` alone. Facts of the code that the model keeps or
leaves out:

* `m_bLocked` of a region is set and reset and read by nobody: a lock stops only
  the clients, by LOCK_OBJECT_REQUEST.
* SYN messages of shadows change nothing at the granularity of regions and are left out.
* SESSION_CREATE (`UniG_GameServer.cpp:398-420`) puts the session that comes with a
  player into a server's map of sessions if the player is there. It follows the creation
  of the shadow, on the same connection, and `DeSerialize` of the creation has made the
  session already (`UniG_Player.cpp:91-101`); a player that was there before had its
  session from before. It changes nothing and is left out.
* What a client orders is answered before its next order; it is silent between
  LOCK_OBJECT_REQUEST and CHANGE_SERVERID.
* Players do not touch each other's copies, so one player shows what many do.

The properties hold in six worlds (`HoldWorlds`): walking within the regions of a
server, walking across a border, a plan with the player in or near its zone, a
plan while the player enters the zone, a plan with an order under way at the
pack, and a plan that is given up. Each exception inside a property names the
world in which TLC refutes it: crossing a border without a plan leaves the client
at the old server (run `Crossing`, a finding); an order under way at the pack
is carried out at the source after the objects were packed; an abort after the
transfer leaves two entities; and in the world "near", which is in no run, a plan
may go to a destination that runs regions next to the zone, or that has not
finished with what it ran before: it may have a shadow of a player of the zone, or
get one from a message under way, and the unpacking does not overwrite it. In
the other worlds a destination is `Unused`: nobody's region, copy, message or list
names it.

`BlockChannel` has both servers' three threads: the command thread (`pc`), the main
thread (`MainRun`) and the block thread (`OnRead`), with bytes cut anywhere. It
keeps the quirks of `ServerContext.cpp`: `m_bHasInit` is set at the accepting
end only (784), so the connecting end looks for a connection message in every read;
RecvBlock looks at the list without the mutex under which it waits and without a
timeout (383-400), so a signal may be lost; the length of a block is set before
the payload is there; contexts are never reset; a server without maps never
connects (`MSTInfo.cpp:103`), and a plan for it ends the source's command thread;
after an abort the opposite plan may meet the blocks of the last one. External:
`MsgQueue`, `Condition`, `SocketHandler` and `Epoll` of the library that is not in
the repository. Not modelled: the start-up race of the listening thread
(`ServerContext.cpp:102,126`), and `NotifyIncoming`, which nobody calls.

Two facts, found when the invariant was looked for, keep the properties from saying
more; `Blocks` has a request of two bytes so that both happen. Bytes may also be taken
for a message at the end that is connected to, when a number that the peer never sent
lets the first part of the connection request pass for a length (819-836): that end
then never has a context, and TakenAsSent says so. And bytes taken in the middle of a
block leave parts of it that are read as blocks of their own, the first of which a
source takes for the destination's answer: with `eaten` not empty a source may report a
success of objects that nobody unpacked, so SuccessIsUnpacked leaves this case out.

### 2.3 ProxyManager and Relay

`ProxyManager` has both ends of the connection: `ProxyAction`, `ILMAction` and
`LoginServerListener` at the manager, `ProxyManagerObject` and the session codes
at the proxy. A connection that breaks is "broken" until an event tells the manager, or
for ever ("silent"); only `alreadyHaveThisProxy` then removes the item. Session
numbers are a counter whose stored and returned values differ
(`ProxyManager.cpp:481`): two users may share one, and TicketKept says that each
still finds its own entry. Ids of proxies are a counter that begins again when the
proxy manager does (restarted by hand, or after it met the null `_ILMListener`,
`AnswerNobody`), while proxies still come with the ids of before: an id then names
two proxies, and a session that one granted is answered with the address of the
other. This is why OneItemPerProxy (for ids) and TicketKept are conditioned on
`IdsOnce`. `getServers` sizes a packet with an uninitialised
variable (559): the packet may throw, which is `ProxyJoinThrows`, and that proxy
is never answered. `removeServer` takes one entry of a server from the list and an
answer that comes later adds one (528). Facts that keep a property from being
stated more strongly: a proxy lost between ADD and its answer leaves
`_addServerCount` too high for ever, so that the ILM is not answered; a login
server that comes back is another one, and grants for the old one go nowhere; the
result of a join is not looked at by the proxy.

`Relay` has what lies between a client and the two kinds of servers. What a proxy
wrote and the server's main thread has not taken (socket and `ProxyInQueue`) is
one queue. Its clients are told apart in the code by the proxy's id and the
client's number; the field `client` of a message is a ghost. `Rejoin` is
what a proxy does after it lost the manager: a new id, new connections, and maps
that keep their old entries (`map::insert`). The sender thread takes any session
at any time: the main thread changes the session map meanwhile without a lock, and
sessions are never removed. USER_LOGOUT changes nothing.

AnswerToAsker states the order for questions of one connection whose answers come back
under one id. "The same server and id" would be too strong: when a proxy's connection
breaks, what the server has not read of it is still processed, perhaps after the proxy
joined again with a new id and the client logged in again and asked more over the new
connection; the game server then answers the old object message to the player's
session of now, under the new id and after the newer one.

A client's number has 16 bits where it is used, and nobody looks whether it is free. A
world says whether a number comes round after its client has left ("wrap") and while
that client is there ("clash"). In the two worlds with "wrap" the third client of a
proxy has the number of the first, which has left: at the game server it finds the
session of that client, with that client's player, and perhaps its last messages
still on the way. ActsAsUser holds there once the new client has logged in, since the login
gives the session the player of its own user (`UniG_SessionMgr.cpp:156`); a client that
sends an object message without a login acts on the earlier player, and the property
makes that exception. AnswerToAsker does not hold for the new client: it is sent what the
earlier one still has in the session's queue, so the property speaks of numbers that one
client has.

What breaks these properties is in no run. A proxy manager that was started again
(event "pm") gives ids out twice: AnswerToAsker and ActsAsUser. "clash": a newcomer is
not entered in the map, its answers go to the other client and its leaving removes it.
"wrap" with "break" and "rejoin": what the earlier client sent over the
connection that broke is read after the login of the new one, which came over the next
connection, and its own login then takes the session back. A broken connection
together with a rejoin also leaves the dead connection in the server's map and violates
Answered. Two clients of the same user share its player, and so its answers. Not modelled: after the
proxy manager's connection broke, `ProxyManagerObject::Instance()` is null until the
proxy has joined again (`ProxyObject.cpp:1387`), and the first packet of a client in
that time ends the proxy (921); `ReadCode` reads it as at any other time. The length of
an object message is 6 too large after EnqueMsg; the first four bytes of a role's guid
are never 0.

### 2.4 LoginServer and RoleServers

`LoginServer` has the service thread (`ProcessMsg` and `Loop`) and the query
thread. A `CConnect` and a `CUser` are used after their deletion; the model lets
their memory be any object that lives then (`Memory`, `NamedBy`). The
worlds are limited where the code fails: a client that leaves before its answer
while another logs in violates AnswersExpected, and a client that leaves late
may log another user out who still waits for the proxy (LoginAnswered makes that
exception). The close of a `CConnect` is an empty function (`Connect.cpp:41`), so
a client is not disconnected after its ticket. The query thread adds a result to the
list without the mutex under which the service thread takes it
(`QueryThread.cpp:109,124`); `Query` is one step, so a list torn by the race is not
modelled.

`RoleServers` has the ILM's second registry and the list of a role server. It
holds under the rules `ids` and `pm` of `ServerManager`. Without the proxy
manager `removeGameServer` returns before the notice, and role servers name the
lost server until a query with another list; `removeRoleServer` then uses the null
listener (`ServerManager.cpp:197`). An empty list is not taken over
(`SeamlessMessage.cpp:385`), which only the notice makes good.

### 2.5 Wire, MapLayout, Connection

`Wire` has for every message the layouts that its class packs, unpacks and sizes
(they may differ), and for every connection which class writes and which reads. A
message has its lists element by element, so that two regions of a block may have
different numbers of agents. Facts it keeps:

* `PackMapsResponse::Size` (`SeamlessMessage.cpp:828-832`) takes for every agent of
  region i the size of agent i of that region. Where a region has agents and fewer
  than i + 1 of them the list is read past its end: `Packed` then ends the process, or
  reserves too few bytes so that a push throws (outside of every `try`), or too many.
  The run `Migrants` shows it, a finding. Where the sum is defined it is right:
  all objects have the table of properties of `UniG_GameObject`
  (`UniG_GameObject.cpp:36-38`), so agents are of one size (`OfBlock`), and
  ReadAsWritten says that what is reserved is what is pushed.
* The ILM's region ids in lock and partition are 4 bytes wide and read as 2. The number of
  ids and the first one arrive, as ReadAsWritten says; every second one that the game
  server takes is 0, which names no region. The run `RegionIds` shows it, a finding.
* Responses of which the type alone is read; `SendProxyid2GSres::Unpack` pushes
  (`ProxyObject.cpp:806`); `UnpackMapsRequest::Size`, which nobody calls for a block,
  omits agents; ConnectILMRequest packs no version and its own class would pop one.

Types that nobody sends (SystemMessage, LoadSubMap, ClearAgent, LockObject) are left out.

`MapLayout` takes a file's lines as data and follows `LoadConfigFile` from there.
NeighboursExact has one exception, the upper right unit of unit m of a map
(`Config.cpp:279` tests `i > m`). WorldCovered says that a zone is in one group for
each server that its units name: of a file whose zone names two servers it states, as the
behaviour of the code, that the zone is in two groups (569). `mapID` is tested while
uninitialised (138).

`Connection` is a pair of non-blocking connections with epoll, both triggers.
Complete messages are lost if the end of the stream is met by the same read; a
message beyond the buffer is refused and the caller is not told; notices of the
proxy manager wait for EPOLLOUT alone. An `ILMAction` that meets an unknown type
returns without handling the rest.

`writeBytes` goes round and round while the socket is full, so two threads that write
to each other may wait for each other. NeverBothSpin states when they cannot: a
callback that could write waits for data too and therefore reads first, the messages sent
so far have one size, a socket holds two buffers. With different sizes they can: with messages of 2, 3 and 4 cells,
buffers of 4, sockets of 8 and reads of a cell at a time, a callback finds fewer whole
cells in its buffer than the other side wrote, and TLC finds both threads in
`write()`. The program's messages have different sizes, and nothing in the code but the
amount of traffic excludes it; Delivered makes the exception.

## 3. Runs

| Run | Instance | States | Shows |
|---|---|---|---|
| `Directory` | 2 servers, 3 zones in 3 groups; rules ids pm plan join | 168 064 | TypeOK, OneServerPerZone, RecordedServerHolds, RegistryConsistent, NoZoneLost, PlanZoneAtParty, PlanSurvives; the plan engine implements `ZoneDirectory` |
| `Stages` | 2 servers, 1 zone, two messages under way; all rules, fairness | 89 966 | AllLocked, MoveAfterTransfer; PlanEnds |
| `JoinDuringPlan` | 3 servers, 3 zones, without `join` | violation | a join during a plan breaks OneServerPerZone |
| `Proxies` | 2 proxies, 2 connections, 1 login server, 2 users, 1 server, four worlds of faults | 1 057 709 | OneItemPerProxy, TicketKept, ServersKnown, CountExact |
| `Blocks` | lengths of 2 bytes, blocks of 1 and 3, a request of 2, 3 plans, both servers may die | 310 080 | TakenAsSent, SuccessIsUnpacked, HangsOnlyByLoss |
| `Regions` | 3 servers, 1 player, 2 x 3 regions, six worlds, fairness | 111 634 | OneEntity, Served, HomeAgain, ListExact, PlanLeavesNothing, ClientThawed |
| `Crossing` | the same, world "across" | violation | a client is told the server it leaves |
| `Relay` | 2 proxies, 2 or 3 of 4 clients, 2 connections to a server, up to 3 messages, ten worlds, fairness | 140 594 | AnswerToAsker, ActsAsUser, Answered |
| `Entrance` | part "login": 3 clients, 2 users; part "roles": 2 role servers started twice, 2 game servers that join 3 times; part "servers": 2 proxies, a game server and a role server, no faults; fairness | 217 900 | AnswersExpected, LoginAnswered; NoLostServer, RoleInformed; ServerListed |
| `Messages` | every exchange with lists up to 3, blocks of up to 3 regions of up to 3 agents; files of all shapes up to 4 x 4; buffers of 3 cells, sockets of 6, three messages each way, of different sizes and of one; fairness | 141 302 | ReadAsWritten; NeighboursExact, WorldCovered; Framed, KeepsConnection, NeverBothSpin, Delivered, LossNoticed |
| `Migrants` | every exchange with lists up to 2 | violation | a block of agents may not be made |
| `RegionIds` | the same | violation | a game server takes a region 0 from a command |

`CHECK_DEADLOCK FALSE` everywhere: the ILM may end, clients have a bounded number
of messages, a file is loaded once, two threads may wait for each other: the
models then stop, and what must not be left at that point is stated as a
property (PlanEnds, HangsOnlyByLoss, NeverBothSpin, Answered, LoginAnswered).

A run with "worlds" takes one of them in its initial state. A world names the
faults and the actors of a behaviour; it keeps apart what would multiply the
states without meeting, and is where a case in which the code fails is left out
(2.2 to 2.4 name those). A property with a condition on the world says which
fault it cannot stand. `MCMessages` and `MCEntrance` choose a part in the same
way; their parts have no variable in common.

**Bounds.** *ILM:* a listener is one connection, so two are one server that returns or
two at once; ids are 1 and 2 as in the code (`IdReset = 2`). `RetryLimit` is 2 for 21
and `CountMod` 2 or 3 for 256: an even modulus and an odd one give the counter 0 at
the first retry, at a limit, and at the wrap. `MaxBacklog` limits what is under way to
one server: a guard of `Adopt` and of repeating case 5, both of which the code may do
at any time; 2 lets an answer of an earlier command be under way with the next.
`Stages` has it: with 1 the guard would keep the wait of case 5 from timing out while
an answer is under way, and so would hide that case 5 can be repeated for ever. Three
zones in three groups, one of them an island, reach both ways of choosing a zone and
let the pool be non-empty when a server is lost; what `Stages` asks is the same for
every zone. *Regions:* two rows and three columns have corners and middle regions, and
a zone with a neighbour of its own server and of the other; one plan at a time and
`MaxNet` of 2 let a creation and a deletion of a shadow be under way. *Blocks:* three
plans give one before, during and after a hang; a block is shorter and longer than a
length, which are the two ways to be taken for the other, and a request may be cut in
two. *Proxies:* the awaited answers and the server list are bounded by 2, which is
enough for an answer of before a loss to meet one of after it. *Relay:* three messages
let a sender's batch be written while one more is added and a later one follows; two
connections are one before and one after a rejoin. With two numbers for a proxy's
clients (`IdMod`, 65 536 in the code) the third client has the first one's.
*Entrance:* a role server that never asks, one behind it, and one that comes back.
*Messages:* lists of 0, 1 and more, so that a region of a block may have more agents
than its number, as many, and fewer; a buffer that holds one message and a part of
none, a socket of two buffers, reads and writes of 2 cells that cut messages of 3. The
part "equal" has messages of one size, three each way and so more than a socket holds,
under the edge trigger, where both events are waited for; in it the two threads reach
`write()` together.

**Fairness.** Weak fairness of a thread or of an event loop whenever it has
something to do, since none of these loops blocks without a timeout or without an
event pending: the ILM's main loop, the handlers of the proxy manager and the
proxies, the main threads of game servers, the sender threads, the service and the
query thread, epoll callbacks. Strong fairness only in
`ServerManager`, for the delivery of a reply and of a loss, because waits come and
go and epoll reports what is pending at every one. No fairness for what clients,
operators, load balancer and faults do, nor for `TransferFails`. In `Relay` one
weak fairness covers all threads: with a bounded number of messages none can be
kept waiting by the others. Plans need the retry limits: a server that hangs in
RecvBlock never answers. Case 5 has none (`ServerManager.cpp:1632-1655`): when the
answers to a change of the MST always come between two of its waits it is done again, and
PlanEnds excepts the behaviour that stays in it for ever.

**Findings.** Four runs show a comment or an assertion that the code contradicts:
"一个zone只能属于一个server" (a zone can belong to one server only, `Zone.h:25`) in
`JoinDuringPlan`; "tell the client to change server." (`UniG_Player.cpp:184`)
in `Crossing`; "Make partition data and send it to destination server"
(`ILMListener.cpp:345`) in `Migrants`; and the assertion that a region's id is above 0
(`UniG_ObjectTools.cpp:54`) in `RegionIds`. Other disagreements met while modelling
stand in section 2.

## 4. Proofs

A theorem holds for arbitrary values of the constants that satisfy the
assumption of its module: `ConstantsAssumption` (any sets of listeners and zones,
any groups, id limit, retry limit and counter range), `SeamlessAssumption` (any
grid of at least two columns, any distribution of regions, any number of players,
plans and messages under way), `PMAssumption` (any sets of proxies,
connections, login servers, users and servers, any counter width and bounds),
`RelayAssumption` (any sets of proxies, clients and users, any bounds),
`LoginAssumption` (any sets of connections and users), `RoleAssumption` (any sets of
role and game servers, any bounds), `BlockChannelAssumption` (lengths, blocks and
requests of any size, any number of plans, either or both servers mortal) and
`ConnectionAssumption`. Where there are worlds the theorems quantify over them as well;
a theorem whose property names a condition on the world holds in every world that meets
it, also in those no run has.

A recursion of the code (the turns of OnRead's loop, the messages a role server reads)
is a recursive function in the model. That it is defined everywhere is `IterationExists`
of `SequenceLemmas`: for every number of steps there is one function that begins with
the base and makes the steps (`IterationUnique`); both are proved once, by the induction
on a set of numbers that has no least counterexample, which needs no operator parameter.

**The ILM** (`ServerManagerProofs`)

* `TypeCorrect`: `TypeOK`, without any rule. The sequence lemmas say
  what Append, Tail and RemoveFirst do to ranges.
* `NoZoneIsLost`: NoZoneLost with the rule "plan" alone. Its invariant adds that a
  plan in progress names two different parties.
* `ZoneHasOneServer`, `DirectoryAgrees`, `PlanFindsItsZone`, `RegistryIsSound`:
  the ownership properties, from the assumption that `Rules` holds the four
  ownership rules. They are inductive together only: that a zone handed over is
  found at a party (PlanZoneAtParty) needs that ids are unique
  (RegistryConsistent), and that hand-over keeps OneServerPerZone needs
  PlanZoneAtParty. The proof has one step per action that disturbs the
  directory, and one lemma for the rest.
* `DirectoryImplemented`: with that invariant each step maps to a step of
  `ZoneDirectory` or to a stutter: a join to Grant, a loss to Release, a new plan
  to Begin, changeMST and recoverMST to Move, the end of a plan to End.
* `LockedBeforePartition`: AllLocked, with all five rules. AllLocked is not
  inductive: a reply takes an id out of `m_needReplay` whatever it answers, so
  `LockInv` says that in the lock stage nothing but the lock command and its answer is
  under way at a registered server, and nothing at any other.
* `PlanSurvivesHolds`: PlanSurvives, with the ownership rules. `PartyInv` says that
  unless a server was lost both parties of the plan stay registered and its zone
  stays known, so that what the stages use without a check is there.
* `MstFollowsTransfer`: MoveAfterTransfer, with all five rules. `HostInv` ties the
  ghost `host` to the partition: the order is given when nothing is under way; from
  then to stage 5 either the zone's objects are with the receiver, or the giving
  server has answered nothing since, so that the wait for it has not ended; from
  stage 5 to changeMST they are with the receiver. The rule that no server
  is lost enters through the parties, and `LockInv` through the emptiness of the
  queues: a late answer of the lock stage would end the wait.

**The players** (`SeamlessProofs`)

* `SeamlessTypes`, and `StagesKept`: `StageInv` determines the command under way to a
  server, its locked regions and its MST from the ILM's stage and the servers
  it waits for, in the worlds where no plan is given up. This is what answers
  matched to commands are good for.
* `NothingLeftBehind`: PlanLeavesNothing. Its part about MSTs and locks is
  `StageInv` at the stage "idle"; its part about entities needs `PlayerInv`.
* `DecidedOnce`: OneEntity. Nothing like it is inductive: `PlayerInv` says for
  each phase of a plan which server may have which copy, that no shadow is in a
  region of its own server, that a packed player waits with its client locked,
  and that no message under way to the server a client talks to is about its
  player. Without the last part a late message would overwrite the entity.
* `ComesHome`: HomeAgain. `HomeInv` adds that the client's server always has a copy.
* `ListsAreExact`: ListExact. Where zones stay and nobody crosses, only the server of a
  player's region sends messages about it and the order of the player names a region of
  that server (`FollowInv`). Whether a shadow will be there is decided by the last
  message about the player on the way, so a message at the end changes it
  (`ArrivesAppend`) and its arrival does not (`ArrivesTail`). What GetAroundRegion
  collects by counting and by cutting the ends of rows is the square around the region,
  in every grid (`AroundIsSquare`): rows and columns are the quotient and the remainder,
  which determine each other (`Division`).
* `ClientServed`: Served in the worlds without aborts. `ServedInv` says that from
  the unpacking on the client's server is not about to lose the region of its
  player, and that while the package is on its way nobody is in the zone who is not
  in it.

**The proxy manager** (`ProxyManagerProofs`)

* `ProxyManagerTypes`; the invariant that the rest stands on is `LinkInv`: a
  connection has an item exactly while the manager believes in it, a proxy and
  its connection name each other, a join is the first message of a connection, an
  item's address is that of the proxy behind it, and no two items have one address.
  Most actions keep it because they are `Steady`: they leave connections and the
  names of items alone and take or add one message.
* `OneProxyOneItem`: OneItemPerProxy. Addresses are unique by `LinkInv`. Ids need
  `ClaimsInv`: whatever ties an id to a proxy (the proxy's own `mProxyID`, its
  item, a join, an answer, a grant under way in either direction) ties it to one
  proxy, and the id is not above `_maxProxyID`. A proxy that is known is given the
  id that it sent, so without the claims of what is under way this is not inductive.
* `EveryServerKnown`: ServersKnown. `Announced` says that a server of the ILM has an
  add under way that no leave follows, or nothing is under way that removes it and
  it is listed or some proxy was asked about it or has answered; `NoLoss` says that no
  connection is lost where no proxy is. The induction found nothing that depends on
  how often an entry is repeated.
* `TicketsHonoured`: TicketKept. `SessionInv` counts: for each proxy and session the
  tickets and the answers still under way are together at most the entries the proxy
  holds. PutAuthenInfo adds an entry with the answer, an answer becomes
  a ticket for the same proxy (this needs `ClaimsInv`: the manager finds the proxy
  by its id), and a client takes one entry with its ticket, and none of the other
  sessions. A lost connection takes answers only.
* `AnswersAreCounted`: CountExact. What is awaited is the set of the places of a
  connection, counted from the manager's next message on, that hold a question or an
  answer. A proxy that answers leaves the set as it is (`MarkedTurn`), since the answer
  takes the place of the question; the manager takes a message, and every place of the
  connection comes one nearer (`NearerPlaces`); a question to every item adds one place for each
  that is open (`OneMoreEach`); a loss only takes places away. The assumption `CountFits` says
  that connections and servers are finite and `_addServerCount` can hold an answer
  of every connection for every server that is announced at once (`Fits` is the
  invariant for it). The code does not check it: with 65 536 answers awaited the counter
  begins again at 0. It holds in `Proxies`, and there is no hidden use of it:
  `RoomForMore` is the one place for a question, `ReplyCounts` the one for an answer.

**The way of messages** (`RelayProofs`)

Both theorems need `IdRules`: finitely many proxies, and no proxy manager that is started
again under them. `AnswersComeHome` needs `RelayRules` besides: no number comes round and a
user has one client. `ObjectsActAsUser` needs `ReuseRules` instead: numbers may come round
and users may have many clients, but a number is not given out again while its
client is there, and where numbers come round a proxy does not both lose connections
and join again. The code guarantees none of these; 2.3 says what breaks without
each. They say nothing of the number of connections, of messages, or of the mixture
of the other faults, and hold for worlds of which there is no run: where numbers do
not come round connections may break and proxies join again at once.

* `AnswersComeHome`: AnswerToAsker. The first half is `IdsInv` (the ids a proxy was
  given, `Given`, are found at both servers and never become another's),
  `NumbersInv` (the numbers of a proxy's clients are 1 to `curID`, each of one
  client) and `MessagesInv`: the key of whatever is under way, anywhere, is one of
  its client's (`Keys`), keys only become more, and two clients share none. The
  second half is `OrderInv`, which says at each of the four places of a message that
  it is in the order of the questions, and between a place and those that come after
  it that what has gone further was asked before. The two places of an answer while
  the sender writes it are told apart by `Written`: what the sender wrote and
  has not removed (`SendingInv`) is in the queue and on the connection, and only what
  follows it in the queue (`After`) comes after what is on the connection.
* `ObjectsActAsUser`: ActsAsUser. Its invariant, `PlayInv`, cannot say that the session of
  a key has the player of the key's client, because between the arrival of a new client
  and its login it has the earlier one's. It says what an object message will *find*
  (`Finds`): behind the first n messages of a connection it acts on the user of
  the last login of its key among them, or, if there is none, on the player that the session
  has now. For each object message on the way whose client logged in before it, and
  for the next message of each client that has, this is the client's own user
  (`SentInv`, and `ReuseUp` and `ReuseNext` where numbers come round). A message at the end
  adds itself only (`FindsAppend`), and taking the first does not change what the others
  find (`FindsTail`), since a login that is taken becomes the player. That nothing of
  an earlier client comes between needs the one connection of the proxy (`ReuseLinks`) where
  numbers come round; where they do not, a key has one client (`PlainInv`).

**Connections** (`ConnectionProofs`)

The theorems hold for any sizes of messages, buffers, sockets and chunks, any events
waited for after a send, both triggers, and connections that close anywhere; the
assumption is that there are two sides and that a message is at least its head. One
invariant, `ConnInv`, gives the first two, and the third stands on it.

* `MessagesFramed`: Framed. `Pipe` is what is on the way to a side as one sequence:
  the cells of its input buffer, of its socket and of the peer's output buffer.
  `Stream` says that this sequence is the messages after those handled, one behind the
  other from a first cell on, and `Whole` that it ends with the last message's last
  cell while the peer lives. Reading and writing leave it as it is
  (`Moved`), sending adds a message at its end (`StreamAppend`), handling takes one
  from the front (`StreamRest`), and what a closing side had not written is cut
  off (`StreamFront`); so what getInputPacket cuts out is always one message.
* `ConnectionKept`: KeepsConnection. `RoomOf`: a message that was accepted is not longer
  than a buffer, and outside the handling loop the input buffer holds less than its
  first message; so after the move to the front there is room to read, and the
  read of nothing that throws needs a peer that closed.
* `NeverBothWrite`: NeverBothSpin. The invariant is stated for each size m a message can
  have and supposes that all messages sent have it (`OneSizeSent`); a step only adds to
  what was sent, so what holds after it held before (`OneSizeBefore`). `Ahead` of a side
  is what the writes in progress have brought on the way to it, without what its
  callback handles before it can write.
  `BoundOf`: both sides together have at most a socket of whole messages ahead, and a
  buffer of them more for each side that is not past its read (`Allowed`), for only
  that side may still write without having taken as much. A read that fills the buffer brings
  as many whole messages as a buffer holds, and one that does not leaves an empty socket, so
  reading pays for the write that follows. Two threads that wait
  would need two full sockets and two messages more than that.

**The block channel** (`BlockChannelProofs`)

One invariant, `ChannelInv`, gives the three theorems: it says of the pair that it is in
one of five relations. `Apart`: nobody has connected, or nobody will. `Asking`: the
request is on its way. `Astray`: a part of it passed for a block. `Answered`: the answer
is on its way. `Connected`: from then on, as follows.

* The bytes (`BytesFit`). `InOrder` says of the bytes still to come that each block
  goes on to its end and then the next begins; `Collecting` that the list has the blocks
  that follow those taken, the last one perhaps in part, and that the bytes go on from
  exactly there. One turn of OnRead keeps this whatever it finds: a length that is cut, a
  block that is cut, a block that is whole (`Turn...`), and so do all turns together
  (`TurnsOnTheWay`), until there is nothing to do (`Done`). What is taken for a message
  puts the server in `eaten`, after which nothing is said of its bytes. That
  a part of a length waits in the buffer only behind an empty block is part of
  `Received`: otherwise the next read would look for a message in it.
* The plans (`PlansFit`). Each server sends one block per plan and takes one
  (`Working`), so the number of a block is that of its plan; its main thread has at
  most one request (`Serving`); and a destination has unpacked what it has answered
  (`Unpacking`), which is where the connection of blocks and plans is needed.
* `TakenIsAsSent`, `SuccessMeansUnpacked`: parts of the invariant.
* `HangsByLossOnly`: if both servers rest and one waits, the other has sent what it waits
  for or waits itself; with the numbers of `Working` both waiting means that one of them
  has sent the block of the present plan, and by `Collecting`, with nothing on the
  wire, it is whole in the list: a signal was lost.

**The entrance** (`EntranceProofs`)

* `AnswersAreExpected`: AnswersExpected where clients stay until they are answered or
  there is one client (`EarlyAlone`; 2.4 says what happens otherwise). `IdsInv`: a query
  id is in one of the three queues, in ascending order, so a result finds the connection
  it was asked for. `WayInv`: a connection is at one place of its way (inbox, asked
  about, answered), and while its client stays, its CConnect is there. `UserInv`: a user
  that is logged in has the connection that was let in last for it, whose CUser lives
  and which has got "in" and nothing after it, so a ticket makes it "in", "proxy".
* `NoLostServerListed`: NoLostServer. The list to be is what the notices on the way make
  of the list, one after the other. `ListsInv` says more than the property: the list to
  be has each server once. Without this a notice of a lost server, which removes the
  first entry only, would leave one. A message behind the others changes the list to be by
  itself only, and what is read before the others leaves it alone.

**Only model-checked.** Liveness (PlanEnds, ServerListed, ClientThawed,
Answered, LoginAnswered, RoleInformed, Delivered, LossNoticed) is outside the prover's
reach. Served in worlds with aborts needs a second invariant for what a plan leaves
behind when it is given up.
`Wire` uses recursive operators over layouts, so nothing can be proved in it
(ReadAsWritten), and `MapLayout` folds over the lines of a file (NeighboursExact,
WorldCovered).

## 5. Not modelled

The map covers about one sixth of the implementation's lines. Of the rest, Loki
(6 500 lines) is vendored, `src/src/GameServer` (9 400) is an older copy of the
game server, and some 18 000 lines are headers, most of them
declarations of what is mapped. Left out in the modelled parts:

* ILM: the fan-in of the status query and its load figures, `sendServerLoadToPM`,
  the MST sent to role servers, ports, console output, functions that
  nobody calls (of `PlanMgr`, `Config` and `ServerManager`), the text parser of
  `config.cfg`; a second loss inside `removeGameServer` is an end of the process.
* ProxyManager: the load table of game servers, which only orders role servers.
* Proxy: the encryption of client packets; a packet that is cut by the end of the
  buffer.
* Game server: positions inside a region, messages between players of a region
  (`BroadcastMsg`), the rollback of a partition (the ILM never asks for it), the
  game's own logic, which is a library; several orders of a client at once.
* LoginServer: exceptions inside the query loop, the shell (a library).
* RoleSelectServer: its copy of `SeamlessService`, whose status reply is
  commented out; role data.
* Common: thread and mutex wrappers, the ini parser, time-outs of blocking sockets,
  the limit of the epoll set.

## 6. Plan

Done: the ILM with its proofs, the game servers of a world with theirs, the block
channel, proxy manager and proxies, the way of messages, the entrance and the
connections, each with its proofs, and the layer of messages and the configuration.
Next, in this order:

1. The status query with its loads as actions of `ServerManager`.
2. Served after an abort: the invariant for what a plan that is given up leaves behind.
3. A packet at the proxy that is cut by the end of the buffer.
