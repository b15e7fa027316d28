---------------------------- MODULE LoginServer ----------------------------
(***************************************************************************)
(* The login server: the service thread handles what the shell and the     *)
(* proxy manager send and what the database said; the query thread asks    *)
(* the database.                                                           *)
(*                                                                         *)
(* A CConnect is the connection it was made for, a CUser the connection    *)
(* that logged in with it.  Both are used after they were deleted; what    *)
(* the memory holds by then is open.  The shell that owns the sockets, the *)
(* database and the proxy manager are outside.                             *)
(***************************************************************************)
EXTENDS Integers, SequencesExt

CONSTANTS
  Conn,    \* connections of clients
  User,    \* the users of the database
  None,    \* no object, or memory that nobody has
  Worlds   \* what a behaviour may contain: connections, their users, who has
           \* the right password, and when clients leave

ASSUME LoginAssumption ==
  /\ None \notin Conn
  /\ Worlds \subseteq [conns : SUBSET Conn, user : [Conn -> User], right : SUBSET Conn,
                       leaves : SUBSET {"early", "late"}]

VARIABLES
  client,    \* of a connection: "out", "open", "asked", "left"
  got,       \* what a client received: "no", "in", "proxy"
  inbox,     \* m_portMsg: what the service thread has not taken
  mode,      \* of the service thread: in ProcessMsg or in Loop
  connects,  \* m_setConnect
  pUser,     \* m_pUser of a CConnect
  asking,    \* m_setQuerySocket: the connection of a query id
  queryID,   \* m_nQueryIDMaker
  commands,  \* m_setQueryCmd
  batch,     \* the commands that the query thread has taken
  results,   \* m_setQueryResult
  users,     \* m_setUser: the CUser of a user
  living,    \* the CUsers that are not deleted
  requests,  \* what the proxy manager was asked and has not answered
  world

clientVars  == <<client, got>>
socketVars  == <<connects, pUser>>
queryVars   == <<commands, batch, results>>
userVars    == <<users, living>>
vars == <<clientVars, inbox, mode, socketVars, asking, queryID, queryVars, userVars, requests, world>>

Without(f, k) == [x \in DOMAIN f \ {k} |-> f[x]]
With(f, k, v) == [x \in DOMAIN f \cup {k} |-> IF x = k THEN v ELSE f[x]]

UserOf(c) == world.user[c]

Init ==
  /\ world \in Worlds
  /\ client = [c \in Conn |-> "out"] /\ got = [c \in Conn |-> <<>>]
  /\ inbox = <<>> /\ mode = "messages"
  /\ connects = {} /\ pUser = [c \in Conn |-> None]
  /\ asking = <<>> /\ queryID = 1
  /\ commands = <<>> /\ batch = <<>> /\ results = <<>>
  /\ users = <<>> /\ living = {}
  /\ requests = <<>>

-----------------------------------------------------------------------------
(* The clients and the shell                                               *)

Tells(c, what) == inbox' = Append(inbox, [type |-> what, conn |-> c])

Connect(c) ==
  /\ c \in world.conns /\ client[c] = "out"
  /\ client' = [client EXCEPT ![c] = "open"] /\ Tells(c, "connect")

\* login_client.py: one login, with name and password
Ask(c) ==
  /\ client[c] = "open"
  /\ client' = [client EXCEPT ![c] = "asked"] /\ Tells(c, "login")

HangUp(c) ==
  /\ client[c] \in {"open", "asked"}
  /\ IF got[c] = <<>> THEN "early" \in world.leaves ELSE "late" \in world.leaves
  /\ client' = [client EXCEPT ![c] = "left"] /\ Tells(c, "close")

Client(c) ==
  /\ Connect(c) \/ Ask(c) \/ HangUp(c)
  /\ UNCHANGED <<got, mode, socketVars, asking, queryID, queryVars, userVars, requests, world>>

-----------------------------------------------------------------------------
(* The service thread                                                      *)

\* Who has the memory of a CConnect, and what user its CUser names: the object
\* itself, or after delete whatever was made there since.
Memory(c) == IF c \in connects THEN {c} ELSE connects \cup {None}
NamedBy(o) == {UserOf(o)} \cup IF o \in living THEN {} ELSE {UserOf(x) : x \in living}

Send(c, what) == got' = [x \in Conn |-> IF x = c THEN Append(got[x], what) ELSE got[x]]

\* CLoginService::Logout deletes the CUser; the connection keeps the pointer.
Logout(u) ==
  IF u \in DOMAIN users
  THEN living' = living \ {users[u]} /\ users' = Without(users, u)
  ELSE UNCHANGED userVars

OnConnect(c) ==
  /\ connects' = connects \cup {c} /\ pUser' = [pUser EXCEPT ![c] = None]
  /\ UNCHANGED <<got, asking, queryID, commands, userVars>>

\* _SYSMSG_CONNECT_LOGOUT, CGameSocket::OnClose
OnClose(c) ==
  /\ IF pUser[c] = None THEN UNCHANGED userVars ELSE \E u \in NamedBy(pUser[c]) : Logout(u)
  /\ connects' = connects \ {c}
  /\ UNCHANGED <<got, pUser, asking, queryID, commands>>

\* CLoginService::Login
OnLogin(c) ==
  /\ asking' = With(asking, queryID, c) /\ queryID' = queryID + 1
  /\ commands' = Append(commands, [id |-> queryID, conn |-> c])
  /\ UNCHANGED <<got, socketVars, userVars>>

\* Mutant: the user stays logged in after the ticket.
OnTicketM(u) ==
  /\ IF u \in DOMAIN users THEN \E d \in Memory(users[u]) : Send(d, "proxy") ELSE UNCHANGED got
  /\ UNCHANGED <<userVars, socketVars, asking, queryID, commands>>

\* NetCommandAddClientToPMResponse
OnTicket(u) ==
  /\ IF u \in DOMAIN users THEN \E d \in Memory(users[u]) : Send(d, "proxy") ELSE UNCHANGED got
  /\ Logout(u)
  /\ UNCHANGED <<socketVars, asking, queryID, commands>>

\* ProcessMsg takes one message after the other until there is none.
Process ==
  /\ mode = "messages" /\ inbox # <<>>
  /\ inbox' = Tail(inbox)
  /\ LET m == Head(inbox) IN
       CASE m.type = "connect" -> OnConnect(m.conn)
         [] m.type = "close"   -> OnClose(m.conn)
         [] m.type = "login"   -> OnLogin(m.conn)
         [] m.type = "ticket"  -> OnTicket(m.user)
  /\ UNCHANGED <<client, mode, batch, results, requests, world>>

\* The timer of OnThreadProcess, when there is something for Loop, and its end
Switch ==
  /\ \/ mode = "messages" /\ inbox = <<>> /\ results # <<>> /\ mode' = "loop"
     \/ mode = "loop" /\ results = <<>> /\ mode' = "messages"
  /\ UNCHANGED <<clientVars, inbox, socketVars, asking, queryID, queryVars, userVars, requests, world>>

\* CLoginService::Loop, one result: SendLoginResult, and for a user a new
\* CUser, instead of one that is there, and SendAddClientToPMRequest.
Loop ==
  LET r == Head(results)
      c == asking[r.id]
  IN /\ mode = "loop" /\ results # <<>>
     /\ results' = Tail(results) /\ asking' = Without(asking, r.id)
     /\ \E d \in Memory(c) :
          /\ Send(d, IF r.ok THEN "in" ELSE "no")
          /\ pUser' = [x \in Conn |-> IF r.ok /\ x = d THEN c ELSE pUser[x]]
     /\ IF r.ok THEN /\ users' = With(users, UserOf(c), c) /\ living' = living \cup {c}
                     /\ requests' = Append(requests, UserOf(c))
        ELSE UNCHANGED <<userVars, requests>>
     /\ UNCHANGED <<client, inbox, mode, connects, queryID, commands, batch, world>>

-----------------------------------------------------------------------------
(* The query thread, and the proxy manager                                 *)

\* CQueryThread::OnThreadProcess takes all commands under the lock.
TakeCommands ==
  /\ batch = <<>> /\ commands # <<>>
  /\ batch' = commands /\ commands' = <<>>
  /\ UNCHANGED <<clientVars, inbox, mode, socketVars, asking, queryID, results, userVars, requests, world>>

\* Mutant: one command of the batch is asked, the others are cleared with it.
QueryM ==
  /\ batch # <<>> /\ batch' = <<>>
  /\ \E ok \in {FALSE, Head(batch).conn \in world.right} :
       results' = Append(results, [id |-> Head(batch).id, ok |-> ok])
  /\ UNCHANGED <<clientVars, inbox, mode, socketVars, asking, queryID, commands, userVars, requests, world>>

\* CQueryThread::Query: without the right password no user, nor when the
\* database fails.
Query ==
  /\ batch # <<>> /\ batch' = Tail(batch)
  /\ \E ok \in {FALSE, Head(batch).conn \in world.right} :
       results' = Append(results, [id |-> Head(batch).id, ok |-> ok])
  /\ UNCHANGED <<clientVars, inbox, mode, socketVars, asking, queryID, commands, userVars, requests, world>>

\* The proxies grant sessions in any order.
ProxyManager ==
  /\ \E i \in DOMAIN requests :
       /\ requests' = RemoveAt(requests, i)
       /\ inbox' = Append(inbox, [type |-> "ticket", user |-> requests[i]])
  /\ UNCHANGED <<clientVars, mode, socketVars, asking, queryID, queryVars, userVars, world>>

Service == Process \/ Switch \/ Loop
QueryThread == TakeCommands \/ Query

Next == (\E c \in Conn : Client(c)) \/ Service \/ QueryThread \/ ProxyManager

Spec == Init /\ [][Next]_vars

\* Both threads run on, and the proxy manager answers.
Fairness == WF_vars(Service) /\ WF_vars(QueryThread) /\ WF_vars(ProxyManager)

-----------------------------------------------------------------------------
(* Properties                                                              *)

Alone(c) == \A d \in world.conns \ {c} : UserOf(d) # UserOf(c)

\* A client gets what login_client.py unpacks and nothing else: "no", or "in"
\* and then, once, the proxy of its own user, although results and tickets find
\* it over pointers that outlive their connection and over the user alone.
AnswersExpected ==
  /\ \A c \in Conn : got[c] \in {<<>>, <<"no">>, <<"in">>, <<"in", "proxy">>}
  /\ "early" \notin world.leaves =>
       \A u \in DOMAIN users : UserOf(users[u]) = u /\ users[u] \in living \cap connects

\* Every login is answered, and a user who was let in is told the proxy, unless
\* the same user logs in twice or somebody leaves: OnClose logs out the user
\* that the deleted CUser of its connection names, which can be another one who
\* waits for the proxy.
LoginAnswered ==
  \A c \in Conn : client[c] = "asked" ~>
    \/ client[c] = "left"
    \/ got[c] \in {<<"no">>, <<"in", "proxy">>}
    \/ got[c] = <<"in">> /\ (~Alone(c) \/ world.leaves # {})
=============================================================================
