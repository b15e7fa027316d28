--------------------------- MODULE EntranceProofs ---------------------------
(* Proofs about the way into the game: what the login server tells a client    *)
(* (LoginServer), and the list of game servers that a role server has          *)
(* (RoleServers).                                                              *)
EXTENDS LoginServer, RoleServers, SequenceLemmas

-----------------------------------------------------------------------------
(* The login server                                                        *)

Stays == "early" \notin world.leaves
Lone  == \A c, d \in world.conns : c = d

Outcomes == {<<>>, <<"no">>, <<"in">>, <<"in", "proxy">>}

Message == [type : {"connect", "login", "close"}, conn : Conn] \cup [type : {"ticket"}, user : User]
Command == [id : Nat, conn : Conn]
Result  == [id : Nat, ok : BOOLEAN]

TypeInv ==
  /\ world \in Worlds /\ (Stays \/ Lone)
  /\ client \in [Conn -> {"out", "open", "asked", "left"}]
  /\ got \in [Conn -> Outcomes]
  /\ inbox \in Seq(Message) /\ mode \in {"messages", "loop"}
  /\ connects \subseteq world.conns /\ pUser \in [Conn -> Conn \cup {None}]
  /\ queryID \in Nat /\ DOMAIN asking \subseteq Nat /\ asking \in [DOMAIN asking -> world.conns]
  /\ commands \in Seq(Command) /\ batch \in Seq(Command) /\ results \in Seq(Result)
  /\ DOMAIN users \subseteq User /\ users \in [DOMAIN users -> world.conns] /\ living \subseteq Conn
  /\ requests \in Seq(User)

Ascending(q) == \A i, j \in DOMAIN q : i < j => q[i].id < q[j].id
Below(p, q)  == \A i \in DOMAIN p, j \in DOMAIN q : p[i].id < q[j].id

IdsInv ==
  /\ \A i \in DOMAIN asking : i < queryID
  /\ \A q \in {results, batch, commands} :
        Ascending(q) /\ \A i \in DOMAIN q : q[i].id \in DOMAIN asking
  /\ Below(results, batch) /\ Below(results, commands) /\ Below(batch, commands)
  /\ \A i, j \in DOMAIN asking : asking[i] = asking[j] => i = j

Types == {"connect", "login", "close"}

\* Where the inbox has a message of type t from c.
At(t, c) == {i \in DOMAIN inbox : inbox[i].type = t /\ inbox[i].conn = c}
Asker(c) == \E i \in DOMAIN asking : asking[i] = c

\* A connection sends each message once, and connects before it logs in.
Orderly(c) ==
  /\ \A t \in Types : \A i, j \in At(t, c) : i = j
  /\ \A i \in At("connect", c), j \in At("login", c) : i < j

\* Where a connection is on its way through the server: it waits in the inbox,
\* it is asked about, or it has its result; a client that does not leave early is
\* there for all of it.
OnItsWay(c) ==
  /\ client[c] = "out" => c \notin connects
  /\ client[c] \in {"out", "open"} => got[c] = <<>>
  /\ client[c] # "out" => c \in world.conns
  /\ At("connect", c) # {} => client[c] # "out" /\ c \notin connects
  /\ At("login", c) # {} => client[c] \in {"asked", "left"} /\ got[c] = <<>> /\ ~Asker(c)
  /\ At("close", c) # {} => client[c] = "left"
  /\ Asker(c) => /\ got[c] = <<>> /\ client[c] \in {"asked", "left"} /\ At("connect", c) = {}
  /\ Stays => /\ client[c] = "open" \/ At("login", c) # {} => c \in connects \/ At("connect", c) # {}
              /\ client[c] = "left" => got[c] # <<>>
              /\ Asker(c) => c \in connects

WayInv == \A c \in Conn : Orderly(c) /\ OnItsWay(c)

\* A user that is logged in has the connection that was let in last for it.
LoggedIn(u) ==
  LET c == users[u] IN
    /\ UserOf(c) = u /\ c \in living
    /\ client[c] \in {"asked", "left"} /\ At("connect", c) = {}
    /\ c \in connects => got[c] = <<"in">> /\ pUser[c] = c
    /\ Stays => c \in connects

UserInv ==
  /\ \A c \in Conn : pUser[c] \in {None, c}
  /\ \A u \in DOMAIN users : LoggedIn(u)

LoginInv == TypeInv /\ IdsInv /\ WayInv /\ UserInv

\* What Append makes of what a client has got
LEMMA Answers ==
  /\ Append(<<>>, "no") = <<"no">> /\ Append(<<>>, "in") = <<"in">>
  /\ Append(<<"in">>, "proxy") = <<"in", "proxy">>
  /\ <<"no">> # <<>> /\ <<"in">> # <<>> /\ <<"in", "proxy">> # <<>>
<1> DEFINE a == Append(<<"in">>, "proxy")
           b == <<"in", "proxy">>
<1>1. <<"in">> \in Seq({"in", "proxy"}) /\ "proxy" \in {"in", "proxy"}
  OBVIOUS
<1>2. a \in Seq({"in", "proxy"}) /\ Len(a) = 2 /\ a[1] = "in" /\ a[2] = "proxy"
  BY <1>1, AppendProperties
<1>3. b \in Seq({"in", "proxy"}) /\ Len(b) = 2 /\ b[1] = "in" /\ b[2] = "proxy"
  OBVIOUS
<1>4. \A i \in 1 .. 2 : i = 1 \/ i = 2
  OBVIOUS
<1> HIDE DEF a, b
<1>5. a = b
  BY <1>2, <1>3, <1>4, SeqEqual
<1>6. Append(<<>>, "no") = <<"no">> /\ Append(<<>>, "in") = <<"in">>
  OBVIOUS
<1> QED BY <1>5, <1>6 DEF a, b

LEMMA Assumed ==
  /\ None \notin Conn
  /\ world \in Worlds => /\ world.conns \subseteq Conn /\ world.user \in [Conn -> User]
                         /\ world.leaves \subseteq {"early", "late"}
BY LoginAssumption

\* What the inbox holds when a message has come, and when one was taken
LEMMA InboxAppended ==
  ASSUME TypeInv, NEW m \in Message, inbox' = Append(inbox, m)
  PROVE  /\ inbox' \in Seq(Message)
         /\ \A t \in Types, c \in Conn :
              /\ At(t, c)' = IF m.type = t /\ m.conn = c THEN At(t, c) \cup {Len(inbox) + 1} ELSE At(t, c)
              /\ \A i \in At(t, c) : i \in Nat /\ i < Len(inbox) + 1
<1>1. inbox \in Seq(Message)
  BY DEF TypeInv
<1>2. /\ inbox' \in Seq(Message)
      /\ Len(inbox) \in Nat /\ DOMAIN inbox = 1 .. Len(inbox)
      /\ DOMAIN inbox' = 1 .. Len(inbox) + 1
      /\ \A i \in 1 .. Len(inbox) : inbox'[i] = inbox[i]
      /\ inbox'[Len(inbox) + 1] = m
  BY <1>1, AppendProperties
<1>3. ASSUME NEW t \in Types, NEW c \in Conn
      PROVE  At(t, c)' = IF m.type = t /\ m.conn = c THEN At(t, c) \cup {Len(inbox) + 1} ELSE At(t, c)
  BY <1>2 DEF At
<1> QED BY <1>2, <1>3 DEF At

LEMMA InboxTaken ==
  ASSUME TypeInv, \A c \in Conn : Orderly(c), inbox # <<>>, inbox' = Tail(inbox)
  PROVE  /\ inbox' \in Seq(Message) /\ Head(inbox) \in Message
         /\ \A c \in Conn : /\ Orderly(c)'
                            /\ \A t \in Types :
                                 IF Head(inbox).type = t /\ Head(inbox).conn = c
                                 THEN At(t, c) # {} /\ At(t, c)' = {}
                                 ELSE At(t, c)' = {} <=> At(t, c) = {}
         /\ \A c \in Conn : Head(inbox).type = "login" /\ Head(inbox).conn = c => At("connect", c) = {}
<1>1. inbox \in Seq(Message)
  BY DEF TypeInv
<1>2. /\ inbox' \in Seq(Message) /\ Head(inbox) = inbox[1] /\ inbox[1] \in Message
      /\ Len(inbox) \in Nat \ {0} /\ DOMAIN inbox = 1 .. Len(inbox)
      /\ DOMAIN inbox' = 1 .. Len(inbox) - 1
      /\ \A i \in 1 .. Len(inbox) - 1 : inbox'[i] = inbox[i + 1]
  BY <1>1
<1>3. ASSUME NEW t \in Types, NEW c \in Conn
      PROVE  /\ \A i \in At(t, c)' : i \in Nat \ {0} /\ i + 1 \in At(t, c)
             /\ \A i \in At(t, c) : i \in Nat /\ (i = 1 \/ i - 1 \in At(t, c)')
             /\ 1 \in At(t, c) <=> Head(inbox).type = t /\ Head(inbox).conn = c
  BY <1>2 DEF At
<1>4. ASSUME NEW c \in Conn
      PROVE  Orderly(c)'
  <2>1. ASSUME NEW t \in Types, NEW i \in At(t, c)', NEW j \in At(t, c)'
        PROVE  i = j
    <3>1. i \in Nat /\ j \in Nat /\ i + 1 \in At(t, c) /\ j + 1 \in At(t, c)
      BY <1>3, <2>1
    <3>2. i + 1 = j + 1
      BY <3>1 DEF Orderly
    <3> QED BY <3>1, <3>2
  <2>2. ASSUME NEW i \in At("connect", c)', NEW j \in At("login", c)'
        PROVE  i < j
    <3>1. i \in Nat /\ j \in Nat /\ i + 1 \in At("connect", c) /\ j + 1 \in At("login", c)
      BY <1>3, <2>2 DEF Types
    <3>2. i + 1 < j + 1
      BY <3>1 DEF Orderly
    <3> QED BY <3>1, <3>2
  <2> QED BY <2>1, <2>2 DEF Orderly
<1>5. ASSUME NEW c \in Conn, NEW t \in Types
      PROVE  IF Head(inbox).type = t /\ Head(inbox).conn = c
             THEN At(t, c) # {} /\ At(t, c)' = {}
             ELSE At(t, c)' = {} <=> At(t, c) = {}
  <2>1. CASE 1 \in At(t, c)
    <3>1. ASSUME NEW i \in At(t, c)' PROVE FALSE
      <4>1. i \in Nat \ {0} /\ i + 1 \in At(t, c)
        BY <1>3, <3>1
      <4>2. i + 1 = 1
        BY <2>1, <4>1 DEF Orderly
      <4> QED BY <4>1, <4>2
    <3> QED BY <1>3, <2>1, <3>1
  <2>2. CASE 1 \notin At(t, c)
    BY <1>3, <2>2
  <2> QED BY <2>1, <2>2
<1>6. ASSUME NEW c \in Conn, Head(inbox).type = "login", Head(inbox).conn = c
      PROVE  At("connect", c) = {}
  <2>1. 1 \in At("login", c)
    BY <1>3, <1>6 DEF Types
  <2>2. ASSUME NEW i \in At("connect", c) PROVE FALSE
    <3>1. i \in Nat /\ i >= 1
      BY <1>2 DEF At
    <3> QED BY <2>1, <3>1 DEF Orderly
  <2> QED BY <2>2
<1> QED BY <1>2, <1>4, <1>5, <1>6

\* A connection that a step does not concern
LEMMA Unconcerned ==
  ASSUME NEW c \in Conn, OnItsWay(c), UNCHANGED <<client[c], got[c], world>>,
         c \in connects' <=> c \in connects, Asker(c)' <=> Asker(c),
         \A t \in Types : At(t, c)' = {} <=> At(t, c) = {}
  PROVE  OnItsWay(c)'
BY DEF OnItsWay, Types, Stays

\* A message from a client at the end of the inbox
LEMMA Told ==
  ASSUME TypeInv, WayInv, NEW c \in Conn, NEW type \in Types, Tells(c, type), At(type, c) = {},
         type = "connect" => At("login", c) = {}
  PROVE  /\ inbox' \in Seq(Message)
         /\ \A d \in Conn : Orderly(d)'
         /\ At(type, c)' # {}
         /\ \A t \in Types, d \in Conn : t # type \/ d # c => At(t, d)' = At(t, d)
<1> DEFINE m == [type |-> type, conn |-> c]
<1>1. m \in Message /\ inbox' = Append(inbox, m) /\ m.type = type /\ m.conn = c
  BY DEF Message, Tells, Types
<1> HIDE DEF m
<1>2. /\ inbox' \in Seq(Message)
      /\ \A t \in Types, d \in Conn :
           /\ At(t, d)' = IF t = type /\ d = c THEN At(t, d) \cup {Len(inbox) + 1} ELSE At(t, d)
           /\ \A i \in At(t, d) : i \in Nat /\ i < Len(inbox) + 1
  BY <1>1, InboxAppended
<1>3. At(type, c)' = {Len(inbox) + 1}
  BY <1>2
<1>4. ASSUME NEW d \in Conn, d # c
      PROVE  Orderly(d)'
  <2>1. \A t \in Types : At(t, d)' = At(t, d)
    BY <1>2, <1>4
  <2> QED BY <2>1 DEF Orderly, WayInv, Types
<1>5. Orderly(c)'
  <2>1. \A t \in Types \ {type} : At(t, c)' = At(t, c)
    BY <1>2
  <2>2. \A t \in Types : \A i, j \in At(t, c)' : i = j
    BY <1>3, <2>1 DEF Orderly, WayInv
  <2>3. \A i \in At("connect", c)', j \in At("login", c)' : i < j
    <3>1. CASE type = "login"
      BY <1>2, <1>3, <2>1, <3>1 DEF Types
    <3>2. CASE type # "login"
      BY <1>3, <2>1, <3>2 DEF Orderly, WayInv, Types
    <3> QED BY <3>1, <3>2
  <2> QED BY <2>2, <2>3 DEF Orderly
<1> QED BY <1>2, <1>3, <1>4, <1>5

\* Clients do not concern a user that is logged in, but for their leaving.
LEMMA UsersStay ==
  ASSUME UserInv, NEW c \in Conn, UNCHANGED <<got, connects, pUser, users, living, world>>,
         client[c] \in {"asked", "left"} => client'[c] \in {"asked", "left"},
         \A d \in Conn \ {c} : client'[d] = client[d],
         \A d \in Conn : At("connect", d) = {} /\ client[d] \in {"asked", "left"} => At("connect", d)' = {},
         DOMAIN users \subseteq User, users \in [DOMAIN users -> Conn]
  PROVE  UserInv'
<1> SUFFICES ASSUME NEW u \in DOMAIN users PROVE LoggedIn(u)'
  BY DEF UserInv
<1>1. LoggedIn(u) /\ users[u] \in Conn
  BY DEF UserInv
<1> QED BY <1>1 DEF LoggedIn, UserOf, Stays

LEMMA ClientStep ==
  ASSUME LoginInv, NEW c \in Conn, Client(c)
  PROVE  LoginInv'
<1>1. /\ TypeInv /\ IdsInv /\ WayInv /\ UserInv /\ Orderly(c) /\ OnItsWay(c)
      /\ UNCHANGED <<got, mode, connects, pUser, asking, queryID, commands, batch, results,
                     users, living, requests, world>>
  BY DEF LoginInv, Client, socketVars, queryVars, userVars, WayInv
<1>2. client \in [Conn -> {"out", "open", "asked", "left"}] /\ world.conns \subseteq Conn
  BY <1>1, Assumed DEF TypeInv
<1>3. IdsInv'
  BY <1>1 DEF IdsInv, Ascending, Below
<1>4. ASSUME NEW type \in Types, NEW where \in {"open", "asked", "left"},
             client' = [client EXCEPT ![c] = where], Tells(c, type), At(type, c) = {},
             type = "connect" => At("login", c) = {} /\ client[c] = "out",
             client[c] \in {"asked", "left"} => where = "left",
             (At(type, c)' # {} /\ \A t \in Types \ {type} : At(t, c)' = At(t, c)) => OnItsWay(c)'
      PROVE  LoginInv'
  <2>1. /\ inbox' \in Seq(Message)
        /\ \A d \in Conn : Orderly(d)'
        /\ At(type, c)' # {}
        /\ \A t \in Types, d \in Conn : t # type \/ d # c => At(t, d)' = At(t, d)
    BY <1>1, <1>4, Told
  <2>2. OnItsWay(c)'
    BY <1>4, <2>1
  <2>3. ASSUME NEW d \in Conn \ {c}
        PROVE  OnItsWay(d)'
    <3>1. client'[d] = client[d] /\ Asker(d)' = Asker(d) /\ OnItsWay(d)
      BY <1>1, <1>2, <1>4 DEF Asker, WayInv
    <3>2. \A t \in Types : At(t, d)' = At(t, d)
      BY <2>1
    <3> QED BY <1>1, <3>1, <3>2, Unconcerned
  <2>4. TypeInv'
    BY <1>1, <1>4, <2>1 DEF TypeInv, Stays, Lone
  <2>5. UserInv'
    <3>1. \A d \in Conn : At("connect", d) = {} /\ client[d] \in {"asked", "left"} => At("connect", d)' = {}
      BY <1>4, <2>1 DEF Types
    <3>2. \A d \in Conn \ {c} : client'[d] = client[d]
      BY <1>2, <1>4
    <3>3. client'[c] = where
      BY <1>2, <1>4
    <3>4. DOMAIN users \subseteq User /\ users \in [DOMAIN users -> Conn]
      BY <1>1, <1>2 DEF TypeInv
    <3> QED BY <1>1, <1>4, <3>1, <3>2, <3>3, <3>4, UsersStay
  <2> QED BY <1>3, <2>1, <2>2, <2>3, <2>4, <2>5 DEF LoginInv, WayInv
<1>5. CASE Connect(c)
  <2>1. /\ c \in world.conns /\ client[c] = "out" /\ Tells(c, "connect")
        /\ client' = [client EXCEPT ![c] = "open"] /\ client'[c] = "open"
    BY <1>2, <1>5 DEF Connect
  <2>2. c \notin connects /\ got[c] = <<>> /\ ~Asker(c) /\ \A t \in Types : At(t, c) = {}
    BY <1>1, <2>1 DEF OnItsWay, Types
  <2>3. ASSUME \A t \in Types \ {"connect"} : At(t, c)' = At(t, c), At("connect", c)' # {}
        PROVE  OnItsWay(c)'
    BY <1>1, <2>1, <2>2, <2>3 DEF OnItsWay, Types, Asker, Stays
  <2> QED BY <1>4, <2>1, <2>2, <2>3 DEF Types
<1>6. CASE Ask(c)
  <2>1. /\ client[c] = "open" /\ Tells(c, "login")
        /\ client' = [client EXCEPT ![c] = "asked"] /\ client'[c] = "asked"
    BY <1>2, <1>6 DEF Ask
  <2>2. c \in world.conns /\ got[c] = <<>> /\ ~Asker(c) /\ At("login", c) = {} /\ At("close", c) = {}
    BY <1>1, <2>1 DEF OnItsWay
  <2>3. ASSUME \A t \in Types \ {"login"} : At(t, c)' = At(t, c), At("login", c)' # {}
        PROVE  OnItsWay(c)'
    BY <1>1, <2>1, <2>2, <2>3 DEF OnItsWay, Types, Asker, Stays
  <2> QED BY <1>4, <2>1, <2>2, <2>3 DEF Types
<1>7. CASE HangUp(c)
  <2>1. /\ client[c] \in {"open", "asked"} /\ Tells(c, "close") /\ (Stays => got[c] # <<>>)
        /\ client' = [client EXCEPT ![c] = "left"] /\ client'[c] = "left"
    BY <1>2, <1>7 DEF HangUp, Stays
  <2>2. c \in world.conns /\ At("close", c) = {}
    BY <1>1, <2>1 DEF OnItsWay
  <2>3. ASSUME \A t \in Types \ {"close"} : At(t, c)' = At(t, c), At("close", c)' # {}
        PROVE  OnItsWay(c)'
    BY <1>1, <2>1, <2>2, <2>3 DEF OnItsWay, Types, Asker, Stays
  <2> QED BY <1>4, <2>1, <2>2, <2>3 DEF Types
<1> QED BY <1>5, <1>6, <1>7 DEF Client

-----------------------------------------------------------------------------
(* The service thread                                                      *)

\* What every message of the inbox leaves as it is
LEMMA Taken ==
  ASSUME LoginInv, inbox # <<>>, inbox' = Tail(inbox), UNCHANGED <<client, world>>
  PROVE  /\ inbox' \in Seq(Message) /\ Head(inbox) \in Message
         /\ \A c \in Conn : Orderly(c)'
         /\ \A c \in Conn, t \in Types :
              IF Head(inbox).type = t /\ Head(inbox).conn = c
              THEN At(t, c) # {} /\ At(t, c)' = {}
              ELSE At(t, c)' = {} <=> At(t, c) = {}
         /\ \A c \in Conn : Head(inbox).type = "login" /\ Head(inbox).conn = c => At("connect", c) = {}
         /\ \A u \in DOMAIN users : users[u] \in Conn /\ \A d \in Conn : d = users[u] => At("connect", d)' = {}
<1>1. TypeInv /\ \A c \in Conn : Orderly(c)
  BY DEF LoginInv, WayInv
<1>2. /\ inbox' \in Seq(Message) /\ Head(inbox) \in Message
      /\ \A c \in Conn : /\ Orderly(c)'
                         /\ \A t \in Types :
                              IF Head(inbox).type = t /\ Head(inbox).conn = c
                              THEN At(t, c) # {} /\ At(t, c)' = {}
                              ELSE At(t, c)' = {} <=> At(t, c) = {}
      /\ \A c \in Conn : Head(inbox).type = "login" /\ Head(inbox).conn = c => At("connect", c) = {}
  BY <1>1, InboxTaken
<1>3. ASSUME NEW u \in DOMAIN users
      PROVE  users[u] \in Conn /\ \A d \in Conn : d = users[u] => At("connect", d)' = {}
  <2>1. users[u] \in Conn
    BY <1>1, Assumed DEF TypeInv
  <2>2. At("connect", users[u]) = {}
    BY DEF LoginInv, UserInv, LoggedIn
  <2>3. ASSUME NEW d \in Conn, d = users[u]
        PROVE  At("connect", d)' = {}
    <3>1. At("connect", d) = {} /\ "connect" \in Types
      BY <2>2, <2>3 DEF Types
    <3> QED BY <1>2, <3>1
  <2> QED BY <2>1, <2>3
<1> QED BY <1>2, <1>3

LEMMA OnConnectStep ==
  ASSUME LoginInv, NEW c \in Conn, inbox # <<>>, inbox' = Tail(inbox),
         Head(inbox).type = "connect", Head(inbox).conn = c, OnConnect(c),
         UNCHANGED <<client, mode, batch, results, requests, world>>
  PROVE  LoginInv'
<1>1. /\ TypeInv /\ IdsInv /\ WayInv /\ UserInv /\ Orderly(c) /\ OnItsWay(c)
      /\ connects' = connects \cup {c} /\ pUser' = [pUser EXCEPT ![c] = None]
      /\ UNCHANGED <<client, mode, batch, results, requests, world, got, asking, queryID,
                     commands, users, living>>
  BY DEF LoginInv, OnConnect, userVars, WayInv
<1>2. /\ inbox' \in Seq(Message)
      /\ \A d \in Conn : Orderly(d)'
      /\ \A d \in Conn, t \in Types :
           IF t = "connect" /\ d = c
           THEN At(t, d) # {} /\ At(t, d)' = {}
           ELSE At(t, d)' = {} <=> At(t, d) = {}
      /\ \A u \in DOMAIN users : users[u] \in Conn /\ \A d \in Conn : d = users[u] => At("connect", d)' = {}
  BY <1>1, Taken
<1>3. /\ c \in world.conns /\ client[c] # "out" /\ ~Asker(c)
      /\ \A u \in DOMAIN users : users[u] # c
  BY <1>1, <1>2 DEF OnItsWay, UserInv, LoggedIn, Types
<1>4. TypeInv'
  BY <1>1, <1>2, <1>3 DEF TypeInv, Stays, Lone
<1>5. IdsInv'
  BY <1>1 DEF IdsInv, Ascending, Below
<1>6. \A d \in Conn : Asker(d)' = Asker(d)
  BY <1>1 DEF Asker
<1>7. OnItsWay(c)'
  BY <1>1, <1>2, <1>3, <1>6 DEF OnItsWay, Types, Stays
<1>8. ASSUME NEW d \in Conn \ {c}
      PROVE  OnItsWay(d)'
  <2>1. OnItsWay(d) /\ (d \in connects' <=> d \in connects) /\ (Asker(d)' <=> Asker(d))
    BY <1>1, <1>6 DEF WayInv
  <2>2. \A t \in Types : At(t, d)' = {} <=> At(t, d) = {}
    BY <1>2
  <2> QED BY <1>1, <2>1, <2>2, Unconcerned
<1>9. UserInv'
  <2>1. \A d \in Conn : pUser'[d] \in {None, d}
    BY <1>1 DEF UserInv, TypeInv
  <2>2. ASSUME NEW u \in DOMAIN users
        PROVE  LoggedIn(u)'
    <3>1. /\ LoggedIn(u) /\ users[u] \in Conn \ {c}
          /\ \A d \in Conn : d = users[u] => At("connect", d)' = {}
      BY <1>1, <1>2, <1>3 DEF UserInv
    <3>2. pUser'[users[u]] = pUser[users[u]]
      BY <1>1, <3>1 DEF TypeInv
    <3> QED BY <1>1, <3>1, <3>2 DEF LoggedIn, UserOf, Stays
  <2> QED BY <1>1, <2>1, <2>2 DEF UserInv
<1> QED BY <1>2, <1>4, <1>5, <1>7, <1>8, <1>9 DEF LoginInv, WayInv

\* Logging a user out leaves the others.
LEMMA LoggedOut ==
  ASSUME LoginInv, NEW u, Logout(u)
  PROVE  /\ DOMAIN users' = DOMAIN users \ {u}
         /\ \A v \in DOMAIN users \ {u} : users'[v] = users[v]
         /\ users' \in [DOMAIN users' -> world.conns]
         /\ living' \subseteq Conn
         /\ \A v \in DOMAIN users \ {u} : users[v] \in living'
<1>1. /\ DOMAIN users \subseteq User /\ users \in [DOMAIN users -> world.conns] /\ living \subseteq Conn
      /\ \A v \in DOMAIN users : UserOf(users[v]) = v /\ users[v] \in living
  BY DEF LoginInv, TypeInv, UserInv, LoggedIn
<1>2. CASE u \in DOMAIN users
  <2>1. living' = living \ {users[u]} /\ users' = [x \in DOMAIN users \ {u} |-> users[x]]
    BY <1>2 DEF Logout, Without
  <2> QED BY <1>1, <1>2, <2>1
<1>3. CASE u \notin DOMAIN users
  BY <1>1, <1>3 DEF Logout, userVars
<1> QED BY <1>2, <1>3

LEMMA OnCloseStep ==
  ASSUME LoginInv, NEW c \in Conn, inbox # <<>>, inbox' = Tail(inbox),
         Head(inbox).type = "close", Head(inbox).conn = c, OnClose(c),
         UNCHANGED <<client, mode, batch, results, requests, world>>
  PROVE  LoginInv'
<1>1. /\ TypeInv /\ IdsInv /\ WayInv /\ UserInv /\ Orderly(c) /\ OnItsWay(c)
      /\ connects' = connects \ {c}
      /\ UNCHANGED <<client, mode, batch, results, requests, world, got, pUser, asking, queryID,
                     commands>>
  BY DEF LoginInv, OnClose, WayInv
<1>2. /\ inbox' \in Seq(Message)
      /\ \A d \in Conn : Orderly(d)'
      /\ \A d \in Conn, t \in Types :
           IF t = "close" /\ d = c
           THEN At(t, d) # {} /\ At(t, d)' = {}
           ELSE At(t, d)' = {} <=> At(t, d) = {}
      /\ \A u \in DOMAIN users : users[u] \in Conn /\ \A d \in Conn : d = users[u] => At("connect", d)' = {}
  BY <1>1, Taken
<1>3. client[c] = "left" /\ (Stays => got[c] # <<>> /\ ~Asker(c) /\ At("login", c) = {})
  BY <1>1, <1>2 DEF OnItsWay, Types
\* The connection's user is logged out, unless somebody else is logged in as it.
<1>4. /\ DOMAIN users' \subseteq DOMAIN users /\ users' \in [DOMAIN users' -> world.conns]
      /\ \A u \in DOMAIN users' : users'[u] = users[u] /\ users[u] \in living'
      /\ living' \subseteq Conn
      /\ c \in connects => \A u \in DOMAIN users' : users[u] # c
  <2>1. CASE pUser[c] = None
    <3>1. UNCHANGED <<users, living>>
      BY <2>1 DEF OnClose, userVars
    <3>2. c \in connects => \A u \in DOMAIN users : users[u] # c
      BY <1>1, <2>1, Assumed DEF UserInv, LoggedIn
    <3> QED BY <1>1, <3>1, <3>2 DEF TypeInv, UserInv, LoggedIn
  <2>2. CASE pUser[c] # None
    <3>1. pUser[c] = c
      BY <1>1, <2>2 DEF UserInv
    <3>2. PICK u \in NamedBy(c) : Logout(u)
      BY <2>2, <3>1 DEF OnClose
    <3>3. /\ DOMAIN users' = DOMAIN users \ {u}
          /\ \A v \in DOMAIN users \ {u} : users'[v] = users[v]
          /\ users' \in [DOMAIN users' -> world.conns]
          /\ living' \subseteq Conn
          /\ \A v \in DOMAIN users \ {u} : users[v] \in living'
      BY <3>2, LoggedOut
    <3>4. \A v \in DOMAIN users' : users[v] # c
      <4> SUFFICES ASSUME NEW v \in DOMAIN users', users[v] = c PROVE FALSE
        OBVIOUS
      <4>1. UserOf(c) = v /\ c \in living
        BY <1>1, <3>3 DEF UserInv, LoggedIn
      <4>2. u = v
        BY <3>2, <4>1 DEF NamedBy
      <4> QED BY <3>3, <4>2
    <3> QED BY <3>3, <3>4
  <2> QED BY <2>1, <2>2
<1>5. TypeInv'
  BY <1>1, <1>2, <1>4 DEF TypeInv, Stays, Lone
<1>6. IdsInv'
  BY <1>1 DEF IdsInv, Ascending, Below
<1>7. \A d \in Conn : Asker(d)' = Asker(d)
  BY <1>1 DEF Asker
<1>8. OnItsWay(c)'
  BY <1>1, <1>2, <1>3, <1>7 DEF OnItsWay, Types, Stays
<1>9. ASSUME NEW d \in Conn \ {c}
      PROVE  OnItsWay(d)'
  <2>1. OnItsWay(d) /\ (d \in connects' <=> d \in connects) /\ (Asker(d)' <=> Asker(d))
    BY <1>1, <1>7 DEF WayInv
  <2>2. \A t \in Types : At(t, d)' = {} <=> At(t, d) = {}
    BY <1>2
  <2> QED BY <1>1, <2>1, <2>2, Unconcerned
<1>10. ASSUME NEW u \in DOMAIN users'
       PROVE  LoggedIn(u)'
  <2>1. /\ LoggedIn(u) /\ users'[u] = users[u] /\ users[u] \in living' /\ users[u] \in Conn
        /\ \A d \in Conn : d = users[u] => At("connect", d)' = {}
    BY <1>1, <1>2, <1>4 DEF UserInv
  <2>2. Stays => users[u] # c
    BY <1>4, <2>1 DEF LoggedIn
  <2> QED BY <1>1, <2>1, <2>2 DEF LoggedIn, UserOf, Stays
<1> QED BY <1>1, <1>2, <1>5, <1>6, <1>8, <1>9, <1>10 DEF LoginInv, WayInv, UserInv

LEMMA OnLoginStep ==
  ASSUME LoginInv, NEW c \in Conn, inbox # <<>>, inbox' = Tail(inbox),
         Head(inbox).type = "login", Head(inbox).conn = c, OnLogin(c),
         UNCHANGED <<client, mode, batch, results, requests, world>>
  PROVE  LoginInv'
<1> DEFINE cmd == [id |-> queryID, conn |-> c]
<1>1. /\ TypeInv /\ IdsInv /\ WayInv /\ UserInv /\ Orderly(c) /\ OnItsWay(c)
      /\ asking' = With(asking, queryID, c) /\ queryID' = queryID + 1
      /\ commands' = Append(commands, cmd)
      /\ UNCHANGED <<client, mode, batch, results, requests, world, got, connects, pUser,
                     users, living>>
  BY DEF LoginInv, OnLogin, userVars, socketVars, WayInv
<1>2. /\ inbox' \in Seq(Message)
      /\ \A d \in Conn : Orderly(d)'
      /\ \A d \in Conn, t \in Types :
           IF t = "login" /\ d = c
           THEN At(t, d) # {} /\ At(t, d)' = {}
           ELSE At(t, d)' = {} <=> At(t, d) = {}
      /\ At("connect", c) = {}
      /\ \A u \in DOMAIN users : users[u] \in Conn /\ \A d \in Conn : d = users[u] => At("connect", d)' = {}
  BY <1>1, Taken
<1>3. /\ client[c] \in {"asked", "left"} /\ got[c] = <<>> /\ ~Asker(c) /\ c \in world.conns
      /\ Stays => c \in connects
  BY <1>1, <1>2 DEF OnItsWay, Types
<1>4. /\ queryID \in Nat /\ queryID \notin DOMAIN asking
      /\ DOMAIN asking' = DOMAIN asking \cup {queryID}
      /\ asking'[queryID] = c /\ \A i \in DOMAIN asking : asking'[i] = asking[i]
      /\ asking' \in [DOMAIN asking' -> world.conns] /\ DOMAIN asking' \subseteq Nat
  <2>1. queryID \in Nat /\ queryID \notin DOMAIN asking /\ DOMAIN asking \subseteq Nat
    BY <1>1 DEF TypeInv, IdsInv
  <2>2. asking \in [DOMAIN asking -> world.conns]
    BY <1>1 DEF TypeInv
  <2> QED BY <1>1, <1>3, <2>1, <2>2 DEF With
<1>5. commands \in Seq(Command) /\ cmd \in Command
  BY <1>1, <1>4 DEF TypeInv, Command
<1>6. /\ commands' \in Seq(Command)
      /\ Len(commands) \in Nat /\ DOMAIN commands = 1 .. Len(commands)
      /\ DOMAIN commands' = 1 .. Len(commands) + 1
      /\ \A i \in 1 .. Len(commands) : commands'[i] = commands[i]
      /\ commands'[Len(commands) + 1] = cmd
  BY <1>1, <1>5, AppendProperties
<1>7. TypeInv'
  <2>1. queryID' \in Nat
    BY <1>1, <1>4
  <2>2. /\ inbox' \in Seq(Message) /\ commands' \in Seq(Command)
        /\ asking' \in [DOMAIN asking' -> world.conns] /\ DOMAIN asking' \subseteq Nat
    BY <1>2, <1>4, <1>6
  <2> QED BY <1>1, <2>1, <2>2 DEF TypeInv, Stays, Lone
<1>8. IdsInv'
  <2>1. /\ \A i \in DOMAIN asking : i \in Nat /\ i < queryID
        /\ \A i \in DOMAIN commands : commands[i].id \in DOMAIN asking
        /\ \A i \in DOMAIN batch : batch[i].id \in DOMAIN asking
        /\ \A i \in DOMAIN results : results[i].id \in DOMAIN asking
    BY <1>1 DEF IdsInv, TypeInv
  <2>2. \A i \in DOMAIN asking' : i < queryID'
    BY <1>1, <1>4, <2>1
  <2>3. Ascending(commands)' /\ \A i \in DOMAIN commands' : commands'[i].id \in DOMAIN asking'
    BY <1>1, <1>4, <1>6, <2>1 DEF IdsInv, Ascending
  <2>4. Below(results, commands)' /\ Below(batch, commands)'
    BY <1>1, <1>4, <1>6, <2>1 DEF IdsInv, Below
  <2>5. \A i, j \in DOMAIN asking' : asking'[i] = asking'[j] => i = j
    BY <1>1, <1>3, <1>4 DEF IdsInv, Asker
  <2> QED BY <1>1, <1>4, <2>2, <2>3, <2>4, <2>5 DEF IdsInv, Ascending, Below
<1>9. \A d \in Conn : Asker(d)' <=> Asker(d) \/ d = c
  BY <1>4 DEF Asker
<1>10. OnItsWay(c)'
  BY <1>1, <1>2, <1>3, <1>9 DEF OnItsWay, Types, Stays
<1>11. ASSUME NEW d \in Conn \ {c}
       PROVE  OnItsWay(d)'
  <2>1. OnItsWay(d) /\ (d \in connects' <=> d \in connects) /\ (Asker(d)' <=> Asker(d))
    BY <1>1, <1>9 DEF WayInv
  <2>2. \A t \in Types : At(t, d)' = {} <=> At(t, d) = {}
    BY <1>2
  <2> QED BY <1>1, <2>1, <2>2, Unconcerned
<1>12. ASSUME NEW u \in DOMAIN users'
       PROVE  LoggedIn(u)'
  <2>1. /\ LoggedIn(u) /\ users[u] \in Conn
        /\ \A d \in Conn : d = users[u] => At("connect", d)' = {}
    BY <1>1, <1>2, <1>12 DEF UserInv
  <2> QED BY <1>1, <2>1 DEF LoggedIn, UserOf, Stays
<1> QED BY <1>1, <1>2, <1>7, <1>8, <1>10, <1>11, <1>12 DEF LoginInv, WayInv, UserInv

\* What is at a connection's place in memory is the connection, for clients that
\* stay, and for one client that is alone there is nobody else.
LEMMA MemoryOf ==
  ASSUME LoginInv, NEW c \in world.conns, Stays => c \in connects, NEW d \in Memory(c)
  PROVE  (d = c /\ c \in connects) \/ (d = None /\ c \notin connects)
<1>1. connects \subseteq world.conns /\ (Stays \/ Lone)
  BY DEF LoginInv, TypeInv
<1> QED BY <1>1 DEF Memory, Lone

LEMMA Sent ==
  ASSUME LoginInv, NEW d, NEW what, Send(d, what)
  PROVE  \A x \in Conn : got'[x] = IF x = d THEN Append(got[x], what) ELSE got[x]
BY DEF Send

LEMMA OnTicketStep ==
  ASSUME LoginInv, NEW u \in User, inbox # <<>>, inbox' = Tail(inbox),
         Head(inbox).type = "ticket", OnTicket(u),
         UNCHANGED <<client, mode, batch, results, requests, world>>
  PROVE  LoginInv'
<1>1. /\ TypeInv /\ IdsInv /\ WayInv /\ UserInv /\ Logout(u)
      /\ UNCHANGED <<client, mode, batch, results, requests, world, connects, pUser, asking, queryID,
                     commands>>
  BY DEF LoginInv, OnTicket, socketVars
<1>2. /\ inbox' \in Seq(Message)
      /\ \A d \in Conn : Orderly(d)'
      /\ \A d \in Conn, t \in Types : At(t, d)' = {} <=> At(t, d) = {}
      /\ \A v \in DOMAIN users : users[v] \in Conn /\ \A d \in Conn : d = users[v] => At("connect", d)' = {}
  <2>1. /\ inbox' \in Seq(Message)
        /\ \A d \in Conn : Orderly(d)'
        /\ \A d \in Conn, t \in Types :
              IF Head(inbox).type = t /\ Head(inbox).conn = d
              THEN At(t, d) # {} /\ At(t, d)' = {}
              ELSE At(t, d)' = {} <=> At(t, d) = {}
        /\ \A v \in DOMAIN users : users[v] \in Conn /\ \A d \in Conn : d = users[v] => At("connect", d)' = {}
    BY <1>1, Taken
  <2>2. \A t \in Types : t # "ticket"
    BY DEF Types
  <2> QED BY <2>1, <2>2
<1>3. /\ DOMAIN users' = DOMAIN users \ {u}
      /\ \A v \in DOMAIN users \ {u} : users'[v] = users[v]
      /\ users' \in [DOMAIN users' -> world.conns]
      /\ living' \subseteq Conn
      /\ \A v \in DOMAIN users \ {u} : users[v] \in living'
  BY <1>1, LoggedOut
\* Only the connection that is logged in as u is told the proxy.
<1>4. /\ got' \in [Conn -> Outcomes]
      /\ \A d \in Conn : got'[d] = got[d] \/ /\ u \in DOMAIN users /\ d = users[u] /\ d \in connects
                                             /\ got[d] = <<"in">> /\ got'[d] # <<>>
  <2>1. CASE u \in DOMAIN users
    <3>1. PICK d \in Memory(users[u]) : Send(d, "proxy")
      BY <2>1 DEF OnTicket
    <3>2. /\ users[u] \in world.conns /\ (Stays => users[u] \in connects)
          /\ (users[u] \in connects => got[users[u]] = <<"in">>)
      BY <1>1, <2>1 DEF UserInv, LoggedIn, TypeInv
    <3>3. (d = users[u] /\ users[u] \in connects) \/ (d = None /\ users[u] \notin connects)
      BY <3>1, <3>2, MemoryOf
    <3>4. got' = [x \in Conn |-> IF x = d THEN Append(got[x], "proxy") ELSE got[x]]
      BY <3>1 DEF Send
    <3>5. got \in [Conn -> Outcomes]
      BY <1>1 DEF TypeInv
    <3>6. CASE d = None
      BY <3>4, <3>5, <3>6, Assumed
    <3>7. CASE d = users[u] /\ d \in connects
      BY <2>1, <3>2, <3>4, <3>5, <3>7, Answers DEF Outcomes
    <3> QED BY <3>3, <3>6, <3>7
  <2>2. CASE u \notin DOMAIN users
    BY <1>1, <2>2 DEF OnTicket, TypeInv
  <2> QED BY <2>1, <2>2
<1>5. TypeInv'
  BY <1>1, <1>2, <1>3, <1>4 DEF TypeInv, Stays, Lone
<1>6. IdsInv'
  BY <1>1 DEF IdsInv, Ascending, Below
<1>7. \A d \in Conn : Asker(d)' = Asker(d)
  BY <1>1 DEF Asker
<1>8. ASSUME NEW d \in Conn
      PROVE  OnItsWay(d)'
  <2>1. OnItsWay(d) /\ (d \in connects' <=> d \in connects) /\ (Asker(d)' <=> Asker(d))
    BY <1>1, <1>7 DEF WayInv
  <2>2. \A t \in Types : At(t, d)' = {} <=> At(t, d) = {}
    BY <1>2
  <2>3. CASE got'[d] = got[d]
    BY <1>1, <2>1, <2>2, <2>3, Unconcerned
  <2>4. CASE got[d] = <<"in">> /\ got'[d] # <<>>
    BY <1>1, <2>1, <2>2, <2>4 DEF OnItsWay, Types, Stays
  <2> QED BY <1>4, <2>3, <2>4
<1>9. ASSUME NEW v \in DOMAIN users'
      PROVE  LoggedIn(v)'
  <2>1. /\ LoggedIn(v) /\ users'[v] = users[v] /\ users[v] \in Conn
        /\ \A d \in Conn : d = users[v] => At("connect", d)' = {}
        /\ v # u /\ users[v] \in living'
    BY <1>1, <1>2, <1>3 DEF UserInv
  <2>2. got'[users[v]] = got[users[v]]
    BY <1>1, <1>3, <1>4, <2>1 DEF LoggedIn, UserInv
  <2> QED BY <1>1, <2>1, <2>2 DEF LoggedIn, UserOf, Stays
<1> QED BY <1>1, <1>2, <1>5, <1>6, <1>8, <1>9 DEF LoginInv, WayInv, UserInv

\* What a queue of commands or results loses at its head
LEMMA QueueTaken ==
  ASSUME NEW S, NEW q \in Seq(S), q # <<>>
  PROVE  /\ Tail(q) \in Seq(S) /\ Head(q) = q[1] /\ q[1] \in S
         /\ Len(q) \in Nat \ {0} /\ DOMAIN q = 1 .. Len(q)
         /\ DOMAIN Tail(q) = 1 .. Len(q) - 1
         /\ \A i \in 1 .. Len(q) - 1 : Tail(q)[i] = q[i + 1]
OBVIOUS

LEMMA LoopOne ==
  ASSUME LoginInv, results # <<>>, results' = Tail(results),
         NEW r \in Result, r = Head(results), r.id \in DOMAIN asking,
         NEW c \in Conn, c = asking[r.id], NEW u \in User, u = world.user[c], NEW d \in Memory(c),
         Send(d, IF r.ok THEN "in" ELSE "no"), asking' = Without(asking, r.id),
         pUser' = [x \in Conn |-> IF r.ok /\ x = d THEN c ELSE pUser[x]],
         IF r.ok THEN /\ users' = With(users, u, c) /\ living' = living \cup {c}
                      /\ requests' = Append(requests, u)
         ELSE UNCHANGED <<users, living, requests>>,
         UNCHANGED <<client, inbox, mode, connects, queryID, commands, batch, world>>
  PROVE  LoginInv'
<1>1. /\ TypeInv /\ IdsInv /\ WayInv /\ UserInv /\ results \in Seq(Result)
  BY DEF LoginInv, TypeInv
<1>2. /\ Tail(results) \in Seq(Result) /\ r = results[1] /\ r \in Result
      /\ Len(results) \in Nat \ {0} /\ DOMAIN results = 1 .. Len(results)
      /\ DOMAIN Tail(results) = 1 .. Len(results) - 1
      /\ \A i \in 1 .. Len(results) - 1 : Tail(results)[i] = results[i + 1]
  BY <1>1, QueueTaken
<1>3. c \in world.conns /\ world.conns \subseteq Conn
  BY <1>1, Assumed DEF TypeInv
<1>4. /\ Asker(c) /\ got[c] = <<>> /\ client[c] \in {"asked", "left"} /\ At("connect", c) = {}
      /\ At("login", c) = {} /\ (Stays => c \in connects)
  <2>1. Asker(c)
    BY <1>3 DEF Asker
  <2> QED BY <1>1, <1>3, <2>1 DEF WayInv, OnItsWay
<1>7. (d = c /\ c \in connects) \/ (d = None /\ c \notin connects)
  BY <1>3, <1>4, MemoryOf
<1>8. /\ got' \in [Conn -> Outcomes]
      /\ \A x \in Conn \ {c} : got'[x] = got[x]
      /\ got'[c] = IF c \in connects THEN IF r.ok THEN <<"in">> ELSE <<"no">> ELSE <<>>
  <2>1. got' = [x \in Conn |-> IF x = d THEN Append(got[x], IF r.ok THEN "in" ELSE "no") ELSE got[x]]
    BY DEF Send
  <2>2. got \in [Conn -> Outcomes] /\ c \in Conn /\ c # None
    BY <1>1, <1>3, Assumed DEF TypeInv
  <2>3. CASE d = c /\ c \in connects
    BY <1>4, <2>1, <2>2, <2>3, Answers DEF Outcomes
  <2>4. CASE d = None /\ c \notin connects
    BY <1>4, <2>1, <2>2, <2>4, Assumed
  <2> QED BY <1>7, <2>3, <2>4
<1>9. /\ pUser' \in [Conn -> Conn \cup {None}]
      /\ \A x \in Conn : pUser'[x] = IF r.ok /\ x = c /\ c \in connects THEN c ELSE pUser[x]
  BY <1>1, <1>3, <1>7, Assumed DEF TypeInv
<1>10. /\ DOMAIN asking' = DOMAIN asking \ {r.id}
       /\ \A i \in DOMAIN asking \ {r.id} : asking'[i] = asking[i]
       /\ asking' \in [DOMAIN asking' -> world.conns] /\ DOMAIN asking' \subseteq Nat
  BY <1>1 DEF Without, TypeInv
<1>11. /\ DOMAIN users' = IF r.ok THEN DOMAIN users \cup {u} ELSE DOMAIN users
       /\ \A v \in DOMAIN users' : users'[v] = IF r.ok /\ v = u THEN c ELSE users[v]
       /\ users' \in [DOMAIN users' -> world.conns] /\ DOMAIN users' \subseteq User
       /\ living' = IF r.ok THEN living \cup {c} ELSE living
       /\ requests' \in Seq(User)
  <2>1. /\ DOMAIN users \subseteq User /\ users \in [DOMAIN users -> world.conns]
        /\ requests \in Seq(User)
    BY <1>1 DEF TypeInv
  <2>2. CASE r.ok
    <3>1. requests' \in Seq(User)
      <4>1. Append(requests, u) \in Seq(User)
        BY <2>1, AppendProperties
      <4>2. requests' = Append(requests, u)
        BY <2>2
      <4> QED BY <4>1, <4>2
    <3>2. users' = [x \in DOMAIN users \cup {u} |-> IF x = u THEN c ELSE users[x]]
      BY <2>2 DEF With
    <3>3. /\ DOMAIN users' = DOMAIN users \cup {u}
          /\ \A v \in DOMAIN users \cup {u} : users'[v] = IF v = u THEN c ELSE users[v]
      BY <3>2
    <3>4. users' \in [DOMAIN users' -> world.conns]
      BY <1>3, <2>1, <3>2
    <3>5. living' = living \cup {c}
      BY <2>2
    <3> QED BY <2>1, <2>2, <3>1, <3>3, <3>4, <3>5
  <2>3. CASE ~r.ok
    BY <2>1, <2>3
  <2> QED BY <2>2, <2>3
<1>12. TypeInv'
  <2>1. results' \in Seq(Result) /\ living' \subseteq Conn
    BY <1>1, <1>2, <1>11 DEF TypeInv
  <2>2. (Stays \/ Lone)'
    BY <1>1 DEF TypeInv, Stays, Lone
  <2> QED BY <1>1, <1>8, <1>9, <1>10, <1>11, <2>1, <2>2 DEF TypeInv
<1>13. IdsInv'
  <2>1. \A i \in DOMAIN results' : i + 1 \in DOMAIN results /\ results'[i] = results[i + 1]
    BY <1>1, <1>2
  <2>2. /\ \A i \in DOMAIN results' : results'[i].id # r.id
        /\ \A i \in DOMAIN batch : batch[i].id # r.id
        /\ \A i \in DOMAIN commands : commands[i].id # r.id
    <3>1. /\ \A i \in DOMAIN asking : i \in Nat
          /\ \A i \in DOMAIN results : results[i].id \in DOMAIN asking
          /\ \A i \in DOMAIN batch : batch[i].id \in DOMAIN asking
          /\ \A i \in DOMAIN commands : commands[i].id \in DOMAIN asking
      BY <1>1 DEF IdsInv, TypeInv
    <3>2. 1 \in DOMAIN results /\ \A i \in DOMAIN results' : 1 < i + 1
      BY <1>1, <1>2
    <3>3. \A i \in DOMAIN results' : r.id < results'[i].id
      BY <1>1, <1>2, <2>1, <3>2 DEF IdsInv, Ascending
    <3>4. \A i \in DOMAIN batch : r.id < batch[i].id
      BY <1>1, <1>2, <3>2 DEF IdsInv, Below
    <3>5. \A i \in DOMAIN commands : r.id < commands[i].id
      BY <1>1, <1>2, <3>2 DEF IdsInv, Below
    <3> QED BY <1>3, <2>1, <3>1, <3>3, <3>4, <3>5
  <2>3. Ascending(results)'
    <3>1. ASSUME NEW i \in DOMAIN results', NEW j \in DOMAIN results', i < j
          PROVE  results'[i].id < results'[j].id
      <4>1. i + 1 < j + 1
        BY <1>1, <1>2, <3>1
      <4> QED BY <1>1, <2>1, <4>1 DEF IdsInv, Ascending
    <3> QED BY <3>1 DEF Ascending
  <2>4. Below(results, batch)' /\ Below(results, commands)'
    BY <1>1, <2>1 DEF IdsInv, Below
  <2>5. \A q \in {results', batch, commands} : \A i \in DOMAIN q : q[i].id \in DOMAIN asking'
    <3>1. /\ \A i \in DOMAIN results : results[i].id \in DOMAIN asking
          /\ \A i \in DOMAIN batch : batch[i].id \in DOMAIN asking
          /\ \A i \in DOMAIN commands : commands[i].id \in DOMAIN asking
      BY <1>1 DEF IdsInv
    <3>2. \A i \in DOMAIN results' : results'[i].id \in DOMAIN asking'
      BY <1>10, <2>1, <2>2, <3>1
    <3>3. /\ \A i \in DOMAIN batch : batch[i].id \in DOMAIN asking'
          /\ \A i \in DOMAIN commands : commands[i].id \in DOMAIN asking'
      BY <1>10, <2>2, <3>1
    <3> QED BY <3>2, <3>3
  <2>6. \A i, j \in DOMAIN asking' : asking'[i] = asking'[j] => i = j
    BY <1>1, <1>10 DEF IdsInv
  <2>7. \A i \in DOMAIN asking' : i < queryID'
    BY <1>1, <1>10 DEF IdsInv
  <2>8. Ascending(batch)' /\ Ascending(commands)' /\ Below(batch, commands)'
    BY <1>1 DEF IdsInv, Ascending, Below
  <2> QED BY <1>1, <2>3, <2>4, <2>5, <2>6, <2>7, <2>8 DEF IdsInv
<1>14. \A x \in Conn : Asker(x)' <=> Asker(x) /\ x # c
  <2>1. \A i \in DOMAIN asking : asking[i] = c => i = r.id
    BY <1>1, <1>3 DEF IdsInv
  <2> QED BY <1>3, <1>10, <2>1 DEF Asker
<1>15. \A t \in Types, x \in Conn : At(t, x)' = At(t, x)
  BY <1>1 DEF At
<1>16. \A x \in Conn : Orderly(x)'
  BY <1>1, <1>15 DEF Orderly, WayInv, Types
<1>17. OnItsWay(c)'
  <2>1. OnItsWay(c) /\ c \in Conn /\ ~Asker(c)'
    BY <1>1, <1>3, <1>14 DEF WayInv
  <2> QED BY <1>1, <1>4, <1>8, <1>15, <2>1, Answers DEF OnItsWay, Types, Stays
<1>18. ASSUME NEW x \in Conn \ {c}
       PROVE  OnItsWay(x)'
  <2>1. OnItsWay(x) /\ (x \in connects' <=> x \in connects) /\ (Asker(x)' <=> Asker(x))
    BY <1>1, <1>14 DEF WayInv
  <2>2. \A t \in Types : At(t, x)' = {} <=> At(t, x) = {}
    BY <1>15
  <2> QED BY <1>1, <1>8, <2>1, <2>2, Unconcerned
<1>19. \A x \in Conn : pUser'[x] \in {None, x}
  BY <1>1, <1>9 DEF UserInv
<1>20. ASSUME NEW v \in DOMAIN users'
       PROVE  LoggedIn(v)'
  <2>1. CASE r.ok /\ v = u
    <3>1. users'[v] = c /\ c \in living' /\ world'.user[c] = v
      BY <1>11, <2>1
    <3>2. At("connect", c)' = {}
      BY <1>4, <1>15 DEF Types
    <3>3. c \in connects' => got'[c] = <<"in">> /\ pUser'[c] = c
      BY <1>8, <1>9, <2>1
    <3> QED BY <1>4, <3>1, <3>2, <3>3 DEF LoggedIn, Stays, UserOf
  <2>2. CASE ~(r.ok /\ v = u)
    <3>1. /\ LoggedIn(v) /\ users'[v] = users[v] /\ users[v] \in Conn
          /\ users[v] \in living'
      BY <1>1, <1>3, <1>11, <2>2 DEF UserInv, LoggedIn, TypeInv
    <3>2. users[v] = c => c \notin connects
      BY <1>4, <3>1, Answers DEF LoggedIn
    <3>3. \A x \in Conn : x = users[v] => At("connect", x)' = {}
      BY <1>15, <3>1 DEF Types, LoggedIn
    <3> QED BY <1>1, <1>8, <1>9, <3>1, <3>2, <3>3 DEF LoggedIn, Stays, UserOf
  <2> QED BY <2>1, <2>2
<1>21. WayInv'
  BY <1>16, <1>17, <1>18 DEF WayInv
<1>22. UserInv'
  BY <1>19, <1>20 DEF UserInv
<1> QED BY <1>12, <1>13, <1>21, <1>22 DEF LoginInv

LEMMA LoopStep ==
  ASSUME LoginInv, Loop
  PROVE  LoginInv'
<1> SUFFICES ASSUME NEW r, r = Head(results), NEW c, c = asking[r.id], NEW u, u = world.user[c]
             PROVE  LoginInv'
  OBVIOUS
<1>1. /\ results # <<>> /\ results' = Tail(results) /\ asking' = Without(asking, r.id)
      /\ UNCHANGED <<client, inbox, mode, connects, queryID, commands, batch, world>>
  BY DEF Loop
<1>2. PICK d \in Memory(c) :
        /\ Send(d, IF r.ok THEN "in" ELSE "no")
        /\ pUser' = [x \in Conn |-> IF r.ok /\ x = d THEN c ELSE pUser[x]]
  BY DEF Loop
<1>3. IF r.ok THEN /\ users' = With(users, u, c) /\ living' = living \cup {c}
                   /\ requests' = Append(requests, u)
      ELSE UNCHANGED <<users, living, requests>>
  BY DEF Loop, userVars, UserOf
<1>4. TypeInv /\ IdsInv /\ results \in Seq(Result)
  BY DEF LoginInv, TypeInv
<1>5. r \in Result /\ r = results[1] /\ 1 \in DOMAIN results
  BY <1>1, <1>4, QueueTaken
<1>6. r.id \in DOMAIN asking
  BY <1>4, <1>5 DEF IdsInv
<1>7. c \in Conn /\ u \in User
  BY <1>4, <1>6, Assumed DEF TypeInv
<1> QED BY <1>1, <1>2, <1>3, <1>5, <1>6, <1>7, LoopOne

\* Steps that only move what waits leave connections and users as they are.
LEMMA OthersStay ==
  ASSUME LoginInv, TypeInv', IdsInv',
         UNCHANGED <<client, got, connects, pUser, asking, users, living, world>>,
         \A c \in Conn : Orderly(c)' /\ \A t \in Types : At(t, c)' = {} <=> At(t, c) = {}
  PROVE  LoginInv'
<1>1. TypeInv /\ WayInv /\ UserInv
  BY DEF LoginInv
<1>2. ASSUME NEW c \in Conn
      PROVE  OnItsWay(c)'
  <2>1. OnItsWay(c) /\ (Asker(c)' <=> Asker(c))
    BY <1>1 DEF WayInv, Asker
  <2> QED BY <2>1, Unconcerned
<1>3. ASSUME NEW u \in DOMAIN users
      PROVE  LoggedIn(u)'
  <2>1. LoggedIn(u) /\ users[u] \in Conn
    BY <1>1, Assumed DEF UserInv, TypeInv
  <2>2. \A c \in Conn : c = users[u] => At("connect", c)' = {}
    BY <2>1 DEF LoggedIn, Types
  <2> QED BY <2>1, <2>2 DEF LoggedIn, UserOf, Stays
<1> QED BY <1>1, <1>2, <1>3 DEF LoginInv, WayInv, UserInv

LEMMA ProcessStep ==
  ASSUME LoginInv, Process
  PROVE  LoginInv'
<1>1. /\ inbox # <<>> /\ inbox' = Tail(inbox)
      /\ UNCHANGED <<client, mode, batch, results, requests, world>>
      /\ CASE Head(inbox).type = "connect" -> OnConnect(Head(inbox).conn)
           [] Head(inbox).type = "close"   -> OnClose(Head(inbox).conn)
           [] Head(inbox).type = "login"   -> OnLogin(Head(inbox).conn)
           [] Head(inbox).type = "ticket"  -> OnTicket(Head(inbox).user)
  BY DEF Process
<1>2. Head(inbox) \in Message
  BY <1>1, Taken
<1>3. CASE Head(inbox).type = "connect"
  BY <1>1, <1>2, <1>3, OnConnectStep DEF Message
<1>4. CASE Head(inbox).type = "close"
  BY <1>1, <1>2, <1>4, OnCloseStep DEF Message
<1>5. CASE Head(inbox).type = "login"
  BY <1>1, <1>2, <1>5, OnLoginStep DEF Message
<1>6. CASE Head(inbox).type = "ticket"
  BY <1>1, <1>2, <1>6, OnTicketStep DEF Message
<1> QED BY <1>2, <1>3, <1>4, <1>5, <1>6 DEF Message

LEMMA SwitchStep ==
  ASSUME LoginInv, Switch
  PROVE  LoginInv'
<1>1. /\ TypeInv /\ IdsInv /\ WayInv /\ mode' \in {"messages", "loop"}
      /\ UNCHANGED <<client, got, inbox, connects, pUser, asking, queryID, commands, batch, results,
                     users, living, requests, world>>
  BY DEF LoginInv, Switch, clientVars, socketVars, queryVars, userVars
<1>2. TypeInv' /\ IdsInv'
  BY <1>1 DEF TypeInv, IdsInv, Ascending, Below, Stays, Lone
<1>3. \A c \in Conn : Orderly(c)' /\ \A t \in Types : At(t, c)' = {} <=> At(t, c) = {}
  BY <1>1 DEF Orderly, At, WayInv
<1> QED BY <1>1, <1>2, <1>3, OthersStay

-----------------------------------------------------------------------------
(* The query thread, and the proxy manager                                 *)

LEMMA TakeCommandsStep ==
  ASSUME LoginInv, TakeCommands
  PROVE  LoginInv'
<1>1. /\ TypeInv /\ IdsInv /\ WayInv /\ batch' = commands /\ commands' = <<>>
      /\ UNCHANGED <<client, got, inbox, mode, connects, pUser, asking, queryID, results,
                     users, living, requests, world>>
  BY DEF LoginInv, TakeCommands, clientVars, socketVars, userVars
<1>2. TypeInv'
  BY <1>1 DEF TypeInv, Stays, Lone
<1>3. IdsInv'
  <2>1. DOMAIN commands' = {}
    BY <1>1
  <2>2. Ascending(commands)' /\ Below(results, commands)' /\ Below(batch, commands)'
    BY <2>1 DEF Ascending, Below
  <2>3. Ascending(results)' /\ Ascending(batch)' /\ Below(results, batch)'
    BY <1>1 DEF IdsInv, Ascending, Below
  <2> QED BY <1>1, <2>1, <2>2, <2>3 DEF IdsInv
<1>4. \A c \in Conn : Orderly(c)' /\ \A t \in Types : At(t, c)' = {} <=> At(t, c) = {}
  BY <1>1 DEF Orderly, At, WayInv
<1> QED BY <1>1, <1>2, <1>3, <1>4, OthersStay

LEMMA QueryStep ==
  ASSUME LoginInv, Query
  PROVE  LoginInv'
<1>1. /\ TypeInv /\ IdsInv /\ WayInv /\ batch # <<>> /\ batch' = Tail(batch)
      /\ UNCHANGED <<client, got, inbox, mode, connects, pUser, asking, queryID, commands,
                     users, living, requests, world>>
  BY DEF LoginInv, Query, clientVars, socketVars, userVars
<1>2. PICK ok \in BOOLEAN : results' = Append(results, [id |-> Head(batch).id, ok |-> ok])
  <2>1. PICK ok \in {FALSE, Head(batch).conn \in world.right} :
              results' = Append(results, [id |-> Head(batch).id, ok |-> ok])
    BY DEF Query
  <2>2. ok \in BOOLEAN
    <3>1. (Head(batch).conn \in world.right) \in BOOLEAN
      OBVIOUS
    <3> QED BY <3>1
  <2> QED BY <2>1, <2>2
<1>3. SUFFICES ASSUME NEW b, b = Head(batch), NEW r, r = [id |-> b.id, ok |-> ok]
               PROVE  LoginInv'
  OBVIOUS
<1>4. batch \in Seq(Command) /\ results \in Seq(Result)
  BY <1>1 DEF TypeInv
<1>5. /\ batch' \in Seq(Command) /\ b = batch[1] /\ b \in Command
      /\ Len(batch) \in Nat \ {0} /\ DOMAIN batch = 1 .. Len(batch)
      /\ DOMAIN batch' = 1 .. Len(batch) - 1
      /\ \A i \in 1 .. Len(batch) - 1 : batch'[i] = batch[i + 1]
  BY <1>1, <1>3, <1>4, QueueTaken
<1>6. r \in Result /\ r.id = b.id
  BY <1>3, <1>5 DEF Command, Result
<1>7. /\ results' \in Seq(Result)
      /\ Len(results) \in Nat /\ DOMAIN results = 1 .. Len(results)
      /\ DOMAIN results' = 1 .. Len(results) + 1
      /\ \A i \in 1 .. Len(results) : results'[i] = results[i]
      /\ results'[Len(results) + 1] = r
  BY <1>2, <1>3, <1>4, <1>6, AppendProperties
<1>8. TypeInv'
  BY <1>1, <1>5, <1>7 DEF TypeInv, Stays, Lone
<1>9. IdsInv'
  <2>1. \A i \in DOMAIN batch' : /\ i \in Nat /\ i + 1 \in DOMAIN batch /\ 1 < i + 1
                                 /\ batch'[i] = batch[i + 1]
    BY <1>5
  <2>2. 1 \in DOMAIN batch /\ batch[1].id = r.id
    BY <1>5, <1>6
  <2>3. \A i \in DOMAIN results' : \/ i \in DOMAIN results /\ results'[i] = results[i]
                                   \/ i = Len(results) + 1 /\ results'[i] = r
    BY <1>7
  <2>4. Ascending(results) /\ Ascending(batch) /\ Ascending(commands) /\ Below(results, batch)
        /\ Below(results, commands) /\ Below(batch, commands)
    BY <1>1 DEF IdsInv
  <2>5. Ascending(results)'
    <3> SUFFICES ASSUME NEW i \in DOMAIN results', NEW j \in DOMAIN results', i < j
                 PROVE  results'[i].id < results'[j].id
      BY DEF Ascending
    <3>1. i \in DOMAIN results /\ results'[i] = results[i]
      BY <1>7
    <3>2. CASE j \in DOMAIN results /\ results'[j] = results[j]
      BY <2>4, <3>1, <3>2 DEF Ascending
    <3>3. CASE results'[j] = r
      BY <2>2, <2>4, <3>1, <3>3 DEF Below
    <3> QED BY <2>3, <3>2, <3>3
  <2>6. Ascending(batch)'
    <3> SUFFICES ASSUME NEW i \in DOMAIN batch', NEW j \in DOMAIN batch', i < j
                 PROVE  batch'[i].id < batch'[j].id
      BY DEF Ascending
    <3>1. i + 1 < j + 1
      BY <1>5
    <3> QED BY <2>1, <2>4, <3>1 DEF Ascending
  <2>7. Below(results, batch)'
    BY <2>1, <2>2, <2>3, <2>4 DEF Below, Ascending
  <2>8. Below(results, commands)' /\ Below(batch, commands)' /\ Ascending(commands)'
    BY <1>1, <2>1, <2>2, <2>3, <2>4 DEF Below, Ascending
  <2>9. /\ \A i \in DOMAIN results' : results'[i].id \in DOMAIN asking
        /\ \A i \in DOMAIN batch' : batch'[i].id \in DOMAIN asking
        /\ \A i \in DOMAIN commands : commands[i].id \in DOMAIN asking
    <3>1. /\ \A i \in DOMAIN results : results[i].id \in DOMAIN asking
          /\ \A i \in DOMAIN batch : batch[i].id \in DOMAIN asking
          /\ \A i \in DOMAIN commands : commands[i].id \in DOMAIN asking
      BY <1>1 DEF IdsInv
    <3> QED BY <2>1, <2>2, <2>3, <3>1
  <2> QED BY <1>1, <2>5, <2>6, <2>7, <2>8, <2>9 DEF IdsInv
<1>10. \A c \in Conn : Orderly(c)' /\ \A t \in Types : At(t, c)' = {} <=> At(t, c) = {}
  BY <1>1 DEF Orderly, At, WayInv
<1> QED BY <1>1, <1>8, <1>9, <1>10, OthersStay

LEMMA ProxyManagerStep ==
  ASSUME LoginInv, ProxyManager
  PROVE  LoginInv'
<1>1. /\ TypeInv /\ IdsInv /\ WayInv
      /\ UNCHANGED <<client, got, mode, connects, pUser, asking, queryID, commands, batch, results,
                     users, living, world>>
  BY DEF LoginInv, ProxyManager, clientVars, socketVars, queryVars, userVars
<1>2. PICK i \in DOMAIN requests : /\ requests' = RemoveAt(requests, i)
                                   /\ inbox' = Append(inbox, [type |-> "ticket", user |-> requests[i]])
  BY DEF ProxyManager
<1>3. SUFFICES ASSUME NEW m, m = [type |-> "ticket", user |-> requests[i]]
               PROVE  LoginInv'
  OBVIOUS
<1>4. requests \in Seq(User) /\ requests[i] \in User /\ i \in 1 .. Len(requests)
  BY <1>1 DEF TypeInv
<1>5. requests' \in Seq(User)
  BY <1>2, <1>4, RemoveAtProperties
<1>6. m \in Message /\ m.type = "ticket" /\ inbox' = Append(inbox, m)
  BY <1>2, <1>3, <1>4 DEF Message
<1>7. /\ inbox' \in Seq(Message)
      /\ \A t \in Types, c \in Conn : At(t, c)' = At(t, c)
  <2>1. \A t \in Types : t # "ticket"
    BY DEF Types
  <2> QED BY <1>1, <1>6, <2>1, InboxAppended
<1>8. TypeInv' /\ IdsInv'
  BY <1>1, <1>5, <1>7 DEF TypeInv, IdsInv, Ascending, Below, Stays, Lone
<1>9. \A c \in Conn : Orderly(c)' /\ \A t \in Types : At(t, c)' = {} <=> At(t, c) = {}
  BY <1>1, <1>7 DEF Orderly, WayInv, Types
<1> QED BY <1>1, <1>8, <1>9, OthersStay

-----------------------------------------------------------------------------
(* The theorem                                                             *)

\* Clients stay until they have their result, or there is one client.
EarlyAlone == \A w \in Worlds : "early" \in w.leaves => \A c, d \in w.conns : c = d

LEMMA LoginStarts ==
  ASSUME EarlyAlone, Init
  PROVE  LoginInv
<1>1. /\ world \in Worlds /\ world.conns \subseteq Conn
      /\ client = [c \in Conn |-> "out"] /\ got = [c \in Conn |-> <<>>]
      /\ inbox = <<>> /\ mode = "messages" /\ connects = {} /\ pUser = [c \in Conn |-> None]
      /\ asking = <<>> /\ queryID = 1 /\ commands = <<>> /\ batch = <<>> /\ results = <<>>
      /\ users = <<>> /\ living = {} /\ requests = <<>>
  BY Assumed DEF Init
<1>2. DOMAIN <<>> = {} /\ <<>> \in [{} -> world.conns]
  OBVIOUS
<1>3. TypeInv
  BY <1>1, <1>2 DEF TypeInv, Outcomes, Stays, Lone, EarlyAlone
<1>4. IdsInv
  BY <1>1, <1>2 DEF IdsInv, Ascending, Below
<1>5. \A t \in Types, c \in Conn : At(t, c) = {} /\ ~Asker(c)
  BY <1>1, <1>2 DEF At, Asker
<1>6. WayInv
  BY <1>1, <1>5 DEF WayInv, Orderly, OnItsWay, Types
<1>7. UserInv
  BY <1>1, <1>2 DEF UserInv
<1> QED BY <1>3, <1>4, <1>6, <1>7 DEF LoginInv

LEMMA LoginKept ==
  ASSUME LoginInv, [Next]_vars
  PROVE  LoginInv'
<1>1. CASE \E c \in Conn : Client(c)
  BY <1>1, ClientStep
<1>2. CASE Service
  BY <1>2, ProcessStep, SwitchStep, LoopStep DEF Service
<1>3. CASE QueryThread
  BY <1>3, TakeCommandsStep, QueryStep DEF QueryThread
<1>4. CASE ProxyManager
  BY <1>4, ProxyManagerStep
<1>5. CASE UNCHANGED vars
  <2>1. TypeInv /\ IdsInv /\ WayInv
    BY DEF LoginInv
  <2>2. UNCHANGED <<client, got, inbox, mode, connects, pUser, asking, queryID, commands, batch,
                    results, users, living, requests, world>>
    BY <1>5 DEF vars, clientVars, socketVars, queryVars, userVars
  <2>3. TypeInv' /\ IdsInv'
    BY <2>1, <2>2 DEF TypeInv, IdsInv, Ascending, Below, Stays, Lone
  <2>4. \A c \in Conn : Orderly(c)' /\ \A t \in Types : At(t, c)' = {} <=> At(t, c) = {}
    BY <2>1, <2>2 DEF Orderly, At, WayInv
  <2> QED BY <2>2, <2>3, <2>4, OthersStay
<1> QED BY <1>1, <1>2, <1>3, <1>4, <1>5 DEF Next

LEMMA LoginShows ==
  ASSUME LoginInv
  PROVE  AnswersExpected
BY DEF LoginInv, TypeInv, UserInv, LoggedIn, AnswersExpected, Outcomes, Stays

\* A client gets its result and at most the proxy of its own user, and every user
\* that is logged in has a connection that is there, whatever tickets and results
\* are under way, for every number of connections and users, unless clients leave
\* before they have their result while others are there.
THEOREM AnswersAreExpected == EarlyAlone => (Spec => []AnswersExpected)
<1> SUFFICES ASSUME EarlyAlone PROVE Spec => []AnswersExpected
  OBVIOUS
<1>1. Init => LoginInv
  BY LoginStarts
<1>2. LoginInv /\ [Next]_vars => LoginInv'
  BY LoginKept
<1>3. LoginInv => AnswersExpected
  BY LoginShows
<1> QED BY <1>1, <1>2, <1>3, PTL DEF Spec

-----------------------------------------------------------------------------
(* The lists of role servers                                               *)

\* What the ILM sends to a role server
Notice == [type : {"joined"}, id : Int] \cup [type : {"remove"}, id : GameID]
             \cup [type : {"query"}, list : Seq(GameID)]

TypeRoles ==
  /\ games \in Seq(GameID) /\ prep \in Seq(Role) /\ roles \in Seq(Role) /\ cursor \in Int
  /\ gsList \in [Role -> Seq(GameID)] /\ toRole \in [Role -> Seq(Notice)]
  /\ phase \in [Role -> {"off", "open", "joining", "on"}]

\* Nobody is listed twice, and who has gone is in no queue.
QueuesInv ==
  /\ IsInjective(games) /\ IsInjective(prep) /\ IsInjective(roles)
  /\ ToSet(prep) \cap ToSet(roles) = {}
  /\ \A r \in ToSet(prep) \cup ToSet(roles) : phase[r] # "off"

\* The list a role server will have names the game servers there are, each once;
\* who is not registered has none, and nothing is on the way to it.
Informed(r) == IsInjective(ListToBe(r)) /\ ToSet(ListToBe(r)) \subseteq ToSet(games)

ListsInv ==
  \A r \in Role :
    /\ Informed(r)
    /\ r \notin ToSet(roles) => toRole[r] = <<>> /\ gsList[r] = <<>>

RolesInv == TypeRoles /\ QueuesInv /\ ListsInv

LEMMA ListAfterProperties ==
  ASSUME NEW list \in Seq(GameID), NEW m \in Notice
  PROVE  /\ ListAfter(list, m) \in Seq(GameID)
         /\ m.type = "joined" => ListAfter(list, m) = list
         /\ m.type = "remove" => ListAfter(list, m) = RemoveFirst(list, m.id)
         /\ m.type = "query" => ListAfter(list, m) = IF m.list = <<>> THEN list ELSE m.list
<1>1. CASE m \in [type : {"joined"}, id : Int]
  <2>1. m.type = "joined"
    BY <1>1
  <2>2. ListAfter(list, m) = list
    BY <2>1 DEF ListAfter
  <2> QED BY <2>1, <2>2
<1>2. CASE m \in [type : {"remove"}, id : GameID]
  <2>1. m.type = "remove" /\ m.id \in GameID
    BY <1>2
  <2>2. ListAfter(list, m) = RemoveFirst(list, m.id)
    BY <2>1 DEF ListAfter
  <2>3. RemoveFirst(list, m.id) \in Seq(GameID)
    BY RemoveFirstProperties
  <2> QED BY <2>1, <2>2, <2>3
<1>3. CASE m \in [type : {"query"}, list : Seq(GameID)]
  <2>1. m.type = "query" /\ m.list \in Seq(GameID)
    BY <1>3
  <2>2. ListAfter(list, m) = IF m.list = <<>> THEN list ELSE m.list
    BY <2>1 DEF ListAfter
  <2> QED BY <2>1, <2>2
<1> QED BY <1>1, <1>2, <1>3 DEF Notice

\* The lists a role server has while it reads
LEMMA ListsOnTheWay ==
  ASSUME NEW list \in Seq(GameID), NEW q \in Seq(Notice)
  PROVE  \E f \in [0 .. Len(q) -> Seq(GameID)] :
           /\ f[0] = list
           /\ \A k \in 1 .. Len(q) : f[k] = ListAfter(f[k - 1], q[k])
           /\ f[Len(q)] = ListAfterAll(list, q)
<1> DEFINE n == Len(q)
           R(f) == f = [k \in 0 .. n |-> IF k = 0 THEN list ELSE ListAfter(f[k - 1], q[k])]
           g == [x \in Seq(GameID) \X (1 .. n) |-> ListAfter(x[1], q[x[2]])]
           h == CHOOSE f : R(f)
<1>1. n \in Nat /\ \A k \in 1 .. n : q[k] \in Notice
  OBVIOUS
<1>2. g \in [Seq(GameID) \X (1 .. n) -> Seq(GameID)]
  BY <1>1, ListAfterProperties
<1>3. PICK f \in [0 .. n -> Seq(GameID)] :
        Iterates(f, list, g, n)
  <2>1. n \in Nat
    BY <1>1
  <2> HIDE DEF g, n
  <2> QED BY <2>1, <1>2, IterationExists
<1>4. ASSUME NEW k \in 1 .. n
      PROVE  f[k] = ListAfter(f[k - 1], q[k])
  <2>1. f[k] = g[<<f[k - 1], k>>]
    <3> HIDE DEF g, n
    <3> QED BY <1>3 DEF Iterates
  <2>2. f[k - 1] \in Seq(GameID)
    <3> HIDE DEF g
    <3> QED BY <1>1
  <2>3. g[<<f[k - 1], k>>] = ListAfter(f[k - 1], q[k])
    BY <2>2
  <2> QED BY <2>1, <2>3
<1>5. R(f)
  <2> HIDE DEF g
  <2>1. \A k \in 0 .. n : f[k] = IF k = 0 THEN list ELSE ListAfter(f[k - 1], q[k])
    BY <1>1, <1>3, <1>4 DEF Iterates
  <2> QED BY <2>1
<1>6. R(h)
  <2> HIDE DEF R
  <2> QED BY <1>5
<1>7. ListAfterAll(list, q) = h[n]
  BY DEF ListAfterAll
<1> HIDE DEF g, h, n
<1>8. h[0] = list /\ \A k \in 1 .. n : h[k] = ListAfter(h[k - 1], q[k])
  BY <1>1, <1>6
<1>9. f[0] = list /\ \A k \in 1 .. n : f[k] = ListAfter(f[k - 1], q[k])
  BY <1>3, <1>4 DEF Iterates
<1>10. \A k \in 0 .. n : h[k] = f[k]
  <2>0. n \in Nat
    BY <1>1
  <2>1. h[0] = f[0]
    BY <1>8, <1>9
  <2>2. \A k \in 1 .. n : h[k - 1] = f[k - 1] => h[k] = f[k]
    BY <1>8, <1>9
  <2>3. GoAlike(h, f, n)
    BY <2>1, <2>2 DEF GoAlike
  <2>4. Alike(h, f, n)
    BY <2>0, <2>3, IterationUnique
  <2> QED BY <2>4 DEF Alike
<1>11. f[n] = ListAfterAll(list, q)
  BY <1>7, <1>10, <1>1
<1> QED BY <1>9, <1>11 DEF n

LEMMA NothingOnTheWay ==
  ASSUME NEW list \in Seq(GameID)
  PROVE  ListAfterAll(list, <<>>) = list
<1> DEFINE q == <<>>
<1>1. q \in Seq(Notice) /\ Len(q) = 0
  OBVIOUS
<1> HIDE DEF q
<1>2. PICK f \in [0 .. Len(q) -> Seq(GameID)] :
        /\ f[0] = list
        /\ \A k \in 1 .. Len(q) : f[k] = ListAfter(f[k - 1], q[k])
        /\ f[Len(q)] = ListAfterAll(list, q)
  BY <1>1, ListsOnTheWay
<1> QED BY <1>1, <1>2 DEF q

\* One more message is read last.
LEMMA OneMore ==
  ASSUME NEW list \in Seq(GameID), NEW q \in Seq(Notice), NEW m \in Notice
  PROVE  /\ ListAfterAll(list, q) \in Seq(GameID)
         /\ ListAfterAll(list, Append(q, m)) = ListAfter(ListAfterAll(list, q), m)
<1> DEFINE qm == Append(q, m)
           n == Len(q)
<1>1. /\ qm \in Seq(Notice) /\ Len(qm) = n + 1 /\ n \in Nat /\ qm[n + 1] = m
      /\ \A k \in 1 .. n : qm[k] = q[k]
  BY AppendProperties
<1>2. PICK f \in [0 .. n -> Seq(GameID)] :
        /\ f[0] = list
        /\ \A k \in 1 .. n : f[k] = ListAfter(f[k - 1], q[k])
        /\ f[n] = ListAfterAll(list, q)
  BY ListsOnTheWay
<1> HIDE DEF qm
<1>3. PICK h \in [0 .. Len(qm) -> Seq(GameID)] :
        /\ h[0] = list
        /\ \A k \in 1 .. Len(qm) : h[k] = ListAfter(h[k - 1], qm[k])
        /\ h[Len(qm)] = ListAfterAll(list, qm)
  BY <1>1, ListsOnTheWay
<1> HIDE DEF n
<1>4. \A k \in 0 .. n : f[k] = h[k]
  <2>0. n \in Nat
    BY <1>1
  <2>1. \A k \in 1 .. n : f[k - 1] = h[k - 1] => f[k] = h[k]
    <3> TAKE k \in 1 .. n
    <3>1. k \in 1 .. Len(qm)
      BY <1>1
    <3> QED BY <3>1, <1>1, <1>2, <1>3
  <2>2. f[0] = h[0]
    BY <1>2, <1>3
  <2>3. GoAlike(f, h, n)
    BY <2>1, <2>2 DEF GoAlike
  <2>4. Alike(f, h, n)
    BY <2>0, <2>3, IterationUnique
  <2> QED BY <2>4 DEF Alike
<1>5. h[n] = ListAfterAll(list, q)
  BY <1>1, <1>2, <1>4
<1>6. n + 1 \in 1 .. Len(qm) /\ (n + 1) - 1 = n
  BY <1>1
<1>7. h[n + 1] = ListAfter(h[n], qm[n + 1])
  BY <1>3, <1>6
<1>8. f[n] \in Seq(GameID)
  BY <1>1
<1> QED BY <1>1, <1>2, <1>3, <1>5, <1>7, <1>8 DEF qm

\* It does not matter how much is read already.
LEMMA OneRead ==
  ASSUME NEW list \in Seq(GameID), NEW q \in Seq(Notice), q # <<>>
  PROVE  /\ ListAfter(list, Head(q)) \in Seq(GameID)
         /\ ListAfterAll(ListAfter(list, Head(q)), Tail(q)) = ListAfterAll(list, q)
<1> DEFINE t == Tail(q)
           n == Len(t)
           next == ListAfter(list, Head(q))
<1>1. /\ t \in Seq(Notice) /\ Len(q) = n + 1 /\ n \in Nat /\ q[1] = Head(q) /\ Head(q) \in Notice
      /\ \A k \in 1 .. n : t[k] = q[k + 1]
  OBVIOUS
<1>2. next \in Seq(GameID)
  BY <1>1, ListAfterProperties
<1> HIDE DEF next, t
<1>3. PICK f \in [0 .. n -> Seq(GameID)] :
        /\ f[0] = next
        /\ \A k \in 1 .. n : f[k] = ListAfter(f[k - 1], t[k])
        /\ f[n] = ListAfterAll(next, t)
  BY <1>1, <1>2, ListsOnTheWay
<1> HIDE DEF n
<1>4. PICK h \in [0 .. Len(q) -> Seq(GameID)] :
        /\ h[0] = list
        /\ \A k \in 1 .. Len(q) : h[k] = ListAfter(h[k - 1], q[k])
        /\ h[Len(q)] = ListAfterAll(list, q)
  BY ListsOnTheWay
<1>5. ASSUME NEW k \in 0 .. n
      PROVE  h[k + 1] = ListAfter(h[k], q[k + 1])
  <2>1. k + 1 \in 1 .. Len(q) /\ (k + 1) - 1 = k
    BY <1>1
  <2> QED BY <2>1, <1>4
<1> DEFINE e == [k \in 0 .. n |-> h[k + 1]]
<1>6. \A k \in 0 .. n : f[k] = e[k]
  <2>0. n \in Nat
    BY <1>1
  <2>1. f[0] = e[0]
    <3>1. 0 \in 0 .. n /\ e[0] = h[0 + 1]
      BY <1>1
    <3> QED BY <3>1, <1>1, <1>3, <1>4, <1>5 DEF next
  <2>2. \A k \in 1 .. n : f[k - 1] = e[k - 1] => f[k] = e[k]
    <3> TAKE k \in 1 .. n
    <3>1. k \in 0 .. n /\ k - 1 \in 0 .. n /\ (k - 1) + 1 = k
      BY <1>1
    <3>2. e[k] = h[k + 1] /\ e[k - 1] = h[k]
      BY <3>1
    <3>3. h[k + 1] = ListAfter(h[k], q[k + 1])
      BY <3>1, <1>5
    <3> HIDE DEF e
    <3> QED BY <3>2, <3>3, <1>1, <1>3
  <2> HIDE DEF e
  <2>3. GoAlike(f, e, n)
    BY <2>1, <2>2 DEF GoAlike
  <2>4. Alike(f, e, n)
    BY <2>0, <2>3, IterationUnique
  <2> QED BY <2>4 DEF Alike
<1>7. f[n] = h[n + 1]
  BY <1>6, <1>1
<1> QED BY <1>2, <1>3, <1>4, <1>7, <1>1 DEF next, t

-----------------------------------------------------------------------------
LEMMA AssumedOfRoles ==
  RoleBase \in Nat /\ IdWidth \in Nat \ {0}
BY RoleAssumption

\* Who gets a message is a registered role server.
LEMMA ToldAll ==
  ASSUME RolesInv, NEW m \in Notice, ToRoles(m), NEW r \in Role
  PROVE  /\ toRole' \in [Role -> Seq(Notice)]
         /\ r \in ToSet(roles) => ListAfterAll(gsList[r], toRole'[r]) = ListAfter(ListToBe(r), m)
         /\ r \notin ToSet(roles) => toRole'[r] = toRole[r]
<1>1. \A q \in Role : toRole[q] \in Seq(Notice) /\ Append(toRole[q], m) \in Seq(Notice)
  BY AppendProperties DEF RolesInv, TypeRoles
<1>2. toRole' = [q \in Role |-> IF q \in ToSet(roles) THEN Append(toRole[q], m) ELSE toRole[q]]
  BY DEF ToRoles
<1>3. toRole' \in [Role -> Seq(Notice)]
  BY <1>1, <1>2
<1>4. gsList[r] \in Seq(GameID)
  BY DEF RolesInv, TypeRoles
<1>5. ListAfterAll(gsList[r], Append(toRole[r], m)) = ListAfter(ListToBe(r), m)
  BY <1>1, <1>4, OneMore DEF ListToBe
<1> QED BY <1>2, <1>3, <1>5

\* A list that is named, and what is on the way to it, stay.
LEMMA SameList ==
  ASSUME NEW r \in Role, gsList'[r] = gsList[r], toRole'[r] = toRole[r]
  PROVE  ListToBe(r)' = ListToBe(r)
BY DEF ListToBe

LEMMA EmptyList ==
  ListAfterAll(<<>>, <<>>) = <<>> /\ IsInjective(<<>>) /\ ToSet(<<>>) = {}
<1>1. <<>> \in Seq(GameID)
  OBVIOUS
<1>2. ListAfterAll(<<>>, <<>>) = <<>>
  BY <1>1, NothingOnTheWay
<1> QED BY <1>2 DEF IsInjective, ToSet

LEMMA ListToBeTyped ==
  ASSUME TypeRoles, NEW r \in Role
  PROVE  ListToBe(r) \in Seq(GameID)
<1>1. gsList[r] \in Seq(GameID) /\ toRole[r] \in Seq(Notice)
  BY DEF TypeRoles
<1>2. PICK f \in [0 .. Len(toRole[r]) -> Seq(GameID)] : f[Len(toRole[r])] = ListToBe(r)
  BY <1>1, ListsOnTheWay DEF ListToBe
<1> QED BY <1>1, <1>2

LEMMA RolesInitially ==
  ASSUME RolesInit
  PROVE  RolesInv
<1>1. TypeRoles
  BY AssumedOfRoles DEF RolesInit, TypeRoles
<1>2. IsInjective(<<>>) /\ ToSet(<<>>) = {}
  BY DEF IsInjective, ToSet
<1>3. QueuesInv
  BY <1>2 DEF QueuesInv, RolesInit
<1>4. ListsInv
  BY EmptyList DEF ListsInv, RolesInit, Informed, ListToBe
<1> QED BY <1>1, <1>3, <1>4 DEF RolesInv

LEMMA JoinKeeps ==
  ASSUME RolesInv, NEW id \in GameID, GameJoin(id)
  PROVE  RolesInv'
<1> USE DEF GameJoin, roleVars
<1>1. /\ games' \in Seq(GameID) /\ ToSet(games') = ToSet(games) \cup {id}
      /\ IsInjective(games')
  BY AppendToSet DEF RolesInv, TypeRoles, QueuesInv
<1>2. TypeRoles'
  BY <1>1 DEF RolesInv, TypeRoles
<1>3. QueuesInv'
  BY <1>1 DEF RolesInv, QueuesInv
<1>4. ASSUME NEW r \in Role
      PROVE  Informed(r)' /\ (r \notin ToSet(roles') => toRole'[r] = <<>> /\ gsList'[r] = <<>>)
  <2>1. ListToBe(r)' = ListToBe(r)
    BY SameList
  <2> QED BY <2>1, <1>1 DEF RolesInv, ListsInv, Informed
<1>5. ListsInv'
  BY <1>4 DEF ListsInv
<1> QED BY <1>2, <1>3, <1>5 DEF RolesInv

LEMMA LossKeeps ==
  ASSUME RolesInv, NEW id \in GameID, GameLost(id)
  PROVE  RolesInv'
<1> USE DEF GameLost, roleVars
<1> DEFINE m == [type |-> "remove", id |-> id]
<1>1. /\ games' \in Seq(GameID) /\ ToSet(games') = ToSet(games) \ {id}
      /\ IsInjective(games')
  BY RemoveFirstProperties DEF RolesInv, TypeRoles, QueuesInv
<1>2. m \in Notice /\ m.type = "remove" /\ m.id = id
  BY DEF Notice
<1> HIDE DEF m
<1>3. ToRoles(m)
  BY DEF m
<1>4. toRole' \in [Role -> Seq(Notice)] /\ gsList' = gsList /\ roles' = roles
  <2>1. ASSUME NEW r \in Role PROVE toRole' \in [Role -> Seq(Notice)]
    BY <1>2, <1>3, ToldAll
  <2>2. CASE Role = {}
    BY <2>2 DEF m, ToRoles
  <2> QED BY <2>1, <2>2
<1>5. TypeRoles'
  BY <1>1, <1>4 DEF RolesInv, TypeRoles
<1>6. QueuesInv'
  BY <1>1 DEF RolesInv, QueuesInv
<1>7. ASSUME NEW r \in Role
      PROVE  Informed(r)' /\ (r \notin ToSet(roles') => toRole'[r] = <<>> /\ gsList'[r] = <<>>)
  <2>1. CASE r \in ToSet(roles)
    <3>1. ListToBe(r)' = ListAfter(ListToBe(r), m)
      BY <1>2, <1>3, <1>4, <2>1, ToldAll DEF ListToBe
    <3>2. ListToBe(r) \in Seq(GameID) /\ Informed(r)
      BY ListToBeTyped DEF RolesInv, ListsInv
    <3>3. ListAfter(ListToBe(r), m) = RemoveFirst(ListToBe(r), id)
      BY <1>2, <3>2, ListAfterProperties
    <3>4. /\ IsInjective(RemoveFirst(ListToBe(r), id))
          /\ ToSet(RemoveFirst(ListToBe(r), id)) = ToSet(ListToBe(r)) \ {id}
      BY <3>2, RemoveFirstProperties DEF Informed
    <3>5. ToSet(RemoveFirst(ListToBe(r), id)) \subseteq ToSet(games')
      BY <1>1, <3>2, <3>4 DEF Informed
    <3>6. Informed(r)'
      BY <3>1, <3>3, <3>4, <3>5 DEF Informed
    <3> QED BY <3>6, <2>1, <1>4
  <2>2. CASE r \notin ToSet(roles)
    <3>1. toRole'[r] = <<>> /\ gsList'[r] = <<>>
      BY <1>2, <1>3, <1>4, <2>2, ToldAll DEF RolesInv, ListsInv
    <3>2. Informed(r)'
      BY <3>1, EmptyList DEF Informed, ListToBe
    <3> QED BY <3>1, <3>2
  <2> QED BY <2>1, <2>2
<1>8. ListsInv'
  BY <1>7 DEF ListsInv
<1> QED BY <1>5, <1>6, <1>8 DEF RolesInv

LEMMA StartKeeps ==
  ASSUME RolesInv, NEW r \in Role, RoleStart(r)
  PROVE  RolesInv'
<1> USE DEF RoleStart
<1>1. r \notin ToSet(prep) \cup ToSet(roles)
  BY DEF RolesInv, QueuesInv
<1>2. prep' \in Seq(Role) /\ ToSet(prep') = ToSet(prep) \cup {r} /\ IsInjective(prep')
  BY <1>1, AppendToSet DEF RolesInv, TypeRoles, QueuesInv
<1>3. phase' = [phase EXCEPT ![r] = "open"]
  OBVIOUS
<1>4. TypeRoles'
  BY <1>2, <1>3 DEF RolesInv, TypeRoles
<1>5. QueuesInv'
  <2>1. ToSet(prep') \cap ToSet(roles') = {}
    BY <1>1, <1>2 DEF RolesInv, QueuesInv
  <2>2. ToSet(prep) \subseteq Role /\ ToSet(roles) \subseteq Role
    BY ToSetType DEF RolesInv, TypeRoles
  <2>3. ASSUME NEW q \in ToSet(prep') \cup ToSet(roles') PROVE phase'[q] # "off"
    BY <1>2, <1>3, <2>2 DEF RolesInv, QueuesInv, TypeRoles
  <2> QED BY <1>2, <2>1, <2>3 DEF RolesInv, QueuesInv
<1>6. ASSUME NEW q \in Role
      PROVE  Informed(q)' /\ (q \notin ToSet(roles') => toRole'[q] = <<>> /\ gsList'[q] = <<>>)
  <2>1. ListToBe(q)' = ListToBe(q)
    BY SameList
  <2> QED BY <2>1 DEF RolesInv, ListsInv, Informed
<1>7. ListsInv'
  BY <1>6 DEF ListsInv
<1> QED BY <1>4, <1>5, <1>7 DEF RolesInv

LEMMA AskKeeps ==
  ASSUME RolesInv, NEW r \in Role, RoleAsk(r)
  PROVE  RolesInv'
<1> USE DEF RoleAsk
<1>1. phase' = [phase EXCEPT ![r] = "joining"]
  OBVIOUS
<1>2. TypeRoles'
  BY <1>1 DEF RolesInv, TypeRoles
<1>3. QueuesInv'
  <2>1. ToSet(prep) \subseteq Role /\ ToSet(roles) \subseteq Role
    BY ToSetType DEF RolesInv, TypeRoles
  <2>2. ASSUME NEW q \in ToSet(prep) \cup ToSet(roles) PROVE phase'[q] # "off"
    BY <1>1, <2>1 DEF RolesInv, QueuesInv, TypeRoles
  <2> QED BY <2>2 DEF RolesInv, QueuesInv
<1>4. ASSUME NEW q \in Role
      PROVE  Informed(q)' /\ (q \notin ToSet(roles') => toRole'[q] = <<>> /\ gsList'[q] = <<>>)
  <2>1. ListToBe(q)' = ListToBe(q)
    BY SameList
  <2> QED BY <2>1 DEF RolesInv, ListsInv, Informed
<1>5. ListsInv'
  BY <1>4 DEF ListsInv
<1> QED BY <1>2, <1>3, <1>5 DEF RolesInv

\* A role server that is forgotten leaves nothing behind.
LEMMA ForgetKeeps ==
  ASSUME RolesInv, NEW r \in Role, Forget(r), games' = games, cursor' \in Int
  PROVE  RolesInv'
<1> USE DEF Forget
<1>1. /\ prep' \in Seq(Role) /\ ToSet(prep') = ToSet(prep) \ {r} /\ IsInjective(prep')
      /\ roles' \in Seq(Role) /\ ToSet(roles') = ToSet(roles) \ {r} /\ IsInjective(roles')
  BY RemoveFirstProperties DEF RolesInv, TypeRoles, QueuesInv
<1>2. /\ phase' = [phase EXCEPT ![r] = "off"]
      /\ gsList' = [gsList EXCEPT ![r] = <<>>]
      /\ toRole' = [toRole EXCEPT ![r] = <<>>]
  OBVIOUS
<1>3. TypeRoles'
  <2>1. <<>> \in Seq(GameID) /\ <<>> \in Seq(Notice)
    OBVIOUS
  <2> QED BY <2>1, <1>1, <1>2 DEF RolesInv, TypeRoles
<1>4. QueuesInv'
  <2>1. ToSet(prep) \subseteq Role /\ ToSet(roles) \subseteq Role
    BY ToSetType DEF RolesInv, TypeRoles
  <2>2. ASSUME NEW q \in ToSet(prep') \cup ToSet(roles') PROVE phase'[q] # "off"
    BY <1>1, <1>2, <2>1 DEF RolesInv, QueuesInv, TypeRoles
  <2> QED BY <1>1, <2>2 DEF RolesInv, QueuesInv
<1>5. ASSUME NEW q \in Role
      PROVE  Informed(q)' /\ (q \notin ToSet(roles') => toRole'[q] = <<>> /\ gsList'[q] = <<>>)
  <2>1. CASE q = r
    <3>1. toRole'[q] = <<>> /\ gsList'[q] = <<>>
      BY <1>2, <2>1 DEF RolesInv, TypeRoles
    <3> QED BY <3>1, EmptyList DEF Informed, ListToBe
  <2>2. CASE q # r
    <3>1. toRole'[q] = toRole[q] /\ gsList'[q] = gsList[q]
      BY <1>2, <2>2 DEF RolesInv, TypeRoles
    <3>2. ListToBe(q)' = ListToBe(q)
      BY <3>1, SameList
    <3> QED BY <3>1, <3>2, <1>1, <2>2 DEF RolesInv, ListsInv, Informed
  <2> QED BY <2>1, <2>2
<1>6. ListsInv'
  BY <1>5 DEF ListsInv
<1> QED BY <1>3, <1>4, <1>6 DEF RolesInv

LEMMA AcceptKeeps ==
  ASSUME RolesInv, AcceptRole
  PROVE  RolesInv'
<1> DEFINE r == Head(prep)
<1>1. r \in Role /\ r \in ToSet(prep) /\ prep # <<>>
  BY TailProperties, HeadTail DEF AcceptRole, RolesInv, TypeRoles
<1>2. games' = games /\ cursor \in Int
  BY DEF AcceptRole, RolesInv, TypeRoles
<1>3. (cursor + 1) % IdWidth \in Int /\ RoleID \in Int
  BY <1>2, AssumedOfRoles DEF RoleID
<1>4. /\ Tail(prep) \in Seq(Role) /\ ToSet(prep) = ToSet(Tail(prep)) \cup {r}
      /\ IsInjective(Tail(prep)) /\ r \notin ToSet(Tail(prep))
  BY <1>1, TailProperties DEF RolesInv, TypeRoles, QueuesInv
<1> HIDE DEF r
<1>5. CASE /\ prep' = Tail(prep) /\ roles' = Append(roles, r)
           /\ cursor' = (cursor + 1) % IdWidth
           /\ toRole' = [toRole EXCEPT ![r] = Append(@, [type |-> "joined", id |-> RoleID])]
           /\ UNCHANGED <<phase, gsList>>
  <2> DEFINE m == [type |-> "joined", id |-> RoleID]
  <2>1. m \in Notice /\ m.type = "joined"
    BY <1>3 DEF Notice
  <2> HIDE DEF m
  <2>2. toRole' = [toRole EXCEPT ![r] = Append(@, m)]
    BY <1>5 DEF m
  <2>3. toRole[r] \in Seq(Notice) /\ Append(toRole[r], m) \in Seq(Notice) /\ gsList[r] \in Seq(GameID)
    BY <1>1, <2>1, AppendProperties DEF RolesInv, TypeRoles
  <2>4. r \notin ToSet(roles)
    BY <1>1 DEF RolesInv, QueuesInv
  <2>5. roles' \in Seq(Role) /\ ToSet(roles') = ToSet(roles) \cup {r} /\ IsInjective(roles')
    BY <1>1, <1>5, <2>4, AppendToSet DEF RolesInv, TypeRoles, QueuesInv
  <2>6. TypeRoles'
    BY <1>2, <1>3, <1>4, <1>5, <2>2, <2>3, <2>5 DEF RolesInv, TypeRoles
  <2>7. QueuesInv'
    BY <1>2, <1>4, <1>5, <2>5 DEF RolesInv, QueuesInv
  <2>8. ASSUME NEW q \in Role
        PROVE  Informed(q)' /\ (q \notin ToSet(roles') => toRole'[q] = <<>> /\ gsList'[q] = <<>>)
    <3>1. CASE q = r
      <4>1. toRole'[q] = Append(toRole[q], m) /\ gsList'[q] = gsList[q]
        BY <1>5, <2>2, <3>1 DEF RolesInv, TypeRoles
      <4>2. ListToBe(q) \in Seq(GameID)
        BY ListToBeTyped DEF RolesInv
      <4>3. ListToBe(q)' = ListAfter(ListToBe(q), m)
        BY <4>1, <2>1, <2>3, <3>1, OneMore DEF ListToBe
      <4>4. ListToBe(q)' = ListToBe(q)
        BY <4>2, <4>3, <2>1, ListAfterProperties
      <4> QED BY <4>4, <1>2, <2>5, <3>1 DEF RolesInv, ListsInv, Informed
    <3>2. CASE q # r
      <4>1. toRole'[q] = toRole[q] /\ gsList'[q] = gsList[q]
        BY <1>5, <2>2, <3>2 DEF RolesInv, TypeRoles
      <4>2. ListToBe(q)' = ListToBe(q)
        BY <4>1, SameList
      <4> QED BY <4>1, <4>2, <1>2, <2>5, <3>2 DEF RolesInv, ListsInv, Informed
    <3> QED BY <3>1, <3>2
  <2>9. ListsInv'
    BY <2>8 DEF ListsInv
  <2> QED BY <2>6, <2>7, <2>9 DEF RolesInv
<1>6. CASE cursor' = (cursor + 1) % IdWidth /\ Forget(r)
  BY <1>1, <1>2, <1>3, <1>6, ForgetKeeps
<1>7. CASE prep' = Append(Tail(prep), r) /\ UNCHANGED <<roles, cursor, toRole, phase, gsList>>
  <2>1. /\ prep' \in Seq(Role) /\ ToSet(prep') = ToSet(prep) /\ IsInjective(prep')
    <3> DEFINE t == Tail(prep)
    <3>1. t \in Seq(Role) /\ r \notin ToSet(t) /\ IsInjective(t)
      BY <1>4
    <3> HIDE DEF t
    <3>2. /\ Append(t, r) \in Seq(Role) /\ ToSet(Append(t, r)) = ToSet(t) \cup {r}
          /\ IsInjective(Append(t, r))
      BY <1>1, <3>1, AppendToSet
    <3>3. prep' = Append(t, r)
      BY <1>7 DEF t
    <3>4. ToSet(prep) = ToSet(t) \cup {r}
      BY <1>4 DEF t
    <3> QED BY <3>2, <3>3, <3>4
  <2>2. TypeRoles'
    BY <2>1, <1>2, <1>7 DEF RolesInv, TypeRoles
  <2>3. QueuesInv'
    BY <2>1, <1>2, <1>7 DEF RolesInv, QueuesInv
  <2>4. ASSUME NEW q \in Role
        PROVE  Informed(q)' /\ (q \notin ToSet(roles') => toRole'[q] = <<>> /\ gsList'[q] = <<>>)
    <3>1. ListToBe(q)' = ListToBe(q)
      BY <1>7, SameList
    <3> QED BY <3>1, <1>2, <1>7 DEF RolesInv, ListsInv, Informed
  <2>5. ListsInv'
    BY <2>4 DEF ListsInv
  <2> QED BY <2>2, <2>3, <2>5 DEF RolesInv
<1> QED BY <1>5, <1>6, <1>7 DEF AcceptRole, r

LEMMA QueryKeeps ==
  ASSUME RolesInv, QueryRoles
  PROVE  RolesInv'
<1> USE DEF QueryRoles, ilmVars, roleVars
<1> DEFINE m == [type |-> "query", list |-> games]
<1>1. m \in Notice /\ m.type = "query" /\ m.list = games
  BY DEF Notice, RolesInv, TypeRoles
<1> HIDE DEF m
<1>2. ToRoles(m)
  BY DEF m
<1>3. toRole' \in [Role -> Seq(Notice)]
  <2>1. ASSUME NEW r \in Role PROVE toRole' \in [Role -> Seq(Notice)]
    BY <1>1, <1>2, ToldAll
  <2>2. CASE Role = {}
    BY <2>2 DEF m, ToRoles
  <2> QED BY <2>1, <2>2
<1>4. TypeRoles'
  BY <1>3 DEF RolesInv, TypeRoles
<1>5. QueuesInv'
  BY DEF RolesInv, QueuesInv
<1>6. ASSUME NEW r \in Role
      PROVE  Informed(r)' /\ (r \notin ToSet(roles') => toRole'[r] = <<>> /\ gsList'[r] = <<>>)
  <2>1. CASE r \in ToSet(roles)
    <3>1. ListToBe(r)' = ListAfter(ListToBe(r), m)
      BY <1>1, <1>2, <2>1, ToldAll DEF ListToBe
    <3>2. ListToBe(r) \in Seq(GameID) /\ Informed(r)
      BY ListToBeTyped DEF RolesInv, ListsInv
    <3>3. ListAfter(ListToBe(r), m) = IF games = <<>> THEN ListToBe(r) ELSE games
      BY <1>1, <3>2, ListAfterProperties
    <3>4. Informed(r)'
      BY <3>1, <3>2, <3>3 DEF Informed, RolesInv, QueuesInv
    <3> QED BY <3>4, <2>1
  <2>2. CASE r \notin ToSet(roles)
    <3>1. toRole'[r] = <<>> /\ gsList'[r] = <<>>
      BY <1>1, <1>2, <2>2, ToldAll DEF RolesInv, ListsInv
    <3>2. Informed(r)'
      BY <3>1, EmptyList DEF Informed, ListToBe
    <3> QED BY <3>1, <3>2
  <2> QED BY <2>1, <2>2
<1>7. ListsInv'
  BY <1>6 DEF ListsInv
<1> QED BY <1>4, <1>5, <1>7 DEF RolesInv

LEMMA ReadKeeps ==
  ASSUME RolesInv, NEW r \in Role, RoleRead(r)
  PROVE  RolesInv'
<1> USE DEF RoleRead, ilmVars
<1> DEFINE m == Head(toRole[r])
<1>1. /\ toRole[r] # <<>> /\ toRole[r] \in Seq(Notice) /\ gsList[r] \in Seq(GameID)
      /\ Tail(toRole[r]) \in Seq(Notice)
  BY HeadTail DEF RolesInv, TypeRoles
<1>2. r \in ToSet(roles)
  BY <1>1 DEF RolesInv, ListsInv
<1>3. /\ toRole' = [toRole EXCEPT ![r] = Tail(@)]
      /\ gsList' = [gsList EXCEPT ![r] = ListAfter(@, m)]
      /\ phase' = [phase EXCEPT ![r] = "on"]
  OBVIOUS
<1>4. /\ ListAfter(gsList[r], m) \in Seq(GameID)
      /\ ListAfterAll(ListAfter(gsList[r], m), Tail(toRole[r])) = ListToBe(r)
  BY <1>1, OneRead DEF ListToBe
<1> HIDE DEF m
<1>5. TypeRoles'
  BY <1>1, <1>3, <1>4 DEF RolesInv, TypeRoles
<1>6. QueuesInv'
  <2>1. ToSet(prep) \subseteq Role /\ ToSet(roles) \subseteq Role
    BY ToSetType DEF RolesInv, TypeRoles
  <2>2. ASSUME NEW q \in ToSet(prep) \cup ToSet(roles) PROVE phase'[q] # "off"
    BY <1>3, <2>1 DEF RolesInv, QueuesInv, TypeRoles
  <2> QED BY <2>2 DEF RolesInv, QueuesInv
<1>7. ASSUME NEW q \in Role
      PROVE  Informed(q)' /\ (q \notin ToSet(roles') => toRole'[q] = <<>> /\ gsList'[q] = <<>>)
  <2>1. CASE q = r
    <3>1. toRole'[q] = Tail(toRole[r]) /\ gsList'[q] = ListAfter(gsList[r], m)
      BY <1>3, <2>1 DEF RolesInv, TypeRoles
    <3>2. ListToBe(q)' = ListToBe(q)
      BY <3>1, <1>4, <2>1 DEF ListToBe
    <3> QED BY <3>2, <1>2, <2>1 DEF RolesInv, ListsInv, Informed
  <2>2. CASE q # r
    <3>1. toRole'[q] = toRole[q] /\ gsList'[q] = gsList[q]
      BY <1>3, <2>2 DEF RolesInv, TypeRoles
    <3>2. ListToBe(q)' = ListToBe(q)
      BY <3>1, SameList
    <3> QED BY <3>1, <3>2 DEF RolesInv, ListsInv, Informed
  <2> QED BY <2>1, <2>2
<1>8. ListsInv'
  BY <1>7 DEF ListsInv
<1> QED BY <1>5, <1>6, <1>8 DEF RolesInv

LEMMA RolesStep ==
  ASSUME RolesInv, [RolesNext]_allVars
  PROVE  RolesInv'
<1>1. ASSUME UNCHANGED <<games, prep, roles, cursor, gsList, toRole, phase>> PROVE RolesInv'
  <2>1. TypeRoles' /\ QueuesInv'
    BY <1>1 DEF RolesInv, TypeRoles, QueuesInv
  <2>2. ListsInv'
    BY <1>1 DEF RolesInv, ListsInv, Informed, ListToBe
  <2> QED BY <2>1, <2>2 DEF RolesInv
<1>2. CASE PmConnect
  BY <1>1, <1>2 DEF PmConnect, roleVars
<1>3. CASE AcceptRole
  BY <1>3, AcceptKeeps
<1>4. CASE QueryRoles
  BY <1>4, QueryKeeps
<1>5. ASSUME NEW id \in GameID, GameJoin(id) \/ GameLost(id) PROVE RolesInv'
  BY <1>5, JoinKeeps, LossKeeps
<1>6. ASSUME NEW r \in Role, RoleLost(r) PROVE RolesInv'
  <2>1. Forget(r) /\ games' = games /\ cursor' \in Int
    BY <1>6 DEF RoleLost, RolesInv, TypeRoles
  <2> QED BY <2>1, ForgetKeeps
<1>7. ASSUME NEW r \in Role, RoleStart(r) \/ RoleAsk(r) \/ RoleRead(r) PROVE RolesInv'
  BY <1>7, StartKeeps, AskKeeps, ReadKeeps
<1>8. CASE UNCHANGED allVars
  BY <1>1, <1>8 DEF allVars, ilmVars, roleVars
<1> QED BY <1>2, <1>3, <1>4, <1>5, <1>6, <1>7, <1>8 DEF RolesNext

\* A role server never sends a client to a game server that has left longer than the
\* notice takes, for any number of servers, joins, losses and queries on the way.
THEOREM NoLostServerListed == RolesSpec => []NoLostServer
<1>1. RolesInit => RolesInv
  BY RolesInitially
<1>2. RolesInv /\ [RolesNext]_allVars => RolesInv'
  BY RolesStep
<1>3. RolesInv => NoLostServer
  BY DEF RolesInv, ListsInv, Informed, NoLostServer
<1> QED BY <1>1, <1>2, <1>3, PTL DEF RolesSpec
=============================================================================
