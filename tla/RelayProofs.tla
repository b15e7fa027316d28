---------------------------- MODULE RelayProofs ----------------------------
(***************************************************************************)
(* What Relay promises, for any number of proxies, clients, connections,   *)
(* messages and worlds: answers come to who asked, in order and once, and  *)
(* object messages act on the player of the client's own user, also when   *)
(* numbers come round.                                                     *)
(*                                                                         *)
(* The ids in a message stand for its client because a proxy id has one    *)
(* owner for ever and a number one client of its proxy; the order is kept  *)
(* stage by stage: on the connection, in the session's queue behind what   *)
(* the sender has already written, on the way back, and at the client.     *)
(***************************************************************************)
EXTENDS Relay, SequenceLemmas, FunctionTheorems, FiniteSetTheorems, TLAPS

\* The proxy manager is not started anew under its proxies, since it would give
\* out their ids again.
IdRules == IsFiniteSet(Proxy) /\ \A w \in Worlds : "pm" \notin w.events

\* What the promise on answers rests on, besides.  A proxy is started anew before
\* its numbers repeat, since answers to an earlier client may still be on the way;
\* and a user plays with one client, since the answers of a user's player go to
\* the client that logged in last.
RelayRules ==
  /\ IdRules
  /\ \A w \in Worlds : /\ "wrap" \notin w.events
                       /\ \A c, d \in w.clients : w.user[c] = w.user[d] => c = d

Key     == Nat \X Nat
Msg     == [key : Key, client : Client, num : Nat, kind : Kind, user : User]
Session == [queue : Seq(Msg), player : User]
Asked   == [kind : Kind, via : SUBSET Link]
Maps(S, T) == UNION {[D -> T] : D \in SUBSET S}

TypeIds ==
  /\ proxyID \in [Proxy -> Nat] /\ maxID \in Nat
  /\ servers \in [Proxy -> Maps(Server, Link)]
  /\ proxies \in [Server -> Maps(Nat, Link)]
  /\ alive \subseteq Link /\ used \subseteq Link

TypeClients ==
  /\ curID \in [Proxy -> Nat] /\ clientID \in [Client -> Nat]
  /\ state \in [Client -> {"out", "open", "in", "refused", "left"}]
  /\ clients \in [Proxy -> Maps(Nat, Client)]

TypeFlow ==
  /\ up \in [Link -> Seq(Msg)] /\ down \in [Link -> Seq(Msg)]
  /\ sessions \in [Server -> Maps(Key, Session)]
  /\ sending \in [Server -> [key : Key \cup {<<>>}, count : Nat]]
  /\ asked \in [Client -> Seq(Asked)]
  /\ got \in [Client -> Seq(Msg)]

TypePlay ==
  /\ player \in [User -> Key \cup {<<>>}] /\ world \in Worlds

\* The ids a proxy was given, under which both servers find it
Given == [p \in Proxy |-> {i \in Nat : \A s \in Server :
            i \in DOMAIN proxies[s] /\ proxies[s][i][1] = p /\ proxies[s][i][2] = s}]

\* Every id was given to a proxy, and a proxy has one of its own.
IdsInv ==
  /\ \A s \in Server : \A i \in DOMAIN proxies[s] : i <= maxID /\ \E p \in Proxy : i \in Given[p]
  /\ \A p \in Proxy : proxyID[p] \in Given[p]
  /\ \A p \in Proxy : \A s \in DOMAIN servers[p] : servers[p][s][1] = p /\ servers[p][s][2] = s

\* No two clients of a proxy have had the same number.
NumbersInv ==
  /\ \A c \in Client : state[c] # "out" => c \in world.clients
  /\ \A c, d \in Client :
        state[c] # "out" /\ state[d] # "out" /\ Home[c] = Home[d] /\ clientID[c] = clientID[d] => c = d
  /\ \A p \in Proxy : \A n \in DOMAIN clients[p] :
        Home[clients[p][n]] = p /\ state[clients[p][n]] # "out" /\ clientID[clients[p][n]] = n

\* The keys that stand for a client
Keys == [c \in Client |-> {key \in Key : /\ state[c] # "out" /\ key[2] = clientID[c]
                                         /\ key[1] \in Given[Home[c]]}]

\* What waits in the session of a key
queues == [s \in Server |-> [key \in Key |-> IF key \in DOMAIN sessions[s]
                                             THEN sessions[s][key].queue ELSE <<>>]]

\* In what the clients asked, a, m is or answers a question that is in it, and
\* went to the server s over the connection k.
ViaOf(a, m) == a[m.client][m.num].via
InAsked(a, m) == m.num \in 1..Len(a[m.client])
OverLink(a, m, k) == InAsked(a, m) /\ ViaOf(a, m) = {k}
AskedAt(a, m, s) == \E k \in Link : OverLink(a, m, k) /\ k[2] = s

\* Every message is under a key of its client, and where that key brings it.
UpInv == \A k \in Link : \A m \in ToSet(up[k]) :
  /\ m.key \in Keys[m.client] /\ m.user = world.user[m.client]
  /\ OverLink(asked, m, k) /\ k[2] = To(m.kind)
QueueInv == \A s \in Server : \A key \in Key : \A m \in ToSet(queues[s][key]) :
  key \in Keys[m.client] /\ AskedAt(asked, m, s)
DownInv == \A k \in Link : \A m \in ToSet(down[k]) :
  m.key \in Keys[m.client] /\ AskedAt(asked, m, k[2]) /\ k = proxies[k[2]][m.key[1]]
GotInv == \A c \in Client : \A m \in ToSet(got[c]) :
  m.client = c /\ m.key \in Keys[c] /\ InAsked(asked, m)
MessagesInv == UpInv /\ QueueInv /\ DownInv /\ GotInv

\* A session of the game server is its client's, and so is the user's player.
PlayersInv ==
  /\ \A key \in DOMAIN sessions["game"] : \E c \in Client :
        /\ key \in Keys[c] /\ sessions["game"][key].player = world.user[c]
        /\ player[world.user[c]] # <<>>
  /\ \A u \in User : player[u] # <<>> => /\ player[u] \in DOMAIN sessions["game"]
                                         /\ sessions["game"][player[u]].player = u

SendingInv ==
  \A s \in Server : sending[s] # NoBatch =>
     /\ sending[s].key \in DOMAIN sessions[s]
     /\ sending[s].count <= Len(queues[s][sending[s].key])

\* If the two questions are a client's over one connection, the first was asked
\* first.
Before(a, m, n) == m.client = n.client /\ ViaOf(a, m) = ViaOf(a, n) => m.num < n.num

Ordered(a, q) == \A i, j \in DOMAIN q : i < j => Before(a, q[i], q[j])
OrderedByKey(a, q) == \A i, j \in DOMAIN q : i < j /\ q[i].key = q[j].key => Before(a, q[i], q[j])

\* What is in q after the first n, and how much of a session's queue the batch b
\* has written and not removed
After(q, n) == {q[i] : i \in (n + 1)..Len(q)}
Written(b, key) == IF b.key = key THEN b.count ELSE 0

\* The order at each place, and between a place and those before it
UpOrder == \A k \in Link :
  /\ Ordered(asked, up[k])
  /\ \A n \in ToSet(up[k]) :
       /\ \A s \in Server : \A key \in Key : \A m \in ToSet(queues[s][key]) : Before(asked, m, n)
       /\ \A l \in Link : \A m \in ToSet(down[l]) : Before(asked, m, n)
       /\ \A c \in Client : \A m \in ToSet(got[c]) : Before(asked, m, n)
QueueOrder == \A s \in Server : \A key \in Key :
  /\ Ordered(asked, queues[s][key])
  /\ \A n \in After(queues[s][key], Written(sending[s], key)) :
       /\ \A l \in Link : \A m \in ToSet(down[l]) : m.key = key => Before(asked, m, n)
       /\ \A c \in Client : \A m \in ToSet(got[c]) : m.key = key => Before(asked, m, n)
DownOrder == \A k \in Link :
  /\ OrderedByKey(asked, down[k])
  /\ \A n \in ToSet(down[k]) : \A c \in Client : \A m \in ToSet(got[c]) :
       m.key = n.key => Before(asked, m, n)
GotOrder == \A c \in Client : OrderedByKey(asked, got[c])
OrderInv == UpOrder /\ QueueOrder /\ DownOrder /\ GotOrder

TypeInv  == TypeIds /\ TypeClients /\ TypeFlow /\ TypePlay
RelayInv == TypeInv /\ IdsInv /\ NumbersInv /\ MessagesInv /\ PlayersInv /\ SendingInv /\ OrderInv

-----------------------------------------------------------------------------
(* Maps                                                                    *)

\* What a map of ids is
LEMMA MapsMember ==
  ASSUME NEW S, NEW T, NEW f
  PROVE  f \in Maps(S, T) <=> /\ DOMAIN f \subseteq S /\ f = [x \in DOMAIN f |-> f[x]]
                              /\ \A x \in DOMAIN f : f[x] \in T
<1>1. ASSUME f \in Maps(S, T)
      PROVE  DOMAIN f \subseteq S /\ f = [x \in DOMAIN f |-> f[x]] /\ \A x \in DOMAIN f : f[x] \in T
  <2>1. PICK D \in SUBSET S : f \in [D -> T]
    BY <1>1 DEF Maps
  <2> QED BY <2>1
<1>2. ASSUME DOMAIN f \subseteq S, f = [x \in DOMAIN f |-> f[x]], \A x \in DOMAIN f : f[x] \in T
      PROVE  f \in Maps(S, T)
  <2>1. f \in [DOMAIN f -> T] /\ DOMAIN f \in SUBSET S
    BY <1>2
  <2> QED BY <2>1 DEF Maps
<1> QED BY <1>1, <1>2

LEMMA EmptyMap ==
  ASSUME NEW S, NEW T
  PROVE  <<>> \in Maps(S, T)
<1>1. <<>> \in [{} -> T] /\ {} \in SUBSET S
  OBVIOUS
<1> QED BY <1>1 DEF Maps

\* An entry that is there stays.
LEMMA InsertProperties ==
  ASSUME NEW f, NEW k, NEW v
  PROVE  /\ DOMAIN Insert(f, k, v) = DOMAIN f \cup {k}
         /\ \A x \in DOMAIN f : Insert(f, k, v)[x] = f[x]
         /\ k \notin DOMAIN f => Insert(f, k, v)[k] = v
         /\ \A S, T : f \in Maps(S, T) /\ k \in S /\ v \in T => Insert(f, k, v) \in Maps(S, T)
<1> DEFINE g == Insert(f, k, v)
<1>1. /\ g = [x \in DOMAIN g |-> g[x]]
      /\ DOMAIN g = DOMAIN f \cup {k}
      /\ \A x \in DOMAIN f : g[x] = f[x]
      /\ k \notin DOMAIN f => g[k] = v
  BY DEF Insert
<1> HIDE DEF g
<1>2. ASSUME NEW S, NEW T, f \in Maps(S, T), k \in S, v \in T
      PROVE  g \in Maps(S, T)
  <2>1. DOMAIN f \subseteq S /\ \A x \in DOMAIN f : f[x] \in T
    BY <1>2, MapsMember
  <2>2. DOMAIN g \subseteq S /\ \A x \in DOMAIN g : g[x] \in T
    BY <1>1, <1>2, <2>1
  <2> QED BY <1>1, <2>2, MapsMember
<1> QED BY <1>1, <1>2 DEF g

LEMMA EraseProperties ==
  ASSUME NEW f, NEW k
  PROVE  /\ DOMAIN Erase(f, k) = DOMAIN f \ {k}
         /\ \A x \in DOMAIN f \ {k} : Erase(f, k)[x] = f[x]
         /\ \A S, T : f \in Maps(S, T) => Erase(f, k) \in Maps(S, T)
<1> DEFINE g == Erase(f, k)
<1>1. /\ g = [x \in DOMAIN g |-> g[x]]
      /\ DOMAIN g = DOMAIN f \ {k}
      /\ \A x \in DOMAIN f \ {k} : g[x] = f[x]
  BY DEF Erase
<1> HIDE DEF g
<1>2. ASSUME NEW S, NEW T, f \in Maps(S, T)
      PROVE  g \in Maps(S, T)
  <2>1. DOMAIN f \subseteq S /\ \A x \in DOMAIN f : f[x] \in T
    BY <1>2, MapsMember
  <2> QED BY <1>1, <2>1, MapsMember
<1> QED BY <1>1, <1>2 DEF g

-----------------------------------------------------------------------------
(* Sequences of messages                                                   *)

LEMMA OrderedAppend ==
  ASSUME NEW a, NEW q \in Seq(Msg), NEW n \in Msg
  PROVE  /\ Ordered(a, q) /\ (\A m \in ToSet(q) : Before(a, m, n)) => Ordered(a, Append(q, n))
         /\ OrderedByKey(a, q) /\ (\A m \in ToSet(q) : m.key = n.key => Before(a, m, n))
            => OrderedByKey(a, Append(q, n))
<1> DEFINE r == Append(q, n)
<1>1. /\ DOMAIN q = 1..Len(q) /\ DOMAIN r = 1..(Len(q) + 1) /\ Len(q) \in Nat
      /\ \A i \in 1..Len(q) : r[i] = q[i] /\ q[i] \in ToSet(q)
      /\ r[Len(q) + 1] = n
  BY DEF ToSet
<1> HIDE DEF r
<1>2. ASSUME NEW i \in DOMAIN r, NEW j \in DOMAIN r, i < j
      PROVE  /\ i \in DOMAIN q /\ r[i] = q[i] /\ q[i] \in ToSet(q)
             /\ (j \in DOMAIN q /\ r[j] = q[j]) \/ r[j] = n
  BY <1>1, <1>2
<1>3. ASSUME Ordered(a, q), \A m \in ToSet(q) : Before(a, m, n)
      PROVE  Ordered(a, r)
  BY <1>2, <1>3 DEF Ordered
<1>4. ASSUME OrderedByKey(a, q), \A m \in ToSet(q) : m.key = n.key => Before(a, m, n)
      PROVE  OrderedByKey(a, r)
  BY <1>2, <1>4 DEF OrderedByKey
<1> QED BY <1>3, <1>4 DEF r

LEMMA OrderedTail ==
  ASSUME NEW a, NEW q \in Seq(Msg), q # <<>>
  PROVE  /\ Ordered(a, q) => /\ Ordered(a, Tail(q))
                             /\ \A m \in ToSet(Tail(q)) : Before(a, Head(q), m)
         /\ OrderedByKey(a, q) =>
              /\ OrderedByKey(a, Tail(q))
              /\ \A m \in ToSet(Tail(q)) : Head(q).key = m.key => Before(a, Head(q), m)
<1> DEFINE r == Tail(q)
<1>1. /\ DOMAIN q = 1..Len(q) /\ DOMAIN r = 1..(Len(q) - 1) /\ Len(q) \in Nat \ {0}
      /\ \A i \in 1..(Len(q) - 1) : r[i] = q[i + 1]
      /\ Head(q) = q[1] /\ ToSet(r) = {r[i] : i \in DOMAIN r}
  BY DEF ToSet
<1> HIDE DEF r
<1>2. ASSUME NEW i \in DOMAIN r, NEW j \in DOMAIN r, i < j
      PROVE  i + 1 \in DOMAIN q /\ j + 1 \in DOMAIN q /\ i + 1 < j + 1 /\ r[i] = q[i + 1] /\ r[j] = q[j + 1]
  BY <1>1, <1>2
<1>3. ASSUME NEW m \in ToSet(r)
      PROVE  \E j \in DOMAIN q : 1 < j /\ m = q[j] /\ 1 \in DOMAIN q
  BY <1>1
<1>4. ASSUME Ordered(a, q)
      PROVE  Ordered(a, r) /\ \A m \in ToSet(r) : Before(a, Head(q), m)
  BY <1>1, <1>2, <1>3, <1>4 DEF Ordered
<1>5. ASSUME OrderedByKey(a, q)
      PROVE  /\ OrderedByKey(a, r)
             /\ \A m \in ToSet(r) : Head(q).key = m.key => Before(a, Head(q), m)
  BY <1>1, <1>2, <1>3, <1>5 DEF OrderedByKey
<1> QED BY <1>4, <1>5 DEF r

\* PopBatch
LEMMA OrderedRest ==
  ASSUME NEW a, NEW q \in Seq(Msg), NEW n \in Nat, n <= Len(q)
  PROVE  /\ SubSeq(q, n + 1, Len(q)) \in Seq(Msg)
         /\ ToSet(SubSeq(q, n + 1, Len(q))) = After(q, n) /\ After(q, n) \subseteq ToSet(q)
         /\ Ordered(a, q) => Ordered(a, SubSeq(q, n + 1, Len(q)))
<1> DEFINE r == SubSeq(q, n + 1, Len(q))
<1>1. /\ r \in Seq(Msg) /\ DOMAIN q = 1..Len(q) /\ Len(q) \in Nat /\ DOMAIN r = 1..(Len(q) - n)
      /\ \A i \in 1..(Len(q) - n) : r[i] = q[n + i]
  OBVIOUS
<1> HIDE DEF r
<1>2. ToSet(r) = After(q, n) /\ After(q, n) \subseteq ToSet(q)
  <2>1. ASSUME NEW i \in DOMAIN r
        PROVE  n + i \in (n + 1)..Len(q) /\ r[i] = q[n + i]
    BY <1>1
  <2>2. ASSUME NEW j \in (n + 1)..Len(q)
        PROVE  j - n \in DOMAIN r /\ r[j - n] = q[j] /\ j \in DOMAIN q
    BY <1>1
  <2> QED BY <2>1, <2>2 DEF ToSet, After
<1>3. ASSUME Ordered(a, q)
      PROVE  Ordered(a, r)
  <2>1. ASSUME NEW i \in DOMAIN r, NEW j \in DOMAIN r, i < j
        PROVE  /\ n + i \in DOMAIN q /\ n + j \in DOMAIN q /\ n + i < n + j
               /\ r[i] = q[n + i] /\ r[j] = q[n + j]
    BY <1>1, <2>1
  <2> QED BY <1>3, <2>1 DEF Ordered
<1> QED BY <1>1, <1>2, <1>3 DEF r

LEMMA AfterProperties ==
  ASSUME NEW q \in Seq(Msg)
  PROVE  /\ After(q, 0) = ToSet(q) /\ After(q, Len(q)) = {}
         /\ \A n \in Nat : After(q, n) \subseteq ToSet(q)
         /\ \A m \in Msg : \A n \in Nat : After(Append(q, m), n) \subseteq After(q, n) \cup {m}
<1>1. DOMAIN q = 1..Len(q) /\ Len(q) \in Nat
  OBVIOUS
<1>2. After(q, 0) = ToSet(q) /\ After(q, Len(q)) = {} /\ \A n \in Nat : After(q, n) \subseteq ToSet(q)
  BY <1>1 DEF After, ToSet
<1>3. ASSUME NEW m \in Msg, NEW n \in Nat, NEW i \in (n + 1)..Len(Append(q, m))
      PROVE  Append(q, m)[i] = m \/ (i \in (n + 1)..Len(q) /\ Append(q, m)[i] = q[i])
  BY <1>1
<1> QED BY <1>2, <1>3 DEF After

\* SendBatch: what is written carries the key of the session.
Rekeyed(q, key) == [i \in DOMAIN q |-> [q[i] EXCEPT !.key = key]]

LEMMA RekeyedProperties ==
  ASSUME NEW a, NEW q \in Seq(Msg), NEW key \in Key
  PROVE  /\ Rekeyed(q, key) \in Seq(Msg)
         /\ \A m \in ToSet(Rekeyed(q, key)) :
              m.key = key /\ \E n \in ToSet(q) : m.client = n.client /\ m.num = n.num
         /\ Ordered(a, q) => Ordered(a, Rekeyed(q, key))
<1> DEFINE r == Rekeyed(q, key)
<1>1. DOMAIN q = 1..Len(q) /\ Len(q) \in Nat /\ \A i \in DOMAIN q : q[i] \in Msg
  OBVIOUS
<1>2. ASSUME NEW i \in DOMAIN q
      PROVE  r[i] \in Msg /\ r[i].key = key /\ r[i].client = q[i].client /\ r[i].num = q[i].num
  BY <1>1 DEF Rekeyed, Msg
<1>3. r = [i \in 1..Len(q) |-> r[i]]
  BY <1>1 DEF Rekeyed
<1> HIDE DEF r
<1>4. r \in Seq(Msg) /\ DOMAIN r = DOMAIN q
  BY <1>1, <1>2, <1>3
<1>5. \A m \in ToSet(r) : m.key = key /\ \E n \in ToSet(q) : m.client = n.client /\ m.num = n.num
  BY <1>2, <1>4 DEF ToSet
<1>6. ASSUME Ordered(a, q)
      PROVE  Ordered(a, r)
  BY <1>2, <1>4, <1>6 DEF Ordered, Before, ViaOf
<1> QED BY <1>4, <1>5, <1>6 DEF r

LEMMA OrderedConcat ==
  ASSUME NEW a, NEW q \in Seq(Msg), NEW r \in Seq(Msg)
  PROVE  /\ q \o r \in Seq(Msg) /\ ToSet(q \o r) = ToSet(q) \cup ToSet(r)
         /\ OrderedByKey(a, q) /\ Ordered(a, r)
            /\ (\A m \in ToSet(q) : \A n \in ToSet(r) : m.key = n.key => Before(a, m, n))
            => OrderedByKey(a, q \o r)
<1> DEFINE t == q \o r
<1>1. /\ DOMAIN q = 1..Len(q) /\ Len(q) \in Nat /\ DOMAIN r = 1..Len(r) /\ Len(r) \in Nat
      /\ t \in Seq(Msg) /\ DOMAIN t = 1..(Len(q) + Len(r))
      /\ \A i \in 1..(Len(q) + Len(r)) : t[i] = IF i <= Len(q) THEN q[i] ELSE r[i - Len(q)]
  OBVIOUS
<1> HIDE DEF t
<1>2. ASSUME NEW i \in DOMAIN t
      PROVE  \/ i <= Len(q) /\ i \in DOMAIN q /\ t[i] = q[i]
             \/ i > Len(q) /\ i - Len(q) \in DOMAIN r /\ t[i] = r[i - Len(q)]
  BY <1>1
<1>3. ToSet(t) = ToSet(q) \cup ToSet(r)
  <2>1. ASSUME NEW i \in DOMAIN q
        PROVE  i \in DOMAIN t /\ t[i] = q[i]
    BY <1>1
  <2>2. ASSUME NEW i \in DOMAIN r
        PROVE  i + Len(q) \in DOMAIN t /\ t[i + Len(q)] = r[i]
    BY <1>1
  <2> QED BY <1>2, <2>1, <2>2 DEF ToSet
<1>4. ASSUME OrderedByKey(a, q), Ordered(a, r),
             \A m \in ToSet(q) : \A n \in ToSet(r) : m.key = n.key => Before(a, m, n)
      PROVE  OrderedByKey(a, t)
  <2> SUFFICES ASSUME NEW i \in DOMAIN t, NEW j \in DOMAIN t, i < j, t[i].key = t[j].key
               PROVE  Before(a, t[i], t[j])
    BY DEF OrderedByKey
  <2>1. CASE j <= Len(q)
    BY <1>1, <1>2, <1>4, <2>1 DEF OrderedByKey
  <2>2. CASE i > Len(q)
    <3>1. /\ i - Len(q) \in DOMAIN r /\ j - Len(q) \in DOMAIN r /\ i - Len(q) < j - Len(q)
          /\ t[i] = r[i - Len(q)] /\ t[j] = r[j - Len(q)]
      BY <1>1, <2>2
    <3> QED BY <1>4, <3>1 DEF Ordered
  <2>3. CASE i <= Len(q) /\ j > Len(q)
    <3>1. t[i] = q[i] /\ i \in DOMAIN q /\ t[j] = r[j - Len(q)] /\ j - Len(q) \in DOMAIN r
      BY <1>1, <1>2, <2>3
    <3>2. t[i] \in ToSet(q) /\ t[j] \in ToSet(r)
      BY <3>1 DEF ToSet
    <3> QED BY <1>4, <3>2
  <2> QED BY <1>1, <2>1, <2>2, <2>3
<1> QED BY <1>1, <1>3, <1>4 DEF t

\* A client's next question leaves the older ones as they are.
LEMMA AskMore ==
  ASSUME NEW a \in [Client -> Seq(Asked)], NEW c \in Client, NEW x \in Asked,
         NEW m \in Msg, InAsked(a, m)
  PROVE  LET b == [a EXCEPT ![c] = Append(@, x)] IN InAsked(b, m) /\ ViaOf(b, m) = ViaOf(a, m)
<1> DEFINE b == [a EXCEPT ![c] = Append(@, x)]
<1>1. m.client \in Client /\ m.num \in 1..Len(a[m.client])
  BY DEF Msg, InAsked
<1>2. /\ b[m.client] = IF m.client = c THEN Append(a[c], x) ELSE a[m.client]
      /\ a[c] \in Seq(Asked)
  BY <1>1
<1>3. m.num \in 1..Len(b[m.client]) /\ b[m.client][m.num] = a[m.client][m.num]
  BY <1>1, <1>2
<1> QED BY <1>3 DEF InAsked, ViaOf

-----------------------------------------------------------------------------
(* Keys                                                                    *)

FlowInv == MessagesInv /\ PlayersInv /\ SendingInv /\ OrderInv

\* The world of a behaviour
LEMMA WorldTypes ==
  ASSUME TypePlay
  PROVE  world.clients \subseteq Client /\ world.kinds \subseteq Kind /\ world.user \in [Client -> User]
BY RelayAssumption DEF TypePlay

LEMMA QueuesType ==
  ASSUME TypeFlow
  PROVE  queues \in [Server -> [Key -> Seq(Msg)]]
<1>1. ASSUME NEW s \in Server, NEW key \in DOMAIN sessions[s]
      PROVE  sessions[s][key].queue \in Seq(Msg)
  <2>1. sessions[s][key] \in Session
    BY MapsMember DEF TypeFlow
  <2> QED BY <2>1 DEF Session
<1> QED BY <1>1 DEF queues

\* The messages that are anywhere
LEMMA MessageTypes ==
  ASSUME TypeFlow
  PROVE  /\ \A k \in Link : ToSet(up[k]) \subseteq Msg /\ ToSet(down[k]) \subseteq Msg
         /\ \A s \in Server : \A key \in Key : ToSet(queues[s][key]) \subseteq Msg
         /\ \A c \in Client : ToSet(got[c]) \subseteq Msg
         /\ \A m \in Msg : m.client \in Client /\ m.key \in Key /\ m.num \in Nat /\ m.kind \in Kind
                            /\ m.user \in User
         /\ \A k \in Link : k[1] \in Proxy /\ k[2] \in Server
<1>1. ASSUME NEW k \in Link
      PROVE  up[k] \in Seq(Msg) /\ down[k] \in Seq(Msg) /\ k[1] \in Proxy /\ k[2] \in Server
  BY DEF TypeFlow, Link
<1>2. ASSUME NEW s \in Server, NEW key \in Key
      PROVE  queues[s][key] \in Seq(Msg)
  BY QueuesType
<1>3. ASSUME NEW c \in Client
      PROVE  got[c] \in Seq(Msg)
  BY DEF TypeFlow
<1>4. ASSUME NEW m \in Msg
      PROVE  /\ m.client \in Client /\ m.key \in Key /\ m.num \in Nat /\ m.kind \in Kind
             /\ m.user \in User
  BY DEF Msg
<1> QED BY <1>1, <1>2, <1>3, <1>4, ToSetType

\* An id has one owner, and a key too.
LEMMA KeysOnce ==
  ASSUME TypeClients, NumbersInv, NEW c \in Client, NEW d \in Client, NEW key \in Key,
         key \in Keys[c], key \in Keys[d]
  PROVE  c = d
<1>1. /\ state[c] # "out" /\ state[d] # "out" /\ clientID[c] = clientID[d]
      /\ key[1] \in Given[Home[c]] /\ key[1] \in Given[Home[d]]
      /\ Home[c] \in Proxy /\ Home[d] \in Proxy
  BY RelayAssumption DEF Keys
<1>2. Home[c] = Home[d]
  BY <1>1 DEF Given, Server
<1> QED BY <1>1, <1>2 DEF NumbersInv

\* Where a key brings an answer
LEMMA KeyLeads ==
  ASSUME TypeIds, NEW c \in Client, NEW key \in Key, key \in Keys[c], NEW s \in Server
  PROVE  /\ key[1] \in DOMAIN proxies[s] /\ proxies[s][key[1]] \in Link
         /\ proxies[s][key[1]][1] = Home[c] /\ proxies[s][key[1]][2] = s
<1>1. key[1] \in Given[Home[c]] /\ Home[c] \in Proxy
  BY RelayAssumption DEF Keys
<1>2. key[1] \in DOMAIN proxies[s] /\ proxies[s][key[1]][1] = Home[c] /\ proxies[s][key[1]][2] = s
  BY <1>1 DEF Given
<1>3. proxies[s] \in Maps(Nat, Link)
  BY DEF TypeIds
<1> QED BY <1>2, <1>3, MapsMember

\* Steps that give new ids and numbers and leave the messages alone
LEMMA MoreKeys ==
  ASSUME TypeIds, TypeFlow, TypePlay, FlowInv,
         \A c \in Client : Keys[c] \subseteq Keys'[c],
         \A s \in Server : \A i \in DOMAIN proxies[s] : proxies'[s][i] = proxies[s][i],
         UNCHANGED <<up, down, serverVars, asked, got, world>>
  PROVE  TypeFlow' /\ TypePlay' /\ FlowInv'
<1> USE DEF serverVars
<1>1. TypeFlow' /\ TypePlay' /\ queues' = queues
  BY DEF TypeFlow, TypePlay, queues
<1>2. UpInv'
  <2>1. ASSUME NEW k \in Link, NEW m \in ToSet(up[k])
        PROVE  m \in Msg /\ m.client \in Client
    BY MessageTypes
  <2> QED BY <2>1 DEF FlowInv, MessagesInv, UpInv
<1>3. QueueInv'
  <2>1. ASSUME NEW s \in Server, NEW key \in Key, NEW m \in ToSet(queues[s][key])
        PROVE  m \in Msg /\ m.client \in Client
    BY MessageTypes
  <2> QED BY <1>1, <2>1 DEF FlowInv, MessagesInv, QueueInv
<1>4. DownInv'
  <2>1. ASSUME NEW k \in Link, NEW m \in ToSet(down[k])
        PROVE  m \in Msg /\ m.client \in Client /\ m.key \in Key /\ k[2] \in Server
    BY MessageTypes
  <2>2. ASSUME NEW k \in Link, NEW m \in ToSet(down[k])
        PROVE  m.key[1] \in DOMAIN proxies[k[2]]
    BY <2>1, KeyLeads DEF FlowInv, MessagesInv, DownInv
  <2> QED BY <2>1, <2>2 DEF FlowInv, MessagesInv, DownInv
<1>5. GotInv' /\ SendingInv'
  BY <1>1 DEF FlowInv, MessagesInv, GotInv, SendingInv
<1>6. PlayersInv'
  BY DEF FlowInv, PlayersInv
<1>7. OrderInv'
  BY <1>1 DEF FlowInv, OrderInv, UpOrder, QueueOrder, DownOrder, GotOrder
<1> QED BY <1>1, <1>2, <1>3, <1>4, <1>5, <1>6, <1>7 DEF FlowInv, MessagesInv

-----------------------------------------------------------------------------
(* The initial states                                                      *)

LEMMA JoinExists ==
  ASSUME IdRules
  PROVE  /\ Cardinality(Proxy) \in Nat
         /\ \E f \in [Proxy -> 1..Cardinality(Proxy)] : IsInjective(f)
<1>1. Cardinality(Proxy) \in Nat /\ ExistsBijection(1..Cardinality(Proxy), Proxy)
  BY FS_CardinalityType DEF IdRules
<1>2. ExistsBijection(Proxy, 1..Cardinality(Proxy))
  BY <1>1, Fun_ExistsBijSymmetric
<1> QED BY <1>1, <1>2 DEF ExistsBijection, Bijection, Injection

\* An id is a proxy's if both servers find the proxy under it.
LEMMA GivenMember ==
  ASSUME NEW p \in Proxy, NEW i
  PROVE  i \in Given[p] <=> /\ i \in Nat
                            /\ \A s \in Server : /\ i \in DOMAIN proxies[s]
                                                 /\ proxies[s][i][1] = p /\ proxies[s][i][2] = s
BY DEF Given

LEMMA IdsInit ==
  ASSUME IdRules, Init
  PROVE  TypeIds /\ TypeClients /\ IdsInv
<1> DEFINE n == Cardinality(Proxy)
           join == CHOOSE f \in [Proxy -> 1..n] : IsInjective(f)
<1>1. /\ proxyID = join
      /\ proxies = [s \in Server |-> [i \in Range(join) |-> <<CHOOSE p \in Proxy : join[p] = i, s, 1>>]]
      /\ world \in Worlds
      /\ maxID = IF "pm" \in world.events THEN 0 ELSE n
      /\ curID = [p \in Proxy |-> 0] /\ clientID = [c \in Client |-> 0]
      /\ state = [c \in Client |-> "out"]
      /\ clients = [p \in Proxy |-> <<>>]
      /\ servers = [p \in Proxy |-> [s \in Server |-> <<p, s, 1>>]]
      /\ alive = Proxy \X Server \X {1} /\ used = alive
  BY DEF Init
<1>2. n \in Nat /\ join \in [Proxy -> 1..n] /\ IsInjective(join)
  BY JoinExists
<1>3. /\ \A p \in Proxy : join[p] \in Range(join)
      /\ \A i \in Range(join) : i \in 1..n /\ \E p \in Proxy : join[p] = i
      /\ \A p, q \in Proxy : join[p] = join[q] => p = q
  <2> HIDE DEF join
  <2> QED BY <1>2 DEF Range, IsInjective
<1>4. ASSUME NEW s \in Server
      PROVE  /\ DOMAIN proxies[s] = Range(join) /\ proxies[s] = [i \in Range(join) |-> proxies[s][i]]
             /\ \A p \in Proxy : proxies[s][join[p]] = <<p, s, 1>>
  <2>1. /\ DOMAIN proxies[s] = Range(join) /\ proxies[s] = [i \in Range(join) |-> proxies[s][i]]
        /\ \A i \in Range(join) : proxies[s][i] = <<CHOOSE p \in Proxy : join[p] = i, s, 1>>
    <3> HIDE DEF join
    <3> QED BY <1>1
  <2>2. ASSUME NEW p \in Proxy
        PROVE  (CHOOSE q \in Proxy : join[q] = join[p]) = p
    <3> HIDE DEF join
    <3> QED BY <1>3
  <2> HIDE DEF join
  <2> QED BY <1>3, <2>1, <2>2
<1> HIDE DEF n, join
<1>5. maxID = n
  BY <1>1 DEF IdRules
<1>6. 1 \in 1..MaxLink
  BY RelayAssumption
<1>7. TypeIds
  <2>1. ASSUME NEW s \in Server
        PROVE  proxies[s] \in Maps(Nat, Link)
    <3>1. ASSUME NEW i \in Range(join)
          PROVE  i \in Nat /\ proxies[s][i] \in Link
      <4>1. PICK p \in Proxy : join[p] = i
        BY <1>3
      <4>2. proxies[s][i] = <<p, s, 1>>
        BY <1>4, <4>1
      <4>3. i \in Nat
        BY <1>2, <1>3
      <4> QED BY <1>6, <4>2, <4>3 DEF Link
    <3> QED BY <1>4, <3>1, MapsMember
  <2>2. ASSUME NEW p \in Proxy
        PROVE  servers[p] \in Maps(Server, Link)
    BY <1>1, <1>6, MapsMember, ZenonT(30) DEF Link
  <2>3. proxies = [s \in Server |-> proxies[s]] /\ servers = [p \in Proxy |-> servers[p]]
    BY <1>1
  <2>4. proxyID \in [Proxy -> Nat] /\ maxID \in Nat
    BY <1>1, <1>2, <1>5
  <2>5. alive \subseteq Link /\ used \subseteq Link
    BY <1>1, <1>6 DEF Link
  <2> QED BY <2>1, <2>2, <2>3, <2>4, <2>5 DEF TypeIds
<1>8. TypeClients
  <2>1. <<>> \in Maps(Nat, Client)
    BY EmptyMap
  <2> QED BY <1>1, <2>1 DEF TypeClients
<1>9. IdsInv
  <2>1. ASSUME NEW p \in Proxy
        PROVE  join[p] \in Given[p]
    <3>1. join[p] \in Nat
      BY <1>2, <1>3
    <3>2. ASSUME NEW s \in Server
          PROVE  /\ join[p] \in DOMAIN proxies[s]
                 /\ proxies[s][join[p]][1] = p /\ proxies[s][join[p]][2] = s
      <4>1. proxies[s][join[p]] = <<p, s, 1>> /\ DOMAIN proxies[s] = Range(join)
        BY <1>4
      <4> QED BY <1>3, <4>1
    <3> QED BY <3>1, <3>2, GivenMember
  <2>2. ASSUME NEW s \in Server, NEW i \in DOMAIN proxies[s]
        PROVE  i <= maxID /\ \E p \in Proxy : i \in Given[p]
    <3>1. PICK p \in Proxy : i = join[p] /\ i \in Range(join)
      BY <1>3, <1>4
    <3> QED BY <1>2, <1>3, <1>5, <2>1, <3>1
  <2> QED BY <1>1, <2>1, <2>2 DEF IdsInv
<1> QED BY <1>7, <1>8, <1>9

LEMMA RelayInit ==
  ASSUME RelayRules, Init
  PROVE  RelayInv
<1>1. TypeIds /\ TypeClients /\ IdsInv
  BY IdsInit DEF RelayRules
<1>2. TypeFlow /\ TypePlay
  <2>1. <<>> \in Maps(Key, Session)
    BY EmptyMap
  <2>2. up \in [Link -> Seq(Msg)] /\ down \in [Link -> Seq(Msg)]
    BY DEF Init
  <2>3. sending \in [Server -> [key : Key \cup {<<>>}, count : Nat]]
    BY DEF Init, NoBatch
  <2>4. asked \in [Client -> Seq(Asked)] /\ got \in [Client -> Seq(Msg)]
    BY DEF Init
  <2>5. sessions \in [Server -> Maps(Key, Session)]
    BY <2>1 DEF Init
  <2>6. TypePlay
    BY DEF Init, TypePlay
  <2> QED BY <2>2, <2>3, <2>4, <2>5, <2>6 DEF TypeFlow
<1>3. NumbersInv
  <2>1. /\ \A p \in Proxy : clients[p] = <<>> /\ DOMAIN <<>> = {}
        /\ \A c \in Client : state[c] = "out"
    BY DEF Init
  <2> QED BY <2>1 DEF NumbersInv
<1>4. FlowInv
  <2>1. /\ \A k \in Link : up[k] = <<>> /\ down[k] = <<>>
        /\ \A c \in Client : got[c] = <<>>
        /\ \A s \in Server : \A key \in Key : queues[s][key] = <<>>
    BY DEF Init, queues
  <2>2. MessagesInv
    BY <2>1 DEF MessagesInv, UpInv, QueueInv, DownInv, GotInv, ToSet
  <2>3. OrderInv
    <3>1. ToSet(<<>>) = {} /\ Ordered(asked, <<>>) /\ OrderedByKey(asked, <<>>)
      BY DEF ToSet, Ordered, OrderedByKey
    <3>2. ASSUME NEW x \in Nat
          PROVE  After(<<>>, x) = {}
      BY DEF After
    <3>3. ASSUME NEW s \in Server, NEW key \in Key
          PROVE  Written(sending[s], key) \in Nat
      BY <1>2 DEF TypeFlow, Written
    <3> QED BY <2>1, <3>1, <3>2, <3>3 DEF OrderInv, UpOrder, QueueOrder, DownOrder, GotOrder
  <2>4. PlayersInv /\ SendingInv
    BY DEF Init, PlayersInv, SendingInv, NoBatch, Server
  <2> QED BY <2>2, <2>3, <2>4 DEF FlowInv
<1> QED BY <1>1, <1>2, <1>3, <1>4 DEF RelayInv, TypeInv, FlowInv

-----------------------------------------------------------------------------
(* Ids and numbers                                                         *)

\* A step after which the same proxies own the same ids
LEMMA SameIds ==
  ASSUME UNCHANGED <<proxyID, maxID, servers, linkVars>>
  PROVE  (TypeIds => TypeIds') /\ (IdsInv => IdsInv') /\ Given' = Given
BY DEF linkVars, TypeIds, IdsInv, Given

\* ... and the clients have their numbers
LEMMA SameNumbers ==
  ASSUME UNCHANGED <<curID, clientID, state, clients, world>>
  PROVE  (TypeClients => TypeClients') /\ (NumbersInv => NumbersInv')
BY DEF TypeClients, NumbersInv

\* A client gets a number, and with the ids of its proxy its keys.
LEMMA CreateNumbers ==
  ASSUME TypeClients, NEW c \in Client, Create(c)
  PROVE  LET p == Home[c]
             id == (curID[p] + 1) % IdMod
         IN /\ c \in world.clients /\ state[c] = "out" /\ p \in Proxy /\ MayTake(p, id)
            /\ \A d \in Client : d # c => state'[d] = state[d] /\ clientID'[d] = clientID[d]
            /\ state'[c] = "open" /\ clientID'[c] = id
            /\ \A q \in Proxy : q # p => clients'[q] = clients[q]
            /\ clients'[p] = Insert(clients[p], id, c)
            /\ TypeClients' /\ Given' = Given /\ \A d \in Client : Keys[d] \subseteq Keys'[d]
<1> DEFINE p == Home[c]
           id == (curID[p] + 1) % IdMod
<1>1. /\ c \in world.clients /\ state[c] = "out" /\ p \in Proxy /\ MayTake(p, id)
      /\ curID' = [curID EXCEPT ![p] = @ + 1]
      /\ clientID' = [clientID EXCEPT ![c] = id]
      /\ clients' = [clients EXCEPT ![p] = Insert(@, id, c)]
      /\ state' = [state EXCEPT ![c] = "open"]
      /\ UNCHANGED <<proxyID, maxID, servers, linkVars, up, down, serverVars, asked, got>>
  BY RelayAssumption DEF Create
<1>2. Given' = Given
  BY <1>1 DEF Given, linkVars
<1>3. /\ curID \in [Proxy -> Nat] /\ clientID \in [Client -> Nat]
      /\ state \in [Client -> {"out", "open", "in", "refused", "left"}]
      /\ clients \in [Proxy -> Maps(Nat, Client)]
  BY DEF TypeClients
<1>4. id \in Nat
  BY <1>1, <1>3, RelayAssumption
<1> HIDE DEF p, id
<1>5. Insert(clients[p], id, c) \in Maps(Nat, Client)
  <2>1. clients[p] \in Maps(Nat, Client)
    BY <1>1, <1>3
  <2> QED BY <1>4, <2>1, InsertProperties, Zenon
<1>6. TypeClients'
  <2>1. curID' \in [Proxy -> Nat]
    BY <1>1, <1>3
  <2>2. clientID' \in [Client -> Nat]
    BY <1>1, <1>3, <1>4
  <2>3. state' \in [Client -> {"out", "open", "in", "refused", "left"}]
    BY <1>1, <1>3
  <2>4. clients' \in [Proxy -> Maps(Nat, Client)]
    BY <1>1, <1>3, <1>5
  <2> QED BY <2>1, <2>2, <2>3, <2>4 DEF TypeClients
<1>7. /\ \A d \in Client : d # c => state'[d] = state[d] /\ clientID'[d] = clientID[d]
      /\ state'[c] = "open" /\ clientID'[c] = id
      /\ \A q \in Proxy : q # p => clients'[q] = clients[q]
      /\ clients'[p] = Insert(clients[p], id, c)
  BY <1>1, <1>3, <1>4
<1>8. ASSUME NEW d \in Client
      PROVE  Keys[d] \subseteq Keys'[d]
  BY <1>1, <1>2, <1>7 DEF Keys
<1> QED BY <1>1, <1>2, <1>6, <1>7, <1>8 DEF p, id

LEMMA CreateStep ==
  ASSUME RelayRules, RelayInv, NEW c \in Client, Create(c), UNCHANGED world
  PROVE  RelayInv'
<1> DEFINE p == Home[c]
           id == (curID[p] + 1) % IdMod
<1>1. TypeInv /\ IdsInv /\ NumbersInv /\ FlowInv /\ TypeIds /\ TypeClients /\ TypeFlow /\ TypePlay
  BY DEF RelayInv, TypeInv, FlowInv
<1>2. UNCHANGED <<proxyID, maxID, servers, linkVars, up, down, serverVars, asked, got>>
  BY DEF Create
<1>3. /\ c \in world.clients /\ state[c] = "out" /\ p \in Proxy /\ MayTake(p, id)
      /\ \A d \in Client : d # c => state'[d] = state[d] /\ clientID'[d] = clientID[d]
      /\ state'[c] = "open" /\ clientID'[c] = id
      /\ \A q \in Proxy : q # p => clients'[q] = clients[q]
      /\ clients'[p] = Insert(clients[p], id, c)
      /\ TypeClients' /\ Given' = Given /\ \A d \in Client : Keys[d] \subseteq Keys'[d]
  BY <1>1, CreateNumbers
<1>4. Had(p, id) = {}
  <2>1. "wrap" \notin world.events
    BY <1>1 DEF TypePlay, RelayRules
  <2> QED BY <1>3, <2>1 DEF MayTake
<1> HIDE DEF p, id
<1>5. TypeIds' /\ IdsInv'
  BY <1>1, <1>2, SameIds
<1>6. NumbersInv'
  <2>2. ASSUME NEW d \in Client, state'[d] # "out"
        PROVE  d \in world'.clients
    BY <1>3, <1>1, <2>2 DEF NumbersInv
  <2>3. ASSUME NEW d \in Client, state[d] # "out", Home[d] = p
        PROVE  clientID[d] # id
    BY <1>4, <2>3 DEF Had
  <2>4. ASSUME NEW d \in Client, NEW e \in Client,
               state'[d] # "out", state'[e] # "out", Home[d] = Home[e], clientID'[d] = clientID'[e]
        PROVE  d = e
    <3>1. CASE d # c /\ e # c
      BY <1>1, <1>3, <2>4, <3>1 DEF NumbersInv
    <3>2. CASE d = c /\ e # c
      BY <1>3, <2>3, <2>4, <3>2 DEF p
    <3>3. CASE d # c /\ e = c
      BY <1>3, <2>3, <2>4, <3>3 DEF p
    <3> QED BY <3>1, <3>2, <3>3
  <2>5. ASSUME NEW q \in Proxy, NEW n \in DOMAIN clients[q]
        PROVE  /\ clients[q][n] \in Client /\ clients[q][n] # c
               /\ Home[clients[q][n]] = q /\ state[clients[q][n]] # "out"
               /\ clientID[clients[q][n]] = n
    <3>1. Home[clients[q][n]] = q /\ state[clients[q][n]] # "out" /\ clientID[clients[q][n]] = n
      BY <1>1, <2>5 DEF NumbersInv
    <3>2. clients[q] \in Maps(Nat, Client)
      BY <1>1 DEF TypeClients
    <3>3. clients[q][n] \in Client
      BY <2>5, <3>2, MapsMember
    <3> QED BY <1>3, <3>1, <3>3
  <2>6. ASSUME NEW q \in Proxy, NEW n \in DOMAIN clients'[q]
        PROVE  /\ Home[clients'[q][n]] = q /\ state'[clients'[q][n]] # "out"
               /\ clientID'[clients'[q][n]] = n
    <3>1. CASE q # p \/ n # id
      <4>1. n \in DOMAIN clients[q] /\ clients'[q][n] = clients[q][n]
        BY <1>3, <2>6, <3>1 DEF Insert
      <4> QED BY <1>3, <2>5, <4>1
    <3>2. CASE q = p /\ n = id
      <4>1. id \notin DOMAIN clients[p]
        BY <1>3, <2>3, <2>5
      <4>2. clients'[q][n] = c
        BY <1>3, <3>2, <4>1 DEF Insert
      <4> QED BY <1>3, <3>2, <4>2 DEF p
    <3> QED BY <3>1, <3>2
  <2> QED BY <2>2, <2>4, <2>6 DEF NumbersInv
<1>7. TypeFlow' /\ TypePlay' /\ FlowInv'
  BY <1>1, <1>2, <1>3, MoreKeys DEF linkVars
<1> QED BY <1>3, <1>5, <1>6, <1>7 DEF RelayInv, TypeInv, FlowInv

\* A client of which the state changes after it got its number
LEMMA StateStep ==
  ASSUME TypeClients, NumbersInv, NEW c \in Client, NEW x \in {"in", "refused", "left"},
         state[c] # "out", state' = [state EXCEPT ![c] = x],
         clients' \in [Proxy -> Maps(Nat, Client)],
         \A p \in Proxy : \A n \in DOMAIN clients'[p] : n \in DOMAIN clients[p] /\ clients'[p][n] = clients[p][n],
         Given' = Given, UNCHANGED <<curID, clientID, world>>
  PROVE  TypeClients' /\ NumbersInv' /\ \A d \in Client : Keys[d] \subseteq Keys'[d]
<1>1. state \in [Client -> {"out", "open", "in", "refused", "left"}]
  BY DEF TypeClients
<1>2. \A d \in Client : state'[d] # "out" <=> state[d] # "out"
  BY <1>1
<1>3. TypeClients'
  <2>1. state' \in [Client -> {"out", "open", "in", "refused", "left"}]
    BY <1>1
  <2> QED BY <2>1 DEF TypeClients
<1>5. ASSUME NEW p \in Proxy, NEW n \in DOMAIN clients'[p]
      PROVE  /\ Home[clients'[p][n]] = p /\ state'[clients'[p][n]] # "out"
             /\ clientID'[clients'[p][n]] = n
  <2>1. n \in DOMAIN clients[p] /\ clients'[p][n] = clients[p][n]
    BY <1>5
  <2>2. clients[p] \in Maps(Nat, Client)
    BY DEF TypeClients
  <2>3. clients[p][n] \in Client
    BY <2>1, <2>2, MapsMember
  <2> QED BY <1>2, <2>1, <2>3 DEF NumbersInv
<1>6. NumbersInv'
  BY <1>2, <1>5 DEF NumbersInv
<1>7. \A d \in Client : Keys[d] \subseteq Keys'[d]
  BY <1>2 DEF Keys
<1> QED BY <1>3, <1>6, <1>7

LEMMA ReadCodeStep ==
  ASSUME RelayInv, NEW c \in Client, ReadCode(c), UNCHANGED world
  PROVE  RelayInv'
<1>1. /\ TypeIds /\ TypeClients /\ TypeFlow /\ TypePlay /\ IdsInv /\ NumbersInv /\ FlowInv
      /\ clients \in [Proxy -> Maps(Nat, Client)]
  BY DEF RelayInv, TypeInv, FlowInv, TypeClients
<1>2. /\ state[c] # "out" /\ \E x \in {"in", "refused", "left"} : state' = [state EXCEPT ![c] = x]
      /\ UNCHANGED <<proxyID, maxID, curID, clientID, clients, servers, linkVars, up, down,
                     serverVars, asked, got>>
  BY DEF ReadCode
<1>3. TypeIds' /\ IdsInv' /\ Given' = Given
  BY <1>1, <1>2, SameIds
<1>4. TypeClients' /\ NumbersInv' /\ \A d \in Client : Keys[d] \subseteq Keys'[d]
  BY <1>1, <1>2, <1>3, StateStep
<1>5. TypeFlow' /\ TypePlay' /\ FlowInv'
  BY <1>1, <1>2, <1>4, MoreKeys DEF linkVars
<1> QED BY <1>3, <1>4, <1>5 DEF RelayInv, TypeInv, FlowInv

LEMMA LeaveStep ==
  ASSUME RelayInv, NEW c \in Client, Leave(c), UNCHANGED world
  PROVE  RelayInv'
<1> DEFINE p == Home[c]
           rest == Erase(clients[p], clientID[c])
<1>1. /\ TypeIds /\ TypeClients /\ TypeFlow /\ TypePlay /\ IdsInv /\ NumbersInv /\ FlowInv
      /\ clients \in [Proxy -> Maps(Nat, Client)] /\ p \in Proxy
  BY RelayAssumption DEF RelayInv, TypeInv, FlowInv, TypeClients
<1>2. /\ state[c] # "out" /\ state' = [state EXCEPT ![c] = "left"]
      /\ clients' = [clients EXCEPT ![p] = rest]
      /\ UNCHANGED <<proxyID, maxID, curID, clientID, servers, linkVars, up, down,
                     serverVars, asked, got>>
  BY DEF Leave
<1>3. rest \in Maps(Nat, Client)
  BY <1>1, EraseProperties
<1>4. DOMAIN rest \subseteq DOMAIN clients[p] /\ \A n \in DOMAIN rest : rest[n] = clients[p][n]
  BY DEF Erase
<1> HIDE DEF p, rest
<1>5. /\ clients' \in [Proxy -> Maps(Nat, Client)]
      /\ \A q \in Proxy : \A n \in DOMAIN clients'[q] :
            n \in DOMAIN clients[q] /\ clients'[q][n] = clients[q][n]
  BY <1>1, <1>2, <1>3, <1>4
<1>6. TypeIds' /\ IdsInv' /\ Given' = Given
  BY <1>1, <1>2, SameIds
<1>7. TypeClients' /\ NumbersInv' /\ \A d \in Client : Keys[d] \subseteq Keys'[d]
  BY <1>1, <1>2, <1>5, <1>6, StateStep
<1>8. TypeFlow' /\ TypePlay' /\ FlowInv'
  BY <1>1, <1>2, <1>7, MoreKeys DEF linkVars
<1> QED BY <1>6, <1>7, <1>8 DEF RelayInv, TypeInv, FlowInv

\* The connection that a proxy makes when it joins again is a new one.
LEMMA NextLink ==
  ASSUME TypeIds, NEW p \in Proxy
  PROVE  Cardinality({k \in used : k[1] = p /\ k[2] = "role"}) \in Nat
<1> DEFINE S == {k \in used : k[1] = p /\ k[2] = "role"}
           f == [k \in S |-> k[3]]
<1>1. ASSUME NEW k \in S
      PROVE  k = <<p, "role", k[3]>> /\ k[3] \in 1..MaxLink
  BY DEF TypeIds, Link
<1>2. f \in Injection(S, 1..MaxLink)
  BY <1>1 DEF Injection, IsInjective
<1>3. IsFiniteSet(1..MaxLink)
  BY FS_Interval, RelayAssumption
<1> HIDE DEF S, f
<1>4. IsFiniteSet(S)
  BY <1>2, <1>3, FS_Injection
<1> QED BY <1>4, FS_CardinalityType DEF S

\* A proxy that joins again keeps its ids, and may get one that nobody had.
LEMMA RejoinIds ==
  ASSUME IdRules, TypeIds, IdsInv, world \in Worlds, NEW p \in Proxy, Rejoin(p)
  PROVE  /\ TypeIds' /\ IdsInv' /\ \A q \in Proxy : Given[q] \subseteq Given'[q]
         /\ \A s \in Server : \A i \in DOMAIN proxies[s] : proxies'[s][i] = proxies[s][i]
         /\ \A q \in Proxy \ {p} : proxyID'[q] = proxyID[q]
         /\ proxyID'[p] \in {proxyID[p], maxID + 1}
<1> DEFINE n == 1 + Cardinality({k \in used : k[1] = p /\ k[2] = "role"})
<1>1. /\ TypeIds /\ IdsInv
      /\ proxyID \in [Proxy -> Nat] /\ maxID \in Nat
      /\ servers \in [Proxy -> Maps(Server, Link)]
      /\ proxies \in [Server -> Maps(Nat, Link)]
      /\ alive \subseteq Link /\ used \subseteq Link
  BY DEF TypeIds
<1>2. PICK id \in {maxID + 1} \cup {proxyID[p]} :
        /\ maxID' = IF id = maxID + 1 THEN id ELSE maxID
        /\ proxyID' = [proxyID EXCEPT ![p] = id]
        /\ proxies' = [s \in Server |-> Insert(proxies[s], id, <<p, s, n>>)]
  BY DEF Rejoin, IdRules
<1>3. /\ n <= MaxLink
      /\ servers' = [servers EXCEPT ![p] = [s \in Server |-> IF s \in DOMAIN @ THEN @[s] ELSE <<p, s, n>>]]
      /\ alive' = alive \cup ({p} \X Server \X {n}) /\ used' = used \cup alive'
  BY DEF Rejoin
<1>4. n \in 1..MaxLink /\ \A s \in Server : <<p, s, n>> \in Link
  BY <1>1, <1>3, NextLink, RelayAssumption DEF Link
<1> HIDE DEF n
<1>5. id \in Nat /\ id <= maxID' /\ maxID' \in Nat /\ maxID <= maxID'
  <2>1. proxyID[p] \in Given[p]
    BY <1>1 DEF IdsInv
  <2>2. proxyID[p] \in DOMAIN proxies["role"]
    BY <2>1, GivenMember DEF Server
  <2>3. proxyID[p] <= maxID
    BY <1>1, <2>2 DEF IdsInv, Server
  <2> QED BY <1>1, <1>2, <2>3
<1>6. ASSUME NEW s \in Server
      PROVE  /\ proxies'[s] \in Maps(Nat, Link)
             /\ DOMAIN proxies'[s] = DOMAIN proxies[s] \cup {id}
             /\ \A x \in DOMAIN proxies[s] : proxies'[s][x] = proxies[s][x]
             /\ id \notin DOMAIN proxies[s] => proxies'[s][id] = <<p, s, n>>
  <2>1. proxies'[s] = Insert(proxies[s], id, <<p, s, n>>)
    BY <1>2
  <2>2. Insert(proxies[s], id, <<p, s, n>>) \in Maps(Nat, Link)
    <3>1. proxies[s] \in Maps(Nat, Link) /\ id \in Nat /\ <<p, s, n>> \in Link
      BY <1>1, <1>4, <1>5
    <3> QED BY <3>1, InsertProperties, Zenon
  <2>3. /\ DOMAIN Insert(proxies[s], id, <<p, s, n>>) = DOMAIN proxies[s] \cup {id}
        /\ \A x \in DOMAIN proxies[s] : Insert(proxies[s], id, <<p, s, n>>)[x] = proxies[s][x]
        /\ id \notin DOMAIN proxies[s] => Insert(proxies[s], id, <<p, s, n>>)[id] = <<p, s, n>>
    BY DEF Insert
  <2> QED BY <2>1, <2>2, <2>3
<1>7. \A q \in Proxy : Given[q] \subseteq Given'[q]
  BY <1>6 DEF Given
<1>8. id \in Given'[p]
  <2>1. CASE id = proxyID[p]
    BY <1>1, <1>7, <2>1 DEF IdsInv
  <2>2. CASE id = maxID + 1
    <3>1. ASSUME NEW s \in Server
          PROVE  /\ id \in DOMAIN proxies'[s] /\ proxies'[s][id][1] = p /\ proxies'[s][id][2] = s
      <4>1. id \notin DOMAIN proxies[s]
        BY <1>1, <2>2 DEF IdsInv
      <4> QED BY <1>6, <4>1
    <3> QED BY <1>5, <3>1 DEF Given
  <2> QED BY <1>2, <2>1, <2>2
<1>9. ASSUME NEW q \in Proxy
      PROVE  /\ servers'[q] \in Maps(Server, Link)
             /\ \A s \in DOMAIN servers'[q] : servers'[q][s][1] = q /\ servers'[q][s][2] = s
  <2>1. /\ servers[q] \in Maps(Server, Link)
        /\ \A s \in DOMAIN servers[q] : servers[q][s][1] = q /\ servers[q][s][2] = s
    BY <1>1 DEF IdsInv
  <2>2. CASE q # p
    BY <1>1, <1>3, <2>1, <2>2
  <2>3. CASE q = p
    <3>1. servers'[p] = [s \in Server |-> IF s \in DOMAIN servers[p] THEN servers[p][s] ELSE <<p, s, n>>]
      BY <1>1, <1>3
    <3>2. \A s \in DOMAIN servers[p] : servers[p][s] \in Link
      BY <2>1, <2>3, MapsMember
    <3>3. \A s \in Server : servers'[p][s] \in Link /\ servers'[p][s][1] = p /\ servers'[p][s][2] = s
      BY <1>4, <2>1, <2>3, <3>1, <3>2
    <3>4. servers'[p] \in [Server -> Link]
      BY <3>1, <3>3
    <3>5. servers'[p] \in Maps(Server, Link)
      BY <3>4 DEF Maps
    <3> QED BY <2>3, <3>1, <3>3, <3>5
  <2> QED BY <2>2, <2>3
<1>10. TypeIds'
  <2>1. proxyID' \in [Proxy -> Nat]
    BY <1>1, <1>2, <1>5
  <2>2. servers' \in [Proxy -> Maps(Server, Link)]
    BY <1>1, <1>3, <1>9
  <2>3. proxies' \in [Server -> Maps(Nat, Link)]
    BY <1>2, <1>6
  <2>4. alive' \subseteq Link /\ used' \subseteq Link
    BY <1>1, <1>3, <1>4
  <2> QED BY <1>5, <2>1, <2>2, <2>3, <2>4 DEF TypeIds
<1>11. IdsInv'
  <2>1. ASSUME NEW s \in Server, NEW i \in DOMAIN proxies'[s]
        PROVE  i <= maxID' /\ \E q \in Proxy : i \in Given'[q]
    <3>1. CASE i = id
      BY <1>5, <1>8, <3>1
    <3>2. CASE i # id
      <4>1. i \in DOMAIN proxies[s] /\ i \in Nat
        BY <1>1, <1>6, <2>1, <3>2, MapsMember
      <4>2. i <= maxID /\ \E q \in Proxy : i \in Given[q]
        BY <1>1, <4>1 DEF IdsInv
      <4> QED BY <1>1, <1>5, <1>7, <4>1, <4>2
    <3> QED BY <3>1, <3>2
  <2>2. ASSUME NEW q \in Proxy
        PROVE  proxyID'[q] \in Given'[q]
    BY <1>1, <1>2, <1>7, <1>8 DEF IdsInv
  <2> QED BY <1>9, <2>1, <2>2 DEF IdsInv
<1>12. /\ \A q \in Proxy \ {p} : proxyID'[q] = proxyID[q]
       /\ proxyID'[p] \in {proxyID[p], maxID + 1}
  BY <1>1, <1>2
<1> QED BY <1>6, <1>7, <1>10, <1>11, <1>12

LEMMA RejoinStep ==
  ASSUME RelayRules, RelayInv, NEW p \in Proxy, Rejoin(p), UNCHANGED world
  PROVE  RelayInv'
<1>1. TypeIds /\ TypeClients /\ TypeFlow /\ TypePlay /\ IdsInv /\ NumbersInv /\ FlowInv
  BY DEF RelayInv, TypeInv, FlowInv
<1>2. UNCHANGED <<curID, clientID, state, clients, up, down, serverVars, asked, got>>
  BY DEF Rejoin
<1>3. /\ TypeIds' /\ IdsInv' /\ \A q \in Proxy : Given[q] \subseteq Given'[q]
      /\ \A s \in Server : \A i \in DOMAIN proxies[s] : proxies'[s][i] = proxies[s][i]
  BY <1>1, RejoinIds DEF RelayRules, TypePlay
<1>4. TypeClients' /\ NumbersInv'
  BY <1>1, <1>2, SameNumbers
<1>5. \A c \in Client : Keys[c] \subseteq Keys'[c]
  BY <1>2, <1>3, RelayAssumption DEF Keys
<1>6. TypeFlow' /\ TypePlay' /\ FlowInv'
  BY <1>1, <1>2, <1>3, <1>5, MoreKeys
<1> QED BY <1>3, <1>4, <1>6 DEF RelayInv, TypeInv, FlowInv

-----------------------------------------------------------------------------
(* Connections, questions and answers                                      *)

LEMMA SameKeys ==
  ASSUME UNCHANGED <<state, clientID, proxies>>
  PROVE  Keys' = Keys /\ Given' = Given
<1>1. Given' = Given
  BY DEF Given
<1> QED BY <1>1 DEF Keys

LEMMA NoMessages ==
  ToSet(<<>>) = {} /\ \A a : Ordered(a, <<>>) /\ OrderedByKey(a, <<>>)
BY DEF ToSet, Ordered, OrderedByKey

LEMMA BreakIds ==
  ASSUME TypeIds, IdsInv, NEW k \in Link, Break(k)
  PROVE  /\ TypeIds' /\ IdsInv' /\ Keys' = Keys /\ Given' = Given
         /\ \A q \in Proxy : \A s \in DOMAIN servers'[q] :
              s \in DOMAIN servers[q] /\ servers'[q][s] = servers[q][s] /\ k # <<q, s, k[3]>>
<1>1. /\ servers \in [Proxy -> Maps(Server, Link)] /\ alive \subseteq Link /\ k[1] \in Proxy
  BY DEF TypeIds, Link
<1>2. /\ alive' = alive \ {k}
      /\ servers' = [servers EXCEPT ![k[1]] = Erase(@, k[2])]
      /\ UNCHANGED <<proxyID, maxID, clientID, state, proxies, used>>
  BY DEF Break
<1>3. Erase(servers[k[1]], k[2]) \in Maps(Server, Link)
  BY <1>1, EraseProperties
<1>4. ASSUME NEW q \in Proxy
      PROVE  \A s \in DOMAIN servers'[q] :
               s \in DOMAIN servers[q] /\ servers'[q][s] = servers[q][s] /\ k # <<q, s, k[3]>>
  <2>1. CASE q = k[1]
    <3>1. servers'[q] = Erase(servers[q], k[2])
      BY <1>1, <1>2, <2>1
    <3> QED BY <3>1 DEF Erase
  <2>2. CASE q # k[1]
    BY <1>1, <1>2, <2>2
  <2> QED BY <2>1, <2>2
<1>5. TypeIds'
  <2>1. servers' \in [Proxy -> Maps(Server, Link)]
    BY <1>1, <1>2, <1>3
  <2> QED BY <1>1, <1>2, <2>1 DEF TypeIds
<1>6. Keys' = Keys /\ Given' = Given
  BY <1>2, SameKeys
<1>7. IdsInv'
  BY <1>1, <1>2, <1>4, <1>6 DEF IdsInv
<1> QED BY <1>4, <1>5, <1>6, <1>7

LEMMA BreakStep ==
  ASSUME RelayInv, NEW k \in Link, Break(k), UNCHANGED world
  PROVE  RelayInv'
<1>1. /\ TypeIds /\ TypeClients /\ TypeFlow /\ TypePlay /\ IdsInv /\ NumbersInv /\ FlowInv
      /\ down \in [Link -> Seq(Msg)]
  BY DEF RelayInv, TypeInv, FlowInv, TypeFlow
<1>2. /\ down' = [down EXCEPT ![k] = <<>>]
      /\ UNCHANGED <<proxyID, maxID, curID, clientID, state, clients, proxies, used, up,
                     serverVars, asked, got>>
  BY DEF Break
<1>3. TypeIds' /\ IdsInv' /\ Keys' = Keys /\ Given' = Given
  BY <1>1, BreakIds
<1>4. TypeClients' /\ NumbersInv'
  BY <1>1, <1>2, SameNumbers
<1>5. TypeFlow' /\ TypePlay' /\ queues' = queues
  <2>1. down' \in [Link -> Seq(Msg)]
    BY <1>1, <1>2
  <2> QED BY <1>1, <1>2, <2>1 DEF TypeFlow, TypePlay, queues, serverVars
<1>6. \A l \in Link : down'[l] = down[l] \/ down'[l] = <<>>
  BY <1>1, <1>2
<1>7. ASSUME NEW l \in Link
       PROVE  /\ \A m \in ToSet(down'[l]) : m \in ToSet(down[l])
              /\ OrderedByKey(asked', down'[l])
  <2>1. OrderedByKey(asked, down[l])
    BY <1>1 DEF FlowInv, OrderInv, DownOrder
  <2> QED BY <1>2, <1>6, <2>1, NoMessages
<1>8. MessagesInv'
  <2>1. UpInv' /\ QueueInv' /\ GotInv'
    BY <1>1, <1>2, <1>3, <1>5 DEF FlowInv, MessagesInv, UpInv, QueueInv, GotInv
  <2>2. DownInv'
    BY <1>1, <1>2, <1>3, <1>7 DEF FlowInv, MessagesInv, DownInv
  <2> QED BY <2>1, <2>2 DEF MessagesInv
<1>9. PlayersInv' /\ SendingInv'
  BY <1>1, <1>2, <1>3, <1>5 DEF FlowInv, PlayersInv, SendingInv, serverVars
<1>10. OrderInv'
  <2>1. UpOrder'
    BY <1>1, <1>2, <1>5, <1>7 DEF FlowInv, OrderInv, UpOrder
  <2>2. QueueOrder'
    BY <1>1, <1>2, <1>5, <1>7 DEF FlowInv, OrderInv, QueueOrder, serverVars
  <2>3. DownOrder' /\ GotOrder'
    BY <1>1, <1>2, <1>5, <1>7 DEF FlowInv, OrderInv, DownOrder, GotOrder
  <2> QED BY <2>1, <2>2, <2>3 DEF OrderInv
<1> QED BY <1>3, <1>4, <1>5, <1>8, <1>9, <1>10 DEF RelayInv, TypeInv

\* A step that keeps the ids, the numbers and the users' players
LEMMA SameRest ==
  ASSUME TypeInv, IdsInv, NumbersInv, PlayersInv,
         UNCHANGED <<proxyVars, linkVars, sessions, player, acted, world>>
  PROVE  /\ TypeIds' /\ TypeClients' /\ TypePlay' /\ IdsInv' /\ NumbersInv' /\ PlayersInv'
         /\ Keys' = Keys /\ queues' = queues
<1>1. TypeIds' /\ IdsInv'
  BY SameIds DEF TypeInv, proxyVars
<1>2. TypeClients' /\ NumbersInv'
  BY SameNumbers DEF TypeInv, proxyVars
<1>3. Keys' = Keys
  BY SameKeys DEF proxyVars, linkVars
<1>4. TypePlay' /\ PlayersInv' /\ queues' = queues
  BY <1>3 DEF TypeInv, TypePlay, PlayersInv, queues
<1> QED BY <1>1, <1>2, <1>3, <1>4

\* Everything on the way is or answers a question that was asked.
LEMMA AllAsked ==
  ASSUME TypeFlow, MessagesInv
  PROVE  /\ \A k \in Link : \A m \in ToSet(up[k]) \cup ToSet(down[k]) : m \in Msg /\ InAsked(asked, m)
         /\ \A s \in Server : \A key \in Key : \A m \in ToSet(queues[s][key]) :
               m \in Msg /\ InAsked(asked, m)
         /\ \A c \in Client : \A m \in ToSet(got[c]) : m \in Msg /\ InAsked(asked, m)
BY MessageTypes DEF MessagesInv, UpInv, QueueInv, DownInv, GotInv, AskedAt, OverLink

LEMMA ReadClientStep ==
  ASSUME RelayInv, NEW c \in Client, NEW kind \in world.kinds, ReadClient(c, kind), UNCHANGED world
  PROVE  RelayInv'
<1> DEFINE p == Home[c]
           via == IF To(kind) \in DOMAIN servers[p] THEN {servers[p][To(kind)]} ELSE {}
           n == [key |-> <<proxyID[p], clientID[c]>>, client |-> c, num |-> Len(asked[c]) + 1,
                 kind |-> kind, user |-> world.user[c]]
           x == [kind |-> kind, via |-> via]
<1>1. /\ TypeInv /\ TypeIds /\ TypeClients /\ TypeFlow /\ TypePlay /\ IdsInv /\ NumbersInv
      /\ FlowInv /\ MessagesInv /\ PlayersInv /\ SendingInv /\ OrderInv
      /\ up \in [Link -> Seq(Msg)] /\ asked \in [Client -> Seq(Asked)] /\ p \in Proxy
      /\ proxyID[p] \in Nat /\ clientID[c] \in Nat
  BY RelayAssumption DEF RelayInv, TypeInv, FlowInv, TypeIds, TypeClients, TypeFlow
<1>2. /\ state[c] = "in"
      /\ asked' = [asked EXCEPT ![c] = Append(@, x)]
      /\ up' = [k \in Link |-> IF k \in via \cap alive THEN Append(up[k], n) ELSE up[k]]
      /\ UNCHANGED <<proxyVars, linkVars, down, serverVars, got>>
  BY DEF ReadClient
<1>3. /\ TypeIds' /\ TypeClients' /\ TypePlay' /\ IdsInv' /\ NumbersInv' /\ PlayersInv'
      /\ Keys' = Keys /\ queues' = queues
  BY <1>1, <1>2, SameRest DEF serverVars
<1>4. kind \in Kind /\ To(kind) \in Server /\ world.user[c] \in User
  BY <1>1, WorldTypes DEF To, Server
<1>5. \A k \in via : via = {k} /\ k \in Link /\ k[2] = To(kind)
  <2>1. CASE To(kind) \in DOMAIN servers[p]
    <3>1. servers[p] \in Maps(Server, Link)
      BY <1>1 DEF TypeIds
    <3>2. servers[p][To(kind)] \in Link
      BY <2>1, <3>1, MapsMember
    <3> QED BY <1>1, <2>1, <3>2 DEF IdsInv
  <2> QED BY <2>1
<1>6. n \in Msg /\ n.client = c /\ n.num = Len(asked[c]) + 1 /\ n.kind = kind /\ n.user = world.user[c]
  BY <1>1, <1>4 DEF Msg, Key
<1>7. n.key \in Keys[c]
  <2>1. proxyID[p] \in Given[p]
    BY <1>1 DEF IdsInv
  <2> QED BY <1>1, <1>2, <2>1 DEF Keys, Key
<1>8. x \in Asked /\ x.via = via
  BY <1>4, <1>5 DEF Asked
<1> HIDE DEF p, via, n, x
<1>9. ASSUME NEW m \in Msg, InAsked(asked, m)
      PROVE  /\ InAsked(asked', m) /\ ViaOf(asked', m) = ViaOf(asked, m)
             /\ m.client = n.client => m.num < n.num
  <2>1. InAsked(asked', m) /\ ViaOf(asked', m) = ViaOf(asked, m)
    BY <1>1, <1>2, <1>8, <1>9, AskMore
  <2>2. m.client = c => m.num \in 1..Len(asked[c]) /\ Len(asked[c]) \in Nat
    BY <1>1, <1>9 DEF InAsked
  <2> QED BY <1>6, <2>1, <2>2
<1>10. InAsked(asked', n) /\ ViaOf(asked', n) = via
  <2>1. asked[c] \in Seq(Asked) /\ asked'[c] = Append(asked[c], x)
    BY <1>1, <1>2
  <2> QED BY <1>6, <1>8, <2>1 DEF InAsked, ViaOf
<1>11. /\ \A m, l \in Msg : InAsked(asked, m) /\ InAsked(asked, l) /\ Before(asked, m, l) => Before(asked', m, l)
       /\ \A m \in Msg : InAsked(asked, m) => Before(asked', m, n)
  BY <1>9 DEF Before
<1>12. /\ \A m \in Msg : \A k \in Link : OverLink(asked, m, k) => OverLink(asked', m, k)
       /\ \A m \in Msg : \A s \in Server : AskedAt(asked, m, s) => AskedAt(asked', m, s)
  BY <1>9 DEF OverLink, AskedAt
<1>13. ASSUME NEW k \in Link
       PROVE  \/ up'[k] = up[k]
              \/ k \in via /\ up'[k] = Append(up[k], n) /\ ToSet(up'[k]) = ToSet(up[k]) \cup {n}
  <2>1. up[k] \in Seq(Msg)
    BY <1>1
  <2>2. ToSet(Append(up[k], n)) = ToSet(up[k]) \cup {n}
    BY <1>6, <2>1, AppendToSet
  <2> QED BY <1>2, <2>2
<1>14. TypeFlow'
  <2>1. up' \in [Link -> Seq(Msg)]
    BY <1>1, <1>2, <1>6
  <2>2. asked' \in [Client -> Seq(Asked)]
    BY <1>1, <1>2, <1>8
  <2> QED BY <1>1, <1>2, <2>1, <2>2 DEF TypeFlow, serverVars
<1>15. UpInv'
  <2> SUFFICES ASSUME NEW k \in Link, NEW m \in ToSet(up'[k])
               PROVE  /\ m.key \in Keys[m.client] /\ m.user = world.user[m.client]
                      /\ OverLink(asked', m, k) /\ k[2] = To(m.kind)
    BY <1>3 DEF UpInv
  <2>1. CASE m \in ToSet(up[k])
    BY <1>1, <1>12, <2>1, AllAsked DEF MessagesInv, UpInv
  <2>2. CASE m = n /\ k \in via
    BY <1>5, <1>6, <1>7, <1>10, <2>2 DEF OverLink
  <2> QED BY <1>13, <2>1, <2>2
<1>16. QueueInv' /\ DownInv' /\ GotInv'
  <2>1. QueueInv'
    BY <1>1, <1>3, <1>12, AllAsked DEF MessagesInv, QueueInv
  <2>2. \A k \in Link : k[2] \in Server
    BY DEF Link
  <2>3. DownInv'
    BY <1>1, <1>2, <1>3, <1>12, <2>2, AllAsked DEF MessagesInv, DownInv, linkVars
  <2>4. GotInv'
    BY <1>1, <1>2, <1>3, <1>9, AllAsked DEF MessagesInv, GotInv
  <2> QED BY <2>1, <2>3, <2>4
<1>17. SendingInv'
  BY <1>1, <1>2, <1>3 DEF SendingInv, serverVars
<1>18. /\ \A q \in Seq(Msg) : (\A m \in ToSet(q) : InAsked(asked, m)) /\ Ordered(asked, q) => Ordered(asked', q)
       /\ \A q \in Seq(Msg) : (\A m \in ToSet(q) : InAsked(asked, m)) /\ OrderedByKey(asked, q)
             => OrderedByKey(asked', q)
  <2>1. ASSUME NEW q \in Seq(Msg), NEW i \in DOMAIN q
        PROVE  q[i] \in Msg /\ q[i] \in ToSet(q)
    BY DEF ToSet
  <2> QED BY <1>11, <2>1 DEF Ordered, OrderedByKey
<1>19. UpOrder'
  <2> SUFFICES ASSUME NEW k \in Link
               PROVE  /\ Ordered(asked', up'[k])
                      /\ \A l \in ToSet(up'[k]) :
                           /\ \A s \in Server : \A key \in Key : \A m \in ToSet(queues[s][key]) : Before(asked', m, l)
                           /\ \A j \in Link : \A m \in ToSet(down[j]) : Before(asked', m, l)
                           /\ \A d \in Client : \A m \in ToSet(got[d]) : Before(asked', m, l)
    BY <1>2, <1>3 DEF UpOrder
  <2>1. up[k] \in Seq(Msg) /\ Ordered(asked', up[k])
    BY <1>1, <1>18, AllAsked DEF OrderInv, UpOrder
  <2>2. Ordered(asked', up'[k])
    BY <1>1, <1>6, <1>11, <1>13, <2>1, AllAsked, OrderedAppend
  <2>3. ASSUME NEW l \in ToSet(up'[k])
        PROVE  /\ \A s \in Server : \A key \in Key : \A m \in ToSet(queues[s][key]) : Before(asked', m, l)
               /\ \A j \in Link : \A m \in ToSet(down[j]) : Before(asked', m, l)
               /\ \A d \in Client : \A m \in ToSet(got[d]) : Before(asked', m, l)
    <3>1. CASE l \in ToSet(up[k])
      BY <1>1, <1>11, <3>1, AllAsked DEF OrderInv, UpOrder
    <3>2. CASE l = n
      BY <1>1, <1>11, <3>2, AllAsked
    <3> QED BY <1>13, <2>3, <3>1, <3>2
  <2> QED BY <2>2, <2>3
<1>20. QueueOrder'
  <2> SUFFICES ASSUME NEW s \in Server, NEW key \in Key
               PROVE  /\ Ordered(asked', queues[s][key])
                      /\ \A l \in After(queues[s][key], Written(sending[s], key)) :
                           /\ \A j \in Link : \A m \in ToSet(down[j]) : m.key = key => Before(asked', m, l)
                           /\ \A d \in Client : \A m \in ToSet(got[d]) : m.key = key => Before(asked', m, l)
    BY <1>2, <1>3 DEF QueueOrder, serverVars
  <2>1. queues[s][key] \in Seq(Msg) /\ Written(sending[s], key) \in Nat
    BY <1>1, QueuesType DEF TypeFlow, Written
  <2>2. After(queues[s][key], Written(sending[s], key)) \subseteq ToSet(queues[s][key])
    BY <2>1, AfterProperties
  <2>3. Ordered(asked', queues[s][key])
    BY <1>1, <1>18, <2>1, AllAsked DEF OrderInv, QueueOrder
  <2> QED BY <1>1, <1>11, <2>2, <2>3, AllAsked DEF OrderInv, QueueOrder
<1>21. DownOrder' /\ GotOrder'
  <2>1. \A k \in Link : down[k] \in Seq(Msg) /\ \A d \in Client : got[d] \in Seq(Msg)
    BY <1>1 DEF TypeFlow
  <2>2. DownOrder'
    BY <1>1, <1>2, <1>11, <1>18, <2>1, AllAsked DEF OrderInv, DownOrder
  <2>3. \A d \in Client : got[d] \in Seq(Msg)
    BY <1>1 DEF TypeFlow
  <2>4. GotOrder'
    BY <1>1, <1>2, <1>18, <2>3, AllAsked DEF OrderInv, GotOrder
  <2> QED BY <2>2, <2>4
<1> QED BY <1>3, <1>14, <1>15, <1>16, <1>17, <1>19, <1>20, <1>21 DEF RelayInv, TypeInv, MessagesInv, OrderInv

\* The number of an answer is that of the client that asked.
LEMMA NumberFinds ==
  ASSUME TypeIds, TypeClients, NumbersInv, NEW c \in Client, NEW key \in Key, key \in Keys[c],
         NEW k \in Link, k = proxies[k[2]][key[1]], key[2] \in DOMAIN clients[k[1]]
  PROVE  clients[k[1]][key[2]] = c
<1> DEFINE d == clients[k[1]][key[2]]
<1>1. k[1] \in Proxy /\ k[2] \in Server
  BY DEF Link
<1>2. k[1] = Home[c] /\ state[c] # "out" /\ clientID[c] = key[2]
  BY <1>1, KeyLeads DEF Keys
<1>3. Home[d] = k[1] /\ state[d] # "out" /\ clientID[d] = key[2]
  BY <1>1 DEF NumbersInv
<1>4. d \in Client
  <2>1. clients[k[1]] \in Maps(Nat, Client)
    BY <1>1 DEF TypeClients
  <2> QED BY <2>1, MapsMember
<1> HIDE DEF d
<1>5. d = c
  BY <1>2, <1>3, <1>4 DEF NumbersInv
<1> QED BY <1>5 DEF d

\* Answers of different connections answer questions of different ones, if they
\* came under the same key.
LEMMA OtherLink ==
  ASSUME TypeFlow, MessagesInv, NEW k \in Link, NEW l \in Link, k # l,
         NEW m \in ToSet(down[k]), NEW n \in ToSet(down[l]), m.key = n.key
  PROVE  Before(asked, m, n)
<1>1. k = proxies[k[2]][m.key[1]] /\ l = proxies[l[2]][n.key[1]]
  BY DEF MessagesInv, DownInv
<1>2. k[2] # l[2]
  BY <1>1
<1>3. PICK i \in Link, j \in Link :
        ViaOf(asked, m) = {i} /\ i[2] = k[2] /\ ViaOf(asked, n) = {j} /\ j[2] = l[2]
  BY DEF MessagesInv, DownInv, AskedAt, OverLink
<1>4. ViaOf(asked, m) # ViaOf(asked, n)
  BY <1>2, <1>3
<1> QED BY <1>4 DEF Before

LEMMA ReadServerStep ==
  ASSUME RelayInv, NEW k \in Link, ReadServer(k), UNCHANGED world
  PROVE  RelayInv'
<1> DEFINE m == Head(down[k])
           c == m.client
<1>1. /\ TypeInv /\ TypeIds /\ TypeClients /\ TypeFlow /\ TypePlay /\ IdsInv /\ NumbersInv
      /\ FlowInv /\ MessagesInv /\ PlayersInv /\ SendingInv /\ OrderInv
      /\ down \in [Link -> Seq(Msg)] /\ got \in [Client -> Seq(Msg)]
  BY DEF RelayInv, TypeInv, FlowInv, TypeFlow
<1>2. /\ down[k] # <<>>
      /\ down' = [down EXCEPT ![k] = Tail(@)]
      /\ got' = IF m.key[2] \in DOMAIN clients[k[1]]
                THEN [got EXCEPT ![clients[k[1]][m.key[2]]] = Append(@, m)] ELSE got
      /\ UNCHANGED <<proxyVars, linkVars, up, serverVars, asked>>
  BY DEF ReadServer
<1>3. /\ Tail(down[k]) \in Seq(Msg) /\ m \in ToSet(down[k])
      /\ \A n \in ToSet(Tail(down[k])) : n \in ToSet(down[k])
  BY <1>1, <1>2, TailProperties
<1>4. m \in Msg /\ c \in Client /\ m.key \in Key
  BY <1>1, <1>3, MessageTypes
<1>5. m.key \in Keys[c] /\ InAsked(asked, m) /\ k = proxies[k[2]][m.key[1]]
  BY <1>1, <1>3, AllAsked DEF MessagesInv, DownInv
<1>6. got' = got \/ got' = [got EXCEPT ![c] = Append(@, m)]
  BY <1>1, <1>2, <1>4, <1>5, NumberFinds
<1>7. /\ OrderedByKey(asked, Tail(down[k]))
      /\ \A n \in ToSet(Tail(down[k])) : m.key = n.key => Before(asked, m, n)
  <2>1. OrderedByKey(asked, down[k]) /\ down[k] \in Seq(Msg)
    BY <1>1 DEF OrderInv, DownOrder
  <2> QED BY <1>2, <2>1, OrderedTail
<1>8. /\ TypeIds' /\ TypeClients' /\ TypePlay' /\ IdsInv' /\ NumbersInv' /\ PlayersInv'
      /\ Keys' = Keys /\ queues' = queues
  BY <1>1, <1>2, SameRest DEF serverVars
<1> HIDE DEF m, c
<1>9. ASSUME NEW l \in Link
      PROVE  /\ down'[l] \in Seq(Msg) /\ \A n \in ToSet(down'[l]) : n \in ToSet(down[l])
             /\ OrderedByKey(asked, down'[l])
  <2>1. CASE l = k
    BY <1>1, <1>2, <1>3, <1>7, <2>1
  <2>2. CASE l # k
    BY <1>1, <1>2, <2>2 DEF OrderInv, DownOrder
  <2> QED BY <2>1, <2>2
<1>10. ASSUME NEW d \in Client
       PROVE  /\ got'[d] \in Seq(Msg)
              /\ \A n \in ToSet(got'[d]) : n \in ToSet(got[d]) \/ (n = m /\ d = c)
              /\ got'[d] = got[d] \/ (d = c /\ got'[d] = Append(got[d], m))
  <2>1. got[d] \in Seq(Msg) /\ Append(got[d], m) \in Seq(Msg)
        /\ ToSet(Append(got[d], m)) = ToSet(got[d]) \cup {m}
    BY <1>1, <1>4, AppendToSet
  <2>2. got'[d] = got[d] \/ (d = c /\ got'[d] = Append(got[d], m))
    BY <1>1, <1>4, <1>6
  <2> QED BY <2>1, <2>2
<1>11. TypeFlow'
  <2>1. down' \in [Link -> Seq(Msg)]
    BY <1>1, <1>2, <1>9
  <2>2. got' \in [Client -> Seq(Msg)]
    BY <1>1, <1>6, <1>10
  <2> QED BY <1>1, <1>2, <2>1, <2>2 DEF TypeFlow, serverVars
<1>12. MessagesInv'
  <2>1. UpInv' /\ QueueInv'
    BY <1>1, <1>2, <1>8 DEF MessagesInv, UpInv, QueueInv
  <2>2. DownInv'
    BY <1>1, <1>2, <1>8, <1>9 DEF MessagesInv, DownInv, linkVars
  <2>3. GotInv'
    <3> SUFFICES ASSUME NEW d \in Client, NEW n \in ToSet(got'[d])
                 PROVE  n.client = d /\ n.key \in Keys[d] /\ InAsked(asked, n)
      BY <1>2, <1>8 DEF GotInv
    <3>1. CASE n \in ToSet(got[d])
      BY <1>1, <3>1 DEF MessagesInv, GotInv
    <3>2. CASE n = m /\ d = c
      BY <1>5, <3>2 DEF c
    <3> QED BY <1>10, <3>1, <3>2
  <2> QED BY <2>1, <2>2, <2>3 DEF MessagesInv
<1>13. SendingInv'
  BY <1>1, <1>2, <1>8 DEF SendingInv, serverVars
<1>14. UpOrder'
  <2> SUFFICES ASSUME NEW l \in Link, NEW n \in ToSet(up[l])
               PROVE  /\ \A j \in Link : \A x \in ToSet(down'[j]) : Before(asked, x, n)
                      /\ \A d \in Client : \A x \in ToSet(got'[d]) : Before(asked, x, n)
    BY <1>1, <1>2, <1>8 DEF OrderInv, UpOrder
  <2>1. \A j \in Link : \A x \in ToSet(down[j]) : Before(asked, x, n)
    BY <1>1 DEF OrderInv, UpOrder
  <2>2. \A d \in Client : \A x \in ToSet(got[d]) : Before(asked, x, n)
    BY <1>1 DEF OrderInv, UpOrder
  <2> QED BY <1>3, <1>9, <1>10, <2>1, <2>2
<1>15. QueueOrder'
  <2> SUFFICES ASSUME NEW s \in Server, NEW key \in Key,
                      NEW n \in After(queues[s][key], Written(sending[s], key))
               PROVE  /\ \A j \in Link : \A x \in ToSet(down'[j]) : x.key = key => Before(asked, x, n)
                      /\ \A d \in Client : \A x \in ToSet(got'[d]) : x.key = key => Before(asked, x, n)
    BY <1>1, <1>2, <1>8, ZenonT(30) DEF OrderInv, QueueOrder, serverVars
  <2>1. \A j \in Link : \A x \in ToSet(down[j]) : x.key = key => Before(asked, x, n)
    BY <1>1 DEF OrderInv, QueueOrder
  <2>2. \A d \in Client : \A x \in ToSet(got[d]) : x.key = key => Before(asked, x, n)
    BY <1>1 DEF OrderInv, QueueOrder
  <2> QED BY <1>3, <1>9, <1>10, <2>1, <2>2
<1>16. DownOrder'
  <2> SUFFICES ASSUME NEW l \in Link, NEW n \in ToSet(down'[l]), NEW d \in Client,
                      NEW x \in ToSet(got'[d]), x.key = n.key
               PROVE  Before(asked, x, n)
    BY <1>2, <1>9 DEF DownOrder
  <2>1. n \in ToSet(down[l])
    BY <1>9
  <2>2. CASE x \in ToSet(got[d])
    BY <1>1, <2>1, <2>2 DEF OrderInv, DownOrder
  <2>3. CASE x = m /\ l # k
    BY <1>1, <1>3, <2>1, <2>3, OtherLink
  <2>4. CASE x = m /\ l = k
    <3>1. n \in ToSet(Tail(down[k]))
      BY <1>1, <1>2, <2>4
    <3> QED BY <1>7, <2>4, <3>1
  <2> QED BY <1>10, <2>2, <2>3, <2>4
<1>17. GotOrder'
  <2> SUFFICES ASSUME NEW d \in Client
               PROVE  OrderedByKey(asked, got'[d])
    BY <1>2 DEF GotOrder
  <2>1. got[d] \in Seq(Msg) /\ OrderedByKey(asked, got[d])
    BY <1>1 DEF OrderInv, GotOrder
  <2>2. \A x \in ToSet(got[d]) : x.key = m.key => Before(asked, x, m)
    BY <1>1, <1>3 DEF OrderInv, DownOrder
  <2>3. OrderedByKey(asked, Append(got[d], m))
    BY <1>4, <2>1, <2>2, OrderedAppend
  <2> QED BY <1>10, <2>1, <2>3
<1> QED BY <1>8, <1>11, <1>12, <1>13, <1>14, <1>15, <1>16, <1>17 DEF RelayInv, TypeInv, OrderInv

-----------------------------------------------------------------------------
(* Sessions and their sender                                               *)

\* A session of which the queue changes
WithQueue(f, key, q) == [f EXCEPT ![key].queue = q]
Put(f, s, g) == [f EXCEPT ![s] = g]
AddTo(f, s, key, m) == [f EXCEPT ![s][key] = Append(@, m)]

LEMMA SetQueue ==
  ASSUME NEW f \in Maps(Key, Session), NEW key \in DOMAIN f, NEW q \in Seq(Msg)
  PROVE  LET g == WithQueue(f, key, q) IN
         /\ g \in Maps(Key, Session) /\ DOMAIN g = DOMAIN f
         /\ g[key].queue = q /\ \A x \in DOMAIN f \ {key} : g[x] = f[x]
         /\ \A x \in DOMAIN f : g[x].player = f[x].player
<1> DEFINE g == WithQueue(f, key, q)
<1>1. DOMAIN f \subseteq Key /\ \A x \in DOMAIN f : f[x] \in Session
  BY MapsMember
<1>2. /\ DOMAIN g = DOMAIN f /\ g = [x \in DOMAIN g |-> g[x]]
      /\ g[key] = [f[key] EXCEPT !.queue = q] /\ \A x \in DOMAIN f \ {key} : g[x] = f[x]
  BY DEF WithQueue
<1> HIDE DEF g
<1>3. g[key] \in Session /\ g[key].queue = q /\ g[key].player = f[key].player
  BY <1>1, <1>2 DEF Session
<1>4. \A x \in DOMAIN g : g[x] \in Session
  BY <1>1, <1>2, <1>3
<1>5. g \in Maps(Key, Session)
  BY <1>1, <1>2, <1>4, MapsMember
<1> QED BY <1>2, <1>3, <1>5 DEF g

\* What is waiting belongs to the session's client.
LEMMA QueueMember ==
  ASSUME TypeFlow, MessagesInv, NEW s \in Server, NEW key \in Key, NEW m \in ToSet(queues[s][key])
  PROVE  /\ m \in Msg /\ m.client \in Client /\ key \in Keys[m.client] /\ AskedAt(asked, m, s)
         /\ InAsked(asked, m)
BY MessageTypes, AllAsked DEF MessagesInv, QueueInv

\* Questions of the two servers went over different connections.
LEMMA OtherServer ==
  ASSUME NEW s, NEW t, s # t, NEW m, NEW n, AskedAt(asked, m, s), AskedAt(asked, n, t)
  PROVE  Before(asked, m, n)
<1>1. PICK i \in Link, j \in Link : ViaOf(asked, m) = {i} /\ i[2] = s /\ ViaOf(asked, n) = {j} /\ j[2] = t
  BY DEF AskedAt, OverLink
<1>2. ViaOf(asked, m) # ViaOf(asked, n)
  BY <1>1
<1> QED BY <1>2 DEF Before

LEMMA SendBatchStep ==
  ASSUME RelayInv, NEW s \in Server, NEW key \in DOMAIN sessions[s], SendBatch(s, key), UNCHANGED world
  PROVE  RelayInv'
<1> DEFINE queue == sessions[s][key].queue
           batch == Rekeyed(queue, key)
           k == proxies[s][key[1]]
<1>1. /\ TypeInv /\ TypeIds /\ TypeClients /\ TypeFlow /\ TypePlay /\ IdsInv /\ NumbersInv
      /\ FlowInv /\ MessagesInv /\ PlayersInv /\ SendingInv /\ OrderInv
      /\ down \in [Link -> Seq(Msg)]
      /\ sending \in [Server -> [key : Key \cup {<<>>}, count : Nat]]
  BY DEF RelayInv, TypeInv, FlowInv, TypeFlow
<1>2. /\ sending[s] = NoBatch /\ queue # <<>>
      /\ down' = [down EXCEPT ![k] = @ \o batch] \/ down' = down
      /\ sending' = [sending EXCEPT ![s] = [key |-> key, count |-> Len(queue)]]
      /\ UNCHANGED <<proxyVars, linkVars, up, sessions, player, acted, asked, got>>
  BY DEF SendBatch, Rekeyed
<1>3. key \in Key
  <2>1. sessions[s] \in Maps(Key, Session)
    BY <1>1 DEF TypeFlow
  <2> QED BY <2>1, MapsMember
<1>4. queue = queues[s][key] /\ queue \in Seq(Msg)
  <2>1. queue = queues[s][key]
    BY <1>3 DEF queues
  <2> QED BY <1>1, <1>3, <2>1, QueuesType
<1>5. k \in Link /\ k[2] = s
  <2>1. Head(queue) \in ToSet(queue)
    BY <1>2, <1>4, TailProperties
  <2>2. Head(queue).client \in Client /\ key \in Keys[Head(queue).client]
    BY <1>1, <1>3, <1>4, <2>1, QueueMember
  <2> QED BY <1>1, <1>3, <2>2, KeyLeads
<1>6. /\ batch \in Seq(Msg)
      /\ \A m \in ToSet(batch) :
           m.key = key /\ \E n \in ToSet(queue) : m.client = n.client /\ m.num = n.num
      /\ Ordered(asked, batch)
  <2>1. Ordered(asked, queue)
    BY <1>1, <1>3, <1>4 DEF OrderInv, QueueOrder
  <2> QED BY <1>3, <1>4, <2>1, RekeyedProperties
<1> HIDE DEF queue, batch, k
<1>7. /\ TypeIds' /\ TypeClients' /\ TypePlay' /\ IdsInv' /\ NumbersInv' /\ PlayersInv'
      /\ Keys' = Keys /\ queues' = queues
  BY <1>1, <1>2, SameRest
<1>8. ASSUME NEW m \in ToSet(batch)
      PROVE  \E n \in ToSet(queue) :
               /\ m.key = key /\ m.client = n.client /\ key \in Keys[n.client] /\ AskedAt(asked, m, s)
               /\ \A x : /\ Before(asked, m, x) <=> Before(asked, n, x)
                         /\ Before(asked, x, m) <=> Before(asked, x, n)
  <2>1. PICK n \in ToSet(queue) : m.key = key /\ m.client = n.client /\ m.num = n.num
    BY <1>6
  <2>2. key \in Keys[n.client] /\ AskedAt(asked, n, s)
    BY <1>1, <1>3, <1>4, QueueMember
  <2>3. ViaOf(asked, m) = ViaOf(asked, n) /\ (InAsked(asked, n) => InAsked(asked, m))
    BY <2>1 DEF ViaOf, InAsked
  <2>4. AskedAt(asked, m, s)
    BY <2>2, <2>3 DEF AskedAt, OverLink
  <2>5. \A x : /\ Before(asked, m, x) <=> Before(asked, n, x)
               /\ Before(asked, x, m) <=> Before(asked, x, n)
    BY <2>1, <2>3 DEF Before
  <2> QED BY <2>1, <2>2, <2>4, <2>5
<1>9. ASSUME NEW n \in ToSet(batch)
      PROVE  /\ \A l \in Link : \A m \in ToSet(down[l]) : m.key = key => Before(asked, m, n)
             /\ \A c \in Client : \A m \in ToSet(got[c]) : m.key = key => Before(asked, m, n)
  <2>1. PICK x \in ToSet(queue) : \A m : Before(asked, m, n) <=> Before(asked, m, x)
    BY <1>8
  <2>2. Written(sending[s], key) = 0
    BY <1>2 DEF Written, NoBatch
  <2>3. x \in After(queues[s][key], Written(sending[s], key))
    BY <1>4, <2>2, AfterProperties
  <2>4. /\ \A l \in Link : \A m \in ToSet(down[l]) : m.key = key => Before(asked, m, x)
        /\ \A c \in Client : \A m \in ToSet(got[c]) : m.key = key => Before(asked, m, x)
    BY <1>1, <1>3, <2>3 DEF OrderInv, QueueOrder
  <2> QED BY <2>1, <2>4
<1>10. ASSUME NEW l \in Link
       PROVE  /\ down'[l] \in Seq(Msg) /\ OrderedByKey(asked, down'[l])
              /\ \A m \in ToSet(down'[l]) : m \in ToSet(down[l]) \/ (m \in ToSet(batch) /\ l = k)
  <2>1. down[l] \in Seq(Msg) /\ OrderedByKey(asked, down[l])
    BY <1>1 DEF OrderInv, DownOrder
  <2>2. CASE down'[l] = down[l]
    BY <2>1, <2>2
  <2>3. CASE l = k /\ down'[l] = down[l] \o batch
    <3>1. \A m \in ToSet(down[l]) : \A n \in ToSet(batch) : m.key = n.key => Before(asked, m, n)
      BY <1>6, <1>9
    <3>2. /\ down[l] \o batch \in Seq(Msg) /\ ToSet(down[l] \o batch) = ToSet(down[l]) \cup ToSet(batch)
          /\ OrderedByKey(asked, down[l] \o batch)
      BY <1>6, <2>1, <3>1, OrderedConcat
    <3> QED BY <2>3, <3>2
  <2> QED BY <1>1, <1>2, <2>2, <2>3
<1>11. TypeFlow'
  <2>1. down' \in [Link -> Seq(Msg)]
    BY <1>1, <1>2, <1>10
  <2>2. [key |-> key, count |-> Len(queue)] \in [key : Key \cup {<<>>}, count : Nat]
    BY <1>3, <1>4
  <2>3. sending' \in [Server -> [key : Key \cup {<<>>}, count : Nat]]
    BY <1>1, <1>2, <2>2
  <2> QED BY <1>1, <1>2, <2>1, <2>3 DEF TypeFlow
<1>12. MessagesInv'
  <2>1. UpInv' /\ QueueInv' /\ GotInv'
    BY <1>1, <1>2, <1>7 DEF MessagesInv, UpInv, QueueInv, GotInv
  <2>2. DownInv'
    <3> SUFFICES ASSUME NEW l \in Link, NEW m \in ToSet(down'[l])
                 PROVE  m.key \in Keys[m.client] /\ AskedAt(asked, m, l[2]) /\ l = proxies[l[2]][m.key[1]]
      BY <1>2, <1>7 DEF DownInv, linkVars
    <3>1. CASE m \in ToSet(down[l])
      BY <1>1, <3>1 DEF MessagesInv, DownInv
    <3>2. CASE m \in ToSet(batch) /\ l = k
      BY <1>5, <1>8, <3>2 DEF k
    <3> QED BY <1>10, <3>1, <3>2
  <2> QED BY <2>1, <2>2 DEF MessagesInv
<1>13. SendingInv'
  <2>1. \A t \in Server : IF t = s THEN sending'[t].key = key /\ sending'[t].count = Len(queues[s][key])
                                   ELSE sending'[t] = sending[t]
    BY <1>1, <1>2, <1>4
  <2>2. Len(queues[s][key]) \in Nat
    BY <1>4
  <2> QED BY <1>1, <1>2, <1>7, <2>1, <2>2 DEF SendingInv
<1>14. UpOrder'
  <2> SUFFICES ASSUME NEW l \in Link, NEW n \in ToSet(up[l])
               PROVE  \A j \in Link : \A x \in ToSet(down'[j]) : Before(asked, x, n)
    BY <1>1, <1>2, <1>7 DEF OrderInv, UpOrder
  <2>1. /\ \A j \in Link : \A x \in ToSet(down[j]) : Before(asked, x, n)
        /\ \A x \in ToSet(queue) : Before(asked, x, n)
    BY <1>1, <1>3, <1>4 DEF OrderInv, UpOrder
  <2>2. \A x \in ToSet(batch) : Before(asked, x, n)
    BY <1>8, <2>1
  <2> QED BY <1>10, <2>1, <2>2
<1>15. QueueOrder'
  <2> SUFFICES ASSUME NEW t \in Server, NEW key2 \in Key,
                      NEW n \in After(queues[t][key2], Written(sending'[t], key2))
               PROVE  /\ \A j \in Link : \A x \in ToSet(down'[j]) : x.key = key2 => Before(asked, x, n)
                      /\ \A d \in Client : \A x \in ToSet(got[d]) : x.key = key2 => Before(asked, x, n)
    BY <1>1, <1>2, <1>7, ZenonT(30) DEF OrderInv, QueueOrder
  <2>1. t # s \/ key2 # key
    <3>1. t = s /\ key2 = key => Written(sending'[t], key2) = Len(queues[t][key2])
      BY <1>1, <1>2, <1>4 DEF Written
    <3> QED BY <1>4, <3>1, AfterProperties
  <2>2. Written(sending'[t], key2) = Written(sending[t], key2) /\ Written(sending[t], key2) \in Nat
    BY <1>1, <1>2, <2>1 DEF Written, NoBatch
  <2>3. /\ \A j \in Link : \A x \in ToSet(down[j]) : x.key = key2 => Before(asked, x, n)
        /\ \A d \in Client : \A x \in ToSet(got[d]) : x.key = key2 => Before(asked, x, n)
    BY <1>1, <2>2 DEF OrderInv, QueueOrder
  <2>4. ASSUME NEW x \in ToSet(batch), x.key = key2
        PROVE  Before(asked, x, n)
    <3>1. t # s /\ AskedAt(asked, x, s)
      BY <1>8, <2>1, <2>4
    <3>2. n \in ToSet(queues[t][key2])
      BY <1>1, <2>2, QueuesType, AfterProperties
    <3>3. AskedAt(asked, n, t)
      BY <1>1, <3>2, QueueMember
    <3> QED BY <3>1, <3>3, OtherServer
  <2> QED BY <1>10, <2>3, <2>4
<1>16. DownOrder'
  <2> SUFFICES ASSUME NEW l \in Link, NEW n \in ToSet(down'[l]), NEW d \in Client,
                      NEW x \in ToSet(got[d]), x.key = n.key
               PROVE  Before(asked, x, n)
    BY <1>2, <1>10 DEF DownOrder
  <2>1. CASE n \in ToSet(down[l])
    BY <1>1, <2>1 DEF OrderInv, DownOrder
  <2>2. CASE n \in ToSet(batch)
    BY <1>6, <1>9, <2>2
  <2> QED BY <1>10, <2>1, <2>2
<1>17. GotOrder'
  BY <1>1, <1>2 DEF OrderInv, GotOrder
<1> QED BY <1>7, <1>11, <1>12, <1>13, <1>14, <1>15, <1>16, <1>17 DEF RelayInv, TypeInv, OrderInv

LEMMA PopBatchStep ==
  ASSUME RelayInv, NEW s \in Server, PopBatch(s), UNCHANGED world
  PROVE  RelayInv'
<1> DEFINE key == sending[s].key
           count == sending[s].count
           queue == queues[s][key]
           rest == SubSeq(queue, count + 1, Len(queue))
           f == WithQueue(sessions[s], key, rest)
<1>1. /\ TypeInv /\ TypeIds /\ TypeClients /\ TypeFlow /\ TypePlay /\ IdsInv /\ NumbersInv
      /\ FlowInv /\ MessagesInv /\ PlayersInv /\ SendingInv /\ OrderInv
      /\ sessions \in [Server -> Maps(Key, Session)]
      /\ sending \in [Server -> [key : Key \cup {<<>>}, count : Nat]]
  BY DEF RelayInv, TypeInv, FlowInv, TypeFlow
<1>2. /\ sending[s] # NoBatch
      /\ sessions' = [sessions EXCEPT ![s][key].queue = SubSeq(@, count + 1, Len(@))]
      /\ sending' = [sending EXCEPT ![s] = NoBatch]
      /\ UNCHANGED <<proxyVars, linkVars, up, down, player, acted, asked, got>>
  BY DEF PopBatch
<1>3. /\ key \in DOMAIN sessions[s] /\ key \in Key /\ count \in Nat /\ count <= Len(queue)
      /\ sessions[s] \in Maps(Key, Session)
  <2>1. key \in DOMAIN sessions[s] /\ count <= Len(queue) /\ sessions[s] \in Maps(Key, Session)
    BY <1>1, <1>2 DEF SendingInv
  <2>2. key \in Key
    BY <2>1, MapsMember
  <2> QED BY <1>1, <2>1, <2>2
<1>4. queue = sessions[s][key].queue /\ queue \in Seq(Msg)
  <2>1. queue = sessions[s][key].queue
    BY <1>3 DEF queues
  <2> QED BY <1>1, <1>3, QueuesType, <2>1
<1>5. sessions' = [sessions EXCEPT ![s] = f]
  BY <1>1, <1>2, <1>4 DEF WithQueue
<1>6. /\ rest \in Seq(Msg) /\ ToSet(rest) = After(queue, count) /\ ToSet(rest) \subseteq ToSet(queue)
      /\ Ordered(asked, rest)
  <2>1. Ordered(asked, queue)
    BY <1>1, <1>3 DEF OrderInv, QueueOrder
  <2> QED BY <1>3, <1>4, <2>1, OrderedRest
<1> HIDE DEF rest, queue, key, count
<1>7. /\ f \in Maps(Key, Session) /\ DOMAIN f = DOMAIN sessions[s]
      /\ f[key].queue = rest /\ \A x \in DOMAIN sessions[s] \ {key} : f[x] = sessions[s][x]
      /\ \A x \in DOMAIN sessions[s] : f[x].player = sessions[s][x].player
  BY <1>3, <1>6, SetQueue
<1> HIDE DEF f
<1>8. \A t \in Server : sessions'[t] = IF t = s THEN f ELSE sessions[t]
  BY <1>1, <1>5
<1>9. ASSUME NEW t \in Server, NEW x \in Key
      PROVE  queues'[t][x] = IF t = s /\ x = key THEN rest ELSE queues[t][x]
  BY <1>3, <1>7, <1>8 DEF queues
<1>10. /\ TypeIds' /\ TypeClients' /\ IdsInv' /\ NumbersInv' /\ Keys' = Keys /\ TypePlay'
  BY <1>1, <1>2, SameIds, SameNumbers, SameKeys DEF proxyVars, linkVars, TypePlay
<1>11. TypeFlow'
  <2>1. sessions' \in [Server -> Maps(Key, Session)]
    BY <1>1, <1>5, <1>7
  <2>2. sending' \in [Server -> [key : Key \cup {<<>>}, count : Nat]]
    BY <1>1, <1>2 DEF NoBatch
  <2> QED BY <1>1, <1>2, <2>1, <2>2 DEF TypeFlow
<1>12. \A t \in Server : \A x \in Key : \A m \in ToSet(queues'[t][x]) : m \in ToSet(queues[t][x])
  <2>1. \A m \in ToSet(rest) : m \in ToSet(queue)
    BY <1>6
  <2> QED BY <1>9, <2>1 DEF queue
<1>13. MessagesInv'
  <2>1. UpInv' /\ DownInv' /\ GotInv'
    BY <1>1, <1>2, <1>10 DEF MessagesInv, UpInv, DownInv, GotInv, linkVars
  <2>2. QueueInv'
    BY <1>1, <1>2, <1>10, <1>12 DEF MessagesInv, QueueInv
  <2> QED BY <2>1, <2>2 DEF MessagesInv
<1>14. PlayersInv'
  <2>1. /\ DOMAIN sessions'["game"] = DOMAIN sessions["game"]
        /\ \A x \in DOMAIN sessions["game"] : sessions'["game"][x].player = sessions["game"][x].player
    BY <1>7, <1>8 DEF Server
  <2> QED BY <1>1, <1>2, <1>10, <2>1 DEF PlayersInv
<1>15. SendingInv'
  <2> SUFFICES ASSUME NEW t \in Server, sending'[t] # NoBatch
               PROVE  sending'[t].key \in DOMAIN sessions'[t]
                      /\ sending'[t].count <= Len(queues'[t][sending'[t].key])
    BY DEF SendingInv
  <2>1. t # s /\ sending'[t] = sending[t] /\ sessions'[t] = sessions[t]
    BY <1>1, <1>2, <1>8
  <2>2. /\ sending[t].key \in DOMAIN sessions[t]
        /\ sending[t].count <= Len(queues[t][sending[t].key])
    BY <1>1, <2>1 DEF SendingInv
  <2>3. sessions[t] \in Maps(Key, Session)
    BY <1>1
  <2>4. sending[t].key \in Key
    BY <2>2, <2>3, MapsMember
  <2>5. queues'[t][sending[t].key] = queues[t][sending[t].key]
    BY <1>9, <2>1, <2>4
  <2> QED BY <2>1, <2>2, <2>5
<1>16. UpOrder'
  BY <1>1, <1>2, <1>12 DEF OrderInv, UpOrder
<1>17. QueueOrder'
  <2> SUFFICES ASSUME NEW t \in Server, NEW x \in Key
               PROVE  /\ Ordered(asked, queues'[t][x])
                      /\ \A n \in After(queues'[t][x], Written(sending'[t], x)) :
                           n \in After(queues[t][x], Written(sending[t], x))
    BY <1>1, <1>2 DEF OrderInv, QueueOrder
  <2>1. CASE t = s /\ x = key
    <3>1. queues'[t][x] = rest /\ Written(sending'[t], x) = 0 /\ Written(sending[t], x) = count
      BY <1>1, <1>2, <1>9, <2>1 DEF Written, NoBatch, key, count
    <3>2. After(rest, 0) = ToSet(rest)
      BY <1>6, AfterProperties
    <3> QED BY <1>6, <2>1, <3>1, <3>2 DEF queue
  <2>2. CASE t # s \/ x # key
    <3>1. queues'[t][x] = queues[t][x] /\ Written(sending'[t], x) = Written(sending[t], x)
      BY <1>1, <1>2, <1>9, <2>2 DEF Written, NoBatch, key
    <3> QED BY <1>1, <3>1 DEF OrderInv, QueueOrder
  <2> QED BY <2>1, <2>2
<1>18. DownOrder' /\ GotOrder'
  BY <1>1, <1>2 DEF OrderInv, DownOrder, GotOrder
<1> QED BY <1>10, <1>11, <1>13, <1>14, <1>15, <1>16, <1>17, <1>18 DEF RelayInv, TypeInv, OrderInv

\* The main thread takes the next message of a connection, and what it adds to a
\* session's queue, if anything, is that message, to one of its client's.
LEMMA TakeStep ==
  ASSUME RelayInv, NEW k \in Link, up[k] # <<>>, up' = [up EXCEPT ![k] = Tail(@)],
         UNCHANGED <<proxyVars, linkVars, down, sending, asked, got, world>>,
         sessions' \in [Server -> Maps(Key, Session)],
         \A s \in Server : DOMAIN sessions[s] \subseteq DOMAIN sessions'[s],
         \/ queues' = queues
         \/ \E key \in Key : /\ key \in Keys[Head(up[k]).client]
                             /\ queues' = AddTo(queues, k[2], key, Head(up[k]))
  PROVE  /\ TypeIds' /\ TypeClients' /\ TypeFlow' /\ IdsInv' /\ NumbersInv' /\ Keys' = Keys
         /\ MessagesInv' /\ SendingInv' /\ OrderInv'
<1> DEFINE m == Head(up[k])
<1>1. /\ TypeInv /\ TypeIds /\ TypeClients /\ TypeFlow /\ TypePlay /\ IdsInv /\ NumbersInv
      /\ FlowInv /\ MessagesInv /\ SendingInv /\ OrderInv
      /\ up \in [Link -> Seq(Msg)] /\ queues \in [Server -> [Key -> Seq(Msg)]]
  BY QueuesType DEF RelayInv, TypeInv, FlowInv, TypeFlow
<1>2. /\ Tail(up[k]) \in Seq(Msg) /\ m \in ToSet(up[k])
      /\ \A n \in ToSet(Tail(up[k])) : n \in ToSet(up[k])
  BY <1>1, TailProperties
<1>3. /\ Ordered(asked, Tail(up[k])) /\ \A n \in ToSet(Tail(up[k])) : Before(asked, m, n)
  <2>1. Ordered(asked, up[k]) /\ up[k] \in Seq(Msg)
    BY <1>1 DEF OrderInv, UpOrder
  <2> QED BY <2>1, OrderedTail
<1>4. m \in Msg /\ m.client \in Client /\ OverLink(asked, m, k) /\ k[2] \in Server
  BY <1>1, <1>2, MessageTypes DEF MessagesInv, UpInv
<1>5. /\ \A s \in Server : \A key \in Key : \A x \in ToSet(queues[s][key]) : Before(asked, x, m)
      /\ \A l \in Link : \A x \in ToSet(down[l]) : Before(asked, x, m)
      /\ \A c \in Client : \A x \in ToSet(got[c]) : Before(asked, x, m)
  BY <1>1, <1>2 DEF OrderInv, UpOrder
<1>6. \/ queues' = queues
      \/ \E key \in Key : key \in Keys[m.client] /\ queues' = AddTo(queues, k[2], key, m)
  OBVIOUS
<1> HIDE DEF m
<1>7. TypeIds' /\ TypeClients' /\ IdsInv' /\ NumbersInv' /\ Keys' = Keys
  BY <1>1, SameIds, SameNumbers, SameKeys DEF proxyVars, linkVars
<1>8. ASSUME NEW l \in Link
      PROVE  /\ up'[l] \in Seq(Msg) /\ Ordered(asked, up'[l])
             /\ \A n \in ToSet(up'[l]) : n \in ToSet(up[l]) /\ Before(asked, m, n)
  <2>1. CASE l = k
    BY <1>1, <1>2, <1>3, <2>1
  <2>2. CASE l # k
    <3>1. up'[l] = up[l] /\ Ordered(asked, up[l]) /\ up[l] \in Seq(Msg)
      BY <1>1, <2>2 DEF OrderInv, UpOrder
    <3>2. ASSUME NEW n \in ToSet(up[l])
          PROVE  Before(asked, m, n)
      <4>1. ViaOf(asked, n) = {l} /\ ViaOf(asked, m) = {k}
        BY <1>1, <1>4 DEF MessagesInv, UpInv, OverLink
      <4> QED BY <2>2, <4>1 DEF Before
    <3> QED BY <3>1, <3>2
  <2> QED BY <2>1, <2>2
<1>9. ASSUME NEW s \in Server, NEW key \in Key
      PROVE  \/ queues'[s][key] = queues[s][key]
             \/ /\ s = k[2] /\ key \in Keys[m.client] /\ queues'[s][key] = Append(queues[s][key], m)
  <2>1. CASE queues' = queues
    BY <2>1
  <2>2. ASSUME NEW x \in Key, x \in Keys[m.client],
               queues' = AddTo(queues, k[2], x, m)
        PROVE  \/ queues'[s][key] = queues[s][key]
               \/ /\ s = k[2] /\ key \in Keys[m.client] /\ queues'[s][key] = Append(queues[s][key], m)
    BY <1>1, <1>4, <2>2 DEF AddTo
  <2> QED BY <1>6, <2>1, <2>2
<1>10. ASSUME NEW s \in Server, NEW key \in Key
       PROVE  /\ queues[s][key] \in Seq(Msg) /\ ToSet(Append(queues[s][key], m)) = ToSet(queues[s][key]) \cup {m}
              /\ Len(Append(queues[s][key], m)) = Len(queues[s][key]) + 1
              /\ Len(queues[s][key]) \in Nat
  <2>1. queues[s][key] \in Seq(Msg)
    BY <1>1
  <2> QED BY <1>4, <2>1, AppendToSet
<1>11. ASSUME NEW s \in Server, NEW key \in Key, NEW x \in ToSet(queues'[s][key])
        PROVE  x \in ToSet(queues[s][key]) \/ (x = m /\ s = k[2] /\ key \in Keys[m.client])
  <2>1. CASE queues'[s][key] = queues[s][key]
    BY <1>11, <2>1
  <2>2. CASE s = k[2] /\ key \in Keys[m.client] /\ queues'[s][key] = Append(queues[s][key], m)
    <3>1. x \in ToSet(queues[s][key]) \cup {m}
      BY <1>10, <1>11, <2>2
    <3> QED BY <2>2, <3>1
  <2> QED BY <1>9, <2>1, <2>2
<1>12. TypeFlow'
  <2>1. up' \in [Link -> Seq(Msg)]
    BY <1>1, <1>2
  <2> QED BY <1>1, <2>1 DEF TypeFlow
<1>13. MessagesInv'
  <2>1. UpInv'
    BY <1>1, <1>7, <1>8 DEF MessagesInv, UpInv
  <2>2. DownInv' /\ GotInv'
    BY <1>1, <1>7 DEF MessagesInv, DownInv, GotInv, linkVars
  <2>3. AskedAt(asked, m, k[2])
    BY <1>4 DEF AskedAt
  <2>4. QueueInv'
    <3> SUFFICES ASSUME NEW s \in Server, NEW key \in Key, NEW n \in ToSet(queues'[s][key])
                 PROVE  key \in Keys[n.client] /\ AskedAt(asked, n, s)
      BY <1>7 DEF QueueInv
    <3>1. CASE n \in ToSet(queues[s][key])
      BY <1>1, <3>1 DEF MessagesInv, QueueInv
    <3>2. CASE n = m /\ s = k[2] /\ key \in Keys[m.client]
      BY <2>3, <3>2
    <3> QED BY <1>11, <3>1, <3>2
  <2> QED BY <2>1, <2>2, <2>4 DEF MessagesInv
<1>14. SendingInv'
  <2> SUFFICES ASSUME NEW s \in Server, sending[s] # NoBatch
               PROVE  sending[s].key \in DOMAIN sessions'[s]
                      /\ sending[s].count <= Len(queues'[s][sending[s].key])
    BY DEF SendingInv
  <2>1. /\ sending[s].key \in DOMAIN sessions[s]
        /\ sending[s].count <= Len(queues[s][sending[s].key])
    BY <1>1 DEF SendingInv
  <2>2. sessions[s] \in Maps(Key, Session) /\ sending[s].count \in Nat
    BY <1>1 DEF TypeFlow
  <2>3. sending[s].key \in Key
    BY <2>1, <2>2, MapsMember
  <2>4. sending[s].count <= Len(queues'[s][sending[s].key])
    BY <1>9, <1>10, <2>1, <2>2, <2>3, SMTT(30)
  <2> QED BY <2>1, <2>4
<1>15. UpOrder'
  <2> SUFFICES ASSUME NEW l \in Link, NEW n \in ToSet(up'[l])
               PROVE  /\ \A s \in Server : \A key \in Key : \A x \in ToSet(queues'[s][key]) : Before(asked, x, n)
                      /\ \A j \in Link : \A x \in ToSet(down[j]) : Before(asked, x, n)
                      /\ \A d \in Client : \A x \in ToSet(got[d]) : Before(asked, x, n)
    BY <1>8 DEF UpOrder
  <2>1. n \in ToSet(up[l]) /\ Before(asked, m, n)
    BY <1>8
  <2>2. /\ \A s \in Server : \A key \in Key : \A x \in ToSet(queues[s][key]) : Before(asked, x, n)
        /\ \A j \in Link : \A x \in ToSet(down[j]) : Before(asked, x, n)
        /\ \A d \in Client : \A x \in ToSet(got[d]) : Before(asked, x, n)
    BY <1>1, <2>1 DEF OrderInv, UpOrder
  <2>3. ASSUME NEW s \in Server, NEW key \in Key, NEW x \in ToSet(queues'[s][key])
        PROVE  Before(asked, x, n)
    <3>1. CASE x \in ToSet(queues[s][key])
      BY <2>2, <3>1
    <3>2. CASE x = m
      BY <2>1, <3>2
    <3> QED BY <1>11, <3>1, <3>2
  <2> QED BY <2>2, <2>3
<1>16. QueueOrder'
  <2> SUFFICES ASSUME NEW s \in Server, NEW key \in Key
               PROVE  /\ Ordered(asked, queues'[s][key])
                      /\ \A n \in After(queues'[s][key], Written(sending[s], key)) :
                           /\ \A l \in Link : \A x \in ToSet(down[l]) : x.key = key => Before(asked, x, n)
                           /\ \A c \in Client : \A x \in ToSet(got[c]) : x.key = key => Before(asked, x, n)
    BY DEF QueueOrder
  <2>1. Ordered(asked, queues[s][key]) /\ queues[s][key] \in Seq(Msg) /\ Written(sending[s], key) \in Nat
    BY <1>1 DEF OrderInv, QueueOrder, TypeFlow, Written
  <2>2. Ordered(asked, Append(queues[s][key], m))
    BY <1>4, <1>5, <2>1, OrderedAppend
  <2>3. After(Append(queues[s][key], m), Written(sending[s], key))
          \subseteq After(queues[s][key], Written(sending[s], key)) \cup {m}
    BY <1>4, <2>1, AfterProperties
  <2>4. ASSUME NEW n \in After(queues'[s][key], Written(sending[s], key))
        PROVE  n \in After(queues[s][key], Written(sending[s], key)) \/ n = m
    <3>1. CASE queues'[s][key] = queues[s][key]
      BY <2>4, <3>1
    <3>2. CASE queues'[s][key] = Append(queues[s][key], m)
      BY <2>3, <2>4, <3>2
    <3> QED BY <1>9, <3>1, <3>2
  <2>5. ASSUME NEW n \in After(queues'[s][key], Written(sending[s], key))
        PROVE  /\ \A l \in Link : \A x \in ToSet(down[l]) : x.key = key => Before(asked, x, n)
               /\ \A c \in Client : \A x \in ToSet(got[c]) : x.key = key => Before(asked, x, n)
    <3>1. CASE n = m
      BY <1>5, <3>1
    <3>2. CASE n \in After(queues[s][key], Written(sending[s], key))
      BY <1>1, <3>2 DEF OrderInv, QueueOrder
    <3> QED BY <2>4, <3>1, <3>2
  <2>6. Ordered(asked, queues'[s][key])
    BY <1>9, <2>1, <2>2
  <2> QED BY <2>5, <2>6
<1>17. DownOrder' /\ GotOrder'
  BY <1>1 DEF OrderInv, DownOrder, GotOrder
<1> QED BY <1>7, <1>12, <1>13, <1>14, <1>15, <1>16, <1>17 DEF OrderInv

-----------------------------------------------------------------------------
(* What the servers do with a message                                      *)

\* The session of a message, which is new if there was none
LEMMA WithSession ==
  ASSUME TypeFlow, NEW s \in Server, NEW m \in Msg
  PROVE  LET with == Insert(sessions[s], m.key, NewSession) IN
         /\ with \in Maps(Key, Session) /\ DOMAIN with = DOMAIN sessions[s] \cup {m.key}
         /\ \A x \in DOMAIN sessions[s] : with[x] = sessions[s][x]
         /\ \A x \in DOMAIN with : with[x].queue = queues[s][x]
<1> DEFINE with == Insert(sessions[s], m.key, NewSession)
<1>1. sessions[s] \in Maps(Key, Session) /\ m.key \in Key
  BY MessageTypes DEF TypeFlow
<1>2. NewSession \in Session /\ NewSession.queue = <<>>
  <2>1. m.user \in User
    BY MessageTypes
  <2>2. (CHOOSE u \in User : TRUE) \in User
    BY <2>1
  <2>3. <<>> \in Seq(Msg)
    OBVIOUS
  <2> QED BY <2>2, <2>3 DEF NewSession, Session
<1>3. with \in Maps(Key, Session)
  BY <1>1, <1>2, InsertProperties
<1> HIDE DEF NewSession
<1>4. /\ DOMAIN with = DOMAIN sessions[s] \cup {m.key}
      /\ \A x \in DOMAIN sessions[s] : with[x] = sessions[s][x]
      /\ m.key \notin DOMAIN sessions[s] => with[m.key] = NewSession
  BY DEF Insert
<1>5. DOMAIN sessions[s] \subseteq Key
  BY <1>1, MapsMember
<1> HIDE DEF with
<1>6. \A x \in DOMAIN with : with[x].queue = queues[s][x]
  BY <1>1, <1>2, <1>4, <1>5 DEF queues
<1> QED BY <1>3, <1>4, <1>6 DEF with

LEMMA KeyIsPair ==
  ASSUME NEW key \in Key
  PROVE  key # <<>>
BY DEF Key

\* What is known of the message that the main thread takes
LEMMA HeadFacts ==
  ASSUME RelayInv, NEW k \in Link, up[k] # <<>>
  PROVE  LET m == Head(up[k]) IN
         /\ m \in Msg /\ m.client \in Client /\ m.key \in Key /\ m.key \in Keys[m.client]
         /\ m.user \in User /\ m.user = world.user[m.client]
         /\ k[2] = To(m.kind) /\ m.kind \in Kind
<1>1. TypeFlow /\ MessagesInv /\ up[k] \in Seq(Msg)
  BY DEF RelayInv, TypeInv, TypeFlow
<1>2. Head(up[k]) \in ToSet(up[k])
  BY <1>1, TailProperties
<1> QED BY <1>1, <1>2, MessageTypes DEF MessagesInv, UpInv

\* A message is answered into a session's queue.
LEMMA AddMessage ==
  ASSUME TypeFlow, NEW s \in Server, NEW w \in Maps(Key, Session), NEW key \in DOMAIN w, NEW m \in Msg,
         DOMAIN sessions[s] \subseteq DOMAIN w, \A x \in DOMAIN w : w[x].queue = queues[s][x],
         sessions' = Put(sessions, s, WithQueue(w, key, Append(w[key].queue, m)))
  PROVE  /\ sessions' \in [Server -> Maps(Key, Session)]
         /\ \A t \in Server : DOMAIN sessions[t] \subseteq DOMAIN sessions'[t]
         /\ \A t \in Server \ {s} : sessions'[t] = sessions[t]
         /\ DOMAIN sessions'[s] = DOMAIN w /\ \A x \in DOMAIN w : sessions'[s][x].player = w[x].player
         /\ queues' = AddTo(queues, s, key, m)
<1> DEFINE q == Append(w[key].queue, m)
           f == WithQueue(w, key, q)
<1>1. sessions \in [Server -> Maps(Key, Session)] /\ queues \in [Server -> [Key -> Seq(Msg)]]
  BY QueuesType DEF TypeFlow
<1>2. DOMAIN w \subseteq Key
  BY MapsMember
<1>3. q \in Seq(Msg) /\ q = Append(queues[s][key], m)
  BY <1>1, <1>2
<1>4. sessions' = [sessions EXCEPT ![s] = f]
  BY DEF Put
<1> HIDE DEF q
<1>5. /\ f \in Maps(Key, Session) /\ DOMAIN f = DOMAIN w
      /\ f[key].queue = q /\ \A x \in DOMAIN w \ {key} : f[x] = w[x]
      /\ \A x \in DOMAIN w : f[x].player = w[x].player
  BY <1>3, SetQueue
<1> HIDE DEF f
<1>6. \A t \in Server : sessions'[t] = IF t = s THEN f ELSE sessions[t]
  BY <1>1, <1>4
<1>7. sessions' \in [Server -> Maps(Key, Session)]
  BY <1>1, <1>4, <1>5
<1>8. queues' = AddTo(queues, s, key, m)
  <2>1. ASSUME NEW t \in Server, NEW x \in Key
        PROVE  queues'[t][x] = IF t = s /\ x = key THEN q ELSE queues[t][x]
    <3>1. CASE t # s
      BY <1>6, <3>1 DEF queues
    <3>2. CASE t = s
      <4>1. queues'[t][x] = IF x \in DOMAIN f THEN f[x].queue ELSE <<>>
        BY <1>6, <3>2 DEF queues
      <4>2. x \notin DOMAIN w => queues[t][x] = <<>>
        BY <3>2 DEF queues
      <4> QED BY <1>5, <3>2, <4>1, <4>2
    <3> QED BY <3>1, <3>2
  <2>2. queues' = [t \in Server |-> [x \in Key |-> queues'[t][x]]]
    BY DEF queues
  <2>3. queues' = [t \in Server |-> [x \in Key |-> IF t = s /\ x = key THEN q ELSE queues[t][x]]]
    BY <2>1, <2>2
  <2> QED BY <1>1, <1>2, <1>3, <2>3 DEF AddTo
<1> QED BY <1>5, <1>6, <1>7, <1>8

LEMMA ProcessRoleStep ==
  ASSUME RelayInv, NEW k \in Link, up[k] # <<>>, up' = [up EXCEPT ![k] = Tail(@)],
         Head(up[k]).kind = "enter", ProcessRole(Head(up[k])),
         UNCHANGED <<proxyVars, linkVars, down, sending, asked, got, world>>
  PROVE  RelayInv'
<1> DEFINE m == Head(up[k])
           with == Insert(sessions["role"], m.key, NewSession)
<1>1. TypeFlow /\ TypePlay /\ PlayersInv
  BY DEF RelayInv, TypeInv
<1>2. m \in Msg /\ m.key \in Key /\ m.key \in Keys[m.client] /\ k[2] = "role" /\ "role" \in Server
  BY HeadFacts DEF To, Server
<1>3. /\ sessions' = Put(sessions, "role", WithQueue(with, m.key, Append(with[m.key].queue, m)))
      /\ UNCHANGED <<player, acted>>
  BY DEF ProcessRole, KeyOf, WithQueue, Put
<1> HIDE DEF m
<1>4. /\ with \in Maps(Key, Session) /\ DOMAIN with = DOMAIN sessions["role"] \cup {m.key}
      /\ \A x \in DOMAIN with : with[x].queue = queues["role"][x]
  BY <1>1, <1>2, WithSession
<1> HIDE DEF with
<1>5. m.key \in DOMAIN with /\ DOMAIN sessions["role"] \subseteq DOMAIN with
  BY <1>4
<1>6. /\ sessions' \in [Server -> Maps(Key, Session)]
      /\ \A t \in Server : DOMAIN sessions[t] \subseteq DOMAIN sessions'[t]
      /\ \A t \in Server \ {"role"} : sessions'[t] = sessions[t]
      /\ queues' = AddTo(queues, "role", m.key, m)
  BY <1>1, <1>2, <1>3, <1>4, <1>5, AddMessage
<1>7. /\ TypeIds' /\ TypeClients' /\ TypeFlow' /\ IdsInv' /\ NumbersInv' /\ Keys' = Keys
      /\ MessagesInv' /\ SendingInv' /\ OrderInv'
  BY <1>2, <1>6, TakeStep DEF m
<1>8. TypePlay' /\ PlayersInv'
  <2>1. sessions'["game"] = sessions["game"]
    BY <1>6 DEF Server
  <2>2. UNCHANGED <<player, acted, world>> /\ Keys' = Keys
    BY <1>3, <1>7
  <2>3. TypePlay'
    BY <1>1, <2>2 DEF TypePlay
  <2> QED BY <1>1, <2>1, <2>2, <2>3, ZenonT(30) DEF PlayersInv
<1> QED BY <1>7, <1>8 DEF RelayInv, TypeInv

\* A session and a player that were given to each other are one client's.
LEMMA PlayerOfSession ==
  ASSUME RelayRules, RelayInv, NEW c \in Client, NEW key \in DOMAIN sessions["game"], key \in Keys[c]
  PROVE  LET u == sessions["game"][key].player IN
         /\ u = world.user[c] /\ u \in User
         /\ player[u] \in DOMAIN sessions["game"] /\ player[u] \in Key /\ player[u] \in Keys[c]
<1>1. /\ TypeIds /\ TypeClients /\ TypeFlow /\ TypePlay /\ NumbersInv /\ PlayersInv
      /\ world.user \in [Client -> User]
  BY WorldTypes DEF RelayInv, TypeInv
<1>2. ASSUME NEW x \in DOMAIN sessions["game"]
      PROVE  /\ x \in Key
             /\ \E d \in Client : x \in Keys[d] /\ sessions["game"][x].player = world.user[d]
                                /\ player[world.user[d]] # <<>>
  <2>1. sessions["game"] \in Maps(Key, Session)
    BY <1>1 DEF TypeFlow, Server
  <2> QED BY <1>1, <2>1, MapsMember DEF PlayersInv
<1> DEFINE u == sessions["game"][key].player
<1>3. u = world.user[c] /\ player[u] # <<>> /\ u \in User
  BY <1>1, <1>2, KeysOnce
<1> HIDE DEF u
<1>4. player[u] \in DOMAIN sessions["game"] /\ sessions["game"][player[u]].player = u
  BY <1>1, <1>3 DEF PlayersInv
<1>5. PICK d \in Client : player[u] \in Key /\ player[u] \in Keys[d] /\ world.user[d] = u
  BY <1>2, <1>4
<1>6. c \in world.clients /\ d \in world.clients
  <2>1. state[c] # "out" /\ state[d] # "out"
    BY <1>5 DEF Keys
  <2> QED BY <1>1, <2>1 DEF NumbersInv
<1>7. c = d
  BY <1>1, <1>3, <1>5, <1>6 DEF RelayRules, TypePlay
<1> QED BY <1>3, <1>4, <1>5, <1>7 DEF u

LEMMA ProcessObjectStep ==
  ASSUME RelayRules, RelayInv, NEW k \in Link, up[k] # <<>>, up' = [up EXCEPT ![k] = Tail(@)],
         Head(up[k]).kind = "object", ProcessObject(Head(up[k])),
         UNCHANGED <<proxyVars, linkVars, down, sending, asked, got, world>>
  PROVE  RelayInv'
<1> DEFINE m == Head(up[k])
           u == sessions["game"][m.key].player
<1>1. TypeFlow /\ TypePlay /\ PlayersInv /\ sessions \in [Server -> Maps(Key, Session)]
  BY DEF RelayInv, TypeInv, TypeFlow
<1>2. /\ m \in Msg /\ m.key \in Key /\ m.client \in Client /\ m.key \in Keys[m.client]
      /\ m.user \in User /\ m.user = world.user[m.client] /\ k[2] = "game" /\ "game" \in Server
  BY HeadFacts DEF To, Server
<1>3. CASE m.key \in DOMAIN sessions["game"]
  <2>1. /\ sessions' = Put(sessions, "game",
              WithQueue(sessions["game"], player[u], Append(sessions["game"][player[u]].queue, m)))
        /\ UNCHANGED player
    BY <1>1, <1>2, <1>3 DEF ProcessObject, KeyOf, WithQueue, Put
  <2>2. /\ u = world.user[m.client] /\ u \in User
        /\ player[u] \in DOMAIN sessions["game"] /\ player[u] \in Key /\ player[u] \in Keys[m.client]
    BY <1>2, <1>3, PlayerOfSession
  <2> HIDE DEF m, u
  <2>3. \A x \in DOMAIN sessions["game"] : sessions["game"][x].queue = queues["game"][x]
    <3>1. DOMAIN sessions["game"] \subseteq Key
      BY <1>1, <1>2, MapsMember
    <3> QED BY <1>2, <3>1 DEF queues
  <2>4. /\ sessions' \in [Server -> Maps(Key, Session)]
        /\ \A t \in Server : DOMAIN sessions[t] \subseteq DOMAIN sessions'[t]
        /\ DOMAIN sessions'["game"] = DOMAIN sessions["game"]
        /\ \A x \in DOMAIN sessions["game"] : sessions'["game"][x].player = sessions["game"][x].player
        /\ queues' = AddTo(queues, "game", player[u], m)
    <3>1. sessions["game"] \in Maps(Key, Session)
      BY <1>1, <1>2
    <3> QED BY <1>1, <1>2, <2>1, <2>2, <2>3, <3>1, AddMessage
  <2>5. /\ TypeIds' /\ TypeClients' /\ TypeFlow' /\ IdsInv' /\ NumbersInv' /\ Keys' = Keys
        /\ MessagesInv' /\ SendingInv' /\ OrderInv'
    BY <1>2, <2>2, <2>4, TakeStep DEF m
  <2>6. TypePlay'
    BY <1>1, <2>1 DEF TypePlay
  <2>7. PlayersInv'
    <3>1. \A x \in DOMAIN sessions'["game"] : \E c \in Client :
            /\ x \in Keys'[c] /\ sessions'["game"][x].player = world'.user[c]
            /\ player'[world'.user[c]] # <<>>
      <4>1. UNCHANGED <<player, world>> /\ Keys' = Keys
        BY <2>1, <2>5
      <4>2. ASSUME NEW x \in DOMAIN sessions["game"]
            PROVE  \E c \in Client : /\ x \in Keys[c] /\ sessions'["game"][x].player = world.user[c]
                                     /\ player[world.user[c]] # <<>>
        BY <1>1, <2>4 DEF PlayersInv
      <4> QED BY <2>4, <4>1, <4>2
    <3>2. \A v \in User : player'[v] # <<>> =>
            /\ player'[v] \in DOMAIN sessions'["game"] /\ sessions'["game"][player'[v]].player = v
      BY <1>1, <2>1, <2>4 DEF PlayersInv
    <3> QED BY <3>1, <3>2 DEF PlayersInv
  <2> QED BY <2>5, <2>6, <2>7 DEF RelayInv, TypeInv
<1>4. CASE m.key \notin DOMAIN sessions["game"]
  <2>1. UNCHANGED <<sessions, player, acted>>
    BY <1>4 DEF ProcessObject, KeyOf
  <2>2. /\ TypeIds' /\ TypeClients' /\ TypeFlow' /\ IdsInv' /\ NumbersInv' /\ Keys' = Keys
        /\ MessagesInv' /\ SendingInv' /\ OrderInv'
    <3>1. queues' = queues
      BY <2>1 DEF queues
    <3>2. sessions' \in [Server -> Maps(Key, Session)]
      BY <1>1, <2>1
    <3>3. \A s \in Server : DOMAIN sessions[s] \subseteq DOMAIN sessions'[s]
      BY <2>1
    <3> QED BY <3>1, <3>2, <3>3, TakeStep
  <2>3. TypePlay' /\ PlayersInv'
    BY <1>1, <2>1, <2>2 DEF TypePlay, PlayersInv
  <2> QED BY <2>2, <2>3 DEF RelayInv, TypeInv
<1> QED BY <1>3, <1>4

\* NEW_USER_LOGIN: the client's session and the user's player find each other.
LEMMA ProcessLoginStep ==
  ASSUME RelayRules, RelayInv, NEW k \in Link, up[k] # <<>>, up' = [up EXCEPT ![k] = Tail(@)],
         Head(up[k]).kind = "login", ProcessLogin(Head(up[k])),
         UNCHANGED <<proxyVars, linkVars, down, sending, asked, got, world>>
  PROVE  RelayInv'
<1> DEFINE m == Head(up[k])
           with == Insert(sessions["game"], m.key, NewSession)
           f == [with EXCEPT ![m.key].player = m.user]
<1>1. /\ TypeClients /\ TypeFlow /\ TypePlay /\ NumbersInv /\ PlayersInv
      /\ sessions \in [Server -> Maps(Key, Session)] /\ player \in [User -> Key \cup {<<>>}]
  BY DEF RelayInv, TypeInv, TypeFlow, TypePlay
<1>2. /\ m \in Msg /\ m.key \in Key /\ m.client \in Client /\ m.key \in Keys[m.client]
      /\ m.user \in User /\ m.user = world.user[m.client] /\ k[2] = "game" /\ "game" \in Server
  BY HeadFacts DEF To, Server
<1>3. /\ sessions' = [sessions EXCEPT !["game"] = f]
      /\ player' = [player EXCEPT ![m.user] = m.key] /\ UNCHANGED acted
  BY DEF ProcessLogin, KeyOf
<1> HIDE DEF m
<1>4. /\ with \in Maps(Key, Session) /\ DOMAIN with = DOMAIN sessions["game"] \cup {m.key}
      /\ \A x \in DOMAIN sessions["game"] : with[x] = sessions["game"][x]
      /\ \A x \in DOMAIN with : with[x].queue = queues["game"][x]
  BY <1>1, <1>2, WithSession
<1> HIDE DEF with
<1>5. DOMAIN with \subseteq Key /\ \A x \in DOMAIN with : with[x] \in Session
  BY <1>4, MapsMember
<1>6. /\ DOMAIN f = DOMAIN with /\ f = [x \in DOMAIN f |-> f[x]]
      /\ f[m.key] = [with[m.key] EXCEPT !.player = m.user]
      /\ \A x \in DOMAIN with \ {m.key} : f[x] = with[x]
  BY <1>4
<1> HIDE DEF f
<1>7. /\ f[m.key] \in Session /\ f[m.key].player = m.user /\ f[m.key].queue = with[m.key].queue
  BY <1>2, <1>4, <1>5, <1>6 DEF Session
<1>8. f \in Maps(Key, Session)
  BY <1>5, <1>6, <1>7, MapsMember
<1>9. \A t \in Server : sessions'[t] = IF t = "game" THEN f ELSE sessions[t]
  BY <1>1, <1>3
<1>10. sessions' \in [Server -> Maps(Key, Session)]
  BY <1>1, <1>3, <1>8
<1>11. \A t \in Server : DOMAIN sessions[t] \subseteq DOMAIN sessions'[t]
  BY <1>4, <1>6, <1>9
<1>12. queues' = queues
  <2>1. ASSUME NEW t \in Server, NEW x \in Key
        PROVE  queues'[t][x] = queues[t][x]
    <3>1. CASE t # "game"
      BY <1>9, <3>1 DEF queues
    <3>2. CASE t = "game"
      <4>1. queues'[t][x] = IF x \in DOMAIN f THEN f[x].queue ELSE <<>>
        BY <1>2, <1>9, <3>2 DEF queues
      <4>2. x \notin DOMAIN with => queues[t][x] = <<>>
        BY <1>2, <1>4, <3>2 DEF queues
      <4> QED BY <1>4, <1>6, <1>7, <3>2, <4>1, <4>2
    <3> QED BY <3>1, <3>2
  <2> QED BY <2>1 DEF queues
<1>13. /\ TypeIds' /\ TypeClients' /\ TypeFlow' /\ IdsInv' /\ NumbersInv' /\ Keys' = Keys
       /\ MessagesInv' /\ SendingInv' /\ OrderInv'
  BY <1>10, <1>11, <1>12, TakeStep
<1>14. TypePlay'
  <2>1. player' \in [User -> Key \cup {<<>>}]
    BY <1>1, <1>2, <1>3
  <2> QED BY <1>1, <1>3, <2>1 DEF TypePlay
<1>15. m.key # <<>> /\ \A u \in User : player'[u] = IF u = m.user THEN m.key ELSE player[u]
  <2>1. m.key # <<>>
    BY <1>2, KeyIsPair
  <2> QED BY <1>1, <1>2, <1>3, <2>1
<1>16. ASSUME NEW x \in DOMAIN sessions'["game"]
       PROVE  \E c \in Client : /\ x \in Keys[c] /\ sessions'["game"][x].player = world.user[c]
                                /\ player'[world.user[c]] # <<>>
  <2>1. CASE x = m.key
    BY <1>2, <1>7, <1>9, <1>15, <2>1
  <2>2. CASE x # m.key
    <3>1. x \in DOMAIN sessions["game"] /\ sessions'["game"][x] = sessions["game"][x]
      BY <1>2, <1>4, <1>6, <1>9, <1>16, <2>2
    <3>2. PICK c \in Client : /\ x \in Keys[c] /\ sessions["game"][x].player = world.user[c]
                              /\ player[world.user[c]] # <<>>
      BY <1>1, <3>1 DEF PlayersInv
    <3>3. world.user[c] \in User
      BY <1>1, WorldTypes
    <3> QED BY <1>15, <3>1, <3>2, <3>3
  <2> QED BY <2>1, <2>2
<1>17. ASSUME NEW u \in User, player'[u] # <<>>
       PROVE  player'[u] \in DOMAIN sessions'["game"] /\ sessions'["game"][player'[u]].player = u
  <2>1. CASE u = m.user
    BY <1>2, <1>4, <1>6, <1>7, <1>9, <1>15, <2>1
  <2>2. CASE u # m.user
    <3>1. /\ player'[u] = player[u] /\ player[u] \in DOMAIN sessions["game"]
          /\ sessions["game"][player[u]].player = u
      BY <1>1, <1>15, <1>17, <2>2 DEF PlayersInv
    <3>2. player[u] # m.key
      <4>1. ASSUME m.key \in DOMAIN sessions["game"]
            PROVE  sessions["game"][m.key].player = m.user
        BY <1>2, <4>1, PlayerOfSession
      <4> QED BY <2>2, <3>1, <4>1
    <3> QED BY <1>2, <1>4, <1>6, <1>9, <3>1, <3>2
  <2> QED BY <2>1, <2>2
<1>18. PlayersInv'
  BY <1>13, <1>16, <1>17 DEF PlayersInv
<1> QED BY <1>13, <1>14, <1>18 DEF RelayInv, TypeInv

LEMMA ProcessStep ==
  ASSUME RelayRules, RelayInv, NEW k \in Link, Process(k), UNCHANGED world
  PROVE  RelayInv'
<1>1. /\ up[k] # <<>> /\ up' = [up EXCEPT ![k] = Tail(@)]
      /\ UNCHANGED <<proxyVars, linkVars, down, sending, asked, got>>
  BY DEF Process
<1>2. Head(up[k]).kind \in Kind
  BY <1>1, HeadFacts
<1>3. CASE Head(up[k]).kind = "enter"
  BY <1>1, <1>3, ProcessRoleStep DEF Process
<1>4. CASE Head(up[k]).kind = "login"
  BY <1>1, <1>4, ProcessLoginStep DEF Process
<1>5. CASE Head(up[k]).kind = "object"
  BY <1>1, <1>5, ProcessObjectStep DEF Process
<1> QED BY <1>2, <1>3, <1>4, <1>5 DEF Kind

-----------------------------------------------------------------------------
(* The theorems                                                            *)

LEMMA RelayInvHolds ==
  ASSUME RelayRules
  PROVE  Spec => []RelayInv
<1>1. Init => RelayInv
  BY RelayInit
<1>2. RelayInv /\ [Next]_vars => RelayInv'
  <2> SUFFICES ASSUME RelayInv, [Next]_vars
               PROVE  RelayInv'
    OBVIOUS
  <2>1. CASE UNCHANGED vars
    <3>1. UNCHANGED <<proxyVars, linkVars, up, down, serverVars, asked, got, world>>
      BY <2>1 DEF vars
    <3>2. /\ TypeIds' /\ TypeClients' /\ TypePlay' /\ IdsInv' /\ NumbersInv' /\ PlayersInv'
          /\ Keys' = Keys /\ queues' = queues
      BY <3>1, SameRest DEF RelayInv, serverVars
    <3>3. TypeFlow' /\ MessagesInv' /\ SendingInv' /\ OrderInv'
      BY <3>1, <3>2 DEF RelayInv, TypeInv, TypeFlow, MessagesInv, UpInv, QueueInv, DownInv, GotInv,
         SendingInv, OrderInv, UpOrder, QueueOrder, DownOrder, GotOrder, serverVars, linkVars
    <3> QED BY <3>2, <3>3 DEF RelayInv, TypeInv
  <2>2. CASE Next
    <3>1. UNCHANGED world
      BY <2>2 DEF Next
    <3>2. ASSUME NEW c \in Client, Create(c)
          PROVE  RelayInv'
      BY <3>1, <3>2, CreateStep
    <3>3. ASSUME NEW c \in Client, ReadCode(c)
          PROVE  RelayInv'
      BY <3>1, <3>3, ReadCodeStep
    <3>4. ASSUME NEW c \in Client, Leave(c)
          PROVE  RelayInv'
      BY <3>1, <3>4, LeaveStep
    <3>5. ASSUME NEW c \in Client, NEW kind \in world.kinds, ReadClient(c, kind)
          PROVE  RelayInv'
      BY <3>1, <3>5, ReadClientStep
    <3>6. ASSUME NEW k \in Link, Break(k)
          PROVE  RelayInv'
      BY <3>1, <3>6, BreakStep
    <3>7. ASSUME NEW p \in Proxy, Rejoin(p)
          PROVE  RelayInv'
      BY <3>1, <3>7, RejoinStep
    <3>8. ASSUME NEW k \in Link, ReadServer(k)
          PROVE  RelayInv'
      BY <3>1, <3>8, ReadServerStep
    <3>9. ASSUME NEW k \in Link, Process(k)
          PROVE  RelayInv'
      BY <3>1, <3>9, ProcessStep
    <3>10. ASSUME NEW s \in Server, PopBatch(s)
           PROVE  RelayInv'
      BY <3>1, <3>10, PopBatchStep
    <3>11. ASSUME NEW s \in Server, NEW key \in DOMAIN sessions[s], SendBatch(s, key)
           PROVE  RelayInv'
      BY <3>1, <3>11, SendBatchStep
    <3> QED BY <2>2, <3>2, <3>3, <3>4, <3>5, <3>6, <3>7, <3>8, <3>9, <3>10, <3>11 DEF Next, Runs
  <2> QED BY <2>1, <2>2
<1> QED BY <1>1, <1>2, PTL DEF Spec

\* Under the rules every client gets answers to its own messages only, whoever
\* left, broke off or joined again, and those of one connection under one id in
\* the order of its messages and once (ServerObject::OnRead, PopBatch).
THEOREM AnswersComeHome ==
  ASSUME RelayRules
  PROVE  Spec => []AnswerToAsker
<1>1. RelayInv => AnswerToAsker
  <2> SUFFICES ASSUME RelayInv, NEW c \in Client, NEW i \in DOMAIN got[c]
               PROVE  /\ got[c][i].client = c
                      /\ \A j \in 1..(i - 1) :
                           Via(got[c][j]) = Via(got[c][i]) /\ got[c][j].key = got[c][i].key
                           => got[c][j].num < got[c][i].num
    BY DEF AnswerToAsker
  <2>1. /\ \A m \in ToSet(got[c]) : m.client = c
        /\ OrderedByKey(asked, got[c]) /\ got[c] \in Seq(Msg)
    BY DEF RelayInv, TypeInv, TypeFlow, MessagesInv, GotInv, OrderInv, GotOrder
  <2>2. \A j \in DOMAIN got[c] : got[c][j] \in ToSet(got[c])
    BY DEF ToSet
  <2>3. \A j \in 1..(i - 1) : j \in DOMAIN got[c] /\ j < i
    BY <2>1
  <2> QED BY <2>1, <2>2, <2>3 DEF OrderedByKey, Before, ViaOf, Via
<1>2. Spec => []RelayInv
  BY RelayInvHolds
<1> QED BY <1>1, <1>2, PTL

-----------------------------------------------------------------------------
(* Players, where numbers come round                                       *)

\* What the promise on players rests on: nothing that ActsAsUser does not hold
\* without.  A number is not given out again while its client is there, and where
\* numbers come round a proxy does not lose connections and join again both: what
\* an earlier client sent over a connection that broke could be read after what
\* the next one sends over the new connection.
ReuseRules ==
  /\ IdRules
  /\ \A w \in Worlds : "clash" \notin w.events /\ ~({"wrap", "break", "rejoin"} \subseteq w.events)

\* Whom an object message of a key acts on
players == [key \in DOMAIN sessions["game"] |-> sessions["game"][key].player]

\* Before its n-th question the client asked for a login.
HasLogin(a, c, n) == \E i \in 1..(n - 1) : a[c][i].kind = "login"

\* With the players f, an object message of the key behind the first n of q finds a
\* player of the user u, or none: the one of the last login of the key, or the one
\* that is there.
IsLogin(m, key) == m.kind = "login" /\ m.key = key
Finds(f, q, n, key, u) ==
  /\ \A i \in 1..n : IsLogin(q[i], key) /\ (\A j \in (i + 1)..n : ~IsLogin(q[j], key)) => q[i].user = u
  /\ (\A j \in 1..n : ~IsLogin(q[j], key)) /\ key \in DOMAIN f => f[key] = u

GameLink == [p \in Proxy |-> <<p, "game", 1>>]
KeyNow   == [c \in Client |-> <<proxyID[Home[c]], clientID[c]>>]

TypeSessions ==
  /\ DOMAIN sessions = Server
  /\ \A x \in DOMAIN sessions["game"] : DOMAIN sessions["game"][x] = {"queue", "player"}

PlayTypes ==
  /\ TypeIds /\ TypeClients /\ IdsInv /\ TypeSessions /\ world \in Worlds
  /\ up \in [Link -> Seq(Msg)] /\ asked \in [Client -> Seq(Asked)]

\* What a client sent is under one of its keys; it asks after its code was read.
SentInv ==
  /\ \A k \in Link : \A m \in ToSet(up[k]) :
       /\ m.key \in Keys[m.client] /\ m.user = world.user[m.client]
       /\ m.num \in 1..Len(asked[m.client]) /\ k[1] = Home[m.client] /\ k[2] = To(m.kind)
  /\ \A c \in Client : state[c] \in {"out", "open"} => asked[c] = <<>>

\* A session is of a client that has or had its number.
OwnedInv == \A key \in DOMAIN players : \E c \in Client : key \in Keys[c]

ActedInv == \A a \in acted :
  /\ a.client \in Client /\ a.num \in 1..Len(asked[a.client])
  /\ "wrap" \notin world.events \/ HasLogin(asked, a.client, a.num) => a.user = world.user[a.client]

\* Where no number comes round a key is one client's, and so is its player.
PlainInv ==
  /\ \A c, d \in Client :
        state[c] # "out" /\ state[d] # "out" /\ Home[c] = Home[d] /\ clientID[c] = clientID[d] => c = d
  /\ \A c \in Client : \A key \in DOMAIN players : key \in Keys[c] => players[key] = world.user[c]

\* Where they do, a proxy has its first connection to the game server, or none any
\* more, and all that was ever sent is on it.
ReuseLinks ==
  /\ \A p \in Proxy : /\ "game" \in DOMAIN servers[p] => servers[p]["game"] = GameLink[p] /\ GameLink[p] \in alive
                      /\ "break" \notin world.events => "game" \in DOMAIN servers[p]
  /\ \A k \in Link : up[k] # <<>> /\ k[2] = "game" => k = GameLink[k[1]]

\* A client that is there is the one of its number.
ReuseClients == \A c \in Client : state[c] \in {"open", "in", "refused"} =>
  clientID[c] \in DOMAIN clients[Home[c]] /\ clients[Home[c]][clientID[c]] = c

\* On the way, an object message behind its client's login finds the client's player,
ReuseUp == \A k \in Link : \A i \in 1..Len(up[k]) :
  up[k][i].kind = "object" /\ HasLogin(asked, up[k][i].client, up[k][i].num)
  => Finds(players, up[k], i - 1, up[k][i].key, up[k][i].user)

\* and so will the next one of a client that has logged in.
ReuseNext == \A c \in Client :
  state[c] = "in" /\ HasLogin(asked, c, Len(asked[c]) + 1) /\ "game" \in DOMAIN servers[Home[c]]
  => Finds(players, up[GameLink[Home[c]]], Len(up[GameLink[Home[c]]]), KeyNow[c], world.user[c])

ReuseInv == ReuseLinks /\ ReuseClients /\ ReuseUp /\ ReuseNext

PlayInv ==
  /\ PlayTypes /\ SentInv /\ OwnedInv /\ ActedInv
  /\ "wrap" \notin world.events => PlainInv
  /\ "wrap" \in world.events => ReuseInv

LEMMA FindsAppend ==
  ASSUME NEW f, NEW q \in Seq(Msg), NEW m \in Msg, NEW key, NEW u
  PROVE  /\ \A n \in 0..Len(q) : Finds(f, q, n, key, u) => Finds(f, Append(q, m), n, key, u)
         /\ ~IsLogin(m, key) /\ Finds(f, q, Len(q), key, u) => Finds(f, Append(q, m), Len(q) + 1, key, u)
         /\ IsLogin(m, key) /\ m.user = u => Finds(f, Append(q, m), Len(q) + 1, key, u)
<1> DEFINE r == Append(q, m)
<1>1. Len(q) \in Nat /\ r[Len(q) + 1] = m /\ \A i \in 1..Len(q) : r[i] = q[i]
  OBVIOUS
<1> HIDE DEF r
<1>2. ASSUME NEW n \in 0..Len(q), Finds(f, q, n, key, u)
      PROVE  Finds(f, r, n, key, u)
  <2>1. \A i \in 1..n : r[i] = q[i]
    BY <1>1
  <2>2. \A i \in 1..n : \A j \in (i + 1)..n : r[j] = q[j]
    BY <2>1
  <2> QED BY <1>2, <2>1, <2>2 DEF Finds
<1>3. ASSUME ~IsLogin(m, key), Finds(f, q, Len(q), key, u)
      PROVE  Finds(f, r, Len(q) + 1, key, u)
  <2>1. ASSUME NEW i \in 1..(Len(q) + 1), IsLogin(r[i], key), \A j \in (i + 1)..(Len(q) + 1) : ~IsLogin(r[j], key)
        PROVE  r[i].user = u
    <3>1. i \in 1..Len(q) /\ r[i] = q[i]
      BY <1>1, <1>3, <2>1
    <3>2. \A j \in (i + 1)..Len(q) : ~IsLogin(q[j], key)
      BY <1>1, <2>1, <3>1
    <3> QED BY <1>3, <2>1, <3>1, <3>2 DEF Finds
  <2>2. ASSUME \A j \in 1..(Len(q) + 1) : ~IsLogin(r[j], key), key \in DOMAIN f
        PROVE  f[key] = u
    <3>1. \A j \in 1..Len(q) : ~IsLogin(q[j], key)
      BY <1>1, <2>2
    <3> QED BY <1>3, <2>2, <3>1 DEF Finds
  <2> QED BY <2>1, <2>2 DEF Finds
<1>4. ASSUME IsLogin(m, key), m.user = u
      PROVE  Finds(f, r, Len(q) + 1, key, u)
  <2>1. ASSUME NEW i \in 1..(Len(q) + 1), \A j \in (i + 1)..(Len(q) + 1) : ~IsLogin(r[j], key)
        PROVE  i = Len(q) + 1
    BY <1>1, <1>4, <2>1
  <2> QED BY <1>1, <1>4, <2>1 DEF Finds
<1> QED BY <1>2, <1>3, <1>4 DEF r

\* The first message is processed, and the players are then those of g.
LEMMA FindsTail ==
  ASSUME NEW f, NEW g, NEW q \in Seq(Msg), q # <<>>, NEW n \in 1..Len(q), NEW key, NEW u,
         Finds(f, q, n, key, u),
         IsLogin(Head(q), key) => key \in DOMAIN g /\ g[key] = Head(q).user,
         ~IsLogin(Head(q), key) /\ key \in DOMAIN g => key \in DOMAIN f /\ g[key] = f[key]
  PROVE  Finds(g, Tail(q), n - 1, key, u)
<1> DEFINE r == Tail(q)
<1>1. Len(q) \in Nat \ {0} /\ Head(q) = q[1] /\ \A i \in 1..(Len(q) - 1) : r[i] = q[i + 1]
  OBVIOUS
<1> HIDE DEF r
<1>2. ASSUME NEW i \in 1..(n - 1), IsLogin(r[i], key), \A j \in (i + 1)..(n - 1) : ~IsLogin(r[j], key)
      PROVE  r[i].user = u
  <2>1. i + 1 \in 1..n /\ r[i] = q[i + 1]
    BY <1>1
  <2>2. ASSUME NEW j \in (i + 2)..n
        PROVE  ~IsLogin(q[j], key)
    <3>1. j - 1 \in (i + 1)..(n - 1) /\ r[j - 1] = q[j]
      BY <1>1
    <3> QED BY <1>2, <3>1
  <2> QED BY <1>2, <2>1, <2>2 DEF Finds
<1>3. ASSUME \A j \in 1..(n - 1) : ~IsLogin(r[j], key), key \in DOMAIN g
      PROVE  g[key] = u
  <2>1. ASSUME NEW j \in 2..n
        PROVE  ~IsLogin(q[j], key)
    <3>1. j - 1 \in 1..(n - 1) /\ r[j - 1] = q[j]
      BY <1>1
    <3> QED BY <1>3, <3>1
  <2>2. 1 \in 1..n
    OBVIOUS
  <2>3. CASE IsLogin(Head(q), key)
    BY <1>1, <2>1, <2>2, <2>3 DEF Finds
  <2>4. CASE ~IsLogin(Head(q), key)
    <3>1. \A j \in 1..n : ~IsLogin(q[j], key)
      BY <1>1, <2>1, <2>4
    <3> QED BY <1>3, <2>4, <3>1 DEF Finds
  <2> QED BY <2>3, <2>4
<1> QED BY <1>2, <1>3 DEF Finds, r

LEMMA FindsElse ==
  ASSUME NEW f, NEW g, NEW q, NEW n, NEW key, NEW u, Finds(f, q, n, key, u),
         key \in DOMAIN g => key \in DOMAIN f /\ g[key] = f[key]
  PROVE  Finds(g, q, n, key, u)
BY DEF Finds

\* In b the client c has asked one question of that kind more than in a.
OneMore(a, b, c, kind) ==
  /\ b \in [Client -> Seq(Asked)]
  /\ \A d \in Client : Len(a[d]) <= Len(b[d]) /\ Len(a[d]) \in Nat /\ Len(b[d]) \in Nat
  /\ \A d \in Client \ {c} : b[d] = a[d] /\ \A n : HasLogin(b, d, n) <=> HasLogin(a, d, n)
  /\ Len(b[c]) = Len(a[c]) + 1
  /\ \A d \in Client : \A n \in 1..Len(b[d]) : HasLogin(b, d, n) <=> HasLogin(a, d, n)
  /\ HasLogin(b, c, Len(b[c]) + 1) <=> HasLogin(a, c, Len(a[c]) + 1) \/ kind = "login"

LEMMA MoreAsked ==
  ASSUME NEW a \in [Client -> Seq(Asked)], NEW c \in Client, NEW x \in Asked,
         NEW b, b = [a EXCEPT ![c] = Append(@, x)]
  PROVE  OneMore(a, b, c, x.kind)
<1>1. /\ b \in [Client -> Seq(Asked)] /\ \A d \in Client \ {c} : b[d] = a[d]
      /\ b[c] = Append(a[c], x)
  OBVIOUS
<1>2. /\ Len(b[c]) = Len(a[c]) + 1 /\ b[c][Len(a[c]) + 1] = x
      /\ \A i \in 1..Len(a[c]) : b[c][i] = a[c][i]
      /\ \A d \in Client : Len(a[d]) \in Nat /\ Len(b[d]) \in Nat
  BY <1>1
<1>3. ASSUME NEW d \in Client, NEW n \in 1..Len(b[d])
      PROVE  HasLogin(b, d, n) <=> HasLogin(a, d, n)
  <2>1. CASE d = c
    <3>1. Len(a[c]) \in Nat /\ n \in 1..(Len(a[c]) + 1)
      BY <1>2, <2>1
    <3>2. \A i \in 1..(n - 1) : i \in 1..Len(a[c])
      BY <3>1
    <3>3. \A i \in 1..(n - 1) : b[d][i] = a[d][i]
      BY <1>2, <2>1, <3>2
    <3> QED BY <3>3 DEF HasLogin
  <2>2. CASE d # c
    BY <1>1, <2>2 DEF HasLogin
  <2> QED BY <2>1, <2>2
<1>4. HasLogin(b, c, Len(b[c]) + 1) <=> HasLogin(a, c, Len(a[c]) + 1) \/ x.kind = "login"
  <2>1. (Len(b[c]) + 1) - 1 = Len(a[c]) + 1 /\ (Len(a[c]) + 1) - 1 = Len(a[c]) /\ Len(a[c]) \in Nat
    BY <1>2
  <2>2. ASSUME HasLogin(b, c, Len(b[c]) + 1)
        PROVE  HasLogin(a, c, Len(a[c]) + 1) \/ x.kind = "login"
    <3>1. PICK i \in 1..(Len(a[c]) + 1) : b[c][i].kind = "login"
      BY <2>1, <2>2 DEF HasLogin
    <3>2. CASE i = Len(a[c]) + 1
      BY <1>2, <3>1, <3>2
    <3>3. CASE i # Len(a[c]) + 1
      <4>1. i \in 1..Len(a[c]) /\ a[c][i].kind = "login"
        BY <1>2, <2>1, <3>1, <3>3
      <4> QED BY <2>1, <4>1 DEF HasLogin
    <3> QED BY <3>2, <3>3
  <2>3. ASSUME HasLogin(a, c, Len(a[c]) + 1) \/ x.kind = "login"
        PROVE  HasLogin(b, c, Len(b[c]) + 1)
    <3>1. \E i \in 1..(Len(a[c]) + 1) : b[c][i].kind = "login"
      <4>1. CASE HasLogin(a, c, Len(a[c]) + 1)
        <5>1. PICK i \in 1..Len(a[c]) : a[c][i].kind = "login"
          BY <2>1, <4>1 DEF HasLogin
        <5> QED BY <1>2, <2>1, <5>1
      <4>2. CASE x.kind = "login"
        BY <1>2, <2>1, <4>2
      <4> QED BY <2>3, <4>1, <4>2
    <3> QED BY <2>1, <3>1 DEF HasLogin
  <2> QED BY <2>2, <2>3
<1>5. \A d \in Client : Len(a[d]) <= Len(b[d])
  <2>1. ASSUME NEW d \in Client
        PROVE  Len(a[d]) <= Len(b[d])
    <3>1. CASE d = c
      BY <1>2, <3>1
    <3>2. CASE d # c
      BY <1>1, <1>2, <3>2
    <3> QED BY <3>1, <3>2
  <2> QED BY <2>1
<1>6. /\ b \in [Client -> Seq(Asked)]
      /\ \A d \in Client : Len(a[d]) <= Len(b[d]) /\ Len(a[d]) \in Nat /\ Len(b[d]) \in Nat
      /\ \A d \in Client \ {c} : b[d] = a[d]
      /\ Len(b[c]) = Len(a[c]) + 1
      /\ \A d \in Client : \A n \in 1..Len(b[d]) : HasLogin(b, d, n) <=> HasLogin(a, d, n)
  BY <1>1, <1>2, <1>3, <1>5
<1>7. ASSUME NEW d \in Client \ {c}, NEW n
      PROVE  HasLogin(b, d, n) <=> HasLogin(a, d, n)
  BY <1>1 DEF HasLogin
<1> QED BY <1>4, <1>6, <1>7 DEF OneMore

LEMMA OneOwner ==
  ASSUME NEW p \in Proxy, NEW q \in Proxy, NEW i, i \in Given[p], i \in Given[q]
  PROVE  p = q
BY DEF Given, Server

\* What is on the way has its client's home, and its key is there.
LEMMA SentFacts ==
  ASSUME PlayTypes, SentInv, NEW k \in Link, NEW m \in ToSet(up[k])
  PROVE  /\ m \in Msg /\ m.client \in Client /\ m.key \in Key /\ m.user \in User /\ m.kind \in Kind
         /\ m.key \in Keys[m.client] /\ m.key[1] \in Given[k[1]] /\ k[1] \in Proxy
         /\ m.user = world.user[m.client] /\ m.num \in 1..Len(asked[m.client]) /\ k[2] = To(m.kind)
<1>1. up[k] \in Seq(Msg)
  BY DEF PlayTypes
<1>2. m \in Msg
  BY <1>1, ToSetType
<1>3. /\ m.key \in Keys[m.client] /\ m.user = world.user[m.client]
      /\ m.num \in 1..Len(asked[m.client]) /\ k[1] = Home[m.client] /\ k[2] = To(m.kind)
  BY DEF SentInv
<1>4. m.client \in Client /\ m.key \in Key /\ m.user \in User /\ m.kind \in Kind
  BY <1>2 DEF Msg
<1> QED BY <1>2, <1>3, <1>4 DEF Keys, Link

LEMMA GameLinks ==
  \A p \in Proxy : GameLink[p] \in Link /\ GameLink[p][1] = p /\ GameLink[p][2] = "game"
BY RelayAssumption DEF GameLink, Link, Server

LEMMA PlayInit ==
  ASSUME ReuseRules, Init
  PROVE  PlayInv
<1>1. TypeIds /\ TypeClients /\ IdsInv
  BY IdsInit DEF ReuseRules
<1>2. /\ world \in Worlds /\ acted = {} /\ sessions = [s \in Server |-> <<>>]
      /\ up = [k \in Link |-> <<>>] /\ asked = [c \in Client |-> <<>>]
      /\ state = [c \in Client |-> "out"]
      /\ servers = [p \in Proxy |-> [s \in Server |-> <<p, s, 1>>]]
      /\ alive = Proxy \X Server \X {1}
  BY DEF Init
<1>3. sessions["game"] = <<>> /\ DOMAIN <<>> = {} /\ "game" \in Server
  BY <1>2 DEF Server
<1>4. PlayTypes
  BY <1>1, <1>2, <1>3 DEF PlayTypes, TypeSessions
<1>5. DOMAIN players = {}
  BY <1>3 DEF players
<1>6. SentInv /\ OwnedInv /\ ActedInv /\ PlainInv
  BY <1>2, <1>5 DEF SentInv, ToSet, OwnedInv, ActedInv, PlainInv
<1>7. ReuseLinks
  BY <1>2, <1>3 DEF ReuseLinks, GameLink
<1>8. ReuseClients /\ ReuseUp /\ ReuseNext
  BY <1>2 DEF ReuseClients, ReuseUp, ReuseNext
<1> QED BY <1>4, <1>6, <1>7, <1>8 DEF PlayInv, ReuseInv

\* Steps that only move answers
LEMMA QuietStep ==
  ASSUME PlayInv, UNCHANGED <<proxyVars, linkVars, up, asked, acted, world, players>>, TypeSessions'
  PROVE  PlayInv'
<1>1. Keys' = Keys /\ KeyNow' = KeyNow /\ Given' = Given
  BY SameKeys DEF proxyVars, linkVars, KeyNow
<1>2. PlayTypes'
  <2>1. TypeIds' /\ IdsInv'
    BY SameIds DEF PlayInv, PlayTypes, proxyVars
  <2> QED BY <2>1 DEF PlayInv, PlayTypes, TypeClients, proxyVars
<1>3. SentInv' /\ OwnedInv' /\ ActedInv'
  BY <1>1 DEF PlayInv, SentInv, OwnedInv, ActedInv, proxyVars
<1>4. PlainInv => PlainInv'
  BY <1>1 DEF PlainInv, proxyVars
<1>5. ReuseInv => ReuseInv'
  BY <1>1 DEF ReuseInv, ReuseLinks, ReuseClients, ReuseUp, ReuseNext, proxyVars, linkVars
<1> QED BY <1>2, <1>3, <1>4, <1>5 DEF PlayInv

\* The code is read, or the client leaves.
LEMMA ClientStep ==
  ASSUME PlayInv, NEW c \in Client, NEW x \in {"in", "refused", "left"},
         state[c] \in {"open", "in", "refused"}, state[c] = "open" \/ x = "left",
         state' = [state EXCEPT ![c] = x],
         IF x = "left" THEN clients' = [clients EXCEPT ![Home[c]] = Erase(@, clientID[c])]
                       ELSE UNCHANGED clients,
         UNCHANGED <<proxyID, maxID, curID, clientID, servers, linkVars, up, asked, acted, sessions, world>>
  PROVE  PlayInv'
<1>1. PlayTypes /\ TypeClients /\ clients \in [Proxy -> Maps(Nat, Client)] /\ Home[c] \in Proxy
      /\ state \in [Client -> {"out", "open", "in", "refused", "left"}]
  BY RelayAssumption DEF PlayInv, PlayTypes, TypeClients
<1>2. state'[c] = x /\ \A d \in Client \ {c} : state'[d] = state[d]
  BY <1>1
<1>3. \A d \in Client : state'[d] # "out" <=> state[d] # "out"
  BY <1>2
<1>4. Given' = Given /\ KeyNow' = KeyNow /\ players' = players
  BY DEF Given, KeyNow, players, linkVars
<1>5. Keys' = Keys
  BY <1>3, <1>4 DEF Keys
<1>6. TypeClients'
  <2>1. clients' \in [Proxy -> Maps(Nat, Client)]
    <3>1. Erase(clients[Home[c]], clientID[c]) \in Maps(Nat, Client)
      BY <1>1, EraseProperties
    <3> QED BY <1>1, <3>1
  <2> QED BY <1>1, <2>1 DEF TypeClients
<1>7. PlayTypes'
  <2>1. TypeIds' /\ IdsInv'
    BY <1>1, SameIds DEF PlayTypes
  <2> QED BY <1>1, <1>6, <2>1 DEF PlayTypes, TypeSessions
<1>8. SentInv' /\ OwnedInv' /\ ActedInv'
  <2>1. SentInv'
    BY <1>2, <1>5 DEF PlayInv, SentInv
  <2> QED BY <1>4, <1>5, <2>1 DEF PlayInv, OwnedInv, ActedInv
<1>9. PlainInv => PlainInv'
  BY <1>3, <1>4, <1>5 DEF PlainInv
<1>10. ASSUME ReuseInv
       PROVE  ReuseInv'
  <2>1. ReuseLinks' /\ ReuseUp'
    BY <1>4, <1>10 DEF ReuseInv, ReuseLinks, ReuseUp, linkVars
  <2>2. ASSUME NEW d \in Client, state'[d] \in {"open", "in", "refused"}
        PROVE  clientID'[d] \in DOMAIN clients'[Home[d]] /\ clients'[Home[d]][clientID'[d]] = d
    <3>1. state[d] \in {"open", "in", "refused"}
      BY <1>2, <2>2
    <3>2. /\ clientID[d] \in DOMAIN clients[Home[d]] /\ clients[Home[d]][clientID[d]] = d
          /\ clientID[c] \in DOMAIN clients[Home[c]] /\ clients[Home[c]][clientID[c]] = c
          /\ Home[d] \in Proxy
      BY <1>10, <3>1, RelayAssumption DEF ReuseInv, ReuseClients
    <3>3. CASE x # "left" \/ Home[d] # Home[c]
      BY <1>1, <3>2, <3>3
    <3>4. CASE x = "left" /\ Home[d] = Home[c]
      <4>1. clients'[Home[d]] = Erase(clients[Home[d]], clientID[c]) /\ d # c
        BY <1>1, <1>2, <2>2, <3>4
      <4>2. clientID[d] # clientID[c]
        BY <3>2, <3>4, <4>1
      <4>3. clientID[d] \in DOMAIN clients'[Home[d]] /\ clients'[Home[d]][clientID[d]] = d
        BY <3>2, <4>1, <4>2 DEF Erase
      <4> QED BY <4>3
    <3> QED BY <3>3, <3>4
  <2>3. ReuseNext'
    <3>1. ASSUME NEW d \in Client, state'[d] = "in", HasLogin(asked, d, Len(asked[d]) + 1)
          PROVE  state[d] = "in"
      <4>1. CASE d # c
        BY <1>2, <3>1, <4>1
      <4>2. CASE d = c
        <5>1. asked[c] = <<>>
          BY <1>2, <3>1, <4>2 DEF PlayInv, SentInv
        <5> QED BY <3>1, <4>2, <5>1 DEF HasLogin
      <4> QED BY <4>1, <4>2
    <3> QED BY <1>4, <1>10, <3>1 DEF ReuseInv, ReuseNext
  <2> QED BY <2>1, <2>2, <2>3 DEF ReuseInv, ReuseClients
<1> QED BY <1>7, <1>8, <1>9, <1>10 DEF PlayInv

LEMMA CreatePlays ==
  ASSUME ReuseRules, PlayInv, NEW c \in Client, Create(c), UNCHANGED world
  PROVE  PlayInv'
<1> DEFINE p == Home[c]
           id == (curID[p] + 1) % IdMod
<1>1. /\ PlayTypes /\ TypeIds /\ TypeClients /\ IdsInv /\ SentInv /\ OwnedInv /\ ActedInv
      /\ world \in Worlds /\ p \in Proxy
  BY RelayAssumption DEF PlayInv, PlayTypes
<1>2. /\ state[c] = "out" /\ state'[c] = "open" /\ MayTake(p, id)
      /\ \A d \in Client : d # c => state'[d] = state[d] /\ clientID'[d] = clientID[d]
      /\ clientID'[c] = id /\ TypeClients'
      /\ \A q \in Proxy : q # p => clients'[q] = clients[q]
      /\ clients'[p] = Insert(clients[p], id, c)
      /\ Given' = Given /\ \A d \in Client : Keys[d] \subseteq Keys'[d]
  BY <1>1, CreateNumbers
<1>3. UNCHANGED <<proxyID, maxID, servers, linkVars, up, down, serverVars, asked, got>>
  BY DEF Create
<1>4. Had(p, id) # {} => "wrap" \in world.events
  BY <1>2 DEF MayTake
<1>5. id \notin DOMAIN clients[p]
  BY <1>1, <1>2 DEF MayTake, ReuseRules
<1> HIDE DEF p, id
<1>6. players' = players
  BY <1>3 DEF players, serverVars
<1>7. PlayTypes'
  <2>1. TypeIds' /\ IdsInv'
    BY <1>1, <1>3, SameIds
  <2> QED BY <1>1, <1>2, <1>3, <2>1 DEF PlayTypes, TypeSessions, serverVars
<1>8. SentInv'
  <2>1. ASSUME NEW k \in Link, NEW m \in ToSet(up[k])
        PROVE  m.key \in Keys'[m.client]
    BY <1>1, <1>2, <2>1, SentFacts
  <2>2. \A d \in Client : state'[d] \in {"out", "open"} => state[d] \in {"out", "open"}
    BY <1>2
  <2> QED BY <1>1, <1>3, <2>1, <2>2 DEF SentInv
<1>9. OwnedInv' /\ ActedInv'
  BY <1>1, <1>2, <1>3, <1>6 DEF OwnedInv, ActedInv, serverVars
<1>10. ASSUME PlainInv, "wrap" \notin world.events
       PROVE  PlainInv'
  <2>1. ASSUME NEW d \in Client, d # c, state[d] # "out", Home[d] = p
        PROVE  clientID[d] # id
    BY <1>4, <1>10, <2>1 DEF Had
  <2>2. ASSUME NEW d \in Client, NEW e \in Client, state'[d] # "out", state'[e] # "out",
               Home[d] = Home[e], clientID'[d] = clientID'[e]
        PROVE  d = e
    <3>1. CASE d # c /\ e # c
      BY <1>2, <1>10, <2>2, <3>1 DEF PlainInv
    <3>2. CASE d = c /\ e # c
      BY <1>2, <2>1, <2>2, <3>2 DEF p
    <3>3. CASE d # c /\ e = c
      BY <1>2, <2>1, <2>2, <3>3 DEF p
    <3> QED BY <3>1, <3>2, <3>3
  <2>3. ASSUME NEW d \in Client, NEW key \in DOMAIN players, key \in Keys'[d]
        PROVE  players[key] = world.user[d]
    <3>1. PICK e \in Client : key \in Keys[e]
      BY <1>1 DEF OwnedInv
    <3>2. e # c /\ state[e] # "out" /\ state'[d] # "out" /\ key \in Keys'[e] /\ Home[d] = Home[e]
      BY <1>1, <1>2, <2>3, <3>1, OneOwner, RelayAssumption DEF Keys
    <3>3. d = e
      BY <1>2, <2>2, <2>3, <3>2 DEF Keys
    <3> QED BY <1>10, <3>1, <3>3 DEF PlainInv
  <2> QED BY <1>6, <2>2, <2>3 DEF PlainInv
<1>11. ASSUME ReuseInv
       PROVE  ReuseInv'
  <2>1. ReuseLinks' /\ ReuseUp'
    BY <1>3, <1>6, <1>11 DEF ReuseInv, ReuseLinks, ReuseUp, linkVars
  <2>2. ASSUME NEW d \in Client, state'[d] \in {"open", "in", "refused"}
        PROVE  clientID'[d] \in DOMAIN clients'[Home[d]] /\ clients'[Home[d]][clientID'[d]] = d
    <3>1. CASE d = c
      BY <1>2, <1>5, <3>1 DEF Insert, p
    <3>2. CASE d # c
      <4>1. /\ clientID[d] \in DOMAIN clients[Home[d]] /\ clients[Home[d]][clientID[d]] = d
            /\ clientID'[d] = clientID[d] /\ Home[d] \in Proxy
        BY <1>2, <1>11, <2>2, <3>2, RelayAssumption DEF ReuseInv, ReuseClients
      <4> QED BY <1>2, <4>1 DEF Insert
    <3> QED BY <3>1, <3>2
  <2>3. ASSUME NEW d \in Client, state'[d] = "in"
        PROVE  state[d] = "in" /\ KeyNow'[d] = KeyNow[d]
    BY <1>2, <1>3, <2>3 DEF KeyNow
  <2>4. ReuseNext'
    BY <1>3, <1>6, <1>11, <2>3 DEF ReuseInv, ReuseNext
  <2> QED BY <2>1, <2>2, <2>4 DEF ReuseInv, ReuseClients
<1> QED BY <1>1, <1>3, <1>7, <1>8, <1>9, <1>10, <1>11 DEF PlayInv

LEMMA BreakPlays ==
  ASSUME PlayInv, NEW k \in Link, Break(k), UNCHANGED world
  PROVE  PlayInv'
<1>1. PlayTypes /\ TypeIds /\ IdsInv /\ SentInv /\ OwnedInv /\ ActedInv
  BY DEF PlayInv, PlayTypes
<1>2. /\ alive' = alive \ {k} /\ "break" \in world.events
      /\ UNCHANGED <<proxyID, maxID, curID, clientID, state, clients, proxies, used, up, serverVars, asked, got>>
  BY DEF Break
<1>3. /\ TypeIds' /\ IdsInv' /\ Keys' = Keys /\ Given' = Given
      /\ \A q \in Proxy : \A s \in DOMAIN servers'[q] :
           s \in DOMAIN servers[q] /\ servers'[q][s] = servers[q][s] /\ k # <<q, s, k[3]>>
  BY <1>1, BreakIds
<1>4. players' = players /\ KeyNow' = KeyNow
  BY <1>2 DEF players, KeyNow, serverVars
<1>5. PlayTypes' /\ SentInv' /\ OwnedInv' /\ ActedInv'
  BY <1>1, <1>2, <1>3, <1>4 DEF PlayTypes, TypeClients, TypeSessions, SentInv, OwnedInv, ActedInv, serverVars
<1>6. PlainInv => PlainInv'
  BY <1>2, <1>3, <1>4 DEF PlainInv
<1>7. ASSUME ReuseInv
      PROVE  ReuseInv'
  <2>1. ReuseClients' /\ ReuseUp'
    BY <1>2, <1>4, <1>7 DEF ReuseInv, ReuseClients, ReuseUp
  <2>2. ReuseNext'
    BY <1>2, <1>3, <1>4, <1>7, RelayAssumption DEF ReuseInv, ReuseNext
  <2>3. ASSUME NEW p \in Proxy, "game" \in DOMAIN servers'[p]
        PROVE  servers'[p]["game"] = GameLink[p] /\ GameLink[p] \in alive'
    <3>1. /\ servers'[p]["game"] = servers[p]["game"] /\ k # <<p, "game", k[3]>>
          /\ servers[p]["game"] = GameLink[p] /\ GameLink[p] \in alive
      BY <1>3, <1>7, <2>3 DEF ReuseInv, ReuseLinks
    <3>2. k # GameLink[p]
      BY <3>1 DEF GameLink
    <3> QED BY <1>2, <3>1, <3>2
  <2>4. ReuseLinks'
    BY <1>2, <1>7, <2>3 DEF ReuseInv, ReuseLinks
  <2> QED BY <2>1, <2>2, <2>4 DEF ReuseInv
<1> QED BY <1>5, <1>6, <1>7 DEF PlayInv

LEMMA RejoinPlays ==
  ASSUME ReuseRules, PlayInv, NEW p \in Proxy, Rejoin(p), UNCHANGED world
  PROVE  PlayInv'
<1> DEFINE n == 1 + Cardinality({k \in used : k[1] = p /\ k[2] = "role"})
<1>1. /\ PlayTypes /\ TypeIds /\ IdsInv /\ SentInv /\ OwnedInv /\ ActedInv /\ world \in Worlds
      /\ servers \in [Proxy -> Maps(Server, Link)] /\ proxyID \in [Proxy -> Nat] /\ maxID \in Nat
  BY DEF PlayInv, PlayTypes, TypeIds
<1>2. /\ TypeIds' /\ IdsInv' /\ \A q \in Proxy : Given[q] \subseteq Given'[q]
      /\ \A q \in Proxy \ {p} : proxyID'[q] = proxyID[q]
      /\ proxyID'[p] \in {proxyID[p], maxID + 1}
  BY <1>1, RejoinIds DEF ReuseRules
<1>3. /\ servers' = [servers EXCEPT ![p] = [s \in Server |-> IF s \in DOMAIN @ THEN @[s] ELSE <<p, s, n>>]]
      /\ alive' = alive \cup ({p} \X Server \X {n})
      /\ UNCHANGED <<curID, clientID, state, clients, up, down, serverVars, asked, got>>
  BY DEF Rejoin
<1> HIDE DEF n
<1>4. players' = players /\ \A c \in Client : Keys[c] \subseteq Keys'[c]
  BY <1>2, <1>3, RelayAssumption DEF players, Keys, serverVars
<1>5. PlayTypes' /\ OwnedInv' /\ ActedInv'
  BY <1>1, <1>2, <1>3, <1>4 DEF PlayTypes, TypeClients, TypeSessions, OwnedInv, ActedInv, serverVars
<1>6. SentInv'
  <2>1. ASSUME NEW k \in Link, NEW m \in ToSet(up[k])
        PROVE  m.key \in Keys'[m.client]
    BY <1>1, <1>4, <2>1, SentFacts
  <2> QED BY <1>1, <1>3, <2>1 DEF SentInv
<1>7. ASSUME PlainInv
      PROVE  PlainInv'
  <2>1. ASSUME NEW c \in Client, NEW key \in DOMAIN players, key \in Keys'[c]
        PROVE  players[key] = world.user[c]
    <3>1. PICK d \in Client : key \in Keys[d]
      BY <1>1 DEF OwnedInv
    <3>2. key \in Keys'[d]
      BY <1>4, <3>1
    <3>3. /\ state[c] # "out" /\ state[d] # "out" /\ clientID[c] = clientID[d]
          /\ key[1] \in Given'[Home[c]] /\ key[1] \in Given'[Home[d]]
          /\ Home[c] \in Proxy /\ Home[d] \in Proxy
      BY <1>3, <2>1, <3>2, RelayAssumption DEF Keys
    <3>4. Home[c] = Home[d]
      BY <3>3 DEF Given, Server
    <3> QED BY <1>7, <3>1, <3>3, <3>4 DEF PlainInv
  <2> QED BY <1>3, <1>4, <1>7, <2>1 DEF PlainInv
<1>8. ASSUME ReuseInv, "wrap" \in world.events
      PROVE  ReuseInv'
  <2>1. "break" \notin world.events
    BY <1>1, <1>8 DEF Rejoin, ReuseRules, IdRules
  <2>2. ASSUME NEW q \in Proxy
        PROVE  /\ "game" \in DOMAIN servers[q] /\ "game" \in DOMAIN servers'[q]
               /\ servers'[q]["game"] = servers[q]["game"]
    <3>1. "game" \in DOMAIN servers[q] /\ "game" \in Server
      BY <1>8, <2>1 DEF ReuseInv, ReuseLinks, Server
    <3>2. CASE q = p
      BY <1>1, <1>3, <3>1, <3>2
    <3>3. CASE q # p
      BY <1>1, <1>3, <3>1, <3>3
    <3> QED BY <3>2, <3>3
  <2>3. ReuseLinks'
    BY <1>3, <1>8, <2>2 DEF ReuseInv, ReuseLinks
  <2>4. ReuseClients' /\ ReuseUp'
    BY <1>3, <1>4, <1>8 DEF ReuseInv, ReuseClients, ReuseUp
  <2>5. ASSUME NEW c \in Client, state[c] = "in", HasLogin(asked, c, Len(asked[c]) + 1)
        PROVE  LET k == GameLink[Home[c]] IN Finds(players, up[k], Len(up[k]), KeyNow'[c], world.user[c])
    <3>1. Home[c] \in Proxy
      BY RelayAssumption
    <3> DEFINE k == GameLink[Home[c]]
    <3>2. Finds(players, up[k], Len(up[k]), KeyNow[c], world.user[c])
      BY <1>8, <2>2, <2>5, <3>1 DEF ReuseInv, ReuseNext
    <3>3. CASE KeyNow'[c] = KeyNow[c]
      BY <3>2, <3>3
    <3>4. CASE KeyNow'[c] # KeyNow[c]
      <4>1. KeyNow'[c] = <<maxID + 1, clientID[c]>>
        BY <1>2, <1>3, <3>1, <3>4 DEF KeyNow
      <4>2. ASSUME NEW q \in Proxy
            PROVE  maxID + 1 \notin Given[q]
        BY <1>1, GivenMember DEF IdsInv, Server
      <4>3. ASSUME NEW d \in Client
            PROVE  KeyNow'[c] \notin Keys[d]
        BY <4>1, <4>2, RelayAssumption DEF Keys
      <4>4. KeyNow'[c] \notin DOMAIN players
        BY <1>1, <4>3 DEF OwnedInv
      <4>5. k \in Link
        BY <3>1, GameLinks
      <4>6. ASSUME NEW j \in 1..Len(up[k])
            PROVE  ~IsLogin(up[k][j], KeyNow'[c])
        <5>1. up[k][j] \in ToSet(up[k])
          BY <1>1, <4>5 DEF PlayTypes, ToSet
        <5> QED BY <1>1, <4>3, <4>5, <5>1, SentFacts DEF IsLogin
      <4> QED BY <4>4, <4>6 DEF Finds
    <3> QED BY <3>3, <3>4
  <2>6. ReuseNext'
    BY <1>3, <1>4, <2>5 DEF ReuseNext
  <2> QED BY <2>3, <2>4, <2>6 DEF ReuseInv
<1> QED BY <1>5, <1>6, <1>7, <1>8 DEF PlayInv

LEMMA ReadPlays ==
  ASSUME PlayInv, NEW c \in Client, NEW kind \in world.kinds, ReadClient(c, kind), UNCHANGED world
  PROVE  PlayInv'
<1> DEFINE p == Home[c]
           via == IF To(kind) \in DOMAIN servers[p] THEN {servers[p][To(kind)]} ELSE {}
           m == [key |-> <<proxyID[p], clientID[c]>>, client |-> c, num |-> Len(asked[c]) + 1,
                 kind |-> kind, user |-> world.user[c]]
           x == [kind |-> kind, via |-> via]
<1>1. /\ PlayTypes /\ TypeIds /\ TypeClients /\ IdsInv /\ SentInv /\ OwnedInv /\ ActedInv /\ world \in Worlds
      /\ up \in [Link -> Seq(Msg)] /\ asked \in [Client -> Seq(Asked)] /\ p \in Proxy
      /\ proxyID[p] \in Nat /\ clientID[c] \in Nat
  BY RelayAssumption DEF PlayInv, PlayTypes, TypeIds, TypeClients
<1>2. /\ state[c] = "in" /\ asked' = [asked EXCEPT ![c] = Append(@, x)]
      /\ up' = [k \in Link |-> IF k \in via \cap alive THEN Append(up[k], m) ELSE up[k]]
      /\ UNCHANGED <<proxyVars, linkVars, down, serverVars, got>>
  BY DEF ReadClient
<1>3. kind \in Kind /\ To(kind) \in Server /\ world.user[c] \in User
  BY <1>1, RelayAssumption DEF To, Server
<1>4. \A k \in via : via = {k} /\ k \in Link /\ k[1] = p /\ k[2] = To(kind) /\ k = servers[p][To(kind)]
                     /\ To(kind) \in DOMAIN servers[p]
  <2>1. servers[p] \in Maps(Server, Link)
    BY <1>1 DEF TypeIds
  <2> QED BY <1>1, <2>1, MapsMember DEF IdsInv
<1>5. x \in Asked
  BY <1>3, <1>4 DEF Asked
<1>6. /\ m \in Msg /\ m.key = KeyNow[c] /\ m.client = c /\ m.kind = kind /\ m.user = world.user[c]
      /\ m.num = Len(asked[c]) + 1 /\ x.kind = kind
  <2>1. Len(asked[c]) \in Nat
    BY <1>1
  <2> QED BY <1>1, <1>3, <2>1 DEF Msg, Key, KeyNow
<1>7. Keys' = Keys /\ KeyNow' = KeyNow /\ Given' = Given /\ players' = players
  BY <1>2, SameKeys DEF proxyVars, linkVars, serverVars, KeyNow, players
<1>8. m.key \in Keys[c]
  BY <1>1, <1>2, <1>6 DEF Keys, KeyNow, IdsInv, Key
<1> HIDE DEF p, via, m, x
<1>9. /\ asked' \in [Client -> Seq(Asked)]
      /\ \A d \in Client : Len(asked[d]) <= Len(asked'[d]) /\ Len(asked[d]) \in Nat /\ Len(asked'[d]) \in Nat
      /\ \A d \in Client \ {c} :
           asked'[d] = asked[d] /\ \A n : HasLogin(asked', d, n) <=> HasLogin(asked, d, n)
      /\ Len(asked'[c]) = Len(asked[c]) + 1
      /\ \A d \in Client : \A n \in 1..Len(asked'[d]) : HasLogin(asked', d, n) <=> HasLogin(asked, d, n)
      /\ HasLogin(asked', c, Len(asked'[c]) + 1) <=> HasLogin(asked, c, Len(asked[c]) + 1) \/ kind = "login"
  <2>1. asked \in [Client -> Seq(Asked)] /\ asked' = [asked EXCEPT ![c] = Append(@, x)] /\ x.kind = kind
    BY <1>1, <1>2, <1>6
  <2>2. OneMore(asked, asked', c, x.kind)
    BY <1>5, <2>1, MoreAsked
  <2> QED BY <2>1, <2>2 DEF OneMore
<1>10. \A k \in Link : up'[k] = IF k \in via \cap alive THEN Append(up[k], m) ELSE up[k]
  BY <1>2
<1>11. ASSUME NEW k \in Link
       PROVE  \A z \in ToSet(up'[k]) : z \in ToSet(up[k]) \/ (z = m /\ k \in via)
  BY <1>1, <1>6, <1>10, AppendToSet
<1>12. PlayTypes'
  <2>1. TypeIds' /\ IdsInv'
    BY <1>1, <1>2, SameIds DEF proxyVars
  <2>2. up' \in [Link -> Seq(Msg)]
    BY <1>1, <1>2, <1>6
  <2>3. TypeClients' /\ TypeSessions'
    BY <1>1, <1>2 DEF PlayTypes, TypeClients, TypeSessions, proxyVars, serverVars
  <2> QED BY <1>1, <1>9, <2>1, <2>2, <2>3 DEF PlayTypes
<1>13. SentInv'
  <2>1. ASSUME NEW k \in Link, NEW z \in ToSet(up'[k])
        PROVE  /\ z.key \in Keys'[z.client] /\ z.user = world'.user[z.client]
               /\ z.num \in 1..Len(asked'[z.client]) /\ k[1] = Home[z.client] /\ k[2] = To(z.kind)
    <3>1. CASE z \in ToSet(up[k])
      <4>1. z.client \in Client /\ z.num \in 1..Len(asked[z.client])
        BY <1>1, <3>1, SentFacts
      <4>2. z.num \in 1..Len(asked'[z.client])
        BY <1>9, <4>1
      <4> QED BY <1>1, <1>7, <3>1, <4>2 DEF SentInv
    <3>2. CASE z = m /\ k \in via
      <4>1. Len(asked[c]) + 1 \in 1..Len(asked'[c])
        BY <1>9
      <4> QED BY <1>4, <1>6, <1>7, <1>8, <3>2, <4>1 DEF p
    <3> QED BY <1>11, <2>1, <3>1, <3>2
  <2>2. ASSUME NEW d \in Client, state'[d] \in {"out", "open"}
        PROVE  asked'[d] = <<>>
    BY <1>1, <1>2, <1>9, <2>2 DEF SentInv, proxyVars
  <2> QED BY <2>1, <2>2 DEF SentInv
<1>14. OwnedInv' /\ (PlainInv => PlainInv')
  BY <1>1, <1>2, <1>7 DEF OwnedInv, PlainInv, proxyVars
<1>15. ActedInv'
  <2>1. ASSUME NEW a \in acted
        PROVE  /\ a.client \in Client /\ a.num \in 1..Len(asked'[a.client])
               /\ HasLogin(asked', a.client, a.num) <=> HasLogin(asked, a.client, a.num)
    <3>1. a.client \in Client /\ a.num \in 1..Len(asked[a.client])
      BY <1>1 DEF ActedInv
    <3>2. a.num \in 1..Len(asked'[a.client])
      BY <1>9, <3>1
    <3> QED BY <1>9, <3>1, <3>2
  <2> QED BY <1>1, <1>2, <2>1 DEF ActedInv, serverVars
<1>16. ASSUME ReuseInv
       PROVE  ReuseInv'
  <2>1. ASSUME NEW k \in via, kind # "enter"
        PROVE  k = GameLink[p] /\ "game" \in DOMAIN servers[p]
    BY <1>1, <1>3, <1>4, <1>16, <2>1 DEF ReuseInv, ReuseLinks, To, Kind
  <2>2. ReuseLinks'
    <3>1. ASSUME NEW k \in Link, up'[k] # <<>>, k[2] = "game"
          PROVE  k = GameLink[k[1]]
      <4>1. CASE up[k] # <<>>
        BY <1>16, <3>1, <4>1 DEF ReuseInv, ReuseLinks
      <4>2. CASE k \in via
        BY <1>4, <2>1, <3>1, <4>2 DEF To
      <4> QED BY <1>10, <3>1, <4>1, <4>2
    <3> QED BY <1>2, <1>16, <3>1 DEF ReuseInv, ReuseLinks, proxyVars, linkVars
  <2>3. ReuseClients'
    BY <1>2, <1>16 DEF ReuseInv, ReuseClients, proxyVars
  <2>4. ReuseUp'
    <3>1. ASSUME NEW k \in Link, NEW i \in 1..Len(up'[k]), up'[k][i].kind = "object",
                 HasLogin(asked', up'[k][i].client, up'[k][i].num)
          PROVE  Finds(players, up'[k], i - 1, up'[k][i].key, up'[k][i].user)
      <4>1. up[k] \in Seq(Msg) /\ Len(up[k]) \in Nat
        BY <1>1
      <4>2. CASE i \in 1..Len(up[k])
        <5>1. up'[k][i] = up[k][i] /\ up[k][i] \in ToSet(up[k])
          <6>1. up[k][i] \in ToSet(up[k])
            BY <4>1, <4>2 DEF ToSet
          <6>2. Append(up[k], m)[i] = up[k][i]
            BY <1>6, <4>1, <4>2
          <6> QED BY <1>10, <6>1, <6>2
        <5> DEFINE z == up[k][i]
        <5>2. z.client \in Client /\ z.num \in 1..Len(asked[z.client])
          BY <1>1, <5>1, SentFacts
        <5>3. z.num \in 1..Len(asked'[z.client])
          BY <1>9, <5>2
        <5>4. HasLogin(asked, z.client, z.num)
          BY <1>9, <3>1, <5>1, <5>2, <5>3
        <5>5. Finds(players, up[k], i - 1, z.key, z.user)
          BY <1>16, <3>1, <4>2, <5>1, <5>4 DEF ReuseInv, ReuseUp
        <5>6. i - 1 \in 0..Len(up[k])
          BY <4>1, <4>2
        <5> HIDE DEF z
        <5>7. Finds(players, up'[k], i - 1, z.key, z.user)
          BY <1>6, <1>10, <4>1, <5>5, <5>6, FindsAppend
        <5> QED BY <5>1, <5>7 DEF z
      <4>3. CASE i \notin 1..Len(up[k])
        <5>1. /\ k \in via \cap alive /\ i = Len(up[k]) + 1 /\ up'[k] = Append(up[k], m) /\ up'[k][i] = m
          <6>1. k \in via \cap alive /\ up'[k] = Append(up[k], m)
            BY <1>10, <3>1, <4>3
          <6>2. Len(Append(up[k], m)) = Len(up[k]) + 1 /\ Append(up[k], m)[Len(up[k]) + 1] = m
            BY <1>6, <4>1
          <6>3. i = Len(up[k]) + 1
            BY <3>1, <4>1, <4>3, <6>1, <6>2
          <6> QED BY <6>1, <6>2, <6>3
        <5>2. HasLogin(asked, c, Len(asked[c]) + 1)
          <6>1. Len(asked[c]) + 1 \in 1..Len(asked'[c])
            BY <1>9
          <6> QED BY <1>6, <1>9, <3>1, <5>1, <6>1
        <5>3. k = GameLink[p] /\ "game" \in DOMAIN servers[p]
          BY <1>6, <2>1, <3>1, <5>1
        <5>4. Finds(players, up[k], Len(up[k]), KeyNow[c], world.user[c])
          BY <1>2, <1>16, <5>2, <5>3 DEF ReuseInv, ReuseNext, p
        <5>5. Finds(players, Append(up[k], m), Len(up[k]), KeyNow[c], world.user[c])
          BY <1>6, <4>1, <5>4, FindsAppend
        <5>6. i - 1 = Len(up[k])
          BY <4>1, <5>1
        <5> QED BY <1>6, <5>1, <5>5, <5>6
      <4> QED BY <4>2, <4>3
    <3> QED BY <1>7, <3>1 DEF ReuseUp
  <2>5. ReuseNext'
    <3>1. ASSUME NEW d \in Client, state[d] = "in", HasLogin(asked', d, Len(asked'[d]) + 1),
                 "game" \in DOMAIN servers[Home[d]]
          PROVE  LET k == GameLink[Home[d]] IN Finds(players, up'[k], Len(up'[k]), KeyNow[d], world.user[d])
      <4> DEFINE k == GameLink[Home[d]]
                 q == up[k]
                 u == world.user[d]
      <4>1. k \in Link /\ k[1] = Home[d] /\ q \in Seq(Msg) /\ Len(q) \in Nat
        BY <1>1, GameLinks, RelayAssumption
      <4>2. Len(Append(q, m)) = Len(q) + 1
        BY <1>6, <4>1
      <4>3. up'[k] = q \/ (up'[k] = Append(q, m) /\ k \in via)
        BY <1>10, <4>1
      <4>4. CASE HasLogin(asked, d, Len(asked[d]) + 1)
        <5>1. Finds(players, q, Len(q), KeyNow[d], u)
          BY <1>16, <3>1, <4>4 DEF ReuseInv, ReuseNext
        <5>2. CASE up'[k] = q
          BY <5>1, <5>2
        <5>3. CASE up'[k] = Append(q, m) /\ k \in via
          <6>1. Home[d] = Home[c]
            BY <1>4, <4>1, <5>3 DEF p
          <6>2. d # c => KeyNow[d] # KeyNow[c]
            BY <1>2, <1>16, <3>1, <6>1 DEF ReuseInv, ReuseClients, KeyNow
          <6>3. IsLogin(m, KeyNow[d]) => m.user = u
            BY <1>6, <6>2 DEF IsLogin
          <6> HIDE DEF k, q, u
          <6>4. Finds(players, Append(q, m), Len(q) + 1, KeyNow[d], u)
            BY <1>6, <4>1, <5>1, <6>3, FindsAppend
          <6> QED BY <4>2, <5>3, <6>4 DEF k, q, u
        <5> QED BY <4>3, <5>2, <5>3
      <4>5. CASE ~HasLogin(asked, d, Len(asked[d]) + 1)
        <5>1. d = c /\ kind = "login"
          BY <1>9, <3>1, <4>5
        <5>2. /\ servers[p]["game"] = GameLink[p] /\ GameLink[p] \in alive /\ "game" \in DOMAIN servers[p]
              /\ k = GameLink[p]
          BY <1>1, <1>16, <3>1, <5>1 DEF ReuseInv, ReuseLinks, p
        <5>3. k \in via \cap alive
          BY <5>1, <5>2 DEF via, To
        <5>4. up'[k] = Append(q, m)
          BY <1>10, <4>1, <5>3
        <5>5. IsLogin(m, KeyNow[d]) /\ m.user = u
          BY <1>6, <5>1 DEF IsLogin
        <5> HIDE DEF k, q, u
        <5>6. Finds(players, Append(q, m), Len(q) + 1, KeyNow[d], u)
          BY <1>6, <4>1, <5>5, FindsAppend
        <5> QED BY <4>2, <5>4, <5>6 DEF k, q, u
      <4> QED BY <4>4, <4>5
    <3> QED BY <1>2, <1>7, <3>1 DEF ReuseNext, proxyVars
  <2> QED BY <2>2, <2>3, <2>4, <2>5 DEF ReuseInv
<1> QED BY <1>12, <1>13, <1>14, <1>15, <1>16 DEF PlayInv

\* A message of k is taken; a login gives its session a player.
LEMMA TakePlays ==
  ASSUME PlayInv, NEW k \in Link, up[k] # <<>>, up' = [up EXCEPT ![k] = Tail(@)],
         UNCHANGED <<proxyVars, linkVars, asked, world>>, TypeSessions',
         LET m == Head(up[k]) IN
           /\ DOMAIN players' = IF m.kind = "login" THEN DOMAIN players \cup {m.key} ELSE DOMAIN players
           /\ \A key \in DOMAIN players' :
                players'[key] = IF IsLogin(m, key) THEN m.user ELSE players[key],
         ActedInv'
  PROVE  PlayInv'
<1> DEFINE m == Head(up[k])
<1>1. /\ PlayTypes /\ TypeIds /\ TypeClients /\ IdsInv /\ SentInv /\ OwnedInv
      /\ up \in [Link -> Seq(Msg)]
  BY DEF PlayInv, PlayTypes
<1>2. /\ Len(up[k]) \in Nat \ {0} /\ up[k] \in Seq(Msg) /\ Tail(up[k]) \in Seq(Msg)
      /\ m \in ToSet(up[k]) /\ ToSet(Tail(up[k])) \subseteq ToSet(up[k])
  BY <1>1, TailProperties
<1>3. /\ m.client \in Client /\ m.key \in Keys[m.client] /\ m.key[1] \in Given[k[1]] /\ k[1] \in Proxy
      /\ m.user = world.user[m.client] /\ k[2] = To(m.kind)
  BY <1>1, <1>2, SentFacts
<1>4. /\ DOMAIN players' = IF m.kind = "login" THEN DOMAIN players \cup {m.key} ELSE DOMAIN players
      /\ \A key \in DOMAIN players' : players'[key] = IF IsLogin(m, key) THEN m.user ELSE players[key]
  OBVIOUS
<1> HIDE DEF m
<1>5. Keys' = Keys /\ KeyNow' = KeyNow /\ Given' = Given
  BY SameKeys DEF proxyVars, linkVars, KeyNow
<1>6. /\ up'[k] = Tail(up[k]) /\ Len(up'[k]) = Len(up[k]) - 1
      /\ \A i \in 1..(Len(up[k]) - 1) : up'[k][i] = up[k][i + 1]
      /\ \A l \in Link \ {k} : up'[l] = up[l]
  <2>1. up'[k] = Tail(up[k]) /\ \A l \in Link \ {k} : up'[l] = up[l]
    BY <1>1
  <2>2. ASSUME NEW q \in Seq(Msg), q # <<>>
        PROVE  Len(Tail(q)) = Len(q) - 1 /\ \A i \in 1..(Len(q) - 1) : Tail(q)[i] = q[i + 1]
    BY <2>2
  <2> QED BY <1>2, <2>1, <2>2
<1>7. PlayTypes'
  <2>1. TypeIds' /\ IdsInv'
    BY <1>1, SameIds DEF proxyVars
  <2>2. up' \in [Link -> Seq(Msg)]
    BY <1>1, <1>2
  <2> QED BY <1>1, <2>1, <2>2 DEF PlayTypes, TypeClients, proxyVars
<1>8. SentInv'
  <2>1. \A l \in Link : \A z \in ToSet(up'[l]) : z \in ToSet(up[l])
    BY <1>2, <1>6
  <2> QED BY <1>1, <1>5, <2>1 DEF SentInv, proxyVars
<1>9. OwnedInv'
  BY <1>1, <1>3, <1>4, <1>5 DEF OwnedInv
<1>10. ASSUME PlainInv
       PROVE  PlainInv'
  <2>1. ASSUME NEW c \in Client, NEW key \in DOMAIN players', key \in Keys[c]
        PROVE  players'[key] = world.user[c]
    <3>1. CASE IsLogin(m, key)
      <4>1. key = m.key /\ key \in Keys[m.client] /\ players'[key] = world.user[m.client]
        BY <1>3, <1>4, <3>1 DEF IsLogin
      <4>2. /\ state[c] # "out" /\ state[m.client] # "out" /\ clientID[c] = clientID[m.client]
            /\ Home[c] = Home[m.client]
        BY <1>3, <2>1, <4>1, OneOwner, RelayAssumption DEF Keys
      <4>3. c = m.client
        BY <1>3, <1>10, <4>2 DEF PlainInv
      <4> QED BY <4>1, <4>3
    <3>2. CASE ~IsLogin(m, key)
      BY <1>4, <1>10, <2>1, <3>2 DEF PlainInv, IsLogin
    <3> QED BY <3>1, <3>2
  <2> QED BY <1>5, <1>10, <2>1 DEF PlainInv, proxyVars
<1>11. ASSUME ReuseInv
       PROVE  ReuseInv'
  <2>1. ReuseLinks'
    <3>1. \A l \in Link : up'[l] # <<>> => up[l] # <<>>
      BY <1>6
    <3> QED BY <1>11, <3>1 DEF ReuseInv, ReuseLinks, proxyVars, linkVars
  <2>2. ReuseClients'
    BY <1>11 DEF ReuseInv, ReuseClients, proxyVars
  <2>3. m.kind = "login" => k = GameLink[k[1]]
    BY <1>3, <1>11 DEF ReuseInv, ReuseLinks, To
  <2>4. ASSUME NEW n \in 1..Len(up[k]), NEW key, NEW u, Finds(players, up[k], n, key, u)
        PROVE  Finds(players', up'[k], n - 1, key, u)
    <3>1. IsLogin(m, key) => key \in DOMAIN players' /\ players'[key] = m.user
      BY <1>4 DEF IsLogin
    <3>2. ~IsLogin(m, key) /\ key \in DOMAIN players' => key \in DOMAIN players /\ players'[key] = players[key]
      BY <1>4 DEF IsLogin
    <3> QED BY <1>2, <1>6, <2>4, <3>1, <3>2, FindsTail DEF m
  <2>5. ASSUME NEW l \in Link, l # k, l = GameLink[l[1]], NEW key, key[1] \in Given[l[1]],
               NEW n, NEW u, Finds(players, up[l], n, key, u)
        PROVE  Finds(players', up'[l], n, key, u)
    <3>1. ~IsLogin(m, key)
      <4>1. l[1] \in Proxy
        BY DEF Link
      <4> QED BY <1>3, <2>3, <2>5, <4>1, OneOwner DEF IsLogin
    <3>2. key \in DOMAIN players' => key \in DOMAIN players /\ players'[key] = players[key]
      BY <1>4, <3>1 DEF IsLogin
    <3> QED BY <1>6, <2>5, <3>2, FindsElse
  <2>6. ReuseUp'
    <3>1. ASSUME NEW l \in Link, NEW i \in 1..Len(up'[l]), up'[l][i].kind = "object",
                 HasLogin(asked, up'[l][i].client, up'[l][i].num)
          PROVE  Finds(players', up'[l], i - 1, up'[l][i].key, up'[l][i].user)
      <4>1. CASE l = k
        <5>1. i \in 1..Len(up[k]) /\ i + 1 \in 1..Len(up[k]) /\ up'[k][i] = up[k][i + 1]
          <6>1. i \in 1..(Len(up[k]) - 1) /\ Len(up[k]) \in Nat
            BY <1>2, <1>6, <3>1, <4>1
          <6> QED BY <1>6, <6>1
        <5>2. (i + 1) - 1 = i
          BY <5>1
        <5>3. Finds(players, up[k], i, up[k][i + 1].key, up[k][i + 1].user)
          BY <1>11, <3>1, <4>1, <5>1, <5>2 DEF ReuseInv, ReuseUp
        <5> QED BY <2>4, <4>1, <5>1, <5>3
      <4>2. CASE l # k
        <5>1. up'[l] = up[l] /\ up[l] \in Seq(Msg) /\ i \in 1..Len(up[l]) /\ up[l][i] \in ToSet(up[l])
          BY <1>1, <1>6, <3>1, <4>2 DEF ToSet
        <5>2. up[l][i].key[1] \in Given[l[1]] /\ l[2] = "game" /\ up[l] # <<>>
          BY <1>1, <3>1, <5>1, SentFacts DEF To
        <5>3. l = GameLink[l[1]]
          BY <1>11, <5>2 DEF ReuseInv, ReuseLinks
        <5>4. Finds(players, up[l], i - 1, up[l][i].key, up[l][i].user)
          BY <1>11, <3>1, <5>1 DEF ReuseInv, ReuseUp
        <5> QED BY <2>5, <4>2, <5>1, <5>2, <5>3, <5>4
      <4> QED BY <4>1, <4>2
    <3> QED BY <3>1 DEF ReuseUp
  <2>7. ReuseNext'
    <3>1. ASSUME NEW c \in Client, state[c] = "in", HasLogin(asked, c, Len(asked[c]) + 1),
                 "game" \in DOMAIN servers[Home[c]]
          PROVE  LET l == GameLink[Home[c]] IN Finds(players', up'[l], Len(up'[l]), KeyNow[c], world.user[c])
      <4> DEFINE l == GameLink[Home[c]]
      <4>1. l \in Link /\ l = GameLink[l[1]] /\ KeyNow[c][1] \in Given[l[1]]
        BY <1>1, GameLinks, RelayAssumption DEF KeyNow, IdsInv
      <4>2. Finds(players, up[l], Len(up[l]), KeyNow[c], world.user[c])
        BY <1>11, <3>1 DEF ReuseInv, ReuseNext
      <4> HIDE DEF l
      <4>3. CASE l = k
        <5>1. Len(up[k]) \in 1..Len(up[k]) /\ Len(up'[k]) = Len(up[k]) - 1
          BY <1>2, <1>6
        <5> QED BY <2>4, <4>2, <4>3, <5>1 DEF l
      <4>4. CASE l # k
        BY <1>6, <2>5, <4>1, <4>2, <4>4 DEF l
      <4> QED BY <4>3, <4>4
    <3> QED BY <1>5, <3>1 DEF ReuseNext, proxyVars
  <2> QED BY <2>1, <2>2, <2>6, <2>7 DEF ReuseInv
<1> QED BY <1>7, <1>8, <1>9, <1>10, <1>11 DEF PlayInv

\* What is added to a session's queue or taken from it leaves its player.
LEMMA SamePlayers ==
  ASSUME TypeSessions, NEW s \in Server, NEW key, NEW q,
         sessions' = [sessions EXCEPT ![s][key].queue = q]
  PROVE  TypeSessions' /\ players' = players
<1>1. DOMAIN sessions' = Server /\ sessions'["game"] = IF s = "game" THEN [sessions["game"] EXCEPT ![key].queue = q]
                                                                    ELSE sessions["game"]
  BY DEF TypeSessions, Server
<1>2. /\ DOMAIN sessions'["game"] = DOMAIN sessions["game"]
      /\ \A x \in DOMAIN sessions["game"] :
           sessions'["game"][x] = sessions["game"][x] \/ sessions'["game"][x] = [sessions["game"][x] EXCEPT !.queue = q]
  BY <1>1
<1>3. ASSUME NEW x \in DOMAIN sessions["game"]
      PROVE  /\ DOMAIN sessions'["game"][x] = {"queue", "player"}
             /\ sessions'["game"][x].player = sessions["game"][x].player
  BY <1>2 DEF TypeSessions
<1>4. TypeSessions'
  BY <1>1, <1>2, <1>3 DEF TypeSessions
<1> QED BY <1>2, <1>3, <1>4 DEF players

LEMMA ProcessPlays ==
  ASSUME PlayInv, NEW k \in Link, Process(k), UNCHANGED world
  PROVE  PlayInv'
<1> DEFINE m == Head(up[k])
<1>1. /\ PlayTypes /\ TypeSessions /\ SentInv /\ ActedInv /\ DOMAIN sessions = Server
      /\ up \in [Link -> Seq(Msg)] /\ asked \in [Client -> Seq(Asked)]
      /\ \A x \in DOMAIN sessions["game"] : DOMAIN sessions["game"][x] = {"queue", "player"}
  BY DEF PlayInv, PlayTypes, TypeSessions
<1>2. /\ up[k] # <<>> /\ up' = [up EXCEPT ![k] = Tail(@)]
      /\ UNCHANGED <<proxyVars, linkVars, down, sending, asked, got>>
  BY DEF Process
<1>3. m \in ToSet(up[k]) /\ up[k] \in Seq(Msg) /\ m = up[k][1] /\ 1 \in 1..Len(up[k])
  BY <1>1, <1>2, TailProperties
<1>4. /\ m.kind \in Kind /\ m.client \in Client /\ m.key \in Keys[m.client] /\ m.user = world.user[m.client]
      /\ m.num \in 1..Len(asked[m.client])
  BY <1>1, <1>3, SentFacts
<1>5. /\ DOMAIN players = DOMAIN sessions["game"] /\ DOMAIN players' = DOMAIN sessions'["game"]
      /\ \A key \in DOMAIN players : players[key] = sessions["game"][key].player
      /\ \A key \in DOMAIN players' : players'[key] = sessions'["game"][key].player
  BY DEF players
<1>6. ASSUME acted' = acted
      PROVE  ActedInv'
  BY <1>1, <1>2, <1>6 DEF ActedInv
<1>7. CASE m.kind = "enter"
  <2>1. /\ UNCHANGED acted /\ DOMAIN sessions' = DOMAIN sessions /\ sessions'["game"] = sessions["game"]
    BY <1>1, <1>7 DEF Process, ProcessRole, Server
  <2>2. TypeSessions' /\ players' = players
    BY <1>1, <2>1 DEF TypeSessions, players
  <2> QED BY <1>2, <1>6, <1>7, <2>1, <2>2, TakePlays DEF IsLogin
<1>8. CASE m.kind = "login"
  <2>1. UNCHANGED acted
    BY <1>8 DEF Process, ProcessLogin
  <2> DEFINE with == Insert(sessions["game"], m.key, NewSession)
             f == [with EXCEPT ![m.key].player = m.user]
  <2>2. sessions' = [sessions EXCEPT !["game"] = f]
    BY <1>8 DEF Process, ProcessLogin, KeyOf
  <2>3. /\ DOMAIN with = DOMAIN sessions["game"] \cup {m.key}
        /\ \A x \in DOMAIN sessions["game"] : with[x] = sessions["game"][x]
        /\ m.key \notin DOMAIN sessions["game"] => with[m.key] = NewSession
    BY DEF Insert
  <2> HIDE DEF with
  <2>4. DOMAIN NewSession = {"queue", "player"}
    BY DEF NewSession
  <2>5. \A x \in DOMAIN with : DOMAIN with[x] = {"queue", "player"}
    BY <1>1, <2>3, <2>4
  <2>6. /\ DOMAIN f = DOMAIN with /\ \A x \in DOMAIN with \ {m.key} : f[x] = with[x]
        /\ f[m.key] = [with[m.key] EXCEPT !.player = m.user]
    BY <2>3
  <2> HIDE DEF f
  <2>7. DOMAIN f[m.key] = {"queue", "player"} /\ f[m.key].player = m.user
    BY <2>3, <2>5, <2>6
  <2>8. sessions'["game"] = f /\ DOMAIN sessions' = Server
    BY <1>1, <2>2 DEF Server
  <2>9. TypeSessions'
    BY <2>5, <2>6, <2>7, <2>8 DEF TypeSessions
  <2>10. /\ DOMAIN players' = DOMAIN players \cup {m.key}
         /\ \A key \in DOMAIN players' : players'[key] = IF IsLogin(m, key) THEN m.user ELSE players[key]
    <3> HIDE DEF m
    <3>1. \A key \in DOMAIN players' : IsLogin(m, key) <=> key = m.key
      BY <1>8 DEF IsLogin
    <3>2. DOMAIN players' = DOMAIN players \cup {m.key}
      BY <1>5, <2>3, <2>6, <2>8
    <3>3. players'[m.key] = m.user
      <4>1. m.key \in DOMAIN players'
        BY <3>2
      <4> QED BY <1>5, <2>7, <2>8, <4>1
    <3>4. ASSUME NEW key \in DOMAIN players', key # m.key
          PROVE  players'[key] = players[key]
      <4>1. key \in DOMAIN players /\ key \in DOMAIN with
        BY <1>5, <2>3, <3>2, <3>4
      <4>2. players'[key] = f[key].player /\ players[key] = sessions["game"][key].player
        BY <1>5, <2>8, <3>4, <4>1
      <4>3. f[key] = with[key] /\ with[key] = sessions["game"][key]
        BY <1>5, <2>3, <2>6, <3>4, <4>1
      <4> QED BY <4>2, <4>3
    <3> QED BY <3>1, <3>2, <3>3, <3>4
  <2> HIDE DEF m
  <2> QED BY <1>2, <1>6, <1>8, <2>1, <2>9, <2>10, TakePlays DEF m
<1>9. CASE m.kind = "object"
  <2>1. TypeSessions' /\ players' = players
    <3>1. CASE m.key \in DOMAIN sessions["game"]
      <4> DEFINE y == player[sessions["game"][m.key].player]
      <4>1. sessions' = [sessions EXCEPT !["game"][y].queue = Append(sessions["game"][y].queue, m)]
        BY <1>9, <3>1 DEF Process, ProcessObject, KeyOf
      <4> QED BY <1>1, <4>1, SamePlayers DEF Server
    <3>2. CASE m.key \notin DOMAIN sessions["game"]
      <4>1. sessions' = sessions
        BY <1>9, <3>2 DEF Process, ProcessObject, KeyOf
      <4> QED BY <1>1, <4>1 DEF TypeSessions, players
    <3> QED BY <3>1, <3>2
  <2>2. ASSUME NEW a \in acted', a \notin acted
        PROVE  /\ a = [client |-> m.client, num |-> m.num, user |-> players[m.key]]
               /\ m.key \in DOMAIN players
    <3>1. acted' = IF m.key \in DOMAIN sessions["game"]
                  THEN acted \cup {[client |-> m.client, num |-> m.num, user |-> sessions["game"][m.key].player]}
                  ELSE acted
      BY <1>9 DEF Process, ProcessObject, KeyOf
    <3> HIDE DEF m
    <3>2. m.key \in DOMAIN sessions["game"]
      BY <2>2, <3>1
    <3> QED BY <1>5, <2>2, <3>1, <3>2
  <2>3. ASSUME m.key \in DOMAIN players,
               "wrap" \notin world.events \/ HasLogin(asked, m.client, m.num)
        PROVE  players[m.key] = m.user
    <3>1. CASE "wrap" \notin world.events
      BY <1>4, <2>3, <3>1 DEF PlayInv, PlainInv
    <3>2. CASE "wrap" \in world.events
      <4>1. Finds(players, up[k], 1 - 1, m.key, m.user)
        BY <1>3, <1>9, <2>3, <3>2 DEF PlayInv, ReuseInv, ReuseUp
      <4> QED BY <2>3, <4>1 DEF Finds
    <3> QED BY <3>1, <3>2
  <2>4. ActedInv'
    <3>1. ASSUME NEW a \in acted'
          PROVE  /\ a.client \in Client /\ a.num \in 1..Len(asked[a.client])
                 /\ "wrap" \notin world.events \/ HasLogin(asked, a.client, a.num)
                    => a.user = world.user[a.client]
      <4>1. CASE a \in acted
        BY <1>1, <4>1 DEF ActedInv
      <4>2. CASE a \notin acted
        <5>1. a.client = m.client /\ a.num = m.num /\ a.user = players[m.key] /\ m.key \in DOMAIN players
          BY <2>2, <3>1, <4>2
        <5> QED BY <1>4, <2>3, <5>1
      <4> QED BY <4>1, <4>2
    <3> QED BY <1>2, <3>1 DEF ActedInv
  <2> HIDE DEF m
  <2> QED BY <1>2, <1>9, <2>1, <2>4, TakePlays DEF IsLogin, m
<1> QED BY <1>4, <1>7, <1>8, <1>9 DEF Kind

LEMMA PlayInvHolds ==
  ASSUME ReuseRules
  PROVE  Spec => []PlayInv
<1>1. Init => PlayInv
  BY PlayInit
<1>2. ASSUME PlayInv, [Next]_vars
      PROVE  PlayInv'
  <2>0. PlayTypes /\ TypeSessions /\ ActedInv
    BY <1>2 DEF PlayInv, PlayTypes
  <2>1. ASSUME NEW c \in Client, Create(c), UNCHANGED world
        PROVE  PlayInv'
    BY <1>2, <2>1, CreatePlays
  <2>2. ASSUME NEW c \in Client, ReadCode(c), UNCHANGED world
        PROVE  PlayInv'
    <3>1. PICK x \in {"in", "refused"} : state' = [state EXCEPT ![c] = x]
      BY <2>2 DEF ReadCode
    <3> QED BY <1>2, <2>2, <3>1, ClientStep DEF ReadCode, serverVars
  <2>3. ASSUME NEW c \in Client, Leave(c), UNCHANGED world
        PROVE  PlayInv'
    BY <1>2, <2>3, ClientStep DEF Leave, serverVars
  <2>4. ASSUME NEW c \in Client, NEW kind \in world.kinds, ReadClient(c, kind), UNCHANGED world
        PROVE  PlayInv'
    BY <1>2, <2>4, ReadPlays
  <2>5. ASSUME NEW k \in Link, Break(k), UNCHANGED world
        PROVE  PlayInv'
    BY <1>2, <2>5, BreakPlays
  <2>6. ASSUME NEW p \in Proxy, Rejoin(p), UNCHANGED world
        PROVE  PlayInv'
    BY <1>2, <2>6, RejoinPlays
  <2>7. ASSUME NEW k \in Link, Process(k), UNCHANGED world
        PROVE  PlayInv'
    BY <1>2, <2>7, ProcessPlays
  <2>8. ASSUME UNCHANGED <<proxyVars, linkVars, up, asked, acted, sessions, world>>
        PROVE  PlayInv'
    <3>1. players' = players /\ TypeSessions'
      BY <2>0, <2>8 DEF players, TypeSessions
    <3> QED BY <1>2, <2>8, <3>1, QuietStep
  <2>9. ASSUME NEW k \in Link, ReadServer(k), UNCHANGED world
        PROVE  PlayInv'
    BY <2>8, <2>9 DEF ReadServer, serverVars
  <2>10. ASSUME NEW s \in Server, NEW key, SendBatch(s, key), UNCHANGED world
         PROVE  PlayInv'
    BY <2>8, <2>10 DEF SendBatch
  <2>11. ASSUME NEW s \in Server, PopBatch(s), UNCHANGED world
         PROVE  PlayInv'
    <3> DEFINE y == sending[s].key
               q == SubSeq(sessions[s][y].queue, sending[s].count + 1, Len(sessions[s][y].queue))
    <3>1. /\ sessions' = [sessions EXCEPT ![s][y].queue = q]
          /\ UNCHANGED <<proxyVars, linkVars, up, asked, acted>>
      BY <2>11 DEF PopBatch
    <3> HIDE DEF y, q
    <3>2. TypeSessions' /\ players' = players
      BY <2>0, <3>1, SamePlayers
    <3> QED BY <1>2, <2>11, <3>1, <3>2, QuietStep
  <2>12. CASE UNCHANGED vars
    BY <2>8, <2>12 DEF vars, serverVars
  <2>13. CASE Next
    BY <2>1, <2>2, <2>3, <2>4, <2>5, <2>6, <2>7, <2>9, <2>10, <2>11, <2>13 DEF Next, Runs
  <2> QED BY <1>2, <2>12, <2>13
<1> QED BY <1>1, <1>2, PTL DEF Spec

\* An object message acts on its client's own player, for all clients, proxies and
\* numbers, any number of which come round after their clients have left: whatever
\* session and player an earlier client left behind under the key, and whatever of it
\* is on the way (UniG_SessionMgr::ProcessClientMsg, ClientObjectFactory::Create).
THEOREM ObjectsActAsUser ==
  ASSUME ReuseRules
  PROVE  Spec => []ActsAsUser
<1>1. PlayInv => ActsAsUser
  <2> SUFFICES ASSUME PlayInv, NEW a \in acted, "wrap" \notin world.events \/ LoggedIn(a.client, a.num)
               PROVE  a.user = world.user[a.client]
    BY DEF ActsAsUser
  <2> QED BY DEF PlayInv, ActedInv, LoggedIn, HasLogin
<1> QED BY <1>1, PlayInvHolds, PTL

=============================================================================
