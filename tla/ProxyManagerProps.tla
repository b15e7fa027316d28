------------------------- MODULE ProxyManagerProps -------------------------
(* What the proxy manager promises its peers. *)
EXTENDS ProxyManager

Count(seq, v) == Cardinality({i \in DOMAIN seq : seq[i] = v})

-----------------------------------------------------------------------------
(* Joining                                                                  *)

Known(c) == c \in Items /\ proxies[c].addr # None

\* The proxy manager never starts again, so it gives out every id once.
IdsOnce == world.faults \cap {"pm", "ilm"} = {}

\* A proxy has one item, however often and with whatever losses it joins: its
\* load is counted once (alreadyHaveThisProxy).  And an id names one item
\* (findProxybyID), so a session that one proxy granted is never answered with
\* the address of another, unless the proxy manager starts again, which the loss
\* of the ILM can lead to (AnswerNobody), and gives out ids again that proxies
\* still claim.
OneItemPerProxy ==
  \A c, d \in Items : Known(c) /\ Known(d) =>
    /\ proxies[c].addr = proxies[d].addr => c = d
    /\ proxies[c].id = proxies[d].id /\ IdsOnce => c = d

\* A client that was told of a proxy and a session finds the session there,
\* although two users may share a number (createSession) and each use takes an
\* entry away (FindAuthenInfo).  A proxy that restarts forgets its sessions, and
\* ids given out again lead a client to the wrong proxy.
TicketKept ==
  IdsOnce /\ "restart" \notin world.faults =>
  \A p \in Proxy : \A t \in ticket :
    t.addr = p => Cardinality({u \in ticket : u.addr = p /\ u.session = t.session})
                    <= Count(authen[p], t.session)

-----------------------------------------------------------------------------
(* Announcing servers                                                       *)

\* The questions and answers of onAddServerMessage that are on the way on a
\* connection, in the order in which the proxy manager gets them back
Way(c) == toPM[c] \o toProxy[c]
Awaited(c) == {i \in DOMAIN Way(c) : Way(c)[i].type \in {"add", "added"}}

Owed == Cardinality(UNION {{c} \X Awaited(c) : c \in Items})

\* With no message on the way and no proxy in the middle of a join
Quiet == /\ ilm = "up" /\ fromILM = <<>>
         /\ \A c \in Conn : toProxy[c] = <<>> /\ toPM[c] = <<>> /\ link[c] # "new"

\* No proxy is lost.
ProxiesStay == world.faults \cap {"cut", "restart", "count"} = {}

\* Without losses of proxies the proxy manager knows every server of the ILM,
\* so a proxy that joins later is told of it.
ServersKnown == ProxiesStay /\ Quiet => joined \subseteq ToSet(servers)

\* _addServerCount never falls below the answers still to come, whatever is
\* lost: the unsigned counter does not pass 0, and the ILM is not answered
\* while a proxy that was asked may still refuse.  Without losses of proxies the
\* two are the same, and so is the number printed with "Proxies Not Reply".
CountExact ==
  /\ Owed <= addServerCount
  /\ ProxiesStay /\ (\A c \in Conn : link[c] # "broken") => addServerCount = Owed

\* Without losses a server that stays is listed in the end, so that later
\* proxies hear of it, and the ILM is answered.
ServerListed == \A s \in Server : <>[](s \in joined) => <>[](s \in ToSet(servers))
============================================================================
