--------------------------- MODULE MCProxyManager ---------------------------
(* Instances of ProxyManagerProps for TLC. *)
EXTENDS ProxyManagerProps, TLC

CONSTANTS p1, p2, c1, c2, l1, u1, u2, none

Game == {1, 2}
Role == {6001}

World(f, s, u, n) == [faults |-> f, servers |-> s, users |-> u, ids |-> n]

\* Joins and losses of proxies; sessions; servers with losses of proxies; servers
\* with losses of the ILM and of the proxy manager.
SafetyWorlds == {World({"cut", "silent", "restart", "login"}, {}, {}, 3),
                 World({"cut"}, {}, User, 2),
                 World({"cut", "count"}, {1}, {}, 3),
                 World({"ilm", "pm", "refuse"}, {1}, {}, 3)}

\* Connections are alike, and so are users, and proxies.
Symmetry == Permutations(Conn) \cup Permutations(User) \cup Permutations(Proxy)
=============================================================================
