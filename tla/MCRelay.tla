------------------------------ MODULE MCRelay ------------------------------
(***************************************************************************)
(* Instance of Relay for TLC: two proxies with clients of the same         *)
(* numbers.  With two numbers the third client of p1 has the first one's.  *)
(***************************************************************************)
EXTENDS Relay

CONSTANTS p1, p2, c1, c2, c3, c4, u1, u2

Homes == [c \in Client |-> IF c = c3 THEN p2 ELSE p1]

World(C, E, K, n) == [clients |-> C, events |-> E, kinds |-> K, asks |-> [c \in Client |-> n],
                      user |-> [c \in Client |-> IF c = c1 THEN u1 ELSE u2]]

Entering(C, E) == World(C, E, {"enter"}, 2)
Playing(C, E, n) == World(C, E, {"login", "object"}, n)

\* A world in which c4 has the number of c1; c2 only takes the one between.
Again(w) == [w EXCEPT !.clients = {c1, c2, c4}, !.asks[c2] = 0, !.events = @ \cup {"leave", "wrap"}]

HoldWorlds ==
  {Entering({c1, c2}, {"leave", "stranger"}), Playing({c1, c2}, {"leave"}, 2)}
  \cup {Entering({c1, c3}, {e}) : e \in {"rejoin", "break"}}
  \cup {Playing({c1, c3}, {e}, 2) : e \in {"rejoin", "break"}}
  \cup {World({c1, c3}, {}, Kind, 2), Playing({c1, c2}, {}, 3)}
  \cup {Again(World({}, {}, {"enter"}, 1)), Again(Playing({}, {}, 2))}
============================================================================
