--------------------------- MODULE MCServerManager ---------------------------
(* Instances of ServerManagerProps for TLC. *)
EXTENDS ServerManagerProps, TLC

CONSTANTS l1, l2, l3

\* config.cfg ships several groups of zones; a second server is idle when
\* there is one group only (Single).
ThreeZones == {1, 2, 3}
ThreeGroups == <<{1}, {2}, {3}>>
OneZone   == {1}
Single    == <<{1}>>

AllRules == {"ids", "pm", "plan", "join", "quiet"}

OwnershipRules == {"ids", "pm", "plan", "join"}

\* Listeners are alike; the initial state and every action treat them so.
Symmetry == Permutations(Listener)
==============================================================================
