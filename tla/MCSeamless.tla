----------------------------- MODULE MCSeamless -----------------------------
(* Instances of SeamlessProps for TLC: 2 x 3 regions, the left and the middle  *)
(* column run by one server, the right one by another, a third that waits.     *)
EXTENDS SeamlessProps, TLC

CONSTANTS s1, s2, s3, p1

Columns == [r \in 1..6 |-> IF r % 3 = 0 THEN s2 ELSE s1]
Middle == {{2}}

HoldWorlds == {{}, {"across"}, {"plan"}, {"plan", "enter"}, {"plan", "late"}, {"plan", "abort"}}
Cross == {{"across"}}
=============================================================================
