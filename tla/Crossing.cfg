SPECIFICATION Spec
CONSTANTS
  s1 = s1
  s2 = s2
  s3 = s3
  p1 = p1
  None = None
  Server = {s1, s2, s3}
  Player = {p1}
  Rows = 2
  Cols = 3
  FirstOwner <- Columns
  Zones <- Middle
  Worlds <- Cross
  MaxNet = 2
  MaxPlans = 1
INVARIANT ToldNewServer
CHECK_DEADLOCK FALSE
