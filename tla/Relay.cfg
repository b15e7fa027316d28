SPECIFICATION FairSpec
CONSTANTS
  p1 = p1
  p2 = p2
  c1 = c1
  c2 = c2
  c3 = c3
  c4 = c4
  u1 = u1
  u2 = u2
  Proxy = {p1, p2}
  Client = {c1, c2, c3, c4}
  User = {u1, u2}
  Home <- Homes
  IdMod = 2
  MaxAsks = 3
  MaxLink = 2
  Worlds <- HoldWorlds
INVARIANTS AnswerToAsker ActsAsUser
PROPERTIES Answered
CHECK_DEADLOCK FALSE
