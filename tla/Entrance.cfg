SPECIFICATION MCSpec
CONSTANTS
  c1 = c1
  c2 = c2
  c3 = c3
  u1 = u1
  u2 = u2
  None = None
  Conn = {c1, c2, c3}
  User = {u1, u2}
  Worlds <- EntranceWorlds
  Role = {r1, r2}
  GameID = {1, 2}
  RoleBase = 2
  IdWidth = 5
  MaxStarts = 2
  MaxJoins = 3
  MaxQueue = 2
  Proxy = {p1, p2}
  Login = {l1}
  GameServer <- Game
  RoleServer <- Roles
  Width = 16
  NoLoad = 9
  MaxBacklog = 1
  MaxList = 2
  MaxGrants = 2
  MaxPlayers = 1
INVARIANTS AnswersExpected NoLostServer
PROPERTIES LoginAnswered RoleInformed ServerListed
CHECK_DEADLOCK FALSE
