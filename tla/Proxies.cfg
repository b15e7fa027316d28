SPECIFICATION Spec
CONSTANTS
  p1 = p1
  p2 = p2
  c1 = c1
  c2 = c2
  l1 = l1
  u1 = u1
  u2 = u2
  none = none
  None = none
  Width = 16
  NoLoad = 9
  Proxy = {p1, p2}
  Conn = {c1, c2}
  Login = {l1}
  User = {u1, u2}
  GameServer <- Game
  RoleServer <- Role
  MaxBacklog = 1
  MaxList = 2
  MaxGrants = 2
  MaxPlayers = 1
  Worlds <- SafetyWorlds
SYMMETRY Symmetry
INVARIANTS OneItemPerProxy TicketKept ServersKnown CountExact
