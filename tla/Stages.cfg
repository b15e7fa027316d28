CONSTANTS
  l1 = l1
  l2 = l2
  l3 = l3
  Listener = {l1, l2}
  NoListener = NoListener
  Zone <- OneZone
  Island = {1}
  InitGroups <- Single
  IdReset = 2
  RetryLimit = 2
  CountMod = 3
  MaxBacklog = 2
  Rules <- AllRules
SPECIFICATION FairDisciplinedSpec
INVARIANTS AllLocked
PROPERTIES MoveAfterTransfer PlanEnds
CHECK_DEADLOCK FALSE
