CONSTANTS
  l1 = l1
  l2 = l2
  l3 = l3
  Listener = {l1, l2, l3}
  NoListener = NoListener
  Zone <- ThreeZones
  Island = {1}
  InitGroups <- ThreeGroups
  IdReset = 2
  RetryLimit = 2
  CountMod = 3
  MaxBacklog = 2
  Rules = {"ids", "pm", "plan", "quiet"}
SPECIFICATION DisciplinedSpec
SYMMETRY Symmetry
INVARIANTS OneServerPerZone
CHECK_DEADLOCK FALSE
