CONSTANTS
  l1 = l1
  l2 = l2
  l3 = l3
  Listener = {l1, l2}
  NoListener = NoListener
  Zone <- ThreeZones
  Island = {1}
  InitGroups <- ThreeGroups
  IdReset = 2
  RetryLimit = 2
  CountMod = 2
  MaxBacklog = 1
  Rules <- OwnershipRules
SPECIFICATION DisciplinedSpec
SYMMETRY Symmetry
INVARIANTS TypeOK OneServerPerZone RecordedServerHolds RegistryConsistent NoZoneLost PlanZoneAtParty PlanSurvives
PROPERTIES ImplementsDirectory
CHECK_DEADLOCK FALSE
