SPECIFICATION Spec
CONSTANT MaxLen = 2
INVARIANT RegionsNamed
CHECK_DEADLOCK FALSE
