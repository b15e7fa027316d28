SPECIFICATION Spec
CONSTANT MaxLen = 2
INVARIANT MigrantsPacked
CHECK_DEADLOCK FALSE
