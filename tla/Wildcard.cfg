CONSTANTS
  Letters = {"a", "b"}
  MaxTame = 4
  MaxWild = 4
SPECIFICATION Spec
INVARIANT StarMatchesAny
CHECK_DEADLOCK FALSE
