SPECIFICATION Spec
CHECK_DEADLOCK FALSE
CONSTANTS
  Modulus = 13
  WireLimit = 13
  TREE_DEPTH = 3
  ROUNDS = 4
  JOB_COUNT = 7
  RANGE_BITS = 2
  RoundConstants <- MCRoundConstants
  Statements <- MCStatements
  HeldValues = {5, 8}
  SiblingValues = {0, 3}
  OddState <- MCOddState
INVARIANTS
  ConditionsTwoToSix
  ConditionOneIfCyclic
