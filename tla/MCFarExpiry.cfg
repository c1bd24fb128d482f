SPECIFICATION Spec
CHECK_DEADLOCK FALSE
CONSTANTS
  Modulus = 17
  WireLimit = 19
  TREE_DEPTH = 3
  ROUNDS = 4
  JOB_COUNT = 8
  RANGE_BITS = 2
  RoundConstants <- MCRoundConstants
  registry_id = 1
  purpose = 1
  request_nonce = 7
  property_id = 4
  Makers = {"prover"}
  Secrets = {5, 6}
  Timestamps = {2}
  Expiries = {1, 2, 3, 6, 7}
  OtherLeaves = {9}
  MaxOthers = 1
  TamperLanes = {0, 1, 2, 3, 4, 5, 6, 7}
INVARIANTS
  EveryBuiltTraceSatisfies
