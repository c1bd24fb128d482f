\* A tree of two leaves and three properties.
SPECIFICATION Spec
CONSTANTS
  Principals = {p1}
  Controllers = {p1}
  Modulus = 2
  WireLimit = 3
  TREE_DEPTH = 1
  PropertyIds = {10, 11, 12}
  Commitments <- MCFewCommitments
  Terms = {clear}
INVARIANT EveryProofRecomputes
