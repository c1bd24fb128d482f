\* A tree of four leaves, three properties, resubmitted in any order.
SPECIFICATION Spec
CONSTANTS
  Principals = {p1, p2}
  Controllers = {p1}
  Modulus = 2
  WireLimit = 3
  TREE_DEPTH = 2
  PropertyIds = {10, 11, 12}
  Commitments <- MCCommitments
  Terms = {clear}
INVARIANTS
  TypeOK
  IndicesDense
  RootIsReference
  EveryProofRecomputes
PROPERTIES
  NeverLockedOut
  UpgradeKeepsRoot
  LeavesStay
