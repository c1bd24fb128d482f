\* What can be answered and spent, how often and by whom: two principals, two
\* purposes, the inputs of every challenge mixed with those of every other, a
\* root spelled unlike the canister does, two strings for one nullifier.
SPECIFICATION Spec
CONSTANTS
  Principals = {p1, p2}
  Anonymous = anon
  MinCallInterval = 1
  ThrottleRetention = 1
  MaxPrune = 2
  Modulus = 2
  WireLimit = 3
  RegistryIds = {1}
  Purposes = {transfer, lease}
  RootWires <- MCRootAlias
  NullifierWires <- MCNullifierAliases
  ChallengeTTL = 1
  Second = 2
  MaxTime = 2
  MaxChallenges = 2
SYMMETRY Symmetry
INVARIANTS
  TypeOK
  NullifierSpentOnce
  ChallengeAnsweredOnce
  AcceptedAsIssued
  NonceFresh
PROPERTIES
  OnlyAnswersConsume
  RightsKept
