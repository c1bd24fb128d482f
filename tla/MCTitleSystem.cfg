\* Two owners, two properties, two submissions in any order, two challenges.
SPECIFICATION Spec
CONSTANTS
  alice = alice
  bob = bob
  villa = villa
  shop = shop
  Principals = {alice, bob}
  Anonymous = anon
  Controllers = {alice}
  MinCallInterval = 1
  ThrottleRetention = 1
  MaxPrune = 3
  Modulus = 8
  WireLimit = 8
  ChallengeTTL = 1
  Second = 1
  MaxTime = 2
  MaxChallenges = 2
  TREE_DEPTH = 1
  PropertyIds = {villa, shop}
  Purposes = {sale}
  Admin = alice
  Submitted <- MCSubmitted
  Commitment <- MCCommitment
  Nullifier <- MCNullifier
  MaxVersions = 3
INVARIANTS
  
  OutdatedAtMostTTL
  
PROPERTY RightsKept
