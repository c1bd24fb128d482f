\* Four challenges of one principal and one pop per heartbeat.
SPECIFICATION FairSpec
CONSTANTS
  Principals = {p1}
  Anonymous = anon
  MinCallInterval = 1
  ThrottleRetention = 1
  MaxPrune = 1
  Modulus = 1
  WireLimit = 1
  RegistryIds = {1}
  Purposes = {transfer}
  RootWires <- MCOneWire
  NullifierWires <- MCOneWire
  ChallengeTTL = 1
  Second = 2
  MaxTime = 5
  MaxChallenges = 4
INVARIANT NoOrphanChallenge
PROPERTY ExpiredArePruned
