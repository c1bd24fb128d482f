SPECIFICATION Spec
CONSTANTS
  Principals = {p1, p2, p3}
  Anonymous = anon
  MinCallInterval = 2
  ThrottleRetention = 3
  MaxPrune = 2
  LastCallTime = 3
  MaxTime = 6
  MaxUpgrades = 1
INVARIANT AtMostOneLateHeartbeat
SYMMETRY Symmetry
