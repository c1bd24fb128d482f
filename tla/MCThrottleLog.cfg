\* Three principals, windows 2 and 3, a budget of two pops per heartbeat,
\* calls up to time 3 and a clock that outlives every retention window.
SPECIFICATION FairSpec
CONSTANTS
  Principals = {p1, p2, p3}
  Anonymous = anon
  MinCallInterval = 2
  ThrottleRetention = 3
  MaxPrune = 2
  LastCallTime = 3
  MaxTime = 6
  MaxUpgrades = 1
INVARIANTS TypeOK NoLeak PromptUntilUpgrade
PROPERTIES RateLimited EvictedOnlyWhenStale Drains
