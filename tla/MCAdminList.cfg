SPECIFICATION AdminSpec
CONSTANTS
  Principals = {p1, p2, p3}
  Controllers = {p1}
INVARIANT BootstrapIsPublic
