--------------------------- MODULE MCThrottleLog ---------------------------
(* Small instance of ThrottleLog for TLC. *)
EXTENDS ThrottleLog, TLC

Symmetry == Permutations(Principals)
=============================================================================
