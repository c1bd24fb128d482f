--------------------------- MODULE MCTitleProver ---------------------------
(* Small instance of TitleProver for TLC. *)
EXTENDS TitleProver

\* Round constants that differ by round and lane.
MCRoundConstants ==
  [r \in 0 .. ROUNDS - 1 |-> [i \in Lanes |-> (3 * r + 5 * i + r * i + 1) % Modulus]]
=============================================================================
