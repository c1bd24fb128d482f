-------------------------- MODULE MCTitleStatement --------------------------
(* Small instance of TitleStatement for TLC. *)
EXTENDS TitleStatement

MCRoundConstants ==
  [r \in 0 .. ROUNDS - 1 |-> [i \in Lanes |-> (3 * r + 5 * i + r * i + 1) % Modulus]]

MCStatements ==
  {[registry_id |-> 1, purpose |-> 1, request_nonce |-> 7, current_timestamp |-> ts] :
     ts \in {0, 2, 6}}

MCOddState == [i \in Lanes |-> 3]
=============================================================================
