---------------------------- MODULE MCTitleSystem ----------------------------
(* Small instance of TitleSystem for TLC. *)
EXTENDS TitleSystem

CONSTANTS alice, bob, villa, shop

MCCommitment ==
  [x \in {alice, bob} \X {villa, shop} |->
     (IF x[1] = alice THEN 0 ELSE 1) + (IF x[2] = villa THEN 0 ELSE 2)]

MCNullifier ==
  [x \in {alice, bob} \X {villa, shop} \X Purposes \X (0 .. MaxChallenges - 1) |->
     MCCommitment[x[1], x[2]] + 4 * x[4]]

Title(owner, p, clear, expiry) ==
  [property |-> p,
   record   |-> [owner_commitment |-> fe_to_string(MCCommitment[owner, p]),
                 terms            |-> [clear |-> clear, expiry |-> expiry]]]

\* The villa is alice's, licensed until 2 or encumbered; the shop is bob's.
MCSubmitted ==
  {Title(alice, villa, TRUE, 2), Title(alice, villa, FALSE, 9),
   Title(bob, shop, TRUE, 9)}
=============================================================================
