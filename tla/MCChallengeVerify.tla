------------------------- MODULE MCChallengeVerify -------------------------
(* Small instance of ChallengeVerify for TLC: a field of two elements and a *)
(* few of the strings that spell them.                                      *)
EXTENDS ChallengeVerify, TLC

Wire(d, p) == [digits |-> d, padding |-> p]

\* 0 written as the modulus; no string says 1, the other root there can be.
MCRootAlias == {Wire(Modulus, 0)}

\* 0, the modulus, which also means 0, and 1.
MCNullifierAliases == {Wire(0, 0), Wire(Modulus, 0), Wire(1, 0)}

\* One string, for runs where strings play no part.
MCOneWire == {Wire(0, 0)}

Symmetry == Permutations(Principals) \cup Permutations(Purposes)
=============================================================================
