-------------------------- MODULE MCMerkleRegistry --------------------------
(* Small instance of MerkleRegistry for TLC. *)
EXTENDS MerkleRegistry

Wire(d, p) == [digits |-> d, padding |-> p]

\* 0, 1, 0 written as the modulus, and a string that fails to parse.
MCCommitments == {Wire(0, 0), Wire(1, 0), Wire(Modulus, 0), Wire(WireLimit, 0)}

\* One good string and one that fails to parse.
MCFewCommitments == {Wire(0, 0), Wire(WireLimit, 0)}
=============================================================================
