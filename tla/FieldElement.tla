---------------------------- MODULE FieldElement ----------------------------
(***************************************************************************)
(* Field elements as they cross the canister's interface: decimal strings  *)
(* that are parsed as a u128 and reduced into the field.                   *)
(*                                                                         *)
(* The string is abstracted to what tells two strings for one element      *)
(* apart: the number its digits spell and the count of redundant           *)
(* characters (leading zeros, surrounding blanks) around them.  A string   *)
(* that is not a u128 at all is one whose number is WireLimit.             *)
(***************************************************************************)
EXTENDS Naturals

CONSTANTS
  Modulus,    \* M, the modulus of the f128 field
  WireLimit   \* 2^128, the first number u128 cannot hold

\* BaseElement::new subtracts the modulus at most once, which reduces every
\* u128 because 2^128 is below twice the modulus of f128.
ASSUME FieldAssumption ==
  /\ Modulus \in Nat \ {0}
  /\ WireLimit \in Nat
  /\ Modulus <= WireLimit
  /\ WireLimit <= 2 * Modulus

FieldElements == 0 .. Modulus - 1

WireStrings == [digits : 0..WireLimit, padding : Nat]

Parses(w) == w.digits < WireLimit

parse_fe(w) == IF w.digits < Modulus THEN w.digits ELSE w.digits - Modulus

fe_to_string(v) == [digits |-> v, padding |-> 0]

\* Faulty variant: nullifiers are kept as they came off the wire.
raw_nullifier(w) == w

canonical_nullifier(w) == fe_to_string(parse_fe(w))
=============================================================================
