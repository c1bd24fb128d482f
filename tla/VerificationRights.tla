------------------------- MODULE VerificationRights -------------------------
(***************************************************************************)
(* What the canister's verification promises, without clocks, throttles,   *)
(* counters, pruning or upgrades.                                          *)
(*                                                                         *)
(* A challenge is a right of its holder to one answer, on the terms it was *)
(* given on.  While it is open it is answered once, by its holder, on its  *)
(* terms and with a mark no other answer carries, or it lapses.            *)
(*                                                                         *)
(* ChallengeVerify implements this module: its definition Rights is the    *)
(* mapping, ChallengeVerify_proofs the proof.                              *)
(***************************************************************************)
CONSTANTS
  Ids,       \* names of rights
  Holders,
  Terms,
  Marks

VARIABLES
  rights,    \* a partial function from Ids to holders and terms
  open,      \* the rights that can still be answered
  answers    \* a partial function from Ids to what was answered

vars == <<rights, open, answers>>

Right == [holder : Holders, terms : Terms]

Init ==
  /\ rights = [id \in {} |-> {}]
  /\ open = {}
  /\ answers = [id \in {} |-> {}]

Issue(id, right) ==
  /\ rights' = [x \in DOMAIN rights \cup {id} |-> IF x = id THEN right ELSE rights[x]]
  /\ open' = open \cup {id}
  /\ UNCHANGED answers

Answer(id, mark) ==
  /\ id \in open
  /\ \A x \in DOMAIN answers : answers[x].mark # mark
  /\ answers' = [x \in DOMAIN answers \cup {id} |->
                   IF x = id THEN [by    |-> rights[id].holder,
                                   terms |-> rights[id].terms,
                                   mark  |-> mark]
                             ELSE answers[x]]
  /\ open' = open \ {id}
  /\ UNCHANGED rights

Lapse(ids) ==
  /\ ids \subseteq open
  /\ open' = open \ ids
  /\ UNCHANGED <<rights, answers>>

Next ==
  \/ \E ids \in SUBSET open : Lapse(ids)
  \/ \E id \in open, mark \in Marks : Answer(id, mark)
  \/ \E id \in Ids \ DOMAIN rights, right \in Right : Issue(id, right)

Spec == Init /\ [][Next]_vars
=============================================================================
