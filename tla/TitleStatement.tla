--------------------------- MODULE TitleStatement ---------------------------
(***************************************************************************)
(* What the circuit of TitleAir proves: the traces that satisfy its        *)
(* constraints and assertions, whoever wrote them, against the six         *)
(* conditions the crate's documentation lists.                             *)
(*                                                                         *)
(* A trace is extended job by job.  The cells of a job's first row that    *)
(* are free for its author are chosen, the constraints on them filter the  *)
(* choices, and the rest of the job follows.  Cells that no constraint     *)
(* reads are zero.                                                         *)
(***************************************************************************)
EXTENDS SparseTree, FiniteSets

CONSTANTS
  Statements,    \* the public inputs, root and nullifier left open
  HeldValues,    \* values of held_secret
  SiblingValues, \* values of aux_a in a Merkle step
  OddState       \* some first state of the first job

ASSUME StatementAssumption ==
  /\ \A pi \in Statements :
       /\ pi \in [registry_id : FieldElements, purpose : FieldElements,
                  request_nonce : FieldElements, current_timestamp : FieldElements]
       /\ pi.current_timestamp + PowerOfTwo(RANGE_BITS) < Modulus
  /\ HeldValues \subseteq FieldElements
  /\ SiblingValues \subseteq FieldElements
  /\ OddState \in [Lanes -> FieldElements]

VARIABLES
  inputs,   \* the public inputs but for root and nullifier
  trace     \* complete jobs

vars == <<inputs, trace>>

jobs == Cardinality(DOMAIN trace) \div ROUNDS

Zeros == [i \in 0 .. RANGE_BITS - 1 |-> 0]

AuxOf(a, b, c, d) ==
  [x \in {"a", "b", "c", "d"} |->
     CASE x = "a" -> a [] x = "b" -> b [] x = "c" -> c [] x = "d" -> d]

Held(secret) == [x \in {"secret", "pid"} |-> IF x = "secret" THEN secret ELSE 4]

-----------------------------------------------------------------------------
(* What an author may write into the first row of a job *)

\* The right type column alone, or others with it whose sum hides them.
TypeChoices(j) ==
  LET k == job_type_column(j)
      unit == [x \in JobTypes |-> IF x = k THEN 1 ELSE 0]
  IN  {[[unit EXCEPT ![x] = v] EXCEPT ![y] = F(@ - v)] :
         x \in JobTypes, y \in JobTypes, v \in {0, 1, 3}}

AuxChoices(j) ==
  CASE job_type_column(j) = "leaf" ->
         {AuxOf(a, b, c, d) : a \in {inputs.registry_id, 0}, b \in {0, 1},
                              c \in {0, 1}, d \in FieldElements}
    [] j \in JOB_MERKLE_FIRST .. JOB_MERKLE_LAST ->
         {AuxOf(a, b, 0, 0) : a \in SiblingValues, b \in {0, 1, 2}}
    [] job_type_column(j) = "nullifier" ->
         {AuxOf(a, b, 0, 0) : a \in {inputs.purpose, 0},
                              b \in {inputs.request_nonce, 0}}
    [] OTHER -> {AuxOf(0, 0, 0, 0)}

BitChoices(j) ==
  IF j = JOB_LEAF THEN [0 .. RANGE_BITS - 1 -> {0, 1, 3}] ELSE {Zeros}

\* The assertions on a job's first row.
FirstRowAsserted(j, first) ==
  /\ first.t[job_type_column(j)] = 1
  /\ j = JOB_LEAF => LeafAsserted(first, inputs)
  /\ j = JOB_NULLIFIER => NullifierAsserted(first, inputs)

\* A job from its first row.
WithJob(rows, j, first) ==
  [r \in DOMAIN rows \cup (job_start_row(j) .. job_last_row(j)) |->
     IF r \in DOMAIN rows THEN rows[r]
     ELSE IF r = job_start_row(j) THEN first
     ELSE [s    |-> AfterRounds(first.s, r - job_start_row(j)),
           aux  |-> AuxOf(0, 0, 0, 0),
           held |-> first.held,
           t    |-> [k \in JobTypes |-> 0],
           bit  |-> Zeros]]

\* The first row of the trace has no row before it that determines its state.
Init ==
  /\ inputs \in Statements
  /\ \E secret \in HeldValues, t \in TypeChoices(JOB_OWNER) :
       \E s \in {Padded(<<DOMAIN_OWNER_COMMITMENT, other, 4>>) : other \in HeldValues}
               \cup {OddState} :
         LET first == [s |-> s, aux |-> AuxOf(0, 0, 0, 0), held |-> Held(secret),
                       t |-> t, bit |-> Zeros]
         IN  /\ FirstRowAsserted(JOB_OWNER, first)
             /\ TypeOneHot(first)
             /\ trace = WithJob(<<>>, JOB_OWNER, first)

\* The first state of a later job is the one LanesFollow leaves.
Extend ==
  LET j == jobs
      last == trace[job_start_row(j) - 1]
  IN  /\ j < JOB_COUNT
      /\ \E secret \in HeldValues, t \in TypeChoices(j) :
           /\ HeldCopied(last, [held |-> Held(secret)])
           /\ TypeOneHot([t |-> t])
           /\ \E aux \in AuxChoices(j), bit \in BitChoices(j) :
                LET first == [s    |-> Boundary(last, [t |-> t, aux |-> aux]),
                              aux  |-> aux,
                              held |-> Held(secret),
                              t    |-> t,
                              bit  |-> bit]
                IN  /\ FirstRowAsserted(j, first)
                    /\ MerkleBitBinary(first)
                    /\ RangeBitsBinary(first)
                    /\ RangeSum(first, inputs)
                    /\ trace' = WithJob(trace, j, first)
      /\ UNCHANGED inputs

Next == Extend

Spec == Init /\ [][Next]_vars

-----------------------------------------------------------------------------
(* Properties *)

Complete == jobs = JOB_COUNT

\* The public inputs the complete trace is a trace for.
pub_inputs ==
  [registry_id       |-> inputs.registry_id,
   merkle_root       |-> trace[job_last_row(JOB_MERKLE_LAST)].s[0],
   purpose           |-> inputs.purpose,
   request_nonce     |-> inputs.request_nonce,
   current_timestamp |-> inputs.current_timestamp,
   nullifier         |-> trace[job_last_row(JOB_NULLIFIER)].s[0]]

secret_of == trace[0].held["secret"]
pid_of == trace[0].held["pid"]
commitment_of == trace[job_last_row(JOB_OWNER)].s[0]
leaf_row == trace[job_start_row(JOB_LEAF)]
merkle_row(level) == trace[job_start_row(JOB_MERKLE_FIRST + level)]

\* Every trace explored satisfies the circuit, and conditions 2 to 6 of the
\* statement hold of it: the leaf with flag 0, status 1 and an expiry after the
\* timestamp lies under the root along binary directions, and the nullifier is
\* the hash of the held secret (evaluate_transition, get_assertions).
ConditionsTwoToSix ==
  Complete =>
    /\ Satisfies(trace, pub_inputs)
    /\ \A l \in 0 .. TREE_DEPTH - 1 : merkle_row(l).aux["b"] \in {0, 1}
    /\ pub_inputs.merkle_root =
         recompute_root(hash(<<DOMAIN_LEAF, inputs.registry_id, commitment_of, 0, 1,
                               leaf_row.aux["d"]>>),
                        [l \in 0 .. TREE_DEPTH - 1 |-> merkle_row(l).aux["a"]],
                        [l \in 0 .. TREE_DEPTH - 1 |-> merkle_row(l).aux["b"] = 1])
    /\ leaf_row.aux["d"] > inputs.current_timestamp
    /\ pub_inputs.nullifier =
         hash(<<DOMAIN_NULLIFIER, secret_of, pid_of, inputs.purpose,
                inputs.request_nonce>>)

\* Condition 1: the commitment under the leaf is that of the held secret.
ConditionOne ==
  Complete /\ Satisfies(trace, pub_inputs) =>
    commitment_of = hash(<<DOMAIN_OWNER_COMMITMENT, secret_of, pid_of>>)

\* With the first row taken as the row after the last, as the harness's
\* eval_all_constraints evaluates them, the constraints imply condition 1 too.
ConditionOneIfCyclic ==
  Complete /\ LanesFollow(trace[TRACE_LENGTH - 1], trace[0], ROUNDS - 1) =>
    commitment_of = hash(<<DOMAIN_OWNER_COMMITMENT, secret_of, pid_of>>)
=============================================================================
