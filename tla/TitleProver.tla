---------------------------- MODULE TitleProver ----------------------------
(***************************************************************************)
(* The owner's device: the sparse tree, the witness taken from it, the     *)
(* trace build_trace writes for it job by job, and what the command line   *)
(* does with the trace.                                                    *)
(*                                                                         *)
(* build_trace exists twice, in the prover and in the test harness, whose  *)
(* copy also asserts its inputs: maker tells which of them runs.  The      *)
(* harness's checks, which alter a finished trace and expect a constraint  *)
(* to notice, are the steps that tamper.                                   *)
(***************************************************************************)
EXTENDS SparseTree, SequencesExt

CONSTANTS
  Makers,        \* subset of {"prover", "harness"}
  registry_id, purpose, request_nonce, property_id,
                 \* what the challenge and the record say
  Secrets,       \* owner_secret
  Timestamps,    \* current_timestamp of the challenge
  Expiries,      \* license_expiry of the record
  OtherLeaves,   \* leaves of other properties
  MaxOthers,     \* bound: number of leaves inserted before the owner's
  TamperLanes    \* bound: lanes whose cells are altered

\* Cubing, the S-box, is injective: 3 does not divide Modulus - 1.
ASSUME ProverAssumption ==
  /\ \A x, y \in FieldElements : cube(x) = cube(y) => x = y
  /\ Makers \subseteq {"prover", "harness"}
  /\ {registry_id, purpose, request_nonce, property_id} \subseteq FieldElements
  /\ Secrets \subseteq FieldElements
  /\ Timestamps \subseteq FieldElements
  /\ Expiries \subseteq FieldElements
  /\ OtherLeaves \subseteq FieldElements
  /\ MaxOthers \in Nat
  /\ TamperLanes \subseteq Lanes

VARIABLES
  nodes,        \* the sparse tree, a partial function from <<level, index>>
  others,       \* how many leaves were inserted before the owner's
  maker,
  witness,
  status,       \* how far the build is, see Statuses
  trace,        \* the rows written so far
  digests,      \* what run_job returned so far
  pub_inputs,
  verdict       \* what the command line or the harness reports

vars == <<nodes, others, maker, witness, status, trace, digests, pub_inputs,
          verdict>>

None == <<>>

-----------------------------------------------------------------------------
(* The witness *)

owner_commitment(secret, pid) == hash(<<DOMAIN_OWNER_COMMITMENT, secret, pid>>)

leaf_of(secret, pid, expiry) ==
  hash(<<DOMAIN_LEAF, registry_id, owner_commitment(secret, pid), 0, 1, expiry>>)

Witness(secret, timestamp, expiry, path) ==
  [registry_id       |-> registry_id,
   purpose           |-> purpose,
   request_nonce     |-> request_nonce,
   current_timestamp |-> timestamp,
   owner_secret      |-> secret,
   property_id       |-> property_id,
   license_expiry    |-> expiry,
   merkle_siblings   |-> path.siblings,
   merkle_bits       |-> path.bits]

Init ==
  /\ nodes = None
  /\ others = 0
  /\ maker \in Makers
  /\ witness = None
  /\ status = "filling"
  /\ trace = None
  /\ digests = <<>>
  /\ pub_inputs = None
  /\ verdict = None

InsertOther(index, leaf) ==
  /\ status = "filling"
  /\ others < MaxOthers
  /\ others' = others + 1
  /\ nodes' = WithLeaf(nodes, index, leaf)
  /\ UNCHANGED <<maker, witness, status, trace, digests, pub_inputs, verdict>>

\* The owner's record enters the tree and its path becomes the witness.
Load(index, secret, timestamp, expiry) ==
  LET tree == WithLeaf(nodes, index, leaf_of(secret, property_id, expiry)) IN
  /\ status = "filling"
  /\ nodes' = tree
  /\ witness' = Witness(secret, timestamp, expiry, proof(tree, index))
  /\ status' = "building"
  /\ UNCHANGED <<others, maker, trace, digests, pub_inputs, verdict>>

-----------------------------------------------------------------------------
(* build_trace *)

Aux(a, b, c, d) ==
  [x \in {"a", "b", "c", "d"} |->
     CASE x = "a" -> a [] x = "b" -> b [] x = "c" -> c [] x = "d" -> d]

to_bits_le(v, n) == [i \in 0 .. n - 1 |-> Halved(v, i) % 2]

job == Len(digests)

\* The rows run_job writes for a job.  Aux columns and range bits are written
\* in the first row only.
JobRows(inputs, aux, bits) ==
  LET start == job_start_row(job) IN
  [r \in start .. job_last_row(job) |->
     [s    |-> AfterRounds(Padded(inputs), r - start),
      aux  |-> IF r = start THEN aux ELSE Aux(0, 0, 0, 0),
      held |-> [c \in {"secret", "pid"} |->
                  IF c = "secret" THEN witness.owner_secret ELSE witness.property_id],
      t    |-> [k \in JobTypes |-> IF k = job_type_column(job) THEN 1 ELSE 0],
      bit  |-> IF r = start THEN bits ELSE to_bits_le(0, RANGE_BITS)]]

run_job(inputs, aux, bits) ==
  LET rows == JobRows(inputs, aux, bits) IN
  /\ trace' = [r \in DOMAIN trace \cup DOMAIN rows |->
                 IF r \in DOMAIN rows THEN rows[r] ELSE trace[r]]
  /\ digests' = Append(digests, rows[job_last_row(job)].s[0])
  /\ UNCHANGED <<nodes, others, maker, witness, status, pub_inputs, verdict>>

NoBits == to_bits_le(0, RANGE_BITS)

Building(j) == status = "building" /\ job = j

OwnerJob ==
  /\ Building(JOB_OWNER)
  /\ run_job(<<DOMAIN_OWNER_COMMITMENT, witness.owner_secret, witness.property_id>>,
             Aux(0, 0, 0, 0), NoBits)

\* What the range check has to show, as a number that may be negative.
Diff == witness.license_expiry - witness.current_timestamp - 1

\* The prover has room for RANGE_BITS bits and does not look at more; the
\* harness asserts that there are none.
DiffRefused == Diff < 0 \/ (maker = "harness" /\ Diff >= PowerOfTwo(RANGE_BITS))

LeafJob ==
  /\ Building(JOB_LEAF)
  /\ ~DiffRefused
  /\ run_job(<<DOMAIN_LEAF, witness.registry_id, Last(digests), 0, 1,
               witness.license_expiry>>,
             Aux(witness.registry_id, 0, 1, witness.license_expiry),
             to_bits_le(Diff, RANGE_BITS))

Panic ==
  /\ Building(JOB_LEAF)
  /\ DiffRefused
  /\ status' = "panicked"
  /\ UNCHANGED <<nodes, others, maker, witness, trace, digests, pub_inputs, verdict>>

\* Faulty variant: the children are hashed in the order they are at hand.
MerkleJobAsIs(level) ==
  /\ Building(JOB_MERKLE_FIRST + level)
  /\ run_job(<<DOMAIN_NODE, Last(digests), witness.merkle_siblings[level]>>,
             Aux(witness.merkle_siblings[level],
                 IF witness.merkle_bits[level] THEN 1 ELSE 0, 0, 0), NoBits)

MerkleJob(level) ==
  LET sibling == witness.merkle_siblings[level]
      current == Last(digests)
      right == witness.merkle_bits[level]
  IN  /\ Building(JOB_MERKLE_FIRST + level)
      /\ run_job(IF right THEN <<DOMAIN_NODE, sibling, current>>
                          ELSE <<DOMAIN_NODE, current, sibling>>,
                 Aux(sibling, IF right THEN 1 ELSE 0, 0, 0), NoBits)

NullifierJob ==
  /\ Building(JOB_NULLIFIER)
  /\ run_job(<<DOMAIN_NULLIFIER, witness.owner_secret, witness.property_id,
               witness.purpose, witness.request_nonce>>,
             Aux(witness.purpose, witness.request_nonce, 0, 0), NoBits)

PaddingJob ==
  /\ status = "building"
  /\ job > JOB_NULLIFIER
  /\ job < JOB_COUNT
  /\ run_job(<<DOMAIN_NODE, Last(digests), 0>>, Aux(0, 0, 0, 0), NoBits)

Finish ==
  /\ Building(JOB_COUNT)
  /\ status' = "built"
  /\ pub_inputs' = [registry_id       |-> witness.registry_id,
                    merkle_root       |-> digests[JOB_MERKLE_LAST + 1],
                    purpose           |-> witness.purpose,
                    request_nonce     |-> witness.request_nonce,
                    current_timestamp |-> F(witness.current_timestamp),
                    nullifier         |-> digests[JOB_NULLIFIER + 1]]
  /\ UNCHANGED <<nodes, others, maker, witness, trace, digests, verdict>>

-----------------------------------------------------------------------------
(* What is done with the trace *)

\* The harness's own check of all constraints, which also takes the first row
\* as the row after the last.
eval_all_constraints(tr, pi) ==
  \A r \in Rows :
    evaluate_transition(tr[r], tr[(r + 1) % TRACE_LENGTH], r % ROUNDS, pi)

\* The command line proves, verifies locally, prints the verdict, and writes
\* the arguments of the verify call whatever the verdict is.
WriteArguments ==
  /\ status = "built"
  /\ maker = "prover"
  /\ pub_inputs.merkle_root = root(nodes)
  /\ verdict' = Satisfies(trace, pub_inputs)
  /\ status' = "written"
  /\ UNCHANGED <<nodes, others, maker, witness, trace, digests, pub_inputs>>

\* The harness runs its checks on the built trace and stops at the first that
\* fails.  Its two alterations add up: the second is made in the trace that
\* already has the first.
RunHarness ==
  LET flagged == [trace EXCEPT ![job_start_row(JOB_LEAF)].aux["b"] = 1]
      twice == [flagged EXCEPT ![1].s[0] = F(@ + 1)]
  IN  /\ status = "built"
      /\ maker = "harness"
      /\ verdict' =
           /\ pub_inputs.merkle_root = root(nodes)
           /\ eval_all_constraints(trace, pub_inputs)
           /\ get_assertions(trace, pub_inputs)
           /\ ~LeafAsserted(flagged[job_start_row(JOB_LEAF)], pub_inputs)
           /\ ~eval_all_constraints(twice, pub_inputs)
           /\ hash(<<DOMAIN_OWNER_COMMITMENT, witness.owner_secret, witness.property_id>>)
                = trace[job_last_row(JOB_OWNER)].s[0]
      /\ status' = "checked"
      /\ UNCHANGED <<nodes, others, maker, witness, trace, digests, pub_inputs>>

\* The cells some condition of the statement reads.
ReadCells ==
  {<<r, "s", lane>> : r \in Rows, lane \in TamperLanes}
  \cup {<<job_start_row(j), "held", c>> : j \in Jobs, c \in {"secret", "pid"}}
  \cup {<<job_start_row(j), "t", k>> : j \in Jobs, k \in JobTypes}
  \cup {<<job_start_row(JOB_LEAF), "aux", x>> : x \in {"a", "b", "c", "d"}}
  \cup {<<job_start_row(JOB_NULLIFIER), "aux", x>> : x \in {"a", "b"}}
  \cup {<<job_start_row(j), "aux", "a">> : j \in JOB_MERKLE_FIRST .. JOB_MERKLE_LAST}
  \cup {<<job_start_row(JOB_LEAF), "bit", i>> : i \in 0 .. RANGE_BITS - 1}

Tampered(r, group, column, value) ==
  /\ status = "built"
  /\ maker = "harness"
  /\ trace' = [trace EXCEPT ![r][group][column] = value]
  /\ status' = "tampered"
  /\ UNCHANGED <<nodes, others, maker, witness, digests, pub_inputs, verdict>>

\* The end-to-end checks add one to a cell.
TamperCell ==
  \E cell \in ReadCells :
    Tampered(cell[1], cell[2], cell[3], F(trace[cell[1]][cell[2]][cell[3]] + 1))

\* The fuzz check writes values that are no bits into a Merkle step's bit.
TamperBit ==
  \E j \in JOB_MERKLE_FIRST .. JOB_MERKLE_LAST, v \in FieldElements \ {0, 1} :
    Tampered(job_start_row(j), "aux", "b", v)

Next ==
  \/ \E index \in Indexes, leaf \in OtherLeaves : InsertOther(index, leaf)
  \/ \E index \in Indexes, secret \in Secrets, ts \in Timestamps, e \in Expiries :
       Load(index, secret, ts, e)
  \/ OwnerJob
  \/ LeafJob
  \/ Panic
  \/ \E level \in 0 .. TREE_DEPTH - 1 : MerkleJob(level)
  \/ NullifierJob
  \/ PaddingJob
  \/ Finish
  \/ WriteArguments
  \/ RunHarness
  \/ TamperCell
  \/ TamperBit

Spec == Init /\ [][Next]_vars

-----------------------------------------------------------------------------
(* Properties *)

Statuses == {"filling", "building", "built", "panicked", "tampered", "written",
             "checked"}

\* The state is that of a build in progress: rows are complete rows of the
\* field, and there are as many as the jobs run (build_trace, run_job).
TypeOK ==
  /\ maker \in Makers
  /\ status \in Statuses
  /\ \A n \in DOMAIN nodes : n \in Levels \X Indexes /\ nodes[n] \in FieldElements
  /\ DOMAIN trace = 0 .. job * ROUNDS - 1
  /\ \A r \in DOMAIN trace : trace[r] \in Row
  /\ status \in {"built", "tampered", "written", "checked"} => pub_inputs \in StatementInputs

\* Every trace built for an expiry within the range check satisfies every
\* constraint and assertion: for leaves on either side at every level and
\* among other leaves, for the nearest and the farthest expiry
\* (honest_trace_satisfies_every_transition_constraint, and its assertions).
BuiltTraceSatisfies ==
  (status = "built" /\ Diff < PowerOfTwo(RANGE_BITS)) =>
    /\ Satisfies(trace, pub_inputs)
    /\ eval_all_constraints(trace, pub_inputs)

\* What build_trace is documented to return: a trace and the public inputs it
\* satisfies, whatever the expiry.
EveryBuiltTraceSatisfies ==
  status = "built" => Satisfies(trace, pub_inputs)

\* The circuit computes what the plain hash computes: the public inputs of a
\* built trace are the root of the tree the witness came from, which is also
\* what the path recomputes to, and the hash of the nullifier's inputs
\* (build_trace_merkle_root_matches_independent_tree, _with_right_child_bits,
\* build_trace_nullifier_matches_plain_hash, hash_matches_run_job_round_count).
PublicInputsAgree ==
  status = "built" =>
    /\ pub_inputs.merkle_root = root(nodes)
    /\ root(nodes) =
         recompute_root(leaf_of(witness.owner_secret, witness.property_id,
                                witness.license_expiry),
                        witness.merkle_siblings, witness.merkle_bits)
    /\ pub_inputs.nullifier =
         hash(<<DOMAIN_NULLIFIER, witness.owner_secret, witness.property_id,
                witness.purpose, witness.request_nonce>>)

\* No cell a condition reads can be altered unnoticed (the tampering checks
\* of the harness, fuzz_boolean_violations_are_caught).
TamperingShows == status = "tampered" => ~Satisfies(trace, pub_inputs)

\* The arguments written for the canister are those of a proof that verifies
\* if the expiry is within the range check, and only then; the harness, which
\* refuses other expiries, passes every check it makes (main.rs, e2e_harness.rs).
VerdictMatchesRange ==
  status \in {"written", "checked"} => (verdict <=> Diff < PowerOfTwo(RANGE_BITS))
=============================================================================
