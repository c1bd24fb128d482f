------------------------------ MODULE TitleAir ------------------------------
(***************************************************************************)
(* The circuit of the crate title_air: the permutation and the hash built  *)
(* from it, the layout of the trace in jobs of ROUNDS rows, and the        *)
(* constraints and assertions a trace has to satisfy.                      *)
(*                                                                         *)
(* Everything is computed in the integers modulo Modulus, as the code      *)
(* computes in f128.  A row is a record of its groups of columns instead   *)
(* of 50 numbered columns.  The periodic columns is_first, is_last and     *)
(* the round constants are functions of the row's position in its job.     *)
(***************************************************************************)
EXTENDS FieldElement, Integers, Sequences

CONSTANTS
  TREE_DEPTH,       \* levels of the registry's tree, 25 in the code
  ROUNDS,           \* rows of a job, 8 in the code
  JOB_COUNT,        \* 3 + TREE_DEPTH jobs and padding, 32 in the code
  RANGE_BITS,       \* bits of the range check, 32 in the code
  RoundConstants    \* round_constants(), for any values of theirs

STATE_WIDTH == 8
Lanes == 0 .. STATE_WIDTH - 1

F(x) == x % Modulus

\* 1 << n.
PowerOfTwo(n) ==
  LET power[k \in 0..n] == IF k = 0 THEN 1 ELSE 2 * power[k - 1] IN power[n]

\* Modulus is prime, and the domain tags and the range fit into the field.
ASSUME AirAssumption ==
  /\ Modulus > 4
  /\ \A x, y \in FieldElements : F(x * y) = 0 => x = 0 \/ y = 0
  /\ TREE_DEPTH \in Nat \ {0}
  /\ ROUNDS \in Nat \ {0, 1}
  /\ JOB_COUNT \in Nat
  /\ JOB_COUNT >= 3 + TREE_DEPTH
  /\ RANGE_BITS \in Nat
  /\ PowerOfTwo(RANGE_BITS) < Modulus
  /\ RoundConstants \in [0 .. ROUNDS - 1 -> [Lanes -> FieldElements]]

\* The domain tags.
DOMAIN_LEAF == 1
DOMAIN_OWNER_COMMITMENT == 2
DOMAIN_NULLIFIER == 3
DOMAIN_NODE == 4

-----------------------------------------------------------------------------
(* The permutation and the hash *)

\* The circulant matrix with first row 2, 3, 1, 1, 1, 1, 1, 1.
mix(s) ==
  LET sum == s[0] + s[1] + s[2] + s[3] + s[4] + s[5] + s[6] + s[7]
  IN  [i \in Lanes |-> F(sum + s[i] + 2 * s[(i + 1) % STATE_WIDTH])]

cube(x) == F(x * x * x)

sbox(s) == [i \in Lanes |-> cube(s[i])]

apply_round(s, rc) == mix(sbox([i \in Lanes |-> F(s[i] + rc[i])]))

\* The state after a number of rounds.  A job has one row per state: ROUNDS
\* rows, hence ROUNDS - 1 rounds.
AfterRounds(s, n) ==
  LET state[k \in 0..n] ==
        IF k = 0 THEN s ELSE apply_round(state[k - 1], RoundConstants[k - 1])
  IN  state[n]

\* Inputs are padded with zeros to the width of the state.
Padded(inputs) ==
  [i \in Lanes |-> IF i < Len(inputs) THEN inputs[i + 1] ELSE 0]

\* Faulty variant: one round more than a job has.
hash_all_rounds(inputs) == AfterRounds(Padded(inputs), ROUNDS)[0]

hash(inputs) == AfterRounds(Padded(inputs), ROUNDS - 1)[0]

-----------------------------------------------------------------------------
(* The layout of the trace *)

Jobs == 0 .. JOB_COUNT - 1
TRACE_LENGTH == JOB_COUNT * ROUNDS
Rows == 0 .. TRACE_LENGTH - 1

JOB_OWNER == 0
JOB_LEAF == 1
JOB_MERKLE_FIRST == 2
JOB_MERKLE_LAST == JOB_MERKLE_FIRST + TREE_DEPTH - 1
JOB_NULLIFIER == JOB_MERKLE_LAST + 1

job_start_row(job) == job * ROUNDS

\* Faulty variant: off by one.
job_last_row_beyond(job) == job * ROUNDS + ROUNDS

job_last_row(job) == job * ROUNDS + ROUNDS - 1

\* Padding jobs are typed as Merkle steps.
job_type_column(job) ==
  CASE job = JOB_OWNER -> "owner"
    [] job = JOB_LEAF -> "leaf"
    [] job = JOB_NULLIFIER -> "nullifier"
    [] OTHER -> "merkle"

JobTypes == {"owner", "leaf", "merkle", "nullifier"}

\* The columns of a row: state lanes, aux_a..aux_d, the held secret and
\* property id, the one-hot job type, the bits of the range check.
Row ==
  [s    : [Lanes -> FieldElements],
   aux  : [{"a", "b", "c", "d"} -> FieldElements],
   held : [{"secret", "pid"} -> FieldElements],
   t    : [JobTypes -> FieldElements],
   bit  : [0 .. RANGE_BITS - 1 -> FieldElements]]

StatementInputs ==
  [registry_id       : FieldElements,
   merkle_root       : FieldElements,
   purpose           : FieldElements,
   request_nonce     : FieldElements,
   current_timestamp : FieldElements,
   nullifier         : FieldElements]

-----------------------------------------------------------------------------
(* evaluate_transition *)

\* The first state of a job, from its own columns and the digest before it.
Boundary(cur, nxt) ==
  LET t == nxt.t
      aux == nxt.aux
      held == cur.held
      prev_out == cur.s[0]
      left == aux["b"] * aux["a"] + (1 - aux["b"]) * prev_out
      right == aux["b"] * prev_out + (1 - aux["b"]) * aux["a"]
      lane == <<t["owner"] * DOMAIN_OWNER_COMMITMENT + t["leaf"] * DOMAIN_LEAF
                  + t["merkle"] * DOMAIN_NODE + t["nullifier"] * DOMAIN_NULLIFIER,
                t["owner"] * held["secret"] + t["leaf"] * aux["a"]
                  + t["merkle"] * left + t["nullifier"] * held["secret"],
                t["owner"] * held["pid"] + t["leaf"] * prev_out
                  + t["merkle"] * right + t["nullifier"] * held["pid"],
                t["leaf"] * aux["b"] + t["nullifier"] * aux["a"],
                t["leaf"] * aux["c"] + t["nullifier"] * aux["b"],
                t["leaf"] * aux["d"], 0, 0>>
  IN  [i \in Lanes |-> F(lane[i + 1])]

LanesFollow(cur, nxt, pos) ==
  nxt.s = IF pos = ROUNDS - 1 THEN Boundary(cur, nxt)
                              ELSE apply_round(cur.s, RoundConstants[pos])

\* Faulty variant: the secret and the property id may change between jobs.
NothingHeld(cur, nxt) == TRUE

HeldCopied(cur, nxt) == nxt.held = cur.held

Binary(x) == F(x * x - x) = 0

TypeOneHot(cur) ==
  /\ \A k \in JobTypes : Binary(cur.t[k])
  /\ F(cur.t["owner"] + cur.t["leaf"] + cur.t["merkle"] + cur.t["nullifier"]) = 1

MerkleBitBinary(cur) ==
  F(cur.t["merkle"] * (cur.aux["b"] * cur.aux["b"] - cur.aux["b"])) = 0

RangeBitsBinary(cur) == \A i \in 0 .. RANGE_BITS - 1 : Binary(cur.bit[i])

\* The number the bits of a row spell.
Weighted(cur) ==
  LET sum[n \in 0..RANGE_BITS] ==
        IF n = 0 THEN 0 ELSE sum[n - 1] + cur.bit[n - 1] * PowerOfTwo(n - 1)
  IN  sum[RANGE_BITS]

\* Faulty variant: an expiry at the timestamp itself passes.
RangeSumAtLeast(cur, pi) ==
  F(cur.t["leaf"] * (Weighted(cur) - (cur.aux["d"] - pi.current_timestamp))) = 0

RangeSum(cur, pi) ==
  F(cur.t["leaf"] * (Weighted(cur) - (cur.aux["d"] - pi.current_timestamp - 1))) = 0

\* All constraints between a row at a position of its job and the next row
\* evaluate to zero.
evaluate_transition(cur, nxt, pos, pi) ==
  /\ LanesFollow(cur, nxt, pos)
  /\ HeldCopied(cur, nxt)
  /\ pos = 0 => TypeOneHot(cur) /\ MerkleBitBinary(cur) /\ RangeSum(cur, pi)
  /\ RangeBitsBinary(cur)

-----------------------------------------------------------------------------
(* get_assertions *)

LeafAsserted(first, pi) ==
  /\ first.aux["a"] = pi.registry_id
  /\ first.aux["b"] = 0    \* encumbrance_flag
  /\ first.aux["c"] = 1    \* license_status

NullifierAsserted(first, pi) ==
  /\ first.aux["a"] = pi.purpose
  /\ first.aux["b"] = pi.request_nonce

get_assertions(trace, pi) ==
  /\ LeafAsserted(trace[job_start_row(JOB_LEAF)], pi)
  /\ trace[job_last_row(JOB_MERKLE_LAST)].s[0] = pi.merkle_root
  /\ NullifierAsserted(trace[job_start_row(JOB_NULLIFIER)], pi)
  /\ trace[job_last_row(JOB_NULLIFIER)].s[0] = pi.nullifier
  /\ \A j \in Jobs : trace[job_start_row(j)].t[job_type_column(j)] = 1

\* The trace has the shape TitleAir::new insists on and satisfies all of it.
\* winterfell enforces transitions from every row but the last, which has no
\* next row.
Satisfies(trace, pi) ==
  /\ DOMAIN trace = Rows
  /\ \A r \in 0 .. TRACE_LENGTH - 2 :
       evaluate_transition(trace[r], trace[r + 1], r % ROUNDS, pi)
  /\ get_assertions(trace, pi)
=============================================================================
