# Formal models of the title verifier

TLA+ models of the Yaqeen title-verification canister, the TLC runs that check
them on small instances and the TLAPS proofs that hold for all instances. Paths
below are relative to the repository root (`src/` in `PROJECT.json`).

## The system

| Component | Source | State | Operations | Model |
|---|---|---|---|---|
| Call throttle | `canister/src/lib.rs` | per endpoint: map principal -> last call, log of calls | `check_and_update_throttle`, `prune_throttle_log`, rebuild in `post_upgrade` | `Throttle`, `ThrottleLog` |
| Wire format of field elements | same | none | `parse_fe`, `fe_to_string`, `canonical_nullifier` | `FieldElement` |
| Challenges and verification | same | challenges, id and nonce counters, scan position, spent nullifiers | `request_challenge`, `verify`, `heartbeat`, upgrade | `ChallengeVerify`; what it promises: `VerificationRights` |
| Admin list | same | vector of principals | `bootstrap_admin`, `add_admin`, `remove_admin` | `AdminList` |
| Registry and Merkle tree | same | records, leaf indices, node store, root | `submit_record`, `get_merkle_proof`, upgrade | `MerkleRegistry` |
| Canister and devices together | `canister/src/lib.rs`, `prover/src/main.rs` | all of the above | the calls of both halves, devices that answer | `TitleSystem` |
| AIR statement | `air/src/lib.rs` | none (a fixed circuit of 32 jobs) | `hash`, constraints, assertions | `TitleAir`, `TitleStatement` |
| Prover library | `prover/src/lib.rs` | a sparse tree, a witness, a trace | tree insertion, `to_bits_le`, `run_job`, `build_trace` | `SparseTree`, `TitleProver` |
| Prover command line | `prover/src/main.rs` | none of its own | build, verify locally, write the arguments | `TitleProver` |
| Test harness | `test-harness/air_test/` | its own copy of tree and `build_trace` | end-to-end checks, alterations of a trace | `TitleProver`, partly |
| Candid file, deployment script | `canister/title_verifier.did`, `dfx.json`, `run_full_cycle.sh` | none | I/O around the above | not modelled |
| winterfell | dependency | none | proving, verifying | external: a free verdict in `ChallengeVerify`, a rule for which rows are checked in `TitleAir` |

How they interact. Admins write records; the registry turns them into a root.
`request_challenge` copies that root with a fresh nonce, the caller's purpose and
the time into a challenge bound to the caller. The owner's device builds a proof
for those inputs and calls `verify`, which runs three phases in one call: a
precheck against the challenge and the spent nullifiers, the proof check outside
any state borrow, and a commit that marks challenge and nullifier. The heartbeat
removes expired challenges and old throttle entries, a bounded number at a time.
An upgrade writes a snapshot and rebuilds the rest from it.

What is hard. An update call runs to completion, so there is no interleaving
inside a call. What no unit test enumerates is the order of calls: several
principals and pending challenges, resubmissions, expiry against answers and
heartbeats, an upgrade between any two of them, and the same value written in
different ways on the wire. `PROJECT.json` lists each of these hazards with its
line and the properties that would catch it going wrong. The circuit is hard for
another reason: it is written three times (constraints, prover, harness), the
three must agree row by row, and the unit tests build a handful of traces.

What makes each part correct:

- throttle: one principal's accepted calls keep their distance whatever is
  pruned; nothing leaks; nothing recent is forgotten; the log drains;
- challenges: a nullifier is spent once and a challenge answered once, by its
  requester, in time, for the inputs issued; a failed call costs nothing but the
  throttle; nonces stay fresh; the scan loses and skips nothing and never stalls;
- admin list: it never becomes empty again;
- registry: the node store is the tree over the records, each property's proof
  leads to the root, leaves stay where they are, an upgrade keeps the root;
- canister and devices: an accepted answer spoke the truth about the registry its
  challenge was issued in, which was superseded at most one challenge lifetime
  before, and an owner whose title was in order is never turned away;
- circuit: a trace that satisfies it has what the statement's conditions say;
- prover: what it builds satisfies the circuit and says what the registry says.

## Modules

**`Throttle`** holds the throttle's operators on a (store, log) pair. The canister
has two such pairs and the operators serve both. The pruning loop is stated by its
result: it pops the `k` entries for which `PruneCut(log, t, k)` holds, that is,
all stale, within the budget, and the next one (if the budget is not spent)
fresh. `RebuiltLogs` are all the orders a HashMap may iterate in.

**`ThrottleLog`** is one throttled endpoint over time. `Call` is an accepted call,
`Heartbeat` one tick of pruning, `Upgrade` the rebuild, `Tick` the passing of
time. A call turned away writes nothing and is a stuttering step. `lastCall` and
`lateBeats` are history. `lateBeats` stops at two: no property tells two from more.

**`FieldElement`** abstracts a decimal string to the number its digits spell and
the amount of padding around them. That is what distinguishes two strings for the
same element: leading zeros or blanks, and the range `[M, 2^128)` that
`BaseElement::new` reduces by one subtraction. A string that is no `u128` is one
with the number `WireLimit`.

**`ChallengeVerify`** is the challenge half of the canister. `RequestChallenge`,
`Verify`, `Heartbeat` and `Upgrade` are the calls; `Verify` is the whole of
`verify`, with the throttle written first and kept when the rest fails, `Precheck`
with every comparison of phase 1, the proof's verdict `proofAccepted` chosen
freely, and `Commit`. The commit re-checks the nullifier that the precheck of the
same call has just checked; as nothing runs in between, that branch cannot be
taken and the model leaves it out. `SubmitRecord` replaces the root by any field
element. `Submissions` mixes nonce and timestamp of any challenge with every
purpose, registry, root string and nullifier string. `issued` and `accepted` are
history. A panic inside the proof check is caught and is an ordinary rejection; a
call that traps is undone by the platform and is a stuttering step.

**`AdminList`** has the three admin calls with their replies, so that what a caller
is told is part of the state; `WithoutAdmin` is the vector's `retain`, entry by
entry. **`MerkleRegistry`** extends it with `SubmitRecord`
(accepted or refused) and `Upgrade`. The hash is symbolic: the hash of its inputs
is the tuple of its inputs, so no two different inputs collide. Nodes are stored
one path at a time as in `insert_leaf`, and compared with `ReferenceRoot`, which
is computed top down from the records alone. The admin calls' inputs are the
principals; a record's flag, status and expiry are one opaque value, since the
registry only hashes them.

**`VerificationRights`** is what the verification half promises, without clocks,
throttles, counters, pruning or upgrades: a right is issued to a holder on terms,
and while it is open it is answered once, by its holder, on its terms, with a mark
no other answer carries, or it lapses. `ChallengeVerify` implements it. The
mapping (`Rights`, at the end of `ChallengeVerify`) takes the challenges issued as
the rights, those neither answered nor past their deadline as open, and the
accepted answers' nullifiers as marks. A right lapses by the passing of time; the
pruning that follows later is invisible, and so are refused calls, upgrades and
submissions.

**`TitleSystem`** puts the two halves on one `current_root` and adds the devices.
`Registry` and `Verifier` are instances of `MerkleRegistry` and `ChallengeVerify`;
the symbolic root becomes the field element that numbers it. Both halves are
upgraded in one step, as one snapshot carries them. `get_merkle_proof` is a query
anybody may call at any time, so a device may hold the proof of any version of the
registry (`versions` and `issued_at` are history). `Answer` is a device's answer to
a challenge from any such version, with its own secret and the leaf of a title in
order; `intact` says whether it arrived whole. Here, and only here, winterfell is
taken to do what it promises: the proofs that verify are those a device can build.
`PartsAssumption` repeats the assumptions of the two halves on the shared constants.

**`TitleAir`** is the circuit: `mix`, `sbox` and `hash`, the job layout, one
operator per group of constraints of `evaluate_transition`, and `get_assertions`.
A row is a record of its groups of columns instead of 50 numbered columns;
periodic columns are functions of the row's position. Transitions are enforced
from every row but the last, winterfell's rule for an AIR that leaves the number of
exemptions at its default. Sizes, round constants and modulus are constants;
`AirAssumption` asks that the modulus is prime (no zero divisors) and larger than
the domain tags and the range.

**`TitleStatement`** explores the traces that satisfy `TitleAir`, job by job: the
cells an author may choose are chosen, the constraints filter the choice, and the
rest of the job follows. Complete traces are compared with the six conditions in
the documentation of `air/src/lib.rs`.

**`SparseTree`** is the device's and the harness's tree over the circuit's own hash.
**`TitleProver`** is what a device does with it: leaves enter the tree, the owner's
path becomes the witness, `build_trace` writes the trace (one action per job, as
`run_job` is called), and then the command line writes its arguments
(`WriteArguments`: whatever the local verdict is, as in `main.rs`), or the harness
runs its checks (`RunHarness`) or alters a cell (`TamperCell`, `TamperBit`).
The challenge's and the record's fixed values (`registry_id`, `purpose`,
`request_nonce`, `property_id`) are constants. `maker` tells which copy of
`build_trace` runs; the harness's asserts the range
before it builds. The command line is that of a release build: in a debug build
winterfell checks the trace itself and stops. With four rows to a job, `RunHarness`
makes its second alteration in row 1 where the code takes row 3 of eight; both lie
inside the first job.

**`LevelRecursion`** models nothing: it is recursion from level to level with its
theorems (it defines something, it unfolds, induction up and down), which the proof
modules instantiate for the recursive functions of the models.

`MCThrottleLog`, `MCChallengeVerify`, `MCMerkleRegistry`, `MCTitleSystem`,
`MCTitleProver` and `MCTitleStatement` supply the finite sets, round constants and
symmetries of the runs.

Definitions commented as *faulty variant* are plausible mistakes in the
definition that follows them (a dropped guard, a wrong interval, a field missing
from the snapshot). No specification uses them. `PROJECT.json` pairs each with a
property that fails when the variant is put in the definition's place, which
shows that the property depends on that part of the code.

## Runs

| Run | Question | Result |
|---|---|---|
| `throttle` | Is the throttle kept, complete, and drained, with pruning and an upgrade anywhere? | holds |
| `throttle_late` | Is pruning late for at most one heartbeat after an upgrade? | no (finding 2) |
| `challenge_answers` | Is an answer accepted once, from the requester, in time and as issued, does nothing else take a challenge, and is every step one of `VerificationRights`? | holds |
| `challenge_pruning` | Is every expired challenge pruned in the end? | holds |
| `registry` | Is the incremental tree the tree, for all properties, also after upgrades? | holds |
| `registry_full` | And when there are more properties than leaves? | no (finding 3) |
| `admin_bootstrap` | Is bootstrapping public while there is no admin? | no (finding 1) |
| `title_system` | Are accepted answers true and recent, honest ones never refused, and does the whole keep the rights? | holds |
| `title_prover` | Do the traces of both copies of `build_trace` satisfy the circuit, agree with the registry's hashes and show alterations? | holds |
| `far_expiry` | Does every trace the prover returns satisfy its public inputs? | no (finding 4) |
| `title_statement` | Does the circuit state conditions 2 to 6, and 1 if the first row follows the last? | holds |
| `first_row` | Does it state condition 1? | no (finding 5) |

Bounds, and why they suffice:

- *Throttle.* Three principals, an interval of 2 and a retention of 3, a budget of
  two pops, calls until time 3 and a clock until 6: a principal can call twice
  before its first entry is stale, a heartbeat can run out of budget with stale
  entries left, and the clock outlives every entry. Retention and interval are a
  few units apart in the model and an hour against two seconds in the code; only
  their order matters and the proofs cover every value. One upgrade is enough for
  the rebuilt order to differ from the call order.
- *Challenges.* A field of two elements and a wire limit of three give the
  situations of the real field: canonical strings and aliases above the modulus.
  Two principals and two challenges allow one to answer the other's challenge with
  either's inputs; there are two purposes, two roots of which one can be spelled
  (with an alias) and the other cannot, and three nullifier strings for two
  elements. A challenge lives one unit and the clock runs to two, so answers come in
  the last instant and after it. Upgrades are unbounded. A second registry number is
  left to the proofs. About 220 000 states.
- *Pruning.* Four challenges of one principal against one pop per heartbeat: a
  backlog. Challenges issued up to time 3 expire before the clock stops at 5; a
  later one never counts as expired and nothing is claimed about it.
- *Registry.* Four leaves and three properties submitted and resubmitted in any
  order by two principals: all four positions of a sibling, occupied or not, at
  two levels. `registry_full` has two leaves for three properties.
- *System.* Two owners, a villa and a shop; three records that may be submitted (in
  order, encumbered, the other owner's) of which two are, and two challenges of
  lifetime one on a clock to two. That is enough for a submission between the Merkle
  proof and the challenge, and between the challenge and the answer, in either
  order, for an answer that arrives corrupted and its retry, and for one owner's
  answer to the other's challenge. About 880 000 states.
- *Prover.* A field of 17 elements, a tree of three levels (paths with every mix of
  turns), jobs of four rows, two padding jobs, two range bits, expiries from before
  the timestamp to one beyond the range, every leaf position, one other leaf
  anywhere, two secrets, every cell a condition reads altered. About 114 000 states.
- *Circuit.* A field of 13, three levels, one padding job, two range bits, every
  field element as expiry, and values that are no bits wherever a bit belongs. About
  15 000 states. A choice outside the listed sets for a sibling or a held secret
  differs from those in the value that is hashed only.

The small fields keep what the constraints use: a prime modulus, larger than the
tags and than timestamp plus range, as the 128-bit field is. The round constants
are arbitrary, since nothing modelled depends on them. In so small a field different
inputs may have equal hashes; the properties compare a trace with what the plain
hash computes for the same inputs, never two hashes of different ones.

Symmetry over principals is used in runs that check no liveness.

Fairness. `FairSpec` assumes weak fairness of `Heartbeat` (the subnet calls the
heartbeat of a running canister again and again) and of `Tick` (time advances).
Nothing obliges anyone to call or to upgrade. In `throttle` the upgrade bound
means that finally no upgrade reshuffles the log any more. Registry, devices,
circuit and prover have no liveness of their own: nobody is obliged to submit or to
answer.

## Findings

1. **`bootstrap_admin` is not public.** `canister/src/lib.rs:278` refuses every
   caller that is not a controller. `README.md:140` lists the method as "public,
   once only" and `README.md:216` calls it "intentionally public". The code is the
   stricter one; the documents are out of date.
2. **After an upgrade pruning can be late for more than one heartbeat.** The
   rebuilt log is in HashMap order and the pruner stops at the first fresh entry,
   so stale entries behind it wait until it is stale too, whatever the number of
   heartbeats. The comment at `canister/src/lib.rs:931` allows "one heartbeat's
   worth of work". Eviction stays correct and the log still drains.
3. **Leaf indices are not bounded by the tree.** Past 2^25 properties
   (`canister/src/lib.rs:396`) a leaf's path ends in a second top node, which
   becomes the current root, and the Merkle proofs of the older properties no
   longer lead to it. The harness's own tree asserts the bound
   (`test-harness/air_test/src/e2e_support.rs:59`), the canister does not. Far
   from practical sizes, but one comparison would refuse the record.
4. **A license far in the future cannot be proved.** `build_trace`
   keeps the low 32 bits of `license_expiry - current_timestamp - 1`
   (`prover/src/lib.rs:209`, `to_bits_le`) and returns the trace "plus the public
   inputs it satisfies" (`prover/src/lib.rs:122`), which it does not if there were
   more. `main.rs` prints that the local verification failed and writes the arguments
   all the same. The harness's copy asserts the bound
   (`test-harness/air_test/src/e2e_support.rs:268`).
5. **The circuit does not tie the first job's first row to the held secret.** Every
   other job's first row is fixed by the constraint with the row before it; the first
   row of the trace has no row before it and `get_assertions`
   (`air/src/lib.rs:497`) fixes none of its lanes, so condition 1 of the statement
   (`air/src/lib.rs:15`) is not among the things the circuit states.
   `e2e_support.rs:347` expects the trace to be taken as cyclic, in which case it is
   (`ConditionOneIfCyclic`). Asserting the lanes' relation to the held columns in the
   first row would settle it either way.

Two comments in the harness are out of date without being findings:
`e2e_support.rs:285` and `:550` say that children hashed in the wrong order satisfy
every constraint. They do not: with that mistake put in the model's prover
`BuiltTraceSatisfies` fails on the boundary constraint. And the second alteration of
`e2e_harness.rs` is made in the trace that already has the first, so on its own it
does not show which of the two the constraints notice; `TamperingShows` alters one
cell at a time.

## Proofs

`LevelRecursion` is how these proofs reason about recursive functions (hashes above a
leaf, rounds of the permutation, weights of bits). The library's induction theorems
are about predicates, which the provers cannot instantiate; the ones here are about
sets of numbers (`UpTo`, `DownFrom`) and derived from the existence of least elements.
Base and step of a recursion are constants of the module, so that each recursive
function has an instance of its own with `Exists` and `Unfold` for it.

**`ThrottleLog_proofs`.** The properties speak of the last accepted call, which the
map may have forgotten. The inductive invariant ties them: an entry of the map is
its principal's last call (`MapIsLastCall`), every call younger than the retention
window is in the map (`RecentIsRemembered`), every entry has its log entry
(`NoLeak`), and until an upgrade the log is ordered by time (`InCallOrder`).
Its first lemmas say what recording, logging, pruning and rebuilding do to map and log.
`CallsAreRateLimited` follows because an absent entry means a call at least
`ThrottleRetention >= MinCallInterval` ago; `EvictionIsStale` because a popped
entry only evicts an equal one; `NeverLeaks` is a conjunct; `PruningIsPrompt` uses
the order of the log.

**`ChallengeVerify_proofs`.** The properties speak of the history of accepted
answers, which the canister keeps only traces of. The inductive invariant says
which: a pending challenge is the issued one up to its flag (`PendingAsIssued`),
everything issued lies below the counters (`IssuedInPast`), the pending ids are an
interval (`NoOrphanChallenge`), and an accepted answer has marked its challenge
for as long as that exists and its canonical nullifier for ever
(`AcceptanceMarked`). `NoReplay` holds because a pruned id cannot come back (it
lies below the counter) and a pending one is marked; `NoDoubleSpend` because
canonical strings are equal exactly when the elements are. `AnswersMatchIssue`,
`NoOrphans`, `NoncesAreFresh`, `TypeCorrect` and `ChallengesAreSafe` (a step that
harms an unexpired challenge is an accepted answer to it) come from the same
invariant. `StayAnswerable` is the converse of `AcceptanceMarked`: an issued
challenge within its time is pending, and a mark on a challenge or a nullifier goes
back to an accepted answer. It is inductive only together with the invariant, and it
is what the composed system needs to accept an honest answer.

`ImplementsRights` is the refinement of `VerificationRights`. One lemma per kind of
step: `RequestIssues` (the id is new because it is the counter), `CommitAnswers` (the
right is open because the challenge is pending, unmarked and unexpired; the terms
agree by the comparisons of phase 1; the mark is fresh by `NoDoubleSpend`'s
invariant), `TickLapses`, and `Invisible` for the rest. The mapping looks answers up
in a sequence; `AnswerAdded` says that one more answer adds one entry. Besides the
invariant above it needs that ids and nonces are handed out together and that the
clock stays within the model's bound. The lemmas about steps also cover `Restoration`,
an upgrade that may come back with any root: in the composed system the root is the
registry's affair, and none of this depends on it.

**`MerkleRegistry_proofs`.** Which leaf a property has does not depend on the tree or
the admins: the invariant `IInv` is that records and indices have the same finite
domain and that the indices are dense. `IndicesStayDense` and `LeavesNeverMove`
follow. The tree has an invariant of its own, `TreeInv`: the bottom of the store holds
the records' leaves, one each, and nothing else (`LeavesStored`, `LeavesDistinct`),
every node that can be asked for is the hash of the two below it (`NodesHash`), and
the root shown is the node at the top (`RootOnTop`). A submission keeps `NodesHash`
because it rewrites exactly the nodes above one leaf and reads their siblings from
the store. By induction over levels the nodes are then the reference tree
(`TreeIsStored`) and a proof climbs to the top (`Climbs`): `RootIsTheTrees` and
`ProofsLeadToRoot`. `RootIsKept` compares the reference trees before and after.

These three have the hypothesis `Fits`: no more leaf indices are handed out than the
tree has leaves. It cannot be dropped, since the code does not check it (finding 3,
run `registry_full`), and `RoomForAll` proves it for ever if there are no more
properties than leaves. Two theorems do without it. `ProofsClimb`: every proof leads
from the current record to the node kept above its leaf, which beyond the capacity need
not be the root. `LastProofStays`: the root after an accepted
submission is the one the proof of the property just written leads to. So a tree that
is too full loses the proofs of other properties, never that of the last submission,
until an upgrade reads the root back. `AdminsStay` needs that no admin is listed twice (`AdminInv`):
removing one of at least two then leaves one. `TypeCorrect` joins the three invariants.

**`TitleSystem_proofs`.** Both halves' proofs are instantiated (`RP`, `VP`), so their
invariants hold in the composition once its steps are shown to be steps of theirs
(`RegistryStep`; `VerifierStep`, where an upgrade is a `Restoration`).
`SystemKeepsRights` is the refinement again. `TruthsAreRecent` joins the clocks: the
version that supersedes the one a challenge was issued in began no earlier than
`ChallengeTTL` before the challenge's deadline (`SupersededInTime`), and answers are
accepted no later than the deadline (`AcceptedInTime`). For `OnlyTruthsAccepted` the
invariant remembers the tree of every version (`VersionTrees`): numbers of roots are
equal only for equal roots (`SameRoot`), and where two trees of symbolic hashes have
the same root, a path from one arrives at the leaf of the other (`RootSpeaksTruth`),
so a proof from any version that a challenge accepts speaks of the challenge's own
version. `HonestAnswersPass` goes the other way: with `StayAnswerable`'s invariant
every comparison of the precheck succeeds, and the nullifier is fresh because those
of different challenges differ. Both have the hypothesis `Fits` of the registry.

**`TitleAir_proofs`.** The circuit has no steps; its theorems are about all traces.
`CircuitSound`: whoever wrote it, a trace that satisfies constraints and assertions
has conditions 2 to 6. Binary cells are bits because the field has no zero divisors;
type columns that are one-hot on the job's own type leave one of the boundary formulas
(`BoundaryOf`); the rows of a job are then the rounds of the permutation and its last
row the digest (`JobDigest`); held columns carry over (`HeldThroughout`); the Merkle
jobs climb from the leaf to the asserted root (`Climb`); and the range bits spell a
number below `2^RANGE_BITS`, so the expiry is after the timestamp (`RangeShows`). The
last has a hypothesis, that timestamp plus range is below the modulus: otherwise the
sum could wrap around. Timestamps are 64-bit seconds, the field has 128 bits.
`CommitmentIfCyclic` adds condition 1 for a trace taken as cyclic; that it is needed is
finding 5. The module also has the lemmas about `SparseTree`: `PathLeadsToRoot` says
that the path taken after an insertion recomputes to the new root.

**`TitleStatement_proofs`.** The two theorems above say nothing of `TitleStatement` as
long as it is open whether what that specification completes is a trace that satisfies
the circuit. Its invariant says so of every prefix: the trace is a number of complete
jobs, every transition inside it and every assertion on the jobs' first rows hold, and
the last row, whose transition is still to come, has binary range bits (`PrefixOf`; the
last part is what makes it inductive). `PrefixGrows` is the step: the boundary row of the
new job follows the last row by `LanesFollow`, the rows after it are the rounds
(`RowsAdded`). The first row of the trace passes the constraints on Merkle bit and range
sum because a one-hot owner row switches both off. `CompleteSatisfies` turns the invariant
into `Satisfies` for the public inputs read off the trace, and `StatementShown` and
`CommitmentShownIfCyclic` follow from `CircuitSound` and `CommitmentIfCyclic`.

**`TitleProver_proofs`.** The invariant describes a build by the jobs that ran: the
digests are the plain hashes of the jobs' inputs (`DigestsOf`), the trace is their
rows (`RowsOf`), the path of the witness leads from its leaf to the root of the tree
(`Loaded`), and an altered trace is a complete one with one cell exchanged
(`Altered`). One lemma serves all job actions: each appends the rows and the digest of
the next job (`EveryJobIsAStep`, `JobStepInv`). `BuildsSatisfy` is then a statement about complete
builds, condition by condition (`ConstraintsHold`), and `VerdictIsRange` adds that an
expiry beyond the range breaks the range sum (`RangeExceeded`).
`PublicInputsAreRight` compares the digests with `recompute_root`, level by level
(`DigestsAgree`). `TamperingIsNoticed` goes through the kinds of cells
(`AlteredNoticed`): in a satisfied trace each cell read is determined by the others in
some condition. For the lanes that takes the injectivity of one round, hence of
cubing, and for a range bit that no other bit spells the same number.

Assumptions used: the principals are a finite set without the anonymous one; the
interval and the budget are positive; the retention window is no shorter than the
interval; `M <= 2^128 <= 2M`, which is what one subtraction needs; submitted
strings are wire strings; the challenge lifetime is a natural number; owners'
commitments differ, and so do the nullifiers of different challenges or secrets (the
system's symbolic hashes). For circuit and prover: the modulus is prime, cubing is
injective and `2^RANGE_BITS` is below the modulus. The code's modulus is
2^128 - 45 * 2^40 + 1, a prime, 3 does not divide its predecessor (so that cubing
permutes the field), and there are 32 range bits. All are named `ASSUME`s in the modules that declare the
constants, evaluated by the runs. Nothing is assumed about the proof system by the
theorems of `ChallengeVerify_proofs`, which hold even if it accepts every proof; those
of `TitleSystem_proofs` are about the proofs a device can build.

Only model-checked: the liveness properties `Drains` and `ExpiredArePruned` (liveness
under fairness is beyond the prover). Every other property of the passing runs is stated
by a theorem. That traces without condition 1 exist (finding 5), that pruning can be late
and the other findings are what the runs with counterexamples show.

## Not modelled, and why

- *winterfell*: soundness and completeness of the proof system are not statements
  about this code. Likewise the constraint degrees the AIR declares to it and the
  `Prover` trait's plumbing, which keep no state.
- *Candid, deployment script*: encoding and I/O. `health` returns a constant and
  `get_record` reads one map entry.
- *`fuzz_no_panics` and the random numbers of the fuzz harness*: it feeds unrelated
  rows to the constraints to see that evaluation does not panic; the model's
  constraints are total by construction.
- *Integer overflow of counters and of `now_ns + CHALLENGE_TTL_NS`*: 64-bit
  nanoseconds and one increment per call, centuries away from the limit.
- *Instruction limits and stable memory*: an upgrade whose snapshot fails traps and
  leaves the canister as it was.

## Plan

Done, in order of importance: throttle, challenges and verification, admin list,
registry, the abstract rights and their refinement, the composed system, the
circuit, the prover and its command line, and the proofs above.

Nothing of the plan is left. What the model leaves out is listed above; a change to the
code starts at the rows of `map` that name its lines.
