------------------------- MODULE TitleProver_proofs -------------------------
(***************************************************************************)
(* Proofs about TitleProver for every tree, witness, field and size of the *)
(* circuit, both makers of the trace, and any cell the harness alters.     *)
(*                                                                         *)
(* The inductive invariant (IInv) describes a build by the jobs that ran:  *)
(* the digests are the hashes of the jobs' inputs (DigestsOf), the trace   *)
(* is their rows (RowsOf), and the witness's path leads to the root of the *)
(* tree (Loaded).  The theorems follow from three facts about a trace of   *)
(* that form: it satisfies the circuit if and only if the expiry is in     *)
(* range (ConstraintsHold, RangeExceeded), its last digests are the public *)
(* inputs (DigestsAgree), and with a cell altered it does not satisfy the  *)
(* circuit any more (AlteredNoticed).                                      *)
(***************************************************************************)
EXTENDS TitleProver, TitleAir_proofs

-----------------------------------------------------------------------------
(* The rows of a build *)

\* What the witness of a device consists of.
Witnesses ==
  [registry_id : {registry_id}, purpose : {purpose}, request_nonce : {request_nonce},
   current_timestamp : FieldElements, owner_secret : FieldElements,
   property_id : {property_id}, license_expiry : FieldElements,
   merkle_siblings : [0 .. TREE_DEPTH - 1 -> FieldElements],
   merkle_bits : [0 .. TREE_DEPTH - 1 -> BOOLEAN]]

LEMMA WitnessParts ==
  ASSUME NEW w \in Witnesses
  PROVE  /\ w.registry_id = registry_id /\ w.purpose = purpose
         /\ w.request_nonce = request_nonce /\ w.property_id = property_id
         /\ w.registry_id \in FieldElements /\ w.purpose \in FieldElements
         /\ w.request_nonce \in FieldElements /\ w.property_id \in FieldElements
         /\ w.current_timestamp \in FieldElements /\ w.owner_secret \in FieldElements
         /\ w.license_expiry \in FieldElements
         /\ \A l \in 0 .. TREE_DEPTH - 1 : /\ w.merkle_siblings[l] \in FieldElements
                                           /\ w.merkle_bits[l] \in BOOLEAN
<1>1. /\ w.registry_id = registry_id /\ w.purpose = purpose
      /\ w.request_nonce = request_nonce /\ w.property_id = property_id
      /\ w.current_timestamp \in FieldElements /\ w.owner_secret \in FieldElements
      /\ w.license_expiry \in FieldElements
      /\ w.merkle_siblings \in [0 .. TREE_DEPTH - 1 -> FieldElements]
      /\ w.merkle_bits \in [0 .. TREE_DEPTH - 1 -> BOOLEAN]
  BY DEF Witnesses
<1> QED BY <1>1, ProverAssumption

\* The level of a Merkle job.
LevelOf(j) == j - JOB_MERKLE_FIRST

\* What a job hashes, given the digests of the jobs before it.
JobInputs(w, d, j) ==
  CASE j = JOB_OWNER -> <<DOMAIN_OWNER_COMMITMENT, w.owner_secret, w.property_id>>
    [] j = JOB_LEAF -> <<DOMAIN_LEAF, w.registry_id, d[j], 0, 1, w.license_expiry>>
    [] j \in JOB_MERKLE_FIRST .. JOB_MERKLE_LAST ->
         IF w.merkle_bits[LevelOf(j)]
           THEN <<DOMAIN_NODE, w.merkle_siblings[LevelOf(j)], d[j]>>
           ELSE <<DOMAIN_NODE, d[j], w.merkle_siblings[LevelOf(j)]>>
    [] j = JOB_NULLIFIER ->
         <<DOMAIN_NULLIFIER, w.owner_secret, w.property_id, w.purpose, w.request_nonce>>
    [] OTHER -> <<DOMAIN_NODE, d[j], 0>>

\* What a job writes into the aux columns and the range bits of its first row.
JobAux(w, j) ==
  CASE j = JOB_LEAF -> Aux(w.registry_id, 0, 1, w.license_expiry)
    [] j \in JOB_MERKLE_FIRST .. JOB_MERKLE_LAST ->
         Aux(w.merkle_siblings[LevelOf(j)],
             IF w.merkle_bits[LevelOf(j)] THEN 1 ELSE 0, 0, 0)
    [] j = JOB_NULLIFIER -> Aux(w.purpose, w.request_nonce, 0, 0)
    [] OTHER -> Aux(0, 0, 0, 0)

DiffOf(w) == w.license_expiry - w.current_timestamp - 1

JobBits(w, j) == IF j = JOB_LEAF THEN to_bits_le(DiffOf(w), RANGE_BITS) ELSE NoBits

HeldOf(w) ==
  [c \in {"secret", "pid"} |-> IF c = "secret" THEN w.owner_secret ELSE w.property_id]

\* A row of a job.
RowOf(w, d, j, k) ==
  [s    |-> AfterRounds(Padded(JobInputs(w, d, j)), k),
   aux  |-> IF k = 0 THEN JobAux(w, j) ELSE Aux(0, 0, 0, 0),
   held |-> HeldOf(w),
   t    |-> [x \in JobTypes |-> IF x = job_type_column(j) THEN 1 ELSE 0],
   bit  |-> IF k = 0 THEN JobBits(w, j) ELSE NoBits]

\* The digests are those of the jobs that ran.
DigestsOf(w, d) ==
  /\ d \in Seq(FieldElements)
  /\ Len(d) <= JOB_COUNT
  /\ \A j \in Jobs : j < Len(d) => d[j + 1] = hash(JobInputs(w, d, j))
  /\ Len(d) > JOB_LEAF => DiffOf(w) >= 0

\* The rows are those of the jobs that ran.
RowsOf(tr, w, d) ==
  /\ DOMAIN tr = 0 .. Len(d) * ROUNDS - 1
  /\ \A j \in Jobs : \A k \in 0 .. ROUNDS - 1 :
       j < Len(d) => tr[j * ROUNDS + k] = RowOf(w, d, j, k)

\* The kinds exclude each other.
LEMMA KindsExclude ==
  /\ JOB_OWNER # JOB_LEAF /\ JOB_OWNER # JOB_NULLIFIER /\ JOB_LEAF # JOB_NULLIFIER
  /\ JOB_OWNER \notin JOB_MERKLE_FIRST .. JOB_MERKLE_LAST
  /\ JOB_LEAF \notin JOB_MERKLE_FIRST .. JOB_MERKLE_LAST
  /\ JOB_NULLIFIER \notin JOB_MERKLE_FIRST .. JOB_MERKLE_LAST
  /\ \A l \in 0 .. TREE_DEPTH - 1 : LET j == JOB_MERKLE_FIRST + l IN
       /\ j \in JOB_MERKLE_FIRST .. JOB_MERKLE_LAST /\ LevelOf(j) = l
       /\ j # JOB_OWNER /\ j # JOB_LEAF /\ j # JOB_NULLIFIER
  /\ \A j \in Jobs : j > JOB_NULLIFIER =>
       /\ j # JOB_OWNER /\ j # JOB_LEAF /\ j # JOB_NULLIFIER
       /\ j \notin JOB_MERKLE_FIRST .. JOB_MERKLE_LAST
BY JobNumbers, Numbers DEF Jobs, LevelOf

\* A job's kind decides what it hashes.
LEMMA InputsOf ==
  ASSUME NEW w, NEW d
  PROVE  /\ JobInputs(w, d, JOB_OWNER)
              = <<DOMAIN_OWNER_COMMITMENT, w.owner_secret, w.property_id>>
         /\ JobInputs(w, d, JOB_LEAF)
              = <<DOMAIN_LEAF, w.registry_id, d[JOB_LEAF], 0, 1, w.license_expiry>>
         /\ \A l \in 0 .. TREE_DEPTH - 1 : LET j == JOB_MERKLE_FIRST + l IN
              JobInputs(w, d, j)
                = IF w.merkle_bits[l] THEN <<DOMAIN_NODE, w.merkle_siblings[l], d[j]>>
                                      ELSE <<DOMAIN_NODE, d[j], w.merkle_siblings[l]>>
         /\ JobInputs(w, d, JOB_NULLIFIER)
              = <<DOMAIN_NULLIFIER, w.owner_secret, w.property_id, w.purpose, w.request_nonce>>
         /\ \A j \in Jobs : j > JOB_NULLIFIER => JobInputs(w, d, j) = <<DOMAIN_NODE, d[j], 0>>
<1> DEFINE Goal(l) == LET j == JOB_MERKLE_FIRST + l IN
             JobInputs(w, d, j)
               = IF w.merkle_bits[l] THEN <<DOMAIN_NODE, w.merkle_siblings[l], d[j]>>
                                     ELSE <<DOMAIN_NODE, d[j], w.merkle_siblings[l]>>
<1>1. JobInputs(w, d, JOB_OWNER)
        = <<DOMAIN_OWNER_COMMITMENT, w.owner_secret, w.property_id>>
  BY KindsExclude DEF JobInputs
<1>2. JobInputs(w, d, JOB_LEAF)
        = <<DOMAIN_LEAF, w.registry_id, d[JOB_LEAF], 0, 1, w.license_expiry>>
  BY KindsExclude DEF JobInputs
<1>3. ASSUME NEW l \in 0 .. TREE_DEPTH - 1 PROVE Goal(l)
  <2> DEFINE j == JOB_MERKLE_FIRST + l
  <2>1. /\ j \in JOB_MERKLE_FIRST .. JOB_MERKLE_LAST /\ LevelOf(j) = l
        /\ j # JOB_OWNER /\ j # JOB_LEAF /\ j # JOB_NULLIFIER
    BY KindsExclude
  <2> HIDE DEF j
  <2>2. JobInputs(w, d, j)
          = IF w.merkle_bits[LevelOf(j)]
              THEN <<DOMAIN_NODE, w.merkle_siblings[LevelOf(j)], d[j]>>
              ELSE <<DOMAIN_NODE, d[j], w.merkle_siblings[LevelOf(j)]>>
    BY <2>1 DEF JobInputs
  <2> QED BY <2>1, <2>2 DEF j
<1>4. JobInputs(w, d, JOB_NULLIFIER)
        = <<DOMAIN_NULLIFIER, w.owner_secret, w.property_id, w.purpose, w.request_nonce>>
  BY KindsExclude DEF JobInputs
<1>5. ASSUME NEW j \in Jobs, j > JOB_NULLIFIER
      PROVE  JobInputs(w, d, j) = <<DOMAIN_NODE, d[j], 0>>
  BY <1>5, KindsExclude DEF JobInputs
<1> QED BY <1>1, <1>2, <1>3, <1>4, <1>5

\* Every job is of one of the kinds.
LEMMA JobKinds ==
  ASSUME NEW j \in Jobs
  PROVE  \/ j = JOB_OWNER
         \/ j = JOB_LEAF
         \/ \E l \in 0 .. TREE_DEPTH - 1 : j = JOB_MERKLE_FIRST + l
         \/ j = JOB_NULLIFIER
         \/ j > JOB_NULLIFIER
<1>1. j \in Nat
  BY Numbers DEF Jobs
<1>2. CASE j >= 2 /\ j <= TREE_DEPTH + 1
  <2>1. j - 2 \in 0 .. TREE_DEPTH - 1 /\ j = JOB_MERKLE_FIRST + (j - 2)
    BY <1>1, <1>2, JobNumbers, Numbers
  <2> QED BY <2>1
<1>3. CASE ~(j >= 2 /\ j <= TREE_DEPTH + 1)
  <2>1. j = 0 \/ j = 1 \/ j = TREE_DEPTH + 2 \/ j > TREE_DEPTH + 2
    BY <1>1, <1>3, Numbers
  <2> QED BY <2>1, JobNumbers
<1> QED BY <1>2, <1>3

\* The aux columns of a job's first row, by its kind.
LEMMA AuxColumns ==
  \A a, b, c, d : /\ Aux(a, b, c, d)["a"] = a /\ Aux(a, b, c, d)["b"] = b
                  /\ Aux(a, b, c, d)["c"] = c /\ Aux(a, b, c, d)["d"] = d
                  /\ Aux(a, b, c, d) = [x \in {"a", "b", "c", "d"} |-> Aux(a, b, c, d)[x]]
BY DEF Aux

LEMMA AuxOfJob ==
  ASSUME NEW w
  PROVE  /\ JobAux(w, JOB_OWNER) = Aux(0, 0, 0, 0)
         /\ JobAux(w, JOB_LEAF) = Aux(w.registry_id, 0, 1, w.license_expiry)
         /\ \A l \in 0 .. TREE_DEPTH - 1 :
              JobAux(w, JOB_MERKLE_FIRST + l)
                = Aux(w.merkle_siblings[l], IF w.merkle_bits[l] THEN 1 ELSE 0, 0, 0)
         /\ JobAux(w, JOB_NULLIFIER) = Aux(w.purpose, w.request_nonce, 0, 0)
         /\ \A j \in Jobs : j > JOB_NULLIFIER => JobAux(w, j) = Aux(0, 0, 0, 0)
<1>1. JobAux(w, JOB_OWNER) = Aux(0, 0, 0, 0)
  BY KindsExclude DEF JobAux
<1>2. JobAux(w, JOB_LEAF) = Aux(w.registry_id, 0, 1, w.license_expiry)
  BY KindsExclude DEF JobAux
<1>3. ASSUME NEW l \in 0 .. TREE_DEPTH - 1
      PROVE  JobAux(w, JOB_MERKLE_FIRST + l)
               = Aux(w.merkle_siblings[l], IF w.merkle_bits[l] THEN 1 ELSE 0, 0, 0)
  <2> DEFINE j == JOB_MERKLE_FIRST + l
  <2>1. /\ j \in JOB_MERKLE_FIRST .. JOB_MERKLE_LAST /\ LevelOf(j) = l
        /\ j # JOB_OWNER /\ j # JOB_LEAF /\ j # JOB_NULLIFIER
    BY KindsExclude
  <2> HIDE DEF j
  <2>2. JobAux(w, j) = Aux(w.merkle_siblings[LevelOf(j)],
                           IF w.merkle_bits[LevelOf(j)] THEN 1 ELSE 0, 0, 0)
    BY <2>1 DEF JobAux
  <2> QED BY <2>1, <2>2 DEF j
<1>4. JobAux(w, JOB_NULLIFIER) = Aux(w.purpose, w.request_nonce, 0, 0)
  BY KindsExclude DEF JobAux
<1>5. ASSUME NEW j \in Jobs, j > JOB_NULLIFIER PROVE JobAux(w, j) = Aux(0, 0, 0, 0)
  BY <1>5, KindsExclude DEF JobAux
<1> QED BY <1>1, <1>2, <1>3, <1>4, <1>5

-----------------------------------------------------------------------------
(* The bits of the range check *)

\* to_bits_le gives bits, and they spell the number if it has no more of them.
LEMMA BitsOf ==
  ASSUME NEW v \in Nat
  PROVE  /\ \A i \in 0 .. RANGE_BITS - 1 : to_bits_le(v, RANGE_BITS)[i] \in {0, 1}
         /\ to_bits_le(v, RANGE_BITS)
              = [i \in 0 .. RANGE_BITS - 1 |-> to_bits_le(v, RANGE_BITS)[i]]
<1>1. ASSUME NEW i \in 0 .. RANGE_BITS - 1 PROVE Halved(v, i) % 2 \in {0, 1}
  <2>1. Halved(v, i) \in Nat
    BY HalvesAreNats, Numbers
  <2> QED BY <2>1
<1> QED BY <1>1 DEF to_bits_le

LEMMA NoBitsAreZero ==
  /\ \A i \in 0 .. RANGE_BITS - 1 : NoBits[i] \in {0, 1}
  /\ NoBits = [i \in 0 .. RANGE_BITS - 1 |-> NoBits[i]]
<1>1. 0 \in Nat
  OBVIOUS
<1> QED BY <1>1, BitsOf DEF NoBits

LEMMA SpellsIfShort ==
  ASSUME NEW v \in Nat, NEW cur, cur.bit = to_bits_le(v, RANGE_BITS)
  PROVE  Weighted(cur) = v <=> v < PowerOfTwo(RANGE_BITS)
<1> DEFINE A(n) == SumRec!At(cur, n)
           S == {n \in 0..RANGE_BITS : /\ A(n) \in Int
                                       /\ v = A(n) + PowerOfTwo(n) * Halved(v, n)}
<1>1. 0 \in S
  <2>1. A(0) = 0 /\ PowerOfTwo(0) = 1 /\ Halved(v, 0) = v
    BY WeightedSum, Powers, Halves
  <2>2. v = 0 + 1 * v
    OBVIOUS
  <2> QED BY <2>1, <2>2, Numbers
<1>2. ASSUME NEW n \in 0 .. RANGE_BITS - 1, n \in S PROVE n + 1 \in S
  <2> DEFINE h == Halved(v, n) p == PowerOfTwo(n) x == A(n)
  <2>1. n \in Nat /\ n + 1 \in 0..RANGE_BITS
    BY Numbers
  <2>2. h \in Nat /\ p \in Nat /\ x \in Int /\ v = x + p * h
    BY <1>2, <2>1, HalvesAreNats, Powers
  <2>3. /\ A(n + 1) = x + cur.bit[n] * p /\ PowerOfTwo(n + 1) = 2 * p
        /\ Halved(v, n + 1) = h \div 2
    BY <2>1, WeightedSum, Powers, Halves
  <2>4. cur.bit[n] = h % 2
    BY DEF to_bits_le
  <2> HIDE DEF h, p, x
  <2> DEFINE q == h \div 2 r == h % 2
  <2>5. q \in Nat /\ r \in {0, 1} /\ h = (2 * q) + r
    BY <2>2
  <2> HIDE DEF q, r
  <2>6. p * h = ((2 * p) * q) + (r * p) /\ r * p \in Int /\ (2 * p) * q \in Int
    <3>1. CASE r = 0
      <4>1. p * (2 * q) = (2 * p) * q /\ (2 * p) * q \in Int /\ 0 * p = 0
        BY <2>2, <2>5
      <4>2. h = 2 * q
        BY <2>5, <3>1
      <4> QED BY <3>1, <4>1, <4>2
    <3>2. CASE r = 1
      <4>1. p * ((2 * q) + 1) = ((2 * p) * q) + p /\ (2 * p) * q \in Int /\ 1 * p = p
        BY <2>2, <2>5
      <4>2. h = (2 * q) + 1
        BY <2>5, <3>2
      <4> QED BY <2>2, <3>2, <4>1, <4>2
    <3> QED BY <2>5, <3>1, <3>2
  <2>7. v = (x + r * p) + (2 * p) * q /\ x + r * p \in Int
    BY <2>2, <2>6
  <2>8. A(n + 1) = x + r * p /\ PowerOfTwo(n + 1) = 2 * p /\ Halved(v, n + 1) = q
    BY <2>3, <2>4 DEF q, r
  <2> QED BY <2>1, <2>7, <2>8
<1> HIDE DEF S
<1>3. 0..RANGE_BITS \subseteq S
  BY <1>1, <1>2, SumRec!UpTo, Numbers
<1> DEFINE w == Weighted(cur) h == Halved(v, RANGE_BITS) p == PowerOfTwo(RANGE_BITS)
<1>4. w \in Int /\ v = w + p * h
  <2>1. RANGE_BITS \in S
    BY <1>3, Numbers
  <2> QED BY <2>1, WeightedSum DEF S
<1>5. w \in 0 .. p - 1
  BY BitsOf, BitsSpell
<1>6. h \in Nat /\ p \in Nat /\ p >= 1
  BY HalvesAreNats, Powers, Numbers
<1> HIDE DEF w, h, p
<1>7. CASE h = 0
  <2>1. v = w
    BY <1>4, <1>6, <1>7
  <2> QED BY <1>5, <1>6, <2>1 DEF w, p
<1>8. CASE h >= 1
  <2>1. p * (h - 1) \in Nat /\ p * (h - 1) = p * h - p /\ p * h \in Int
    BY <1>6, <1>8
  <2>2. v >= p
    BY <1>4, <1>5, <1>6, <2>1
  <2> QED BY <1>5, <1>6, <2>2 DEF w, p
<1> QED BY <1>6, <1>7, <1>8

-----------------------------------------------------------------------------
(* A build, job by job *)

\* The digest before a job.
LEMMA DigestBefore ==
  ASSUME NEW w, NEW d, DigestsOf(w, d), NEW j \in Jobs, j <= Len(d), j # JOB_OWNER
  PROVE  d[j] \in FieldElements
<1>1. j \in 1 .. Len(d)
  BY JobNumbers, Numbers DEF Jobs, DigestsOf
<1> QED BY <1>1 DEF DigestsOf

LEMMA Tags ==
  /\ DOMAIN_OWNER_COMMITMENT \in FieldElements /\ DOMAIN_LEAF \in FieldElements
  /\ DOMAIN_NODE \in FieldElements /\ DOMAIN_NULLIFIER \in FieldElements
  /\ 0 \in FieldElements /\ 1 \in FieldElements
BY Numbers DEF FieldElements, DOMAIN_OWNER_COMMITMENT, DOMAIN_LEAF, DOMAIN_NODE,
               DOMAIN_NULLIFIER

\* A job hashes field elements.
LEMMA InputsInField ==
  ASSUME NEW w \in Witnesses, NEW d, DigestsOf(w, d), NEW j \in Jobs, j <= Len(d)
  PROVE  JobInputs(w, d, j) \in Seq(FieldElements)
<1>1. CASE j = JOB_OWNER
  <2>1. <<DOMAIN_OWNER_COMMITMENT, w.owner_secret, w.property_id>> \in Seq(FieldElements)
    BY Inputs, Tags, WitnessParts
  <2> QED BY <1>1, <2>1, InputsOf
<1>2. CASE j = JOB_LEAF
  <2>1. d[JOB_LEAF] \in FieldElements
    BY <1>2, DigestBefore, KindsExclude
  <2>2. /\ w.registry_id \in FieldElements /\ w.license_expiry \in FieldElements
        /\ DOMAIN_LEAF \in FieldElements /\ 0 \in FieldElements /\ 1 \in FieldElements
    BY Tags, WitnessParts
  <2>3. <<DOMAIN_LEAF, w.registry_id, d[JOB_LEAF], 0, 1, w.license_expiry>>
          \in Seq(FieldElements)
    BY <2>1, <2>2, Inputs
  <2> QED BY <1>2, <2>3, InputsOf
<1>3. ASSUME NEW l \in 0 .. TREE_DEPTH - 1, j = JOB_MERKLE_FIRST + l
      PROVE  JobInputs(w, d, j) \in Seq(FieldElements)
  <2>1. d[j] \in FieldElements
    BY <1>3, DigestBefore, KindsExclude
  <2>2. w.merkle_siblings[l] \in FieldElements
    BY WitnessParts
  <2>3. /\ <<DOMAIN_NODE, w.merkle_siblings[l], d[j]>> \in Seq(FieldElements)
        /\ <<DOMAIN_NODE, d[j], w.merkle_siblings[l]>> \in Seq(FieldElements)
    BY <2>1, <2>2, Inputs, Tags
  <2>4. \/ JobInputs(w, d, j) = <<DOMAIN_NODE, w.merkle_siblings[l], d[j]>>
        \/ JobInputs(w, d, j) = <<DOMAIN_NODE, d[j], w.merkle_siblings[l]>>
    BY <1>3, InputsOf
  <2> QED BY <2>3, <2>4
<1>4. CASE j = JOB_NULLIFIER
  <2>1. /\ w.owner_secret \in FieldElements /\ w.property_id \in FieldElements
        /\ w.purpose \in FieldElements /\ w.request_nonce \in FieldElements
        /\ DOMAIN_NULLIFIER \in FieldElements
    BY Tags, WitnessParts
  <2>2. <<DOMAIN_NULLIFIER, w.owner_secret, w.property_id, w.purpose, w.request_nonce>>
          \in Seq(FieldElements)
    BY <2>1, Inputs
  <2> QED BY <1>4, <2>2, InputsOf
<1>5. CASE j > JOB_NULLIFIER
  <2>1. d[j] \in FieldElements
    BY <1>5, DigestBefore, KindsExclude
  <2>2. <<DOMAIN_NODE, d[j], 0>> \in Seq(FieldElements)
    BY <2>1, Inputs, Tags
  <2> QED BY <1>5, <2>2, InputsOf
<1>6. \/ j = JOB_OWNER
      \/ j = JOB_LEAF
      \/ \E l \in 0 .. TREE_DEPTH - 1 : j = JOB_MERKLE_FIRST + l
      \/ j = JOB_NULLIFIER
      \/ j > JOB_NULLIFIER
  BY JobKinds
<1> QED BY <1>1, <1>2, <1>3, <1>4, <1>5, <1>6

\* The aux columns a job writes are in the field.
LEMMA AuxInField ==
  ASSUME NEW w \in Witnesses, NEW j \in Jobs
  PROVE  JobAux(w, j) \in [{"a", "b", "c", "d"} -> FieldElements]
<1> DEFINE A == [{"a", "b", "c", "d"} -> FieldElements]
<1> SUFFICES JobAux(w, j) \in A
  OBVIOUS
<1>1. \A a, b, c, d \in FieldElements : Aux(a, b, c, d) \in A
  BY DEF Aux
<1> HIDE DEF A
<1>2. ASSUME NEW l \in 0 .. TREE_DEPTH - 1, j = JOB_MERKLE_FIRST + l
      PROVE  JobAux(w, j) \in A
  <2> DEFINE bit == IF w.merkle_bits[l] THEN 1 ELSE 0
  <2>1. w.merkle_siblings[l] \in FieldElements /\ bit \in FieldElements
    BY WitnessParts, Tags
  <2>2. JobAux(w, j) = Aux(w.merkle_siblings[l], bit, 0, 0)
    BY <1>2, AuxOfJob
  <2> HIDE DEF bit
  <2> QED BY <1>1, <2>1, <2>2, Tags
<1>3. CASE j = JOB_OWNER \/ j > JOB_NULLIFIER
  <2>1. JobAux(w, j) = Aux(0, 0, 0, 0)
    BY <1>3, AuxOfJob
  <2> QED BY <1>1, <2>1, Tags
<1>4. CASE j = JOB_LEAF
  <2>1. JobAux(w, j) = Aux(w.registry_id, 0, 1, w.license_expiry)
    BY <1>4, AuxOfJob
  <2>2. w.registry_id \in FieldElements /\ w.license_expiry \in FieldElements
    BY WitnessParts
  <2> QED BY <1>1, <2>1, <2>2, Tags
<1>5. CASE j = JOB_NULLIFIER
  <2>1. JobAux(w, j) = Aux(w.purpose, w.request_nonce, 0, 0)
    BY <1>5, AuxOfJob
  <2>2. w.purpose \in FieldElements /\ w.request_nonce \in FieldElements
    BY WitnessParts
  <2> QED BY <1>1, <2>1, <2>2, Tags
<1>6. \/ j = JOB_OWNER
      \/ j = JOB_LEAF
      \/ \E l \in 0 .. TREE_DEPTH - 1 : j = JOB_MERKLE_FIRST + l
      \/ j = JOB_NULLIFIER
      \/ j > JOB_NULLIFIER
  BY JobKinds
<1> QED BY <1>2, <1>3, <1>4, <1>5, <1>6

\* The range bits a job writes are bits.
LEMMA JobBitsAreBits ==
  ASSUME NEW w \in Witnesses, NEW j \in Jobs, j = JOB_LEAF => DiffOf(w) >= 0
  PROVE  /\ \A i \in 0 .. RANGE_BITS - 1 : JobBits(w, j)[i] \in {0, 1}
         /\ JobBits(w, j) = [i \in 0 .. RANGE_BITS - 1 |-> JobBits(w, j)[i]]
<1>1. CASE j = JOB_LEAF
  <2>1. DiffOf(w) \in Nat
    <3>1. w.license_expiry \in Int /\ w.current_timestamp \in Int
      BY WitnessParts, FieldIsInt
    <3> QED BY <1>1, <3>1 DEF DiffOf
  <2> QED BY <1>1, <2>1, BitsOf DEF JobBits
<1>2. CASE j # JOB_LEAF
  BY <1>2, NoBitsAreZero DEF JobBits
<1> QED BY <1>1, <1>2

\* What a row of a job consists of.
LEMMA RowIsRow ==
  ASSUME NEW w \in Witnesses, NEW d, DigestsOf(w, d), NEW j \in Jobs, j <= Len(d),
         NEW k \in 0 .. ROUNDS - 1, j = JOB_LEAF => DiffOf(w) >= 0
  PROVE  /\ RowOf(w, d, j, k) \in Row
         /\ \A i \in 0 .. RANGE_BITS - 1 : RowOf(w, d, j, k).bit[i] \in {0, 1}
         /\ IsOfType(RowOf(w, d, j, k), job_type_column(j))
<1> DEFINE s == AfterRounds(Padded(JobInputs(w, d, j)), k)
           aux == IF k = 0 THEN JobAux(w, j) ELSE Aux(0, 0, 0, 0)
           held == HeldOf(w)
           t == [x \in JobTypes |-> IF x = job_type_column(j) THEN 1 ELSE 0]
           bit == IF k = 0 THEN JobBits(w, j) ELSE NoBits
<1>1. s \in [Lanes -> FieldElements]
  BY InputsInField, PaddedInField, RoundsInField DEF States
<1>2. aux \in [{"a", "b", "c", "d"} -> FieldElements]
  <2>1. Aux(0, 0, 0, 0) \in [{"a", "b", "c", "d"} -> FieldElements]
    BY Tags DEF Aux
  <2> QED BY <2>1, AuxInField
<1>3. held \in [{"secret", "pid"} -> FieldElements]
  BY WitnessParts DEF HeldOf
<1>4. t \in [JobTypes -> FieldElements]
  BY Tags
<1>5. /\ \A i \in 0 .. RANGE_BITS - 1 : bit[i] \in {0, 1}
      /\ bit = [i \in 0 .. RANGE_BITS - 1 |-> bit[i]]
  BY JobBitsAreBits, NoBitsAreZero
<1>6. bit \in [0 .. RANGE_BITS - 1 -> FieldElements]
  BY <1>5, Tags
<1>7. RowOf(w, d, j, k) = [s |-> s, aux |-> aux, held |-> held, t |-> t, bit |-> bit]
  BY DEF RowOf
<1>8. \A x \in JobTypes : t[x] = IF x = job_type_column(j) THEN 1 ELSE 0
  OBVIOUS
<1> HIDE DEF s, aux, held, t, bit
<1>9. RowOf(w, d, j, k) \in Row
  BY <1>1, <1>2, <1>3, <1>4, <1>6, <1>7 DEF Row
<1> QED BY <1>5, <1>7, <1>8, <1>9 DEF IsOfType

\* What a job hashes depends on the digest before it only.
LEMMA SameInputs ==
  ASSUME NEW w, NEW d, NEW e, NEW j \in Jobs, j # JOB_OWNER => e[j] = d[j]
  PROVE  JobInputs(w, e, j) = JobInputs(w, d, j)
<1>1. CASE j = JOB_OWNER
  BY <1>1, InputsOf
<1>2. CASE j = JOB_LEAF
  <2>1. e[JOB_LEAF] = d[JOB_LEAF]
    BY <1>2, KindsExclude
  <2>2. /\ JobInputs(w, e, JOB_LEAF)
             = <<DOMAIN_LEAF, w.registry_id, e[JOB_LEAF], 0, 1, w.license_expiry>>
        /\ JobInputs(w, d, JOB_LEAF)
             = <<DOMAIN_LEAF, w.registry_id, d[JOB_LEAF], 0, 1, w.license_expiry>>
    BY InputsOf
  <2> QED BY <1>2, <2>1, <2>2
<1>3. ASSUME NEW l \in 0 .. TREE_DEPTH - 1, j = JOB_MERKLE_FIRST + l
      PROVE  JobInputs(w, e, j) = JobInputs(w, d, j)
  <2>1. e[j] = d[j]
    BY <1>3, KindsExclude
  <2>2. JobInputs(w, e, j)
          = IF w.merkle_bits[l] THEN <<DOMAIN_NODE, w.merkle_siblings[l], e[j]>>
                                ELSE <<DOMAIN_NODE, e[j], w.merkle_siblings[l]>>
    BY <1>3, InputsOf
  <2>3. JobInputs(w, d, j)
          = IF w.merkle_bits[l] THEN <<DOMAIN_NODE, w.merkle_siblings[l], d[j]>>
                                ELSE <<DOMAIN_NODE, d[j], w.merkle_siblings[l]>>
    BY <1>3, InputsOf
  <2> QED BY <2>1, <2>2, <2>3
<1>4. CASE j = JOB_NULLIFIER
  BY <1>4, InputsOf
<1>5. CASE j > JOB_NULLIFIER
  <2>1. e[j] = d[j]
    BY <1>5, KindsExclude
  <2>2. /\ JobInputs(w, e, j) = <<DOMAIN_NODE, e[j], 0>>
        /\ JobInputs(w, d, j) = <<DOMAIN_NODE, d[j], 0>>
    BY <1>5, InputsOf
  <2> QED BY <2>1, <2>2
<1>6. \/ j = JOB_OWNER
      \/ j = JOB_LEAF
      \/ \E l \in 0 .. TREE_DEPTH - 1 : j = JOB_MERKLE_FIRST + l
      \/ j = JOB_NULLIFIER
      \/ j > JOB_NULLIFIER
  BY JobKinds
<1> QED BY <1>1, <1>2, <1>3, <1>4, <1>5, <1>6

-----------------------------------------------------------------------------
(* A complete build satisfies the circuit *)

PubOf(w, d) ==
  [registry_id       |-> w.registry_id,
   merkle_root       |-> d[JOB_MERKLE_LAST + 1],
   purpose           |-> w.purpose,
   request_nonce     |-> w.request_nonce,
   current_timestamp |-> F(w.current_timestamp),
   nullifier         |-> d[JOB_NULLIFIER + 1]]

\* The witness, the digests and the rows of a build that ran all its jobs.
CompleteBuild(tr, w, d) ==
  /\ w \in Witnesses /\ DigestsOf(w, d) /\ RowsOf(tr, w, d)
  /\ Len(d) = JOB_COUNT

LEMMA RowStates ==
  \A w, d, j, k : RowOf(w, d, j, k).s = AfterRounds(Padded(JobInputs(w, d, j)), k)
BY DEF RowOf

LEMMA RowHeld ==
  /\ \A w, d, j, k : RowOf(w, d, j, k).held = HeldOf(w)
  /\ \A w : HeldOf(w)["secret"] = w.owner_secret /\ HeldOf(w)["pid"] = w.property_id
BY DEF RowOf, HeldOf

LEMMA FirstRowColumns ==
  \A w, d, j : /\ RowOf(w, d, j, 0).s = Padded(JobInputs(w, d, j))
               /\ RowOf(w, d, j, 0).aux = JobAux(w, j)
               /\ RowOf(w, d, j, 0).bit = JobBits(w, j)
<1>1. \A w, d, j : RowOf(w, d, j, 0).s = Padded(JobInputs(w, d, j))
  BY Rounds, RowStates
<1> QED BY <1>1 DEF RowOf

\* The complete trace, row by row.
LEMMA CompleteRows ==
  ASSUME NEW tr, NEW w, NEW d, CompleteBuild(tr, w, d)
  PROVE  /\ DOMAIN tr = Rows
         /\ \A j \in Jobs : \A k \in 0 .. ROUNDS - 1 :
              /\ tr[j * ROUNDS + k] = RowOf(w, d, j, k)
              /\ RowOf(w, d, j, k) \in Row
              /\ IsOfType(RowOf(w, d, j, k), job_type_column(j))
              /\ \A i \in 0 .. RANGE_BITS - 1 : RowOf(w, d, j, k).bit[i] \in {0, 1}
         /\ \A j \in Jobs : /\ tr[job_start_row(j)] = RowOf(w, d, j, 0)
                            /\ tr[job_last_row(j)] = RowOf(w, d, j, ROUNDS - 1)
                            /\ tr[job_last_row(j)].s[0] = d[j + 1]
                            /\ d[j + 1] \in FieldElements
<1>1. \A j \in Jobs : j < Len(d) /\ j <= Len(d) /\ j \in Nat
  BY Numbers DEF CompleteBuild, Jobs
<1>2. DOMAIN tr = Rows
  BY DEF CompleteBuild, RowsOf, Rows, TRACE_LENGTH
<1>3. ASSUME NEW j \in Jobs, NEW k \in 0 .. ROUNDS - 1
      PROVE  /\ tr[j * ROUNDS + k] = RowOf(w, d, j, k)
             /\ RowOf(w, d, j, k) \in Row
             /\ IsOfType(RowOf(w, d, j, k), job_type_column(j))
             /\ \A i \in 0 .. RANGE_BITS - 1 : RowOf(w, d, j, k).bit[i] \in {0, 1}
  <2>1. tr[j * ROUNDS + k] = RowOf(w, d, j, k)
    BY <1>1 DEF CompleteBuild, RowsOf
  <2>2. w \in Witnesses /\ DigestsOf(w, d)
    BY DEF CompleteBuild
  <2>3. j = JOB_LEAF => DiffOf(w) >= 0
    BY <1>1, <2>2 DEF DigestsOf
  <2> QED BY <1>1, <2>1, <2>2, <2>3, RowIsRow
<1>4. ASSUME NEW j \in Jobs
      PROVE  /\ tr[job_start_row(j)] = RowOf(w, d, j, 0)
             /\ tr[job_last_row(j)] = RowOf(w, d, j, ROUNDS - 1)
             /\ tr[job_last_row(j)].s[0] = d[j + 1]
             /\ d[j + 1] \in FieldElements
  <2>1. /\ tr[job_start_row(j)] = RowOf(w, d, j, 0)
        /\ tr[job_last_row(j)] = RowOf(w, d, j, ROUNDS - 1)
    BY <1>3, JobEnds
  <2>2. RowOf(w, d, j, ROUNDS - 1).s[0] = hash(JobInputs(w, d, j))
    BY RowStates DEF hash
  <2>3. d[j + 1] = hash(JobInputs(w, d, j))
    BY <1>1 DEF CompleteBuild, DigestsOf
  <2>4. JobInputs(w, d, j) \in Seq(FieldElements)
    BY <1>1, InputsInField DEF CompleteBuild
  <2> QED BY <2>1, <2>2, <2>3, <2>4, HashInField
<1> QED BY <1>2, <1>3, <1>4

\* A job starts where the boundary constraint wants it, and the first job after
\* the last as well.
LEMMA StartFollows ==
  ASSUME NEW tr, NEW w, NEW d, CompleteBuild(tr, w, d),
         NEW j \in Jobs, NEW n \in Jobs, n = JOB_OWNER \/ n = j + 1
  PROVE  tr[job_start_row(n)].s = Boundary(tr[job_last_row(j)], tr[job_start_row(n)])
<1> DEFINE cur == tr[job_last_row(j)] nxt == tr[job_start_row(n)]
<1>1. cur = RowOf(w, d, j, ROUNDS - 1) /\ nxt = RowOf(w, d, n, 0) /\ cur.s[0] = d[j + 1]
  BY CompleteRows
<1>2. cur \in Row /\ nxt \in Row /\ IsOfType(nxt, job_type_column(n))
  BY <1>1, CompleteRows, JobEnds
<1>3. nxt.s = Padded(JobInputs(w, d, n)) /\ nxt.aux = JobAux(w, n)
  BY <1>1, FirstRowColumns
<1>4. cur.held["secret"] = w.owner_secret /\ cur.held["pid"] = w.property_id
  BY <1>1, RowHeld
<1>5. n # JOB_OWNER => cur.s[0] = d[n]
  BY <1>1
<1> HIDE DEF cur, nxt
<1>6. CASE n = JOB_OWNER
  <2>1. IsOfType(nxt, "owner")
    BY <1>2, <1>6, JobNumbers
  <2>2. Boundary(cur, nxt)
          = Padded(<<DOMAIN_OWNER_COMMITMENT, cur.held["secret"], cur.held["pid"]>>)
    BY <1>2, <2>1, BoundaryOf
  <2>3. JobInputs(w, d, n) = <<DOMAIN_OWNER_COMMITMENT, w.owner_secret, w.property_id>>
    BY <1>6, InputsOf
  <2> QED BY <1>3, <1>4, <2>2, <2>3 DEF cur, nxt
<1>7. CASE n = JOB_LEAF
  <2>1. IsOfType(nxt, "leaf") /\ cur.s[0] = d[n]
    BY <1>2, <1>5, <1>7, JobNumbers
  <2>2. Boundary(cur, nxt)
          = Padded(<<DOMAIN_LEAF, nxt.aux["a"], cur.s[0], nxt.aux["b"], nxt.aux["c"],
                     nxt.aux["d"]>>)
    BY <1>2, <2>1, BoundaryOf
  <2>3. JobInputs(w, d, n) = <<DOMAIN_LEAF, w.registry_id, d[n], 0, 1, w.license_expiry>>
    BY <1>7, InputsOf
  <2>4. nxt.aux = Aux(w.registry_id, 0, 1, w.license_expiry)
    BY <1>3, <1>7, AuxOfJob
  <2>5. /\ nxt.aux["a"] = w.registry_id /\ nxt.aux["b"] = 0
        /\ nxt.aux["c"] = 1 /\ nxt.aux["d"] = w.license_expiry
    BY <2>4, AuxColumns
  <2> QED BY <1>3, <2>1, <2>2, <2>3, <2>5 DEF cur, nxt
<1>8. ASSUME NEW l \in 0 .. TREE_DEPTH - 1, n = JOB_MERKLE_FIRST + l
      PROVE  nxt.s = Boundary(cur, nxt)
  <2>1. IsOfType(nxt, "merkle") /\ cur.s[0] = d[n]
    BY <1>2, <1>5, <1>8, JobNumbers, KindsExclude
  <2>2. nxt.aux = Aux(w.merkle_siblings[l], IF w.merkle_bits[l] THEN 1 ELSE 0, 0, 0)
    BY <1>3, <1>8, AuxOfJob
  <2>3. /\ nxt.aux["a"] = w.merkle_siblings[l]
        /\ nxt.aux["b"] = IF w.merkle_bits[l] THEN 1 ELSE 0
    BY <2>2, AuxColumns
  <2>4. JobInputs(w, d, n)
          = IF w.merkle_bits[l] THEN <<DOMAIN_NODE, w.merkle_siblings[l], d[n]>>
                                ELSE <<DOMAIN_NODE, d[n], w.merkle_siblings[l]>>
    BY <1>8, InputsOf
  <2>5. CASE w.merkle_bits[l]
    <3>1. nxt.aux["b"] = 1
      BY <2>3, <2>5
    <3>2. Boundary(cur, nxt) = Padded(<<DOMAIN_NODE, nxt.aux["a"], cur.s[0]>>)
      BY <1>2, <2>1, <3>1, BoundaryOf
    <3>3. JobInputs(w, d, n) = <<DOMAIN_NODE, w.merkle_siblings[l], d[n]>>
      BY <2>4, <2>5
    <3> QED BY <1>3, <2>1, <2>3, <3>2, <3>3
  <2>6. CASE ~w.merkle_bits[l]
    <3>1. nxt.aux["b"] = 0
      BY <2>3, <2>6
    <3>2. Boundary(cur, nxt) = Padded(<<DOMAIN_NODE, cur.s[0], nxt.aux["a"]>>)
      BY <1>2, <2>1, <3>1, BoundaryOf
    <3>3. JobInputs(w, d, n) = <<DOMAIN_NODE, d[n], w.merkle_siblings[l]>>
      BY <2>4, <2>6
    <3> QED BY <1>3, <2>1, <2>3, <3>2, <3>3
  <2> QED BY <2>5, <2>6
<1>9. CASE n = JOB_NULLIFIER
  <2>1. IsOfType(nxt, "nullifier")
    BY <1>2, <1>9, JobNumbers
  <2>2. Boundary(cur, nxt)
          = Padded(<<DOMAIN_NULLIFIER, cur.held["secret"], cur.held["pid"],
                     nxt.aux["a"], nxt.aux["b"]>>)
    BY <1>2, <2>1, BoundaryOf
  <2>3. JobInputs(w, d, n)
          = <<DOMAIN_NULLIFIER, w.owner_secret, w.property_id, w.purpose, w.request_nonce>>
    BY <1>9, InputsOf
  <2>4. nxt.aux = Aux(w.purpose, w.request_nonce, 0, 0)
    BY <1>3, <1>9, AuxOfJob
  <2>5. nxt.aux["a"] = w.purpose /\ nxt.aux["b"] = w.request_nonce
    BY <2>4, AuxColumns
  <2> QED BY <1>3, <1>4, <2>2, <2>3, <2>5 DEF cur, nxt
<1>10. CASE n > JOB_NULLIFIER
  <2>1. IsOfType(nxt, "merkle") /\ cur.s[0] = d[n]
    BY <1>2, <1>5, <1>10, JobNumbers, KindsExclude
  <2>2. nxt.aux = Aux(0, 0, 0, 0)
    BY <1>3, <1>10, AuxOfJob
  <2>3. nxt.aux["a"] = 0 /\ nxt.aux["b"] = 0
    BY <2>2, AuxColumns
  <2>4. Boundary(cur, nxt) = Padded(<<DOMAIN_NODE, cur.s[0], nxt.aux["a"]>>)
    BY <1>2, <2>1, <2>3, BoundaryOf
  <2>5. JobInputs(w, d, n) = <<DOMAIN_NODE, d[n], 0>>
    BY <1>10, InputsOf
  <2> QED BY <1>3, <2>1, <2>3, <2>4, <2>5 DEF cur, nxt
<1>11. \/ n = JOB_OWNER
       \/ n = JOB_LEAF
       \/ \E l \in 0 .. TREE_DEPTH - 1 : n = JOB_MERKLE_FIRST + l
       \/ n = JOB_NULLIFIER
       \/ n > JOB_NULLIFIER
  BY JobKinds
<1> QED BY <1>6, <1>7, <1>8, <1>9, <1>10, <1>11 DEF cur, nxt

\* All constraints but the sum of the range check, at every row, the last one
\* taken with the first.
LEMMA LanesAreRight ==
  ASSUME NEW tr, NEW w, NEW d, CompleteBuild(tr, w, d), NEW r \in Rows
  PROVE  LET nxt == tr[(r + 1) % TRACE_LENGTH] IN
         LanesFollow(tr[r], nxt, r % ROUNDS) /\ HeldCopied(tr[r], nxt)
<1>1. PICK j \in Jobs, k \in 0 .. ROUNDS - 1 : r = j * ROUNDS + k
  BY Layout
<1>2. r % ROUNDS = k /\ j \in Nat /\ k \in Nat /\ j * ROUNDS \in Nat
  BY <1>1, Layout, Numbers
<1>3. tr[r] = RowOf(w, d, j, k)
  BY <1>1, CompleteRows
<1>4. \A x \in 0 .. TRACE_LENGTH - 1 : x % TRACE_LENGTH = x
  <2>1. TRACE_LENGTH \in Nat /\ TRACE_LENGTH > 0
    BY Layout
  <2> QED BY <2>1
<1>5. CASE k # ROUNDS - 1
  <2>1. k + 1 \in 0 .. ROUNDS - 1 /\ r + 1 = j * ROUNDS + (k + 1)
    BY <1>1, <1>2, <1>5, Numbers
  <2>2. r + 1 \in Rows
    BY <2>1, Layout
  <2>3. (r + 1) % TRACE_LENGTH = r + 1
    BY <1>4, <2>2 DEF Rows
  <2>4. tr[r + 1] = RowOf(w, d, j, k + 1)
    BY <2>1, CompleteRows
  <2>5. RowOf(w, d, j, k + 1).s = apply_round(RowOf(w, d, j, k).s, RoundConstants[k])
    BY <1>2, RowStates, Rounds
  <2>6. RowOf(w, d, j, k + 1).held = RowOf(w, d, j, k).held
    BY RowHeld
  <2> QED BY <1>2, <1>3, <1>5, <2>3, <2>4, <2>5, <2>6 DEF LanesFollow, HeldCopied
<1>6. CASE k = ROUNDS - 1
  <2>1. tr[r] = tr[job_last_row(j)]
    BY <1>1, <1>6, JobEnds
  <2>2. \E n \in Jobs : /\ n = JOB_OWNER \/ n = j + 1
                        /\ tr[(r + 1) % TRACE_LENGTH] = tr[job_start_row(n)]
    <3>1. CASE j + 1 \in Jobs
      <4>1. r + 1 = job_start_row(j + 1)
        BY <1>1, <1>2, <1>6, Layout, Numbers DEF job_start_row
      <4>2. r + 1 \in 0 .. TRACE_LENGTH - 1
        BY <3>1, <4>1, JobEnds DEF Rows
      <4> QED BY <1>4, <3>1, <4>1, <4>2
    <3>2. CASE j + 1 \notin Jobs
      <4>1. j + 1 = JOB_COUNT
        BY <1>2, <3>2, Numbers DEF Jobs
      <4>2. r + 1 = (j + 1) * ROUNDS
        BY <1>1, <1>2, <1>6, Layout, Numbers
      <4>3. r + 1 = TRACE_LENGTH
        BY <4>1, <4>2 DEF TRACE_LENGTH
      <4>4. TRACE_LENGTH % TRACE_LENGTH = 0
        <5>1. \A m \in Nat : m > 0 => m % m = 0
          OBVIOUS
        <5> QED BY <5>1, Layout
      <4>5. job_start_row(JOB_OWNER) = 0 /\ JOB_OWNER \in Jobs
        BY JobNumbers, Numbers DEF job_start_row
      <4> QED BY <4>3, <4>4, <4>5
    <3> QED BY <3>1, <3>2
  <2>3. PICK n \in Jobs : /\ n = JOB_OWNER \/ n = j + 1
                          /\ tr[(r + 1) % TRACE_LENGTH] = tr[job_start_row(n)]
    BY <2>2
  <2>4. tr[job_start_row(n)].s = Boundary(tr[job_last_row(j)], tr[job_start_row(n)])
    BY <2>3, StartFollows
  <2>5. tr[job_start_row(n)].held = tr[job_last_row(j)].held
    <3>1. tr[job_start_row(n)] = RowOf(w, d, n, 0) /\ tr[job_last_row(j)] = RowOf(w, d, j, ROUNDS - 1)
      BY CompleteRows
    <3> QED BY <3>1, RowHeld
  <2> QED BY <1>2, <1>6, <2>1, <2>3, <2>4, <2>5 DEF LanesFollow, HeldCopied
<1> QED BY <1>5, <1>6

\* The constraints on the type columns hold in every first row.
LEMMA TypesAreOneHot ==
  ASSUME NEW cur, NEW k \in JobTypes, IsOfType(cur, k)
  PROVE  TypeOneHot(cur)
<1>1. F(0) = 0 /\ F(1) = 1
  BY Tags, FieldIsInt
<1>2. \A x \in JobTypes : cur.t[x] \in {0, 1}
  BY DEF IsOfType
<1>3. \A x \in JobTypes : Binary(cur.t[x])
  BY <1>2, Tags, BinaryIsBit DEF Binary
<1>4. cur.t["owner"] + cur.t["leaf"] + cur.t["merkle"] + cur.t["nullifier"] = 1
  BY DEF IsOfType, JobTypes
<1> QED BY <1>1, <1>3, <1>4 DEF TypeOneHot

\* So does the constraint on a Merkle step's direction.
LEMMA DirectionsAreBits ==
  ASSUME NEW w \in Witnesses, NEW d, NEW j \in Jobs,
         IsOfType(RowOf(w, d, j, 0), job_type_column(j))
  PROVE  MerkleBitBinary(RowOf(w, d, j, 0))
<1> DEFINE cur == RowOf(w, d, j, 0) b == cur.aux["b"] m == cur.t["merkle"]
<1>1. F(0) = 0
  BY Tags, FieldIsInt
<1>2. cur.aux = JobAux(w, j)
  BY FirstRowColumns
<1>3. b \in FieldElements
  BY <1>2, AuxInField
<1>4. MerkleBitBinary(cur) <=> F(m * (b * b - b)) = 0
  BY DEF MerkleBitBinary
<1>5. m = 0 \/ b \in {0, 1}
  <2>1. CASE j \in {JOB_OWNER, JOB_LEAF, JOB_NULLIFIER}
    <3>1. job_type_column(j) # "merkle"
      BY <2>1, JobNumbers
    <3> QED BY <3>1 DEF IsOfType, JobTypes
  <2>2. ASSUME NEW l \in 0 .. TREE_DEPTH - 1, j = JOB_MERKLE_FIRST + l PROVE b \in {0, 1}
    <3>1. cur.aux = Aux(w.merkle_siblings[l], IF w.merkle_bits[l] THEN 1 ELSE 0, 0, 0)
      BY <1>2, <2>2, AuxOfJob
    <3> QED BY <3>1, AuxColumns
  <2>3. CASE j > JOB_NULLIFIER
    <3>1. cur.aux = Aux(0, 0, 0, 0)
      BY <1>2, <2>3, AuxOfJob
    <3> QED BY <3>1, AuxColumns
  <2>4. \/ j = JOB_OWNER
        \/ j = JOB_LEAF
        \/ \E l \in 0 .. TREE_DEPTH - 1 : j = JOB_MERKLE_FIRST + l
        \/ j = JOB_NULLIFIER
        \/ j > JOB_NULLIFIER
    BY JobKinds
  <2> QED BY <2>1, <2>2, <2>3, <2>4
<1> HIDE DEF cur, b, m
<1>6. CASE m = 0
  <2>1. b * b - b \in Int
    BY <1>3, FieldIsInt
  <2>2. m * (b * b - b) = 0
    BY <1>6, <2>1
  <2> QED BY <1>1, <1>4, <2>2 DEF cur
<1>7. CASE b \in {0, 1} /\ m \in Int
  <2>1. b * b - b = 0 /\ m * 0 = 0
    BY <1>7
  <2> QED BY <1>1, <1>4, <2>1 DEF cur
<1>8. m \in {0, 1}
  BY DEF m, cur, IsOfType, JobTypes
<1> QED BY <1>5, <1>6, <1>7, <1>8

\* The sum of the range check comes out zero but for the leaf's row, and there
\* if the difference has no more than RANGE_BITS bits, and only then.
LEMMA RangeSumOf ==
  ASSUME NEW tr, NEW w, NEW d, CompleteBuild(tr, w, d), NEW j \in Jobs
  PROVE  RangeSum(RowOf(w, d, j, 0), PubOf(w, d))
           <=> (j = JOB_LEAF => DiffOf(w) < PowerOfTwo(RANGE_BITS))
<1> DEFINE cur == RowOf(w, d, j, 0) ts == w.current_timestamp
           v == Weighted(cur) x == cur.aux["d"] - PubOf(w, d).current_timestamp - 1
           lf == cur.t["leaf"] p == PowerOfTwo(RANGE_BITS)
<1>1. w \in Witnesses /\ DigestsOf(w, d) /\ Len(d) = JOB_COUNT
  BY DEF CompleteBuild
<1>2. /\ cur \in Row /\ IsOfType(cur, job_type_column(j))
      /\ \A i \in 0 .. RANGE_BITS - 1 : cur.bit[i] \in {0, 1}
  BY CompleteRows, JobEnds
<1>3. ts \in FieldElements /\ PubOf(w, d).current_timestamp = ts
  BY <1>1, WitnessParts, FieldIsInt DEF PubOf
<1>4. cur.aux["d"] \in FieldElements
  BY <1>2, RowParts
<1>5. v \in 0 .. p - 1 /\ p \in Nat /\ p < Modulus
  BY <1>2, BitsSpell, Powers, Numbers, AirAssumption
<1>6. RangeSum(cur, PubOf(w, d)) <=> F(lf * (v - x)) = 0
  BY DEF RangeSum
<1>7. F(0) = 0
  BY Tags, FieldIsInt
<1>8. x \in Int
  <2>1. cur.aux["d"] \in Int /\ ts \in Int
    BY <1>3, <1>4, FieldIsInt
  <2> QED BY <1>3, <2>1
<1>9. lf = IF job_type_column(j) = "leaf" THEN 1 ELSE 0
  BY <1>2 DEF IsOfType, JobTypes
<1>10. CASE j # JOB_LEAF
  <2>1. lf = 0
    BY <1>9, <1>10, JobNumbers
  <2> HIDE DEF cur, v, x, lf
  <2>2. lf * (v - x) = 0
    BY <1>5, <1>8, <2>1
  <2> QED BY <1>6, <1>7, <1>10, <2>2 DEF cur
<1>11. CASE j = JOB_LEAF
  <2>1. lf = 1
    BY <1>9, <1>11, JobNumbers
  <2>2. x = DiffOf(w)
    <3>1. cur.aux["d"] = w.license_expiry
      <4>1. cur.aux = Aux(w.registry_id, 0, 1, w.license_expiry)
        BY <1>11, FirstRowColumns, AuxOfJob
      <4> QED BY <4>1, AuxColumns
    <3> QED BY <1>3, <3>1 DEF DiffOf
  <2>3. x \in Nat
    <3>1. Len(d) > JOB_LEAF
      BY <1>1, JobNumbers, Numbers
    <3> QED BY <1>1, <1>8, <2>2, <3>1 DEF DigestsOf
  <2>4. v = x <=> x < p
    <3>1. cur.bit = to_bits_le(x, RANGE_BITS)
      BY <1>11, <2>2, FirstRowColumns DEF JobBits
    <3> QED BY <2>3, <3>1, SpellsIfShort
  <2>5. x < Modulus
    <3>1. /\ w.license_expiry \in Int /\ ts \in Int
          /\ w.license_expiry < Modulus /\ ts >= 0
      BY <1>1, WitnessParts, Numbers DEF FieldElements
    <3> QED BY <2>2, <3>1, Numbers DEF DiffOf
  <2> HIDE DEF cur, v, x, lf, p
  <2>6. lf * (v - x) = v - x /\ v - x \in Int /\ v \in Int
    BY <1>5, <1>8, <2>1
  <2>7. F(v - x) = 0 <=> v = x
    <3>1. ASSUME F(v - x) = 0 PROVE v = x
      <4>1. /\ (v - x) - 0 < Modulus /\ 0 - (v - x) < Modulus /\ 0 \in Int
            /\ F(v - x) = F(0)
        BY <1>5, <1>7, <2>3, <2>5, <2>6, <3>1, Numbers
      <4>2. v - x = 0
        BY <2>6, <4>1, Near
      <4> QED BY <1>8, <2>6, <4>2
    <3>2. v = x => v - x = 0
      BY <2>6
    <3> QED BY <1>7, <3>1, <3>2
  <2> QED BY <1>6, <1>11, <2>2, <2>4, <2>6, <2>7 DEF cur, p
<1> QED BY <1>10, <1>11

\* The assertions hold.
LEMMA AssertionsHold ==
  ASSUME NEW tr, NEW w, NEW d, CompleteBuild(tr, w, d)
  PROVE  get_assertions(tr, PubOf(w, d))
<1> DEFINE pi == PubOf(w, d)
<1>1. w \in Witnesses
  BY DEF CompleteBuild
<1>2. LeafAsserted(tr[job_start_row(JOB_LEAF)], pi)
  <2>1. tr[job_start_row(JOB_LEAF)].aux = Aux(w.registry_id, 0, 1, w.license_expiry)
    BY CompleteRows, JobNumbers, FirstRowColumns, AuxOfJob
  <2> QED BY <2>1, AuxColumns DEF LeafAsserted, PubOf
<1>3. NullifierAsserted(tr[job_start_row(JOB_NULLIFIER)], pi)
  <2>1. tr[job_start_row(JOB_NULLIFIER)].aux = Aux(w.purpose, w.request_nonce, 0, 0)
    BY CompleteRows, JobNumbers, FirstRowColumns, AuxOfJob
  <2> QED BY <2>1, AuxColumns DEF NullifierAsserted, PubOf
<1>4. /\ tr[job_last_row(JOB_MERKLE_LAST)].s[0] = pi.merkle_root
      /\ tr[job_last_row(JOB_NULLIFIER)].s[0] = pi.nullifier
  BY CompleteRows, JobNumbers DEF PubOf
<1>5. ASSUME NEW j \in Jobs PROVE tr[job_start_row(j)].t[job_type_column(j)] = 1
  <2>1. /\ IsOfType(RowOf(w, d, j, 0), job_type_column(j))
        /\ tr[job_start_row(j)] = RowOf(w, d, j, 0)
    BY CompleteRows, JobEnds
  <2> QED BY <2>1, JobNumbers DEF IsOfType
<1> QED BY <1>2, <1>3, <1>4, <1>5 DEF get_assertions

\* A complete build satisfies all constraints, cyclic ones included, if the
\* expiry is within the range check.
LEMMA ConstraintsHold ==
  ASSUME NEW tr, NEW w, NEW d, CompleteBuild(tr, w, d),
         DiffOf(w) < PowerOfTwo(RANGE_BITS)
  PROVE  /\ eval_all_constraints(tr, PubOf(w, d))
         /\ Satisfies(tr, PubOf(w, d))
<1> DEFINE pi == PubOf(w, d)
<1>1. ASSUME NEW r \in Rows
      PROVE  evaluate_transition(tr[r], tr[(r + 1) % TRACE_LENGTH], r % ROUNDS, pi)
  <2>1. PICK j \in Jobs, k \in 0 .. ROUNDS - 1 : r = j * ROUNDS + k
    BY Layout
  <2>2. r % ROUNDS = k
    BY <2>1, Layout
  <2>3. /\ tr[r] = RowOf(w, d, j, k)
        /\ IsOfType(RowOf(w, d, j, k), job_type_column(j))
        /\ \A i \in 0 .. RANGE_BITS - 1 : RowOf(w, d, j, k).bit[i] \in {0, 1}
    BY <2>1, CompleteRows
  <2>4. RangeBitsBinary(tr[r])
    BY <2>3, Tags, BinaryIsBit DEF RangeBitsBinary, Binary
  <2>5. k = 0 => TypeOneHot(tr[r]) /\ MerkleBitBinary(tr[r]) /\ RangeSum(tr[r], pi)
    <3> SUFFICES ASSUME k = 0
                 PROVE  TypeOneHot(tr[r]) /\ MerkleBitBinary(tr[r]) /\ RangeSum(tr[r], pi)
      OBVIOUS
    <3>1. TypeOneHot(tr[r])
      BY <2>3, JobNumbers, TypesAreOneHot
    <3>2. w \in Witnesses
      BY DEF CompleteBuild
    <3>3. MerkleBitBinary(tr[r])
      BY <2>3, <3>2, DirectionsAreBits
    <3>4. RangeSum(tr[r], pi)
      BY <2>3, RangeSumOf
    <3> QED BY <3>1, <3>3, <3>4
  <2> QED BY <2>2, <2>4, <2>5, LanesAreRight DEF evaluate_transition
<1>2. eval_all_constraints(tr, pi)
  BY <1>1 DEF eval_all_constraints
<1>3. ASSUME NEW r \in 0 .. TRACE_LENGTH - 2
      PROVE  evaluate_transition(tr[r], tr[r + 1], r % ROUNDS, pi)
  <2>1. r \in Rows /\ r + 1 \in 0 .. TRACE_LENGTH - 1
    BY Layout DEF Rows
  <2>2. \A x \in 0 .. TRACE_LENGTH - 1 : x % TRACE_LENGTH = x
    BY Layout
  <2> QED BY <1>1, <2>1, <2>2
<1>4. DOMAIN tr = Rows
  BY CompleteRows
<1> QED BY <1>2, <1>3, <1>4, AssertionsHold DEF Satisfies

\* And only then.
LEMMA RangeExceeded ==
  ASSUME NEW tr, NEW w, NEW d, CompleteBuild(tr, w, d), Satisfies(tr, PubOf(w, d))
  PROVE  DiffOf(w) < PowerOfTwo(RANGE_BITS)
<1>1. evaluate_transition(tr[JOB_LEAF * ROUNDS + 0], tr[JOB_LEAF * ROUNDS + 0 + 1], 0, PubOf(w, d))
  <2>1. 0 \in 0 .. ROUNDS - 1 /\ 0 < ROUNDS - 1 /\ JOB_LEAF \in Jobs
    BY JobNumbers, Numbers
  <2> QED BY <2>1, StepAt
<1>2. RangeSum(tr[JOB_LEAF * ROUNDS + 0], PubOf(w, d))
  BY <1>1 DEF evaluate_transition
<1>3. tr[JOB_LEAF * ROUNDS + 0] = RowOf(w, d, JOB_LEAF, 0)
  BY CompleteRows, JobNumbers, JobEnds
<1> QED BY <1>2, <1>3, RangeSumOf, JobNumbers

-----------------------------------------------------------------------------
(* Alterations *)

Groups == {"s", "aux", "held", "t", "bit"}

\* The columns of a group.
ColumnsOf(g) ==
  CASE g = "s" -> Lanes
    [] g = "aux" -> {"a", "b", "c", "d"}
    [] g = "held" -> {"secret", "pid"}
    [] g = "t" -> JobTypes
    [] g = "bit" -> 0 .. RANGE_BITS - 1

\* A column's cell, a row's and a trace's altered.
Put(f, c, v) == [f EXCEPT ![c] = v]
PutIn(x, g, c, v) == [x EXCEPT ![g][c] = v]
PutAt(t, r, g, c, v) == [t EXCEPT ![r][g][c] = v]

LEMMA PutCell ==
  \A S, V : \A f \in [S -> V] : \A c \in S : \A v :
    Put(f, c, v)[c] = v /\ \A i \in S : i # c => Put(f, c, v)[i] = f[i]
BY DEF Put

LEMMA PutThere == \A f, v : \A c \in DOMAIN f : Put(f, c, v)[c] = v
BY DEF Put

\* A row with one cell altered.
LEMMA AlteredRow ==
  ASSUME NEW x \in Row, NEW g \in Groups, NEW c \in ColumnsOf(g), NEW v \in FieldElements
  PROVE  LET y == PutIn(x, g, c, v) IN
         /\ y \in Row
         /\ y.s    = IF g = "s"    THEN Put(x.s, c, v)    ELSE x.s
         /\ y.aux  = IF g = "aux"  THEN Put(x.aux, c, v)  ELSE x.aux
         /\ y.held = IF g = "held" THEN Put(x.held, c, v) ELSE x.held
         /\ y.t    = IF g = "t"    THEN Put(x.t, c, v)    ELSE x.t
         /\ y.bit  = IF g = "bit"  THEN Put(x.bit, c, v)  ELSE x.bit
<1> DEFINE y == PutIn(x, g, c, v)
<1>1. DOMAIN x = Groups /\ x = [s |-> x.s, aux |-> x.aux, held |-> x.held, t |-> x.t, bit |-> x.bit]
  BY DEF Row, Groups
<1>2. /\ x.s \in [Lanes -> FieldElements]
      /\ x.aux \in [{"a", "b", "c", "d"} -> FieldElements]
      /\ x.held \in [{"secret", "pid"} -> FieldElements]
      /\ x.t \in [JobTypes -> FieldElements]
      /\ x.bit \in [0 .. RANGE_BITS - 1 -> FieldElements]
  BY DEF Row
<1>3. y = [h \in Groups |-> IF h = g THEN Put(x[g], c, v) ELSE x[h]]
  BY <1>1 DEF Put, PutIn
<1>4. /\ y.s    = IF g = "s"    THEN Put(x.s, c, v)    ELSE x.s
      /\ y.aux  = IF g = "aux"  THEN Put(x.aux, c, v)  ELSE x.aux
      /\ y.held = IF g = "held" THEN Put(x.held, c, v) ELSE x.held
      /\ y.t    = IF g = "t"    THEN Put(x.t, c, v)    ELSE x.t
      /\ y.bit  = IF g = "bit"  THEN Put(x.bit, c, v)  ELSE x.bit
  BY <1>3 DEF Groups
<1>5. y = [s |-> y.s, aux |-> y.aux, held |-> y.held, t |-> y.t, bit |-> y.bit]
  BY <1>3 DEF Groups
<1>6. /\ y.s \in [Lanes -> FieldElements]
      /\ y.aux \in [{"a", "b", "c", "d"} -> FieldElements]
      /\ y.held \in [{"secret", "pid"} -> FieldElements]
      /\ y.t \in [JobTypes -> FieldElements]
      /\ y.bit \in [0 .. RANGE_BITS - 1 -> FieldElements]
  <2> HIDE DEF y
  <2>1. \A S : \A f \in [S -> FieldElements] :
          Put(f, c, v) \in [S -> FieldElements]
    BY DEF Put
  <2>2. y.s \in [Lanes -> FieldElements]
    BY <1>2, <1>4, <2>1
  <2>3. y.aux \in [{"a", "b", "c", "d"} -> FieldElements]
    BY <1>2, <1>4, <2>1
  <2>4. y.held \in [{"secret", "pid"} -> FieldElements]
    BY <1>2, <1>4, <2>1
  <2>5. y.t \in [JobTypes -> FieldElements]
    BY <1>2, <1>4, <2>1
  <2>6. y.bit \in [0 .. RANGE_BITS - 1 -> FieldElements]
    <3> DEFINE B == 0 .. RANGE_BITS - 1
    <3>1. x.bit \in [B -> FieldElements]
      BY <1>2
    <3>2. y.bit = IF g = "bit" THEN Put(x.bit, c, v) ELSE x.bit
      BY <1>4
    <3> HIDE DEF B
    <3>3. Put(x.bit, c, v) \in [B -> FieldElements]
      BY <2>1, <3>1
    <3> QED BY <3>1, <3>2, <3>3 DEF B
  <2> QED BY <2>2, <2>3, <2>4, <2>5, <2>6
<1> HIDE DEF y
<1>7. y \in Row
  BY <1>5, <1>6 DEF Row
<1> QED BY <1>4, <1>7 DEF y

\* A trace with one cell altered.
LEMMA AlteredTrace ==
  \A t, g, c, v : \A r \in DOMAIN t :
    LET tr == PutAt(t, r, g, c, v) IN
    /\ DOMAIN tr = DOMAIN t /\ tr = [q \in DOMAIN t |-> tr[q]]
    /\ tr[r] = PutIn(t[r], g, c, v)
    /\ \A q \in DOMAIN t : q # r => tr[q] = t[q]
BY DEF PutIn, PutAt

\* One more is another field element.
LEMMA OneMore ==
  ASSUME NEW x \in FieldElements
  PROVE  F(x + 1) \in FieldElements /\ F(x + 1) # x
<1>1. x \in Int /\ x + 1 \in Int
  BY FieldIsInt
<1>2. F(x + 1) \in FieldElements
  BY <1>1, Reduced
<1>3. F(x + 1) # x
  <2> SUFFICES ASSUME F(x + 1) = x PROVE FALSE
    OBVIOUS
  <2>1. F(x + 1) = F(x)
    BY FieldIsInt
  <2>2. (x + 1) - x < Modulus /\ x - (x + 1) < Modulus
    BY <1>1, Numbers
  <2>3. x + 1 = x
    BY <1>1, <2>1, <2>2, Near
  <2> QED BY <1>1, <2>3
<1> QED BY <1>2, <1>3

\* Sums with different last terms differ.
LEMMA SumsDiffer ==
  ASSUME NEW a \in Int, NEW x \in FieldElements, NEW y \in FieldElements, x # y
  PROVE  F(a + x) # F(a + y)
<1>1. x \in Int /\ y \in Int /\ 0 <= x /\ x < Modulus /\ 0 <= y /\ y < Modulus
  BY Numbers DEF FieldElements
<1>2. /\ a + x \in Int /\ a + y \in Int
      /\ (a + x) - (a + y) < Modulus /\ (a + y) - (a + x) < Modulus
  BY <1>1, Numbers
<1>3. a + x # a + y
  BY <1>1
<1> QED BY <1>2, <1>3, Near

\* A round tells states apart that differ in one lane.
LEMMA RoundTells ==
  ASSUME NEW x \in States, NEW rc \in States, NEW c \in Lanes, NEW v \in FieldElements,
         v # x[c]
  PROVE  apply_round(Put(x, c, v), rc) # apply_round(x, rc)
<1> DEFINE y == Put(x, c, v)
           p == [i \in Lanes |-> cube(F(x[i] + rc[i]))]
           q == [i \in Lanes |-> cube(F(y[i] + rc[i]))]
           e == (c + 1) % STATE_WIDTH
<1>1. apply_round(x, rc) = mix(p) /\ apply_round(y, rc) = mix(q)
  BY DEF apply_round, sbox
<1>2. \A i \in Lanes : x[i] \in FieldElements /\ rc[i] \in FieldElements
  BY DEF States
<1>3. y[c] = v /\ \A i \in Lanes : i # c => y[i] = x[i]
  BY DEF States, Put
<1>4. ASSUME NEW i \in Lanes
      PROVE  cube(F(x[i] + rc[i])) \in FieldElements /\ F(x[i] + rc[i]) \in FieldElements
  <2>1. x[i] \in Int /\ rc[i] \in Int /\ x[i] + rc[i] \in Int
    <3>1. x[i] \in Int /\ rc[i] \in Int
      BY <1>2, FieldIsInt
    <3> QED BY <3>1
  <2>2. F(x[i] + rc[i]) \in FieldElements /\ F(x[i] + rc[i]) \in Int
    BY <2>1, Reduced
  <2>3. F(x[i] + rc[i]) * F(x[i] + rc[i]) * F(x[i] + rc[i]) \in Int
    BY <2>2
  <2> QED BY <2>2, <2>3, Reduced DEF cube
<1>5. \A i \in Lanes : i # c => q[i] = p[i]
  BY <1>3
<1>6. q[c] \in FieldElements /\ q[c] # p[c]
  <2>1. rc[c] \in Int /\ v \in Int /\ x[c] \in Int
    BY <1>2, FieldIsInt
  <2>2. F(rc[c] + v) # F(rc[c] + x[c])
    BY <1>2, <2>1, SumsDiffer
  <2>3. rc[c] + v = v + rc[c] /\ rc[c] + x[c] = x[c] + rc[c] /\ v + rc[c] \in Int
    BY <2>1
  <2>4. F(v + rc[c]) # F(x[c] + rc[c])
    BY <2>2, <2>3
  <2>5. F(v + rc[c]) \in FieldElements /\ F(v + rc[c]) \in Int
    BY <2>3, Reduced
  <2>6. cube(F(v + rc[c])) # cube(F(x[c] + rc[c]))
    BY <1>4, <2>4, <2>5, ProverAssumption
  <2>7. cube(F(v + rc[c])) \in FieldElements
    <3>1. F(v + rc[c]) * F(v + rc[c]) * F(v + rc[c]) \in Int
      BY <2>5
    <3> QED BY <3>1, Reduced DEF cube
  <2>8. q[c] = cube(F(v + rc[c])) /\ p[c] = cube(F(x[c] + rc[c]))
    BY <1>3
  <2> QED BY <2>6, <2>7, <2>8
<1>7. \A i \in Lanes : p[i] \in FieldElements
  BY <1>4
<1>8. e \in Lanes /\ e # c /\ (e + 1) % STATE_WIDTH \in Lanes /\ (e + 1) % STATE_WIDTH # c
  BY LaneNumbers
<1> HIDE DEF y, p, q, e
<1>9. mix(p)[e] # mix(q)[e]
  <2> DEFINE n == (e + 1) % STATE_WIDTH
             Sum(s) == s[0] + s[1] + s[2] + s[3] + s[4] + s[5] + s[6] + s[7]
  <2>1. /\ mix(p)[e] = F(Sum(p) + p[e] + 2 * p[n])
        /\ mix(q)[e] = F(Sum(q) + q[e] + 2 * q[n])
    BY <1>8 DEF mix
  <2>2. q[e] = p[e] /\ q[n] = p[n]
    BY <1>5, <1>8
  <2>3. \A i \in Lanes : p[i] \in Int /\ q[i] \in Int
    BY <1>5, <1>6, <1>7, FieldIsInt
  <2>4. /\ p[0] \in Int /\ p[1] \in Int /\ p[2] \in Int /\ p[3] \in Int
        /\ p[4] \in Int /\ p[5] \in Int /\ p[6] \in Int /\ p[7] \in Int
        /\ q[0] \in Int /\ q[1] \in Int /\ q[2] \in Int /\ q[3] \in Int
        /\ q[4] \in Int /\ q[5] \in Int /\ q[6] \in Int /\ q[7] \in Int
    BY <2>3, LaneNumbers
  <2>5. p[c] \in FieldElements /\ p[c] \in Int /\ q[c] \in Int /\ p[e] \in Int /\ p[n] \in Int
    BY <1>7, <1>8, <2>3
  <2>6. /\ Sum(p) \in Int /\ Sum(q) \in Int /\ Sum(q) - q[c] = Sum(p) - p[c]
    <3>1. \A i \in Lanes : q[i] = IF i = c THEN q[c] ELSE p[i]
      BY <1>5
    <3>2. /\ q[0] = (IF 0 = c THEN q[c] ELSE p[0]) /\ q[1] = (IF 1 = c THEN q[c] ELSE p[1])
          /\ q[2] = (IF 2 = c THEN q[c] ELSE p[2]) /\ q[3] = (IF 3 = c THEN q[c] ELSE p[3])
          /\ q[4] = (IF 4 = c THEN q[c] ELSE p[4]) /\ q[5] = (IF 5 = c THEN q[c] ELSE p[5])
          /\ q[6] = (IF 6 = c THEN q[c] ELSE p[6]) /\ q[7] = (IF 7 = c THEN q[c] ELSE p[7])
      BY <3>1, LaneNumbers
    <3>3. c \in {0, 1, 2, 3, 4, 5, 6, 7}
      BY LaneNumbers
    <3> QED BY <2>4, <3>2, <3>3
  <2> DEFINE a == Sum(p) - p[c] + p[e] + 2 * p[n]
  <2> HIDE DEF Sum, n
  <2>7. /\ a \in Int
        /\ Sum(p) + p[e] + 2 * p[n] = a + p[c]
        /\ Sum(q) + p[e] + 2 * p[n] = a + q[c]
    BY <2>5, <2>6
  <2> HIDE DEF a
  <2>8. F(a + p[c]) # F(a + q[c])
    BY <1>6, <2>5, <2>7, SumsDiffer
  <2> QED BY <2>1, <2>2, <2>7, <2>8
<1> QED BY <1>1, <1>9 DEF y

\* The numbers two rows' bits spell.
LEMMA SameBits ==
  ASSUME NEW x, NEW y, \A i \in 0 .. RANGE_BITS - 1 : y.bit[i] = x.bit[i]
  PROVE  Weighted(y) = Weighted(x)
<1> DEFINE S == {n \in 0..RANGE_BITS : SumRec!At(y, n) = SumRec!At(x, n)}
<1>1. 0 \in S
  BY WeightedSum, Numbers
<1>2. ASSUME NEW n \in 0 .. RANGE_BITS - 1, n \in S PROVE n + 1 \in S
  <2>1. n \in Nat /\ n + 1 \in 0..RANGE_BITS /\ y.bit[n] = x.bit[n]
    BY Numbers
  <2>2. /\ SumRec!At(y, n + 1) = SumRec!At(y, n) + y.bit[n] * PowerOfTwo(n)
        /\ SumRec!At(x, n + 1) = SumRec!At(x, n) + x.bit[n] * PowerOfTwo(n)
    BY <2>1, WeightedSum
  <2> QED BY <1>2, <2>1, <2>2
<1> HIDE DEF S
<1>3. 0..RANGE_BITS \subseteq S
  BY <1>1, <1>2, SumRec!UpTo, Numbers
<1>4. RANGE_BITS \in S
  BY <1>3, Numbers
<1> QED BY <1>4, WeightedSum DEF S

\* One bit more is another number.
LEMMA OtherBit ==
  ASSUME NEW x, NEW y, NEW c \in 0 .. RANGE_BITS - 1,
         \A i \in 0 .. RANGE_BITS - 1 : x.bit[i] \in {0, 1},
         \A i \in 0 .. RANGE_BITS - 1 : i # c => y.bit[i] = x.bit[i],
         x.bit[c] = 0, y.bit[c] = 1
  PROVE  Weighted(y) # Weighted(x)
<1> DEFINE A(n) == SumRec!At(x, n) B(n) == SumRec!At(y, n)
           S == {n \in 0..RANGE_BITS : /\ A(n) \in Int
                                       /\ B(n) = IF n <= c THEN A(n) ELSE A(n) + PowerOfTwo(c)}
<1>1. 0 \in S
  BY WeightedSum, Numbers
<1>2. ASSUME NEW n \in 0 .. RANGE_BITS - 1, n \in S PROVE n + 1 \in S
  <2>1. n \in Nat /\ n + 1 \in 0..RANGE_BITS /\ c \in Nat /\ x.bit[n] \in {0, 1}
    BY Numbers
  <2>2. /\ B(n + 1) = B(n) + y.bit[n] * PowerOfTwo(n)
        /\ A(n + 1) = A(n) + x.bit[n] * PowerOfTwo(n)
        /\ PowerOfTwo(n) \in Nat /\ PowerOfTwo(c) \in Nat
    BY <2>1, WeightedSum, Powers
  <2>3. A(n) \in Int /\ B(n) = IF n <= c THEN A(n) ELSE A(n) + PowerOfTwo(c)
    BY <1>2
  <2> HIDE DEF A, B
  <2>4. CASE n = c
    <3>1. n <= c /\ ~(n + 1 <= c) /\ x.bit[n] = 0 /\ y.bit[n] = 1
      BY <2>1, <2>4
    <3>2. 0 * PowerOfTwo(n) = 0 /\ 1 * PowerOfTwo(n) = PowerOfTwo(n)
      BY <2>2
    <3>3. A(n + 1) = A(n) /\ B(n + 1) = A(n) + PowerOfTwo(c)
      BY <2>2, <2>3, <2>4, <3>1, <3>2
    <3> QED BY <2>1, <2>3, <3>1, <3>3
  <2>5. CASE n # c
    <3>1. (n + 1 <= c <=> n <= c) /\ y.bit[n] = x.bit[n]
      BY <2>1, <2>5
    <3> DEFINE z == x.bit[n] * PowerOfTwo(n)
    <3>2. z \in Int
      BY <2>1, <2>2
    <3>3. A(n + 1) = A(n) + z /\ B(n + 1) = B(n) + z
      BY <2>2, <3>1
    <3> HIDE DEF z
    <3>4. /\ A(n + 1) \in Int
          /\ B(n + 1) = IF n <= c THEN A(n + 1) ELSE A(n + 1) + PowerOfTwo(c)
      BY <2>2, <2>3, <3>2, <3>3
    <3> QED BY <2>1, <3>1, <3>4
  <2> QED BY <2>4, <2>5
<1> HIDE DEF S
<1>3. 0..RANGE_BITS \subseteq S
  BY <1>1, <1>2, SumRec!UpTo, Numbers
<1>4. RANGE_BITS \in S /\ ~(RANGE_BITS <= c)
  BY <1>3, Numbers
<1>5. A(RANGE_BITS) \in Int /\ B(RANGE_BITS) = A(RANGE_BITS) + PowerOfTwo(c)
  BY <1>4 DEF S
<1>6. PowerOfTwo(c) \in Nat /\ PowerOfTwo(c) >= 1
  BY Powers
<1> HIDE DEF A, B
<1>7. B(RANGE_BITS) # A(RANGE_BITS)
  BY <1>5, <1>6
<1> QED BY <1>7, WeightedSum DEF A, B

-----------------------------------------------------------------------------
(* What the circuit notices *)

\* tr is the complete build t with one cell altered.
Alters(tr, t, w, d, r, g, c, v) ==
  /\ CompleteBuild(t, w, d) /\ DiffOf(w) < PowerOfTwo(RANGE_BITS)
  /\ r \in Rows /\ g \in Groups /\ c \in ColumnsOf(g)
  /\ v \in FieldElements /\ v # t[r][g][c]
  /\ tr = PutAt(t, r, g, c, v)

LEMMA AlteredBuild ==
  \A tr, t, w, d, r, g, c, v : Alters(tr, t, w, d, r, g, c, v) =>
    /\ tr \in [Rows -> Row] /\ r \in Rows /\ t[r] \in Row
    /\ c \in ColumnsOf(g) /\ v \in FieldElements /\ v # t[r][g][c]
    /\ \A q \in Rows : q # r => tr[q] = t[q]
    /\ tr[r].s    = IF g = "s"    THEN Put(t[r].s, c, v)    ELSE t[r].s
    /\ tr[r].aux  = IF g = "aux"  THEN Put(t[r].aux, c, v)  ELSE t[r].aux
    /\ tr[r].held = IF g = "held" THEN Put(t[r].held, c, v) ELSE t[r].held
    /\ tr[r].t    = IF g = "t"    THEN Put(t[r].t, c, v)    ELSE t[r].t
    /\ tr[r].bit  = IF g = "bit"  THEN Put(t[r].bit, c, v)  ELSE t[r].bit
<1> SUFFICES ASSUME NEW tr, NEW t, NEW w, NEW d, NEW r, NEW g, NEW c, NEW v,
                    Alters(tr, t, w, d, r, g, c, v)
             PROVE  /\ tr \in [Rows -> Row] /\ r \in Rows /\ t[r] \in Row
                    /\ c \in ColumnsOf(g) /\ v \in FieldElements /\ v # t[r][g][c]
                    /\ \A q \in Rows : q # r => tr[q] = t[q]
                    /\ tr[r].s    = IF g = "s"    THEN Put(t[r].s, c, v)    ELSE t[r].s
                    /\ tr[r].aux  = IF g = "aux"  THEN Put(t[r].aux, c, v)  ELSE t[r].aux
                    /\ tr[r].held = IF g = "held" THEN Put(t[r].held, c, v) ELSE t[r].held
                    /\ tr[r].t    = IF g = "t"    THEN Put(t[r].t, c, v)    ELSE t[r].t
                    /\ tr[r].bit  = IF g = "bit"  THEN Put(t[r].bit, c, v)  ELSE t[r].bit
  OBVIOUS
<1> DEFINE x == t[r] y == PutIn(t[r], g, c, v)
<1>1. /\ r \in Rows /\ g \in Groups /\ c \in ColumnsOf(g) /\ v \in FieldElements
      /\ v # t[r][g][c]
      /\ tr = PutAt(t, r, g, c, v) /\ CompleteBuild(t, w, d)
  BY DEF Alters
<1>2. DOMAIN t = Rows
  BY <1>1, CompleteRows
<1>3. \A q \in Rows : t[q] \in Row
  <2> SUFFICES ASSUME NEW q \in Rows PROVE t[q] \in Row
    OBVIOUS
  <2>1. PICK j \in Jobs, k \in 0 .. ROUNDS - 1 : q = j * ROUNDS + k
    BY Layout
  <2> QED BY <1>1, <2>1, CompleteRows
<1>4. /\ DOMAIN tr = Rows
      /\ tr[r] = y
      /\ \A q \in Rows : q # r => tr[q] = t[q]
  BY <1>1, <1>2, AlteredTrace
<1>5. tr = [q \in Rows |-> tr[q]]
  BY <1>1, <1>2, AlteredTrace
<1>6. x \in Row
  BY <1>1, <1>3
<1>7. /\ y \in Row
      /\ y.s    = IF g = "s"    THEN Put(x.s, c, v)    ELSE x.s
      /\ y.aux  = IF g = "aux"  THEN Put(x.aux, c, v)  ELSE x.aux
      /\ y.held = IF g = "held" THEN Put(x.held, c, v) ELSE x.held
      /\ y.t    = IF g = "t"    THEN Put(x.t, c, v)    ELSE x.t
      /\ y.bit  = IF g = "bit"  THEN Put(x.bit, c, v)  ELSE x.bit
  BY <1>1, <1>6, AlteredRow
<1> HIDE DEF y
<1>8. tr \in [Rows -> Row]
  <2>1. \A q \in Rows : tr[q] \in Row
    BY <1>3, <1>4, <1>7
  <2> QED BY <1>5, <2>1
<1> QED BY <1>1, <1>4, <1>6, <1>7, <1>8

\* The constraints between two rows of an altered and of the complete build.
LEMMA BothStep ==
  \A tr, t, w, d, r, g, c, v :
    Alters(tr, t, w, d, r, g, c, v) /\ Satisfies(tr, PubOf(w, d)) =>
      \A q \in 0 .. TRACE_LENGTH - 2 :
        /\ evaluate_transition(tr[q], tr[q + 1], q % ROUNDS, PubOf(w, d))
        /\ evaluate_transition(t[q], t[q + 1], q % ROUNDS, PubOf(w, d))
<1> SUFFICES ASSUME NEW tr, NEW t, NEW w, NEW d, NEW r, NEW g, NEW c, NEW v,
                    Alters(tr, t, w, d, r, g, c, v), Satisfies(tr, PubOf(w, d)),
                    NEW q \in 0 .. TRACE_LENGTH - 2
             PROVE  /\ evaluate_transition(tr[q], tr[q + 1], q % ROUNDS, PubOf(w, d))
                    /\ evaluate_transition(t[q], t[q + 1], q % ROUNDS, PubOf(w, d))
  OBVIOUS
<1>1. Satisfies(t, PubOf(w, d))
  BY ConstraintsHold DEF Alters
<1> QED BY <1>1 DEF Satisfies

\* A lane: the row before determines it, and of the first row the row after.
LEMMA LaneNoticed ==
  ASSUME NEW tr, NEW t, NEW w, NEW d, NEW r, NEW c, NEW v,
         Alters(tr, t, w, d, r, "s", c, v), Satisfies(tr, PubOf(w, d))
  PROVE  FALSE
<1>1. /\ r \in Rows /\ t[r] \in Row /\ \A q \in Rows : q # r => tr[q] = t[q]
      /\ tr[r].s = Put(t[r].s, c, v)
      /\ tr[r].aux = t[r].aux /\ tr[r].t = t[r].t
  BY AlteredBuild
<1>2. c \in Lanes /\ v \in FieldElements /\ v # t[r].s[c]
  BY DEF Alters, ColumnsOf
<1>3. t[r].s \in States
  BY <1>1, RowParts
<1>4. tr[r].s # t[r].s
  <2>1. tr[r].s[c] = v
    BY <1>1, <1>2, <1>3, PutCell DEF States
  <2> QED BY <1>2, <2>1
<1>5. CASE r # 0
  <2> DEFINE q == r - 1
  <2>1. q \in 0 .. TRACE_LENGTH - 2 /\ q \in Rows /\ q # r /\ q + 1 = r
    BY <1>1, <1>5, Layout DEF Rows
  <2> HIDE DEF q
  <2>2. /\ LanesFollow(tr[q], tr[q + 1], q % ROUNDS)
        /\ LanesFollow(t[q], t[q + 1], q % ROUNDS)
    BY <2>1, BothStep DEF evaluate_transition
  <2>3. tr[q] = t[q]
    BY <1>1, <2>1
  <2>4. Boundary(t[q], tr[r]) = Boundary(t[q], t[r])
    BY <1>1 DEF Boundary
  <2>5. tr[r].s = t[r].s
    BY <2>1, <2>2, <2>3, <2>4 DEF LanesFollow
  <2> QED BY <1>4, <2>5
<1>6. CASE r = 0
  <2>1. /\ 0 \in 0 .. TRACE_LENGTH - 2 /\ 0 + 1 = 1 /\ 1 \in Rows /\ 0 % ROUNDS = 0
        /\ 0 # ROUNDS - 1
    BY Layout, Numbers DEF Rows
  <2>2. LanesFollow(tr[0], tr[1], 0) /\ LanesFollow(t[0], t[1], 0)
    BY <2>1, BothStep DEF evaluate_transition
  <2>3. tr[1] = t[1]
    BY <1>1, <1>6, <2>1
  <2>4. apply_round(tr[0].s, RoundConstants[0]) = apply_round(t[0].s, RoundConstants[0])
    BY <2>1, <2>2, <2>3 DEF LanesFollow
  <2>5. RoundConstants[0] \in States
    BY Numbers, AirAssumption DEF States
  <2> QED BY <1>1, <1>2, <1>3, <1>6, <2>4, <2>5, RoundTells
<1> QED BY <1>5, <1>6

\* The secret and the property id: the next row holds the same.
LEMMA HeldNoticed ==
  ASSUME NEW tr, NEW t, NEW w, NEW d, NEW j \in Jobs, NEW c, NEW v,
         Alters(tr, t, w, d, job_start_row(j), "held", c, v), Satisfies(tr, PubOf(w, d))
  PROVE  FALSE
<1> DEFINE r == job_start_row(j)
<1>1. /\ t[r] \in Row /\ \A q \in Rows : q # r => tr[q] = t[q]
      /\ tr[r].held = Put(t[r].held, c, v)
  BY AlteredBuild
<1>2. c \in {"secret", "pid"} /\ v # t[r].held[c]
  BY DEF Alters, ColumnsOf
<1>3. r \in 0 .. TRACE_LENGTH - 2 /\ r + 1 \in Rows /\ r + 1 # r
  <2>1. /\ j * ROUNDS \in Nat /\ j * ROUNDS + ROUNDS <= TRACE_LENGTH
        /\ TRACE_LENGTH \in Nat /\ ROUNDS \in Nat /\ ROUNDS >= 2
    BY Layout, Numbers
  <2>2. r = j * ROUNDS
    BY DEF job_start_row
  <2> HIDE DEF r
  <2> QED BY <2>1, <2>2 DEF Rows
<1> HIDE DEF r
<1>4. tr[r + 1].held = tr[r].held /\ t[r + 1].held = t[r].held
  BY <1>3, BothStep DEF evaluate_transition, HeldCopied, r
<1>5. tr[r].held = t[r].held
  BY <1>1, <1>3, <1>4
<1>6. t[r].held \in [{"secret", "pid"} -> FieldElements]
  BY <1>1 DEF Row
<1>7. tr[r].held[c] = v
  BY <1>1, <1>2, <1>6, PutCell
<1> QED BY <1>2, <1>5, <1>7

\* A type column: the assertion and the one-hot constraint leave one choice.
LEMMA TypeNoticed ==
  ASSUME NEW tr, NEW t, NEW w, NEW d, NEW j \in Jobs, NEW c, NEW v,
         Alters(tr, t, w, d, job_start_row(j), "t", c, v), Satisfies(tr, PubOf(w, d))
  PROVE  FALSE
<1> DEFINE r == job_start_row(j)
<1>1. tr \in [Rows -> Row] /\ t[r] \in Row /\ tr[r].t = Put(t[r].t, c, v)
  BY AlteredBuild
<1>2. c \in JobTypes /\ v # t[r].t[c]
  BY DEF Alters, ColumnsOf
<1>3. IsOfType(tr[r], job_type_column(j))
  BY <1>1, FirstRow
<1>4. IsOfType(t[r], job_type_column(j))
  BY CompleteRows, JobEnds DEF Alters
<1>5. tr[r].t[c] = t[r].t[c]
  BY <1>2, <1>3, <1>4 DEF IsOfType
<1>6. t[r].t \in [JobTypes -> FieldElements]
  BY <1>1 DEF Row
<1> HIDE DEF r
<1>7. tr[r].t[c] = v
  <2>1. Put(t[r].t, c, v)[c] = v
    BY <1>2, <1>6, PutCell
  <2> QED BY <1>1, <2>1
<1> QED BY <1>2, <1>5, <1>7

\* An asserted cell.
LEMMA AssertedNoticed ==
  ASSUME NEW tr, NEW t, NEW w, NEW d, NEW r, NEW c, NEW v,
         Alters(tr, t, w, d, r, "aux", c, v), Satisfies(tr, PubOf(w, d)),
         \/ r = job_start_row(JOB_LEAF) /\ c \in {"a", "b", "c"}
         \/ r = job_start_row(JOB_NULLIFIER) /\ c \in {"a", "b"}
  PROVE  FALSE
<1>1. t[r] \in Row /\ tr[r].aux = Put(t[r].aux, c, v)
  BY AlteredBuild
<1>2. c \in {"a", "b", "c", "d"} /\ v # t[r].aux[c]
  BY DEF Alters, ColumnsOf
<1>3. Satisfies(t, PubOf(w, d))
  BY ConstraintsHold DEF Alters
<1>4. tr[r].aux[c] = t[r].aux[c]
  <2>1. CASE r = job_start_row(JOB_LEAF) /\ c \in {"a", "b", "c"}
    <3>1. LeafAsserted(tr[r], PubOf(w, d)) /\ LeafAsserted(t[r], PubOf(w, d))
      BY <1>3, <2>1 DEF Satisfies, get_assertions
    <3> QED BY <2>1, <3>1 DEF LeafAsserted
  <2>2. CASE r = job_start_row(JOB_NULLIFIER) /\ c \in {"a", "b"}
    <3>1. NullifierAsserted(tr[r], PubOf(w, d)) /\ NullifierAsserted(t[r], PubOf(w, d))
      BY <1>3, <2>2 DEF Satisfies, get_assertions
    <3> QED BY <2>2, <3>1 DEF NullifierAsserted
  <2> QED BY <2>1, <2>2
<1>5. t[r].aux \in [{"a", "b", "c", "d"} -> FieldElements]
  BY <1>1 DEF Row
<1>6. tr[r].aux[c] = v
  BY <1>1, <1>2, <1>5, PutCell
<1> QED BY <1>2, <1>4, <1>6

\* The direction of a Merkle step: it is no bit.
LEMMA DirectionNoticed ==
  ASSUME NEW tr, NEW t, NEW w, NEW d, NEW l \in 0 .. TREE_DEPTH - 1, NEW v,
         Alters(tr, t, w, d, job_start_row(JOB_MERKLE_FIRST + l), "aux", "b", v),
         v \notin {0, 1}, Satisfies(tr, PubOf(w, d))
  PROVE  FALSE
<1> DEFINE j == JOB_MERKLE_FIRST + l r == job_start_row(j)
<1>1. j \in Jobs /\ job_type_column(j) = "merkle"
  BY KindsExclude, JobNumbers
<1>2. tr \in [Rows -> Row] /\ t[r] \in Row /\ tr[r].aux = Put(t[r].aux, "b", v)
  BY AlteredBuild
<1>3. /\ tr[r] \in Row /\ IsOfType(tr[r], job_type_column(j)) /\ MerkleBitBinary(tr[r])
  BY <1>1, <1>2, FirstRow
<1>4. tr[r].t["merkle"] = 1
  BY <1>1, <1>3 DEF IsOfType, JobTypes
<1>5. t[r].aux \in [{"a", "b", "c", "d"} -> FieldElements]
  BY <1>2 DEF Row
<1> HIDE DEF r
<1>6. tr[r].aux["b"] = v
  BY <1>2, <1>5, PutCell
<1>7. tr[r].aux["b"] \in {0, 1}
  BY <1>3, <1>4, MerkleBit
<1> QED BY <1>6, <1>7

\* The sibling of a Merkle step: the boundary puts it into a lane.
LEMMA SiblingNoticed ==
  ASSUME NEW tr, NEW t, NEW w, NEW d, NEW l \in 0 .. TREE_DEPTH - 1, NEW v,
         Alters(tr, t, w, d, job_start_row(JOB_MERKLE_FIRST + l), "aux", "a", v),
         Satisfies(tr, PubOf(w, d))
  PROVE  FALSE
<1> DEFINE j == JOB_MERKLE_FIRST + l r == job_start_row(j)
           p == JOB_LEAF + l q == job_last_row(p)
<1>1. /\ j \in Jobs /\ job_type_column(j) = "merkle"
      /\ p \in Jobs /\ p + 1 = j
  <2>1. j \in Jobs /\ job_type_column(j) = "merkle"
    BY KindsExclude, JobNumbers
  <2>2. p + 1 = j /\ p \in Nat /\ p < j
    BY JobNumbers, Numbers
  <2>3. p \in Jobs
    BY <2>1, <2>2, Numbers DEF Jobs
  <2> QED BY <2>1, <2>2, <2>3
<1>2. /\ tr \in [Rows -> Row] /\ t[r] \in Row /\ r \in Rows
      /\ tr[r].aux = Put(t[r].aux, "a", v) /\ v # t[r].aux["a"]
      /\ tr[r].s = t[r].s /\ tr[r].t = t[r].t
      /\ \A x \in Rows : x # r => tr[x] = t[x]
  BY AlteredBuild
<1>3. q \in Rows /\ q # r
  <2>1. /\ p * ROUNDS \in Nat /\ (p + 1) * ROUNDS = p * ROUNDS + ROUNDS
        /\ ROUNDS \in Nat
    BY <1>1, Layout, Numbers
  <2>2. q = p * ROUNDS + ROUNDS - 1 /\ r = (p + 1) * ROUNDS
    BY <1>1 DEF job_last_row, job_start_row
  <2>3. q \in Rows
    BY <1>1, JobEnds
  <2> HIDE DEF p, q, r
  <2> QED BY <2>1, <2>2, <2>3
<1>4. Satisfies(t, PubOf(w, d))
  BY ConstraintsHold DEF Alters
<1>5. /\ tr[r].s = Boundary(tr[q], tr[r])
      /\ t[r].s = Boundary(t[q], t[r])
  <2>1. r = job_start_row(p + 1) /\ p + 1 \in Jobs
    BY <1>1
  <2> HIDE DEF p, r
  <2> QED BY <1>1, <1>4, <2>1, JobStart
<1>6. tr[q] = t[q] /\ tr[q] \in Row /\ tr[r] \in Row
  BY <1>2, <1>3
<1>7. IsOfType(t[r], "merkle") /\ IsOfType(tr[r], "merkle") /\ MerkleBitBinary(tr[r])
  <2>1. IsOfType(tr[r], "merkle") /\ MerkleBitBinary(tr[r])
    BY <1>1, <1>2, FirstRow
  <2> QED BY <1>2, <2>1 DEF IsOfType
<1>8. t[r].aux \in [{"a", "b", "c", "d"} -> FieldElements]
  BY <1>2 DEF Row
<1>9. tr[r].aux["a"] = v /\ tr[r].aux["b"] = t[r].aux["b"]
  <2>1. Put(t[r].aux, "a", v)["a"] = v /\ Put(t[r].aux, "a", v)["b"] = t[r].aux["b"]
    BY <1>8, PutCell
  <2> QED BY <1>2, <2>1
<1>10. tr[r].aux["b"] \in {0, 1}
  <2>1. tr[r].t["merkle"] = 1
    BY <1>7 DEF IsOfType, JobTypes
  <2> QED BY <1>6, <1>7, <2>1, MerkleBit
<1> HIDE DEF r, q, p, j
<1>11. CASE tr[r].aux["b"] = 0
  <2>1. /\ Boundary(tr[q], tr[r]) = Padded(<<DOMAIN_NODE, tr[q].s[0], tr[r].aux["a"]>>)
        /\ Boundary(t[q], t[r]) = Padded(<<DOMAIN_NODE, t[q].s[0], t[r].aux["a"]>>)
    BY <1>2, <1>6, <1>7, <1>9, <1>11, BoundaryOf
  <2>2. Boundary(tr[q], tr[r])[2] = tr[r].aux["a"] /\ Boundary(t[q], t[r])[2] = t[r].aux["a"]
    BY <2>1, PaddedLanes
  <2> QED BY <1>2, <1>5, <1>9, <2>2
<1>12. CASE tr[r].aux["b"] = 1
  <2>1. /\ Boundary(tr[q], tr[r]) = Padded(<<DOMAIN_NODE, tr[r].aux["a"], tr[q].s[0]>>)
        /\ Boundary(t[q], t[r]) = Padded(<<DOMAIN_NODE, t[r].aux["a"], t[q].s[0]>>)
    BY <1>2, <1>6, <1>7, <1>9, <1>12, BoundaryOf
  <2>2. Boundary(tr[q], tr[r])[1] = tr[r].aux["a"] /\ Boundary(t[q], t[r])[1] = t[r].aux["a"]
    BY <2>1, PaddedLanes
  <2> QED BY <1>2, <1>5, <1>9, <2>2
<1> QED BY <1>10, <1>11, <1>12

\* The leaf row of the complete build and of the altered trace.
LEMMA LeafRows ==
  ASSUME NEW tr, NEW t, NEW w, NEW d, NEW g, NEW c, NEW v, g # "t",
         Alters(tr, t, w, d, job_start_row(JOB_LEAF), g, c, v), Satisfies(tr, PubOf(w, d))
  PROVE  LET x == t[job_start_row(JOB_LEAF)] y == tr[job_start_row(JOB_LEAF)] IN
         /\ x \in Row /\ y \in Row
         /\ \A i \in 0 .. RANGE_BITS - 1 : x.bit[i] \in {0, 1} /\ y.bit[i] \in {0, 1}
         /\ Weighted(x) \in 0 .. PowerOfTwo(RANGE_BITS) - 1
         /\ Weighted(y) \in 0 .. PowerOfTwo(RANGE_BITS) - 1
         /\ F(Weighted(x) - (x.aux["d"] - PubOf(w, d).current_timestamp - 1)) = 0
         /\ F(Weighted(y) - (y.aux["d"] - PubOf(w, d).current_timestamp - 1)) = 0
         /\ PubOf(w, d).current_timestamp \in Int
<1> DEFINE r == job_start_row(JOB_LEAF) x == t[r] y == tr[r] pi == PubOf(w, d)
<1>1. tr \in [Rows -> Row] /\ x \in Row /\ y.t = x.t
  BY AlteredBuild
<1>2. CompleteBuild(t, w, d) /\ DiffOf(w) < PowerOfTwo(RANGE_BITS)
  BY DEF Alters
<1>3. /\ y \in Row /\ IsOfType(y, job_type_column(JOB_LEAF))
      /\ RangeSum(y, pi) /\ RangeBitsBinary(y)
  BY <1>1, FirstRow, JobNumbers
<1>4. y.t["leaf"] = 1 /\ x.t["leaf"] = 1
  BY <1>1, <1>3, JobNumbers DEF IsOfType, JobTypes
<1>5. \A i \in 0 .. RANGE_BITS - 1 : y.bit[i] \in {0, 1}
  BY <1>3, RowParts, BinaryIsBit DEF RangeBitsBinary, Binary
<1>6. /\ x = RowOf(w, d, JOB_LEAF, 0)
      /\ \A i \in 0 .. RANGE_BITS - 1 : x.bit[i] \in {0, 1}
  BY <1>2, CompleteRows, JobNumbers, JobEnds
<1>7. RangeSum(x, pi)
  BY <1>2, <1>6, RangeSumOf, JobNumbers
<1>8. pi.current_timestamp \in Int
  <2>1. w.current_timestamp \in Int /\ pi.current_timestamp = F(w.current_timestamp)
    BY <1>2, WitnessParts, FieldIsInt DEF CompleteBuild, PubOf
  <2> QED BY <2>1, Reduced
<1> HIDE DEF x, y, pi
<1>9. /\ Weighted(x) \in 0 .. PowerOfTwo(RANGE_BITS) - 1
      /\ Weighted(y) \in 0 .. PowerOfTwo(RANGE_BITS) - 1
  BY <1>5, <1>6, BitsSpell
<1>10. /\ x.aux["d"] \in Int /\ y.aux["d"] \in Int
       /\ PowerOfTwo(RANGE_BITS) \in Nat
  BY <1>1, <1>3, RowParts, FieldIsInt, Powers, Numbers
<1>11. F(Weighted(x) - (x.aux["d"] - pi.current_timestamp - 1)) = 0
  <2> DEFINE u == Weighted(x) - (x.aux["d"] - pi.current_timestamp - 1)
  <2>1. u \in Int
    BY <1>8, <1>9, <1>10
  <2>2. F(x.t["leaf"] * u) = 0
    BY <1>7 DEF RangeSum
  <2> HIDE DEF u
  <2>3. x.t["leaf"] * u = u
    BY <1>4, <2>1
  <2>4. F(u) = 0
    BY <2>2, <2>3
  <2> QED BY <2>4 DEF u
<1>12. F(Weighted(y) - (y.aux["d"] - pi.current_timestamp - 1)) = 0
  <2> DEFINE u == Weighted(y) - (y.aux["d"] - pi.current_timestamp - 1)
  <2>1. u \in Int
    BY <1>8, <1>9, <1>10
  <2>2. F(y.t["leaf"] * u) = 0
    BY <1>3 DEF RangeSum
  <2> HIDE DEF u
  <2>3. y.t["leaf"] * u = u
    BY <1>4, <2>1
  <2>4. F(u) = 0
    BY <2>2, <2>3
  <2> QED BY <2>4 DEF u
<1> QED BY <1>1, <1>3, <1>5, <1>6, <1>8, <1>9, <1>11, <1>12 DEF x, y, pi

\* The expiry: the range bits do not spell what another one asks for.
LEMMA ExpiryNoticed ==
  ASSUME NEW tr, NEW t, NEW w, NEW d, NEW v,
         Alters(tr, t, w, d, job_start_row(JOB_LEAF), "aux", "d", v),
         Satisfies(tr, PubOf(w, d))
  PROVE  FALSE
<1> DEFINE r == job_start_row(JOB_LEAF) x == t[r] y == tr[r]
           ts == PubOf(w, d).current_timestamp
<1>1. /\ x \in Row /\ v \in FieldElements /\ v # x.aux["d"]
      /\ y.aux = Put(x.aux, "d", v) /\ y.bit = x.bit
  BY AlteredBuild
<1>2. /\ Weighted(x) \in 0 .. PowerOfTwo(RANGE_BITS) - 1 /\ ts \in Int
      /\ F(Weighted(x) - (x.aux["d"] - ts - 1)) = 0
      /\ F(Weighted(y) - (y.aux["d"] - ts - 1)) = 0
  BY LeafRows
<1> HIDE DEF r, x, y, ts
<1>3. x.aux \in [{"a", "b", "c", "d"} -> FieldElements]
  BY <1>1 DEF Row
<1>4. y.aux["d"] = v
  BY <1>1, <1>3, PutCell
<1>5. Weighted(y) = Weighted(x)
  BY <1>1, SameBits
<1>6. /\ x.aux["d"] \in Int /\ v \in Int /\ x.aux["d"] - v < Modulus /\ v - x.aux["d"] < Modulus
      /\ Weighted(x) \in Int
  <2>1. x.aux["d"] \in FieldElements
    BY <1>3
  <2>2. Weighted(x) \in Int
    BY <1>2
  <2> QED BY <1>1, <2>1, <2>2, Numbers DEF FieldElements
<1> DEFINE a == Weighted(x) - (x.aux["d"] - ts - 1) b == Weighted(x) - (v - ts - 1)
<1>7. a \in Int /\ b \in Int /\ a - b < Modulus /\ b - a < Modulus /\ a # b
  BY <1>1, <1>2, <1>6
<1>8. F(a) = F(b)
  BY <1>2, <1>4, <1>5
<1> HIDE DEF a, b
<1> QED BY <1>7, <1>8, Near

\* A bit of the range check: it is none, or the bits spell another number.
LEMMA BitNoticed ==
  ASSUME NEW tr, NEW t, NEW w, NEW d, NEW c,
         Alters(tr, t, w, d, job_start_row(JOB_LEAF), "bit", c,
                F(t[job_start_row(JOB_LEAF)].bit[c] + 1)),
         Satisfies(tr, PubOf(w, d))
  PROVE  FALSE
<1> DEFINE r == job_start_row(JOB_LEAF) x == t[r] y == tr[r]
           ts == PubOf(w, d).current_timestamp v == F(x.bit[c] + 1)
<1>1. /\ x \in Row /\ c \in ColumnsOf("bit") /\ v \in FieldElements
      /\ y.aux = x.aux /\ y.bit = Put(x.bit, c, v)
  BY AlteredBuild
<1>2. /\ Weighted(x) \in 0 .. PowerOfTwo(RANGE_BITS) - 1 /\ ts \in Int
      /\ Weighted(y) \in 0 .. PowerOfTwo(RANGE_BITS) - 1
      /\ \A i \in 0 .. RANGE_BITS - 1 : x.bit[i] \in {0, 1} /\ y.bit[i] \in {0, 1}
      /\ F(Weighted(x) - (x.aux["d"] - ts - 1)) = 0
      /\ F(Weighted(y) - (y.aux["d"] - ts - 1)) = 0
  BY LeafRows
<1>3. c \in 0 .. RANGE_BITS - 1
  BY <1>1 DEF ColumnsOf
<1> HIDE DEF r, x, y, ts
<1>4. y.bit[c] = v /\ \A i \in 0 .. RANGE_BITS - 1 : i # c => y.bit[i] = x.bit[i]
  <2> DEFINE B == 0 .. RANGE_BITS - 1
  <2>1. x.bit \in [B -> FieldElements] /\ c \in B
    BY <1>1, <1>3 DEF Row
  <2> HIDE DEF B, v
  <2>2. /\ Put(x.bit, c, v)[c] = v
        /\ \A i \in B : i # c => Put(x.bit, c, v)[i] = x.bit[i]
    BY <2>1, PutCell
  <2> QED BY <1>1, <2>2 DEF B
<1>5. F(1) = 1 /\ F(2) = 2
  BY FieldIsInt, Numbers DEF FieldElements
<1>6. CASE x.bit[c] = 1
  <2>1. v = 2
    BY <1>5, <1>6
  <2> QED BY <1>2, <1>3, <1>4, <2>1
<1>7. CASE x.bit[c] = 0
  <2>1. y.bit[c] = 1
    BY <1>4, <1>5, <1>7
  <2>2. Weighted(y) # Weighted(x)
    BY <1>2, <1>3, <1>4, <1>7, <2>1, OtherBit
  <2>3. x.aux["d"] \in Int /\ y.aux["d"] = x.aux["d"] /\ PowerOfTwo(RANGE_BITS) \in Nat
        /\ PowerOfTwo(RANGE_BITS) < Modulus
    BY <1>1, RowParts, FieldIsInt, Powers, Numbers, AirAssumption
  <2> DEFINE a == Weighted(x) - (x.aux["d"] - ts - 1) b == Weighted(y) - (x.aux["d"] - ts - 1)
  <2>4. a \in Int /\ b \in Int /\ a - b < Modulus /\ b - a < Modulus /\ a # b
    BY <1>2, <2>2, <2>3, Numbers
  <2>5. F(a) = F(b)
    BY <1>2, <2>3
  <2> HIDE DEF a, b
  <2> QED BY <2>4, <2>5, Near
<1> QED BY <1>2, <1>3, <1>6, <1>7

-----------------------------------------------------------------------------
(* A build grows by a job *)

\* Earlier jobs end before later ones start.
LEMMA JobsInOrder ==
  \A i, j \in Jobs : i < j => i * ROUNDS + ROUNDS <= j * ROUNDS
<1> SUFFICES ASSUME NEW i \in Jobs, NEW j \in Jobs, i < j
             PROVE  i * ROUNDS + ROUNDS <= j * ROUNDS
  OBVIOUS
<1> DEFINE m == j - i - 1
<1>1. i \in Nat /\ j \in Nat /\ m \in Nat /\ ROUNDS \in Nat
  BY Numbers DEF Jobs
<1>2. j = i + 1 + m
  BY <1>1
<1> HIDE DEF m
<1>3. (i + 1 + m) * ROUNDS = i * ROUNDS + ROUNDS + m * ROUNDS
  BY <1>1
<1>4. m * ROUNDS \in Nat /\ i * ROUNDS \in Nat
  BY <1>1
<1> DEFINE a == i * ROUNDS b == m * ROUNDS
<1> HIDE DEF a, b
<1>5. a + ROUNDS <= a + ROUNDS + b
  BY <1>1, <1>4 DEF a, b
<1> QED BY <1>2, <1>3, <1>5 DEF a, b

\* The rows a job adds to those written before it.
Grown(tr, w, d) ==
  LET start == job_start_row(Len(d)) IN
  [r \in DOMAIN tr \cup (start .. job_last_row(Len(d))) |->
     IF r \in start .. job_last_row(Len(d)) THEN RowOf(w, d, Len(d), r - start) ELSE tr[r]]

LEMMA DigestsGrow ==
  ASSUME NEW w \in Witnesses, NEW d, DigestsOf(w, d), Len(d) < JOB_COUNT,
         Len(d) = JOB_LEAF => DiffOf(w) >= 0
  PROVE  LET e == Append(d, hash(JobInputs(w, d, Len(d)))) IN
         /\ DigestsOf(w, e) /\ Len(e) = Len(d) + 1
         /\ \A i \in Jobs : i <= Len(d) => JobInputs(w, e, i) = JobInputs(w, d, i)
<1> DEFINE j == Len(d) h == hash(JobInputs(w, d, j)) e == Append(d, h)
<1>1. d \in Seq(FieldElements) /\ j \in Nat /\ j \in Jobs
  BY Numbers DEF DigestsOf, Jobs
<1>2. h \in FieldElements
  BY <1>1, InputsInField, HashInField
<1> HIDE DEF h
<1>3. /\ e \in Seq(FieldElements) /\ Len(e) = j + 1 /\ e[j + 1] = h
      /\ \A i \in 1..j : e[i] = d[i]
  BY <1>1, <1>2
<1> HIDE DEF j, e
<1>4. ASSUME NEW i \in Jobs, i <= j PROVE JobInputs(w, e, i) = JobInputs(w, d, i)
  <2>1. i # JOB_OWNER => e[i] = d[i]
    BY <1>1, <1>3, <1>4, JobNumbers DEF Jobs
  <2> QED BY <2>1, SameInputs
<1>5. ASSUME NEW i \in Jobs, i < Len(e) PROVE e[i + 1] = hash(JobInputs(w, e, i))
  <2>1. i \in Nat /\ i <= j
    BY <1>1, <1>3, <1>5 DEF Jobs
  <2>2. JobInputs(w, e, i) = JobInputs(w, d, i)
    BY <1>4, <2>1
  <2>3. CASE i = j
    BY <1>3, <2>2, <2>3 DEF h
  <2>4. CASE i # j
    <3>1. i < j /\ i + 1 \in 1..j
      BY <1>1, <2>1, <2>4
    <3>2. d[i + 1] = hash(JobInputs(w, d, i))
      BY <3>1 DEF DigestsOf, j
    <3> QED BY <1>3, <2>2, <3>1, <3>2
  <2> QED BY <2>3, <2>4
<1>6. Len(e) > JOB_LEAF => DiffOf(w) >= 0
  <2>1. Len(e) > JOB_LEAF => j = JOB_LEAF \/ j > JOB_LEAF
    BY <1>1, <1>3, JobNumbers
  <2>2. j > JOB_LEAF => DiffOf(w) >= 0
    BY DEF DigestsOf, j
  <2> QED BY <2>1, <2>2 DEF j
<1>7. Len(e) <= JOB_COUNT
  BY <1>1, <1>3, Numbers DEF j
<1>8. DigestsOf(w, e)
  BY <1>3, <1>5, <1>6, <1>7 DEF DigestsOf
<1> QED BY <1>3, <1>4, <1>8 DEF j, e, h

LEMMA RowsGrow ==
  ASSUME NEW w \in Witnesses, NEW d, DigestsOf(w, d), Len(d) < JOB_COUNT,
         NEW tr, RowsOf(tr, w, d), Len(d) = JOB_LEAF => DiffOf(w) >= 0
  PROVE  RowsOf(Grown(tr, w, d), w, Append(d, hash(JobInputs(w, d, Len(d)))))
<1> DEFINE j == Len(d) e == Append(d, hash(JobInputs(w, d, Len(d)))) new == Grown(tr, w, d)
           start == job_start_row(j) last == job_last_row(j)
<1>1. j \in Nat /\ j \in Jobs
  BY Numbers DEF DigestsOf, Jobs
<1>2. /\ Len(e) = j + 1
      /\ \A i \in Jobs : i <= j => JobInputs(w, e, i) = JobInputs(w, d, i)
  BY DigestsGrow
<1>3. /\ start = j * ROUNDS /\ last = j * ROUNDS + ROUNDS - 1
      /\ j * ROUNDS \in Nat /\ (j + 1) * ROUNDS = j * ROUNDS + ROUNDS
      /\ ROUNDS \in Nat /\ ROUNDS >= 2
  BY <1>1, Layout, Numbers DEF job_start_row, job_last_row
<1>4. /\ DOMAIN tr = 0 .. j * ROUNDS - 1
      /\ \A i \in Jobs : \A k \in 0 .. ROUNDS - 1 :
           i < j => tr[i * ROUNDS + k] = RowOf(w, d, i, k)
  BY DEF RowsOf
<1>5. /\ DOMAIN new = DOMAIN tr \cup (start .. last)
      /\ \A r \in DOMAIN tr \cup (start .. last) :
           new[r] = IF r \in start .. last THEN RowOf(w, d, j, r - start) ELSE tr[r]
  BY DEF Grown
<1> HIDE DEF j, e, new, start, last
<1>6. DOMAIN new = 0 .. Len(e) * ROUNDS - 1
  <2> DEFINE n == j * ROUNDS
  <2>1. n \in Nat /\ Len(e) \in Nat /\ Len(e) * ROUNDS = n + ROUNDS
    BY <1>1, <1>2, <1>3
  <2>2. DOMAIN tr = 0 .. n - 1 /\ start = n /\ last = n + ROUNDS - 1
    BY <1>3, <1>4
  <2> HIDE DEF n
  <2>3. (0 .. n - 1) \cup (n .. n + ROUNDS - 1) = 0 .. n + ROUNDS - 1
    BY <1>3, <2>1
  <2>4. DOMAIN new = (0 .. n - 1) \cup (n .. n + ROUNDS - 1)
    BY <1>5, <2>2
  <2>5. DOMAIN new = 0 .. n + ROUNDS - 1
    BY <2>3, <2>4
  <2> DEFINE m == Len(e) * ROUNDS
  <2>6. m = n + ROUNDS
    BY <2>1
  <2> HIDE DEF m
  <2>7. DOMAIN new = 0 .. m - 1
    BY <1>3, <2>1, <2>5, <2>6
  <2> QED BY <2>7 DEF m
<1>7. ASSUME NEW i \in Jobs, NEW k \in 0 .. ROUNDS - 1, i < Len(e)
      PROVE  new[i * ROUNDS + k] = RowOf(w, e, i, k)
  <2>1. i \in Nat /\ i <= j /\ i * ROUNDS \in Nat
    BY <1>1, <1>2, <1>7, Layout DEF Jobs
  <2>2. RowOf(w, e, i, k) = RowOf(w, d, i, k)
    <3>1. JobInputs(w, e, i) = JobInputs(w, d, i)
      BY <1>2, <2>1
    <3> QED BY <3>1 DEF RowOf
  <2>3. CASE i = j
    <3> DEFINE n == j * ROUNDS
    <3>1. n \in Nat /\ start = n /\ last = n + ROUNDS - 1 /\ i * ROUNDS + k = n + k
      BY <1>3, <2>3
    <3> HIDE DEF n
    <3>2. n + k \in start .. last /\ (n + k) - start = k
      BY <1>3, <3>1
    <3>3. new[n + k] = RowOf(w, d, j, k)
      BY <1>5, <3>2
    <3> QED BY <2>2, <2>3, <3>1, <3>3
  <2>4. CASE i # j
    <3>1. i < j /\ i * ROUNDS + ROUNDS <= j * ROUNDS
      BY <1>1, <2>1, <2>4, JobsInOrder
    <3>2. tr[i * ROUNDS + k] = RowOf(w, d, i, k)
      BY <1>4, <3>1
    <3> DEFINE n == j * ROUNDS m == i * ROUNDS
    <3>3. /\ n \in Nat /\ m \in Nat /\ m + ROUNDS <= n
          /\ start = n /\ DOMAIN tr = 0 .. n - 1
      BY <1>3, <1>4, <2>1, <3>1
    <3> HIDE DEF n, m
    <3>4. m + k \in DOMAIN tr /\ m + k \notin start .. last
      BY <1>3, <3>3
    <3>5. new[m + k] = tr[m + k]
      BY <1>5, <3>4
    <3> QED BY <2>2, <3>2, <3>5 DEF m
  <2> QED BY <2>3, <2>4
<1>8. RowsOf(new, w, e)
  BY <1>6, <1>7 DEF RowsOf
<1> QED BY <1>8 DEF new, e, j

-----------------------------------------------------------------------------
(* What a complete build reports *)

LEMMA PubInField ==
  ASSUME NEW w \in Witnesses, NEW d, DigestsOf(w, d), Len(d) = JOB_COUNT
  PROVE  PubOf(w, d) \in StatementInputs
<1>1. /\ d[JOB_MERKLE_LAST + 1] \in FieldElements
      /\ d[JOB_NULLIFIER + 1] \in FieldElements
  <2>1. d \in Seq(FieldElements)
    BY DEF DigestsOf
  <2>2. \A j \in Jobs : j + 1 \in 1 .. Len(d)
    BY Numbers DEF Jobs
  <2> QED BY <2>1, <2>2, JobNumbers
<1>2. F(w.current_timestamp) \in FieldElements
  BY WitnessParts, FieldIsInt
<1> QED BY <1>1, <1>2, WitnessParts DEF PubOf, StatementInputs

\* The digests of the Merkle steps climb the path, and the last jobs' digests
\* are the public inputs.
LEMMA DigestsAgree ==
  ASSUME NEW w \in Witnesses, NEW d, DigestsOf(w, d), Len(d) = JOB_COUNT
  PROVE  /\ d[JOB_OWNER + 1] = owner_commitment(w.owner_secret, w.property_id)
         /\ PubOf(w, d).merkle_root
              = recompute_root(leaf_of(w.owner_secret, w.property_id, w.license_expiry),
                               w.merkle_siblings, w.merkle_bits)
         /\ PubOf(w, d).nullifier
              = hash(<<DOMAIN_NULLIFIER, w.owner_secret, w.property_id, w.purpose,
                       w.request_nonce>>)
<1> DEFINE leaf == leaf_of(w.owner_secret, w.property_id, w.license_expiry)
           f == [l \in Levels |-> d[JOB_LEAF + l + 1]]
<1>1. \A j \in Jobs : d[j + 1] = hash(JobInputs(w, d, j))
  BY Numbers DEF DigestsOf, Jobs
<1>2. d[JOB_OWNER + 1] = owner_commitment(w.owner_secret, w.property_id)
  BY <1>1, InputsOf, JobNumbers DEF owner_commitment
<1>3. d[JOB_LEAF + 1] = leaf
  <2>1. JobInputs(w, d, JOB_LEAF)
          = <<DOMAIN_LEAF, w.registry_id, d[JOB_LEAF], 0, 1, w.license_expiry>>
    BY InputsOf
  <2>2. d[JOB_LEAF] = owner_commitment(w.owner_secret, w.property_id)
    BY <1>2, JobNumbers
  <2>3. w.registry_id = registry_id
    BY WitnessParts
  <2> QED BY <1>1, <2>1, <2>2, <2>3, JobNumbers DEF leaf_of
<1> HIDE DEF leaf
<1>4. f[0] = leaf /\ f[TREE_DEPTH] = d[JOB_MERKLE_LAST + 1]
  <2>1. /\ 0 \in Levels /\ TREE_DEPTH \in Levels
        /\ JOB_LEAF + 0 + 1 = JOB_LEAF + 1 /\ JOB_LEAF + TREE_DEPTH + 1 = JOB_MERKLE_LAST + 1
    BY JobNumbers, Numbers DEF Levels
  <2> QED BY <1>3, <2>1
<1>5. ASSUME NEW l \in 0 .. TREE_DEPTH - 1
      PROVE  f[l + 1] = Parent(f[l], w.merkle_siblings[l], w.merkle_bits[l])
  <2> DEFINE j == JOB_MERKLE_FIRST + l
  <2>1. /\ l \in Levels /\ l + 1 \in Levels /\ j \in Jobs
        /\ JOB_LEAF + (l + 1) + 1 = j + 1 /\ JOB_LEAF + l + 1 = j
    BY JobNumbers, Numbers DEF Levels
  <2>2. f[l + 1] = d[j + 1] /\ f[l] = d[j]
    BY <2>1
  <2>3. JobInputs(w, d, j)
          = IF w.merkle_bits[l] THEN <<DOMAIN_NODE, w.merkle_siblings[l], d[j]>>
                                ELSE <<DOMAIN_NODE, d[j], w.merkle_siblings[l]>>
    BY InputsOf
  <2>4. d[j + 1] = hash(JobInputs(w, d, j))
    BY <1>1, <2>1
  <2> HIDE DEF f, j
  <2>5. CASE w.merkle_bits[l]
    BY <2>2, <2>3, <2>4, <2>5 DEF Parent
  <2>6. CASE ~w.merkle_bits[l]
    BY <2>2, <2>3, <2>4, <2>6 DEF Parent
  <2> QED BY <2>5, <2>6
<1> HIDE DEF f
<1>6. recompute_root(leaf, w.merkle_siblings, w.merkle_bits) = f[TREE_DEPTH]
  <2> DEFINE siblings == w.merkle_siblings bits == w.merkle_bits
  <2>1. \A l \in 0 .. TREE_DEPTH - 1 : f[l + 1] = Parent(f[l], siblings[l], bits[l])
    BY <1>5
  <2> HIDE DEF siblings, bits
  <2>2. recompute_root(leaf, siblings, bits) = f[TREE_DEPTH]
    <3>1. Climbs(f, leaf, siblings, bits)
      BY <1>4, <2>1 DEF Climbs
    <3> QED BY <3>1, Climb
  <2> QED BY <2>2 DEF siblings, bits
<1>7. d[JOB_NULLIFIER + 1]
        = hash(<<DOMAIN_NULLIFIER, w.owner_secret, w.property_id, w.purpose, w.request_nonce>>)
  BY <1>1, InputsOf, JobNumbers
<1> QED BY <1>2, <1>4, <1>6, <1>7 DEF PubOf, leaf

\* The rows of a build in progress are rows of the field.
LEMMA RowsAreRows ==
  ASSUME NEW w \in Witnesses, NEW d, DigestsOf(w, d), NEW tr, RowsOf(tr, w, d),
         NEW r \in DOMAIN tr
  PROVE  tr[r] \in Row
<1>1. Len(d) \in Nat /\ Len(d) <= JOB_COUNT /\ ROUNDS \in Nat /\ JOB_COUNT \in Nat
  BY Numbers DEF DigestsOf
<1>2. r \in Nat /\ r < Len(d) * ROUNDS
  <2> DEFINE n == Len(d) * ROUNDS
  <2>1. n \in Nat /\ r \in 0 .. n - 1
    BY <1>1 DEF RowsOf
  <2> HIDE DEF n
  <2>2. r \in Nat /\ r < n
    BY <2>1
  <2> QED BY <2>2 DEF n
<1>3. Len(d) * ROUNDS <= TRACE_LENGTH
  <2> DEFINE m == JOB_COUNT - Len(d)
  <2>1. m \in Nat /\ JOB_COUNT = Len(d) + m
    BY <1>1
  <2> HIDE DEF m
  <2>2. (Len(d) + m) * ROUNDS = Len(d) * ROUNDS + m * ROUNDS /\ m * ROUNDS \in Nat
    BY <1>1, <2>1
  <2>3. JOB_COUNT * ROUNDS = Len(d) * ROUNDS + m * ROUNDS /\ Len(d) * ROUNDS \in Nat
    BY <1>1, <2>1, <2>2
  <2> DEFINE a == Len(d) * ROUNDS b == m * ROUNDS
  <2> HIDE DEF a, b
  <2>4. a <= a + b
    BY <2>2, <2>3 DEF a, b
  <2> QED BY <2>3, <2>4 DEF TRACE_LENGTH, a, b
<1>4. r \in Rows
  <2> DEFINE n == Len(d) * ROUNDS
  <2>1. n \in Nat /\ TRACE_LENGTH \in Nat /\ r < n /\ n <= TRACE_LENGTH
    BY <1>1, <1>2, <1>3, Layout
  <2> HIDE DEF n
  <2> QED BY <1>2, <2>1 DEF Rows
<1>5. PICK j \in Jobs, k \in 0 .. ROUNDS - 1 : r = j * ROUNDS + k
  BY <1>4, Layout
<1>6. j < Len(d)
  <2>1. j \in Nat /\ k \in Nat /\ j * ROUNDS \in Nat
    BY <1>1, <1>5, Layout
  <2>2. ASSUME ~(j < Len(d)) PROVE FALSE
    <3> DEFINE m == j - Len(d)
    <3>1. m \in Nat /\ j = Len(d) + m
      BY <1>1, <2>1, <2>2
    <3> HIDE DEF m
    <3>2. (Len(d) + m) * ROUNDS = Len(d) * ROUNDS + m * ROUNDS /\ m * ROUNDS \in Nat
      BY <1>1, <3>1
    <3>3. Len(d) * ROUNDS \in Nat
      BY <1>1
    <3> DEFINE a == Len(d) * ROUNDS b == m * ROUNDS
    <3> HIDE DEF a, b
    <3>4. r = a + b + k /\ r < a /\ a \in Nat /\ b \in Nat
      BY <1>2, <1>5, <3>1, <3>2, <3>3 DEF a, b
    <3> QED BY <2>1, <3>4
  <2> QED BY <2>2
<1>7. tr[r] = RowOf(w, d, j, k)
  BY <1>5, <1>6 DEF RowsOf
<1>8. j <= Len(d) /\ (j = JOB_LEAF => DiffOf(w) >= 0)
  <2>1. j \in Nat
    BY Layout
  <2> QED BY <1>1, <1>6, <2>1 DEF DigestsOf
<1> QED BY <1>7, <1>8, RowIsRow

-----------------------------------------------------------------------------
(* Tampering, and the harness's checks *)

\* The cells of a row are in the field.
LEMMA CellsInField ==
  \A x \in Row : \A g \in Groups : \A c \in ColumnsOf(g) : x[g][c] \in FieldElements
<1> SUFFICES ASSUME NEW x \in Row, NEW g \in Groups, NEW c \in ColumnsOf(g)
             PROVE  x[g][c] \in FieldElements
  OBVIOUS
<1>1. /\ x.s \in [Lanes -> FieldElements]
      /\ x.aux \in [{"a", "b", "c", "d"} -> FieldElements]
      /\ x.held \in [{"secret", "pid"} -> FieldElements]
      /\ x.t \in [JobTypes -> FieldElements]
      /\ x.bit \in [0 .. RANGE_BITS - 1 -> FieldElements]
  BY DEF Row
<1>2. CASE g = "s"
  BY <1>1, <1>2 DEF ColumnsOf
<1>3. CASE g = "aux"
  BY <1>1, <1>3 DEF ColumnsOf
<1>4. CASE g = "held"
  BY <1>1, <1>4 DEF ColumnsOf
<1>5. CASE g = "t"
  BY <1>1, <1>5 DEF ColumnsOf
<1>6. CASE g = "bit"
  BY <1>1, <1>6 DEF ColumnsOf
<1> QED BY <1>2, <1>3, <1>4, <1>5, <1>6 DEF Groups

\* One of the columns that a condition reads, in the row that has it.
IsRead(r, g, c) ==
  \/ r \in Rows /\ g = "s" /\ c \in Lanes
  \/ g = "held" /\ c \in {"secret", "pid"} /\ \E j \in Jobs : r = job_start_row(j)
  \/ g = "t" /\ c \in JobTypes /\ \E j \in Jobs : r = job_start_row(j)
  \/ g = "aux" /\ c \in {"a", "b", "c", "d"} /\ r = job_start_row(JOB_LEAF)
  \/ g = "aux" /\ c \in {"a", "b"} /\ r = job_start_row(JOB_NULLIFIER)
  \/ /\ g = "aux" /\ c = "a"
     /\ \E l \in 0 .. TREE_DEPTH - 1 : r = job_start_row(JOB_MERKLE_FIRST + l)
  \/ g = "bit" /\ c \in 0 .. RANGE_BITS - 1 /\ r = job_start_row(JOB_LEAF)

LEMMA MerkleLevels ==
  \A j \in JOB_MERKLE_FIRST .. JOB_MERKLE_LAST :
    \E l \in 0 .. TREE_DEPTH - 1 : j = JOB_MERKLE_FIRST + l
<1> SUFFICES ASSUME NEW j \in JOB_MERKLE_FIRST .. JOB_MERKLE_LAST
             PROVE  \E l \in 0 .. TREE_DEPTH - 1 : j = JOB_MERKLE_FIRST + l
  OBVIOUS
<1>1. j - 2 \in 0 .. TREE_DEPTH - 1 /\ j = JOB_MERKLE_FIRST + (j - 2)
  BY JobNumbers, Numbers
<1> QED BY <1>1

LEMMA ReadCellsAreRead ==
  \A cell \in ReadCells : IsRead(cell[1], cell[2], cell[3])
<1> SUFFICES ASSUME NEW cell \in ReadCells PROVE IsRead(cell[1], cell[2], cell[3])
  OBVIOUS
<1>1. CASE \E r \in Rows, lane \in TamperLanes : cell = <<r, "s", lane>>
  BY <1>1, ProverAssumption DEF IsRead
<1>2. CASE \E j \in Jobs, c \in {"secret", "pid"} : cell = <<job_start_row(j), "held", c>>
  BY <1>2 DEF IsRead
<1>3. CASE \E j \in Jobs, k \in JobTypes : cell = <<job_start_row(j), "t", k>>
  BY <1>3 DEF IsRead
<1>4. CASE \E x \in {"a", "b", "c", "d"} : cell = <<job_start_row(JOB_LEAF), "aux", x>>
  BY <1>4 DEF IsRead
<1>5. CASE \E x \in {"a", "b"} : cell = <<job_start_row(JOB_NULLIFIER), "aux", x>>
  BY <1>5 DEF IsRead
<1>6. CASE \E j \in JOB_MERKLE_FIRST .. JOB_MERKLE_LAST : cell = <<job_start_row(j), "aux", "a">>
  <2>1. PICK l \in 0 .. TREE_DEPTH - 1 : cell = <<job_start_row(JOB_MERKLE_FIRST + l), "aux", "a">>
    BY <1>6, MerkleLevels
  <2> QED BY <2>1 DEF IsRead
<1>7. CASE \E i \in 0 .. RANGE_BITS - 1 : cell = <<job_start_row(JOB_LEAF), "bit", i>>
  BY <1>7 DEF IsRead
<1> QED BY <1>1, <1>2, <1>3, <1>4, <1>5, <1>6, <1>7 DEF ReadCells

\* One more in a cell that is read is an alteration.
LEMMA ReadIsAltered ==
  ASSUME NEW t, NEW w, NEW d, CompleteBuild(t, w, d),
         DiffOf(w) < PowerOfTwo(RANGE_BITS),
         NEW r, NEW g, NEW c, IsRead(r, g, c)
  PROVE  LET v == F(t[r][g][c] + 1) IN Alters(PutAt(t, r, g, c, v), t, w, d, r, g, c, v)
<1>1. r \in Rows
  BY JobEnds, JobNumbers DEF IsRead
<1>2. g \in Groups /\ c \in ColumnsOf(g)
  BY DEF IsRead, Groups, ColumnsOf
<1>3. t[r] \in Row
  <2>1. PICK j \in Jobs, k \in 0 .. ROUNDS - 1 : r = j * ROUNDS + k
    BY <1>1, Layout
  <2> QED BY <2>1, CompleteRows
<1>4. t[r][g][c] \in FieldElements
  BY <1>2, <1>3, CellsInField
<1> QED BY <1>1, <1>2, <1>4, OneMore DEF Alters

\* A complete trace in which a cell was altered the way the harness does.
Altered(tr, w, d) ==
  \E t :
    /\ RowsOf(t, w, d)
    /\ \/ \E cell \in ReadCells :
            tr = PutAt(t, cell[1], cell[2], cell[3], F(t[cell[1]][cell[2]][cell[3]] + 1))
       \/ \E j \in JOB_MERKLE_FIRST .. JOB_MERKLE_LAST, v \in FieldElements \ {0, 1} :
            tr = PutAt(t, job_start_row(j), "aux", "b", v)

LEMMA AlteredNoticed ==
  ASSUME NEW tr, NEW w \in Witnesses, NEW d, DigestsOf(w, d), Len(d) = JOB_COUNT,
         DiffOf(w) < PowerOfTwo(RANGE_BITS), Altered(tr, w, d)
  PROVE  tr \in [Rows -> Row] /\ ~Satisfies(tr, PubOf(w, d))
<1>1. PICK t :
        /\ RowsOf(t, w, d)
        /\ \/ \E cell \in ReadCells :
                tr = PutAt(t, cell[1], cell[2], cell[3], F(t[cell[1]][cell[2]][cell[3]] + 1))
           \/ \E j \in JOB_MERKLE_FIRST .. JOB_MERKLE_LAST, v \in FieldElements \ {0, 1} :
                tr = PutAt(t, job_start_row(j), "aux", "b", v)
  BY DEF Altered
<1>2. CompleteBuild(t, w, d)
  BY <1>1 DEF CompleteBuild
<1>3. ASSUME NEW r, NEW g, NEW c, IsRead(r, g, c),
             tr = PutAt(t, r, g, c, F(t[r][g][c] + 1))
      PROVE  tr \in [Rows -> Row] /\ ~Satisfies(tr, PubOf(w, d))
  <2> DEFINE v == F(t[r][g][c] + 1)
  <2>1. Alters(tr, t, w, d, r, g, c, v)
    BY <1>2, <1>3, ReadIsAltered
  <2>2. tr \in [Rows -> Row]
    BY <2>1, AlteredBuild
  <2>3. ASSUME Satisfies(tr, PubOf(w, d)) PROVE FALSE
    <3>1. CASE r \in Rows /\ g = "s" /\ c \in Lanes
      BY <2>1, <2>3, <3>1, LaneNoticed
    <3>2. CASE g = "held" /\ \E j \in Jobs : r = job_start_row(j)
      BY <2>1, <2>3, <3>2, HeldNoticed
    <3>3. CASE g = "t" /\ \E j \in Jobs : r = job_start_row(j)
      BY <2>1, <2>3, <3>3, TypeNoticed
    <3>4. CASE g = "aux" /\ c = "d" /\ r = job_start_row(JOB_LEAF)
      BY <2>1, <2>3, <3>4, ExpiryNoticed
    <3>5. CASE g = "aux" /\ ( \/ r = job_start_row(JOB_LEAF) /\ c \in {"a", "b", "c"}
                              \/ r = job_start_row(JOB_NULLIFIER) /\ c \in {"a", "b"})
      BY <2>1, <2>3, <3>5, AssertedNoticed
    <3>6. CASE /\ g = "aux" /\ c = "a"
               /\ \E l \in 0 .. TREE_DEPTH - 1 : r = job_start_row(JOB_MERKLE_FIRST + l)
      BY <2>1, <2>3, <3>6, SiblingNoticed
    <3>7. CASE g = "bit" /\ r = job_start_row(JOB_LEAF)
      <4>1. Alters(tr, t, w, d, job_start_row(JOB_LEAF), "bit", c,
                   F(t[job_start_row(JOB_LEAF)].bit[c] + 1))
        BY <2>1, <3>7
      <4> QED BY <2>3, <4>1, BitNoticed
    <3> HIDE DEF v
    <3> QED BY <1>3, <3>1, <3>2, <3>3, <3>4, <3>5, <3>6, <3>7 DEF IsRead
  <2> QED BY <2>2, <2>3
<1>4. CASE \E cell \in ReadCells :
             tr = PutAt(t, cell[1], cell[2], cell[3], F(t[cell[1]][cell[2]][cell[3]] + 1))
  BY <1>3, <1>4, ReadCellsAreRead
<1>5. CASE \E j \in JOB_MERKLE_FIRST .. JOB_MERKLE_LAST, v \in FieldElements \ {0, 1} :
             tr = PutAt(t, job_start_row(j), "aux", "b", v)
  <2>1. PICK l \in 0 .. TREE_DEPTH - 1, v \in FieldElements \ {0, 1} :
          tr = PutAt(t, job_start_row(JOB_MERKLE_FIRST + l), "aux", "b", v)
    BY <1>5, MerkleLevels
  <2> DEFINE j == JOB_MERKLE_FIRST + l r == job_start_row(j)
  <2>2. j \in Jobs /\ r \in Rows
    BY JobNumbers, JobEnds
  <2>3. t[r].aux["b"] \in {0, 1}
    <3>1. t[r] = RowOf(w, d, j, 0)
      BY <1>2, <2>2, CompleteRows
    <3>2. JobAux(w, j) = Aux(w.merkle_siblings[l], IF w.merkle_bits[l] THEN 1 ELSE 0, 0, 0)
      BY AuxOfJob
    <3> QED BY <3>1, <3>2, FirstRowColumns, AuxColumns
  <2>4. Alters(tr, t, w, d, r, "aux", "b", v)
    BY <1>2, <2>1, <2>2, <2>3 DEF Alters, Groups, ColumnsOf
  <2>5. tr \in [Rows -> Row]
    BY <2>4, AlteredBuild
  <2> QED BY <2>1, <2>4, <2>5, DirectionNoticed
<1> QED BY <1>1, <1>4, <1>5

\* The two alterations the harness makes at a complete build are noticed.
LEMMA HarnessNotices ==
  ASSUME NEW t, NEW w, NEW d, CompleteBuild(t, w, d), NEW flagged, NEW twice,
         flagged = PutAt(t, job_start_row(JOB_LEAF), "aux", "b", 1),
         twice = PutAt(flagged, 1, "s", 0, F(flagged[1].s[0] + 1))
  PROVE  /\ ~LeafAsserted(flagged[job_start_row(JOB_LEAF)], PubOf(w, d))
         /\ ~eval_all_constraints(twice, PubOf(w, d))
<1> DEFINE r == job_start_row(JOB_LEAF)
<1>1. DOMAIN t = Rows /\ r \in Rows /\ r # 0 /\ r # 1 /\ 0 \in Rows /\ 1 \in Rows
  <2>1. r = ROUNDS /\ r \in Rows
    BY JobNumbers, JobEnds, Numbers DEF job_start_row
  <2>2. DOMAIN t = Rows
    BY CompleteRows
  <2>3. 0 \in Rows /\ 1 \in Rows
    BY Layout DEF Rows
  <2>4. ROUNDS # 0 /\ ROUNDS # 1
    BY Numbers
  <2> QED BY <2>1, <2>2, <2>3, <2>4
<1>2. \A q \in {0, 1, r} : t[q] \in Row
  <2> SUFFICES ASSUME NEW q \in Rows PROVE t[q] \in Row
    BY <1>1
  <2>1. PICK j \in Jobs, k \in 0 .. ROUNDS - 1 : q = j * ROUNDS + k
    BY Layout
  <2> QED BY <2>1, CompleteRows
<1> HIDE DEF r
<1>3. DOMAIN flagged = Rows /\ flagged[r] = PutIn(t[r], "aux", "b", 1)
      /\ flagged[0] = t[0] /\ flagged[1] = t[1]
  <2>1. flagged = PutAt(t, r, "aux", "b", 1)
    BY DEF r
  <2> QED BY <1>1, <2>1, AlteredTrace
<1>4. DOMAIN twice = Rows /\ twice[0] = t[0]
      /\ twice[1] = PutIn(t[1], "s", 0, F(t[1].s[0] + 1))
  BY <1>1, <1>3, AlteredTrace
<1>5. flagged[r].aux["b"] = 1
  <2>1. flagged[r].aux = Put(t[r].aux, "b", 1)
    <3>1. "aux" \in Groups /\ "b" \in ColumnsOf("aux") /\ 1 \in FieldElements /\ t[r] \in Row
      BY <1>2, Tags DEF Groups, ColumnsOf
    <3>2. PutIn(t[r], "aux", "b", 1).aux
            = IF "aux" = "aux" THEN Put(t[r].aux, "b", 1) ELSE t[r].aux
      BY <3>1, AlteredRow
    <3> QED BY <1>3, <3>2
  <2>2. t[r].aux \in [{"a", "b", "c", "d"} -> FieldElements]
    BY <1>2 DEF Row
  <2> QED BY <2>1, <2>2, PutCell
<1>6. ~LeafAsserted(flagged[r], PubOf(w, d))
  BY <1>5 DEF LeafAsserted
<1>7. t[1].s[0] \in FieldElements /\ t[1].s \in [Lanes -> FieldElements] /\ 0 \in Lanes
  BY <1>2, LaneNumbers DEF Row
<1> DEFINE v == F(t[1].s[0] + 1)
<1>8. v \in FieldElements /\ v # t[1].s[0]
  BY <1>7, OneMore
<1> HIDE DEF v
<1>9. twice[1].s = Put(t[1].s, 0, v)
  <2>1. "s" \in Groups /\ 0 \in ColumnsOf("s") /\ t[1] \in Row
    BY <1>2, <1>7 DEF Groups, ColumnsOf
  <2>2. PutIn(t[1], "s", 0, v).s = IF "s" = "s" THEN Put(t[1].s, 0, v) ELSE t[1].s
    BY <1>8, <2>1, AlteredRow
  <2> QED BY <1>4, <2>2 DEF v
<1>10. twice[1].s[0] = v
  <2> DEFINE x == t[1].s
  <2>1. 0 \in DOMAIN x
    BY <1>7
  <2> HIDE DEF x
  <2>2. Put(x, 0, v)[0] = v
    BY <2>1, PutThere
  <2> QED BY <1>9, <2>2 DEF x
<1>11. (0 + 1) % TRACE_LENGTH = 1 /\ 0 % ROUNDS = 0 /\ 0 # ROUNDS - 1
  BY Layout, Numbers
<1>12. t[1].s = apply_round(t[0].s, RoundConstants[0])
  <2>1. LanesFollow(t[0], t[(0 + 1) % TRACE_LENGTH], 0 % ROUNDS)
    BY <1>1, LanesAreRight
  <2> QED BY <1>11, <2>1 DEF LanesFollow
<1>13. ASSUME eval_all_constraints(twice, PubOf(w, d)) PROVE FALSE
  <2>1. evaluate_transition(twice[0], twice[(0 + 1) % TRACE_LENGTH], 0 % ROUNDS, PubOf(w, d))
    BY <1>1, <1>13 DEF eval_all_constraints
  <2>2. LanesFollow(twice[0], twice[1], 0)
    BY <1>11, <2>1 DEF evaluate_transition
  <2>3. twice[1].s = apply_round(t[0].s, RoundConstants[0])
    BY <1>4, <1>11, <2>2 DEF LanesFollow
  <2> QED BY <1>8, <1>10, <1>12, <2>3
<1> QED BY <1>6, <1>13 DEF r

-----------------------------------------------------------------------------
(* The invariant *)

\* The witness of a loaded device belongs to its tree.
Loaded(n, w, d) ==
  /\ w \in Witnesses /\ DigestsOf(w, d)
  /\ root(n) = recompute_root(leaf_of(w.owner_secret, w.property_id, w.license_expiry),
                              w.merkle_siblings, w.merkle_bits)

InRange(w) == DiffOf(w) < PowerOfTwo(RANGE_BITS)

Finished == {"built", "tampered", "written", "checked"}

\* The trace, the digests and the public inputs are those of the jobs that ran
\* for the witness, or of all jobs but for one altered cell.
IInv ==
  /\ maker \in Makers /\ status \in Statuses
  /\ IsTree(nodes)
  /\ status = "filling" => trace = None /\ digests = <<>>
  /\ status # "filling" => Loaded(nodes, witness, digests)
  /\ status \notin {"filling", "tampered"} => RowsOf(trace, witness, digests)
  /\ status \in Finished => Len(digests) = JOB_COUNT /\ pub_inputs = PubOf(witness, digests)
  /\ status = "tampered" => maker = "harness" /\ Altered(trace, witness, digests)
  /\ maker = "harness" /\ Len(digests) > JOB_LEAF => InRange(witness)
  /\ status \in {"written", "checked"} => (verdict <=> InRange(witness))

LEMMA InitInv == Init => IInv
<1> SUFFICES ASSUME Init PROVE IInv
  OBVIOUS
<1>1. /\ nodes = None /\ maker \in Makers /\ status = "filling" /\ trace = None
      /\ digests = <<>>
  BY DEF Init
<1>2. IsTree(nodes)
  BY <1>1 DEF IsTree, None
<1>3. ~(Len(digests) > JOB_LEAF)
  BY <1>1, JobNumbers
<1> QED BY <1>1, <1>2, <1>3 DEF IInv, Statuses, Finished

-----------------------------------------------------------------------------
(* Filling the tree *)

LEMMA LeafInField ==
  ASSUME NEW secret \in Secrets, NEW e \in Expiries
  PROVE  leaf_of(secret, property_id, e) \in FieldElements
<1>1. secret \in FieldElements /\ e \in FieldElements /\ property_id \in FieldElements
      /\ registry_id \in FieldElements
  BY ProverAssumption
<1>2. <<DOMAIN_OWNER_COMMITMENT, secret, property_id>> \in Seq(FieldElements)
  BY <1>1, Inputs, Tags
<1>3. owner_commitment(secret, property_id) \in FieldElements
  BY <1>2, HashInField DEF owner_commitment
<1> DEFINE com == owner_commitment(secret, property_id)
<1> HIDE DEF com
<1>4. <<DOMAIN_LEAF, registry_id, com, 0, 1, e>> \in Seq(FieldElements)
  BY <1>1, <1>3, Inputs, Tags DEF com
<1> QED BY <1>4, HashInField DEF leaf_of, com

LEMMA InsertOtherInv ==
  ASSUME IInv, NEW index \in Indexes, NEW leaf \in OtherLeaves, InsertOther(index, leaf)
  PROVE  IInv'
<1>1. /\ status = "filling" /\ nodes' = WithLeaf(nodes, index, leaf)
      /\ UNCHANGED <<maker, witness, status, trace, digests, pub_inputs, verdict>>
  BY DEF InsertOther
<1>2. leaf \in FieldElements /\ IsTree(nodes)
  BY ProverAssumption DEF IInv
<1>3. IsTree(nodes')
  BY <1>1, <1>2, TreeWithLeaf
<1>4. ~(Len(digests) > JOB_LEAF)
  BY <1>1, JobNumbers DEF IInv
<1> QED BY <1>1, <1>3, <1>4 DEF IInv, Finished

LEMMA LoadInv ==
  ASSUME IInv, NEW index \in Indexes, NEW secret \in Secrets, NEW ts \in Timestamps,
         NEW e \in Expiries, Load(index, secret, ts, e)
  PROVE  IInv'
<1> DEFINE leaf == leaf_of(secret, property_id, e) tree == WithLeaf(nodes, index, leaf)
           path == proof(tree, index) w == Witness(secret, ts, e, path)
<1>1. /\ status = "filling" /\ nodes' = tree /\ witness' = w /\ status' = "building"
      /\ UNCHANGED <<others, maker, trace, digests, pub_inputs, verdict>>
  BY DEF Load
<1>2. leaf \in FieldElements /\ IsTree(nodes)
  BY LeafInField DEF IInv
<1>3. IsTree(tree)
  BY <1>2, TreeWithLeaf
<1>4. root(tree) = recompute_root(leaf, path.siblings, path.bits)
  BY <1>2, PathLeadsToRoot
<1>5. /\ path.siblings \in [0 .. TREE_DEPTH - 1 -> FieldElements]
      /\ path.bits \in [0 .. TREE_DEPTH - 1 -> BOOLEAN]
  BY <1>3, PathParts
<1>6. secret \in FieldElements /\ ts \in FieldElements /\ e \in FieldElements
  BY ProverAssumption
<1> HIDE DEF path
<1>7. w \in Witnesses
  BY <1>5, <1>6 DEF Witnesses, Witness
<1>8. /\ w.owner_secret = secret /\ w.property_id = property_id /\ w.license_expiry = e
      /\ w.merkle_siblings = path.siblings /\ w.merkle_bits = path.bits
  BY DEF Witness
<1> HIDE DEF w
<1>9. trace = None /\ digests = <<>> /\ Len(digests) = 0
  BY <1>1 DEF IInv
<1>10. DigestsOf(w, digests)
  BY <1>9, JobNumbers, Numbers DEF DigestsOf, Jobs
<1>11. RowsOf(trace, w, digests)
  <2>1. DOMAIN trace = {} /\ 0 * ROUNDS = 0 /\ 0 .. 0 - 1 = {}
    BY <1>9, Numbers DEF None
  <2> QED BY <1>9, <2>1 DEF RowsOf, Jobs
<1>12. Loaded(tree, w, digests)
  BY <1>4, <1>7, <1>8, <1>10 DEF Loaded
<1>13. ~(Len(digests) > JOB_LEAF)
  BY <1>9, JobNumbers
<1> HIDE DEF tree
<1> QED BY <1>1, <1>3, <1>11, <1>12, <1>13 DEF IInv, Statuses, Finished

-----------------------------------------------------------------------------
(* Running the jobs *)

\* Every job runs with the inputs, the aux columns and the bits of its kind.
JobStep ==
  /\ status = "building" /\ job \in Jobs
  /\ job = JOB_LEAF => ~DiffRefused
  /\ run_job(JobInputs(witness, digests, job), JobAux(witness, job), JobBits(witness, job))

LEMMA JobBitsOf ==
  /\ \A w : JobBits(w, JOB_LEAF) = to_bits_le(DiffOf(w), RANGE_BITS)
  /\ \A w, j : j # JOB_LEAF => JobBits(w, j) = NoBits
BY DEF JobBits

LEMMA EveryJobIsAStep ==
  ASSUME digests \in Seq(FieldElements),
         OwnerJob \/ LeafJob \/ (\E level \in 0 .. TREE_DEPTH - 1 : MerkleJob(level))
           \/ NullifierJob \/ PaddingJob
  PROVE  JobStep
<1>1. job \in Nat /\ Last(digests) = digests[job]
  BY DEF job, Last
<1>2. CASE OwnerJob
  <2>1. status = "building" /\ job = JOB_OWNER /\ job \in Jobs /\ job # JOB_LEAF
    BY <1>2, JobNumbers DEF OwnerJob, Building
  <2>2. /\ JobInputs(witness, digests, job)
             = <<DOMAIN_OWNER_COMMITMENT, witness.owner_secret, witness.property_id>>
        /\ JobAux(witness, job) = Aux(0, 0, 0, 0)
        /\ JobBits(witness, job) = NoBits
    BY <2>1, InputsOf, AuxOfJob, JobBitsOf
  <2>3. run_job(<<DOMAIN_OWNER_COMMITMENT, witness.owner_secret, witness.property_id>>,
                Aux(0, 0, 0, 0), NoBits)
    BY <1>2 DEF OwnerJob
  <2> QED BY <2>1, <2>2, <2>3 DEF JobStep
<1>3. CASE LeafJob
  <2>1. status = "building" /\ job = JOB_LEAF /\ job \in Jobs /\ ~DiffRefused
    BY <1>3, JobNumbers DEF LeafJob, Building
  <2>2. /\ JobInputs(witness, digests, job)
             = <<DOMAIN_LEAF, witness.registry_id, Last(digests), 0, 1, witness.license_expiry>>
        /\ JobAux(witness, job) = Aux(witness.registry_id, 0, 1, witness.license_expiry)
        /\ JobBits(witness, job) = to_bits_le(Diff, RANGE_BITS)
    BY <1>1, <2>1, InputsOf, AuxOfJob, JobBitsOf DEF DiffOf, Diff
  <2>3. run_job(<<DOMAIN_LEAF, witness.registry_id, Last(digests), 0, 1,
                  witness.license_expiry>>,
                Aux(witness.registry_id, 0, 1, witness.license_expiry),
                to_bits_le(Diff, RANGE_BITS))
    BY <1>3 DEF LeafJob
  <2> QED BY <2>1, <2>2, <2>3 DEF JobStep
<1>4. ASSUME NEW level \in 0 .. TREE_DEPTH - 1, MerkleJob(level) PROVE JobStep
  <2> DEFINE sibling == witness.merkle_siblings[level] right == witness.merkle_bits[level]
             inputs == IF right THEN <<DOMAIN_NODE, sibling, Last(digests)>>
                                ELSE <<DOMAIN_NODE, Last(digests), sibling>>
             aux == Aux(sibling, IF right THEN 1 ELSE 0, 0, 0)
  <2>1. /\ status = "building" /\ job = JOB_MERKLE_FIRST + level /\ job \in Jobs
        /\ job # JOB_LEAF
    BY <1>4, JobNumbers, KindsExclude DEF MerkleJob, Building
  <2>2. JobInputs(witness, digests, job)
          = IF right THEN <<DOMAIN_NODE, sibling, digests[job]>>
                     ELSE <<DOMAIN_NODE, digests[job], sibling>>
    BY <2>1, InputsOf
  <2>3. JobInputs(witness, digests, job) = inputs
    BY <1>1, <2>2
  <2>4. JobAux(witness, job) = aux /\ JobBits(witness, job) = NoBits
    BY <2>1, AuxOfJob, JobBitsOf
  <2>5. run_job(inputs, aux, NoBits)
    BY <1>4 DEF MerkleJob
  <2> HIDE DEF inputs, aux
  <2> QED BY <2>1, <2>3, <2>4, <2>5 DEF JobStep
<1>5. CASE NullifierJob
  <2>1. status = "building" /\ job = JOB_NULLIFIER /\ job \in Jobs /\ job # JOB_LEAF
    BY <1>5, JobNumbers, KindsExclude DEF NullifierJob, Building
  <2>2. /\ JobInputs(witness, digests, job)
             = <<DOMAIN_NULLIFIER, witness.owner_secret, witness.property_id,
                 witness.purpose, witness.request_nonce>>
        /\ JobAux(witness, job) = Aux(witness.purpose, witness.request_nonce, 0, 0)
        /\ JobBits(witness, job) = NoBits
    BY <2>1, InputsOf, AuxOfJob, JobBitsOf
  <2>3. run_job(<<DOMAIN_NULLIFIER, witness.owner_secret, witness.property_id,
                  witness.purpose, witness.request_nonce>>,
                Aux(witness.purpose, witness.request_nonce, 0, 0), NoBits)
    BY <1>5 DEF NullifierJob
  <2> QED BY <2>1, <2>2, <2>3 DEF JobStep
<1>6. CASE PaddingJob
  <2>1. status = "building" /\ job > JOB_NULLIFIER /\ job \in Jobs
    BY <1>1, <1>6, Numbers DEF PaddingJob, Jobs
  <2>2. job # JOB_LEAF
    BY <2>1, KindsExclude
  <2>3. /\ JobInputs(witness, digests, job) = <<DOMAIN_NODE, Last(digests), 0>>
        /\ JobAux(witness, job) = Aux(0, 0, 0, 0)
        /\ JobBits(witness, job) = NoBits
    BY <1>1, <2>1, <2>2, InputsOf, AuxOfJob, JobBitsOf
  <2>4. run_job(<<DOMAIN_NODE, Last(digests), 0>>, Aux(0, 0, 0, 0), NoBits)
    BY <1>6 DEF PaddingJob
  <2> QED BY <2>1, <2>2, <2>3, <2>4 DEF JobStep
<1> QED BY <1>2, <1>3, <1>4, <1>5, <1>6

\* A job's step adds its rows and its digest.
LEMMA JobRun ==
  ASSUME digests \in Seq(FieldElements), JobStep
  PROVE  /\ trace' = Grown(trace, witness, digests)
         /\ digests' = Append(digests, hash(JobInputs(witness, digests, job)))
         /\ UNCHANGED <<nodes, others, maker, witness, status, pub_inputs, verdict>>
<1> DEFINE inputs == JobInputs(witness, digests, job) aux == JobAux(witness, job)
           bits == JobBits(witness, job) rows == JobRows(inputs, aux, bits)
           start == job_start_row(job) last == job_last_row(job)
<1>1. /\ trace' = [r \in DOMAIN trace \cup DOMAIN rows |->
                     IF r \in DOMAIN rows THEN rows[r] ELSE trace[r]]
      /\ digests' = Append(digests, rows[last].s[0])
      /\ UNCHANGED <<nodes, others, maker, witness, status, pub_inputs, verdict>>
  BY DEF JobStep, run_job
<1>2. /\ job \in Jobs /\ start \in Int /\ last \in Int /\ last = start + (ROUNDS - 1)
      /\ ROUNDS \in Nat /\ ROUNDS >= 2
  <2>1. job \in Jobs
    BY DEF JobStep
  <2>2. job * ROUNDS \in Nat /\ start = job * ROUNDS /\ last = job * ROUNDS + (ROUNDS - 1)
    BY <2>1, Layout, JobEnds DEF job_start_row
  <2> QED BY <2>1, <2>2, Numbers
<1>3. DOMAIN rows = start .. last
  BY DEF JobRows
<1>4. ASSUME NEW r \in start .. last PROVE rows[r] = RowOf(witness, digests, job, r - start)
  <2>1. r \in Int /\ (r = start <=> r - start = 0)
    BY <1>2
  <2>2. rows[r] =
          [s    |-> AfterRounds(Padded(inputs), r - start),
           aux  |-> IF r = start THEN aux ELSE Aux(0, 0, 0, 0),
           held |-> HeldOf(witness),
           t    |-> [k \in JobTypes |-> IF k = job_type_column(job) THEN 1 ELSE 0],
           bit  |-> IF r = start THEN bits ELSE NoBits]
    BY DEF JobRows, HeldOf, NoBits
  <2> QED BY <2>1, <2>2 DEF RowOf
<1> HIDE DEF inputs, aux, bits, rows, start, last
<1>5. rows[last].s[0] = hash(inputs)
  <2>1. last \in start .. last /\ last - start = ROUNDS - 1
    BY <1>2
  <2>2. rows[last] = RowOf(witness, digests, job, ROUNDS - 1)
    BY <1>4, <2>1
  <2> QED BY <2>2, RowStates DEF hash, inputs
<1>6. trace' = [r \in DOMAIN trace \cup (start .. last) |->
                  IF r \in start .. last THEN RowOf(witness, digests, job, r - start)
                                         ELSE trace[r]]
  BY <1>1, <1>3, <1>4
<1>7. trace' = Grown(trace, witness, digests)
  BY <1>6 DEF Grown, job, start, last
<1> QED BY <1>1, <1>5, <1>7 DEF inputs

LEMMA JobStepInv ==
  ASSUME IInv, JobStep
  PROVE  IInv'
<1> DEFINE e == Append(digests, hash(JobInputs(witness, digests, Len(digests))))
           new == Grown(trace, witness, digests)
<1>1. /\ status = "building" /\ job \in Jobs /\ (job = JOB_LEAF => ~DiffRefused)
  BY DEF JobStep
<1>2. /\ Loaded(nodes, witness, digests) /\ RowsOf(trace, witness, digests)
      /\ maker \in Makers /\ IsTree(nodes)
      /\ (maker = "harness" /\ Len(digests) > JOB_LEAF => InRange(witness))
  BY <1>1 DEF IInv
<1>3. /\ witness \in Witnesses /\ DigestsOf(witness, digests)
      /\ digests \in Seq(FieldElements)
  BY <1>2 DEF Loaded, DigestsOf
<1>4. /\ trace' = new /\ digests' = e
      /\ UNCHANGED <<nodes, others, maker, witness, status, pub_inputs, verdict>>
  BY <1>3, JobRun DEF JobStep, job
<1>5. Len(digests) < JOB_COUNT /\ Len(digests) \in Nat
  BY <1>1, <1>3, Numbers DEF Jobs, job
<1>6. DiffOf(witness) \in Int
  <2>1. witness.license_expiry \in Int /\ witness.current_timestamp \in Int
    BY <1>3, WitnessParts, FieldIsInt
  <2> QED BY <2>1 DEF DiffOf
<1>7. /\ PowerOfTwo(RANGE_BITS) \in Int
      /\ Len(digests) = JOB_LEAF => DiffOf(witness) >= 0
      /\ Len(digests) = JOB_LEAF /\ maker = "harness" => InRange(witness)
  <2>1. PowerOfTwo(RANGE_BITS) \in Int
    BY Powers, Numbers
  <2>2. Diff = DiffOf(witness)
    BY DEF Diff, DiffOf
  <2> QED BY <1>1, <1>6, <2>1, <2>2 DEF DiffRefused, InRange, job
<1>8. DigestsOf(witness, e) /\ Len(e) = Len(digests) + 1
  BY <1>3, <1>5, <1>7, DigestsGrow
<1>9. RowsOf(new, witness, e)
  BY <1>2, <1>3, <1>5, <1>7, RowsGrow
<1> HIDE DEF e, new
<1>10. Loaded(nodes, witness, e)
  BY <1>2, <1>8 DEF Loaded
<1>11. maker = "harness" /\ Len(e) > JOB_LEAF => InRange(witness)
  <2>1. Len(e) > JOB_LEAF => Len(digests) > JOB_LEAF \/ Len(digests) = JOB_LEAF
    <3> DEFINE n == Len(digests)
    <3>1. JOB_LEAF = 1 /\ n \in Nat /\ Len(e) = n + 1
      BY <1>5, <1>8, JobNumbers
    <3> HIDE DEF n
    <3>2. n + 1 > 1 => n > 1 \/ n = 1
      BY <3>1
    <3> QED BY <3>1, <3>2 DEF n
  <2> QED BY <1>2, <1>7, <2>1
<1>12. /\ status' = "building" /\ maker' = maker /\ nodes' = nodes /\ witness' = witness
       /\ digests' = e /\ trace' = new
  BY <1>1, <1>4
<1> QED BY <1>2, <1>9, <1>10, <1>11, <1>12 DEF IInv, Statuses, Finished

-----------------------------------------------------------------------------
(* What is done with the trace *)

\* The harness gets past the leaf only with an expiry in range, and a complete
\* build has the root of the tree among its public inputs.
LEMMA BuiltIsComplete ==
  ASSUME IInv, status \in {"built", "written", "checked"}
  PROVE  /\ CompleteBuild(trace, witness, digests) /\ pub_inputs = PubOf(witness, digests)
         /\ pub_inputs.merkle_root = root(nodes)
         /\ maker = "harness" => InRange(witness)
<1>1. /\ Loaded(nodes, witness, digests) /\ RowsOf(trace, witness, digests)
      /\ Len(digests) = JOB_COUNT /\ pub_inputs = PubOf(witness, digests)
      /\ maker = "harness" /\ Len(digests) > JOB_LEAF => InRange(witness)
  BY DEF IInv, Finished
<1>2. witness \in Witnesses /\ DigestsOf(witness, digests)
  BY <1>1 DEF Loaded
<1>3. Len(digests) > JOB_LEAF
  BY <1>1, JobNumbers, Numbers
<1>4. pub_inputs.merkle_root = root(nodes)
  BY <1>1, <1>2, DigestsAgree DEF Loaded
<1> QED BY <1>1, <1>2, <1>3, <1>4 DEF CompleteBuild

LEMMA PanicInv ==
  ASSUME IInv, Panic
  PROVE  IInv'
<1>1. /\ status = "building" /\ status' = "panicked"
      /\ UNCHANGED <<nodes, others, maker, witness, trace, digests, pub_inputs, verdict>>
  BY DEF Panic, Building
<1> QED BY <1>1 DEF IInv, Statuses, Finished

LEMMA FinishInv ==
  ASSUME IInv, Finish
  PROVE  IInv'
<1>1. /\ status = "building" /\ status' = "built" /\ Len(digests) = JOB_COUNT
      /\ pub_inputs' = PubOf(witness, digests)
      /\ UNCHANGED <<nodes, others, maker, witness, trace, digests, verdict>>
  BY DEF Finish, Building, job, PubOf
<1> QED BY <1>1 DEF IInv, Statuses, Finished

LEMMA WriteArgumentsInv ==
  ASSUME IInv, WriteArguments
  PROVE  IInv'
<1>1. /\ status = "built" /\ status' = "written"
      /\ verdict' = Satisfies(trace, pub_inputs)
      /\ UNCHANGED <<nodes, others, maker, witness, trace, digests, pub_inputs>>
  BY DEF WriteArguments
<1>2. CompleteBuild(trace, witness, digests) /\ pub_inputs = PubOf(witness, digests)
  BY <1>1, BuiltIsComplete
<1>3. Satisfies(trace, pub_inputs) <=> InRange(witness)
  BY <1>2, ConstraintsHold, RangeExceeded DEF InRange
<1>4. verdict' <=> InRange(witness)
  BY <1>1, <1>3
<1> QED BY <1>1, <1>4 DEF IInv, Statuses, Finished

LEMMA RunHarnessInv ==
  ASSUME IInv, RunHarness
  PROVE  IInv'
<1> DEFINE first == job_start_row(JOB_LEAF)
           flagged == [trace EXCEPT ![first].aux["b"] = 1]
           twice == [flagged EXCEPT ![1].s[0] = F(@ + 1)]
           Checks ==
             /\ pub_inputs.merkle_root = root(nodes)
             /\ eval_all_constraints(trace, pub_inputs)
             /\ get_assertions(trace, pub_inputs)
             /\ ~LeafAsserted(flagged[first], pub_inputs)
             /\ ~eval_all_constraints(twice, pub_inputs)
             /\ hash(<<DOMAIN_OWNER_COMMITMENT, witness.owner_secret, witness.property_id>>)
                  = trace[job_last_row(JOB_OWNER)].s[0]
<1>1. /\ status = "built" /\ status' = "checked" /\ maker = "harness"
      /\ verdict' = Checks
      /\ UNCHANGED <<nodes, others, maker, witness, trace, digests, pub_inputs>>
  BY DEF RunHarness
<1>2. /\ CompleteBuild(trace, witness, digests) /\ pub_inputs = PubOf(witness, digests)
      /\ pub_inputs.merkle_root = root(nodes) /\ InRange(witness)
  BY <1>1, BuiltIsComplete
<1>3. eval_all_constraints(trace, pub_inputs) /\ get_assertions(trace, pub_inputs)
  BY <1>2, ConstraintsHold, AssertionsHold DEF InRange
<1>4. /\ flagged = PutAt(trace, first, "aux", "b", 1)
      /\ twice = PutAt(flagged, 1, "s", 0, F(flagged[1].s[0] + 1))
  BY DEF PutAt
<1> HIDE DEF flagged, twice
<1>5. /\ ~LeafAsserted(flagged[first], pub_inputs)
      /\ ~eval_all_constraints(twice, pub_inputs)
  BY <1>2, <1>4, HarnessNotices
<1>6. hash(<<DOMAIN_OWNER_COMMITMENT, witness.owner_secret, witness.property_id>>)
        = trace[job_last_row(JOB_OWNER)].s[0]
  <2>1. trace[job_last_row(JOB_OWNER)].s[0] = digests[JOB_OWNER + 1]
    BY <1>2, CompleteRows, JobNumbers
  <2>2. digests[JOB_OWNER + 1] = owner_commitment(witness.owner_secret, witness.property_id)
    BY <1>2, DigestsAgree DEF CompleteBuild
  <2> QED BY <2>1, <2>2 DEF owner_commitment
<1>7. verdict' <=> InRange(witness)
  BY <1>1, <1>2, <1>3, <1>5, <1>6
<1> HIDE DEF Checks
<1> QED BY <1>1, <1>7 DEF IInv, Statuses, Finished

LEMMA TamperInv ==
  ASSUME IInv, TamperCell \/ TamperBit
  PROVE  IInv'
<1>1. /\ status = "built" /\ maker = "harness" /\ status' = "tampered"
      /\ UNCHANGED <<nodes, others, maker, witness, digests, pub_inputs, verdict>>
  BY DEF TamperCell, TamperBit, Tampered
<1>2. RowsOf(trace, witness, digests)
  BY <1>1 DEF IInv
<1>3. CASE TamperCell
  <2>1. PICK cell \in ReadCells :
          trace' = [trace EXCEPT ![cell[1]][cell[2]][cell[3]]
                      = F(trace[cell[1]][cell[2]][cell[3]] + 1)]
    BY <1>3 DEF TamperCell, Tampered
  <2>2. trace' = PutAt(trace, cell[1], cell[2], cell[3],
                       F(trace[cell[1]][cell[2]][cell[3]] + 1))
    BY <2>1 DEF PutAt
  <2>3. Altered(trace', witness, digests)
    BY <1>2, <2>2 DEF Altered
  <2> QED BY <1>1, <2>3 DEF IInv, Statuses, Finished
<1>4. CASE TamperBit
  <2>1. PICK j \in JOB_MERKLE_FIRST .. JOB_MERKLE_LAST, v \in FieldElements \ {0, 1} :
          trace' = [trace EXCEPT ![job_start_row(j)]["aux"]["b"] = v]
    BY <1>4 DEF TamperBit, Tampered
  <2>2. trace' = PutAt(trace, job_start_row(j), "aux", "b", v)
    BY <2>1 DEF PutAt
  <2>3. Altered(trace', witness, digests)
    BY <1>2, <2>2 DEF Altered
  <2> QED BY <1>1, <2>3 DEF IInv, Statuses, Finished
<1> QED BY <1>3, <1>4

-----------------------------------------------------------------------------
(* The theorems *)

LEMMA NextInv == IInv /\ [Next]_vars => IInv'
<1> SUFFICES ASSUME IInv, [Next]_vars PROVE IInv'
  OBVIOUS
<1>1. ASSUME NEW index \in Indexes, NEW leaf \in OtherLeaves, InsertOther(index, leaf)
      PROVE  IInv'
  BY <1>1, InsertOtherInv
<1>2. ASSUME NEW index \in Indexes, NEW secret \in Secrets, NEW ts \in Timestamps,
             NEW e \in Expiries, Load(index, secret, ts, e)
      PROVE  IInv'
  BY <1>2, LoadInv
<1>3. CASE OwnerJob \/ LeafJob \/ (\E level \in 0 .. TREE_DEPTH - 1 : MerkleJob(level))
             \/ NullifierJob \/ PaddingJob
  <2>1. status = "building"
    BY <1>3 DEF OwnerJob, LeafJob, MerkleJob, NullifierJob, PaddingJob, Building
  <2>2. digests \in Seq(FieldElements)
    BY <2>1 DEF IInv, Loaded, DigestsOf
  <2>3. JobStep
    BY <1>3, <2>2, EveryJobIsAStep
  <2> QED BY <2>3, JobStepInv
<1>4. CASE Panic
  BY <1>4, PanicInv
<1>5. CASE Finish
  BY <1>5, FinishInv
<1>6. CASE WriteArguments
  BY <1>6, WriteArgumentsInv
<1>7. CASE RunHarness
  BY <1>7, RunHarnessInv
<1>8. CASE TamperCell \/ TamperBit
  BY <1>8, TamperInv
<1>9. CASE UNCHANGED vars
  BY <1>9 DEF vars, IInv
<1> QED BY <1>1, <1>2, <1>3, <1>4, <1>5, <1>6, <1>7, <1>8, <1>9 DEF Next

LEMMA Invariance == Spec => []IInv
BY InitInv, NextInv, PTL DEF Spec

\* A build in progress is one at all times: there are as many complete rows
\* over the field as the jobs run have, and the public inputs are in the field
\* (build_trace, run_job).
THEOREM TypeCorrect == Spec => []TypeOK
<1>1. ASSUME IInv PROVE TypeOK
  <2>1. \A n \in DOMAIN nodes : n \in Levels \X Indexes /\ nodes[n] \in FieldElements
    BY <1>1 DEF IInv, IsTree
  <2>2. status # "filling" => witness \in Witnesses /\ DigestsOf(witness, digests)
    BY <1>1 DEF IInv, Loaded
  <2>3. DOMAIN trace = 0 .. job * ROUNDS - 1 /\ \A r \in DOMAIN trace : trace[r] \in Row
    <3>1. CASE status = "filling"
      <4>1. trace = None /\ Len(digests) = 0
        BY <1>1, <3>1 DEF IInv
      <4>2. DOMAIN trace = {} /\ 0 * ROUNDS = 0 /\ 0 .. 0 - 1 = {}
        BY <4>1, Numbers DEF None
      <4> QED BY <4>1, <4>2 DEF job
    <3>2. CASE status = "tampered"
      <4>1. /\ Altered(trace, witness, digests) /\ maker = "harness"
            /\ Len(digests) = JOB_COUNT
            /\ (maker = "harness" /\ Len(digests) > JOB_LEAF => InRange(witness))
        BY <1>1, <3>2 DEF IInv, Finished
      <4>2. Len(digests) > JOB_LEAF
        BY <4>1, JobNumbers, Numbers
      <4>3. trace \in [Rows -> Row]
        BY <2>2, <3>2, <4>1, <4>2, AlteredNoticed DEF InRange
      <4>4. Rows = 0 .. job * ROUNDS - 1
        BY <4>1 DEF Rows, TRACE_LENGTH, job
      <4> QED BY <4>3, <4>4
    <3>3. CASE status \notin {"filling", "tampered"}
      <4>1. RowsOf(trace, witness, digests) /\ witness \in Witnesses /\ DigestsOf(witness, digests)
        BY <1>1, <2>2, <3>3 DEF IInv
      <4>2. DOMAIN trace = 0 .. job * ROUNDS - 1
        BY <4>1 DEF RowsOf, job
      <4>3. ASSUME NEW r \in DOMAIN trace PROVE trace[r] \in Row
        BY <4>1, <4>3, RowsAreRows
      <4> QED BY <4>2, <4>3
    <3> QED BY <3>1, <3>2, <3>3
  <2>4. status \in {"built", "tampered", "written", "checked"} => pub_inputs \in StatementInputs
    <3>1. SUFFICES ASSUME status \in Finished PROVE pub_inputs \in StatementInputs
      BY DEF Finished
    <3>2. Len(digests) = JOB_COUNT /\ pub_inputs = PubOf(witness, digests)
      BY <1>1, <3>1 DEF IInv
    <3>3. PubOf(witness, digests) \in StatementInputs
      BY <2>2, <3>1, <3>2, PubInField DEF Finished
    <3> QED BY <3>2, <3>3
  <2> QED BY <1>1, <2>1, <2>3, <2>4 DEF TypeOK, IInv
<1> QED BY <1>1, Invariance, PTL

\* A built trace satisfies every constraint and assertion if the expiry is
\* within the range check: for any tree, leaf, witness, field and sizes
\* (honest_trace_satisfies_every_transition_constraint, and its assertions).
THEOREM BuildsSatisfy == Spec => []BuiltTraceSatisfies
<1>1. ASSUME IInv PROVE BuiltTraceSatisfies
  <2>1. SUFFICES ASSUME status = "built", Diff < PowerOfTwo(RANGE_BITS)
                 PROVE  Satisfies(trace, pub_inputs) /\ eval_all_constraints(trace, pub_inputs)
    BY DEF BuiltTraceSatisfies
  <2>2. CompleteBuild(trace, witness, digests) /\ pub_inputs = PubOf(witness, digests)
    BY <1>1, <2>1, BuiltIsComplete
  <2>3. DiffOf(witness) < PowerOfTwo(RANGE_BITS)
    BY <2>1 DEF DiffOf, Diff
  <2> QED BY <2>2, <2>3, ConstraintsHold
<1> QED BY <1>1, Invariance, PTL

\* The root and the nullifier among the public inputs of a built trace are
\* those the plain hash computes, from the tree and along the witness's path
\* (build_trace_merkle_root_matches_independent_tree, _with_right_child_bits,
\* build_trace_nullifier_matches_plain_hash).
THEOREM PublicInputsAreRight == Spec => []PublicInputsAgree
<1>1. ASSUME IInv PROVE PublicInputsAgree
  <2>1. SUFFICES ASSUME status = "built"
                 PROVE  /\ pub_inputs.merkle_root = root(nodes)
                        /\ root(nodes) =
                             recompute_root(leaf_of(witness.owner_secret, witness.property_id,
                                                    witness.license_expiry),
                                            witness.merkle_siblings, witness.merkle_bits)
                        /\ pub_inputs.nullifier =
                             hash(<<DOMAIN_NULLIFIER, witness.owner_secret, witness.property_id,
                                    witness.purpose, witness.request_nonce>>)
    BY DEF PublicInputsAgree
  <2>2. /\ CompleteBuild(trace, witness, digests) /\ pub_inputs = PubOf(witness, digests)
        /\ pub_inputs.merkle_root = root(nodes) /\ Loaded(nodes, witness, digests)
    BY <1>1, <2>1, BuiltIsComplete DEF IInv
  <2>3. pub_inputs.nullifier =
          hash(<<DOMAIN_NULLIFIER, witness.owner_secret, witness.property_id,
                 witness.purpose, witness.request_nonce>>)
    BY <2>2, DigestsAgree DEF CompleteBuild
  <2> QED BY <2>2, <2>3 DEF Loaded
<1> QED BY <1>1, Invariance, PTL

\* No cell a condition reads can be altered unnoticed, whichever row, column
\* and trace (the tampering checks of the harness,
\* fuzz_boolean_violations_are_caught).
THEOREM TamperingIsNoticed == Spec => []TamperingShows
<1>1. ASSUME IInv PROVE TamperingShows
  <2>1. SUFFICES ASSUME status = "tampered" PROVE ~Satisfies(trace, pub_inputs)
    BY DEF TamperingShows
  <2>2. /\ Loaded(nodes, witness, digests) /\ Len(digests) = JOB_COUNT
        /\ pub_inputs = PubOf(witness, digests)
        /\ maker = "harness" /\ Altered(trace, witness, digests)
        /\ (maker = "harness" /\ Len(digests) > JOB_LEAF => InRange(witness))
    BY <1>1, <2>1 DEF IInv, Finished
  <2>3. Len(digests) > JOB_LEAF
    BY <2>2, JobNumbers, Numbers
  <2> QED BY <2>2, <2>3, AlteredNoticed DEF Loaded, InRange
<1> QED BY <1>1, Invariance, PTL

\* The command line's verdict, and that of the harness, is that the expiry is
\* within the range check (main.rs, e2e_harness.rs).
THEOREM VerdictIsRange == Spec => []VerdictMatchesRange
<1>1. ASSUME IInv PROVE VerdictMatchesRange
  BY <1>1 DEF IInv, VerdictMatchesRange, InRange, DiffOf, Diff
<1> QED BY <1>1, Invariance, PTL
=============================================================================
