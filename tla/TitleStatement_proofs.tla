------------------------ MODULE TitleStatement_proofs ------------------------
(***************************************************************************)
(* Proofs about TitleStatement for every field of prime order, every size  *)
(* of the circuit and every set of statements, held values and siblings.   *)
(*                                                                         *)
(* The inductive invariant (IInv): the trace is a number of complete jobs, *)
(* its rows are in the field, and every transition inside it and every     *)
(* assertion on its jobs' first rows hold.  A complete trace of that form  *)
(* satisfies the circuit, so what TitleAir_proofs shows of all traces that *)
(* do (CircuitSound, CommitmentIfCyclic) holds of it.  Without IInv that   *)
(* says nothing of the traces an author builds here row by row.            *)
(***************************************************************************)
EXTENDS TitleStatement, TitleAir_proofs, FiniteSetTheorems

\* The rows of n jobs, as far as they lie before the next.
PrefixOf(tr, n) ==
  /\ tr \in [0 .. n * ROUNDS - 1 -> Row]
  /\ \A r \in 0 .. n * ROUNDS - 1 : RangeBitsBinary(tr[r])
  /\ \A r \in 0 .. n * ROUNDS - 2 :
       evaluate_transition(tr[r], tr[r + 1], r % ROUNDS, inputs)
  /\ \A j \in 0 .. n - 1 : FirstRowAsserted(j, tr[job_start_row(j)])

IInv ==
  /\ inputs \in Statements
  /\ \E n \in 1 .. JOB_COUNT : PrefixOf(trace, n)

-----------------------------------------------------------------------------
(* What an author writes is in the field *)

LEMMA SmallNumbers == {0, 1, 2, 3, 4} \subseteq FieldElements
BY Numbers DEF FieldElements

LEMMA StatementParts ==
  ASSUME inputs \in Statements
  PROVE  /\ inputs.registry_id \in FieldElements /\ inputs.purpose \in FieldElements
         /\ inputs.request_nonce \in FieldElements
         /\ inputs.current_timestamp \in FieldElements
         /\ inputs.current_timestamp + PowerOfTwo(RANGE_BITS) < Modulus
BY StatementAssumption

LEMMA AuxTyped ==
  /\ \A a, b, c, d \in FieldElements :
       AuxOf(a, b, c, d) \in [{"a", "b", "c", "d"} -> FieldElements]
  /\ inputs \in Statements =>
       \A j : AuxChoices(j) \subseteq [{"a", "b", "c", "d"} -> FieldElements]
<1> DEFINE A == [{"a", "b", "c", "d"} -> FieldElements]
<1>1. \A a, b, c, d \in FieldElements : AuxOf(a, b, c, d) \in A
  BY DEF AuxOf
<1> HIDE DEF A
<1>2. ASSUME inputs \in Statements, NEW j, NEW aux \in AuxChoices(j) PROVE aux \in A
  <2>1. \E a, b, c, d \in FieldElements : aux = AuxOf(a, b, c, d)
    BY <1>2, StatementParts, SmallNumbers, StatementAssumption DEF AuxChoices
  <2> QED BY <1>1, <2>1
<1> QED BY <1>1, <1>2 DEF A

LEMMA TypesTyped == \A j : TypeChoices(j) \subseteq [JobTypes -> FieldElements]
<1> SUFFICES ASSUME NEW j, NEW t \in TypeChoices(j) PROVE t \in [JobTypes -> FieldElements]
  OBVIOUS
<1> DEFINE unit == [x \in JobTypes |-> IF x = job_type_column(j) THEN 1 ELSE 0]
<1>1. unit \in [JobTypes -> FieldElements]
  BY SmallNumbers
<1>2. PICK x \in JobTypes, y \in JobTypes, v \in {0, 1, 3} :
        t = [[unit EXCEPT ![x] = v] EXCEPT ![y] = F(@ - v)]
  BY DEF TypeChoices
<1> HIDE DEF unit
<1> DEFINE u == [unit EXCEPT ![x] = v]
<1>3. u \in [JobTypes -> FieldElements]
  BY <1>1, SmallNumbers
<1>4. t = [u EXCEPT ![y] = F(u[y] - v)]
  BY <1>2
<1> HIDE DEF u
<1>5. F(u[y] - v) \in FieldElements
  <2>1. y \in JobTypes /\ v \in {0, 1, 3}
    BY <1>2
  <2>2. u[y] \in FieldElements
    BY <1>3, <2>1
  <2>3. u[y] \in Int /\ v \in Int
    <3>1. v \in Int
      BY <2>1
    <3>2. \A a \in FieldElements : a \in Int
      BY FieldIsInt
    <3> QED BY <2>2, <3>1, <3>2
  <2>4. \A a, b \in Int : a - b \in Int
    OBVIOUS
  <2>5. u[y] - v \in Int
    BY <2>3, <2>4
  <2> QED BY <2>5, Reduced
<1> QED BY <1>3, <1>4, <1>5

LEMMA HeldTyped ==
  \A secret \in HeldValues : Held(secret) \in [{"secret", "pid"} -> FieldElements]
BY SmallNumbers, StatementAssumption DEF Held

LEMMA BitsTyped ==
  /\ Zeros \in [0 .. RANGE_BITS - 1 -> FieldElements]
  /\ \A i \in 0 .. RANGE_BITS - 1 : Zeros[i] = 0
  /\ \A j : BitChoices(j) \subseteq [0 .. RANGE_BITS - 1 -> FieldElements]
<1>1. /\ Zeros \in [0 .. RANGE_BITS - 1 -> FieldElements]
      /\ \A i \in 0 .. RANGE_BITS - 1 : Zeros[i] = 0
  BY SmallNumbers DEF Zeros
<1>2. [0 .. RANGE_BITS - 1 -> {0, 1, 3}] \subseteq [0 .. RANGE_BITS - 1 -> FieldElements]
  BY SmallNumbers
<1> QED BY <1>1, <1>2 DEF BitChoices

\* A first row is a row, whatever of it is chosen.
LEMMA FirstRowTyped ==
  ASSUME NEW s \in States, NEW aux \in [{"a", "b", "c", "d"} -> FieldElements],
         NEW secret \in HeldValues, NEW j, NEW t \in TypeChoices(j),
         NEW bit \in [0 .. RANGE_BITS - 1 -> FieldElements]
  PROVE  [s |-> s, aux |-> aux, held |-> Held(secret), t |-> t, bit |-> bit] \in Row
BY HeldTyped, TypesTyped DEF Row, States

\* Rows without range bits pass their constraint.
LEMMA NoRangeBits == \A cur : cur.bit = Zeros => RangeBitsBinary(cur)
<1>1. Binary(0)
  BY SmallNumbers, BinaryIsBit DEF Binary
<1> QED BY <1>1, BitsTyped DEF RangeBitsBinary

-----------------------------------------------------------------------------
(* A job's rows *)

\* The rows of a job added to rows, and what is left of those.
LEMMA RowsAdded ==
  ASSUME NEW j \in Jobs, NEW rows \in [0 .. j * ROUNDS - 1 -> Row], NEW first \in Row
  PROVE  LET new == WithJob(rows, j, first) IN
         /\ new \in [0 .. (j + 1) * ROUNDS - 1 -> Row]
         /\ \A r \in 0 .. j * ROUNDS - 1 : new[r] = rows[r]
         /\ new[j * ROUNDS] = first
         /\ \A k \in 0 .. ROUNDS - 1 :
              LET cur == new[j * ROUNDS + k] IN
              /\ cur.s = AfterRounds(first.s, k) /\ cur.held = first.held
              /\ k # 0 => cur.bit = Zeros
<1> DEFINE m == j * ROUNDS
           rest(k) == [s |-> AfterRounds(first.s, k), aux |-> AuxOf(0, 0, 0, 0),
                       held |-> first.held, t |-> [x \in JobTypes |-> 0], bit |-> Zeros]
           new == WithJob(rows, j, first)
<1>1. /\ m \in Nat /\ (j + 1) * ROUNDS = m + ROUNDS /\ ROUNDS \in Nat /\ ROUNDS >= 2
      /\ job_start_row(j) = m /\ job_last_row(j) = m + ROUNDS - 1
  BY Layout, Numbers DEF job_start_row, job_last_row
<1>2. new = [r \in DOMAIN rows \cup (job_start_row(j) .. job_last_row(j)) |->
               IF r \in DOMAIN rows THEN rows[r]
               ELSE IF r = job_start_row(j) THEN first ELSE rest(r - job_start_row(j))]
  BY DEF WithJob
<1>3. \A k \in 0 .. ROUNDS - 1 :
        /\ rest(k) \in Row /\ rest(k).s = AfterRounds(first.s, k)
        /\ rest(k).held = first.held /\ rest(k).bit = Zeros
  <2> SUFFICES ASSUME NEW k \in 0 .. ROUNDS - 1 PROVE rest(k) \in Row
    OBVIOUS
  <2>1. AfterRounds(first.s, k) \in States
    BY RowParts, RoundsInField
  <2>2. first.held \in [{"secret", "pid"} -> FieldElements]
    BY DEF Row
  <2>3. AuxOf(0, 0, 0, 0) \in [{"a", "b", "c", "d"} -> FieldElements]
    BY AuxTyped, SmallNumbers
  <2>4. [x \in JobTypes |-> 0] \in [JobTypes -> FieldElements]
    BY SmallNumbers
  <2> QED BY <2>1, <2>2, <2>3, <2>4, BitsTyped DEF Row, States
<1> HIDE DEF m, rest, new
<1>4. new = [r \in (0 .. m - 1) \cup (m .. m + ROUNDS - 1) |->
               IF r \in 0 .. m - 1 THEN rows[r]
               ELSE IF r = m THEN first ELSE rest(r - m)]
  BY <1>1, <1>2 DEF m
<1>5. (0 .. m - 1) \cup (m .. m + ROUNDS - 1) = 0 .. m + ROUNDS - 1
  BY <1>1
<1>6. \A r \in 0 .. m + ROUNDS - 1 :
        new[r] = IF r \in 0 .. m - 1 THEN rows[r] ELSE IF r = m THEN first ELSE rest(r - m)
  BY <1>4, <1>5
<1>7. \A r \in 0 .. m - 1 : new[r] = rows[r] /\ new[r] \in Row
  <2>1. \A r \in 0 .. m - 1 : r \in 0 .. m + ROUNDS - 1 /\ rows[r] \in Row
    BY <1>1 DEF m
  <2> QED BY <1>6, <2>1
<1>8. new[m] = first
  <2>1. m \in 0 .. m + ROUNDS - 1 /\ m \notin 0 .. m - 1
    BY <1>1
  <2> QED BY <1>6, <2>1
<1>9. ASSUME NEW k \in 0 .. ROUNDS - 1
      PROVE  /\ new[m + k].s = AfterRounds(first.s, k) /\ new[m + k].held = first.held
             /\ k # 0 => new[m + k].bit = Zeros
             /\ new[m + k] \in Row
  <2>1. CASE k = 0
    <3>1. m + 0 = m /\ AfterRounds(first.s, 0) = first.s
      BY <1>1, Rounds
    <3> QED BY <1>8, <2>1, <3>1
  <2>2. CASE k # 0
    <3>1. m + k \in 0 .. m + ROUNDS - 1 /\ m + k \notin 0 .. m - 1 /\ m + k # m
          /\ (m + k) - m = k
      BY <1>1, <2>2
    <3>2. new[m + k] = rest(k)
      BY <1>6, <3>1
    <3> QED BY <1>3, <2>2, <3>2
  <2> QED BY <2>1, <2>2
<1>10. new \in [0 .. m + ROUNDS - 1 -> Row]
  <2>1. \A r \in 0 .. m + ROUNDS - 1 : new[r] \in Row
    <3> SUFFICES ASSUME NEW r \in 0 .. m + ROUNDS - 1 PROVE new[r] \in Row
      OBVIOUS
    <3>1. r \in 0 .. m - 1 \/ (r - m \in 0 .. ROUNDS - 1 /\ m + (r - m) = r)
      BY <1>1
    <3> QED BY <1>7, <1>9, <3>1
  <2> QED BY <1>4, <1>5, <2>1
<1> QED BY <1>1, <1>7, <1>8, <1>9, <1>10 DEF m, new

\* A job whose first row is constrained and follows the rows before it leaves
\* rows that satisfy all constraints between them.
LEMMA PrefixGrows ==
  ASSUME NEW j \in Jobs, NEW rows, PrefixOf(rows, j), NEW first \in Row,
         FirstRowAsserted(j, first), TypeOneHot(first), MerkleBitBinary(first),
         RangeBitsBinary(first), RangeSum(first, inputs),
         j > 0 => /\ first.s = Boundary(rows[j * ROUNDS - 1], first)
                  /\ HeldCopied(rows[j * ROUNDS - 1], first)
  PROVE  PrefixOf(WithJob(rows, j, first), j + 1)
<1> DEFINE m == j * ROUNDS new == WithJob(rows, j, first)
<1>1. /\ m \in Nat /\ (j + 1) * ROUNDS = m + ROUNDS /\ ROUNDS \in Nat /\ ROUNDS >= 2
      /\ j \in Nat /\ job_start_row(j) = m
  BY Layout, Numbers DEF job_start_row
<1>2. /\ new \in [0 .. m + ROUNDS - 1 -> Row]
      /\ \A r \in 0 .. m - 1 : new[r] = rows[r]
      /\ new[m] = first
      /\ \A k \in 0 .. ROUNDS - 1 : /\ new[m + k].s = AfterRounds(first.s, k)
                                    /\ new[m + k].held = first.held
                                    /\ k # 0 => new[m + k].bit = Zeros
  <2>1. rows \in [0 .. j * ROUNDS - 1 -> Row]
    BY DEF PrefixOf
  <2>2. /\ new \in [0 .. (j + 1) * ROUNDS - 1 -> Row]
        /\ \A r \in 0 .. m - 1 : new[r] = rows[r]
        /\ new[m] = first
        /\ \A k \in 0 .. ROUNDS - 1 : /\ new[m + k].s = AfterRounds(first.s, k)
                                      /\ new[m + k].held = first.held
                                      /\ k # 0 => new[m + k].bit = Zeros
    <3> HIDE DEF m
    <3>1. /\ new \in [0 .. (j + 1) * ROUNDS - 1 -> Row]
          /\ \A r \in 0 .. j * ROUNDS - 1 : new[r] = rows[r]
          /\ new[j * ROUNDS] = first
          /\ \A k \in 0 .. ROUNDS - 1 :
               LET cur == new[j * ROUNDS + k] IN
               /\ cur.s = AfterRounds(first.s, k) /\ cur.held = first.held
               /\ k # 0 => cur.bit = Zeros
      BY <2>1, RowsAdded
    <3> HIDE DEF new
    <3> QED BY <3>1 DEF m
  <2> HIDE DEF m, new
  <2> QED BY <1>1, <2>2
<1>3. /\ \A r \in 0 .. m - 1 : RangeBitsBinary(rows[r])
      /\ \A r \in 0 .. m - 2 : evaluate_transition(rows[r], rows[r + 1], r % ROUNDS, inputs)
      /\ \A i \in 0 .. j - 1 : FirstRowAsserted(i, rows[job_start_row(i)])
  BY DEF PrefixOf
<1>4. j > 0 => /\ first.s = Boundary(rows[m - 1], first)
               /\ HeldCopied(rows[m - 1], first)
               /\ m - 1 \in 0 .. m - 1 /\ (m - 1) % ROUNDS = ROUNDS - 1
  <2> SUFFICES ASSUME j > 0
               PROVE  m - 1 \in 0 .. m - 1 /\ (m - 1) % ROUNDS = ROUNDS - 1
    OBVIOUS
  <2>1. j - 1 \in Jobs /\ (j - 1) + 1 = j /\ ROUNDS - 1 \in 0 .. ROUNDS - 1
    BY <1>1, Numbers DEF Jobs
  <2>2. /\ (j - 1) * ROUNDS \in Nat /\ m = (j - 1) * ROUNDS + ROUNDS
        /\ ((j - 1) * ROUNDS + (ROUNDS - 1)) % ROUNDS = ROUNDS - 1
    BY <2>1, Layout
  <2> DEFINE p == (j - 1) * ROUNDS
  <2> HIDE DEF p, m
  <2>3. p \in Nat /\ m = p + ROUNDS /\ (p + (ROUNDS - 1)) % ROUNDS = ROUNDS - 1
    BY <2>2 DEF p
  <2>4. m - 1 = p + (ROUNDS - 1)
    BY <1>1, <2>3
  <2>5. m - 1 \in 0 .. m - 1
    BY <1>1, <2>3
  <2> QED BY <2>3, <2>4, <2>5
<1>5. \A k \in 0 .. ROUNDS - 1 : (m + k) % ROUNDS = k
  BY Layout
<1> HIDE DEF new, m
<1>6. ASSUME NEW k \in 0 .. ROUNDS - 1 PROVE RangeBitsBinary(new[m + k])
  <2>1. CASE k = 0
    <3>1. m + k = m
      BY <1>1, <2>1
    <3> QED BY <1>2, <3>1
  <2>2. CASE k # 0
    BY <1>2, <2>2, NoRangeBits
  <2> QED BY <2>1, <2>2
<1>7. ASSUME NEW r \in 0 .. m + ROUNDS - 1 PROVE RangeBitsBinary(new[r])
  <2>1. r \in 0 .. m - 1 \/ (r - m \in 0 .. ROUNDS - 1 /\ m + (r - m) = r)
    BY <1>1
  <2> QED BY <1>2, <1>3, <1>6, <2>1
<1>8. ASSUME NEW r \in 0 .. m + ROUNDS - 2
      PROVE  evaluate_transition(new[r], new[r + 1], r % ROUNDS, inputs)
  <2>1. CASE r \in 0 .. m - 2
    <3>1. r \in 0 .. m - 1 /\ r + 1 \in 0 .. m - 1
      BY <1>1, <2>1
    <3> QED BY <1>2, <1>3, <2>1, <3>1
  <2>2. CASE r = m - 1
    <3>1. j > 0
      <4> SUFFICES ASSUME j = 0 PROVE FALSE
        BY <1>1
      <4>1. m = 0
        BY <1>1 DEF m
      <4> QED BY <1>1, <2>2, <4>1
    <3>2. r \in 0 .. m - 1 /\ r + 1 = m /\ r % ROUNDS = ROUNDS - 1
      BY <1>1, <1>4, <2>2, <3>1
    <3>3. new[r] = rows[m - 1] /\ new[r + 1] = first /\ RangeBitsBinary(rows[m - 1])
      BY <1>2, <1>3, <2>2, <3>2
    <3>4. LanesFollow(new[r], new[r + 1], r % ROUNDS) /\ HeldCopied(new[r], new[r + 1])
      BY <1>4, <3>1, <3>2, <3>3 DEF LanesFollow
    <3>5. r % ROUNDS # 0
      BY <1>1, <3>2
    <3> QED BY <3>3, <3>4, <3>5 DEF evaluate_transition
  <2>3. CASE r \notin 0 .. m - 1
    <3> DEFINE k == r - m
    <3>1. /\ k \in 0 .. ROUNDS - 1 /\ k + 1 \in 0 .. ROUNDS - 1 /\ k \in Nat /\ k # ROUNDS - 1
          /\ r = m + k /\ r + 1 = m + (k + 1)
      BY <1>1, <2>3
    <3> HIDE DEF k
    <3>2. new[m + (k + 1)].s = apply_round(new[m + k].s, RoundConstants[k])
      BY <1>2, <3>1, Rounds
    <3>3. LanesFollow(new[r], new[r + 1], k) /\ HeldCopied(new[r], new[r + 1])
      BY <1>2, <3>1, <3>2 DEF LanesFollow, HeldCopied
    <3>4. k = 0 => new[r] = first
      BY <1>1, <1>2, <3>1
    <3>5. r % ROUNDS = k /\ RangeBitsBinary(new[r])
      BY <1>5, <1>6, <3>1
    <3> QED BY <3>3, <3>4, <3>5 DEF evaluate_transition
  <2>4. r \in 0 .. m - 2 \/ r = m - 1 \/ r \notin 0 .. m - 1
    BY <1>1
  <2> QED BY <2>1, <2>2, <2>3, <2>4
<1>9. ASSUME NEW i \in 0 .. (j + 1) - 1 PROVE FirstRowAsserted(i, new[job_start_row(i)])
  <2>1. CASE i = j
    BY <1>1, <1>2, <2>1
  <2>2. CASE i # j
    <3>1. i \in 0 .. j - 1 /\ i \in Jobs /\ i < j
      BY <1>1, <2>2, Numbers DEF Jobs
    <3>2. job_start_row(i) \in 0 .. m - 1
      <4>1. /\ i * ROUNDS \in Nat /\ j - i - 1 \in Nat /\ (j - i - 1) * ROUNDS \in Nat
            /\ j = i + 1 + (j - i - 1)
        BY <1>1, <3>1, Numbers
      <4>2. (i + 1 + (j - i - 1)) * ROUNDS = i * ROUNDS + ROUNDS + (j - i - 1) * ROUNDS
        BY <1>1, <3>1, <4>1
      <4> DEFINE x == i * ROUNDS y == (j - i - 1) * ROUNDS
      <4>3. m = x + ROUNDS + y /\ x \in Nat /\ y \in Nat
        BY <4>1, <4>2 DEF m
      <4> HIDE DEF x, y
      <4>4. x \in 0 .. m - 1
        BY <1>1, <4>3
      <4> QED BY <4>4 DEF job_start_row, x
    <3> QED BY <1>2, <1>3, <3>1, <3>2
  <2> QED BY <2>1, <2>2
<1> DEFINE e == (j + 1) * ROUNDS
<1>10. e - 1 = m + ROUNDS - 1 /\ e - 2 = m + ROUNDS - 2
  BY <1>1
<1> HIDE DEF e
<1>11. /\ new \in [0 .. e - 1 -> Row]
       /\ \A r \in 0 .. e - 1 : RangeBitsBinary(new[r])
       /\ \A r \in 0 .. e - 2 : evaluate_transition(new[r], new[r + 1], r % ROUNDS, inputs)
  BY <1>2, <1>7, <1>8, <1>10
<1> QED BY <1>9, <1>11 DEF PrefixOf, new, e

-----------------------------------------------------------------------------
(* The invariant *)

\* The trace consists of as many jobs as its rows make up.
LEMMA JobsCounted ==
  ASSUME NEW n \in 1 .. JOB_COUNT, PrefixOf(trace, n)
  PROVE  jobs = n
<1> DEFINE m == n * ROUNDS
<1>1. n \in Nat /\ ROUNDS \in Nat \ {0} /\ m \in Nat
  BY Numbers
<1>2. m \div ROUNDS = n
  <2>1. \A x \in Int : x = ROUNDS * n + 0 => x \div ROUNDS = n
    BY <1>1
  <2>2. m = ROUNDS * n + 0
    BY <1>1
  <2> QED BY <1>1, <2>1, <2>2
<1>3. DOMAIN trace = 0 .. m - 1
  BY DEF PrefixOf
<1> HIDE DEF m
<1>4. Cardinality(0 .. m - 1) = m
  <2>1. 0 \in Int /\ m - 1 \in Int
    BY <1>1
  <2>2. Cardinality(0 .. m - 1) = IF 0 > m - 1 THEN 0 ELSE (m - 1) - 0 + 1
    BY <2>1, FS_Interval
  <2> QED BY <1>1, <2>2
<1> QED BY <1>2, <1>3, <1>4 DEF jobs

\* No rows are no jobs.
LEMMA NoRows == PrefixOf(<<>>, 0)
<1>1. 0 * ROUNDS = 0
  BY Numbers
<1>2. 0 .. 0 * ROUNDS - 1 = {} /\ 0 .. 0 * ROUNDS - 2 = {} /\ 0 .. 0 - 1 = {}
  BY <1>1
<1>3. <<>> \in [{} -> Row]
  OBVIOUS
<1> QED BY <1>2, <1>3 DEF PrefixOf

\* The first row of the trace (Init).
LEMMA InitIInv == Init => IInv
<1> SUFFICES ASSUME Init PROVE IInv
  OBVIOUS
<1> DEFINE firstRow(s, secret, t) ==
             [s |-> s, aux |-> AuxOf(0, 0, 0, 0), held |-> Held(secret), t |-> t, bit |-> Zeros]
<1>0. inputs \in Statements
  BY DEF Init
<1>1. PICK secret \in HeldValues, t \in TypeChoices(JOB_OWNER),
           s \in {Padded(<<DOMAIN_OWNER_COMMITMENT, other, 4>>) : other \in HeldValues}
                   \cup {OddState} :
        /\ FirstRowAsserted(JOB_OWNER, firstRow(s, secret, t))
        /\ TypeOneHot(firstRow(s, secret, t))
        /\ trace = WithJob(<<>>, JOB_OWNER, firstRow(s, secret, t))
  BY DEF Init
<1> DEFINE first == firstRow(s, secret, t)
<1>2. s \in States
  <2>1. CASE s = OddState
    BY <2>1, StatementAssumption DEF States
  <2>2. ASSUME NEW other \in HeldValues, s = Padded(<<DOMAIN_OWNER_COMMITMENT, other, 4>>)
        PROVE  s \in States
    <3>1. /\ DOMAIN_OWNER_COMMITMENT \in FieldElements /\ other \in FieldElements
          /\ 4 \in FieldElements
      BY SmallNumbers, StatementAssumption DEF DOMAIN_OWNER_COMMITMENT
    <3> QED BY <2>2, <3>1, Inputs, PaddedInField
  <2> QED BY <1>1, <2>1, <2>2
<1>3. first \in Row
  <2>1. AuxOf(0, 0, 0, 0) \in [{"a", "b", "c", "d"} -> FieldElements]
    BY AuxTyped, SmallNumbers
  <2> QED BY <1>1, <1>2, <2>1, BitsTyped, FirstRowTyped
<1>4. /\ first.bit = Zeros /\ first.aux["b"] = 0 /\ first.aux["d"] = 0
  BY DEF AuxOf
<1>5. FirstRowAsserted(JOB_OWNER, first) /\ TypeOneHot(first)
      /\ trace = WithJob(<<>>, JOB_OWNER, first)
  BY <1>1
<1> HIDE DEF first
<1>6. first.t["merkle"] = 0 /\ first.t["leaf"] = 0
  <2>1. first.t["owner"] = 1 /\ "owner" \in JobTypes
    BY <1>5, JobNumbers DEF FirstRowAsserted, JobTypes
  <2>2. \A x \in JobTypes : first.t[x] = IF x = "owner" THEN 1 ELSE 0
    BY <1>3, <1>5, <2>1, OneHot
  <2> QED BY <2>2 DEF JobTypes
<1>7. F(0) = 0
  BY SmallNumbers, FieldIsInt
<1>8. MerkleBitBinary(first)
  <2>1. 0 * (0 * 0 - 0) = 0
    OBVIOUS
  <2> QED BY <1>4, <1>6, <1>7, <2>1 DEF MerkleBitBinary
<1>9. RangeSum(first, inputs)
  <2>1. \A i \in 0 .. RANGE_BITS - 1 : first.bit[i] \in {0, 1}
    BY <1>4, BitsTyped
  <2>2. Weighted(first) \in Int
    <3>1. PowerOfTwo(RANGE_BITS) \in Nat
      BY Powers, Numbers
    <3> QED BY <2>1, <3>1, BitsSpell
  <2>3. inputs.current_timestamp \in Int
    BY <1>0, StatementParts, FieldIsInt
  <2>4. 0 * (Weighted(first) - (0 - inputs.current_timestamp - 1)) = 0
    BY <2>2, <2>3
  <2> QED BY <1>4, <1>6, <1>7, <2>4 DEF RangeSum
<1>10. RangeBitsBinary(first)
  BY <1>4, NoRangeBits
<1>11. PrefixOf(WithJob(<<>>, JOB_OWNER, first), 1)
  <2>1. 0 \in Jobs /\ JOB_OWNER = 0 /\ ~(0 > 0) /\ 0 + 1 = 1
    BY JobNumbers
  <2>2. PrefixOf(WithJob(<<>>, 0, first), 0 + 1)
    BY <1>3, <1>5, <1>8, <1>9, <1>10, <2>1, NoRows, PrefixGrows
  <2> QED BY <2>1, <2>2
<1>12. 1 \in 1 .. JOB_COUNT
  BY Numbers
<1> QED BY <1>0, <1>5, <1>11, <1>12 DEF IInv

\* A job more (Extend): its first row follows the last row of the job before.
LEMMA ExtendIInv == IInv /\ Extend => IInv'
<1> SUFFICES ASSUME IInv, Extend PROVE IInv'
  OBVIOUS
<1>0. inputs \in Statements /\ inputs' = inputs
  BY DEF IInv, Extend
<1>1. PICK n \in 1 .. JOB_COUNT : PrefixOf(trace, n)
  BY DEF IInv
<1>2. jobs = n
  BY <1>1, JobsCounted
<1> DEFINE last == trace[job_start_row(n) - 1]
           state(t, aux) == Boundary(last, [t |-> t, aux |-> aux])
           firstRow(secret, t, aux, bit) ==
             [s |-> state(t, aux), aux |-> aux, held |-> Held(secret), t |-> t, bit |-> bit]
<1>3. n < JOB_COUNT /\ n \in Jobs /\ n \in Nat /\ n > 0 /\ n + 1 \in 1 .. JOB_COUNT
  BY <1>1, <1>2, Numbers DEF Extend, Jobs
<1>4. PICK secret \in HeldValues, t \in TypeChoices(n), aux \in AuxChoices(n),
           bit \in BitChoices(n) :
        /\ HeldCopied(last, [held |-> Held(secret)])
        /\ TypeOneHot([t |-> t])
        /\ FirstRowAsserted(n, firstRow(secret, t, aux, bit))
        /\ MerkleBitBinary(firstRow(secret, t, aux, bit))
        /\ RangeBitsBinary(firstRow(secret, t, aux, bit))
        /\ RangeSum(firstRow(secret, t, aux, bit), inputs)
        /\ trace' = WithJob(trace, n, firstRow(secret, t, aux, bit))
  BY <1>2 DEF Extend
<1> DEFINE first == firstRow(secret, t, aux, bit)
<1>5. last \in Row /\ job_start_row(n) - 1 = n * ROUNDS - 1
  <2> DEFINE m == n * ROUNDS
  <2>1. m \in Nat /\ m >= 1
    <3>1. n - 1 \in Nat /\ (n - 1) * ROUNDS \in Nat
          /\ m = (n - 1) * ROUNDS + ROUNDS
      BY <1>3, Numbers
    <3> DEFINE x == (n - 1) * ROUNDS
    <3> HIDE DEF m, x
    <3>2. x \in Nat /\ m = x + ROUNDS
      BY <3>1 DEF x
    <3> QED BY <3>2, Numbers
  <2>2. trace \in [0 .. m - 1 -> Row] /\ job_start_row(n) = m
    BY <1>1 DEF PrefixOf, job_start_row
  <2> HIDE DEF m
  <2>3. m - 1 \in 0 .. m - 1
    BY <2>1
  <2> QED BY <2>2, <2>3 DEF m
<1> HIDE DEF last
<1>6. aux \in [{"a", "b", "c", "d"} -> FieldElements]
      /\ bit \in [0 .. RANGE_BITS - 1 -> FieldElements]
  BY <1>0, <1>4, AuxTyped, BitsTyped
<1>7. state(t, aux) \in States
  <2> DEFINE nxt == [s |-> last.s, aux |-> aux, held |-> Held(secret), t |-> t, bit |-> bit]
  <2>1. last.s \in States
    BY <1>5, RowParts
  <2>2. nxt \in Row
    BY <1>4, <1>6, <2>1, FirstRowTyped
  <2>3. nxt.t = t /\ nxt.aux = aux
    OBVIOUS
  <2> HIDE DEF nxt
  <2>4. Boundary(last, nxt) = state(t, aux)
    BY <2>3 DEF Boundary
  <2> QED BY <1>5, <2>2, <2>4, BoundaryOf
<1>8. first \in Row
  <2> HIDE DEF state
  <2> QED BY <1>4, <1>6, <1>7, FirstRowTyped
<1>9. first.s = state(t, aux) /\ first.t = t /\ first.aux = aux /\ first.held = Held(secret)
  OBVIOUS
<1>10. /\ FirstRowAsserted(n, first) /\ MerkleBitBinary(first) /\ RangeBitsBinary(first)
       /\ RangeSum(first, inputs) /\ trace' = WithJob(trace, n, first)
  BY <1>4
<1> HIDE DEF first
<1>11. TypeOneHot(first)
  BY <1>4, <1>9 DEF TypeOneHot
<1>12. first.s = Boundary(last, first)
  BY <1>9 DEF Boundary
<1>13. HeldCopied(last, first)
  BY <1>4, <1>9 DEF HeldCopied
<1>14. PrefixOf(WithJob(trace, n, first), n + 1)
  BY <1>1, <1>3, <1>5, <1>8, <1>10, <1>11, <1>12, <1>13, PrefixGrows DEF last
<1>15. PrefixOf(trace, n + 1)'
  BY <1>0, <1>10, <1>14 DEF PrefixOf, FirstRowAsserted
<1> QED BY <1>0, <1>3, <1>15 DEF IInv

\* Every trace an author builds is in the field, job by job, and satisfies all
\* constraints between its rows and all assertions on the jobs begun.
THEOREM RowsSatisfy == Spec => []IInv
<1>1. IInv /\ [Next]_vars => IInv'
  <2> SUFFICES ASSUME IInv, [Next]_vars PROVE IInv'
    OBVIOUS
  <2>1. CASE Extend
    BY <2>1, ExtendIInv
  <2>2. CASE UNCHANGED vars
    BY <2>2 DEF IInv, PrefixOf, FirstRowAsserted, vars
  <2> QED BY <2>1, <2>2 DEF Next
<1> QED BY <1>1, InitIInv, PTL DEF Spec

-----------------------------------------------------------------------------
(* What complete traces show *)

\* A complete trace satisfies the circuit for its public inputs.
LEMMA CompleteSatisfies ==
  ASSUME IInv, Complete
  PROVE  /\ trace \in [Rows -> Row] /\ pub_inputs \in StatementInputs
         /\ Satisfies(trace, pub_inputs)
<1>1. PrefixOf(trace, JOB_COUNT)
  <2>1. PICK n \in 1 .. JOB_COUNT : PrefixOf(trace, n)
    BY DEF IInv
  <2> QED BY <2>1, JobsCounted DEF Complete
<1>2. trace \in [Rows -> Row]
  BY <1>1 DEF PrefixOf, Rows, TRACE_LENGTH
<1>3. /\ pub_inputs.registry_id = inputs.registry_id /\ pub_inputs.purpose = inputs.purpose
      /\ pub_inputs.request_nonce = inputs.request_nonce
      /\ pub_inputs.current_timestamp = inputs.current_timestamp
      /\ pub_inputs.merkle_root = trace[job_last_row(JOB_MERKLE_LAST)].s[0]
      /\ pub_inputs.nullifier = trace[job_last_row(JOB_NULLIFIER)].s[0]
  BY DEF pub_inputs
<1>4. pub_inputs \in StatementInputs
  <2>1. \A r \in Rows : trace[r].s[0] \in FieldElements
    BY <1>2, RowParts, LaneNumbers DEF States
  <2>2. job_last_row(JOB_MERKLE_LAST) \in Rows /\ job_last_row(JOB_NULLIFIER) \in Rows
    BY JobNumbers, JobEnds
  <2>3. inputs \in Statements
    BY DEF IInv
  <2> QED BY <2>1, <2>2, <2>3, StatementParts DEF pub_inputs, StatementInputs
<1> HIDE DEF pub_inputs
<1>5. \A r \in 0 .. TRACE_LENGTH - 2 :
        evaluate_transition(trace[r], trace[r + 1], r % ROUNDS, pub_inputs)
  BY <1>1, <1>3 DEF PrefixOf, TRACE_LENGTH, evaluate_transition, RangeSum
<1>6. get_assertions(trace, pub_inputs)
  <2>1. \A j \in Jobs : FirstRowAsserted(j, trace[job_start_row(j)])
    BY <1>1 DEF PrefixOf, Jobs
  <2>2. \A j \in Jobs : trace[job_start_row(j)].t[job_type_column(j)] = 1
    BY <2>1 DEF FirstRowAsserted
  <2>3. LeafAsserted(trace[job_start_row(JOB_LEAF)], pub_inputs)
    BY <1>3, <2>1, JobNumbers DEF FirstRowAsserted, LeafAsserted
  <2>4. NullifierAsserted(trace[job_start_row(JOB_NULLIFIER)], pub_inputs)
    BY <1>3, <2>1, JobNumbers DEF FirstRowAsserted, NullifierAsserted
  <2> QED BY <1>3, <2>2, <2>3, <2>4 DEF get_assertions
<1> QED BY <1>2, <1>4, <1>5, <1>6 DEF Satisfies

\* Conditions 2 to 6 of the statement hold of every complete trace an author
\* can build, and it satisfies the circuit (evaluate_transition,
\* get_assertions).
THEOREM StatementShown == Spec => []ConditionsTwoToSix
<1>1. IInv => ConditionsTwoToSix
  <2> SUFFICES ASSUME IInv, Complete
               PROVE  Satisfies(trace, pub_inputs) /\ ConditionsHold(trace, pub_inputs)
    <3>1. /\ pub_inputs.registry_id = inputs.registry_id
          /\ pub_inputs.purpose = inputs.purpose
          /\ pub_inputs.request_nonce = inputs.request_nonce
          /\ pub_inputs.current_timestamp = inputs.current_timestamp
      BY DEF pub_inputs
    <3> HIDE DEF pub_inputs
    <3> QED BY <3>1 DEF ConditionsTwoToSix, ConditionsHold, leaf_row, merkle_row,
                        commitment_of, secret_of, pid_of
  <2>1. /\ trace \in [Rows -> Row] /\ pub_inputs \in StatementInputs
        /\ Satisfies(trace, pub_inputs)
    BY CompleteSatisfies
  <2>2. pub_inputs.current_timestamp + PowerOfTwo(RANGE_BITS) < Modulus
    BY StatementParts DEF IInv, pub_inputs
  <2> QED BY <2>1, <2>2, CircuitSound
<1> QED BY <1>1, RowsSatisfy, PTL

\* If the first row followed the last, as eval_all_constraints of the harness
\* takes it, a complete trace would show condition 1 as well.
THEOREM CommitmentShownIfCyclic == Spec => []ConditionOneIfCyclic
<1>1. IInv => ConditionOneIfCyclic
  BY CompleteSatisfies, CommitmentIfCyclic
     DEF ConditionOneIfCyclic, CommitmentHolds, commitment_of, secret_of, pid_of
<1> QED BY <1>1, RowsSatisfy, PTL
=============================================================================
