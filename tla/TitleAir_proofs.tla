--------------------------- MODULE TitleAir_proofs ---------------------------
(***************************************************************************)
(* What the circuit of TitleAir proves, for every trace, every field of    *)
(* prime order, every depth, number of rounds and jobs, width of the range *)
(* check and round constants; and that the path taken from a sparse tree   *)
(* leads to its root.                                                      *)
(*                                                                         *)
(* The parts build on each other: reduction modulo a prime; the recursive  *)
(* functions one step at a time, by instances of LevelRecursion; states    *)
(* and hashes; the rows of the jobs; what the boundary constraint makes of *)
(* a one-hot row; how a job's digest follows from its first row; then      *)
(* conditions 2 to 6 of the statement (CircuitSound), and condition 1 if   *)
(* the first row followed the last (CommitmentIfCyclic).                   *)
(***************************************************************************)
EXTENDS SparseTree, TLAPS

-----------------------------------------------------------------------------
(* The field *)

\* What AirAssumption and FieldAssumption say of the numbers.
LEMMA Numbers ==
  /\ Modulus \in Nat /\ Modulus > 4
  /\ TREE_DEPTH \in Nat \ {0} /\ ROUNDS \in Nat /\ ROUNDS >= 2
  /\ JOB_COUNT \in Nat /\ JOB_COUNT >= 3 + TREE_DEPTH
  /\ RANGE_BITS \in Nat
BY AirAssumption, FieldAssumption

\* Reduction leaves the remainder.
LEMMA Reduced ==
  \A x \in Int : /\ F(x) \in FieldElements
                 /\ F(x) \in Int /\ 0 <= F(x) /\ F(x) < Modulus
                 /\ \E q \in Int : x = Modulus * q + F(x)
<1> SUFFICES ASSUME NEW x \in Int
             PROVE  /\ F(x) \in FieldElements
                    /\ F(x) \in Int /\ 0 <= F(x) /\ F(x) < Modulus
                    /\ \E q \in Int : x = Modulus * q + F(x)
  OBVIOUS
<1>1. x % Modulus \in 0 .. Modulus - 1
  BY Numbers
<1>2. x \div Modulus \in Int /\ x = Modulus * (x \div Modulus) + (x % Modulus)
  BY Numbers
<1>3. F(x) \in 0 .. Modulus - 1 /\ x = Modulus * (x \div Modulus) + F(x)
  BY <1>1, <1>2 DEF F
<1>4. \E q \in Int : x = Modulus * q + F(x)
  BY <1>2, <1>3
<1>5. F(x) \in FieldElements /\ F(x) \in Int /\ 0 <= F(x) /\ F(x) < Modulus
  BY <1>3, Numbers DEF FieldElements
<1> QED BY <1>4, <1>5

LEMMA Remainder ==
  \A x, q \in Int : \A r \in FieldElements : x = Modulus * q + r => F(x) = r
BY Numbers DEF F, FieldElements

LEMMA FieldIsInt == FieldElements \subseteq Int /\ \A x \in FieldElements : F(x) = x
<1>1. FieldElements \subseteq Int
  BY Numbers DEF FieldElements
<1>2. ASSUME NEW x \in FieldElements PROVE F(x) = x
  <2>1. x = Modulus * 0 + x
    BY <1>1, Numbers
  <2> QED BY <1>1, <2>1, Remainder
<1> QED BY <1>1, <1>2

\* Multiples of the modulus make no difference.
LEMMA Shifted ==
  \A x, k \in Int : F(x + Modulus * k) = F(x)
<1> SUFFICES ASSUME NEW x \in Int, NEW k \in Int PROVE F(x + Modulus * k) = F(x)
  OBVIOUS
<1>1. PICK q \in Int : x = Modulus * q + F(x)
  BY Reduced
<1>2. Modulus * (q + k) = Modulus * q + Modulus * k /\ q + k \in Int
      /\ Modulus * q \in Int /\ Modulus * k \in Int
  BY Numbers
<1>3. F(x) \in FieldElements /\ F(x) \in Int
  BY Reduced
<1>4. x + Modulus * k = Modulus * (q + k) + F(x)
  BY <1>1, <1>2, <1>3
<1>5. x + Modulus * k \in Int
  BY <1>2
<1> QED BY <1>2, <1>3, <1>4, <1>5, Remainder

\* Reducing earlier makes no difference to sums and products.
LEMMA ReducedSum == \A x, y \in Int : F(x + F(y)) = F(x + y)
<1> SUFFICES ASSUME NEW x \in Int, NEW y \in Int PROVE F(x + F(y)) = F(x + y)
  OBVIOUS
<1>1. PICK q \in Int : y = Modulus * q + F(y)
  BY Reduced
<1>2. F(y) \in Int /\ Modulus * q \in Int
  BY Reduced, Numbers
<1>3. x + y = (x + F(y)) + Modulus * q /\ x + F(y) \in Int
  BY <1>1, <1>2
<1> QED BY <1>3, Shifted

LEMMA ReducedProduct == \A x, y \in Int : F(x * F(y)) = F(x * y)
<1> SUFFICES ASSUME NEW x \in Int, NEW y \in Int PROVE F(x * F(y)) = F(x * y)
  OBVIOUS
<1>1. PICK q \in Int : y = Modulus * q + F(y)
  BY Reduced
<1>2. F(y) \in Int /\ x * F(y) \in Int /\ x * q \in Int
  BY Reduced
<1>3. x * y = x * F(y) + Modulus * (x * q)
  BY <1>1, <1>2, Numbers
<1> QED BY <1>2, <1>3, Shifted

\* Numbers closer than the modulus that reduce alike are equal.
LEMMA Near ==
  \A x, y \in Int : F(x) = F(y) /\ x - y < Modulus /\ y - x < Modulus => x = y
<1> SUFFICES ASSUME NEW x \in Int, NEW y \in Int, F(x) = F(y), x - y < Modulus, y - x < Modulus
             PROVE  x = y
  OBVIOUS
<1>1. PICK q \in Int : x = Modulus * q + F(x)
  BY Reduced
<1>2. PICK p \in Int : y = Modulus * p + F(x)
  BY Reduced
<1>3. F(x) \in Int /\ Modulus * q \in Int /\ Modulus * p \in Int
  BY Reduced, Numbers
<1>4. \A k \in Int : k >= 1 => Modulus * k >= Modulus
  BY Numbers
<1>5. /\ Modulus * (q - p) = Modulus * q - Modulus * p
      /\ Modulus * (p - q) = Modulus * p - Modulus * q
      /\ q - p \in Int /\ p - q \in Int
  BY Numbers
<1>6. ~(q - p >= 1) /\ ~(p - q >= 1)
  BY <1>1, <1>2, <1>3, <1>4, <1>5, Numbers
<1>7. q = p
  BY <1>6
<1> QED BY <1>1, <1>2, <1>7

\* A product is zero only if a factor is.
LEMMA NoZeroDivisors == \A x, y \in Int : F(x * y) = 0 => F(x) = 0 \/ F(y) = 0
<1> SUFFICES ASSUME NEW x \in Int, NEW y \in Int, F(x * y) = 0 PROVE F(x) = 0 \/ F(y) = 0
  OBVIOUS
<1>1. F(x) \in FieldElements /\ F(y) \in FieldElements /\ F(x) \in Int /\ F(y) \in Int
  BY Reduced
<1>2. F(x * y) = F(x * F(y)) /\ F(F(y) * x) = F(F(y) * F(x))
  BY <1>1, ReducedProduct
<1>3. x * F(y) = F(y) * x /\ F(y) * F(x) = F(x) * F(y)
  BY <1>1
<1>4. F(F(x) * F(y)) = 0
  BY <1>2, <1>3
<1> QED BY <1>1, <1>4, AirAssumption

\* A cell with b * b - b = 0 is a bit.
LEMMA BinaryIsBit == \A b \in FieldElements : F(b * b - b) = 0 <=> b \in {0, 1}
<1> SUFFICES ASSUME NEW b \in FieldElements PROVE F(b * b - b) = 0 <=> b \in {0, 1}
  OBVIOUS
<1>1. b \in Int /\ 0 <= b /\ b < Modulus /\ 0 \in FieldElements
  BY Numbers DEF FieldElements
<1>2. b \in {0, 1} => F(b * b - b) = 0
  <2>1. F(0) = 0
    BY <1>1, FieldIsInt
  <2>2. 0 * 0 - 0 = 0 /\ 1 * 1 - 1 = 0
    OBVIOUS
  <2> QED BY <2>1, <2>2
<1>3. ASSUME F(b * b - b) = 0, b # 0, b # 1 PROVE FALSE
  <2>1. b * b - b = b * (b - 1) /\ b - 1 \in FieldElements
    BY <1>1, <1>3, Numbers DEF FieldElements
  <2>2. F(b * (b - 1)) = 0
    BY <1>3, <2>1
  <2> QED BY <1>1, <1>3, <2>1, <2>2, AirAssumption
<1> QED BY <1>2, <1>3
-----------------------------------------------------------------------------
(* The recursive functions of the circuit, step by step *)

PowerRec == INSTANCE LevelRecursion WITH
  Base <- LAMBDA a : 1, Step <- LAMBDA a, l, x : 2 * x

RoundRec == INSTANCE LevelRecursion WITH
  Base <- LAMBDA a : a, Step <- LAMBDA a, l, x : apply_round(x, RoundConstants[l - 1])

SumRec == INSTANCE LevelRecursion WITH
  Base <- LAMBDA a : 0, Step <- LAMBDA a, l, x : x + a.bit[l - 1] * PowerOfTwo(l - 1)

HalfRec == INSTANCE LevelRecursion WITH
  Base <- LAMBDA a : a, Step <- LAMBDA a, l, x : x \div 2

UpRec == INSTANCE LevelRecursion WITH
  Base <- LAMBDA a : a[1],
  Step <- LAMBDA a, l, x : Parent(x, a[2][l - 1], a[3][l - 1])

\* Powers of two double, and are positive.
LEMMA Powers ==
  /\ PowerOfTwo(0) = 1
  /\ \A n \in Nat : /\ PowerOfTwo(n) \in Nat /\ PowerOfTwo(n) >= 1
                    /\ PowerOfTwo(n + 1) = 2 * PowerOfTwo(n)
<1>1. \A n : PowerOfTwo(n) = PowerRec!At(0, n)
  BY DEF PowerOfTwo, PowerRec!At
<1>2. PowerOfTwo(0) = 1 /\ \A n \in Nat : PowerOfTwo(n + 1) = 2 * PowerOfTwo(n)
  BY <1>1, PowerRec!Unfold
<1>3. ASSUME NEW n \in Nat PROVE PowerOfTwo(n) \in Nat /\ PowerOfTwo(n) >= 1
  <2> DEFINE S == {k \in 0..n : PowerOfTwo(k) \in Nat /\ PowerOfTwo(k) >= 1}
  <2>1. 0 \in S
    BY <1>2
  <2>2. ASSUME NEW k \in 0 .. n - 1, k \in S PROVE k + 1 \in S
    <3>1. PowerOfTwo(k) \in Nat /\ PowerOfTwo(k) >= 1 /\ k \in Nat /\ k + 1 \in 0..n
      BY <2>2
    <3>2. PowerOfTwo(k + 1) = 2 * PowerOfTwo(k)
      BY <1>2, <3>1
    <3>3. PowerOfTwo(k + 1) \in Nat /\ PowerOfTwo(k + 1) >= 1
      BY <3>1, <3>2
    <3> QED BY <3>1, <3>3
  <2> HIDE DEF S
  <2>3. 0..n \subseteq S
    BY <2>1, <2>2, PowerRec!UpTo
  <2> QED BY <2>3 DEF S
<1> QED BY <1>2, <1>3

\* A job's states, round by round.
LEMMA Rounds ==
  /\ \A s : AfterRounds(s, 0) = s
  /\ \A s : \A n \in Nat :
       AfterRounds(s, n + 1) = apply_round(AfterRounds(s, n), RoundConstants[n])
<1>1. \A s, n : AfterRounds(s, n) = RoundRec!At(s, n)
  BY DEF AfterRounds, RoundRec!At
<1>2. \A s : AfterRounds(s, 0) = s
  BY <1>1, RoundRec!Unfold
<1>3. ASSUME NEW s, NEW n \in Nat
      PROVE  AfterRounds(s, n + 1) = apply_round(AfterRounds(s, n), RoundConstants[n])
  <2>1. RoundRec!At(s, n + 1)
          = apply_round(RoundRec!At(s, n), RoundConstants[(n + 1) - 1])
    BY RoundRec!Unfold
  <2>2. (n + 1) - 1 = n
    OBVIOUS
  <2> QED BY <1>1, <2>1, <2>2
<1> QED BY <1>2, <1>3

\* The number some bits spell, bit by bit.
LEMMA WeightedSum ==
  \A cur : /\ Weighted(cur) = SumRec!At(cur, RANGE_BITS)
           /\ SumRec!At(cur, 0) = 0
           /\ \A n \in Nat : SumRec!At(cur, n + 1)
                = SumRec!At(cur, n) + cur.bit[n] * PowerOfTwo(n)
<1> SUFFICES ASSUME NEW cur
             PROVE  /\ Weighted(cur) = SumRec!At(cur, RANGE_BITS)
                    /\ SumRec!At(cur, 0) = 0
                    /\ \A n \in Nat : SumRec!At(cur, n + 1)
                         = SumRec!At(cur, n) + cur.bit[n] * PowerOfTwo(n)
  OBVIOUS
<1>1. Weighted(cur) = SumRec!At(cur, RANGE_BITS)
  BY DEF Weighted, SumRec!At
<1>2. SumRec!At(cur, 0) = 0
  BY SumRec!Unfold
<1>3. ASSUME NEW n \in Nat
      PROVE  SumRec!At(cur, n + 1) = SumRec!At(cur, n) + cur.bit[n] * PowerOfTwo(n)
  <2>1. SumRec!At(cur, n + 1)
          = SumRec!At(cur, n) + cur.bit[(n + 1) - 1] * PowerOfTwo((n + 1) - 1)
    BY SumRec!Unfold
  <2>2. (n + 1) - 1 = n
    OBVIOUS
  <2> QED BY <2>1, <2>2
<1> QED BY <1>1, <1>2, <1>3

\* Halving, step by step.
LEMMA Halves ==
  \A v : /\ Halved(v, 0) = v
         /\ \A n \in Nat : Halved(v, n + 1) = Halved(v, n) \div 2
<1>1. \A v, n : Halved(v, n) = HalfRec!At(v, n)
  BY DEF Halved, HalfRec!At
<1> QED BY <1>1, HalfRec!Unfold

LEMMA HalvesAreNats ==
  ASSUME NEW v \in Nat, NEW n \in Nat
  PROVE  Halved(v, n) \in Nat
<1> DEFINE S == {k \in 0..n : Halved(v, k) \in Nat}
<1>1. 0 \in S
  BY Halves
<1>2. ASSUME NEW k \in 0 .. n - 1, k \in S PROVE k + 1 \in S
  <2>1. Halved(v, k + 1) = Halved(v, k) \div 2 /\ Halved(v, k) \in Nat /\ k + 1 \in 0..n
    BY <1>2, Halves
  <2>2. Halved(v, k) \div 2 \in Nat
    BY <2>1
  <2> QED BY <2>1, <2>2
<1> HIDE DEF S
<1>3. 0..n \subseteq S
  BY <1>1, <1>2, HalfRec!UpTo
<1> QED BY <1>3 DEF S

-----------------------------------------------------------------------------
(* The permutation stays in the field *)

States == [Lanes -> FieldElements]

LEMMA LaneNumbers ==
  /\ Lanes = {0, 1, 2, 3, 4, 5, 6, 7} /\ STATE_WIDTH = 8
  /\ \A i \in Lanes : i \in Int /\ (i + 1) % STATE_WIDTH \in Lanes
BY DEF Lanes, STATE_WIDTH

\* A round maps states to states.
LEMMA RoundInField ==
  \A s, rc \in States : apply_round(s, rc) \in States
<1>1. \A x \in FieldElements : cube(x) \in FieldElements
  <2> SUFFICES ASSUME NEW x \in FieldElements PROVE cube(x) \in FieldElements
    OBVIOUS
  <2>1. x \in Int /\ x * x * x \in Int
    BY FieldIsInt
  <2> QED BY <2>1, Reduced DEF cube
<1>2. \A s \in States : sbox(s) \in States
  BY <1>1 DEF sbox, States
<1>3. \A s, rc \in States : [i \in Lanes |-> F(s[i] + rc[i])] \in States
  <2> SUFFICES ASSUME NEW s \in States, NEW rc \in States, NEW i \in Lanes
               PROVE  F(s[i] + rc[i]) \in FieldElements
    BY DEF States
  <2>1. s[i] \in Int /\ rc[i] \in Int
    BY FieldIsInt DEF States
  <2>2. s[i] + rc[i] \in Int
    BY <2>1
  <2> QED BY <2>2, Reduced
<1>4. \A s \in States : mix(s) \in States
  <2> SUFFICES ASSUME NEW s \in States, NEW i \in Lanes
               PROVE  F(s[0] + s[1] + s[2] + s[3] + s[4] + s[5] + s[6] + s[7]
                          + s[i] + 2 * s[(i + 1) % STATE_WIDTH]) \in FieldElements
    BY DEF mix, States
  <2>1. \A k \in Lanes : s[k] \in Int
    BY FieldIsInt DEF States
  <2>2. s[0] + s[1] + s[2] + s[3] + s[4] + s[5] + s[6] + s[7] \in Int
    BY <2>1, LaneNumbers
  <2>3. s[i] \in Int /\ 2 * s[(i + 1) % STATE_WIDTH] \in Int
    BY <2>1, LaneNumbers
  <2> QED BY <2>2, <2>3, Reduced
<1> QED BY <1>2, <1>3, <1>4 DEF apply_round

LEMMA RoundsInField ==
  \A s \in States : \A n \in 0 .. ROUNDS - 1 : AfterRounds(s, n) \in States
<1> SUFFICES ASSUME NEW s \in States
             PROVE  \A n \in 0 .. ROUNDS - 1 : AfterRounds(s, n) \in States
  OBVIOUS
<1> DEFINE S == {n \in 0 .. ROUNDS - 1 : AfterRounds(s, n) \in States}
<1>1. 0 \in S
  BY Rounds, Numbers
<1>2. ASSUME NEW k \in 0 .. (ROUNDS - 1) - 1, k \in S PROVE k + 1 \in S
  <2>1. k \in Nat /\ k \in 0 .. ROUNDS - 1 /\ k + 1 \in 0 .. ROUNDS - 1
    BY Numbers
  <2>2. RoundConstants[k] \in States
    BY <2>1, AirAssumption DEF States
  <2>3. AfterRounds(s, k + 1) = apply_round(AfterRounds(s, k), RoundConstants[k])
    BY <2>1, Rounds
  <2> QED BY <1>2, <2>1, <2>2, <2>3, RoundInField
<1> HIDE DEF S
<1>3. 0 .. ROUNDS - 1 \subseteq S
  BY <1>1, <1>2, RoundRec!UpTo, Numbers
<1> QED BY <1>3 DEF S

\* The padded inputs of each hash, lane by lane.
LEMMA PaddedLanes ==
  /\ \A a, b, c : LET p == Padded(<<a, b, c>>) IN
       /\ p[0] = a /\ p[1] = b /\ p[2] = c /\ p[3] = 0
       /\ p[4] = 0 /\ p[5] = 0 /\ p[6] = 0 /\ p[7] = 0
  /\ \A a, b, c, d, e : LET p == Padded(<<a, b, c, d, e>>) IN
       /\ p[0] = a /\ p[1] = b /\ p[2] = c /\ p[3] = d
       /\ p[4] = e /\ p[5] = 0 /\ p[6] = 0 /\ p[7] = 0
  /\ \A a, b, c, d, e, f : LET p == Padded(<<a, b, c, d, e, f>>) IN
       /\ p[0] = a /\ p[1] = b /\ p[2] = c /\ p[3] = d
       /\ p[4] = e /\ p[5] = f /\ p[6] = 0 /\ p[7] = 0
BY LaneNumbers DEF Padded

LEMMA PaddedInField ==
  \A inputs \in Seq(FieldElements) : Padded(inputs) \in States
<1>1. 0 \in FieldElements
  BY Numbers DEF FieldElements
<1>2. ASSUME NEW inputs \in Seq(FieldElements), NEW i \in Lanes, i < Len(inputs)
      PROVE  inputs[i + 1] \in FieldElements
  <2>1. i + 1 \in 1 .. Len(inputs)
    BY <1>2, LaneNumbers DEF Lanes
  <2> QED BY <2>1
<1>3. ASSUME NEW inputs \in Seq(FieldElements)
      PROVE  [i \in Lanes |-> IF i < Len(inputs) THEN inputs[i + 1] ELSE 0] \in States
  BY <1>1, <1>2 DEF States
<1> QED BY <1>3 DEF Padded

\* The inputs of the hashes are sequences over the field.
LEMMA Inputs ==
  /\ \A a, b, c \in FieldElements : <<a, b, c>> \in Seq(FieldElements)
  /\ \A a, b, c, d, e \in FieldElements : <<a, b, c, d, e>> \in Seq(FieldElements)
  /\ \A a, b, c, d, e, f \in FieldElements : <<a, b, c, d, e, f>> \in Seq(FieldElements)
OBVIOUS

LEMMA HashInField ==
  \A inputs \in Seq(FieldElements) : hash(inputs) \in FieldElements
BY PaddedInField, RoundsInField, Numbers DEF hash, States, Lanes, STATE_WIDTH

LEMMA LaneByLane ==
  ASSUME NEW f \in States, NEW g \in States,
         f[0] = g[0], f[1] = g[1], f[2] = g[2], f[3] = g[3],
         f[4] = g[4], f[5] = g[5], f[6] = g[6], f[7] = g[7]
  PROVE  f = g
<1>1. \A i \in Lanes : f[i] = g[i]
  BY LaneNumbers
<1> QED BY <1>1 DEF States
-----------------------------------------------------------------------------
(* The rows of the jobs *)

\* A job's rows, one after the other, are rows of the trace at positions 0 to
\* ROUNDS - 1 of the job, and the trace has no others.
LEMMA Layout ==
  /\ TRACE_LENGTH \in Nat /\ TRACE_LENGTH >= 6
  /\ \A j \in Jobs : /\ j \in Nat /\ j * ROUNDS \in Nat
                     /\ (j + 1) * ROUNDS = j * ROUNDS + ROUNDS
                     /\ j * ROUNDS + ROUNDS <= TRACE_LENGTH
  /\ \A j \in Jobs : \A k \in 0 .. ROUNDS - 1 :
       j * ROUNDS + k \in Rows /\ (j * ROUNDS + k) % ROUNDS = k
  /\ \A r \in Rows : \E j \in Jobs : \E k \in 0 .. ROUNDS - 1 : r = j * ROUNDS + k
<1>1. \A a, b \in Nat : a <= b => a * ROUNDS <= b * ROUNDS
  <2> SUFFICES ASSUME NEW a \in Nat, NEW b \in Nat, a <= b PROVE a * ROUNDS <= b * ROUNDS
    OBVIOUS
  <2>1. b - a \in Nat /\ (b - a) * ROUNDS = b * ROUNDS - a * ROUNDS
    BY Numbers
  <2>2. (b - a) * ROUNDS \in Nat /\ a * ROUNDS \in Nat /\ b * ROUNDS \in Nat
    BY <2>1, Numbers
  <2> QED BY <2>1, <2>2
<1>2. TRACE_LENGTH \in Nat /\ TRACE_LENGTH >= 6
  <2>1. 3 * ROUNDS <= JOB_COUNT * ROUNDS /\ JOB_COUNT * ROUNDS \in Nat
    BY <1>1, Numbers
  <2> QED BY <2>1, Numbers DEF TRACE_LENGTH
<1>3. ASSUME NEW j \in Jobs
      PROVE  /\ j \in Nat /\ j * ROUNDS \in Nat
             /\ (j + 1) * ROUNDS = j * ROUNDS + ROUNDS
             /\ j * ROUNDS + ROUNDS <= TRACE_LENGTH
  <2>1. j \in Nat /\ j + 1 \in Nat /\ j + 1 <= JOB_COUNT
    BY Numbers DEF Jobs
  <2>2. (j + 1) * ROUNDS <= JOB_COUNT * ROUNDS
    BY <1>1, <2>1, Numbers
  <2>3. (j + 1) * ROUNDS = j * ROUNDS + ROUNDS /\ j * ROUNDS \in Nat
    BY <2>1, Numbers
  <2> QED BY <2>1, <2>2, <2>3 DEF TRACE_LENGTH
<1>4. ASSUME NEW j \in Jobs, NEW k \in 0 .. ROUNDS - 1
      PROVE  j * ROUNDS + k \in Rows /\ (j * ROUNDS + k) % ROUNDS = k
  <2>1. j * ROUNDS + k \in Rows
    BY <1>2, <1>3, Numbers DEF Rows
  <2>2. ROUNDS \in Nat \ {0} /\ j \in Int /\ k \in 0 .. ROUNDS - 1
        /\ j * ROUNDS + k = ROUNDS * j + k
    BY <1>3, Numbers
  <2>3. \A x \in Int : x = ROUNDS * j + k => x % ROUNDS = k
    BY <2>2
  <2> QED BY <2>1, <2>2, <2>3
<1>5. ASSUME NEW r \in Rows
      PROVE  \E j \in Jobs : \E k \in 0 .. ROUNDS - 1 : r = j * ROUNDS + k
  <2>1. r \in Nat /\ r < JOB_COUNT * ROUNDS
    BY <1>2 DEF Rows, TRACE_LENGTH
  <2>2. /\ r % ROUNDS \in 0 .. ROUNDS - 1 /\ r \div ROUNDS \in Nat
        /\ r = ROUNDS * (r \div ROUNDS) + (r % ROUNDS)
    BY <2>1, Numbers
  <2>3. ROUNDS * (r \div ROUNDS) = (r \div ROUNDS) * ROUNDS
    BY <2>2, Numbers
  <2>4. r \div ROUNDS < JOB_COUNT
    <3> SUFFICES ASSUME JOB_COUNT <= r \div ROUNDS PROVE FALSE
      BY <2>2, Numbers
    <3>1. JOB_COUNT * ROUNDS <= (r \div ROUNDS) * ROUNDS
      BY <1>1, <2>2, Numbers
    <3>2. (r \div ROUNDS) * ROUNDS \in Nat /\ JOB_COUNT * ROUNDS \in Nat
      BY <2>2, Numbers
    <3> QED BY <2>1, <2>2, <2>3, <3>1, <3>2
  <2>5. r \div ROUNDS \in Jobs
    BY <2>2, <2>4, Numbers DEF Jobs
  <2> QED BY <2>2, <2>3, <2>5
<1> QED BY <1>2, <1>3, <1>4, <1>5

\* The first and the last row of a job.
LEMMA JobEnds ==
  \A j \in Jobs : /\ job_start_row(j) \in Rows /\ job_last_row(j) \in Rows
                 /\ job_start_row(j) = j * ROUNDS + 0
                 /\ job_last_row(j) = j * ROUNDS + (ROUNDS - 1)
                 /\ 0 \in 0 .. ROUNDS - 1 /\ ROUNDS - 1 \in 0 .. ROUNDS - 1
<1> SUFFICES ASSUME NEW j \in Jobs
             PROVE  /\ job_start_row(j) \in Rows /\ job_last_row(j) \in Rows
                    /\ job_start_row(j) = j * ROUNDS + 0
                    /\ job_last_row(j) = j * ROUNDS + (ROUNDS - 1)
                    /\ 0 \in 0 .. ROUNDS - 1 /\ ROUNDS - 1 \in 0 .. ROUNDS - 1
  OBVIOUS
<1>1. 0 \in 0 .. ROUNDS - 1 /\ ROUNDS - 1 \in 0 .. ROUNDS - 1
  BY Numbers
<1>2. j * ROUNDS \in Nat
  BY Layout
<1>3. job_start_row(j) = j * ROUNDS + 0 /\ job_last_row(j) = j * ROUNDS + (ROUNDS - 1)
  BY <1>2, Numbers DEF job_start_row, job_last_row
<1>4. j * ROUNDS + 0 \in Rows /\ j * ROUNDS + (ROUNDS - 1) \in Rows
  BY <1>1, Layout
<1> QED BY <1>1, <1>3, <1>4

\* The jobs of the layout are jobs, each of its type.
LEMMA JobNumbers ==
  /\ JOB_OWNER \in Jobs /\ JOB_LEAF \in Jobs /\ JOB_NULLIFIER \in Jobs
  /\ JOB_MERKLE_LAST \in Jobs
  /\ JOB_OWNER = 0 /\ JOB_LEAF = 1 /\ JOB_MERKLE_FIRST = 2
  /\ JOB_MERKLE_LAST = TREE_DEPTH + 1 /\ JOB_NULLIFIER = TREE_DEPTH + 2
  /\ \A l \in 0 .. TREE_DEPTH - 1 : JOB_MERKLE_FIRST + l \in Jobs
  /\ job_type_column(JOB_OWNER) = "owner" /\ job_type_column(JOB_LEAF) = "leaf"
  /\ job_type_column(JOB_NULLIFIER) = "nullifier"
  /\ \A j \in Jobs : j \notin {JOB_OWNER, JOB_LEAF, JOB_NULLIFIER}
                       => job_type_column(j) = "merkle"
  /\ \A j \in Jobs : job_type_column(j) \in JobTypes
<1>1. /\ JOB_OWNER = 0 /\ JOB_LEAF = 1 /\ JOB_MERKLE_FIRST = 2
      /\ JOB_MERKLE_LAST = TREE_DEPTH + 1 /\ JOB_NULLIFIER = TREE_DEPTH + 2
  BY Numbers DEF JOB_OWNER, JOB_LEAF, JOB_MERKLE_FIRST, JOB_MERKLE_LAST, JOB_NULLIFIER
<1>2. /\ JOB_OWNER \in Jobs /\ JOB_LEAF \in Jobs /\ JOB_NULLIFIER \in Jobs
      /\ JOB_MERKLE_LAST \in Jobs
      /\ \A l \in 0 .. TREE_DEPTH - 1 : JOB_MERKLE_FIRST + l \in Jobs
  BY <1>1, Numbers DEF Jobs
<1>3. /\ job_type_column(JOB_OWNER) = "owner" /\ job_type_column(JOB_LEAF) = "leaf"
      /\ job_type_column(JOB_NULLIFIER) = "nullifier"
  BY <1>1, Numbers DEF job_type_column
<1>4. \A j \in Jobs : j \notin {JOB_OWNER, JOB_LEAF, JOB_NULLIFIER}
                       => job_type_column(j) = "merkle"
  BY DEF job_type_column
<1>5. \A j \in Jobs : job_type_column(j) \in JobTypes
  BY <1>3, <1>4 DEF JobTypes
<1> QED BY <1>1, <1>2, <1>3, <1>4, <1>5

\* What the parts of a row are.
LEMMA RowParts ==
  \A cur \in Row :
    /\ cur.s \in States
    /\ \A x \in {"a", "b", "c", "d"} : cur.aux[x] \in FieldElements
    /\ \A x \in {"secret", "pid"} : cur.held[x] \in FieldElements
    /\ \A x \in JobTypes : cur.t[x] \in FieldElements
    /\ \A i \in 0 .. RANGE_BITS - 1 : cur.bit[i] \in FieldElements
<1> SUFFICES ASSUME NEW cur \in Row
             PROVE  /\ cur.s \in States
                    /\ \A x \in {"a", "b", "c", "d"} : cur.aux[x] \in FieldElements
                    /\ \A x \in {"secret", "pid"} : cur.held[x] \in FieldElements
                    /\ \A x \in JobTypes : cur.t[x] \in FieldElements
                    /\ \A i \in 0 .. RANGE_BITS - 1 : cur.bit[i] \in FieldElements
  OBVIOUS
<1>1. /\ cur.s \in [Lanes -> FieldElements]
      /\ cur.aux \in [{"a", "b", "c", "d"} -> FieldElements]
      /\ cur.held \in [{"secret", "pid"} -> FieldElements]
      /\ cur.t \in [JobTypes -> FieldElements]
      /\ cur.bit \in [0 .. RANGE_BITS - 1 -> FieldElements]
  BY DEF Row
<1> QED BY <1>1 DEF States

\* Type columns that are bits with sum 1 are zero but for the one that is 1.
LEMMA OneHot ==
  ASSUME NEW cur \in Row, TypeOneHot(cur), NEW k \in JobTypes, cur.t[k] = 1
  PROVE  \A x \in JobTypes : cur.t[x] = IF x = k THEN 1 ELSE 0
<1>1. \A x \in JobTypes : cur.t[x] \in {0, 1}
  BY RowParts, BinaryIsBit DEF TypeOneHot, Binary
<1> DEFINE o == cur.t["owner"] lf == cur.t["leaf"] m == cur.t["merkle"] n == cur.t["nullifier"]
<1>2. o \in {0, 1} /\ lf \in {0, 1} /\ m \in {0, 1} /\ n \in {0, 1}
  BY <1>1 DEF JobTypes
<1>3. F(o + lf + m + n) = 1
  BY DEF TypeOneHot
<1>4. o = 1 \/ lf = 1 \/ m = 1 \/ n = 1
  BY DEF JobTypes
<1> HIDE DEF o, lf, m, n
<1>5. o + lf + m + n \in FieldElements
  BY <1>2, Numbers DEF FieldElements
<1>6. o + lf + m + n = 1
  BY <1>3, <1>5, FieldIsInt
<1> USE DEF o, lf, m, n
<1>7. k \in {"owner", "leaf", "merkle", "nullifier"}
  BY DEF JobTypes
<1>8. CASE k = "owner"
  <2>1. lf = 0 /\ m = 0 /\ n = 0
    BY <1>2, <1>6, <1>8
  <2> QED BY <1>8, <2>1 DEF JobTypes
<1>9. CASE k = "leaf"
  <2>1. o = 0 /\ m = 0 /\ n = 0
    BY <1>2, <1>6, <1>9
  <2> QED BY <1>9, <2>1 DEF JobTypes
<1>10. CASE k = "merkle"
  <2>1. o = 0 /\ lf = 0 /\ n = 0
    BY <1>2, <1>6, <1>10
  <2> QED BY <1>10, <2>1 DEF JobTypes
<1>11. CASE k = "nullifier"
  <2>1. o = 0 /\ lf = 0 /\ m = 0
    BY <1>2, <1>6, <1>11
  <2> QED BY <1>11, <2>1 DEF JobTypes
<1> QED BY <1>7, <1>8, <1>9, <1>10, <1>11

\* The type columns of a row that is of type k and no other.
IsOfType(nxt, k) == \A x \in JobTypes : nxt.t[x] = IF x = k THEN 1 ELSE 0

\* The first state that the boundary constraint leaves a job of a type.
LEMMA BoundaryOf ==
  ASSUME NEW cur \in Row, NEW nxt \in Row
  PROVE  /\ Boundary(cur, nxt) \in States
         /\ IsOfType(nxt, "owner") => Boundary(cur, nxt)
              = Padded(<<DOMAIN_OWNER_COMMITMENT, cur.held["secret"], cur.held["pid"]>>)
         /\ IsOfType(nxt, "leaf") => Boundary(cur, nxt)
              = Padded(<<DOMAIN_LEAF, nxt.aux["a"], cur.s[0], nxt.aux["b"],
                         nxt.aux["c"], nxt.aux["d"]>>)
         /\ IsOfType(nxt, "merkle") /\ nxt.aux["b"] = 0 => Boundary(cur, nxt)
              = Padded(<<DOMAIN_NODE, cur.s[0], nxt.aux["a"]>>)
         /\ IsOfType(nxt, "merkle") /\ nxt.aux["b"] = 1 => Boundary(cur, nxt)
              = Padded(<<DOMAIN_NODE, nxt.aux["a"], cur.s[0]>>)
         /\ IsOfType(nxt, "nullifier") => Boundary(cur, nxt)
              = Padded(<<DOMAIN_NULLIFIER, cur.held["secret"], cur.held["pid"],
                         nxt.aux["a"], nxt.aux["b"]>>)
<1> DEFINE B == Boundary(cur, nxt)
           o == nxt.t["owner"] lf == nxt.t["leaf"]
           m == nxt.t["merkle"] n == nxt.t["nullifier"]
           a == nxt.aux["a"] b == nxt.aux["b"] c == nxt.aux["c"] d == nxt.aux["d"]
           h == cur.held["secret"] p == cur.held["pid"] z == cur.s[0]
           left == b * a + (1 - b) * z
           right == b * z + (1 - b) * a
<1>1. /\ B = [i \in Lanes |-> B[i]]
      /\ B[0] = F(o * DOMAIN_OWNER_COMMITMENT + lf * DOMAIN_LEAF
                    + m * DOMAIN_NODE + n * DOMAIN_NULLIFIER)
      /\ B[1] = F(o * h + lf * a + m * left + n * h)
      /\ B[2] = F(o * p + lf * z + m * right + n * p)
      /\ B[3] = F(lf * b + n * a)
      /\ B[4] = F(lf * c + n * b)
      /\ B[5] = F(lf * d)
      /\ B[6] = F(0) /\ B[7] = F(0)
  BY LaneNumbers DEF Boundary
<1>2. /\ o \in FieldElements /\ lf \in FieldElements /\ m \in FieldElements
      /\ n \in FieldElements /\ a \in FieldElements /\ b \in FieldElements
      /\ c \in FieldElements /\ d \in FieldElements /\ h \in FieldElements
      /\ p \in FieldElements /\ z \in FieldElements
  BY RowParts, LaneNumbers DEF JobTypes, States
<1>3. 0 \in FieldElements /\ 1 \in FieldElements /\ 2 \in FieldElements
      /\ 3 \in FieldElements /\ 4 \in FieldElements
  BY Numbers DEF FieldElements
<1>4. /\ IsOfType(nxt, "owner") => o = 1 /\ lf = 0 /\ m = 0 /\ n = 0
      /\ IsOfType(nxt, "leaf") => o = 0 /\ lf = 1 /\ m = 0 /\ n = 0
      /\ IsOfType(nxt, "merkle") => o = 0 /\ lf = 0 /\ m = 1 /\ n = 0
      /\ IsOfType(nxt, "nullifier") => o = 0 /\ lf = 0 /\ m = 0 /\ n = 1
  BY DEF IsOfType, JobTypes
<1> HIDE DEF B, o, lf, m, n, a, b, c, d, h, p, z
<1>5. /\ o \in Int /\ lf \in Int /\ m \in Int /\ n \in Int /\ a \in Int /\ b \in Int
      /\ c \in Int /\ d \in Int /\ h \in Int /\ p \in Int /\ z \in Int
  BY <1>2, FieldIsInt
<1>6. F(0) = 0 /\ F(1) = 1 /\ F(2) = 2 /\ F(3) = 3 /\ F(4) = 4
  BY <1>3, FieldIsInt
<1>7. F(a) = a /\ F(b) = b /\ F(c) = c /\ F(d) = d /\ F(h) = h /\ F(p) = p /\ F(z) = z
  BY <1>2, FieldIsInt
<1>8. B \in States
  <2>1. left \in Int /\ right \in Int
    BY <1>5
  <2> HIDE DEF left, right
  <2>2. /\ o * DOMAIN_OWNER_COMMITMENT + lf * DOMAIN_LEAF
              + m * DOMAIN_NODE + n * DOMAIN_NULLIFIER \in Int
        /\ o * h + lf * a + m * left + n * h \in Int
        /\ o * p + lf * z + m * right + n * p \in Int
        /\ lf * b + n * a \in Int /\ lf * c + n * b \in Int /\ lf * d \in Int
    BY <1>5, <2>1 DEF DOMAIN_OWNER_COMMITMENT, DOMAIN_LEAF, DOMAIN_NODE, DOMAIN_NULLIFIER
  <2>3. \A i \in Lanes : B[i] \in FieldElements
    BY <1>1, <1>3, <1>6, <2>2, Reduced, LaneNumbers
  <2> QED BY <1>1, <2>3 DEF States
<1> USE DEF DOMAIN_OWNER_COMMITMENT, DOMAIN_LEAF, DOMAIN_NODE, DOMAIN_NULLIFIER
<1>9. ASSUME o = 1, lf = 0, m = 0, n = 0
      PROVE  B = Padded(<<DOMAIN_OWNER_COMMITMENT, h, p>>)
  <2>1. /\ 1 * 2 + 0 * 1 + 0 * 4 + 0 * 3 = 2
        /\ 1 * h + 0 * a + 0 * left + 1 * 0 = h /\ 1 * p + 0 * z + 0 * right + 0 * p = p
        /\ 1 * h + 0 * a + 0 * left + 0 * h = h
        /\ 0 * b + 0 * a = 0 /\ 0 * c + 0 * b = 0 /\ 0 * d = 0
    BY <1>5
  <2>2. /\ B[0] = 2 /\ B[1] = h /\ B[2] = p /\ B[3] = 0
        /\ B[4] = 0 /\ B[5] = 0 /\ B[6] = 0 /\ B[7] = 0
    BY <1>1, <1>6, <1>7, <1>9, <2>1
  <2>3. Padded(<<2, h, p>>) \in States
    BY <1>2, <1>3, Inputs, PaddedInField
  <2>4. LET q == Padded(<<2, h, p>>) IN
          /\ q[0] = 2 /\ q[1] = h /\ q[2] = p /\ q[3] = 0
          /\ q[4] = 0 /\ q[5] = 0 /\ q[6] = 0 /\ q[7] = 0
    BY PaddedLanes
  <2> QED BY <1>8, <2>2, <2>3, <2>4, LaneByLane
<1>10. ASSUME o = 0, lf = 1, m = 0, n = 0
       PROVE  B = Padded(<<DOMAIN_LEAF, a, z, b, c, d>>)
  <2>1. /\ 0 * 2 + 1 * 1 + 0 * 4 + 0 * 3 = 1
        /\ 0 * h + 1 * a + 0 * left + 0 * h = a /\ 0 * p + 1 * z + 0 * right + 0 * p = z
        /\ 1 * b + 0 * a = b /\ 1 * c + 0 * b = c /\ 1 * d = d
    BY <1>5
  <2>2. /\ B[0] = 1 /\ B[1] = a /\ B[2] = z /\ B[3] = b
        /\ B[4] = c /\ B[5] = d /\ B[6] = 0 /\ B[7] = 0
    BY <1>1, <1>6, <1>7, <1>10, <2>1
  <2>3. Padded(<<1, a, z, b, c, d>>) \in States
    BY <1>2, <1>3, Inputs, PaddedInField
  <2>4. LET q == Padded(<<1, a, z, b, c, d>>) IN
          /\ q[0] = 1 /\ q[1] = a /\ q[2] = z /\ q[3] = b
          /\ q[4] = c /\ q[5] = d /\ q[6] = 0 /\ q[7] = 0
    BY PaddedLanes
  <2> QED BY <1>8, <2>2, <2>3, <2>4, LaneByLane
<1>11. ASSUME o = 0, lf = 0, m = 1, n = 0, b = 0
       PROVE  B = Padded(<<DOMAIN_NODE, z, a>>)
  <2>1. left = z /\ right = a
    BY <1>5, <1>11
  <2> HIDE DEF left, right
  <2>2. /\ 0 * 2 + 0 * 1 + 1 * 4 + 0 * 3 = 4
        /\ 0 * h + 0 * a + 1 * z + 0 * h = z /\ 0 * p + 0 * z + 1 * a + 0 * p = a
        /\ 0 * b + 0 * a = 0 /\ 0 * c + 0 * b = 0 /\ 0 * d = 0
    BY <1>5
  <2>3. /\ B[0] = 4 /\ B[1] = z /\ B[2] = a /\ B[3] = 0
        /\ B[4] = 0 /\ B[5] = 0 /\ B[6] = 0 /\ B[7] = 0
    BY <1>1, <1>6, <1>7, <1>11, <2>1, <2>2
  <2>4. Padded(<<4, z, a>>) \in States
    BY <1>2, <1>3, Inputs, PaddedInField
  <2>5. LET q == Padded(<<4, z, a>>) IN
          /\ q[0] = 4 /\ q[1] = z /\ q[2] = a /\ q[3] = 0
          /\ q[4] = 0 /\ q[5] = 0 /\ q[6] = 0 /\ q[7] = 0
    BY PaddedLanes
  <2> QED BY <1>8, <2>3, <2>4, <2>5, LaneByLane
<1>12. ASSUME o = 0, lf = 0, m = 1, n = 0, b = 1
       PROVE  B = Padded(<<DOMAIN_NODE, a, z>>)
  <2>1. left = a /\ right = z
    BY <1>5, <1>12
  <2> HIDE DEF left, right
  <2>2. /\ 0 * 2 + 0 * 1 + 1 * 4 + 0 * 3 = 4
        /\ 0 * h + 0 * a + 1 * a + 0 * h = a /\ 0 * p + 0 * z + 1 * z + 0 * p = z
        /\ 0 * b + 0 * a = 0 /\ 0 * c + 0 * b = 0 /\ 0 * d = 0
    BY <1>5
  <2>3. /\ B[0] = 4 /\ B[1] = a /\ B[2] = z /\ B[3] = 0
        /\ B[4] = 0 /\ B[5] = 0 /\ B[6] = 0 /\ B[7] = 0
    BY <1>1, <1>6, <1>7, <1>12, <2>1, <2>2
  <2>4. Padded(<<4, a, z>>) \in States
    BY <1>2, <1>3, Inputs, PaddedInField
  <2>5. LET q == Padded(<<4, a, z>>) IN
          /\ q[0] = 4 /\ q[1] = a /\ q[2] = z /\ q[3] = 0
          /\ q[4] = 0 /\ q[5] = 0 /\ q[6] = 0 /\ q[7] = 0
    BY PaddedLanes
  <2> QED BY <1>8, <2>3, <2>4, <2>5, LaneByLane
<1>13. ASSUME o = 0, lf = 0, m = 0, n = 1
       PROVE  B = Padded(<<DOMAIN_NULLIFIER, h, p, a, b>>)
  <2>1. /\ 0 * 2 + 0 * 1 + 0 * 4 + 1 * 3 = 3
        /\ 0 * h + 0 * a + 0 * left + 1 * h = h /\ 0 * p + 0 * z + 0 * right + 1 * p = p
        /\ 0 * b + 1 * a = a /\ 0 * c + 1 * b = b /\ 0 * d = 0
    BY <1>5
  <2>2. /\ B[0] = 3 /\ B[1] = h /\ B[2] = p /\ B[3] = a
        /\ B[4] = b /\ B[5] = 0 /\ B[6] = 0 /\ B[7] = 0
    BY <1>1, <1>6, <1>7, <1>13, <2>1
  <2>3. Padded(<<3, h, p, a, b>>) \in States
    BY <1>2, <1>3, Inputs, PaddedInField
  <2>4. LET q == Padded(<<3, h, p, a, b>>) IN
          /\ q[0] = 3 /\ q[1] = h /\ q[2] = p /\ q[3] = a
          /\ q[4] = b /\ q[5] = 0 /\ q[6] = 0 /\ q[7] = 0
    BY PaddedLanes
  <2> QED BY <1>8, <2>2, <2>3, <2>4, LaneByLane
<1> QED
  BY <1>4, <1>8, <1>9, <1>10, <1>11, <1>12, <1>13 DEF B, a, b, c, d, h, p, z
-----------------------------------------------------------------------------
(* What the constraints say of a trace *)

\* The bits of a row spell a number of RANGE_BITS bits.
LEMMA BitsSpell ==
  ASSUME NEW cur, \A i \in 0 .. RANGE_BITS - 1 : cur.bit[i] \in {0, 1}
  PROVE  Weighted(cur) \in 0 .. PowerOfTwo(RANGE_BITS) - 1
<1> DEFINE S == {n \in 0..RANGE_BITS : SumRec!At(cur, n) \in 0 .. PowerOfTwo(n) - 1}
<1>1. 0 \in S
  BY WeightedSum, Powers, Numbers
<1>2. ASSUME NEW k \in 0 .. RANGE_BITS - 1, k \in S PROVE k + 1 \in S
  <2>1. k \in Nat /\ k + 1 \in 0..RANGE_BITS /\ SumRec!At(cur, k) \in 0 .. PowerOfTwo(k) - 1
    BY <1>2, Numbers
  <2>2. /\ SumRec!At(cur, k + 1) = SumRec!At(cur, k) + cur.bit[k] * PowerOfTwo(k)
        /\ PowerOfTwo(k + 1) = 2 * PowerOfTwo(k) /\ PowerOfTwo(k) \in Nat
    BY <2>1, WeightedSum, Powers
  <2>3. cur.bit[k] * PowerOfTwo(k) \in {0, PowerOfTwo(k)}
    BY <2>2
  <2>4. SumRec!At(cur, k + 1) \in 0 .. PowerOfTwo(k + 1) - 1
    BY <2>1, <2>2, <2>3
  <2> QED BY <2>1, <2>4
<1> HIDE DEF S
<1>3. 0..RANGE_BITS \subseteq S
  BY <1>1, <1>2, SumRec!UpTo, Numbers
<1>4. RANGE_BITS \in S
  BY <1>3, Numbers
<1> QED BY <1>4, WeightedSum DEF S

\* The range check shows that the expiry in the leaf's row is later than the
\* timestamp, if no timestamp is so late that the range reaches around.
LEMMA RangeShows ==
  ASSUME NEW cur \in Row, NEW pi, pi.current_timestamp \in FieldElements,
         pi.current_timestamp + PowerOfTwo(RANGE_BITS) < Modulus,
         cur.t["leaf"] = 1, RangeBitsBinary(cur), RangeSum(cur, pi)
  PROVE  cur.aux["d"] > pi.current_timestamp
<1> DEFINE w == Weighted(cur) d == cur.aux["d"] ts == pi.current_timestamp
           p == PowerOfTwo(RANGE_BITS)
<1>1. \A i \in 0 .. RANGE_BITS - 1 : cur.bit[i] \in {0, 1}
  BY RowParts, BinaryIsBit DEF RangeBitsBinary, Binary
<1>2. w \in 0 .. p - 1 /\ p \in Nat
  BY <1>1, BitsSpell, Powers, Numbers
<1>3. d \in FieldElements /\ ts \in FieldElements
  BY RowParts
<1>4. F(1 * (w - (d - ts - 1))) = 0
  BY DEF RangeSum
<1> HIDE DEF w, d, ts, p
<1>5. d \in Nat /\ ts \in Nat /\ d < Modulus /\ ts < Modulus
  BY <1>3, Numbers DEF FieldElements
<1>6. ts + p < Modulus
  BY DEF ts, p
<1>7. CASE d > ts
  BY <1>7 DEF d, ts
<1>8. CASE ~(d > ts)
  <2> DEFINE e == w - (d - ts - 1)
  <2>1. 1 * (w - (d - ts - 1)) = e /\ e \in Int /\ 0 < e /\ e < Modulus
    BY <1>2, <1>5, <1>6, <1>8, Numbers
  <2>2. F(e) = e
    BY <2>1, FieldIsInt, Numbers DEF FieldElements
  <2> QED BY <1>4, <2>1, <2>2
<1> QED BY <1>7, <1>8

\* A row but the last and the row after it.
LEMMA StepAt ==
  ASSUME NEW tr, NEW pi, Satisfies(tr, pi), NEW j \in Jobs, NEW k \in 0 .. ROUNDS - 1,
         k < ROUNDS - 1 \/ j + 1 \in Jobs
  PROVE  evaluate_transition(tr[j * ROUNDS + k], tr[j * ROUNDS + k + 1], k, pi)
<1>1. /\ j * ROUNDS \in Nat /\ j * ROUNDS + ROUNDS <= TRACE_LENGTH
      /\ (j * ROUNDS + k) % ROUNDS = k /\ TRACE_LENGTH \in Nat /\ j \in Nat
  BY Layout
<1>2. j * ROUNDS + k \in 0 .. TRACE_LENGTH - 2
  <2>1. CASE k < ROUNDS - 1
    BY <1>1, <2>1, Numbers
  <2>2. CASE j + 1 \in Jobs
    <3>1. (j + 1) * ROUNDS = j * ROUNDS + ROUNDS /\ (j + 1) * ROUNDS + ROUNDS <= TRACE_LENGTH
      BY <2>2, Layout
    <3> QED BY <1>1, <3>1, Numbers
  <2> QED BY <2>1, <2>2
<1> QED BY <1>1, <1>2 DEF Satisfies

\* Within a job the state goes round by round.
LEMMA JobStates ==
  ASSUME NEW tr, NEW pi, Satisfies(tr, pi), NEW j \in Jobs
  PROVE  \A k \in 0 .. ROUNDS - 1 :
           tr[j * ROUNDS + k].s = AfterRounds(tr[j * ROUNDS].s, k)
<1> DEFINE S == {k \in 0 .. ROUNDS - 1 :
                   tr[j * ROUNDS + k].s = AfterRounds(tr[j * ROUNDS].s, k)}
<1>1. 0 \in S
  <2>1. j * ROUNDS + 0 = j * ROUNDS
    BY Layout
  <2> QED BY <2>1, Rounds, Numbers
<1>2. ASSUME NEW k \in 0 .. (ROUNDS - 1) - 1, k \in S PROVE k + 1 \in S
  <2>1. k \in Nat /\ k \in 0 .. ROUNDS - 1 /\ k < ROUNDS - 1 /\ k + 1 \in 0 .. ROUNDS - 1
        /\ k # ROUNDS - 1
    BY Numbers
  <2>2. evaluate_transition(tr[j * ROUNDS + k], tr[j * ROUNDS + k + 1], k, pi)
    BY <2>1, StepAt
  <2>3. tr[j * ROUNDS + k + 1].s = apply_round(tr[j * ROUNDS + k].s, RoundConstants[k])
    BY <2>1, <2>2 DEF evaluate_transition, LanesFollow
  <2>4. j * ROUNDS + k + 1 = j * ROUNDS + (k + 1)
    BY <2>1, Layout
  <2>5. tr[j * ROUNDS + k].s = AfterRounds(tr[j * ROUNDS].s, k)
    BY <1>2
  <2> QED BY <2>1, <2>3, <2>4, <2>5, Rounds
<1> HIDE DEF S
<1>3. 0 .. ROUNDS - 1 \subseteq S
  BY <1>1, <1>2, RoundRec!UpTo, Numbers
<1> QED BY <1>3 DEF S

\* A job that starts from padded inputs ends with their hash.
LEMMA JobDigest ==
  ASSUME NEW tr, NEW pi, Satisfies(tr, pi), NEW j \in Jobs, NEW inputs,
         tr[job_start_row(j)].s = Padded(inputs)
  PROVE  tr[job_last_row(j)].s[0] = hash(inputs)
<1>1. j * ROUNDS + (ROUNDS - 1) = j * ROUNDS + ROUNDS - 1 /\ ROUNDS - 1 \in 0 .. ROUNDS - 1
  BY Layout, Numbers
<1>2. tr[j * ROUNDS + (ROUNDS - 1)].s = AfterRounds(tr[j * ROUNDS].s, ROUNDS - 1)
  BY <1>1, JobStates
<1> QED BY <1>1, <1>2 DEF job_start_row, job_last_row, hash

\* A job starts from the state that the boundary constraint leaves it.
LEMMA JobStart ==
  ASSUME NEW tr, NEW pi, Satisfies(tr, pi), NEW j \in Jobs, j + 1 \in Jobs
  PROVE  tr[job_start_row(j + 1)].s
           = Boundary(tr[job_last_row(j)], tr[job_start_row(j + 1)])
<1>1. /\ j * ROUNDS + (ROUNDS - 1) = j * ROUNDS + ROUNDS - 1
      /\ j * ROUNDS + (ROUNDS - 1) + 1 = (j + 1) * ROUNDS
      /\ ROUNDS - 1 \in 0 .. ROUNDS - 1
  BY Layout, Numbers
<1>2. evaluate_transition(tr[j * ROUNDS + (ROUNDS - 1)], tr[j * ROUNDS + (ROUNDS - 1) + 1],
                          ROUNDS - 1, pi)
  BY <1>1, StepAt
<1> QED BY <1>1, <1>2 DEF evaluate_transition, LanesFollow, job_start_row, job_last_row

\* The secret and the property id are the same in all rows.
LEMMA HeldThroughout ==
  ASSUME NEW tr, NEW pi, Satisfies(tr, pi)
  PROVE  \A r \in Rows : tr[r].held = tr[0].held
<1> DEFINE S == {r \in Rows : tr[r].held = tr[0].held}
<1>1. 0 \in S /\ TRACE_LENGTH - 1 \in Nat
  BY Layout DEF Rows
<1>2. ASSUME NEW r \in 0 .. (TRACE_LENGTH - 1) - 1, r \in S PROVE r + 1 \in S
  <2>1. r \in 0 .. TRACE_LENGTH - 2 /\ r + 1 \in Rows
    BY Layout DEF Rows
  <2>2. tr[r + 1].held = tr[r].held
    BY <2>1 DEF Satisfies, evaluate_transition, HeldCopied
  <2> QED BY <1>2, <2>1, <2>2
<1> HIDE DEF S
<1>3. 0 .. TRACE_LENGTH - 1 \subseteq S
  BY <1>1, <1>2, RoundRec!UpTo
<1> QED BY <1>3 DEF S, Rows

\* What the first row of a job satisfies.
LEMMA FirstRow ==
  ASSUME NEW tr \in [Rows -> Row], NEW pi, Satisfies(tr, pi), NEW j \in Jobs
  PROVE  LET first == tr[job_start_row(j)] IN
         /\ first \in Row /\ tr[job_last_row(j)] \in Row
         /\ IsOfType(first, job_type_column(j))
         /\ MerkleBitBinary(first) /\ RangeSum(first, pi) /\ RangeBitsBinary(first)
<1> DEFINE first == tr[job_start_row(j)]
<1>1. /\ j * ROUNDS + 0 = j * ROUNDS /\ 0 \in 0 .. ROUNDS - 1 /\ 0 < ROUNDS - 1
      /\ j * ROUNDS + (ROUNDS - 1) = j * ROUNDS + ROUNDS - 1 /\ ROUNDS - 1 \in 0 .. ROUNDS - 1
  BY Layout, Numbers
<1>2. evaluate_transition(tr[j * ROUNDS + 0], tr[j * ROUNDS + 0 + 1], 0, pi)
  BY <1>1, StepAt
<1>3. /\ TypeOneHot(first) /\ MerkleBitBinary(first)
      /\ RangeSum(first, pi) /\ RangeBitsBinary(first)
  BY <1>1, <1>2 DEF evaluate_transition, job_start_row
<1>4. j * ROUNDS + 0 \in Rows /\ j * ROUNDS + (ROUNDS - 1) \in Rows
  BY <1>1, Layout
<1>5. first \in Row /\ tr[job_last_row(j)] \in Row
  BY <1>1, <1>4 DEF job_start_row, job_last_row
<1>6. first.t[job_type_column(j)] = 1 /\ job_type_column(j) \in JobTypes
  BY JobNumbers DEF Satisfies, get_assertions
<1> HIDE DEF first
<1>7. IsOfType(first, job_type_column(j))
  BY <1>3, <1>5, <1>6, OneHot DEF IsOfType
<1> QED BY <1>3, <1>5, <1>7 DEF first

\* In a Merkle step, aux_b is a bit.
LEMMA MerkleBit ==
  ASSUME NEW cur \in Row, cur.t["merkle"] = 1, MerkleBitBinary(cur)
  PROVE  cur.aux["b"] \in {0, 1}
<1> DEFINE b == cur.aux["b"]
<1>1. b \in FieldElements /\ F(1 * (b * b - b)) = 0
  BY RowParts DEF MerkleBitBinary
<1> HIDE DEF b
<1>2. 1 * (b * b - b) = b * b - b
  BY <1>1, FieldIsInt
<1>3. b \in {0, 1}
  BY <1>1, <1>2, BinaryIsBit
<1> QED BY <1>3 DEF b

\* A climb that hashes a node with its sibling at every level reaches what
\* recompute_root computes.
Climbs(f, leaf, siblings, bits) ==
  /\ f[0] = leaf
  /\ \A l \in 0 .. TREE_DEPTH - 1 : f[l + 1] = Parent(f[l], siblings[l], bits[l])

LEMMA Climb ==
  \A f, leaf, siblings, bits :
    Climbs(f, leaf, siblings, bits) => recompute_root(leaf, siblings, bits) = f[TREE_DEPTH]
<1> SUFFICES ASSUME NEW f, NEW leaf, NEW siblings, NEW bits, f[0] = leaf,
                    \A l \in 0 .. TREE_DEPTH - 1 :
                      f[l + 1] = Parent(f[l], siblings[l], bits[l])
             PROVE  recompute_root(leaf, siblings, bits) = f[TREE_DEPTH]
  BY DEF Climbs
<1> DEFINE a == <<leaf, siblings, bits>>
           cur[level \in Levels] ==
             IF level = 0 THEN leaf
             ELSE Parent(cur[level - 1], siblings[level - 1], bits[level - 1])
<1>1. \E g : UpRec!Defines(a, TREE_DEPTH, g)
  BY UpRec!Exists, Numbers
<1>2. cur = [level \in Levels |->
               IF level = 0 THEN leaf
               ELSE Parent(cur[level - 1], siblings[level - 1], bits[level - 1])]
  BY <1>1 DEF UpRec!Defines, Levels
<1>3. recompute_root(leaf, siblings, bits) = cur[TREE_DEPTH]
  BY DEF recompute_root
<1> HIDE DEF cur
<1> DEFINE S == {l \in Levels : cur[l] = f[l]}
<1>4. 0 \in S
  BY <1>2, Numbers DEF Levels
<1>5. ASSUME NEW l \in 0 .. TREE_DEPTH - 1, l \in S PROVE l + 1 \in S
  <2>1. l + 1 \in Levels /\ l + 1 # 0 /\ (l + 1) - 1 = l
    BY Numbers DEF Levels
  <2>2. cur[l + 1] = Parent(cur[l], siblings[l], bits[l])
    BY <1>2, <2>1
  <2> QED BY <1>5, <2>1, <2>2
<1> HIDE DEF S
<1>6. 0..TREE_DEPTH \subseteq S
  BY <1>4, <1>5, UpRec!UpTo, Numbers
<1>7. TREE_DEPTH \in S
  BY <1>6, Numbers
<1> QED BY <1>3, <1>7 DEF S
-----------------------------------------------------------------------------
(* What the circuit proves *)

\* Conditions 2 to 6 of the statement, of a trace and its public inputs: the
\* leaf with flag 0, status 1 and an expiry after the timestamp lies under the
\* root along binary directions, and the nullifier is the hash of the held
\* secret (the crate documentation of title_air).
ConditionsHold(tr, pi) ==
  LET leaf_row == tr[job_start_row(JOB_LEAF)]
      merkle_row(l) == tr[job_start_row(JOB_MERKLE_FIRST + l)]
      commitment == tr[job_last_row(JOB_OWNER)].s[0]
  IN  /\ \A l \in 0 .. TREE_DEPTH - 1 : merkle_row(l).aux["b"] \in {0, 1}
      /\ pi.merkle_root =
           recompute_root(hash(<<DOMAIN_LEAF, pi.registry_id, commitment, 0, 1,
                                 leaf_row.aux["d"]>>),
                          [l \in 0 .. TREE_DEPTH - 1 |-> merkle_row(l).aux["a"]],
                          [l \in 0 .. TREE_DEPTH - 1 |-> merkle_row(l).aux["b"] = 1])
      /\ leaf_row.aux["d"] > pi.current_timestamp
      /\ pi.nullifier =
           hash(<<DOMAIN_NULLIFIER, tr[0].held["secret"], tr[0].held["pid"],
                  pi.purpose, pi.request_nonce>>)

\* Condition 1: the commitment under the leaf is that of the held secret.
CommitmentHolds(tr) ==
  tr[job_last_row(JOB_OWNER)].s[0]
    = hash(<<DOMAIN_OWNER_COMMITMENT, tr[0].held["secret"], tr[0].held["pid"]>>)

\* The digest of the leaf job.
LEMMA LeafDigest ==
  ASSUME NEW tr \in [Rows -> Row], NEW pi, Satisfies(tr, pi)
  PROVE  tr[job_last_row(JOB_LEAF)].s[0]
           = hash(<<DOMAIN_LEAF, pi.registry_id, tr[job_last_row(JOB_OWNER)].s[0], 0, 1,
                    tr[job_start_row(JOB_LEAF)].aux["d"]>>)
<1> DEFINE first == tr[job_start_row(JOB_LEAF)] last == tr[job_last_row(JOB_OWNER)]
<1>1. first \in Row /\ last \in Row /\ IsOfType(first, "leaf")
  BY FirstRow, JobNumbers
<1>2. first.s = Boundary(last, first)
  <2>1. JOB_OWNER + 1 = JOB_LEAF
    BY JobNumbers
  <2> QED BY <2>1, JobStart, JobNumbers
<1>3. first.aux["a"] = pi.registry_id /\ first.aux["b"] = 0 /\ first.aux["c"] = 1
  BY DEF Satisfies, get_assertions, LeafAsserted
<1>4. first.s = Padded(<<DOMAIN_LEAF, pi.registry_id, last.s[0], 0, 1, first.aux["d"]>>)
  BY <1>1, <1>2, <1>3, BoundaryOf
<1> QED BY <1>4, JobDigest, JobNumbers

\* The digest of a Merkle step.
LEMMA MerkleDigest ==
  ASSUME NEW tr \in [Rows -> Row], NEW pi, Satisfies(tr, pi), NEW l \in 0 .. TREE_DEPTH - 1
  PROVE  LET first == tr[job_start_row(JOB_MERKLE_FIRST + l)] IN
         /\ first.aux["b"] \in {0, 1}
         /\ tr[job_last_row(JOB_LEAF + (l + 1))].s[0]
              = Parent(tr[job_last_row(JOB_LEAF + l)].s[0], first.aux["a"], first.aux["b"] = 1)
<1> DEFINE j == JOB_MERKLE_FIRST + l
           first == tr[job_start_row(j)] last == tr[job_last_row(JOB_LEAF + l)]
<1>1. /\ j \in Jobs /\ JOB_LEAF + l \in Jobs
      /\ (JOB_LEAF + l) + 1 = j /\ JOB_LEAF + (l + 1) = j
      /\ job_type_column(j) = "merkle"
  <2>1. j \in Jobs /\ j \notin {JOB_OWNER, JOB_LEAF, JOB_NULLIFIER}
        /\ (JOB_LEAF + l) + 1 = j /\ JOB_LEAF + (l + 1) = j
    BY JobNumbers, Numbers
  <2>2. JOB_LEAF + l \in Jobs
    BY <2>1, JobNumbers, Numbers DEF Jobs
  <2> QED BY <2>1, <2>2, JobNumbers
<1>2. first \in Row /\ IsOfType(first, "merkle") /\ MerkleBitBinary(first)
  BY <1>1, FirstRow
<1>3. last \in Row
  BY <1>1, FirstRow
<1>4. first.aux["b"] \in {0, 1}
  BY <1>2, MerkleBit DEF IsOfType, JobTypes
<1>5. first.s = Boundary(last, first)
  BY <1>1, JobStart
<1>6. CASE first.aux["b"] = 0
  <2>1. first.s = Padded(<<DOMAIN_NODE, last.s[0], first.aux["a"]>>)
    BY <1>2, <1>3, <1>5, <1>6, BoundaryOf
  <2>2. tr[job_last_row(j)].s[0] = hash(<<DOMAIN_NODE, last.s[0], first.aux["a"]>>)
    BY <1>1, <2>1, JobDigest
  <2> QED BY <1>1, <1>6, <2>2 DEF Parent
<1>7. CASE first.aux["b"] = 1
  <2>1. first.s = Padded(<<DOMAIN_NODE, first.aux["a"], last.s[0]>>)
    BY <1>2, <1>3, <1>5, <1>7, BoundaryOf
  <2>2. tr[job_last_row(j)].s[0] = hash(<<DOMAIN_NODE, first.aux["a"], last.s[0]>>)
    BY <1>1, <2>1, JobDigest
  <2> QED BY <1>1, <1>7, <2>2 DEF Parent
<1> QED BY <1>4, <1>6, <1>7

\* The digest of the nullifier job.
LEMMA NullifierDigest ==
  ASSUME NEW tr \in [Rows -> Row], NEW pi, Satisfies(tr, pi)
  PROVE  tr[job_last_row(JOB_NULLIFIER)].s[0]
           = hash(<<DOMAIN_NULLIFIER, tr[0].held["secret"], tr[0].held["pid"],
                    pi.purpose, pi.request_nonce>>)
<1> DEFINE first == tr[job_start_row(JOB_NULLIFIER)] last == tr[job_last_row(JOB_MERKLE_LAST)]
<1>1. first \in Row /\ last \in Row /\ IsOfType(first, "nullifier")
  BY FirstRow, JobNumbers
<1>2. first.s = Boundary(last, first)
  <2>1. JOB_MERKLE_LAST + 1 = JOB_NULLIFIER
    BY JobNumbers, Numbers
  <2> QED BY <2>1, JobStart, JobNumbers
<1>3. first.aux["a"] = pi.purpose /\ first.aux["b"] = pi.request_nonce
  BY DEF Satisfies, get_assertions, NullifierAsserted
<1>4. last.held = tr[0].held
  <2>1. job_last_row(JOB_MERKLE_LAST) \in Rows
    BY JobNumbers, JobEnds
  <2> QED BY <2>1, HeldThroughout
<1>5. first.s = Padded(<<DOMAIN_NULLIFIER, last.held["secret"], last.held["pid"],
                         pi.purpose, pi.request_nonce>>)
  BY <1>1, <1>2, <1>3, BoundaryOf
<1> QED BY <1>4, <1>5, JobDigest, JobNumbers

\* Whatever is written into its cells, a trace that satisfies the circuit shows
\* conditions 2 to 6 of the statement, for every depth of the tree, number of
\* rounds and range; the timestamp must leave the range room in the field
\* (evaluate_transition, get_assertions).
THEOREM CircuitSound ==
  \A tr \in [Rows -> Row] : \A pi \in StatementInputs :
    Satisfies(tr, pi) /\ pi.current_timestamp + PowerOfTwo(RANGE_BITS) < Modulus
      => ConditionsHold(tr, pi)
<1> SUFFICES ASSUME NEW tr \in [Rows -> Row], NEW pi \in StatementInputs, Satisfies(tr, pi),
                    pi.current_timestamp + PowerOfTwo(RANGE_BITS) < Modulus
             PROVE  ConditionsHold(tr, pi)
  OBVIOUS
<1> DEFINE leaf_row == tr[job_start_row(JOB_LEAF)]
           merkle_row(l) == tr[job_start_row(JOB_MERKLE_FIRST + l)]
           leaf == hash(<<DOMAIN_LEAF, pi.registry_id, tr[job_last_row(JOB_OWNER)].s[0], 0, 1,
                          leaf_row.aux["d"]>>)
           siblings == [l \in 0 .. TREE_DEPTH - 1 |-> merkle_row(l).aux["a"]]
           bits == [l \in 0 .. TREE_DEPTH - 1 |-> merkle_row(l).aux["b"] = 1]
           f == [l \in Levels |-> tr[job_last_row(JOB_LEAF + l)].s[0]]
<1>1. \A l \in 0 .. TREE_DEPTH - 1 : merkle_row(l).aux["b"] \in {0, 1}
  BY MerkleDigest
<1>2. pi.merkle_root = recompute_root(leaf, siblings, bits)
  <2>1. f[0] = leaf
    <3>1. JOB_LEAF + 0 = JOB_LEAF /\ 0 \in Levels
      BY JobNumbers, Numbers DEF Levels
    <3> QED BY <3>1, LeafDigest
  <2>2. \A l \in 0 .. TREE_DEPTH - 1 : f[l + 1] = Parent(f[l], siblings[l], bits[l])
    <3> SUFFICES ASSUME NEW l \in 0 .. TREE_DEPTH - 1
                 PROVE  f[l + 1] = Parent(f[l], siblings[l], bits[l])
      OBVIOUS
    <3>1. l \in Levels /\ l + 1 \in Levels
      BY Numbers DEF Levels
    <3>2. /\ f[l] = tr[job_last_row(JOB_LEAF + l)].s[0]
          /\ f[l + 1] = tr[job_last_row(JOB_LEAF + (l + 1))].s[0]
          /\ siblings[l] = merkle_row(l).aux["a"] /\ bits[l] = (merkle_row(l).aux["b"] = 1)
      BY <3>1
    <3> QED BY <3>2, MerkleDigest
  <2>3. f[TREE_DEPTH] = pi.merkle_root
    <3>1. JOB_LEAF + TREE_DEPTH = JOB_MERKLE_LAST /\ TREE_DEPTH \in Levels
      BY JobNumbers, Numbers DEF Levels
    <3>2. tr[job_last_row(JOB_MERKLE_LAST)].s[0] = pi.merkle_root
      BY DEF Satisfies, get_assertions
    <3> QED BY <3>1, <3>2
  <2> HIDE DEF f, leaf, siblings, bits
  <2>4. recompute_root(leaf, siblings, bits) = f[TREE_DEPTH]
    <3>1. Climbs(f, leaf, siblings, bits)
      BY <2>1, <2>2 DEF Climbs
    <3> QED BY <3>1, Climb
  <2> QED BY <2>3, <2>4
<1>3. leaf_row.aux["d"] > pi.current_timestamp
  <2>1. /\ leaf_row \in Row /\ IsOfType(leaf_row, "leaf")
        /\ RangeSum(leaf_row, pi) /\ RangeBitsBinary(leaf_row)
    BY FirstRow, JobNumbers
  <2>2. leaf_row.t["leaf"] = 1
    BY <2>1 DEF IsOfType, JobTypes
  <2>3. pi.current_timestamp \in FieldElements
    BY DEF StatementInputs
  <2> QED BY <2>1, <2>2, <2>3, RangeShows
<1>4. pi.nullifier = hash(<<DOMAIN_NULLIFIER, tr[0].held["secret"], tr[0].held["pid"],
                            pi.purpose, pi.request_nonce>>)
  BY NullifierDigest DEF Satisfies, get_assertions
<1> QED BY <1>1, <1>2, <1>3, <1>4 DEF ConditionsHold

\* With the first row taken as the row after the last, as the test harness
\* evaluates the constraints, condition 1 follows too.  TLC shows that without
\* this it does not.
THEOREM CommitmentIfCyclic ==
  \A tr \in [Rows -> Row] : \A pi \in StatementInputs :
    Satisfies(tr, pi) /\ LanesFollow(tr[TRACE_LENGTH - 1], tr[0], ROUNDS - 1)
      => CommitmentHolds(tr)
<1> SUFFICES ASSUME NEW tr \in [Rows -> Row], NEW pi \in StatementInputs, Satisfies(tr, pi),
                    LanesFollow(tr[TRACE_LENGTH - 1], tr[0], ROUNDS - 1)
             PROVE  CommitmentHolds(tr)
  OBVIOUS
<1> DEFINE last == tr[TRACE_LENGTH - 1]
<1>1. 0 \in Rows /\ TRACE_LENGTH - 1 \in Rows /\ job_start_row(JOB_OWNER) = 0
  BY Layout, JobNumbers, Numbers DEF Rows, job_start_row
<1>2. tr[0] \in Row /\ last \in Row /\ IsOfType(tr[0], "owner")
  BY <1>1, FirstRow, JobNumbers
<1>3. last.held = tr[0].held
  BY <1>1, HeldThroughout
<1>4. tr[0].s = Boundary(last, tr[0])
  BY DEF LanesFollow
<1>5. tr[0].s = Padded(<<DOMAIN_OWNER_COMMITMENT, tr[0].held["secret"], tr[0].held["pid"]>>)
  <2> HIDE DEF last
  <2>1. Boundary(last, tr[0])
          = Padded(<<DOMAIN_OWNER_COMMITMENT, last.held["secret"], last.held["pid"]>>)
    BY <1>2, BoundaryOf
  <2> QED BY <1>3, <1>4, <2>1
<1> DEFINE inputs == <<DOMAIN_OWNER_COMMITMENT, tr[0].held["secret"], tr[0].held["pid"]>>
<1> HIDE DEF last, inputs
<1>6. tr[job_start_row(JOB_OWNER)].s = Padded(inputs) /\ JOB_OWNER \in Jobs
  BY <1>1, <1>5, JobNumbers DEF inputs
<1>7. tr[job_last_row(JOB_OWNER)].s[0] = hash(inputs)
  BY <1>6, JobDigest
<1> QED BY <1>7 DEF CommitmentHolds, inputs
-----------------------------------------------------------------------------
(* The sparse tree *)

ZeroRec == INSTANCE LevelRecursion WITH
  Base <- LAMBDA a : 0, Step <- LAMBDA a, l, x : hash(<<DOMAIN_NODE, x, x>>)

\* The node on a leaf's path above the node x at a level.
Above(tree, index, level, x) ==
  Parent(x, node_at(tree, level, Sibling(Halved(index, level))),
         Halved(index, level) % 2 = 1)

PathRec == INSTANCE LevelRecursion WITH
  Base <- LAMBDA a : a[3], Step <- LAMBDA a, l, x : Above(a[1], a[2], l - 1, x)

\* The nodes above a leaf, the leaf included.
OnPath(index) == {<<level, Halved(index, level)>> : level \in Levels}

\* The hashes along the path, and the tree they are written into.
IsPath(path, tree, index, leaf) ==
  /\ path[0] = leaf
  /\ \A l \in 0 .. TREE_DEPTH - 1 : path[l + 1] = Above(tree, index, l, path[l])
  /\ \A l \in Levels : path[l] \in FieldElements
  /\ WithLeaf(tree, index, leaf)
       = [n \in DOMAIN tree \cup OnPath(index) |->
            IF n \in OnPath(index) THEN path[n[1]] ELSE tree[n]]

\* A tree over the field.
IsTree(tree) ==
  \A n \in DOMAIN tree : n \in Levels \X Indexes /\ tree[n] \in FieldElements

\* Parents of nodes in the field are in the field.
LEMMA ParentInField ==
  \A x, y \in FieldElements : \A right \in BOOLEAN : Parent(x, y, right) \in FieldElements
<1>1. DOMAIN_NODE \in FieldElements
  BY Numbers DEF DOMAIN_NODE, FieldElements
<1> QED BY <1>1, Inputs, HashInField DEF Parent

\* The hashes of empty subtrees are in the field.
LEMMA ZeroInField == \A l \in Levels : zero_hashes[l] \in FieldElements
<1>1. \E g : ZeroRec!Defines(0, TREE_DEPTH, g)
  BY ZeroRec!Exists, Numbers
<1>2. zero_hashes = [l \in Levels |-> IF l = 0 THEN 0
                       ELSE hash(<<DOMAIN_NODE, zero_hashes[l - 1], zero_hashes[l - 1]>>)]
  BY <1>1 DEF zero_hashes, ZeroRec!Defines, Levels
<1> DEFINE S == {l \in Levels : zero_hashes[l] \in FieldElements}
<1>3. 0 \in S
  BY <1>2, Numbers DEF Levels, FieldElements
<1>4. ASSUME NEW l \in 0 .. TREE_DEPTH - 1, l \in S PROVE l + 1 \in S
  <2>1. l + 1 \in Levels /\ l + 1 # 0 /\ (l + 1) - 1 = l
    BY Numbers DEF Levels
  <2>2. zero_hashes[l + 1] = Parent(zero_hashes[l], zero_hashes[l], FALSE)
    BY <1>2, <2>1 DEF Parent
  <2> QED BY <1>4, <2>1, <2>2, ParentInField
<1> HIDE DEF S
<1>5. 0..TREE_DEPTH \subseteq S
  BY <1>3, <1>4, ZeroRec!UpTo, Numbers
<1> QED BY <1>5 DEF S, Levels

LEMMA NodeInField ==
  ASSUME NEW tree, IsTree(tree), NEW level \in Levels, NEW index
  PROVE  node_at(tree, level, index) \in FieldElements
BY ZeroInField DEF node_at, IsTree

\* Halving a leaf's index TREE_DEPTH times leaves nothing.
LEMMA IndexHalves ==
  ASSUME NEW index \in Indexes
  PROVE  /\ \A l \in Levels : Halved(index, l) \in Indexes
         /\ Halved(index, TREE_DEPTH) = 0
<1> DEFINE S == {l \in Levels : /\ Halved(index, l) \in Nat
                                /\ Halved(index, l) * PowerOfTwo(l) <= index}
<1>1. index \in Nat /\ PowerOfTwo(TREE_DEPTH) \in Nat /\ index < PowerOfTwo(TREE_DEPTH)
  BY Powers, Numbers DEF Indexes
<1>2. 0 \in S
  <2>1. Halved(index, 0) = index /\ PowerOfTwo(0) = 1 /\ index * 1 <= index
    BY <1>1, Halves, Powers
  <2> QED BY <1>1, <2>1, Numbers DEF Levels
<1>3. ASSUME NEW l \in 0 .. TREE_DEPTH - 1, l \in S PROVE l + 1 \in S
  <2>1. l \in Nat /\ l + 1 \in Levels
    BY Numbers DEF Levels
  <2> DEFINE h == Halved(index, l) g == Halved(index, l + 1)
             p == PowerOfTwo(l) q == PowerOfTwo(l + 1)
  <2>2. h \in Nat /\ h * p <= index /\ g = h \div 2 /\ q = 2 * p /\ p \in Nat
    BY <1>3, <2>1, Halves, Powers
  <2> HIDE DEF h, g, p, q
  <2>3. g \in Nat /\ 2 * g <= h
    BY <2>2
  <2>4. (h - 2 * g) * p \in Nat /\ (h - 2 * g) * p = h * p - g * (2 * p)
    BY <2>2, <2>3
  <2>5. g * q <= index
    <3>1. h * p \in Nat /\ g * (2 * p) \in Nat /\ g * q = g * (2 * p)
      BY <2>2, <2>3
    <3> QED BY <1>1, <2>2, <2>4, <3>1
  <2> QED BY <2>1, <2>3, <2>5 DEF g, q
<1> HIDE DEF S
<1>4. 0..TREE_DEPTH \subseteq S
  BY <1>2, <1>3, HalfRec!UpTo, Numbers
<1>5. ASSUME NEW l \in Levels PROVE Halved(index, l) \in Indexes
  <2> DEFINE h == Halved(index, l) p == PowerOfTwo(l)
  <2>1. h \in Nat /\ h * p <= index /\ p \in Nat /\ p >= 1
    BY <1>4, Powers, Numbers DEF S, Levels
  <2> HIDE DEF h, p
  <2>2. (p - 1) * h \in Nat /\ (p - 1) * h = h * p - h
    BY <2>1
  <2>3. h <= index
    BY <1>1, <2>1, <2>2
  <2> QED BY <1>1, <2>1, <2>3 DEF h, Indexes
<1>6. Halved(index, TREE_DEPTH) = 0
  <2> DEFINE h == Halved(index, TREE_DEPTH) p == PowerOfTwo(TREE_DEPTH)
  <2>1. h \in Nat /\ h * p <= index
    BY <1>4, Numbers DEF S
  <2>2. p \in Nat /\ index < p
    BY <1>1
  <2> HIDE DEF h, p
  <2>3. h >= 1 => (h - 1) * p \in Nat /\ (h - 1) * p = h * p - p
    BY <2>1, <2>2
  <2>4. ~(h >= 1)
    BY <1>1, <2>1, <2>2, <2>3
  <2>5. h = 0
    BY <2>1, <2>4
  <2> QED BY <2>5 DEF h
<1> QED BY <1>5, <1>6

\* A node is not its own sibling.
LEMMA SiblingIsAnother == \A i \in Nat : Sibling(i) # i
BY DEF Sibling

\* The path from a leaf up, and what insert_leaf writes.
LEMMA Path ==
  ASSUME NEW tree, IsTree(tree), NEW index \in Indexes, NEW leaf \in FieldElements
  PROVE  \E path : IsPath(path, tree, index, leaf)
<1> DEFINE a == <<tree, index, leaf>>
           path[level \in Levels] ==
             IF level = 0 THEN leaf
             ELSE LET i == Halved(index, level - 1)
                  IN  Parent(path[level - 1], node_at(tree, level - 1, Sibling(i)), i % 2 = 1)
           step[level \in Levels] ==
             IF level = 0 THEN leaf ELSE Above(tree, index, level - 1, step[level - 1])
<1>1. \E g : PathRec!Defines(a, TREE_DEPTH, g)
  BY PathRec!Exists, Numbers
<1>2. step = [level \in Levels |->
                IF level = 0 THEN leaf ELSE Above(tree, index, level - 1, step[level - 1])]
  BY <1>1 DEF PathRec!Defines, Levels
<1>3. path = step
  BY DEF Above
<1>4. WithLeaf(tree, index, leaf)
        = [n \in DOMAIN tree \cup OnPath(index) |->
             IF n \in OnPath(index) THEN path[n[1]] ELSE tree[n]]
  BY DEF WithLeaf, OnPath
<1> HIDE DEF path, step
<1>5. path[0] = leaf
  BY <1>2, <1>3, Numbers DEF Levels
<1>6. \A l \in 0 .. TREE_DEPTH - 1 : path[l + 1] = Above(tree, index, l, path[l])
  <2> SUFFICES ASSUME NEW l \in 0 .. TREE_DEPTH - 1
               PROVE  path[l + 1] = Above(tree, index, l, path[l])
    OBVIOUS
  <2>1. l + 1 \in Levels /\ l + 1 # 0 /\ (l + 1) - 1 = l
    BY Numbers DEF Levels
  <2> QED BY <1>2, <1>3, <2>1
<1> DEFINE S == {l \in Levels : path[l] \in FieldElements}
<1>7. 0 \in S
  BY <1>5, Numbers DEF Levels
<1>8. ASSUME NEW l \in 0 .. TREE_DEPTH - 1, l \in S PROVE l + 1 \in S
  <2>1. l \in Levels /\ l + 1 \in Levels /\ path[l] \in FieldElements
    BY <1>8, Numbers DEF Levels
  <2>2. node_at(tree, l, Sibling(Halved(index, l))) \in FieldElements
    BY <2>1, NodeInField
  <2>3. path[l + 1] \in FieldElements
    BY <1>6, <2>1, <2>2, ParentInField DEF Above
  <2> QED BY <2>1, <2>3
<1> HIDE DEF S
<1>9. 0..TREE_DEPTH \subseteq S
  BY <1>7, <1>8, PathRec!UpTo, Numbers
<1>10. \A l \in Levels : path[l] \in FieldElements
  BY <1>9 DEF S, Levels
<1> QED BY <1>4, <1>5, <1>6, <1>10 DEF IsPath

LEMMA TreeWithLeaf ==
  ASSUME NEW tree, IsTree(tree), NEW index \in Indexes, NEW leaf \in FieldElements
  PROVE  IsTree(WithLeaf(tree, index, leaf))
<1>1. PICK path : IsPath(path, tree, index, leaf)
  BY Path
<1>2. \A l \in Levels : Halved(index, l) \in Indexes
  BY IndexHalves
<1>3. \A n \in OnPath(index) : n \in Levels \X Indexes /\ n[1] \in Levels
  BY <1>2 DEF OnPath
<1> QED BY <1>1, <1>3 DEF IsPath, IsTree

\* The path taken from the tree after a leaf is inserted leads from the leaf to
\* the root of that tree, whatever other leaves it has (insert_leaf, proof).
LEMMA PathLeadsToRoot ==
  ASSUME NEW tree, IsTree(tree), NEW index \in Indexes, NEW leaf \in FieldElements
  PROVE  LET new == WithLeaf(tree, index, leaf) IN
         root(new) = recompute_root(leaf, proof(new, index).siblings, proof(new, index).bits)
<1> DEFINE new == WithLeaf(tree, index, leaf)
           siblings == [l \in 0 .. TREE_DEPTH - 1 |-> node_at(new, l, Sibling(Halved(index, l)))]
           bits == [l \in 0 .. TREE_DEPTH - 1 |-> Halved(index, l) % 2 = 1]
<1>1. PICK path : IsPath(path, tree, index, leaf)
  BY Path
<1>2. proof(new, index).siblings = siblings /\ proof(new, index).bits = bits
  BY DEF proof
<1>3. new = [n \in DOMAIN tree \cup OnPath(index) |->
               IF n \in OnPath(index) THEN path[n[1]] ELSE tree[n]]
  BY <1>1 DEF IsPath
<1> HIDE DEF new
<1>4. ASSUME NEW l \in 0 .. TREE_DEPTH - 1
      PROVE  siblings[l] = node_at(tree, l, Sibling(Halved(index, l)))
  <2> DEFINE i == Halved(index, l)
             n == <<l, Sibling(i)>>
  <2>1. l \in Levels /\ i \in Nat
    <3>1. l \in Levels
      BY Numbers DEF Levels
    <3>2. i \in Indexes
      BY <3>1, IndexHalves
    <3> QED BY <3>1, <3>2, Powers, Numbers DEF Indexes
  <2>2. n \notin OnPath(index)
    <3>1. Sibling(i) # i
      BY <2>1, SiblingIsAnother
    <3> QED BY <3>1 DEF OnPath
  <2>3. n \in DOMAIN new <=> n \in DOMAIN tree
    BY <1>3, <2>2
  <2>4. n \in DOMAIN tree => new[n] = tree[n]
    BY <1>3, <2>2
  <2>5. node_at(new, l, Sibling(i)) = node_at(tree, l, Sibling(i))
    BY <2>3, <2>4 DEF node_at
  <2> QED BY <2>5
<1>5. \A l \in 0 .. TREE_DEPTH - 1 : path[l + 1] = Parent(path[l], siblings[l], bits[l])
  <2> SUFFICES ASSUME NEW l \in 0 .. TREE_DEPTH - 1
               PROVE  path[l + 1] = Parent(path[l], siblings[l], bits[l])
    OBVIOUS
  <2>1. path[l + 1] = Above(tree, index, l, path[l])
    BY <1>1 DEF IsPath
  <2>2. bits[l] = (Halved(index, l) % 2 = 1)
    OBVIOUS
  <2> QED BY <1>4, <2>1, <2>2 DEF Above
<1>6. root(new) = path[TREE_DEPTH]
  <2>1. TREE_DEPTH \in Levels /\ Halved(index, TREE_DEPTH) = 0
    BY IndexHalves, Numbers DEF Levels
  <2>2. <<TREE_DEPTH, 0>> \in OnPath(index) /\ <<TREE_DEPTH, 0>>[1] = TREE_DEPTH
    BY <2>1 DEF OnPath
  <2>3. <<TREE_DEPTH, 0>> \in DOMAIN new /\ new[<<TREE_DEPTH, 0>>] = path[TREE_DEPTH]
    BY <1>3, <2>2
  <2> QED BY <2>3 DEF root, node_at
<1>7. path[0] = leaf
  BY <1>1 DEF IsPath
<1> HIDE DEF siblings, bits
<1>8. recompute_root(leaf, siblings, bits) = path[TREE_DEPTH]
  <2>1. Climbs(path, leaf, siblings, bits)
    BY <1>5, <1>7 DEF Climbs
  <2> QED BY <2>1, Climb
<1> QED BY <1>2, <1>6, <1>8 DEF new

\* What the path consists of.
LEMMA PathParts ==
  ASSUME NEW tree, IsTree(tree), NEW index
  PROVE  /\ proof(tree, index).siblings \in [0 .. TREE_DEPTH - 1 -> FieldElements]
         /\ proof(tree, index).bits \in [0 .. TREE_DEPTH - 1 -> BOOLEAN]
<1>1. \A l \in 0 .. TREE_DEPTH - 1 :
        node_at(tree, l, Sibling(Halved(index, l))) \in FieldElements
  BY NodeInField, Numbers DEF Levels
<1> QED BY <1>1 DEF proof
=============================================================================
