--------------------------- MODULE LevelRecursion ---------------------------
(***************************************************************************)
(* Recursion from level to level, the one scheme of the recursive          *)
(* functions of this project: Base(a) at level 0, and Step(a, l, x) at     *)
(* level l if x is the value at the level before.  a stands for whatever   *)
(* the recursion depends on besides the level.                             *)
(*                                                                         *)
(* A proof module takes an INSTANCE of this one for each recursive         *)
(* function it reasons about.  That gives it the theorems below for that   *)
(* function's Base and Step, which as theorems with operator parameters    *)
(* the provers could not instantiate.  Induction is over sets of numbers   *)
(* for the same reason.                                                    *)
(***************************************************************************)
EXTENDS Integers, WellFoundedInduction, TLAPS

CONSTANTS Base(_), Step(_, _, _)

\* A nonempty set of natural numbers has a least element.
LEMMA Least ==
  \A T \in SUBSET Nat : T # {} => \E m \in T : \A k \in T : ~(k < m)
<1> SUFFICES ASSUME NEW T \in SUBSET Nat, T # {}
             PROVE  \E m \in T : \A k \in T : ~(k < m)
  OBVIOUS
<1> DEFINE R == OpToRel(<, Nat)
<1>1. IsWellFoundedOn(R, Nat)
  BY NatLessThanWellFounded
<1>2. \A x, y \in Nat : <<x, y>> \in R <=> x < y
  BY DEF OpToRel
<1> HIDE DEF R
<1>3. \E x \in T : \A y \in T : ~(<<y, x>> \in R)
  BY <1>1, WFMin
<1> QED BY <1>2, <1>3

\* Induction from 0 to n, for a set instead of a predicate.
THEOREM UpTo ==
  \A S : \A n \in Nat :
    0 \in S /\ (\A k \in 0 .. n - 1 : k \in S => k + 1 \in S) => 0..n \subseteq S
<1> SUFFICES ASSUME NEW n \in Nat, NEW S, 0 \in S,
                    \A k \in 0 .. n - 1 : k \in S => k + 1 \in S,
                    ~(0..n \subseteq S)
             PROVE  FALSE
  OBVIOUS
<1> DEFINE T == {k \in 0..n : k \notin S}
<1>1. T \in SUBSET Nat /\ T # {}
  OBVIOUS
<1> HIDE DEF T
<1>2. PICK m \in T : \A k \in T : ~(k < m)
  BY <1>1, Least
<1> USE DEF T
<1>3. m # 0 /\ m - 1 \in 0 .. n - 1 /\ m - 1 < m
  BY <1>2
<1> QED BY <1>2, <1>3

\* Induction from n down to 0.
THEOREM DownFrom ==
  \A S : \A n \in Nat :
    n \in S /\ (\A k \in 0 .. n - 1 : k + 1 \in S => k \in S) => 0..n \subseteq S
<1> SUFFICES ASSUME NEW n \in Nat, NEW S, n \in S,
                    \A k \in 0 .. n - 1 : k + 1 \in S => k \in S
             PROVE  0..n \subseteq S
  OBVIOUS
<1> DEFINE T == {k \in 0..n : n - k \in S}
<1>1. 0 \in T
  OBVIOUS
<1>2. \A k \in 0 .. n - 1 : k \in T => k + 1 \in T
  <2> SUFFICES ASSUME NEW k \in 0 .. n - 1, k \in T PROVE k + 1 \in T
    OBVIOUS
  <2>1. n - k - 1 \in 0 .. n - 1 /\ (n - k - 1) + 1 = n - k /\ n - (k + 1) = n - k - 1
    OBVIOUS
  <2> QED BY <2>1
<1> HIDE DEF T
<1>3. 0..n \subseteq T
  BY <1>1, <1>2, UpTo
<1>4. \A k \in 0..n : n - k \in 0..n /\ n - (n - k) = k
  OBVIOUS
<1> QED BY <1>3, <1>4 DEF T

\* g is the function that the recursion defines on the levels up to n.
Defines(a, n, g) ==
  g = [l \in 0..n |-> IF l = 0 THEN Base(a) ELSE Step(a, l, g[l - 1])]

\* The recursion defines something.
THEOREM Exists == \A a, n : n \in Nat => \E g : Defines(a, n, g)
<1> SUFFICES ASSUME NEW a, NEW n \in Nat PROVE \E g : Defines(a, n, g)
  OBVIOUS
<1> DEFINE S == {k \in 0..n : \E g : Defines(a, k, g)}
<1>1. 0 \in S
  <2>1. Defines(a, 0, [l \in 0..0 |-> Base(a)])
    BY DEF Defines
  <2> QED BY <2>1
<1>2. ASSUME NEW k \in 0 .. n - 1, k \in S PROVE k + 1 \in S
  <2>1. PICK g : Defines(a, k, g)
    BY <1>2
  <2> DEFINE h == [l \in 0 .. k + 1 |-> IF l <= k THEN g[l] ELSE Step(a, k + 1, g[k])]
  <2>2. Defines(a, k + 1, h)
    <3>1. \A l \in 0 .. k + 1 : h[l] = IF l = 0 THEN Base(a) ELSE Step(a, l, h[l - 1])
      BY <2>1 DEF Defines
    <3>2. h = [l \in 0 .. k + 1 |-> h[l]]
      OBVIOUS
    <3> QED BY <3>1, <3>2 DEF Defines
  <2> HIDE DEF h
  <2> QED BY <2>2
<1> HIDE DEF S
<1>3. 0..n \subseteq S
  BY <1>1, <1>2, UpTo
<1> QED BY <1>3 DEF S

\* What the recursion gives for n, as a LET with a recursive function has it.
At(a, n) ==
  LET g[l \in 0..n] == IF l = 0 THEN Base(a) ELSE Step(a, l, g[l - 1]) IN g[n]

\* How far the recursion goes makes no difference to the levels on the way.
LEMMA Unique ==
  \A a, m, n, g, h : m \in Nat /\ n \in Nat /\ m <= n /\ Defines(a, n, g) /\ Defines(a, m, h)
                       => \A l \in 0..m : g[l] = h[l]
<1> SUFFICES ASSUME NEW a, NEW m \in Nat, NEW n \in Nat, m <= n,
                    NEW g, NEW h, Defines(a, n, g), Defines(a, m, h)
             PROVE  \A l \in 0..m : g[l] = h[l]
  OBVIOUS
<1> DEFINE S == {l \in 0..m : g[l] = h[l]}
<1>1. /\ \A l \in 0..n : g[l] = IF l = 0 THEN Base(a) ELSE Step(a, l, g[l - 1])
      /\ \A l \in 0..m : h[l] = IF l = 0 THEN Base(a) ELSE Step(a, l, h[l - 1])
  BY DEF Defines
<1>2. 0 \in S
  BY <1>1
<1>3. ASSUME NEW k \in 0 .. m - 1, k \in S PROVE k + 1 \in S
  <2>1. k + 1 \in 0..m /\ k + 1 \in 0..n /\ k + 1 # 0 /\ (k + 1) - 1 = k
    OBVIOUS
  <2>2. g[k + 1] = Step(a, k + 1, g[k]) /\ h[k + 1] = Step(a, k + 1, h[k])
    BY <1>1, <2>1
  <2>3. g[k] = h[k]
    BY <1>3
  <2> QED BY <2>1, <2>2, <2>3
<1> HIDE DEF S
<1>4. 0..m \subseteq S
  BY <1>2, <1>3, UpTo
<1> QED BY <1>4 DEF S

\* The recursion, level by level.
THEOREM Unfold ==
  \A a : /\ At(a, 0) = Base(a)
         /\ \A n \in Nat : At(a, n + 1) = Step(a, n + 1, At(a, n))
<1> SUFFICES ASSUME NEW a PROVE /\ At(a, 0) = Base(a)
                                /\ \A n \in Nat : At(a, n + 1) = Step(a, n + 1, At(a, n))
  OBVIOUS
<1>1. ASSUME NEW n \in Nat PROVE \E g : Defines(a, n, g) /\ At(a, n) = g[n]
  <2> DEFINE g[l \in 0..n] == IF l = 0 THEN Base(a) ELSE Step(a, l, g[l - 1])
  <2>1. \E h : Defines(a, n, h)
    BY Exists
  <2>2. Defines(a, n, g)
    BY <2>1 DEF Defines
  <2>3. At(a, n) = g[n]
    BY DEF At
  <2> HIDE DEF g
  <2> QED BY <2>2, <2>3
<1>2. At(a, 0) = Base(a)
  <2>1. PICK g : Defines(a, 0, g) /\ At(a, 0) = g[0]
    BY <1>1
  <2> QED BY <2>1 DEF Defines
<1>3. ASSUME NEW n \in Nat PROVE At(a, n + 1) = Step(a, n + 1, At(a, n))
  <2>1. PICK g : Defines(a, n + 1, g) /\ At(a, n + 1) = g[n + 1]
    BY <1>1
  <2>2. PICK h : Defines(a, n, h) /\ At(a, n) = h[n]
    BY <1>1
  <2>3. g[n] = h[n]
    BY <2>1, <2>2, Unique
  <2>4. g[n + 1] = Step(a, n + 1, g[n])
    <3>1. \A l \in 0 .. n + 1 : g[l] = IF l = 0 THEN Base(a) ELSE Step(a, l, g[l - 1])
      BY <2>1 DEF Defines
    <3>2. n + 1 \in 0 .. n + 1 /\ n + 1 # 0 /\ (n + 1) - 1 = n
      OBVIOUS
    <3> QED BY <3>1, <3>2
  <2> QED BY <2>1, <2>2, <2>3, <2>4
<1> QED BY <1>2, <1>3
=============================================================================
