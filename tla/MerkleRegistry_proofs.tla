------------------------ MODULE MerkleRegistry_proofs ------------------------
(***************************************************************************)
(* Proofs about MerkleRegistry for any principals, properties, commitments *)
(* and terms, any depth of the tree and any sequence of submissions,       *)
(* resubmissions, admin calls and upgrades.                                *)
(*                                                                         *)
(* Three inductive invariants.  AdminInv: the admins are distinct.  IInv:  *)
(* what leaf a property has depends on the indices and their counter       *)
(* alone.  TreeInv: every stored or unstored node is the hash of the two   *)
(* below it, the bottom row holds the records' leaves, and as long as the  *)
(* tree has room the root is the node at the top.  The tree's recursive    *)
(* functions are unfolded by LevelRecursion, once each.                    *)
(***************************************************************************)
EXTENDS MerkleRegistry, FiniteSetTheorems, SequenceTheorems, TLAPS

-----------------------------------------------------------------------------
(* The recursive functions, unfolded *)

ZeroRec == INSTANCE LevelRecursion WITH
  Base <- LAMBDA a : ZERO, Step <- LAMBDA a, l, x : HashNode(x, x)

HalfRec == INSTANCE LevelRecursion WITH
  Base <- LAMBDA a : a, Step <- LAMBDA a, l, x : x \div 2

WidthRec == INSTANCE LevelRecursion WITH
  Base <- LAMBDA a : 1, Step <- LAMBDA a, l, x : 2 * x

PathRec == INSTANCE LevelRecursion WITH
  Base <- LAMBDA a : a[2],
  Step <- LAMBDA a, l, x :
            HashUp(x, node_at(l - 1, Sibling(Ancestor(a[1], l - 1))),
                   Ancestor(a[1], l - 1))

UpRec == INSTANCE LevelRecursion WITH
  Base <- LAMBDA a : a[1],
  Step <- LAMBDA a, l, x :
            IF a[2].path_bits[l - 1] THEN HashNode(a[2].siblings[l - 1], x)
                                     ELSE HashNode(x, a[2].siblings[l - 1])

RowRec == INSTANCE LevelRecursion WITH
  Base <- LAMBDA a : a,
  Step <- LAMBDA a, l, x : [i \in Nat |-> HashNode(x[2 * i], x[2 * i + 1])]

\* The hashes of empty subtrees (init_zero_hashes).
LEMMA ZeroHashes ==
  /\ zero_hashes[0] = ZERO
  /\ \A l \in 0 .. TREE_DEPTH - 1 :
       zero_hashes[l + 1] = HashNode(zero_hashes[l], zero_hashes[l])
<1>1. \E g : ZeroRec!Defines(0, TREE_DEPTH, g)
  BY ZeroRec!Exists, RegistryAssumption
<1>2. zero_hashes = [l \in 0..TREE_DEPTH |-> IF l = 0 THEN ZERO
                        ELSE HashNode(zero_hashes[l - 1], zero_hashes[l - 1])]
  BY <1>1 DEF zero_hashes, ZeroRec!Defines
<1> QED BY <1>2, RegistryAssumption

\* The ancestors of a leaf, one halving per level (insert_leaf).
LEMMA Ancestors ==
  ASSUME NEW index \in Nat
  PROVE  /\ Ancestor(index, 0) = index
         /\ \A l \in 0 .. TREE_DEPTH - 1 :
              Ancestor(index, l + 1) = Ancestor(index, l) \div 2
         /\ \A l \in 0..TREE_DEPTH : Ancestor(index, l) \in Nat
<1> DEFINE idx[l \in 0..TREE_DEPTH] == IF l = 0 THEN index ELSE idx[l - 1] \div 2
<1>1. \E g : HalfRec!Defines(index, TREE_DEPTH, g)
  BY HalfRec!Exists, RegistryAssumption
<1>2. idx = [l \in 0..TREE_DEPTH |-> IF l = 0 THEN index ELSE idx[l - 1] \div 2]
  BY <1>1 DEF HalfRec!Defines
<1>3. \A l : Ancestor(index, l) = idx[l]
  BY DEF Ancestor
<1> HIDE DEF idx
<1>4. idx[0] = index /\ \A l \in 0 .. TREE_DEPTH - 1 : idx[l + 1] = idx[l] \div 2
  BY <1>2, RegistryAssumption
<1> DEFINE S == {l \in 0..TREE_DEPTH : idx[l] \in Nat}
<1>5. 0 \in S /\ \A l \in 0 .. TREE_DEPTH - 1 : l \in S => l + 1 \in S
  BY <1>4, RegistryAssumption
<1> HIDE DEF S
<1>6. 0..TREE_DEPTH \subseteq S
  BY <1>5, HalfRec!UpTo, RegistryAssumption
<1> QED BY <1>3, <1>4, <1>6 DEF S

\* The nodes on a leaf's path, each hashed from the one below and its sibling.
LEMMA Path ==
  ASSUME NEW index, NEW leaf
  PROVE  /\ PathTo(index, leaf)[0] = leaf
         /\ \A l \in 0 .. TREE_DEPTH - 1 :
              PathTo(index, leaf)[l + 1]
                = HashUp(PathTo(index, leaf)[l],
                         node_at(l, Sibling(Ancestor(index, l))), Ancestor(index, l))
<1> DEFINE cur[level \in 0..TREE_DEPTH] ==
        IF level = 0 THEN leaf
        ELSE HashUp(cur[level - 1],
                     node_at(level - 1, Sibling(Ancestor(index, level - 1))),
                     Ancestor(index, level - 1))
<1>1. \E g : PathRec!Defines(<<index, leaf>>, TREE_DEPTH, g)
  BY PathRec!Exists, RegistryAssumption
<1>2. cur = [level \in 0..TREE_DEPTH |-> 
        IF level = 0 THEN leaf
        ELSE HashUp(cur[level - 1],
                     node_at(level - 1, Sibling(Ancestor(index, level - 1))),
                     Ancestor(index, level - 1))]
  BY <1>1 DEF PathRec!Defines
<1>3. PathTo(index, leaf) = cur
  BY DEF PathTo
<1> HIDE DEF cur
<1> QED BY <1>2, <1>3, RegistryAssumption

\* What a device recomputes, level by level.
LEMMA Recomputed ==
  ASSUME NEW leaf, NEW proof
  PROVE  \E up :
           /\ RecomputedRoot(leaf, proof) = up[TREE_DEPTH]
           /\ up[0] = leaf
           /\ \A l \in 0 .. TREE_DEPTH - 1 :
                up[l + 1] = IF proof.path_bits[l] THEN HashNode(proof.siblings[l], up[l])
                                                  ELSE HashNode(up[l], proof.siblings[l])
<1> DEFINE up[level \in 0..TREE_DEPTH] ==
        IF level = 0 THEN leaf
        ELSE IF proof.path_bits[level - 1]
             THEN HashNode(proof.siblings[level - 1], up[level - 1])
             ELSE HashNode(up[level - 1], proof.siblings[level - 1])
<1>1. \E g : UpRec!Defines(<<leaf, proof>>, TREE_DEPTH, g)
  BY UpRec!Exists, RegistryAssumption
<1>2. up = [level \in 0..TREE_DEPTH |->
              IF level = 0 THEN leaf
              ELSE IF proof.path_bits[level - 1]
                   THEN HashNode(proof.siblings[level - 1], up[level - 1])
                   ELSE HashNode(up[level - 1], proof.siblings[level - 1])]
  BY <1>1 DEF UpRec!Defines
<1>3. RecomputedRoot(leaf, proof) = up[TREE_DEPTH]
  BY DEF RecomputedRoot
<1> HIDE DEF up
<1>4. /\ up[0] = leaf
      /\ \A l \in 0 .. TREE_DEPTH - 1 :
           up[l + 1] = IF proof.path_bits[l] THEN HashNode(proof.siblings[l], up[l])
                                             ELSE HashNode(up[l], proof.siblings[l])
  BY <1>2, RegistryAssumption
<1> QED BY <1>3, <1>4

\* The tree over given leaves, row by row.
LEMMA Rows ==
  ASSUME NEW leaves
  PROVE  /\ TreeOver(leaves)[0] = leaves
         /\ \A l \in 0 .. TREE_DEPTH - 1, i \in Nat :
              TreeOver(leaves)[l + 1][i]
                = HashNode(TreeOver(leaves)[l][2 * i], TreeOver(leaves)[l][2 * i + 1])
<1> DEFINE row[level \in 0..TREE_DEPTH] ==
        IF level = 0 THEN leaves
        ELSE [i \in Nat |-> HashNode(row[level - 1][2 * i], row[level - 1][2 * i + 1])]
<1>1. \E g : RowRec!Defines(leaves, TREE_DEPTH, g)
  BY RowRec!Exists, RegistryAssumption
<1>2. row = [level \in 0..TREE_DEPTH |->
              IF level = 0 THEN leaves
              ELSE [i \in Nat |-> HashNode(row[level - 1][2 * i], row[level - 1][2 * i + 1])]]
  BY <1>1 DEF RowRec!Defines
<1>3. TreeOver(leaves) = row
  BY DEF TreeOver
<1> HIDE DEF row
<1>4. /\ row[0] = leaves
      /\ \A l \in 0 .. TREE_DEPTH - 1 :
           row[l + 1] = [i \in Nat |-> HashNode(row[l][2 * i], row[l][2 * i + 1])]
  <2>1. \A l \in 0..TREE_DEPTH :
          row[l] = IF l = 0 THEN leaves
                   ELSE [i \in Nat |-> HashNode(row[l - 1][2 * i], row[l - 1][2 * i + 1])]
    BY <1>2, Zenon
  <2>2. /\ 0 \in 0..TREE_DEPTH
        /\ \A l \in 0 .. TREE_DEPTH - 1 :
             l + 1 \in 0..TREE_DEPTH /\ l + 1 # 0 /\ (l + 1) - 1 = l
    BY RegistryAssumption
  <2>3. row[0] = leaves
    BY <2>1, <2>2, Zenon
  <2>4. ASSUME NEW l \in 0 .. TREE_DEPTH - 1
        PROVE  row[l + 1] = [i \in Nat |-> HashNode(row[l][2 * i], row[l][2 * i + 1])]
    <3> DEFINE k == l + 1
    <3>1. k \in 0..TREE_DEPTH /\ k # 0 /\ k - 1 = l
      BY <2>2
    <3> HIDE DEF k
    <3>2. row[k] = [i \in Nat |-> HashNode(row[k - 1][2 * i], row[k - 1][2 * i + 1])]
      BY <2>1, <3>1, Zenon
    <3> QED BY <3>1, <3>2 DEF k
  <2> QED BY <2>3, <2>4
<1> QED BY <1>3, <1>4

-----------------------------------------------------------------------------
(* The admin list *)

\* Entry by entry, as retain decides.
KeptRec == INSTANCE LevelRecursion WITH
  Base <- LAMBDA a : <<>>,
  Step <- LAMBDA a, l, x : IF a[1][l] = a[2] THEN x ELSE Append(x, a[1][l])

Listed(s) == {s[i] : i \in 1..Len(s)}

Distinct(s) == \A i, j \in 1..Len(s) : s[i] = s[j] => i = j

AdminInv == admins \in Seq(Principals) /\ Distinct(admins)

\* One more entry, which was not there.
LEMMA OneMore ==
  ASSUME NEW s \in Seq(Principals), Distinct(s), NEW x \in Principals, x \notin Listed(s)
  PROVE  /\ Append(s, x) \in Seq(Principals)
         /\ Distinct(Append(s, x))
         /\ Listed(Append(s, x)) = Listed(s) \cup {x}
<1> DEFINE t == Append(s, x)
<1>1. /\ t \in Seq(Principals) /\ Len(s) \in Nat /\ Len(t) = Len(s) + 1
      /\ t[Len(s) + 1] = x /\ \A i \in 1..Len(s) : t[i] = s[i]
  BY AppendProperties, LenProperties
<1> HIDE DEF t
<1>2. 1..Len(t) = 1..Len(s) \cup {Len(s) + 1}
  BY <1>1
<1>3. Listed(t) = Listed(s) \cup {x}
  BY <1>1, <1>2 DEF Listed
<1>4. Distinct(t)
  BY <1>1, <1>2 DEF Distinct, Listed
<1> QED BY <1>1, <1>3, <1>4 DEF t

\* retain keeps everybody else, once.
LEMMA Retained ==
  ASSUME AdminInv, NEW p
  PROVE  /\ WithoutAdmin(p) \in Seq(Principals)
         /\ Distinct(WithoutAdmin(p))
         /\ Listed(WithoutAdmin(p)) = Listed(admins) \ {p}
<1> DEFINE n == Len(admins)
           kept[i \in 0..n] ==
             IF i = 0 THEN <<>>
             ELSE IF admins[i] = p THEN kept[i - 1] ELSE Append(kept[i - 1], admins[i])
<1>1. n \in Nat /\ \A i \in 1..n : admins[i] \in Principals
  BY ElementOfSeq, LenProperties DEF AdminInv
<1>2. \E g : KeptRec!Defines(<<admins, p>>, n, g)
  BY <1>1, KeptRec!Exists
<1>3. kept = [i \in 0..n |->
               IF i = 0 THEN <<>>
               ELSE IF admins[i] = p THEN kept[i - 1] ELSE Append(kept[i - 1], admins[i])]
  BY <1>2, Zenon DEF KeptRec!Defines
<1>4. WithoutAdmin(p) = kept[n]
  BY DEF WithoutAdmin
<1> HIDE DEF kept, n
<1>5. /\ kept[0] = <<>>
      /\ \A i \in 0 .. n - 1 :
           kept[i + 1] = IF admins[i + 1] = p THEN kept[i]
                         ELSE Append(kept[i], admins[i + 1])
  <2>1. \A i \in 0..n :
          kept[i] = IF i = 0 THEN <<>>
                    ELSE IF admins[i] = p THEN kept[i - 1]
                    ELSE Append(kept[i - 1], admins[i])
    BY <1>3
  <2>2. 0 \in 0..n /\ \A i \in 0 .. n - 1 : i + 1 \in 0..n /\ i + 1 # 0 /\ (i + 1) - 1 = i
    BY <1>1
  <2> QED BY <2>1, <2>2, Zenon
<1> DEFINE Others(i) == {admins[j] : j \in 1..i} \ {p}
           S == {i \in 0..n : /\ kept[i] \in Seq(Principals)
                              /\ Distinct(kept[i])
                              /\ Listed(kept[i]) = Others(i)}
<1>6. 0 \in S
  <2>1. <<>> \in Seq(Principals) /\ Len(<<>>) = 0
    BY EmptySeq
  <2>2. Distinct(<<>>) /\ Listed(<<>>) = {} /\ Others(0) = {}
    BY <2>1 DEF Distinct, Listed
  <2>3. 0 \in 0..n /\ kept[0] = <<>>
    BY <1>1, <1>5
  <2> HIDE DEF Others
  <2> QED BY <2>1, <2>2, <2>3, Zenon
<1>7. ASSUME NEW i \in 0 .. n - 1, i \in S PROVE i + 1 \in S
  <2> DEFINE x == admins[i + 1]
  <2>1. /\ i + 1 \in 0..n /\ i + 1 \in 1..n /\ x \in Principals
        /\ 1 .. i + 1 = 1..i \cup {i + 1}
    BY <1>1
  <2>2. x \notin {admins[j] : j \in 1..i}
    BY <1>1, <2>1 DEF AdminInv, Distinct, n
  <2>3. Others(i + 1) = Others(i) \cup ({x} \ {p})
    BY <2>1
  <2>4. CASE x = p
    BY <1>5, <1>7, <2>1, <2>3, <2>4
  <2>5. CASE x # p
    <3>1. kept[i + 1] = Append(kept[i], x)
      BY <1>5, <2>5
    <3>2. kept[i] \in Seq(Principals) /\ Distinct(kept[i]) /\ Listed(kept[i]) = Others(i)
      BY <1>7
    <3>3. x \notin Listed(kept[i])
      BY <2>2, <3>2
    <3> DEFINE s == kept[i]
    <3> HIDE DEF s, x, Others
    <3>4. /\ Append(s, x) \in Seq(Principals) /\ Distinct(Append(s, x))
          /\ Listed(Append(s, x)) = Listed(s) \cup {x}
      BY <2>1, <3>2, <3>3, OneMore DEF s
    <3> QED BY <2>1, <2>3, <2>5, <3>1, <3>2, <3>4 DEF s
  <2> QED BY <2>4, <2>5
<1> HIDE DEF S
<1>8. 0..n \subseteq S
  BY <1>1, <1>6, <1>7, KeptRec!UpTo
<1>9. n \in S
  BY <1>1, <1>8
<1>10. Others(n) = Listed(admins) \ {p}
  BY DEF Listed, n
<1> QED BY <1>4, <1>9, <1>10 DEF S

\* Nobody is listed twice, whatever the admins do.
LEMMA AdminInvStep ==
  ASSUME AdminInv, AdminNext
  PROVE  AdminInv' /\ (admins # <<>> => admins' # <<>>)
<1>0. Len(admins) \in Nat /\ (admins # <<>> => Len(admins) # 0)
  BY EmptySeq, LenProperties DEF AdminInv
<1>1. PICK caller \in Principals, other \in Principals :
        BootstrapAdmin(caller, other) \/ AddAdmin(caller, other) \/ RemoveAdmin(caller, other)
  BY DEF AdminNext
<1>2. ASSUME other \notin Listed(admins), admins' = Append(admins, other)
      PROVE  AdminInv' /\ admins' # <<>>
  <2>1. admins' \in Seq(Principals) /\ Distinct(admins') /\ other \in Listed(admins')
    BY <1>2, OneMore DEF AdminInv
  <2>2. Listed(<<>>) = {}
    BY EmptySeq DEF Listed
  <2> QED BY <2>1, <2>2 DEF AdminInv
<1>3. CASE admins' = admins
  BY <1>3 DEF AdminInv
<1>4. CASE BootstrapAdmin(caller, other)
  <2>1. CASE admins = <<>> /\ admins' = Append(admins, other)
    <3>1. other \notin Listed(admins)
      BY <2>1, EmptySeq DEF Listed
    <3> QED BY <1>2, <2>1, <3>1
  <2> QED BY <1>3, <1>4, <2>1 DEF BootstrapAdmin
<1>5. CASE AddAdmin(caller, other)
  <2>1. admins' = admins \/ (other \notin Listed(admins) /\ admins' = Append(admins, other))
    BY <1>5 DEF AddAdmin, WithAdmin, Listed
  <2> QED BY <1>2, <1>3, <2>1
<1>6. CASE RemoveAdmin(caller, other)
  <2>1. CASE admins' = WithoutAdmin(other) /\ Len(admins) > 1
    <3>1. AdminInv' /\ Listed(admins') = Listed(admins) \ {other}
      BY <2>1, Retained DEF AdminInv
    <3>2. 1 \in 1..Len(admins) /\ 2 \in 1..Len(admins)
      BY <1>0, <2>1
    <3>3. admins[1] \in Listed(admins) /\ admins[2] \in Listed(admins) /\ admins[1] # admins[2]
      BY <3>2 DEF Listed, AdminInv, Distinct
    <3>4. Listed(admins') # {}
      BY <3>1, <3>3
    <3>5. Listed(<<>>) = {}
      BY EmptySeq DEF Listed
    <3> QED BY <3>1, <3>4, <3>5
  <2> QED BY <1>3, <1>6, <2>1 DEF RemoveAdmin, MayRemove
<1> QED BY <1>1, <1>4, <1>5, <1>6

\* No sequence of admin calls leaves the list empty once it was not.
THEOREM AdminsStay == Spec => []AdminInv /\ NeverLockedOut
<1>1. Init => AdminInv
  BY EmptySeq DEF Init, AdminInit, AdminInv, Distinct
<1>2. AdminInv /\ [Next]_vars => AdminInv' /\ [admins # <<>> => admins' # <<>>]_adminVars
  <2> SUFFICES ASSUME AdminInv, [Next]_vars
               PROVE  AdminInv' /\ (admins # <<>> => admins' # <<>>)
    OBVIOUS
  <2>1. CASE AdminNext
    BY <2>1, AdminInvStep
  <2>2. CASE UNCHANGED admins
    BY <2>2 DEF AdminInv
  <2> QED BY <2>1, <2>2 DEF Next, vars, adminVars, SubmitRecord, RefusedRecord, Upgrade
<1> QED BY <1>1, <1>2, PTL DEF Spec, NeverLockedOut

-----------------------------------------------------------------------------
(* The leaf indices *)

\* Records and indices are functions with one domain.
IndexMaps ==
  /\ records \in [DOMAIN records -> Records]
  /\ leaf_index_by_property \in [DOMAIN leaf_index_by_property -> Nat]
  /\ DOMAIN leaf_index_by_property = DOMAIN records
  /\ DOMAIN records \subseteq PropertyIds
  /\ IsFiniteSet(DOMAIN leaf_index_by_property)
  /\ next_leaf_index \in Nat

IInv == IndexMaps /\ IndicesDense

\* An accepted submission (submit_record_impl) writes the record, the index
\* and the leaf of its property, and moves the counter if the property is new.
LEMMA Accepted ==
  ASSUME NEW caller, NEW p, NEW r, SubmitRecord(caller, p, r)
  PROVE  \/ /\ records' = With(records, p, r)
            /\ leaf_index_by_property' = With(leaf_index_by_property, p, LeafIndex(p))
            /\ next_leaf_index' = CounterAfter(p)
            /\ insert_leaf(LeafIndex(p), leaf_hash(r))
         \/ UNCHANGED registryVars
BY DEF SubmitRecord, RefusedRecord, registryVars

\* Admin calls and upgrades leave records and indices alone.
LEMMA OthersKeepIndices ==
  ASSUME [Next]_vars,
         ~ \E caller \in Principals, p \in PropertyIds, r \in Records :
             SubmitRecord(caller, p, r)
  PROVE  UNCHANGED <<records, leaf_index_by_property, next_leaf_index>>
BY DEF Next, vars, registryVars, Upgrade

\* The registry starts empty (fresh_state).
LEMMA InitIInv == Init => IInv
<1> SUFFICES ASSUME Init PROVE IInv
  OBVIOUS
<1>1. /\ records = <<>> /\ leaf_index_by_property = <<>> /\ next_leaf_index = 0
      /\ DOMAIN records = {} /\ DOMAIN leaf_index_by_property = {}
  BY DEF Init, RegistryInit
<1>2. IsFiniteSet({}) /\ Cardinality({}) = 0
  BY FS_EmptySet
<1> QED BY <1>1, <1>2 DEF IInv, IndexMaps, IndicesDense

\* A submission keeps indices dense: a new property takes the next one, a
\* known property keeps its own (submit_record_impl).
LEMMA SubmitIInv ==
  ASSUME IInv, NEW p \in PropertyIds, NEW r \in Records,
         records' = With(records, p, r),
         leaf_index_by_property' = With(leaf_index_by_property, p, LeafIndex(p)),
         next_leaf_index' = CounterAfter(p)
  PROVE  IInv'
<1> DEFINE D == DOMAIN leaf_index_by_property
<1>1. LeafIndex(p) \in Nat /\ next_leaf_index \in Nat
  BY DEF IInv, IndexMaps, LeafIndex
<1>2. /\ records' \in [D \cup {p} -> Records] /\ DOMAIN records' = D \cup {p}
      /\ leaf_index_by_property' \in [D \cup {p} -> Nat]
      /\ DOMAIN leaf_index_by_property' = D \cup {p}
      /\ leaf_index_by_property'[p] = LeafIndex(p)
      /\ \A x \in D \ {p} : leaf_index_by_property'[x] = leaf_index_by_property[x]
  <2>1. /\ records \in [DOMAIN records -> Records]
        /\ leaf_index_by_property \in [D -> Nat] /\ DOMAIN records = D
    BY DEF IInv, IndexMaps
  <2>2. /\ records' \in [D \cup {p} -> Records] /\ DOMAIN records' = D \cup {p}
    BY <2>1 DEF With
  <2> DEFINE v == LeafIndex(p)
  <2>3. v \in Nat
    BY <1>1
  <2> HIDE DEF v
  <2>4. /\ With(leaf_index_by_property, p, v) \in [D \cup {p} -> Nat]
        /\ DOMAIN With(leaf_index_by_property, p, v) = D \cup {p}
        /\ With(leaf_index_by_property, p, v)[p] = v
        /\ \A x \in D \ {p} :
             With(leaf_index_by_property, p, v)[x] = leaf_index_by_property[x]
    BY <2>1, <2>3 DEF With
  <2>5. leaf_index_by_property' = With(leaf_index_by_property, p, v)
    BY DEF v
  <2> QED BY <2>2, <2>4, <2>5 DEF v
<1>3. IsFiniteSet(D \cup {p})
  BY FS_AddElement DEF IInv, IndexMaps
<1>4. IndexMaps'
  BY <1>1, <1>2, <1>3 DEF IInv, IndexMaps, CounterAfter
<1>5. CASE p \in D
  <2>1. LeafIndex(p) = leaf_index_by_property[p] /\ next_leaf_index' = next_leaf_index
        /\ D \cup {p} = D
    BY <1>5 DEF LeafIndex, CounterAfter
  <2> QED BY <1>2, <1>4, <2>1 DEF IInv, IndicesDense
<1>6. CASE p \notin D
  <2>1. LeafIndex(p) = next_leaf_index /\ next_leaf_index' = next_leaf_index + 1
    BY <1>6 DEF LeafIndex, CounterAfter
  <2>2. Cardinality(D \cup {p}) = next_leaf_index + 1
    BY <1>6, FS_AddElement DEF IInv, IndexMaps, IndicesDense
  <2>3. {leaf_index_by_property'[q] : q \in D \cup {p}}
          = {leaf_index_by_property[q] : q \in D} \cup {next_leaf_index}
    BY <1>2, <1>6, <2>1
  <2>4. {leaf_index_by_property[q] : q \in D} = 0 .. next_leaf_index - 1
    BY DEF IInv, IndicesDense
  <2>5. 0 .. next_leaf_index' - 1 = (0 .. next_leaf_index - 1) \cup {next_leaf_index}
    BY <1>1, <2>1
  <2> QED BY <1>2, <1>4, <2>1, <2>2, <2>3, <2>4, <2>5 DEF IInv, IndicesDense
<1> QED BY <1>5, <1>6

\* The invariant holds in every state of the registry.
THEOREM Invariance == Spec => []IInv
<1>1. IInv /\ [Next]_vars => IInv'
  <2> SUFFICES ASSUME IInv, [Next]_vars PROVE IInv'
    OBVIOUS
  <2>1. CASE UNCHANGED <<records, leaf_index_by_property, next_leaf_index>>
    BY <2>1 DEF IInv, IndexMaps, IndicesDense
  <2>2. CASE \E caller \in Principals, p \in PropertyIds, r \in Records :
               SubmitRecord(caller, p, r)
    BY <2>1, <2>2, Accepted, SubmitIInv DEF registryVars
  <2> QED BY <2>1, <2>2, OthersKeepIndices
<1> QED BY InitIInv, <1>1, PTL DEF Spec

\* Leaf indices are handed out one after the other, one per property, and a
\* refused submission leaves no hole.
THEOREM IndicesStayDense == Spec => []IndicesDense
BY Invariance, PTL DEF IInv

\* What a step does to the leaf of a property and to the records of the others.
Stays(p) ==
  /\ leaf_index_by_property'[p] = leaf_index_by_property[p]
  /\ \A q \in DOMAIN records \ {p} :
       records'[p] # records[p] => records'[q] = records[q]

\* A step moves no leaf and changes one record at most (submit_record_impl).
LEMMA StepStays ==
  ASSUME IInv, [Next]_vars, NEW p \in DOMAIN leaf_index_by_property
  PROVE  Stays(p)
<1> USE DEF Stays
<1>1. CASE UNCHANGED <<records, leaf_index_by_property, next_leaf_index>>
  BY <1>1
<1>2. ASSUME NEW x \in PropertyIds, NEW r \in Records,
             records' = With(records, x, r),
             leaf_index_by_property' = With(leaf_index_by_property, x, LeafIndex(x))
      PROVE  Stays(p)
  <2>1. LeafIndex(x) \in Nat
    BY DEF IInv, IndexMaps, LeafIndex
  <2>2. /\ leaf_index_by_property'[x] = LeafIndex(x)
        /\ \A y \in DOMAIN leaf_index_by_property \ {x} :
             leaf_index_by_property'[y] = leaf_index_by_property[y]
        /\ \A y \in DOMAIN records \ {x} : records'[y] = records[y]
    <3>1. /\ records \in [DOMAIN records -> Records]
          /\ leaf_index_by_property \in [DOMAIN leaf_index_by_property -> Nat]
      BY DEF IInv, IndexMaps
    <3>2. \A y \in DOMAIN records \ {x} : records'[y] = records[y]
      BY <1>2, <3>1 DEF With
    <3> DEFINE v == LeafIndex(x)
    <3>3. v \in Nat
      BY <2>1
    <3> HIDE DEF v
    <3>4. /\ With(leaf_index_by_property, x, v)[x] = v
          /\ \A y \in DOMAIN leaf_index_by_property \ {x} :
               With(leaf_index_by_property, x, v)[y] = leaf_index_by_property[y]
      BY <3>1, <3>3 DEF With
    <3>5. leaf_index_by_property' = With(leaf_index_by_property, x, v)
      BY <1>2 DEF v
    <3> QED BY <3>2, <3>4, <3>5 DEF v
  <2>3. leaf_index_by_property'[p] = leaf_index_by_property[p]
    BY <2>2 DEF LeafIndex
  <2>4. p \in DOMAIN records
    BY DEF IInv, IndexMaps
  <2> QED BY <2>2, <2>3, <2>4
<1> QED BY <1>1, <1>2, Accepted, OthersKeepIndices DEF registryVars

\* The leaf of a property never moves, and a submission for one property
\* changes the record of no other.
THEOREM LeavesNeverMove == Spec => LeavesStay
<1>1. IInv /\ [Next]_vars => [\A p \in DOMAIN leaf_index_by_property : Stays(p)]_vars
  BY StepStays
<1> QED BY Invariance, <1>1, PTL DEF Spec, LeavesStay, Stays

\* The counter never moves back.
LEMMA CounterGrows ==
  ASSUME IInv, [Next]_vars
  PROVE  next_leaf_index' \in Nat /\ next_leaf_index <= next_leaf_index'
BY Accepted, OthersKeepIndices DEF IInv, IndexMaps, CounterAfter, registryVars

-----------------------------------------------------------------------------
(* The tree *)

\* No two properties share a leaf.
LeavesDistinct ==
  \A p, q \in DOMAIN leaf_index_by_property :
    leaf_index_by_property[p] = leaf_index_by_property[q] => p = q

\* The store holds the leaf of every property, and nothing else at its bottom.
LeavesStored ==
  /\ \A p \in DOMAIN records, i \in Nat :
       leaf_index_by_property[p] = i => node_at(0, i) = leaf_hash(records[p])
  /\ \A i \in Nat :
       (\A p \in DOMAIN records : leaf_index_by_property[p] # i) => node_at(0, i) = ZERO

\* Every node is the hash of the two below it, wherever it lies.
NodesHash ==
  \A l \in 0 .. TREE_DEPTH - 1, i \in Nat :
    node_at(l + 1, i) = HashNode(node_at(l, 2 * i), node_at(l, 2 * i + 1))

\* The leaves there are room for.
Capacity ==
  LET width[level \in 0..TREE_DEPTH] ==
        IF level = 0 THEN 1 ELSE 2 * width[level - 1]
  IN  width[TREE_DEPTH]

Fits == next_leaf_index <= Capacity

RootOnTop == Fits => current_root = node_at(TREE_DEPTH, 0)

NodesTyped == \A n \in DOMAIN nodes : n \in (0..TREE_DEPTH) \X Nat

TreeInv == NodesTyped /\ LeavesDistinct /\ LeavesStored /\ NodesHash /\ RootOnTop

\* The widths of complete trees, as numbers.
LEMMA Widths ==
  \E width :
    /\ Capacity = width[TREE_DEPTH]
    /\ width[0] = 1
    /\ \A l \in 0 .. TREE_DEPTH - 1 : width[l + 1] = 2 * width[l]
    /\ \A l \in 0..TREE_DEPTH : width[l] \in Nat
<1> DEFINE width[level \in 0..TREE_DEPTH] ==
             IF level = 0 THEN 1 ELSE 2 * width[level - 1]
<1>1. \E g : WidthRec!Defines(0, TREE_DEPTH, g)
  BY WidthRec!Exists, RegistryAssumption
<1>2. width = [level \in 0..TREE_DEPTH |->
                 IF level = 0 THEN 1 ELSE 2 * width[level - 1]]
  BY <1>1 DEF WidthRec!Defines
<1>3. Capacity = width[TREE_DEPTH]
  BY DEF Capacity
<1> HIDE DEF width
<1>4. width[0] = 1 /\ \A l \in 0 .. TREE_DEPTH - 1 : width[l + 1] = 2 * width[l]
  BY <1>2, RegistryAssumption
<1> DEFINE S == {l \in 0..TREE_DEPTH : width[l] \in Nat}
<1>5. 0 \in S /\ \A l \in 0 .. TREE_DEPTH - 1 : l \in S => l + 1 \in S
  BY <1>4, RegistryAssumption
<1> HIDE DEF S
<1>6. 0..TREE_DEPTH \subseteq S
  BY <1>5, WidthRec!UpTo, RegistryAssumption
<1>7. \A l \in 0..TREE_DEPTH : width[l] \in Nat
  BY <1>6 DEF S
<1> QED BY <1>3, <1>4, <1>7

\* Every leaf there is room for has the node at the top above it.
LEMMA UnderTop ==
  ASSUME NEW index \in Nat, index < Capacity
  PROVE  Ancestor(index, TREE_DEPTH) = 0
<1>1. PICK width : /\ Capacity = width[TREE_DEPTH]
                   /\ width[0] = 1
                   /\ \A l \in 0 .. TREE_DEPTH - 1 : width[l + 1] = 2 * width[l]
                   /\ \A l \in 0..TREE_DEPTH : width[l] \in Nat
  BY Widths
<1> DEFINE T == {l \in 0..TREE_DEPTH : Ancestor(index, l) < width[TREE_DEPTH - l]}
<1>2. 0 \in T
  BY <1>1, Ancestors, RegistryAssumption
<1>3. ASSUME NEW l \in 0 .. TREE_DEPTH - 1, l \in T PROVE l + 1 \in T
  <2> DEFINE k == TREE_DEPTH - (l + 1)
  <2>1. k \in 0 .. TREE_DEPTH - 1 /\ k \in 0..TREE_DEPTH /\ TREE_DEPTH - l = k + 1
        /\ l + 1 \in 0..TREE_DEPTH /\ l \in 0..TREE_DEPTH
    BY RegistryAssumption
  <2> HIDE DEF k
  <2>2. Ancestor(index, l) < 2 * width[k] /\ width[k] \in Nat
    BY <1>1, <1>3, <2>1
  <2>3. Ancestor(index, l + 1) = Ancestor(index, l) \div 2 /\ Ancestor(index, l) \in Nat
    BY <2>1, Ancestors
  <2>4. Ancestor(index, l + 1) < width[k]
    BY <2>2, <2>3
  <2> QED BY <2>1, <2>4 DEF k
<1> HIDE DEF T
<1>4. 0..TREE_DEPTH \subseteq T
  BY <1>2, <1>3, WidthRec!UpTo, RegistryAssumption
<1>5. Ancestor(index, TREE_DEPTH) < width[TREE_DEPTH - TREE_DEPTH]
  BY <1>4, RegistryAssumption DEF T
<1>6. TREE_DEPTH - TREE_DEPTH = 0 /\ Ancestor(index, TREE_DEPTH) \in Nat
  BY Ancestors, RegistryAssumption
<1> QED BY <1>1, <1>5, <1>6

\* insert_leaf replaces the nodes on one path.
LEMMA Inserted ==
  ASSUME NEW index \in Nat, NEW leaf, insert_leaf(index, leaf)
  PROVE  /\ current_root' = PathTo(index, leaf)[TREE_DEPTH]
         /\ NodesTyped => NodesTyped'
         /\ \A l \in 0..TREE_DEPTH, i \in Nat :
              node_at(l, i)' = IF i = Ancestor(index, l) THEN PathTo(index, leaf)[l]
                                                          ELSE node_at(l, i)
<1> DEFINE path == PathTo(index, leaf)
           written == {<<level, Ancestor(index, level)>> : level \in 0..TREE_DEPTH}
<1>1. /\ nodes' = [n \in DOMAIN nodes \cup written |->
                     IF n \in written THEN path[n[1]] ELSE nodes[n]]
      /\ current_root' = path[TREE_DEPTH]
  BY DEF insert_leaf
<1> HIDE DEF path
<1>2. \A i : \A l \in 0..TREE_DEPTH : <<l, i>> \in written <=> i = Ancestor(index, l)
  OBVIOUS
<1>3. written \subseteq (0..TREE_DEPTH) \X Nat
  BY Ancestors
<1>4. NodesTyped => NodesTyped'
  <2> HIDE DEF written
  <2> QED BY <1>1, <1>3 DEF NodesTyped
<1>5. ASSUME NEW l \in 0..TREE_DEPTH, NEW i \in Nat
      PROVE  node_at(l, i)' = IF i = Ancestor(index, l) THEN path[l] ELSE node_at(l, i)
  <2> HIDE DEF written
  <2>1. node_at(l, i)' = IF <<l, i>> \in DOMAIN nodes' THEN nodes'[<<l, i>>]
                                                        ELSE zero_hashes[l]
    BY DEF node_at
  <2>2. CASE i = Ancestor(index, l)
    <3>1. <<l, i>> \in written
      BY <1>2, <2>2
    <3> QED BY <1>1, <2>1, <2>2, <3>1
  <2>3. CASE i # Ancestor(index, l)
    <3>1. <<l, i>> \notin written
      BY <1>2, <2>3
    <3> QED BY <1>1, <2>1, <2>3, <3>1 DEF node_at
  <2> QED BY <2>2, <2>3
<1> QED BY <1>1, <1>4, <1>5 DEF path

\* The two children of a node.
LEMMA Children ==
  ASSUME NEW a \in Nat
  PROVE  /\ a \div 2 \in Nat
         /\ a % 2 = 0 => a = 2 * (a \div 2) /\ Sibling(a) = 2 * (a \div 2) + 1
         /\ a % 2 # 0 => a = 2 * (a \div 2) + 1 /\ Sibling(a) = 2 * (a \div 2)
         /\ a % 2 # 0 => a % 2 = 1
         /\ \A i \in Nat : (a = 2 * i \/ a = 2 * i + 1) => i = a \div 2
BY DEF Sibling

\* A new leaf and its path keep every node the hash of the two below it.
LEMMA InsertNodesHash ==
  ASSUME NodesHash, NEW index \in Nat, NEW leaf, insert_leaf(index, leaf)
  PROVE  NodesHash'
<1> SUFFICES ASSUME NEW l \in 0 .. TREE_DEPTH - 1, NEW i \in Nat
             PROVE  node_at(l + 1, i)' = HashNode(node_at(l, 2 * i)', node_at(l, 2 * i + 1)')
  BY DEF NodesHash, HashNode
<1> DEFINE path == PathTo(index, leaf)
           a == Ancestor(index, l)
<1>1. l \in 0..TREE_DEPTH /\ l + 1 \in 0..TREE_DEPTH /\ 2 * i \in Nat /\ 2 * i + 1 \in Nat
  BY RegistryAssumption
<1>2. a \in Nat /\ Ancestor(index, l + 1) = a \div 2
  BY <1>1, Ancestors
<1>3. /\ node_at(l + 1, i)' = IF i = a \div 2 THEN path[l + 1] ELSE node_at(l + 1, i)
      /\ node_at(l, 2 * i)' = IF 2 * i = a THEN path[l] ELSE node_at(l, 2 * i)
      /\ node_at(l, 2 * i + 1)' = IF 2 * i + 1 = a THEN path[l] ELSE node_at(l, 2 * i + 1)
  <2>1. \A k \in 0..TREE_DEPTH, j \in Nat :
          node_at(k, j)' = IF j = Ancestor(index, k) THEN path[k] ELSE node_at(k, j)
    BY Inserted
  <2> HIDE DEF path
  <2> QED BY <1>1, <1>2, <2>1
<1>4. path[l + 1] = HashUp(path[l], node_at(l, Sibling(a)), a)
  BY Path
<1>5. node_at(l + 1, i) = HashNode(node_at(l, 2 * i), node_at(l, 2 * i + 1))
  BY DEF NodesHash
<1> HIDE DEF path, a
<1>6. CASE i = a \div 2
  <2>1. CASE a % 2 = 0
    <3>1. a = 2 * i /\ Sibling(a) = 2 * i + 1 /\ 2 * i + 1 # a
      BY <1>2, <1>6, <2>1, Children
    <3> QED BY <1>3, <1>4, <1>6, <2>1, <3>1 DEF HashUp
  <2>2. CASE a % 2 # 0
    <3>1. a = 2 * i + 1 /\ Sibling(a) = 2 * i /\ 2 * i # a
      BY <1>2, <1>6, <2>2, Children
    <3> QED BY <1>3, <1>4, <1>6, <2>2, <3>1 DEF HashUp
  <2> QED BY <2>1, <2>2
<1>7. CASE i # a \div 2
  <2>1. 2 * i # a /\ 2 * i + 1 # a
    BY <1>2, <1>7, Children
  <2> QED BY <1>3, <1>5, <1>7, <2>1
<1> QED BY <1>6, <1>7

\* A submission keeps the tree.
LEMMA SubmitTreeInv ==
  ASSUME IInv, TreeInv, IInv', NEW p \in PropertyIds, NEW r \in Records,
         records' = With(records, p, r),
         leaf_index_by_property' = With(leaf_index_by_property, p, LeafIndex(p)),
         next_leaf_index' = CounterAfter(p),
         insert_leaf(LeafIndex(p), leaf_hash(r))
  PROVE  TreeInv'
<1> DEFINE L == LeafIndex(p)
           leaf == leaf_hash(r)
           D == DOMAIN records
<1>1. /\ \A q \in D : leaf_index_by_property[q] \in Nat
                       /\ leaf_index_by_property[q] < next_leaf_index
      /\ next_leaf_index \in Nat /\ DOMAIN leaf_index_by_property = D
  <2>1. {leaf_index_by_property[q] : q \in DOMAIN leaf_index_by_property}
          = 0 .. next_leaf_index - 1
    BY DEF IInv, IndicesDense
  <2>2. next_leaf_index \in Nat /\ DOMAIN leaf_index_by_property = D
    BY DEF IInv, IndexMaps
  <2> QED BY <2>1, <2>2
<1>2. /\ L \in Nat /\ L < next_leaf_index'
      /\ \A q \in D \ {p} : leaf_index_by_property[q] # L
      /\ \A q \in D : q = p => leaf_index_by_property[q] = L
      /\ next_leaf_index' >= next_leaf_index /\ next_leaf_index' \in Nat
  <2>1. CASE p \in D
    <3>1. L = leaf_index_by_property[p] /\ next_leaf_index' = next_leaf_index
      BY <1>1, <2>1 DEF LeafIndex, CounterAfter
    <3> QED BY <1>1, <2>1, <3>1 DEF TreeInv, LeavesDistinct
  <2>2. CASE p \notin D
    <3>1. L = next_leaf_index /\ next_leaf_index' = next_leaf_index + 1
      BY <1>1, <2>2 DEF LeafIndex, CounterAfter
    <3> QED BY <1>1, <2>2, <3>1
  <2> QED BY <2>1, <2>2
<1> HIDE DEF L, leaf
<1>3. /\ leaf_index_by_property' = With(leaf_index_by_property, p, L)
      /\ insert_leaf(L, leaf)
  BY DEF L, leaf
<1>4. /\ DOMAIN records' = D \cup {p} /\ DOMAIN leaf_index_by_property' = D \cup {p}
      /\ records'[p] = r /\ leaf_index_by_property'[p] = L
      /\ \A q \in D \ {p} : /\ records'[q] = records[q]
                            /\ leaf_index_by_property'[q] = leaf_index_by_property[q]
  BY <1>1, <1>3 DEF With
<1>5. LeavesDistinct'
  BY <1>1, <1>2, <1>4 DEF TreeInv, LeavesDistinct
<1>6. /\ current_root' = PathTo(L, leaf)[TREE_DEPTH] /\ NodesTyped'
      /\ \A l \in 0..TREE_DEPTH, i \in Nat :
              node_at(l, i)' = IF i = Ancestor(L, l) THEN PathTo(L, leaf)[l]
                                                     ELSE node_at(l, i)
  BY <1>2, <1>3, Inserted DEF TreeInv
<1>7. NodesHash'
  BY <1>2, <1>3, InsertNodesHash DEF TreeInv
<1>8. \A i \in Nat : node_at(0, i)' = IF i = L THEN leaf ELSE node_at(0, i)
  <2>1. Ancestor(L, 0) = L /\ PathTo(L, leaf)[0] = leaf /\ 0 \in 0..TREE_DEPTH
    BY <1>2, Ancestors, Path, RegistryAssumption
  <2> QED BY <1>6, <2>1
<1>9. LeavesStored'
  <2>1. ASSUME NEW q \in D \cup {p}, NEW i \in Nat, leaf_index_by_property'[q] = i
        PROVE  node_at(0, i)' = leaf_hash(records'[q])
    <3>1. CASE q = p
      <4>1. i = L /\ records'[q] = r
        BY <1>4, <2>1, <3>1
      <4> QED BY <1>8, <4>1 DEF leaf
    <3>2. CASE q # p
      <4>1. /\ leaf_index_by_property[q] = i /\ i # L /\ q \in D
            /\ records'[q] = records[q]
        BY <1>1, <1>2, <1>4, <2>1, <3>2
      <4>2. node_at(0, i) = leaf_hash(records[q])
        BY <4>1 DEF TreeInv, LeavesStored
      <4> QED BY <1>8, <4>1, <4>2
    <3> QED BY <3>1, <3>2
  <2>2. ASSUME NEW i \in Nat, \A q \in D \cup {p} : leaf_index_by_property'[q] # i
        PROVE  node_at(0, i)' = ZERO
    <3>1. i # L /\ \A q \in D : leaf_index_by_property[q] # i
      BY <1>2, <1>4, <2>2
    <3>2. node_at(0, i) = ZERO
      BY <3>1 DEF TreeInv, LeavesStored
    <3> QED BY <1>8, <3>1, <3>2
  <2>3. /\ \A q \in DOMAIN records', i \in Nat :
              leaf_index_by_property'[q] = i => node_at(0, i)' = leaf_hash(records'[q])
        /\ \A i \in Nat :
              (\A q \in DOMAIN records' : leaf_index_by_property'[q] # i)
                => node_at(0, i)' = ZERO
    BY <1>4, <2>1, <2>2
  <2> QED BY <2>3 DEF LeavesStored, leaf_hash, ZERO
<1>10. RootOnTop'
  <2> SUFFICES ASSUME next_leaf_index' <= Capacity
               PROVE  current_root' = node_at(TREE_DEPTH, 0)'
    BY DEF RootOnTop, Fits
  <2>1. Capacity \in Nat
    BY Widths, RegistryAssumption
  <2>2. Ancestor(L, TREE_DEPTH) = 0
    BY <1>2, <2>1, UnderTop
  <2>3. TREE_DEPTH \in 0..TREE_DEPTH
    BY RegistryAssumption
  <2> QED BY <1>6, <2>2, <2>3
<1> QED BY <1>5, <1>6, <1>7, <1>9, <1>10 DEF TreeInv

\* The registry starts with an empty tree (fresh_state).
LEMMA InitTreeInv == Init => TreeInv
<1> SUFFICES ASSUME Init PROVE TreeInv
  OBVIOUS
<1>1. /\ DOMAIN nodes = {} /\ DOMAIN records = {} /\ DOMAIN leaf_index_by_property = {}
      /\ current_root = zero_hashes[TREE_DEPTH]
  BY DEF Init, RegistryInit
<1>2. \A l, i : node_at(l, i) = zero_hashes[l]
  BY <1>1 DEF node_at
<1> QED BY <1>1, <1>2, ZeroHashes
        DEF TreeInv, NodesTyped, LeavesDistinct, LeavesStored, NodesHash, RootOnTop

\* The tree is the records' tree in every state.
THEOREM TreeInvariance == Spec => []TreeInv
<1>1. IInv /\ IInv' /\ TreeInv /\ [Next]_vars => TreeInv'
  <2> SUFFICES ASSUME IInv, IInv', TreeInv, [Next]_vars PROVE TreeInv'
    OBVIOUS
  <2>1. CASE UNCHANGED registryVars
    <3>1. \A l, i : node_at(l, i)' = node_at(l, i)
      BY <2>1 DEF node_at, registryVars
    <3> QED BY <2>1, <3>1 DEF TreeInv, NodesTyped, LeavesDistinct, LeavesStored, NodesHash,
               RootOnTop, Fits, registryVars, leaf_hash, HashNode, ZERO
  <2>2. CASE Upgrade
    <3>1. \A l, i : node_at(l, i)' = node_at(l, i)
      BY <2>2 DEF node_at, Upgrade
    <3> QED BY <2>2, <3>1 DEF TreeInv, NodesTyped, LeavesDistinct, LeavesStored, NodesHash,
               RootOnTop, Fits, Upgrade, leaf_hash, HashNode, ZERO
  <2>3. CASE \E caller \in Principals, p \in PropertyIds, r \in Records :
               SubmitRecord(caller, p, r)
    BY <2>1, <2>3, Accepted, SubmitTreeInv
  <2> QED BY <2>1, <2>2, <2>3 DEF Next, vars
<1> QED BY InitTreeInv, Invariance, <1>1, PTL DEF Spec

\* The reference tree agrees with the node store everywhere.
LEMMA TreeIsStored ==
  ASSUME IInv, TreeInv, NEW l \in 0..TREE_DEPTH, NEW i \in Nat
  PROVE  TreeOver([j \in Nat |-> Leaf(j)])[l][i] = node_at(l, i)
<1> DEFINE leaves == [j \in Nat |-> Leaf(j)]
           tree == TreeOver(leaves)
<1>1. ASSUME NEW j \in Nat PROVE Leaf(j) = node_at(0, j)
  <2>1. CASE \E p \in DOMAIN records : leaf_index_by_property[p] = j
    <3>1. PICK p \in DOMAIN records : leaf_index_by_property[p] = j
      BY <2>1
    <3>2. {q \in DOMAIN records : leaf_index_by_property[q] = j} = {p}
      BY <3>1 DEF IInv, IndexMaps, TreeInv, LeavesDistinct
    <3>3. LeavesAt(j) = {leaf_hash(records[p])}
      BY <3>2 DEF LeavesAt
    <3>4. Leaf(j) = leaf_hash(records[p])
      <4> DEFINE h == leaf_hash(records[p])
      <4> HIDE DEF h
      <4>1. LeavesAt(j) = {h}
        BY <3>3 DEF h
      <4>2. Leaf(j) = h
        BY <4>1 DEF Leaf
      <4> QED BY <4>2 DEF h
    <3> QED BY <3>1, <3>4 DEF TreeInv, LeavesStored
  <2>2. CASE ~ \E p \in DOMAIN records : leaf_index_by_property[p] = j
    <3>1. LeavesAt(j) = {}
      BY <2>2 DEF LeavesAt
    <3>2. Leaf(j) = ZERO
      BY <3>1 DEF Leaf
    <3> QED BY <2>2, <3>2 DEF TreeInv, LeavesStored
  <2> QED BY <2>1, <2>2
<1>2. /\ tree[0] = leaves
      /\ \A k \in 0 .. TREE_DEPTH - 1, j \in Nat :
           tree[k + 1][j] = HashNode(tree[k][2 * j], tree[k][2 * j + 1])
  <2> HIDE DEF leaves
  <2> QED BY Rows
<1> HIDE DEF tree
<1> DEFINE S == {k \in 0..TREE_DEPTH : \A j \in Nat : tree[k][j] = node_at(k, j)}
<1>3. 0 \in S
  BY <1>1, <1>2, RegistryAssumption
<1>4. ASSUME NEW k \in 0 .. TREE_DEPTH - 1, k \in S PROVE k + 1 \in S
  <2> SUFFICES ASSUME NEW j \in Nat PROVE tree[k + 1][j] = node_at(k + 1, j)
    BY RegistryAssumption
  <2>1. tree[k][2 * j] = node_at(k, 2 * j) /\ tree[k][2 * j + 1] = node_at(k, 2 * j + 1)
    BY <1>4
  <2>2. node_at(k + 1, j) = HashNode(node_at(k, 2 * j), node_at(k, 2 * j + 1))
    BY DEF TreeInv, NodesHash
  <2>3. tree[k + 1][j] = HashNode(tree[k][2 * j], tree[k][2 * j + 1])
    BY <1>2
  <2> QED BY <2>1, <2>2, <2>3
<1> HIDE DEF S
<1>5. 0..TREE_DEPTH \subseteq S
  BY <1>3, <1>4, RowRec!UpTo, RegistryAssumption
<1> QED BY <1>5 DEF S, tree

-----------------------------------------------------------------------------
(* Up and down a tree *)

\* Every node of t is the hash of the two below it.
HashTree(t) ==
  \A l \in 0 .. TREE_DEPTH - 1, i \in Nat :
    t[l + 1][i] = HashNode(t[l][2 * i], t[l][2 * i + 1])

\* A Merkle proof for the leaf at this index, with its siblings taken from t.
SidesOf(proof, index) ==
  \A l \in 0 .. TREE_DEPTH - 1 : proof.path_bits[l] = (Ancestor(index, l) % 2 = 1)

SiblingsIn(proof, t, index) ==
  \A l \in 0 .. TREE_DEPTH - 1 : proof.siblings[l] = t[l][Sibling(Ancestor(index, l))]

\* A Merkle proof with the siblings of a tree leads from its leaf to its top.
LEMMA Climbs ==
  ASSUME NEW t, HashTree(t), NEW index \in Nat, NEW proof,
         SidesOf(proof, index), SiblingsIn(proof, t, index)
  PROVE  RecomputedRoot(t[0][index], proof) = t[TREE_DEPTH][Ancestor(index, TREE_DEPTH)]
<1> DEFINE leaf == t[0][index]
<1> HIDE DEF leaf
<1>1. PICK up :
        /\ RecomputedRoot(leaf, proof) = up[TREE_DEPTH]
        /\ up[0] = leaf
        /\ \A l \in 0 .. TREE_DEPTH - 1 :
             up[l + 1] = IF proof.path_bits[l] THEN HashNode(proof.siblings[l], up[l])
                                               ELSE HashNode(up[l], proof.siblings[l])
  BY Recomputed
<1> DEFINE S == {l \in 0..TREE_DEPTH : up[l] = t[l][Ancestor(index, l)]}
<1>2. 0 \in S
  BY <1>1, Ancestors, RegistryAssumption DEF leaf
<1>3. ASSUME NEW l \in 0 .. TREE_DEPTH - 1, l \in S PROVE l + 1 \in S
  <2> DEFINE a == Ancestor(index, l)
  <2>1. a \in Nat /\ Ancestor(index, l + 1) = a \div 2 /\ l + 1 \in 0..TREE_DEPTH
    BY Ancestors, RegistryAssumption
  <2>2. up[l] = t[l][a]
    BY <1>3
  <2>3. /\ proof.siblings[l] = t[l][Sibling(a)] /\ proof.path_bits[l] = (a % 2 = 1)
    BY DEF SidesOf, SiblingsIn
  <2> HIDE DEF a, S
  <2>4. /\ a \div 2 \in Nat
        /\ t[l + 1][a \div 2] = HashNode(t[l][2 * (a \div 2)], t[l][2 * (a \div 2) + 1])
    BY <2>1, Children DEF HashTree
  <2>5. up[l + 1] = IF a % 2 = 1 THEN HashNode(t[l][Sibling(a)], t[l][a])
                                 ELSE HashNode(t[l][a], t[l][Sibling(a)])
    BY <1>1, <2>2, <2>3
  <2>6. up[l + 1] = t[l + 1][a \div 2]
    BY <2>1, <2>4, <2>5, Children
  <2> QED BY <2>1, <2>6 DEF a, S
<1> HIDE DEF S
<1>4. 0..TREE_DEPTH \subseteq S
  BY <1>2, <1>3, UpRec!UpTo, RegistryAssumption
<1>5. TREE_DEPTH \in S
  BY <1>4, RegistryAssumption
<1> QED BY <1>1, <1>5 DEF S, leaf

\* Hashes have no collisions: whatever the siblings, only the leaf of the tree
\* leads to its top.
LEMMA Descends ==
  ASSUME NEW t, HashTree(t), NEW index \in Nat, NEW proof, SidesOf(proof, index),
         NEW leaf, RecomputedRoot(leaf, proof) = t[TREE_DEPTH][Ancestor(index, TREE_DEPTH)]
  PROVE  leaf = t[0][index]
<1>1. PICK up :
        /\ RecomputedRoot(leaf, proof) = up[TREE_DEPTH]
        /\ up[0] = leaf
        /\ \A l \in 0 .. TREE_DEPTH - 1 :
             up[l + 1] = IF proof.path_bits[l] THEN HashNode(proof.siblings[l], up[l])
                                               ELSE HashNode(up[l], proof.siblings[l])
  BY Recomputed
<1> DEFINE S == {l \in 0..TREE_DEPTH : up[l] = t[l][Ancestor(index, l)]}
<1>2. TREE_DEPTH \in S
  <2>1. up[TREE_DEPTH] = t[TREE_DEPTH][Ancestor(index, TREE_DEPTH)]
    BY <1>1
  <2> QED BY <2>1, RegistryAssumption
<1>3. ASSUME NEW l \in 0 .. TREE_DEPTH - 1, l + 1 \in S PROVE l \in S
  <2> DEFINE a == Ancestor(index, l)
  <2>1. a \in Nat /\ Ancestor(index, l + 1) = a \div 2 /\ l \in 0..TREE_DEPTH
    BY Ancestors, RegistryAssumption
  <2>2. up[l + 1] = t[l + 1][a \div 2]
    BY <1>3, <2>1
  <2>3. proof.path_bits[l] = (a % 2 = 1)
    BY DEF SidesOf
  <2> HIDE DEF a, S
  <2>4. /\ a \div 2 \in Nat
        /\ t[l + 1][a \div 2] = HashNode(t[l][2 * (a \div 2)], t[l][2 * (a \div 2) + 1])
    BY <2>1, Children DEF HashTree
  <2>5. up[l + 1] = IF a % 2 = 1 THEN HashNode(proof.siblings[l], up[l])
                                 ELSE HashNode(up[l], proof.siblings[l])
    BY <1>1, <2>3
  <2>6. up[l] = t[l][a]
    <3>1. CASE a % 2 = 1
      <4>1. a = 2 * (a \div 2) + 1
        BY <2>1, <3>1, Children
      <4>2. HashNode(proof.siblings[l], up[l])
              = HashNode(t[l][2 * (a \div 2)], t[l][2 * (a \div 2) + 1])
        BY <2>2, <2>4, <2>5, <3>1
      <4> QED BY <4>1, <4>2 DEF HashNode
    <3>2. CASE a % 2 # 1
      <4>1. a = 2 * (a \div 2)
        BY <2>1, <3>2, Children
      <4>2. HashNode(up[l], proof.siblings[l])
              = HashNode(t[l][2 * (a \div 2)], t[l][2 * (a \div 2) + 1])
        BY <2>2, <2>4, <2>5, <3>2
      <4> QED BY <4>1, <4>2 DEF HashNode
    <3> QED BY <3>1, <3>2
  <2> QED BY <2>1, <2>6 DEF a, S
<1> HIDE DEF S
<1>4. 0..TREE_DEPTH \subseteq S
  BY <1>2, <1>3, UpRec!DownFrom, RegistryAssumption
<1>5. 0 \in S
  BY <1>4, RegistryAssumption
<1> QED BY <1>1, <1>5, Ancestors DEF S

\* The tree the canister keeps, as a function.
NodeTree == [l \in 0..TREE_DEPTH |-> [i \in Nat |-> node_at(l, i)]]

\* The canister's tree is a hash tree, and get_merkle_proof takes from it the
\* proof of any property.
LEMMA NodeTreeIsTree ==
  ASSUME IInv, TreeInv
  PROVE  /\ HashTree(NodeTree)
         /\ \A p \in DOMAIN records, i \in Nat :
              leaf_index_by_property[p] = i =>
                /\ NodeTree[0][i] = leaf_hash(records[p])
                /\ SidesOf(MerkleProof(p), i) /\ SiblingsIn(MerkleProof(p), NodeTree, i)
         /\ \A i \in Nat :
              (\A p \in DOMAIN records : leaf_index_by_property[p] # i) => NodeTree[0][i] = ZERO
         /\ Fits => NodeTree[TREE_DEPTH][0] = current_root
<1>1. \A l \in 0..TREE_DEPTH, i \in Nat : NodeTree[l][i] = node_at(l, i)
  BY DEF NodeTree
<1>2. /\ 0 \in 0..TREE_DEPTH /\ TREE_DEPTH \in 0..TREE_DEPTH
      /\ \A l \in 0 .. TREE_DEPTH - 1 : l \in 0..TREE_DEPTH /\ l + 1 \in 0..TREE_DEPTH
      /\ \A i \in Nat : 2 * i \in Nat /\ 2 * i + 1 \in Nat
  BY RegistryAssumption
<1>3. HashTree(NodeTree)
  BY <1>1, <1>2 DEF HashTree, TreeInv, NodesHash
<1>4. ASSUME NEW p \in DOMAIN records, NEW i \in Nat, leaf_index_by_property[p] = i
      PROVE  /\ NodeTree[0][i] = leaf_hash(records[p])
             /\ SidesOf(MerkleProof(p), i) /\ SiblingsIn(MerkleProof(p), NodeTree, i)
  <2>1. \A l \in 0 .. TREE_DEPTH - 1 :
          /\ MerkleProof(p).siblings[l] = node_at(l, Sibling(Ancestor(i, l)))
          /\ MerkleProof(p).path_bits[l] = (Ancestor(i, l) % 2 = 1)
    BY <1>4 DEF MerkleProof
  <2>2. \A l \in 0 .. TREE_DEPTH - 1 : Sibling(Ancestor(i, l)) \in Nat
    <3> SUFFICES ASSUME NEW l \in 0 .. TREE_DEPTH - 1 PROVE Sibling(Ancestor(i, l)) \in Nat
      OBVIOUS
    <3> DEFINE a == Ancestor(i, l)
    <3>1. a \in Nat
      BY <1>2, Ancestors
    <3> HIDE DEF a
    <3>2. Sibling(a) \in Nat
      BY <3>1, Children
    <3> QED BY <3>2 DEF a
  <2>3. NodeTree[0][i] = leaf_hash(records[p])
    BY <1>1, <1>2, <1>4 DEF TreeInv, LeavesStored
  <2> QED BY <1>1, <1>2, <2>1, <2>2, <2>3 DEF SidesOf, SiblingsIn
<1>5. \A i \in Nat :
        (\A p \in DOMAIN records : leaf_index_by_property[p] # i) => NodeTree[0][i] = ZERO
  BY <1>1, <1>2 DEF TreeInv, LeavesStored
<1>6. Fits => NodeTree[TREE_DEPTH][0] = current_root
  BY <1>1, <1>2 DEF TreeInv, RootOnTop
<1> QED BY <1>3, <1>4, <1>5, <1>6

-----------------------------------------------------------------------------
(* The theorems about the tree *)

\* The tree never fills up if it has a leaf for every property there can be.
THEOREM RoomForAll ==
  ASSUME IsFiniteSet(PropertyIds), Cardinality(PropertyIds) <= Capacity
  PROVE  Spec => []Fits
<1>1. IInv => Fits
  <2> SUFFICES ASSUME IInv PROVE next_leaf_index <= Capacity
    BY DEF Fits
  <2>1. DOMAIN records \subseteq PropertyIds
        /\ Cardinality(DOMAIN records) = next_leaf_index /\ next_leaf_index \in Nat
    BY DEF IInv, IndexMaps, IndicesDense
  <2>2. Cardinality(DOMAIN records) <= Cardinality(PropertyIds)
        /\ Cardinality(PropertyIds) \in Nat
    BY <2>1, FS_Subset, FS_CardinalityType
  <2>3. Capacity \in Nat
    BY Widths, RegistryAssumption
  <2> QED BY <2>1, <2>2, <2>3
<1> QED BY <1>1, Invariance, PTL

\* As long as the tree has room, the root kept path by path is the root of the
\* whole tree over the records.
THEOREM RootIsTheTrees == Spec => [](Fits => RootIsReference)
<1>1. IInv /\ TreeInv => (Fits => RootIsReference)
  <2> SUFFICES ASSUME IInv, TreeInv, Fits PROVE current_root = ReferenceRoot
    BY DEF RootIsReference
  <2>1. TREE_DEPTH \in 0..TREE_DEPTH /\ 0 \in Nat
    BY RegistryAssumption
  <2>2. ReferenceRoot = node_at(TREE_DEPTH, 0)
    BY <2>1, TreeIsStored DEF ReferenceRoot
  <2> QED BY <2>2 DEF TreeInv, RootOnTop
<1> QED BY <1>1, Invariance, TreeInvariance, PTL

\* As long as the tree has room, the Merkle proof of every property leads from
\* its current record to the root.
THEOREM ProofsLeadToRoot == Spec => [](Fits => EveryProofRecomputes)
<1>1. IInv /\ TreeInv => (Fits => EveryProofRecomputes)
  <2> SUFFICES ASSUME IInv, TreeInv, Fits, NEW p \in DOMAIN records
               PROVE  RecomputedRoot(leaf_hash(records[p]), MerkleProof(p)) = current_root
    BY DEF EveryProofRecomputes
  <2>1. leaf_index_by_property[p] \in 0 .. next_leaf_index - 1 /\ next_leaf_index \in Nat
    BY DEF IInv, IndexMaps, IndicesDense
  <2>2. Capacity \in Nat
    BY Widths, RegistryAssumption
  <2> DEFINE index == leaf_index_by_property[p]
             proof == MerkleProof(p)
  <2>3. index \in Nat /\ Ancestor(index, TREE_DEPTH) = 0
    BY <2>1, <2>2, UnderTop DEF Fits
  <2>4. /\ HashTree(NodeTree) /\ NodeTree[0][index] = leaf_hash(records[p])
        /\ SidesOf(proof, index) /\ SiblingsIn(proof, NodeTree, index)
        /\ NodeTree[TREE_DEPTH][0] = current_root
    BY <2>3, NodeTreeIsTree
  <2> HIDE DEF index, proof
  <2>5. RecomputedRoot(NodeTree[0][index], proof) = NodeTree[TREE_DEPTH][0]
    BY <2>3, <2>4, Climbs
  <2> QED BY <2>4, <2>5 DEF proof
<1> QED BY <1>1, Invariance, TreeInvariance, PTL

\* Every proof leads to the node above its leaf at the top of the tree, also
\* when the tree has more leaves than room and that node is not the first there.
ProofsReachATop ==
  \A p \in DOMAIN records, i \in Nat :
    leaf_index_by_property[p] = i =>
      RecomputedRoot(leaf_hash(records[p]), MerkleProof(p))
        = node_at(TREE_DEPTH, Ancestor(i, TREE_DEPTH))

\* However many leaves there are, the proof get_merkle_proof returns for a
\* property leads from its record to the node insert_leaf keeps above its leaf.
THEOREM ProofsClimb == Spec => []ProofsReachATop
<1>1. IInv /\ TreeInv => ProofsReachATop
  <2> SUFFICES ASSUME IInv, TreeInv, NEW p \in DOMAIN records, NEW i \in Nat,
                      leaf_index_by_property[p] = i
               PROVE  RecomputedRoot(leaf_hash(records[p]), MerkleProof(p))
                        = node_at(TREE_DEPTH, Ancestor(i, TREE_DEPTH))
    BY DEF ProofsReachATop
  <2> DEFINE proof == MerkleProof(p)
  <2>1. /\ HashTree(NodeTree) /\ NodeTree[0][i] = leaf_hash(records[p])
        /\ SidesOf(proof, i) /\ SiblingsIn(proof, NodeTree, i)
    BY NodeTreeIsTree
  <2> HIDE DEF proof
  <2>2. RecomputedRoot(NodeTree[0][i], proof) = NodeTree[TREE_DEPTH][Ancestor(i, TREE_DEPTH)]
    BY <2>1, Climbs
  <2>3. TREE_DEPTH \in 0..TREE_DEPTH /\ Ancestor(i, TREE_DEPTH) \in Nat
    BY Ancestors, RegistryAssumption
  <2> QED BY <2>1, <2>2, <2>3 DEF NodeTree, proof
<1> QED BY <1>1, Invariance, TreeInvariance, PTL

\* An accepted submission leaves a root that the Merkle proof of the property
\* just written leads to (submit_record_impl, insert_leaf, get_merkle_proof_impl).
LastProofRecomputes ==
  [][\A caller \in Principals, p \in PropertyIds, r \in Records :
       /\ SubmitRecord(caller, p, r)
       /\ is_admin(caller) /\ Parses(r.owner_commitment)
       => (RecomputedRoot(leaf_hash(records[p]), MerkleProof(p)) = current_root)']_vars

\* However many leaves there are, the last record written can be proved against
\* the root of the moment: what a tree beyond its capacity loses is the proofs
\* of the others.
THEOREM LastProofStays == Spec => LastProofRecomputes
<1>1. ASSUME IInv, ProofsReachATop',
             NEW caller \in Principals, NEW p \in PropertyIds, NEW r \in Records,
             SubmitRecord(caller, p, r), is_admin(caller), Parses(r.owner_commitment)
      PROVE  (RecomputedRoot(leaf_hash(records[p]), MerkleProof(p)) = current_root)'
  <2>1. LeafIndex(p) \in Nat
    BY <1>1 DEF LeafIndex, IInv, IndexMaps
  <2>2. PICK i \in Nat :
          /\ records' = With(records, p, r)
          /\ leaf_index_by_property' = With(leaf_index_by_property, p, i)
          /\ insert_leaf(i, leaf_hash(r))
    <3> DEFINE i == LeafIndex(p)
    <3>1. /\ records' = With(records, p, r)
          /\ leaf_index_by_property' = With(leaf_index_by_property, p, i)
          /\ insert_leaf(i, leaf_hash(r))
      BY <1>1 DEF SubmitRecord, RefusedRecord
    <3> HIDE DEF i
    <3> QED BY <2>1, <3>1 DEF i
  <2>3. p \in DOMAIN records' /\ leaf_index_by_property'[p] = i
    BY <2>2 DEF With
  <2>4. TREE_DEPTH \in 0..TREE_DEPTH /\ Ancestor(i, TREE_DEPTH) \in Nat
    BY <2>2, Ancestors, RegistryAssumption
  <2>5. node_at(TREE_DEPTH, Ancestor(i, TREE_DEPTH))' = current_root'
    BY <2>2, <2>4, Inserted
  <2>6. RecomputedRoot(leaf_hash(records[p]), MerkleProof(p))'
          = node_at(TREE_DEPTH, Ancestor(i, TREE_DEPTH))'
    BY <1>1, <2>3 DEF ProofsReachATop
  <2> QED BY <2>5, <2>6
<1>2. IInv /\ ProofsReachATop' /\ [Next]_vars
        => [\A caller \in Principals, p \in PropertyIds, r \in Records :
              /\ SubmitRecord(caller, p, r)
              /\ is_admin(caller) /\ Parses(r.owner_commitment)
              => (RecomputedRoot(leaf_hash(records[p]), MerkleProof(p)) = current_root)']_vars
  BY <1>1
<1> QED BY <1>2, Invariance, ProofsClimb, PTL DEF Spec, LastProofRecomputes

\* As long as the tree has room, a step that leaves the records alone, an
\* upgrade in particular, leaves the root alone.
THEOREM RootIsKept == Spec => ([]Fits => UpgradeKeepsRoot)
<1>1. /\ IInv /\ [Next]_vars
      /\ Fits => RootIsReference
      /\ Fits' => RootIsReference'
      /\ Fits /\ Fits'
      => [next_leaf_index' = next_leaf_index /\ records' = records
            => current_root' = current_root]_vars
  <2> SUFFICES ASSUME IInv, [Next]_vars, RootIsReference, RootIsReference',
                      next_leaf_index' = next_leaf_index, records' = records
               PROVE  current_root' = current_root
    OBVIOUS
  <2>1. leaf_index_by_property' = leaf_index_by_property
    <3>1. ASSUME NEW p, leaf_index_by_property' = With(leaf_index_by_property, p, LeafIndex(p)),
                 next_leaf_index' = CounterAfter(p)
          PROVE  leaf_index_by_property' = leaf_index_by_property
      <4>1. p \in DOMAIN leaf_index_by_property
        BY <3>1 DEF CounterAfter, IInv, IndexMaps
      <4>2. LeafIndex(p) = leaf_index_by_property[p]
            /\ leaf_index_by_property \in [DOMAIN leaf_index_by_property -> Nat]
        BY <4>1 DEF LeafIndex, IInv, IndexMaps
      <4> QED BY <3>1, <4>1, <4>2 DEF With
    <3> QED BY <3>1, Accepted, OthersKeepIndices DEF registryVars
  <2>2. \A j : Leaf(j)' = Leaf(j)
    BY <2>1 DEF Leaf, LeavesAt, leaf_hash, ZERO
  <2>3. ReferenceRoot' = ReferenceRoot
    BY <2>2 DEF ReferenceRoot, TreeOver, HashNode
  <2> QED BY <2>3 DEF RootIsReference
<1> QED BY <1>1, Invariance, RootIsTheTrees, PTL DEF Spec, UpgradeKeepsRoot

\* The state of the registry is of the right kind.
THEOREM TypeCorrect == Spec => []TypeOK
<1>1. AdminInv /\ IInv /\ TreeInv => TypeOK
  BY DEF AdminInv, IInv, IndexMaps, TreeInv, NodesTyped, TypeOK
<1> QED BY <1>1, AdminsStay, Invariance, TreeInvariance, PTL
=============================================================================
