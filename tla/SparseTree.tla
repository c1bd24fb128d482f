----------------------------- MODULE SparseTree -----------------------------
(***************************************************************************)
(* The sparse Merkle tree of the owner's device and of the test harness,   *)
(* over the circuit's own hash.  A tree is a partial function from         *)
(* <<level, index>> to field elements.                                     *)
(***************************************************************************)
EXTENDS TitleAir

Levels == 0 .. TREE_DEPTH
Indexes == 0 .. PowerOfTwo(TREE_DEPTH) - 1

\* v halved n times, v >> n: the index of a leaf's ancestor at level n.
Halved(v, n) ==
  LET half[k \in 0..n] == IF k = 0 THEN v ELSE half[k - 1] \div 2 IN half[n]

zero_hashes[level \in Levels] ==
  IF level = 0 THEN 0
  ELSE hash(<<DOMAIN_NODE, zero_hashes[level - 1], zero_hashes[level - 1]>>)

node_at(tree, level, index) ==
  IF <<level, index>> \in DOMAIN tree THEN tree[<<level, index>>]
                                      ELSE zero_hashes[level]

Sibling(i) == IF i % 2 = 0 THEN i + 1 ELSE i - 1

Parent(cur, sibling, right) ==
  IF right THEN hash(<<DOMAIN_NODE, sibling, cur>>)
           ELSE hash(<<DOMAIN_NODE, cur, sibling>>)

\* insert_leaf: the tree with the nodes above the leaf brought up to date.
WithLeaf(tree, index, leaf) ==
  LET path[level \in Levels] ==
        IF level = 0 THEN leaf
        ELSE LET i == Halved(index, level - 1)
             IN  Parent(path[level - 1], node_at(tree, level - 1, Sibling(i)),
                        i % 2 = 1)
      written == {<<level, Halved(index, level)>> : level \in Levels}
  IN  [n \in DOMAIN tree \cup written |->
         IF n \in written THEN path[n[1]] ELSE tree[n]]

root(tree) == node_at(tree, TREE_DEPTH, 0)

proof(tree, index) ==
  [siblings |-> [l \in 0 .. TREE_DEPTH - 1 |->
                   node_at(tree, l, Sibling(Halved(index, l)))],
   bits     |-> [l \in 0 .. TREE_DEPTH - 1 |-> Halved(index, l) % 2 = 1]]

recompute_root(leaf, siblings, bits) ==
  LET cur[level \in Levels] ==
        IF level = 0 THEN leaf
        ELSE Parent(cur[level - 1], siblings[level - 1], bits[level - 1])
  IN  cur[TREE_DEPTH]
=============================================================================
