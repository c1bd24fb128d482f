--------------------------- MODULE MerkleRegistry ---------------------------
(***************************************************************************)
(* The registry half of the canister: the records admins submit, the index *)
(* each property's leaf has in the tree, the sparse Merkle tree kept node  *)
(* by node, the root challenges are issued against, and canister upgrades. *)
(*                                                                         *)
(* The hash is symbolic: the hash of its inputs is the tuple of its inputs,*)
(* so two hashes are equal exactly if everything hashed is (no collisions).*)
(* The flag, status and expiry of a record are one opaque value.           *)
(***************************************************************************)
EXTENDS AdminList, FieldElement

CONSTANTS
  TREE_DEPTH,   \* levels of the tree, 25 in title_air
  PropertyIds,
  Commitments,  \* strings submitted as owner_commitment
  Terms         \* encumbrance_flag, license_status and license_expiry together

ASSUME RegistryAssumption ==
  /\ TREE_DEPTH \in Nat
  /\ Commitments \subseteq WireStrings

VARIABLES records, leaf_index_by_property, nodes, current_root, next_leaf_index

registryVars == <<records, leaf_index_by_property, nodes, current_root,
                  next_leaf_index>>
vars == <<adminVars, registryVars>>

-----------------------------------------------------------------------------
(* Hashing *)

ZERO == <<"zero">>

HashNode(l, r) == <<"node", l, r>>

zero_hashes[level \in 0..TREE_DEPTH] ==
  IF level = 0 THEN ZERO
  ELSE HashNode(zero_hashes[level - 1], zero_hashes[level - 1])

leaf_hash(r) == <<"leaf", parse_fe(r.owner_commitment), r.terms>>

\* Faulty variant: an unset node is the zero leaf at every level.
node_or_ZERO(level, index) ==
  IF <<level, index>> \in DOMAIN nodes THEN nodes[<<level, index>>] ELSE ZERO

node_at(level, index) ==
  IF <<level, index>> \in DOMAIN nodes THEN nodes[<<level, index>>]
                                       ELSE zero_hashes[level]

Sibling(i) == IF i % 2 = 0 THEN i + 1 ELSE i - 1

\* Ancestor of a leaf at a level, counted from the leaves.
Ancestor(index, level) ==
  LET idx[l \in 0..TREE_DEPTH] == IF l = 0 THEN index ELSE idx[l - 1] \div 2
  IN  idx[level]

HashUp(cur, sibling, i) ==
  IF i % 2 = 0 THEN HashNode(cur, sibling) ELSE HashNode(sibling, cur)

-----------------------------------------------------------------------------
(* Operations *)

RegistryInit ==
  /\ records = <<>>
  /\ leaf_index_by_property = <<>>
  /\ nodes = <<>>
  /\ current_root = zero_hashes[TREE_DEPTH]
  /\ next_leaf_index = 0

Init == AdminInit /\ RegistryInit

\* The nodes from leaf to root that insert_leaf writes for a leaf.
PathTo(index, leaf) ==
  LET cur[level \in 0..TREE_DEPTH] ==
        IF level = 0 THEN leaf
        ELSE LET i == Ancestor(index, level - 1)
             IN  HashUp(cur[level - 1], node_at(level - 1, Sibling(i)), i)
  IN  cur

\* Faulty variant: the node above the last level of siblings is not stored.
insert_leaf_topless(index, leaf) ==
  LET path == PathTo(index, leaf)
      written == {<<level, Ancestor(index, level)>> : level \in 0 .. TREE_DEPTH - 1}
  IN  /\ nodes' = [n \in DOMAIN nodes \cup written |->
                     IF n \in written THEN path[n[1]] ELSE nodes[n]]
      /\ current_root' = path[TREE_DEPTH]

\* Faulty variant: only the leaf is stored, the nodes above it are not.
insert_leaf_only(index, leaf) ==
  /\ nodes' = [n \in DOMAIN nodes \cup {<<0, index>>} |->
                 IF n = <<0, index>> THEN leaf ELSE nodes[n]]
  /\ current_root' = PathTo(index, leaf)[TREE_DEPTH]

insert_leaf(index, leaf) ==
  LET path == PathTo(index, leaf)
      written == {<<level, Ancestor(index, level)>> : level \in 0..TREE_DEPTH}
  IN  /\ nodes' = [n \in DOMAIN nodes \cup written |->
                     IF n \in written THEN path[n[1]] ELSE nodes[n]]
      /\ current_root' = path[TREE_DEPTH]

\* Faulty variant: a resubmission gets a new leaf.
FreshLeafIndex(property_id) == next_leaf_index

LeafIndex(property_id) ==
  IF property_id \in DOMAIN leaf_index_by_property
  THEN leaf_index_by_property[property_id]
  ELSE next_leaf_index

With(f, k, v) == [x \in DOMAIN f \cup {k} |-> IF x = k THEN v ELSE f[x]]

\* Faulty variant: the counter also moves for a resubmission.
CounterAfterEvery(property_id) == next_leaf_index + 1

CounterAfter(property_id) ==
  IF property_id \in DOMAIN leaf_index_by_property
  THEN next_leaf_index ELSE next_leaf_index + 1

\* Faulty variant: the index is handed out before the commitment is parsed.
RefusedWithIndex(caller, property_id, record) ==
  /\ ~Parses(record.owner_commitment)
  /\ leaf_index_by_property' =
       With(leaf_index_by_property, property_id, LeafIndex(property_id))
  /\ next_leaf_index' = CounterAfter(property_id)
  /\ Replied("submit_record", caller, FALSE)
  /\ UNCHANGED <<admins, records, nodes, current_root>>

\* The commitment is parsed before an index is handed out: a submission that
\* fails to parse writes nothing.
RefusedRecord(caller, property_id, record) ==
  /\ ~is_admin(caller) \/ ~Parses(record.owner_commitment)
  /\ Replied("submit_record", caller, FALSE)
  /\ UNCHANGED <<admins, registryVars>>

SubmitRecord(caller, property_id, record) ==
  \/ /\ is_admin(caller)
     /\ Parses(record.owner_commitment)
     /\ records' = With(records, property_id, record)
     /\ leaf_index_by_property' =
          With(leaf_index_by_property, property_id, LeafIndex(property_id))
     /\ next_leaf_index' = CounterAfter(property_id)
     /\ insert_leaf(LeafIndex(property_id), leaf_hash(record))
     /\ Replied("submit_record", caller, TRUE)
     /\ UNCHANGED admins
  \/ RefusedRecord(caller, property_id, record)

\* The snapshot carries the nodes; the root is read back from the node at the
\* top of the tree.
Upgrade ==
  /\ current_root' = node_at(TREE_DEPTH, 0)
  /\ UNCHANGED <<adminVars, records, leaf_index_by_property, nodes, next_leaf_index>>

Records == [owner_commitment : Commitments, terms : Terms]

Next ==
  \/ AdminNext /\ UNCHANGED registryVars
  \/ \E caller \in Principals, p \in PropertyIds, r \in Records : SubmitRecord(caller, p, r)
  \/ Upgrade

Spec == Init /\ [][Next]_vars

\* get_merkle_proof: the siblings from the leaf up, and on which side the path
\* lies.
MerkleProof(property_id) ==
  LET index == leaf_index_by_property[property_id]
  IN  [siblings  |-> [level \in 0 .. TREE_DEPTH - 1 |->
                        node_at(level, Sibling(Ancestor(index, level)))],
       path_bits |-> [level \in 0 .. TREE_DEPTH - 1 |-> Ancestor(index, level) % 2 = 1],
       root      |-> current_root]

-----------------------------------------------------------------------------
(* Properties *)

\* What an owner's device recomputes from a leaf and a Merkle proof.
RecomputedRoot(leaf, proof) ==
  LET up[level \in 0..TREE_DEPTH] ==
        IF level = 0 THEN leaf
        ELSE IF proof.path_bits[level - 1]
             THEN HashNode(proof.siblings[level - 1], up[level - 1])
             ELSE HashNode(up[level - 1], proof.siblings[level - 1])
  IN  up[TREE_DEPTH]

\* The tree over the records alone, built row by row and without the node store.
LeavesAt(i) ==
  {leaf_hash(records[p]) :
     p \in {q \in DOMAIN records : leaf_index_by_property[q] = i}}

Leaf(i) == IF LeavesAt(i) = {} THEN ZERO ELSE CHOOSE h \in LeavesAt(i) : TRUE

TreeOver(leaves) ==
  LET row[level \in 0..TREE_DEPTH] ==
        IF level = 0 THEN leaves
        ELSE [i \in Nat |-> HashNode(row[level - 1][2 * i], row[level - 1][2 * i + 1])]
  IN  row

ReferenceRoot == TreeOver([i \in Nat |-> Leaf(i)])[TREE_DEPTH][0]

\* The maps of the registry are maps of the right kind.
TypeOK ==
  /\ admins \in Seq(Principals)
  /\ DOMAIN records \subseteq PropertyIds
  /\ \A p \in DOMAIN records : records[p] \in Records
  /\ DOMAIN leaf_index_by_property = DOMAIN records
  /\ next_leaf_index \in Nat
  /\ \A n \in DOMAIN nodes : n \in (0..TREE_DEPTH) \X Nat

\* Leaf indices are handed out one after the other, one per property: no two
\* properties share a leaf and a refused submission leaves no hole
\* (submit_record_impl).
IndicesDense ==
  /\ {leaf_index_by_property[p] : p \in DOMAIN leaf_index_by_property}
       = 0 .. next_leaf_index - 1
  /\ Cardinality(DOMAIN leaf_index_by_property) = next_leaf_index

\* Updating the nodes of one path at a time, in any order of submissions and
\* resubmissions, yields the root of the whole tree over the current records
\* (insert_leaf, node_at).
RootIsReference == current_root = ReferenceRoot

\* The Merkle proof of every property, not just the last one written, leads
\* from its current record to the root challenges are issued against
\* (get_merkle_proof_impl; test get_merkle_proof_matches_manually_recomputed_root).
EveryProofRecomputes ==
  \A p \in DOMAIN records :
    RecomputedRoot(leaf_hash(records[p]), MerkleProof(p)) = current_root

\* An upgrade changes nothing a challenge or a prover can see: in particular
\* the root read back is the root there was (post_upgrade).
UpgradeKeepsRoot == [][next_leaf_index' = next_leaf_index /\ records' = records
                         => current_root' = current_root]_vars

\* A property's leaf never moves, and a submission for one property changes
\* the record of no other (submit_record_impl, "preserves other leaf").
LeavesStay ==
  [][\A p \in DOMAIN leaf_index_by_property :
       /\ leaf_index_by_property'[p] = leaf_index_by_property[p]
       /\ \A q \in DOMAIN records \ {p} :
            records'[p] # records[p] => records'[q] = records[q]]_vars
=============================================================================
