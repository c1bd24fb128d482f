----------------------------- MODULE TitleSystem -----------------------------
(***************************************************************************)
(* The canister and the owners' devices together: MerkleRegistry and       *)
(* ChallengeVerify share current_root, and answers are computed from the   *)
(* Merkle proofs the registry hands out.                                   *)
(*                                                                         *)
(* get_merkle_proof is a query anybody may call at any time, so a device   *)
(* may hold the proof of any version of the registry there ever was.  It   *)
(* fetches the proof before it asks for a challenge, after it, or after    *)
(* the registry has moved on; it answers with the leaf it expects of a     *)
(* title in order (flag 0, status 1) and its own secret.  An answer may    *)
(* also arrive corrupted, after which the device tries again.              *)
(*                                                                         *)
(* The proof system is taken to do what it promises: the proofs that       *)
(* verify are those of true statements.                                    *)
(***************************************************************************)
EXTENDS FieldElement, Integers, Sequences

CONSTANTS
  Principals, Anonymous, Controllers,
  MinCallInterval, ThrottleRetention, MaxPrune,
  ChallengeTTL, Second, MaxTime, MaxChallenges,
  TREE_DEPTH, PropertyIds, Purposes,
  Admin,          \* the principal that submits records
  Submitted,      \* the records it may submit, with their property
  Commitment,     \* H(DOMAIN_OWNER_COMMITMENT, secret of a principal, property)
  Nullifier,      \* H(DOMAIN_NULLIFIER, secret of a principal, property,
                  \*   purpose, nonce)
  MaxVersions     \* bound: number of registry states

\* The canonical strings of the field elements.
Commitments == {fe_to_string(v) : v \in FieldElements}

\* The hashes have no collisions, and one field element is left over for
\* a root that is not the registry's.
ASSUME SystemAssumption ==
  /\ Admin \in Principals \cap Controllers
  /\ Submitted \subseteq
       [property : PropertyIds,
        record   : [owner_commitment : Commitments,
                    terms            : [clear : BOOLEAN, expiry : Nat]]]
  /\ Commitment \in [Principals \X PropertyIds -> FieldElements]
  /\ \A x, y \in DOMAIN Commitment : Commitment[x] = Commitment[y] => x = y
  /\ Nullifier \in
       [Principals \X PropertyIds \X Purposes \X (0 .. MaxChallenges - 1)
          -> FieldElements]
  /\ \A x, y \in DOMAIN Nullifier : Nullifier[x] = Nullifier[y] => x = y
  /\ MaxVersions \in 1 .. Modulus - 1

VARIABLES
  admins, reply, records, leaf_index_by_property, nodes, current_root,
  next_leaf_index,
  now, challenges, next_challenge_id, next_nonce, oldest_unpruned_challenge_id,
  nullifiers, last_challenge_call_at, last_verify_call_at,
  challenge_throttle_log, verify_throttle_log, issued, accepted,
  versions,       \* history: every state the registry was in
  issued_at       \* history: the version current when a challenge was issued

Registry == INSTANCE MerkleRegistry WITH
  Commitments <- Commitments,
  Terms       <- [clear : BOOLEAN, expiry : Nat]

\* The registry's roots as the field elements of ChallengeVerify: numbered by
\* the first version that has them.
RootNumber(root) ==
  LET at == {i \in 1..Len(versions) : versions[i].root = root}
  IN  IF at = {} THEN Modulus - 1
                 ELSE (CHOOSE i \in at : \A j \in at : i <= j) - 1

Verifier == INSTANCE ChallengeVerify WITH
  current_root   <- RootNumber(current_root),
  RegistryIds    <- {1},
  RootWires      <- Commitments,
  NullifierWires <- Commitments

\* The parts are used as they are meant to be.
ASSUME PartsAssumption ==
  /\ Registry!ControllersAssumption /\ Registry!RegistryAssumption
  /\ Verifier!PrincipalsAssumption /\ Verifier!ThrottleAssumption
  /\ Verifier!ChallengeAssumption

treeVars == <<records, leaf_index_by_property, nodes, current_root,
              next_leaf_index, versions>>
registryVars == <<admins, reply, treeVars>>
verifierVars == <<now, challenges, next_challenge_id, next_nonce,
                  oldest_unpruned_challenge_id, nullifiers,
                  last_challenge_call_at, last_verify_call_at,
                  challenge_throttle_log, verify_throttle_log, issued, accepted,
                  issued_at>>
vars == <<registryVars, verifierVars>>

-----------------------------------------------------------------------------
(* The registry's side *)

Version ==
  [records |-> records,
   root    |-> current_root,
   since   |-> now,
   proofs  |-> [p \in DOMAIN records |-> Registry!MerkleProof(p)]]

Init ==
  /\ Registry!Init
  /\ now = 0
  /\ challenges = Verifier!NoEntries
  /\ next_challenge_id = 0
  /\ next_nonce = 0
  /\ oldest_unpruned_challenge_id = 0
  /\ nullifiers = {}
  /\ last_challenge_call_at = Verifier!NoEntries
  /\ last_verify_call_at = Verifier!NoEntries
  /\ challenge_throttle_log = <<>>
  /\ verify_throttle_log = <<>>
  /\ issued = Verifier!NoEntries
  /\ accepted = <<>>
  /\ versions = <<Version>>
  /\ issued_at = Verifier!NoEntries

Bootstrap ==
  /\ admins = <<>>
  /\ Registry!BootstrapAdmin(Admin, Admin)
  /\ UNCHANGED <<treeVars, verifierVars>>

SubmitRecord(p, record) ==
  /\ Len(versions) < MaxVersions
  /\ Registry!is_admin(Admin)
  /\ Registry!SubmitRecord(Admin, p, record)
  /\ UNCHANGED verifierVars
  /\ versions' = Append(versions, Version')

Upgrade ==
  /\ Registry!Upgrade
  /\ Verifier!Restored
  /\ UNCHANGED <<versions, issued_at>>

-----------------------------------------------------------------------------
(* The verifier's side *)

RequestChallenge(caller, purpose) ==
  /\ UNCHANGED registryVars
  /\ Verifier!RequestChallenge(caller, purpose)
  /\ issued_at' = Verifier!Inserted(issued_at, next_challenge_id, Len(versions))

\* The leaf a device hashes for its own title.
ExpectedLeaf(owner, p, expiry) ==
  Registry!leaf_hash([owner_commitment |-> fe_to_string(Commitment[<<owner, p>>]),
                      terms            |-> [clear |-> TRUE, expiry |-> expiry]])

\* The public inputs of a device's proof for the challenge c, from the Merkle
\* proof of property p in some version of the registry.
DeviceInputs(owner, p, version, c) ==
  LET expiry == version.records[p].terms.expiry
  IN  [registry_id       |-> c.registry_id,
       merkle_root       |->
         fe_to_string(RootNumber(
           Registry!RecomputedRoot(ExpectedLeaf(owner, p, expiry), version.proofs[p]))),
       purpose           |-> c.purpose,
       request_nonce     |-> c.request_nonce,
       current_timestamp |-> c.current_timestamp,
       nullifier         |-> fe_to_string(Nullifier[<<owner, p, c.purpose, c.request_nonce>>])]

\* build_trace stops unless the expiry lies after the timestamp.
Provable(p, version, c) == version.records[p].terms.expiry > c.current_timestamp

\* A device answers a challenge anybody was issued.
Answer(owner, id, p, version, intact) ==
  /\ Provable(p, version, issued[id])
  /\ UNCHANGED registryVars
  /\ Verifier!Verify(owner, id, DeviceInputs(owner, p, version, issued[id]), intact)
  /\ UNCHANGED issued_at

Heartbeat == UNCHANGED registryVars /\ Verifier!Heartbeat /\ UNCHANGED issued_at

Tick == UNCHANGED registryVars /\ Verifier!Tick /\ UNCHANGED issued_at

Next ==
  \/ Bootstrap
  \/ \E s \in Submitted : SubmitRecord(s.property, s.record)
  \/ Upgrade
  \/ \E owner \in Principals, purpose \in Purposes : RequestChallenge(owner, purpose)
  \/ \E owner \in Principals, id \in DOMAIN issued, i \in 1..Len(versions),
        intact \in BOOLEAN :
       \E p \in DOMAIN versions[i].records : Answer(owner, id, p, versions[i], intact)
  \/ Heartbeat
  \/ Tick

Spec == Init /\ [][Next]_vars

-----------------------------------------------------------------------------
(* Properties *)

\* The property lies in this version of the registry with the owner's
\* commitment, no encumbrance and a license that runs past the timestamp.
InOrder(owner, p, version, timestamp) ==
  /\ p \in DOMAIN version.records
  /\ version.records[p].owner_commitment = fe_to_string(Commitment[<<owner, p>>])
  /\ version.records[p].terms.clear
  /\ version.records[p].terms.expiry > timestamp

\* Every accepted answer speaks the truth about the registry as it was when
\* the challenge was issued, whatever versions the device took its Merkle
\* proof from: the caller's title to the property its nullifier names was in
\* order (submit_record, get_merkle_proof, request_challenge, verify).
AcceptedWasTrue ==
  \A i \in 1..Len(accepted) :
    LET a == accepted[i] IN
    \E p \in PropertyIds :
      /\ InOrder(a.caller, p, versions[issued_at[a.id]], a.statement.current_timestamp)
      /\ a.statement.nullifier =
           Nullifier[<<a.caller, p, a.statement.purpose, a.statement.request_nonce>>]

\* A truth is outdated by no more than the lifetime of a challenge: if the
\* registry has moved on since the challenge, it did so at most ChallengeTTL
\* before the answer was accepted (request_challenge_impl, which fixes the
\* root, and the expiry check of verify_precheck_impl).
OutdatedAtMostTTL ==
  \A i \in 1..Len(accepted) :
    LET next == issued_at[accepted[i].id] + 1 IN
    next <= Len(versions) =>
      accepted[i].at <= versions[next].since + ChallengeTTL

\* An owner whose title was in order when the challenge was issued, and whose
\* device took the Merkle proof of that moment, is never turned away before
\* the deadline: not because of other calls, corrupted answers, submissions,
\* heartbeats or upgrades since (the golden path and the retry of
\* run_full_cycle.sh).
HonestAnswerPasses ==
  \A id \in DOMAIN issued, p \in PropertyIds :
    LET c == issued[id]
        version == versions[issued_at[id]]
    IN  (/\ InOrder(c.requester, p, version, c.current_timestamp)
         /\ now <= c.expires_at
         /\ \A i \in 1..Len(accepted) : accepted[i].id # id)
        => Verifier!Precheck(c.requester, id,
                             DeviceInputs(c.requester, p, version, c))

\* The composed system, too, implements VerificationRights.
RightsKept == Verifier!RightsKept
=============================================================================
