-------------------------- MODULE TitleSystem_proofs --------------------------
(***************************************************************************)
(* Proofs about the canister and the devices together, for any principals, *)
(* properties, records, depth of the tree and number of challenges and     *)
(* submissions.                                                            *)
(*                                                                         *)
(* The system's steps are steps of its two parts, whose proofs are taken   *)
(* over by INSTANCE: RP is the registry's, VP the verifier's.  The rest of *)
(* the argument joins the two.  A challenge expires ChallengeTTL after it  *)
(* was issued, so the version that supersedes the one it was issued in     *)
(* began no earlier than ChallengeTTL before its deadline, and an answer   *)
(* is accepted no later.  Every version has a tree of which its root is    *)
(* the top, and a device's recomputation, turned around, descends in that  *)
(* tree to the leaf of the device's property.  What is said of roots and   *)
(* proofs is said for a tree with room for its records (RP!Fits): in a     *)
(* full one leaf indices run out of it, and its roots do not speak for     *)
(* their records.                                                          *)
(***************************************************************************)
EXTENDS TitleSystem, SequenceTheorems, TLAPS

RP == INSTANCE MerkleRegistry_proofs WITH
  Commitments <- Commitments,
  Terms       <- [clear : BOOLEAN, expiry : Nat]
VP == INSTANCE ChallengeVerify_proofs WITH
  current_root   <- RootNumber(current_root),
  RegistryIds    <- {1},
  RootWires      <- Commitments,
  NullifierWires <- Commitments

\* The assumptions of the parts' proofs.
LEMMA Parts ==
  /\ RP!ControllersAssumption /\ RP!RegistryAssumption /\ RP!FieldAssumption
  /\ VP!PrincipalsAssumption /\ VP!ThrottleAssumption /\ VP!ChallengeAssumption
  /\ VP!FieldAssumption
  /\ ChallengeTTL \in Nat /\ TREE_DEPTH \in Nat /\ MaxChallenges \in Nat
<1>1. RP!FieldAssumption /\ VP!FieldAssumption
  BY FieldAssumption
<1>2. RP!ControllersAssumption /\ RP!RegistryAssumption
  BY PartsAssumption DEF Registry!WireStrings, RP!WireStrings
<1>3. VP!PrincipalsAssumption /\ VP!ThrottleAssumption
  BY PartsAssumption DEF Verifier!IsFiniteSet, VP!IsFiniteSet
<1>4. VP!ChallengeAssumption
  BY PartsAssumption DEF Verifier!WireStrings, VP!WireStrings
<1>5. ChallengeTTL \in Nat /\ TREE_DEPTH \in Nat /\ MaxChallenges \in Nat
  BY PartsAssumption
<1> QED BY <1>1, <1>2, <1>3, <1>4, <1>5

\* The system's steps are the registry's, or leave it alone.
LEMMA RegistryStep == ASSUME [Next]_vars PROVE [RP!Next]_(RP!vars)
<1>1. CASE Bootstrap
  <2>1. Admin \in Principals
    BY SystemAssumption
  <2>2. RP!BootstrapAdmin(Admin, Admin)
    BY <1>1 DEF Bootstrap, Registry!BootstrapAdmin, RP!BootstrapAdmin, Registry!Replied,
       RP!Replied
  <2>3. UNCHANGED RP!registryVars
    BY <1>1 DEF Bootstrap, treeVars, RP!registryVars
  <2> QED BY <2>1, <2>2, <2>3 DEF RP!Next, RP!AdminNext
<1>2. ASSUME NEW p, NEW r, [property |-> p, record |-> r] \in Submitted, SubmitRecord(p, r)
      PROVE  RP!Next
  <2>1. Admin \in Principals /\ p \in PropertyIds /\ r \in RP!Records
    BY <1>2, SystemAssumption DEF RP!Records
  <2>2. Registry!SubmitRecord(Admin, p, r)
    BY <1>2 DEF SubmitRecord
  <2>3. RP!SubmitRecord(Admin, p, r)
    BY <2>2 DEF Registry!insert_leaf, RP!insert_leaf, Registry!LeafIndex, RP!LeafIndex,
       Registry!PathTo, RP!PathTo, Registry!node_at, RP!node_at, RP!Ancestor,
       Registry!Ancestor, RP!HashUp, Registry!HashUp,
       RP!zero_hashes, Registry!zero_hashes, RP!ZERO, Registry!ZERO, RP!HashNode,
       Registry!HashNode, Registry!leaf_hash, RP!leaf_hash, RP!Sibling, Registry!Sibling,
       Registry!parse_fe, RP!parse_fe, RP!SubmitRecord, Registry!SubmitRecord,
       RP!CounterAfter, Registry!CounterAfter,
       RP!Replied, Registry!Replied, RP!With, Registry!With, RP!is_admin, Registry!is_admin,
       RP!Parses, Registry!Parses, RP!RefusedRecord, Registry!RefusedRecord,
       RP!registryVars, Registry!registryVars
  <2> QED BY <2>1, <2>3 DEF RP!Next
<1>3. CASE Upgrade
  BY <1>3 DEF Upgrade, Registry!Upgrade, RP!Upgrade, RP!Next,
     Registry!node_at, RP!node_at, RP!zero_hashes, Registry!zero_hashes, RP!ZERO, Registry!ZERO,
     RP!HashNode, Registry!HashNode, RP!adminVars, Registry!adminVars
<1>4. CASE UNCHANGED registryVars
  BY <1>4 DEF registryVars, treeVars, RP!vars, RP!adminVars, RP!registryVars
<1>5. CASE \E s \in Submitted : SubmitRecord(s.property, s.record)
  <2>1. PICK s \in Submitted : SubmitRecord(s.property, s.record)
    BY <1>5
  <2>2. s = [property |-> s.property, record |-> s.record]
    BY SystemAssumption
  <2> QED BY <1>2, <2>1, <2>2
<1>6. [Next]_vars => \/ Bootstrap \/ Upgrade \/ UNCHANGED registryVars
                     \/ \E s \in Submitted : SubmitRecord(s.property, s.record)
  BY DEF Next, vars, RequestChallenge, Answer, Heartbeat, Tick
<1> QED BY <1>1, <1>3, <1>4, <1>5, <1>6

\* The registry starts empty (fresh_state).
LEMMA RegistryInit == Init => RP!Init
BY DEF Init, Registry!Init, RP!Init, Registry!AdminInit, RP!AdminInit,
   Registry!RegistryInit, RP!RegistryInit, RP!zero_hashes, Registry!zero_hashes, RP!ZERO,
   Registry!ZERO, RP!HashNode, Registry!HashNode

\* The invariants of MerkleRegistry_proofs hold of the system's registry.
LEMMA RegistryHolds == Spec => [](RP!IInv /\ RP!TreeInv)
<1>1. [Next]_vars => [RP!Next]_(RP!vars)
  BY RegistryStep
<1>2. RP!Spec => []RP!IInv
  BY RP!Invariance, Parts
<1>3. RP!Spec => []RP!TreeInv
  BY RP!TreeInvariance, Parts
<1> QED BY <1>1, <1>2, <1>3, RegistryInit, PTL DEF Spec, RP!Spec

-----------------------------------------------------------------------------
(* Versions and deadlines *)

\* Versions and answers are sequences of something.
Shapes ==
  /\ now \in Nat
  /\ next_challenge_id \in Nat
  /\ \E S : versions \in Seq(S)
  /\ \E S : accepted \in Seq(S)
  /\ \A i \in 1..Len(versions) : versions[i].since \in Nat

\* Every challenge was issued in some version and in time past.
IssuedInVersion ==
  /\ DOMAIN issued_at = DOMAIN issued
  /\ \A id \in DOMAIN issued :
       /\ id \in Nat /\ id < next_challenge_id
       /\ issued_at[id] \in 1..Len(versions)
       /\ issued[id].expires_at \in Nat
       /\ issued[id].expires_at <= now + ChallengeTTL

\* What is pending keeps the deadline it was issued with.
PendingDeadline ==
  \A id \in DOMAIN challenges :
    /\ id \in DOMAIN issued
    /\ "expires_at" \in DOMAIN challenges[id]
    /\ challenges[id].expires_at = issued[id].expires_at

\* The version after the one a challenge was issued in began no earlier than
\* ChallengeTTL before the challenge's deadline.
SupersededInTime ==
  \A id \in DOMAIN issued :
    issued_at[id] + 1 <= Len(versions) =>
      issued[id].expires_at <= versions[issued_at[id] + 1].since + ChallengeTTL

\* Answers are accepted by the deadline (verify_precheck_impl).
AcceptedInTime ==
  \A i \in 1..Len(accepted) :
    /\ accepted[i].id \in DOMAIN issued
    /\ accepted[i].at \in Nat
    /\ accepted[i].at <= issued[accepted[i].id].expires_at

\* There is always a version: the one challenges are issued in.
SomeVersion == Len(versions) \in Nat \ {0}

\* The inductive invariant.
IInv ==
  /\ Shapes
  /\ SomeVersion
  /\ IssuedInVersion
  /\ PendingDeadline
  /\ SupersededInTime
  /\ AcceptedInTime

-----------------------------------------------------------------------------
(* The invariant *)

\* One more element, whatever it is.
LEMMA Appended ==
  ASSUME NEW s, NEW e, NEW longer, longer = Append(s, e), \E S : s \in Seq(S)
  PROVE  /\ \E S : longer \in Seq(S)
         /\ Len(s) \in Nat /\ Len(longer) = Len(s) + 1
         /\ longer[Len(s) + 1] = e
         /\ \A i \in 1..Len(s) : longer[i] = s[i]
<1> PICK S : s \in Seq(S)
  OBVIOUS
<1> DEFINE T == S \cup {e}
<1>1. s \in Seq(T)
  BY SeqMonotonic
<1>2. e \in T
  OBVIOUS
<1> HIDE DEF T
<1> QED BY <1>1, <1>2, AppendProperties, LenProperties

\* The canister starts with one version and no challenge (fresh_state).
LEMMA InitIInv == Init => IInv
<1> SUFFICES ASSUME Init PROVE IInv
  OBVIOUS
<1>1. /\ now = 0 /\ next_challenge_id = 0 /\ accepted = <<>>
      /\ DOMAIN challenges = {} /\ DOMAIN issued = {} /\ DOMAIN issued_at = {}
  BY DEF Init, Verifier!NoEntries
<1>2. accepted \in Seq({}) /\ Len(accepted) = 0
  BY <1>1, EmptySeq
<1>3. /\ versions \in Seq({Version}) /\ Len(versions) = 1
      /\ versions[1] = Version
  BY DEF Init
<1>4. Version.since = now
  BY DEF Version
<1>5. Shapes
  BY <1>1, <1>2, <1>3, <1>4 DEF Shapes
<1> QED BY <1>1, <1>2, <1>3, <1>5 DEF IInv, SomeVersion, IssuedInVersion, PendingDeadline,
        SupersededInTime, AcceptedInTime

\* A submission (submit_record_impl) starts a version now, when every deadline
\* is at most ChallengeTTL away.
LEMMA SubmitIInv ==
  ASSUME IInv, NEW p, NEW record, SubmitRecord(p, record)
  PROVE  IInv'
<1>1. /\ UNCHANGED <<now, next_challenge_id, challenges, issued, issued_at, accepted>>
      /\ versions' = Append(versions, Version') /\ Version'.since = now
  BY DEF SubmitRecord, verifierVars, Version
<1> DEFINE v == Version'
<1>2. /\ \E S : versions' \in Seq(S)
      /\ Len(versions) \in Nat /\ Len(versions') = Len(versions) + 1
      /\ versions'[Len(versions) + 1] = v
      /\ \A i \in 1..Len(versions) : versions'[i] = versions[i]
  <2> HIDE DEF v
  <2>1. versions' = Append(versions, v) /\ \E S : versions \in Seq(S)
    BY <1>1 DEF IInv, Shapes, v
  <2> QED BY <2>1, Appended
<1>3. v.since = now
  BY <1>1
<1> HIDE DEF v
<1>4. Shapes' /\ SomeVersion'
  BY <1>1, <1>2, <1>3 DEF IInv, Shapes, SomeVersion
<1>5. IssuedInVersion'
  BY <1>1, <1>2 DEF IInv, IssuedInVersion
<1>6. SupersededInTime'
  <2> SUFFICES ASSUME NEW id \in DOMAIN issued, issued_at[id] + 1 <= Len(versions')
               PROVE  issued[id].expires_at <= versions'[issued_at[id] + 1].since + ChallengeTTL
    BY <1>1 DEF SupersededInTime
  <2>1. CASE issued_at[id] + 1 <= Len(versions)
    BY <1>2, <2>1 DEF IInv, SupersededInTime, IssuedInVersion
  <2>2. CASE issued_at[id] = Len(versions)
    BY <1>2, <1>3, <2>2 DEF IInv, IssuedInVersion
  <2> QED BY <1>2, <2>1, <2>2 DEF IInv, IssuedInVersion
<1> QED BY <1>1, <1>4, <1>5, <1>6 DEF IInv, PendingDeadline, AcceptedInTime

\* A new challenge (request_challenge_impl) is issued in the latest version,
\* which nothing has superseded yet.
LEMMA RequestIInv ==
  ASSUME IInv, NEW caller, NEW purpose, RequestChallenge(caller, purpose)
  PROVE  IInv'
<1> DEFINE id == next_challenge_id
           new == Verifier!NewChallenge(caller, purpose)
<1>1. /\ UNCHANGED <<now, versions, accepted>> /\ id' = id + 1
      /\ challenges' = Verifier!Inserted(challenges, id, new)
      /\ issued' = Verifier!Inserted(issued, id, new)
      /\ issued_at' = Verifier!Inserted(issued_at, id, Len(versions))
  BY DEF RequestChallenge, registryVars, treeVars, Verifier!RequestChallenge
<1>2. new.expires_at = now + ChallengeTTL /\ "expires_at" \in DOMAIN new
  BY DEF Verifier!NewChallenge
<1> HIDE DEF new
<1>3. id \in Nat /\ id \notin DOMAIN issued /\ id \notin DOMAIN challenges
      /\ now \in Nat /\ ChallengeTTL \in Nat
  BY Parts DEF IInv, Shapes, IssuedInVersion, PendingDeadline
<1>4. /\ DOMAIN challenges' = DOMAIN challenges \cup {id} /\ challenges'[id] = new
      /\ \A x \in DOMAIN challenges : challenges'[x] = challenges[x]
  BY <1>1, <1>3 DEF Verifier!Inserted
<1>5. /\ DOMAIN issued' = DOMAIN issued \cup {id} /\ issued'[id] = new
      /\ \A x \in DOMAIN issued : issued'[x] = issued[x]
  BY <1>1, <1>3 DEF Verifier!Inserted
<1>6. /\ DOMAIN issued_at' = DOMAIN issued_at \cup {id} /\ issued_at'[id] = Len(versions)
      /\ \A x \in DOMAIN issued : issued_at'[x] = issued_at[x]
  BY <1>1, <1>3 DEF Verifier!Inserted, IInv, IssuedInVersion
<1>7. Len(versions) \in Nat \ {0}
  BY DEF IInv, Shapes, SomeVersion
<1>8. Shapes' /\ SomeVersion'
  BY <1>1, <1>3 DEF IInv, Shapes, SomeVersion
<1>9. IssuedInVersion'
  BY <1>1, <1>2, <1>3, <1>5, <1>6, <1>7 DEF IInv, IssuedInVersion
<1>10. PendingDeadline'
  BY <1>2, <1>4, <1>5 DEF IInv, PendingDeadline
<1>11. SupersededInTime'
  BY <1>1, <1>3, <1>5, <1>6, <1>7 DEF IInv, SupersededInTime
<1>12. AcceptedInTime'
  BY <1>1, <1>5 DEF IInv, AcceptedInTime
<1> QED BY <1>8, <1>9, <1>10, <1>11, <1>12 DEF IInv

\* An accepted answer (verify) came before the deadline; a refused one leaves
\* no trace here.
LEMMA AnswerIInv ==
  ASSUME IInv, NEW owner, NEW id, NEW p, NEW version, NEW intact,
         Answer(owner, id, p, version, intact)
  PROVE  IInv'
<1> DEFINE inputs == DeviceInputs(owner, p, version, issued[id])
           a == [id |-> id, caller |-> owner, at |-> now,
                 statement |-> Verifier!Statement(inputs)]
<1>1. /\ UNCHANGED <<now, versions, issued, issued_at, next_challenge_id>>
      /\ Verifier!Verify(owner, id, inputs, intact)
  BY DEF Answer, registryVars, treeVars, Verifier!Verify
<1>2. CASE ~(Verifier!Precheck(owner, id, inputs) /\ intact)
  <2>1. UNCHANGED <<challenges, accepted>>
    BY <1>1, <1>2 DEF Verifier!Verify
  <2> QED BY <1>1, <2>1 DEF IInv, Shapes, SomeVersion, IssuedInVersion, PendingDeadline,
             SupersededInTime, AcceptedInTime
<1>3. CASE Verifier!Precheck(owner, id, inputs) /\ intact
  <2>1. /\ challenges' = [challenges EXCEPT ![id].consumed = TRUE]
        /\ accepted' = Append(accepted, a)
    BY <1>1, <1>3 DEF Verifier!Verify, Verifier!Commit
  <2>2. id \in DOMAIN challenges /\ now <= challenges[id].expires_at
    BY <1>3 DEF Verifier!Precheck
  <2>3. a.id = id /\ a.at = now
    OBVIOUS
  <2> HIDE DEF a
  <2>4. /\ \E S : accepted' \in Seq(S)
        /\ Len(accepted) \in Nat /\ Len(accepted') = Len(accepted) + 1
        /\ accepted'[Len(accepted) + 1] = a
        /\ \A i \in 1..Len(accepted) : accepted'[i] = accepted[i]
    <3>1. accepted' = Append(accepted, a) /\ \E S : accepted \in Seq(S)
      BY <2>1 DEF IInv, Shapes
    <3> QED BY <3>1, Appended
  <2>5. Shapes' /\ SomeVersion' /\ IssuedInVersion' /\ SupersededInTime'
    BY <1>1, <2>4 DEF IInv, Shapes, SomeVersion, IssuedInVersion, SupersededInTime
  <2>6. PendingDeadline'
    <3> SUFFICES ASSUME NEW x \in DOMAIN challenges
                 PROVE  /\ x \in DOMAIN issued
                        /\ "expires_at" \in DOMAIN challenges'[x]
                        /\ challenges'[x].expires_at = issued[x].expires_at
      BY <1>1, <2>1 DEF PendingDeadline
    <3>1. x \in DOMAIN issued /\ "expires_at" \in DOMAIN challenges[x]
          /\ challenges[x].expires_at = issued[x].expires_at
      BY DEF IInv, PendingDeadline
    <3>2. CASE x = id
      <4>1. challenges'[x] = [challenges[x] EXCEPT !.consumed = TRUE]
        BY <2>1, <3>2
      <4> QED BY <3>1, <4>1
    <3>3. CASE x # id
      <4>1. challenges'[x] = challenges[x]
        BY <2>1, <3>3
      <4> QED BY <3>1, <4>1
    <3> QED BY <3>2, <3>3
  <2>7. AcceptedInTime'
    <3>1. id \in DOMAIN issued /\ now <= issued[id].expires_at /\ now \in Nat
      BY <2>2 DEF IInv, PendingDeadline, Shapes
    <3>2. \A i \in 1..Len(accepted') : i \in 1..Len(accepted) \/ i = Len(accepted) + 1
      BY <2>4
    <3> QED BY <1>1, <2>3, <2>4, <3>1, <3>2 DEF IInv, AcceptedInTime
  <2> QED BY <2>5, <2>6, <2>7 DEF IInv
<1> QED BY <1>2, <1>3

\* The heartbeat only drops challenges, an upgrade and an admin call touch
\* none, and time only moves on.
LEMMA OtherIInv ==
  ASSUME IInv, Heartbeat \/ Upgrade \/ Bootstrap \/ Tick \/ UNCHANGED vars
  PROVE  IInv'
<1>1. UNCHANGED <<versions, issued, issued_at, accepted, next_challenge_id>>
  BY DEF Heartbeat, Upgrade, Bootstrap, Tick, vars, registryVars, treeVars, verifierVars,
     Verifier!Heartbeat, Verifier!Restored, Verifier!Tick, Verifier!history,
     Verifier!challengeVars
<1>2. now' = now \/ now' = now + 1
  BY DEF Heartbeat, Upgrade, Bootstrap, Tick, vars, verifierVars,
     Verifier!Heartbeat, Verifier!Restored, Verifier!Tick
<1>3. /\ DOMAIN challenges' \subseteq DOMAIN challenges
      /\ \A x \in DOMAIN challenges' : challenges'[x] = challenges[x]
  <2>1. CASE Heartbeat
    <3>1. \E n \in oldest_unpruned_challenge_id .. next_challenge_id :
            challenges' = [x \in DOMAIN challenges \ (oldest_unpruned_challenge_id .. n - 1)
                             |-> challenges[x]]
      BY <2>1 DEF Heartbeat, Verifier!Heartbeat, Verifier!PruneChallenges
    <3> QED BY <3>1
  <2>2. CASE Upgrade \/ Bootstrap \/ Tick \/ UNCHANGED vars
    BY <2>2 DEF Upgrade, Bootstrap, Tick, vars, verifierVars, Verifier!Restored,
       Verifier!Tick, Verifier!challengeVars
  <2> QED BY <2>1, <2>2
<1>4. Shapes' /\ SomeVersion' /\ SupersededInTime' /\ AcceptedInTime'
  BY <1>1, <1>2 DEF IInv, Shapes, SomeVersion, SupersededInTime, AcceptedInTime
<1>5. IssuedInVersion'
  BY <1>1, <1>2, Parts DEF IInv, Shapes, IssuedInVersion
<1>6. PendingDeadline'
  BY <1>1, <1>3 DEF IInv, PendingDeadline
<1> QED BY <1>4, <1>5, <1>6 DEF IInv

\* The invariant holds in every state of the system.
THEOREM Invariance == Spec => []IInv
<1>1. IInv /\ [Next]_vars => IInv'
  BY SubmitIInv, RequestIInv, AnswerIInv, OtherIInv DEF Next
<1> QED BY InitIInv, <1>1, PTL DEF Spec

-----------------------------------------------------------------------------
(* The numbers of the roots *)

NumberIn(vs, root) ==
  LET at == {i \in 1..Len(vs) : vs[i].root = root}
  IN  IF at = {} THEN Modulus - 1 ELSE (CHOOSE i \in at : \A j \in at : i <= j) - 1

\* The number of a root that some version has is below the number of versions,
\* and the version it leads to has that root.
LEMMA Numbers ==
  ASSUME NEW vs, Len(vs) \in Nat, Len(vs) <= MaxVersions
  PROVE  /\ \A root : NumberIn(vs, root) \in FieldElements
         /\ \A root : \A j \in 1..Len(vs) :
              NumberIn(vs, root) = NumberIn(vs, vs[j].root) => root = vs[j].root
<1> DEFINE At(root) == {i \in 1..Len(vs) : vs[i].root = root}
           Least(root) == CHOOSE i \in At(root) : \A j \in At(root) : i <= j
<1>1. ASSUME NEW root, At(root) # {}
      PROVE  Least(root) \in At(root)
  <2> DEFINE T == At(root)
  <2>1. T \in SUBSET Nat /\ T # {}
    BY <1>1
  <2> HIDE DEF T
  <2>2. PICK m \in T : \A k \in T : ~(k < m)
    BY <2>1, RP!HalfRec!Least, Parts
  <2>3. \A k \in T : m <= k
    BY <2>1, <2>2
  <2> QED BY <2>3 DEF T
<1>2. \A root : NumberIn(vs, root) = IF At(root) = {} THEN Modulus - 1 ELSE Least(root) - 1
  BY DEF NumberIn
<1>3. \A root : At(root) \subseteq 1..Len(vs) /\ \A i \in At(root) : vs[i].root = root
  OBVIOUS
<1>4. \A j \in 1..Len(vs) : At(vs[j].root) # {}
  OBVIOUS
<1> HIDE DEF At, Least
<1>5. MaxVersions < Modulus /\ MaxVersions \in Nat /\ Modulus \in Nat
  BY SystemAssumption, FieldAssumption
<1>6. ASSUME NEW root PROVE NumberIn(vs, root) \in FieldElements
  BY <1>1, <1>2, <1>3, <1>5 DEF FieldElements
<1>7. ASSUME NEW root, NEW j \in 1..Len(vs), NumberIn(vs, root) = NumberIn(vs, vs[j].root)
      PROVE  root = vs[j].root
  <2>1. Least(vs[j].root) \in 1..Len(vs) /\ vs[Least(vs[j].root)].root = vs[j].root
        /\ NumberIn(vs, vs[j].root) = Least(vs[j].root) - 1
    BY <1>1, <1>2, <1>3, <1>4
  <2>2. At(root) # {}
    BY <1>2, <1>5, <1>7, <2>1
  <2>3. Least(root) \in 1..Len(vs) /\ vs[Least(root)].root = root
        /\ NumberIn(vs, root) = Least(root) - 1
    BY <1>1, <1>2, <1>3, <2>2
  <2> QED BY <1>7, <2>1, <2>3
<1> QED BY <1>6, <1>7

\* A number, once given, stays.
LEMMA NumbersStay ==
  ASSUME NEW vs, NEW ws, Len(vs) \in Nat, Len(ws) = Len(vs) + 1,
         \A i \in 1..Len(vs) : ws[i] = vs[i]
  PROVE  \A j \in 1..Len(vs) : NumberIn(ws, vs[j].root) = NumberIn(vs, vs[j].root)
<1> SUFFICES ASSUME NEW j \in 1..Len(vs)
             PROVE  NumberIn(ws, vs[j].root) = NumberIn(vs, vs[j].root)
  OBVIOUS
<1> DEFINE A == {i \in 1..Len(vs) : vs[i].root = vs[j].root}
           B == {i \in 1..Len(ws) : ws[i].root = vs[j].root}
           a == CHOOSE i \in A : \A k \in A : i <= k
           b == CHOOSE i \in B : \A k \in B : i <= k
<1>1. A \in SUBSET Nat /\ A # {} /\ j \in A /\ j \in B /\ A \subseteq B
      /\ A \subseteq 1..Len(vs) /\ \A k \in B : k \in A \/ k = Len(vs) + 1
  OBVIOUS
<1>2. NumberIn(vs, vs[j].root) = a - 1 /\ NumberIn(ws, vs[j].root) = b - 1
  BY <1>1 DEF NumberIn
<1> HIDE DEF A, B
<1>3. PICK m \in A : \A k \in A : ~(k < m)
  BY <1>1, RP!HalfRec!Least, Parts
<1>4. m \in A /\ m \in B /\ m \in Nat /\ m \in 1..Len(vs)
  BY <1>1
<1>5. \A k \in A : k \in Nat /\ m <= k
  <2>1. \A k, n \in Nat : ~(k < n) => n <= k
    OBVIOUS
  <2> QED BY <1>1, <1>3, <1>4, <2>1
<1>6. \A k \in B : k \in Nat /\ m <= k
  <2>1. Len(vs) + 1 \in Nat /\ m <= Len(vs) + 1
    BY <1>4
  <2> QED BY <1>1, <1>5, <2>1
<1>7. /\ a \in A /\ a \in Nat /\ \A k \in A : a <= k
      /\ b \in B /\ b \in Nat /\ \A k \in B : b <= k
  <2>1. a \in A /\ \A k \in A : a <= k
    BY <1>4, <1>5
  <2>2. b \in B /\ \A k \in B : b <= k
    BY <1>4, <1>6
  <2> QED BY <1>5, <1>6, <2>1, <2>2
<1> HIDE DEF a, b
<1>8. a = m /\ b = m
  BY <1>4, <1>5, <1>6, <1>7
<1> QED BY <1>2, <1>8

-----------------------------------------------------------------------------
(* The verifier's steps *)

\* What the parts keep, and what the model's bounds keep small enough.
WithinBounds ==
  /\ Len(versions) <= MaxVersions
  /\ next_challenge_id <= MaxChallenges
  /\ \A id \in DOMAIN issued :
       /\ issued[id].registry_id = 1
       /\ issued[id].request_nonce \in 0 .. MaxChallenges - 1

\* The records of every version are records, of properties that still have
\* one.
VersionsTyped ==
  \A j \in 1..Len(versions) :
    /\ DOMAIN versions[j].records \subseteq DOMAIN records
    /\ \A p \in DOMAIN versions[j].records : versions[j].records[p] \in RP!Records

\* The inductive invariant of the verifier's part, next to IInv and RP!IInv.
PInv == VP!RInv /\ VP!Answerable /\ WithinBounds /\ VersionsTyped

\* The registry's roots have numbers that are field elements.
LEMMA RootInField ==
  ASSUME IInv, WithinBounds
  PROVE  \A root : RootNumber(root) \in FieldElements
<1>1. Len(versions) \in Nat /\ Len(versions) <= MaxVersions
  BY DEF IInv, SomeVersion, WithinBounds
<1>2. \A root : RootNumber(root) = NumberIn(versions, root)
  BY DEF RootNumber, NumberIn
<1> QED BY <1>1, <1>2, Numbers

\* A canonical string spells its field element.
LEMMA Canonical ==
  ASSUME NEW v \in FieldElements
  PROVE  /\ Parses(fe_to_string(v)) /\ parse_fe(fe_to_string(v)) = v
         /\ fe_to_string(v) \in Commitments
BY FieldAssumption DEF Parses, parse_fe, fe_to_string, FieldElements, Commitments

\* A device's answer is one anybody might give (verify).
LEMMA AnswerSubmitted ==
  ASSUME IInv, PInv, RP!IInv, NEW owner \in Principals, NEW id \in DOMAIN issued,
         NEW j \in 1..Len(versions), NEW p \in DOMAIN versions[j].records
  PROVE  /\ DeviceInputs(owner, p, versions[j], issued[id]) \in VP!Submissions
         /\ id \in 0..next_challenge_id
         /\ <<owner, p, issued[id].purpose, issued[id].request_nonce>> \in DOMAIN Nullifier
         /\ Nullifier[<<owner, p, issued[id].purpose, issued[id].request_nonce>>] \in FieldElements
         /\ p \in PropertyIds
<1> DEFINE c == issued[id]
           root == Registry!RecomputedRoot(
                     ExpectedLeaf(owner, p, versions[j].records[p].terms.expiry),
                     versions[j].proofs[p])
           n == Nullifier[<<owner, p, c.purpose, c.request_nonce>>]
<1>1. c.purpose \in Purposes /\ id \in Nat /\ c.current_timestamp \in Nat
  BY DEF PInv, VP!RInv, VP!IInv, VP!TypeOK, VP!IsMap, VP!Challenge
<1>2. c.registry_id = 1 /\ c.request_nonce \in 0 .. MaxChallenges - 1
  BY DEF PInv, WithinBounds
<1>3. p \in PropertyIds
  BY DEF PInv, VersionsTyped, RP!IInv, RP!IndexMaps
<1>4. /\ <<owner, p, c.purpose, c.request_nonce>> \in DOMAIN Nullifier
      /\ n \in FieldElements
  BY <1>1, <1>2, <1>3, SystemAssumption
<1>5. RootNumber(root) \in FieldElements
  BY RootInField DEF PInv
<1>6. id \in 0..next_challenge_id
  BY <1>1 DEF IInv, IssuedInVersion, Shapes
<1>7. [nonce |-> c.request_nonce, at |-> c.current_timestamp] \in VP!Known
  BY DEF VP!Known
<1>8. DeviceInputs(owner, p, versions[j], c)
        = [registry_id       |-> c.registry_id,
           merkle_root       |-> fe_to_string(RootNumber(root)),
           purpose           |-> c.purpose,
           request_nonce     |-> c.request_nonce,
           current_timestamp |-> c.current_timestamp,
           nullifier         |-> fe_to_string(n)]
  BY DEF DeviceInputs
<1> HIDE DEF n, root
<1>9. fe_to_string(RootNumber(root)) \in Commitments /\ fe_to_string(n) \in Commitments
  BY <1>4, <1>5, Canonical
<1> DEFINE k == [nonce |-> c.request_nonce, at |-> c.current_timestamp]
<1>10. k.nonce = c.request_nonce /\ k.at = c.current_timestamp /\ k \in VP!Known
  BY <1>7
<1> HIDE DEF k, c
<1>11. DeviceInputs(owner, p, versions[j], c) \in VP!Submissions
  BY <1>1, <1>2, <1>8, <1>9, <1>10 DEF VP!Submissions
<1> QED BY <1>3, <1>4, <1>6, <1>11 DEF n, c

\* An upgrade rebuilds the throttle logs for VP as it does for the system.
LEMMA SameLogs ==
  ASSUME NEW calls
  PROVE  VP!RebuiltLogs(calls) = Verifier!RebuiltLogs(calls)
<1>1. \A S : VP!Cardinality(S) = Verifier!Cardinality(S)
  BY DEF VP!Cardinality, Verifier!Cardinality, VP!IsFiniteSet, Verifier!IsFiniteSet
<1> QED BY <1>1 DEF VP!RebuiltLogs, Verifier!RebuiltLogs, VP!Entries, Verifier!Entries,
        VP!Entry, Verifier!Entry

\* After a submission the root shown is a field element still.
LEMMA RootStaysInField ==
  ASSUME IInv', WithinBounds'
  PROVE  RootNumber(current_root)' \in FieldElements
<1> DEFINE vs == versions'
<1>1. Len(vs) \in Nat /\ Len(vs) <= MaxVersions
  BY DEF IInv, SomeVersion, WithinBounds
<1>2. RootNumber(current_root)' = NumberIn(vs, current_root')
  BY DEF RootNumber, NumberIn
<1> HIDE DEF vs
<1> QED BY <1>1, <1>2, Numbers

\* The system keeps to its bounds (the model's, not the canister's).
LEMMA BoundsKept ==
  ASSUME IInv, PInv, [Next]_vars
  PROVE  WithinBounds'
<1>0. /\ Len(versions) \in Nat /\ next_challenge_id \in Nat /\ next_nonce = next_challenge_id
      /\ MaxChallenges \in Nat /\ MaxVersions \in Nat
  BY Parts, SystemAssumption DEF IInv, SomeVersion, Shapes, PInv, VP!RInv, VP!Bounded
<1>1. ASSUME NEW p, NEW r, SubmitRecord(p, r) PROVE WithinBounds'
  <2>1. versions' = Append(versions, Version') /\ Len(versions) < MaxVersions
        /\ UNCHANGED <<next_challenge_id, issued>>
    BY <1>1 DEF SubmitRecord, verifierVars
  <2> DEFINE v == Version'
  <2> HIDE DEF v
  <2>2. Len(versions') = Len(versions) + 1
    BY <2>1, Appended DEF IInv, Shapes, v
  <2> QED BY <1>0, <2>1, <2>2 DEF PInv, WithinBounds
<1>2. ASSUME NEW caller, NEW purpose, RequestChallenge(caller, purpose) PROVE WithinBounds'
  <2> DEFINE new == Verifier!NewChallenge(caller, purpose)
  <2>1. /\ issued' = Verifier!Inserted(issued, next_challenge_id, new)
        /\ next_challenge_id < MaxChallenges /\ next_challenge_id' = next_challenge_id + 1
        /\ versions' = versions
    BY <1>2 DEF RequestChallenge, Verifier!RequestChallenge, registryVars, treeVars
  <2>2. new.registry_id = 1 /\ new.request_nonce = next_challenge_id
    BY <1>0 DEF Verifier!NewChallenge, Verifier!REGISTRY_ID
  <2> HIDE DEF new
  <2>3. \A x \in DOMAIN issued' : x \in DOMAIN issued \/ x = next_challenge_id
    BY <2>1 DEF Verifier!Inserted
  <2>4. \A x \in DOMAIN issued' :
          issued'[x] = IF x = next_challenge_id THEN new ELSE issued[x]
    BY <2>1 DEF Verifier!Inserted
  <2> QED BY <1>0, <2>1, <2>2, <2>3, <2>4 DEF PInv, WithinBounds
<1>3. CASE UNCHANGED <<versions, issued, next_challenge_id>>
  BY <1>3 DEF PInv, WithinBounds
<1>4. \/ UNCHANGED <<versions, issued, next_challenge_id>>
      \/ \E s \in Submitted : SubmitRecord(s.property, s.record)
      \/ \E owner \in Principals, purpose \in Purposes : RequestChallenge(owner, purpose)
  BY DEF Next, vars, registryVars, treeVars, verifierVars, Bootstrap, Upgrade, Answer,
     Heartbeat, Tick, Verifier!Restored, Verifier!Verify, Verifier!Heartbeat, Verifier!Tick,
     Verifier!history, Verifier!challengeVars
<1> QED BY <1>1, <1>2, <1>3, <1>4

\* The system's steps are the verifier's: to it, a submission shows another
\* root, and an upgrade restores the root with everything else.
LEMMA VerifierStep ==
  ASSUME IInv, PInv, RP!IInv, IInv', WithinBounds', [Next]_vars
  PROVE  [VP!Next]_(VP!vars) \/ VP!Restoration
<1>1. CASE \E s \in Submitted : SubmitRecord(s.property, s.record)
  <2>1. UNCHANGED verifierVars
    BY <1>1 DEF SubmitRecord
  <2>2. VP!SubmitRecord
    BY <2>1, RootStaysInField
       DEF VP!SubmitRecord, verifierVars, VP!challengeVars, VP!throttleVars, VP!history,
           FieldElements, VP!FieldElements
  <2> QED BY <2>2 DEF VP!Next
<1>2. CASE Upgrade
  <2>1. VP!Restored
    BY <1>2, SameLogs DEF Upgrade, Verifier!Restored, VP!Restored, Verifier!challengeVars,
       VP!challengeVars, Verifier!history, VP!history
  <2>2. RootNumber(current_root)' \in FieldElements
    BY RootStaysInField
  <2> QED BY <2>1, <2>2 DEF VP!Restoration, FieldElements, VP!FieldElements
<1>3. CASE \E owner \in Principals, purpose \in Purposes : RequestChallenge(owner, purpose)
  <2>1. PICK owner \in Principals, purpose \in Purposes : RequestChallenge(owner, purpose)
    BY <1>3
  <2>2. VP!RequestChallenge(owner, purpose)
    BY <2>1 DEF RequestChallenge, Verifier!RequestChallenge, VP!RequestChallenge,
       Verifier!Admits, VP!Admits, Verifier!Recorded, VP!Recorded, Verifier!Logged, VP!Logged,
       Verifier!Entry, VP!Entry, Verifier!Inserted, VP!Inserted, Verifier!NewChallenge,
       VP!NewChallenge, Verifier!REGISTRY_ID, VP!REGISTRY_ID
  <2>3. owner \in VP!Callers
    BY <2>1 DEF VP!Callers
  <2> QED BY <2>1, <2>2, <2>3 DEF VP!Next
<1>4. CASE \E owner \in Principals, id \in DOMAIN issued, i \in 1..Len(versions),
              intact \in BOOLEAN :
             \E p \in DOMAIN versions[i].records : Answer(owner, id, p, versions[i], intact)
  <2>1. PICK owner \in Principals, id \in DOMAIN issued, i \in 1..Len(versions),
             intact \in BOOLEAN :
               \E p \in DOMAIN versions[i].records : Answer(owner, id, p, versions[i], intact)
    BY <1>4
  <2>2. PICK p \in DOMAIN versions[i].records : Answer(owner, id, p, versions[i], intact)
    BY <2>1
  <2> DEFINE inputs == DeviceInputs(owner, p, versions[i], issued[id])
  <2>3. inputs \in VP!Submissions /\ id \in 0..next_challenge_id
    BY AnswerSubmitted
  <2>4. Verifier!Verify(owner, id, inputs, intact)
    BY <2>2 DEF Answer
  <2>5. VP!Verify(owner, id, inputs, intact)
    <3> HIDE DEF inputs
    <3> QED BY <2>4 DEF Verifier!Verify, VP!Verify, Verifier!Admits, VP!Admits,
         Verifier!Recorded, VP!Recorded, Verifier!Logged, VP!Logged, Verifier!Entry,
         VP!Entry, Verifier!Precheck,
         VP!Precheck, Verifier!Commit, VP!Commit, Verifier!Matches, VP!Matches,
         Verifier!Statement, VP!Statement, Verifier!Parses, VP!Parses, Verifier!parse_fe,
         VP!parse_fe, Verifier!canonical_nullifier, VP!canonical_nullifier,
         Verifier!fe_to_string, VP!fe_to_string
  <2>6. owner \in VP!Callers
    BY DEF VP!Callers
  <2> HIDE DEF inputs
  <2> QED BY <2>1, <2>3, <2>5, <2>6 DEF VP!Next
<1>5. CASE Heartbeat
  <2>1. VP!Heartbeat
    BY <1>5 DEF Heartbeat, Verifier!Heartbeat, VP!Heartbeat, Verifier!PruneChallenges,
       VP!PruneChallenges, Verifier!PruneThrottles, VP!PruneThrottles, Verifier!ScanEnd,
       VP!ScanEnd, Verifier!Prunable, VP!Prunable, Verifier!PruneCut, VP!PruneCut,
       Verifier!Stale, VP!Stale, Verifier!Kept, VP!Kept, Verifier!Entry, VP!Entry,
       Verifier!PrunedStore, VP!PrunedStore, Verifier!PrunedLog, VP!PrunedLog,
       Verifier!history, VP!history
  <2> QED BY <2>1 DEF VP!Next
<1>6. CASE Tick
  <2>1. VP!Tick
    BY <1>6 DEF Tick, Verifier!Tick, VP!Tick, Verifier!challengeVars, VP!challengeVars,
       Verifier!throttleVars, VP!throttleVars, Verifier!history, VP!history,
       registryVars, treeVars
  <2> QED BY <2>1 DEF VP!Next
<1>7. CASE Bootstrap \/ UNCHANGED vars
  <2>1. UNCHANGED <<verifierVars, versions, current_root>>
    BY <1>7 DEF Bootstrap, treeVars, vars, registryVars
  <2> QED BY <2>1 DEF verifierVars, VP!vars, VP!challengeVars, VP!throttleVars, VP!history,
      RootNumber
<1> QED BY <1>1, <1>2, <1>3, <1>4, <1>5, <1>6, <1>7 DEF Next

\* The records of a new version are records.
LEMMA VersionsStayTyped ==
  ASSUME IInv, VersionsTyped, RP!IInv, RP!IInv', [Next]_vars
  PROVE  VersionsTyped'
<1>1. \A p \in DOMAIN records' : records'[p] \in RP!Records
  BY DEF RP!IInv, RP!IndexMaps
<1>2. DOMAIN records \subseteq DOMAIN records'
      /\ (versions' = versions \/ versions' = Append(versions, Version'))
  <2>1. CASE \E s \in Submitted : SubmitRecord(s.property, s.record)
    <3>1. PICK s \in Submitted : SubmitRecord(s.property, s.record)
      BY <2>1
    <3> QED BY <3>1 DEF SubmitRecord, Registry!SubmitRecord, Registry!RefusedRecord,
            Registry!registryVars, Registry!With
  <2>2. CASE UNCHANGED <<records, versions>>
    BY <2>2
  <2>3. \/ UNCHANGED <<records, versions>>
        \/ \E s \in Submitted : SubmitRecord(s.property, s.record)
    BY DEF Next, Bootstrap, Upgrade, Registry!Upgrade, RequestChallenge, Answer, Heartbeat,
       Tick, vars, registryVars, treeVars
  <2> QED BY <2>1, <2>2, <2>3
<1>3. CASE versions' = versions
  BY <1>2, <1>3 DEF VersionsTyped
<1>4. CASE versions' = Append(versions, Version')
  <2> DEFINE v == Version'
  <2>1. v.records = records'
    BY DEF Version
  <2> HIDE DEF v
  <2>2. /\ Len(versions) \in Nat /\ Len(versions') = Len(versions) + 1
        /\ versions'[Len(versions) + 1] = v
        /\ \A i \in 1..Len(versions) : versions'[i] = versions[i]
    BY <1>4, Appended DEF IInv, Shapes, v
  <2>3. \A i \in 1..Len(versions') : i \in 1..Len(versions) \/ i = Len(versions) + 1
    BY <2>2
  <2> QED BY <1>1, <1>2, <2>1, <2>2, <2>3 DEF VersionsTyped
<1> QED BY <1>2, <1>3, <1>4

\* Initially the verifier's part starts where the verifier does (fresh_state).
LEMMA VerifierInit == Init => VP!Init
<1> SUFFICES ASSUME Init PROVE VP!Init
  OBVIOUS
<1>1. versions = <<Version>> /\ Version.root = current_root
  BY DEF Init, Version
<1>2. RootNumber(current_root) = 0
  <2> DEFINE v == Version
             at == {i \in 1..Len(versions) : versions[i].root = current_root}
  <2>1. v.root = current_root /\ versions = <<v>>
    BY <1>1
  <2> HIDE DEF v
  <2>2. Len(versions) = 1 /\ versions[1] = v
    BY <2>1
  <2>3. at = {1}
    BY <2>1, <2>2
  <2>4. RootNumber(current_root) = IF at = {} THEN Modulus - 1
                                   ELSE (CHOOSE i \in at : \A j \in at : i <= j) - 1
    BY DEF RootNumber
  <2> HIDE DEF at
  <2> QED BY <2>3, <2>4
<1> QED BY <1>2 DEF Init, VP!Init, Verifier!NoEntries, VP!NoEntries

\* PInv holds of the canister as it is installed.
LEMMA InitPInv == Init => PInv
<1> SUFFICES ASSUME Init PROVE PInv
  OBVIOUS
<1>1. VP!RInv /\ VP!Answerable
  BY VerifierInit, VP!InitRInv, VP!InitAnswerable, Parts
<1>2. /\ Len(versions) = 1 /\ versions[1] = Version /\ next_challenge_id = 0
      /\ DOMAIN issued = {} /\ DOMAIN records = {}
  BY DEF Init, Verifier!NoEntries, Registry!Init, Registry!RegistryInit
<1>3. DOMAIN Version.records = {}
  BY <1>2 DEF Version
<1>4. WithinBounds /\ VersionsTyped
  BY <1>2, <1>3, Parts, SystemAssumption DEF WithinBounds, VersionsTyped
<1> QED BY <1>1, <1>4 DEF PInv

\* What the verifier's proofs need of its steps holds of the system's.
THEOREM PartsInvariance == Spec => []PInv
<1>1. IInv /\ IInv' /\ RP!IInv /\ RP!IInv' /\ PInv /\ [Next]_vars => PInv'
  <2> SUFFICES ASSUME IInv, IInv', RP!IInv, RP!IInv', PInv, [Next]_vars PROVE PInv'
    OBVIOUS
  <2>1. WithinBounds' /\ VersionsTyped'
    BY BoundsKept, VersionsStayTyped DEF PInv
  <2>2. [VP!Next]_(VP!vars) \/ VP!Restoration
    BY <2>1, VerifierStep
  <2>3. VP!RInv' /\ VP!Answerable'
    <3>1. VP!RInv'
      BY <2>2, VP!NextRInv, Parts DEF PInv
    <3>2. VP!Answerable'
      BY <2>2, VP!NextAnswerable, Parts DEF PInv, VP!RInv
    <3> QED BY <3>1, <3>2
  <2> QED BY <2>1, <2>3 DEF PInv
<1> QED BY <1>1, InitPInv, Invariance, RegistryHolds, PTL DEF Spec

-----------------------------------------------------------------------------
(* The versions' trees *)

\* t is the tree of version v, its leaves at these indices: it has the
\* version's root on top, and the Merkle proofs of the version are taken from
\* it.
IsTree(t, v, index) ==
  /\ RP!HashTree(t)
  /\ t[TREE_DEPTH][0] = v.root
  /\ \A p \in DOMAIN v.records, i \in Nat :
       index[p] = i =>
         /\ t[0][i] = RP!leaf_hash(v.records[p])
         /\ RP!SidesOf(v.proofs[p], i) /\ RP!SiblingsIn(v.proofs[p], t, i)
  /\ \A i \in Nat : (\A p \in DOMAIN v.records : index[p] # i) => t[0][i] = RP!ZERO

\* Every version there was has its tree, the last one the root shown now, and
\* every challenge the number of the root of the version it was issued in.
VersionTrees ==
  /\ \A j \in 1..Len(versions) : \E t : IsTree(t, versions[j], leaf_index_by_property)
  /\ versions[Len(versions)].root = current_root
  /\ \A id \in DOMAIN issued :
       issued[id].merkle_root = RootNumber(versions[issued_at[id]].root)

\* The registry, as it is, has a tree (get_merkle_proof_impl).
LEMMA CurrentTree ==
  RP!IInv /\ RP!TreeInv /\ RP!Fits => \E t : IsTree(t, Version, leaf_index_by_property)
<1> SUFFICES ASSUME RP!IInv, RP!TreeInv, RP!Fits
             PROVE  \E t : IsTree(t, Version, leaf_index_by_property)
  OBVIOUS
<1>1. \A p \in DOMAIN records : Registry!MerkleProof(p) = RP!MerkleProof(p)
  BY DEF Registry!MerkleProof, RP!MerkleProof, Registry!node_at, RP!node_at,
     Registry!Ancestor, RP!Ancestor, Registry!Sibling, RP!Sibling, Registry!zero_hashes,
     RP!zero_hashes, Registry!ZERO, RP!ZERO, Registry!HashNode, RP!HashNode
<1>2. /\ Version.records = records /\ Version.root = current_root
      /\ \A p \in DOMAIN records : Version.proofs[p] = RP!MerkleProof(p)
  BY <1>1 DEF Version
<1> DEFINE v == Version
           t == RP!NodeTree
<1>3. /\ RP!HashTree(t)
      /\ \A p \in DOMAIN records, i \in Nat :
           leaf_index_by_property[p] = i =>
             /\ t[0][i] = RP!leaf_hash(records[p])
             /\ RP!SidesOf(RP!MerkleProof(p), i) /\ RP!SiblingsIn(RP!MerkleProof(p), t, i)
      /\ \A i \in Nat : (\A p \in DOMAIN records : leaf_index_by_property[p] # i)
                          => t[0][i] = RP!ZERO
      /\ t[TREE_DEPTH][0] = current_root
  BY RP!NodeTreeIsTree, Parts
<1>4. /\ v.records = records /\ v.root = current_root
      /\ \A p \in DOMAIN records : v.proofs[p] = RP!MerkleProof(p)
  BY <1>2
<1> HIDE DEF v, t
<1>5. IsTree(t, v, leaf_index_by_property)
  BY <1>3, <1>4 DEF IsTree
<1> QED BY <1>5 DEF v

\* A version's tree stays its tree: leaf indices do not change
\* (submit_record_impl).
LEMMA TreeKept ==
  ASSUME NEW t, NEW v, NEW index, NEW later, IsTree(t, v, index),
         \A p \in DOMAIN v.records : later[p] = index[p]
  PROVE  IsTree(t, v, later)
BY DEF IsTree

\* The empty registry has its tree, and no challenge is issued.
LEMMA InitVersionTrees ==
  Init /\ RP!IInv /\ RP!TreeInv /\ RP!Fits => VersionTrees
<1> SUFFICES ASSUME Init, RP!IInv, RP!TreeInv, RP!Fits PROVE VersionTrees
  OBVIOUS
<1>1. Len(versions) = 1 /\ versions[1] = Version /\ DOMAIN issued = {}
  BY DEF Init, Verifier!NoEntries
<1>2. \E t : IsTree(t, Version, leaf_index_by_property)
  BY CurrentTree
<1>3. Version.root = current_root
  BY DEF Version
<1> QED BY <1>1, <1>2, <1>3 DEF VersionTrees

\* A submission adds its version's tree to those there are.
LEMMA SubmitVersionTrees ==
  ASSUME IInv, IInv', VersionsTyped, WithinBounds', RP!IInv, VersionTrees,
         NEW p, NEW record, SubmitRecord(p, record),
         (\E t : IsTree(t, Version, leaf_index_by_property))',
         \A q \in DOMAIN leaf_index_by_property :
           leaf_index_by_property'[q] = leaf_index_by_property[q]
  PROVE  VersionTrees'
<1> DEFINE v == Version'
<1>1. /\ UNCHANGED <<issued, issued_at>>
      /\ versions' = Append(versions, v) /\ v.root = current_root'
  BY DEF SubmitRecord, verifierVars, Version
<1>2. \E t : IsTree(t, v, leaf_index_by_property')
  BY DEF IsTree
<1> HIDE DEF v
<1>3. /\ Len(versions) \in Nat /\ Len(versions') = Len(versions) + 1
      /\ versions'[Len(versions) + 1] = v
      /\ \A i \in 1..Len(versions) : versions'[i] = versions[i]
  BY <1>1, Appended DEF IInv, Shapes
<1>4. ASSUME NEW j \in 1..Len(versions')
      PROVE  \E t : IsTree(t, versions'[j], leaf_index_by_property')
  <2>1. CASE j \in 1..Len(versions)
    <3>1. PICK t : IsTree(t, versions[j], leaf_index_by_property)
      BY <2>1 DEF VersionTrees
    <3>2. \A q \in DOMAIN versions[j].records :
            leaf_index_by_property'[q] = leaf_index_by_property[q]
      BY <2>1 DEF VersionsTyped, RP!IInv, RP!IndexMaps
    <3>3. IsTree(t, versions[j], leaf_index_by_property')
      BY <3>1, <3>2, TreeKept
    <3> QED BY <1>3, <2>1, <3>3
  <2>2. CASE j = Len(versions) + 1
    BY <1>2, <1>3, <2>2
  <2> QED BY <1>3, <2>1, <2>2
<1>5. ASSUME NEW id \in DOMAIN issued
      PROVE  issued[id].merkle_root = RootNumber(versions[issued_at[id]].root)'
  <2> DEFINE k == issued_at[id]
             ws == versions'
  <2>1. k \in 1..Len(versions) /\ issued_at'[id] = k
    BY <1>1 DEF IInv, IssuedInVersion
  <2>2. versions'[k] = versions[k]
    BY <1>3, <2>1
  <2>3. RootNumber(versions[issued_at[id]].root)' = NumberIn(versions', versions[k].root)
    BY <2>1, <2>2 DEF RootNumber, NumberIn
  <2>4. RootNumber(versions[k].root) = NumberIn(versions, versions[k].root)
    BY DEF RootNumber, NumberIn
  <2>5. NumberIn(ws, versions[k].root) = NumberIn(versions, versions[k].root)
    <3>1. Len(ws) = Len(versions) + 1 /\ \A i \in 1..Len(versions) : ws[i] = versions[i]
      BY <1>3
    <3> HIDE DEF ws, k
    <3>2. \A j \in 1..Len(versions) :
            NumberIn(ws, versions[j].root) = NumberIn(versions, versions[j].root)
      BY <1>3, <3>1, NumbersStay
    <3> QED BY <2>1, <3>2
  <2>6. issued[id].merkle_root = RootNumber(versions[k].root)
    BY DEF VersionTrees
  <2> QED BY <2>3, <2>4, <2>5, <2>6
<1>6. versions'[Len(versions')].root = current_root'
  BY <1>1, <1>3
<1> QED BY <1>1, <1>4, <1>5, <1>6 DEF VersionTrees

\* A challenge is issued with the root of the last version
\* (request_challenge_impl).
LEMMA RequestVersionTrees ==
  ASSUME IInv, VersionTrees, NEW caller, NEW purpose, RequestChallenge(caller, purpose)
  PROVE  VersionTrees'
<1> DEFINE id == next_challenge_id
           new == Verifier!NewChallenge(caller, purpose)
<1>1. /\ UNCHANGED <<versions, current_root, leaf_index_by_property>>
      /\ issued' = Verifier!Inserted(issued, id, new)
      /\ issued_at' = Verifier!Inserted(issued_at, id, Len(versions))
  BY DEF RequestChallenge, registryVars, treeVars, Verifier!RequestChallenge
<1>2. new.merkle_root = RootNumber(current_root)
  BY DEF Verifier!NewChallenge
<1> HIDE DEF new
<1>3. \A x \in DOMAIN issued' :
        /\ x \in DOMAIN issued \/ x = id
        /\ issued'[x] = IF x = id THEN new ELSE issued[x]
        /\ issued_at'[x] = IF x = id THEN Len(versions) ELSE issued_at[x]
  BY <1>1 DEF Verifier!Inserted, IInv, IssuedInVersion
<1>4. \A root : RootNumber(root) = NumberIn(versions, root)
  BY DEF RootNumber, NumberIn
<1>5. ASSUME NEW x \in DOMAIN issued'
      PROVE  issued'[x].merkle_root = RootNumber(versions[issued_at[x]].root)'
  <2>1. issued'[x].merkle_root = NumberIn(versions, versions[issued_at'[x]].root)
    BY <1>2, <1>3, <1>4 DEF VersionTrees
  <2>2. RootNumber(versions[issued_at[x]].root)'
          = NumberIn(versions', versions'[issued_at'[x]].root)
    BY DEF RootNumber, NumberIn
  <2> QED BY <1>1, <2>1, <2>2
<1> QED BY <1>1, <1>5 DEF VersionTrees

\* Nothing else changes versions or indices, and an upgrade comes back with
\* the root there was (post_upgrade).
LEMMA OtherVersionTrees ==
  ASSUME IInv, VersionTrees, RP!TreeInv, RP!Fits,
         UNCHANGED <<versions, leaf_index_by_property, issued, issued_at>>,
         Upgrade \/ UNCHANGED current_root
  PROVE  VersionTrees'
<1>1. CASE UNCHANGED current_root
  <2>1. UNCHANGED <<versions, leaf_index_by_property, issued, issued_at, current_root>>
    BY <1>1
  <2> QED BY <2>1 DEF VersionTrees, RootNumber
<1>2. CASE Upgrade
  <2>1. current_root' = Registry!node_at(TREE_DEPTH, 0)
    BY <1>2 DEF Upgrade, Registry!Upgrade
  <2>2. Registry!node_at(TREE_DEPTH, 0) = RP!node_at(TREE_DEPTH, 0)
    BY DEF Registry!node_at, RP!node_at, Registry!zero_hashes, RP!zero_hashes,
       Registry!ZERO, RP!ZERO, Registry!HashNode, RP!HashNode
  <2>3. RP!node_at(TREE_DEPTH, 0) = current_root
    BY DEF RP!TreeInv, RP!RootOnTop
  <2>4. current_root' = current_root
    BY <2>1, <2>2, <2>3
  <2> QED BY <1>1, <2>4
<1> QED BY <1>1, <1>2

\* As long as the tree has room, every version has its tree.
LEMMA NextVersionTrees ==
  /\ IInv /\ IInv' /\ PInv /\ PInv' /\ RP!IInv /\ RP!IInv' /\ RP!TreeInv /\ RP!TreeInv'
  /\ RP!Fits /\ RP!Fits' /\ VersionTrees /\ [Next]_vars
  => VersionTrees'
<1>1. (RP!IInv /\ RP!TreeInv /\ RP!Fits)'
        => (\E t : IsTree(t, Version, leaf_index_by_property))'
  BY CurrentTree, PTL
<1> SUFFICES ASSUME IInv, IInv', PInv, PInv', RP!IInv, RP!IInv', RP!TreeInv, RP!TreeInv',
                    RP!Fits, RP!Fits', VersionTrees, [Next]_vars
             PROVE  VersionTrees'
  OBVIOUS
<1>2. (\E t : IsTree(t, Version, leaf_index_by_property))'
  BY <1>1
<1>3. \A q \in DOMAIN leaf_index_by_property :
        leaf_index_by_property'[q] = leaf_index_by_property[q]
  <2>1. [RP!Next]_(RP!vars)
    BY RegistryStep
  <2> QED BY <2>1, RP!StepStays, Parts DEF RP!Stays
<1>4. CASE \E s \in Submitted : SubmitRecord(s.property, s.record)
  BY <1>2, <1>3, <1>4, SubmitVersionTrees DEF PInv
<1>5. CASE \E owner \in Principals, purpose \in Purposes : RequestChallenge(owner, purpose)
  BY <1>5, RequestVersionTrees
<1>6. \/ \E s \in Submitted : SubmitRecord(s.property, s.record)
      \/ \E owner \in Principals, purpose \in Purposes : RequestChallenge(owner, purpose)
      \/ /\ UNCHANGED <<versions, leaf_index_by_property, issued, issued_at>>
         /\ Upgrade \/ UNCHANGED current_root
  BY DEF Next, vars, registryVars, treeVars, verifierVars, Bootstrap, Upgrade,
     Registry!Upgrade, Answer, Heartbeat, Tick, Verifier!Restored, Verifier!Verify,
     Verifier!Heartbeat, Verifier!Tick, Verifier!history
<1> QED BY <1>4, <1>5, <1>6, OtherVersionTrees

\* The leaf of every property of a version lies below the root.
LEMMA LeafPlace ==
  ASSUME PInv, RP!IInv, RP!TreeInv, RP!Fits,
         NEW j \in 1..Len(versions), NEW p \in DOMAIN versions[j].records
  PROVE  /\ p \in DOMAIN records /\ p \in PropertyIds
         /\ leaf_index_by_property[p] \in Nat
         /\ RP!Ancestor(leaf_index_by_property[p], TREE_DEPTH) = 0
<1>1. /\ p \in DOMAIN records /\ p \in PropertyIds
      /\ leaf_index_by_property[p] \in Nat
  BY DEF PInv, VersionsTyped, RP!IInv, RP!IndexMaps
<1>2. leaf_index_by_property[p] < next_leaf_index /\ next_leaf_index \in Nat
  <2>1. {leaf_index_by_property[q] : q \in DOMAIN leaf_index_by_property}
          = 0 .. next_leaf_index - 1
    BY DEF RP!IInv, RP!IndicesDense
  <2> QED BY <1>1, <2>1 DEF RP!IInv, RP!IndexMaps
<1>3. RP!Capacity \in Nat /\ next_leaf_index <= RP!Capacity
  BY RP!Widths, Parts DEF RP!Fits
<1>4. leaf_index_by_property[p] < RP!Capacity
  BY <1>1, <1>2, <1>3
<1> QED BY <1>1, <1>4, RP!UnderTop, Parts

\* Equal numbers, equal roots, if one of them is a version's.
LEMMA SameRoot ==
  ASSUME IInv, WithinBounds, NEW root, NEW j \in 1..Len(versions),
         RootNumber(root) = RootNumber(versions[j].root)
  PROVE  root = versions[j].root
<1>1. Len(versions) \in Nat /\ Len(versions) <= MaxVersions
  BY DEF IInv, SomeVersion, WithinBounds
<1>2. \A r : RootNumber(r) = NumberIn(versions, r)
  BY DEF RootNumber, NumberIn
<1> QED BY <1>1, <1>2, Numbers

\* A record with the leaf a device expects has the owner's commitment, no
\* encumbrance and the expiry the device read (compute_leaf_hash).
LEMMA LeafDetermines ==
  ASSUME NEW owner \in Principals, NEW p \in PropertyIds, NEW expiry,
         NEW record \in RP!Records, RP!leaf_hash(record) = ExpectedLeaf(owner, p, expiry)
  PROVE  /\ record.owner_commitment = fe_to_string(Commitment[<<owner, p>>])
         /\ record.terms = [clear |-> TRUE, expiry |-> expiry]
<1> DEFINE c == Commitment[<<owner, p>>]
<1>1. c \in FieldElements
  BY SystemAssumption
<1> HIDE DEF c
<1>2. ExpectedLeaf(owner, p, expiry)
        = <<"leaf", parse_fe(fe_to_string(c)), [clear |-> TRUE, expiry |-> expiry]>>
  BY DEF ExpectedLeaf, Registry!leaf_hash, Registry!parse_fe, parse_fe, c
<1>3. RP!leaf_hash(record) = <<"leaf", parse_fe(record.owner_commitment), record.terms>>
  BY DEF RP!leaf_hash, RP!parse_fe, parse_fe
<1>4. /\ parse_fe(record.owner_commitment) = parse_fe(fe_to_string(c))
      /\ record.terms = [clear |-> TRUE, expiry |-> expiry]
  <2> DEFINE x == parse_fe(record.owner_commitment)
             y == parse_fe(fe_to_string(c))
             z == [clear |-> TRUE, expiry |-> expiry]
             r == record.terms
  <2>1. <<"leaf", x, r>> = <<"leaf", y, z>>
    BY <1>2, <1>3
  <2> HIDE DEF x, y, z, r
  <2>2. x = y /\ r = z
    BY <2>1
  <2> QED BY <2>2 DEF x, y, z, r
<1>5. PICK u \in FieldElements : record.owner_commitment = fe_to_string(u)
  BY DEF RP!Records, Commitments
<1>6. u = c
  BY <1>1, <1>4, <1>5, Canonical
<1> QED BY <1>4, <1>5, <1>6 DEF c

\* The root a device submits is the one of the version the challenge was
\* issued in only if that version has the device's leaf (verify_precheck_impl).
LEMMA RootSpeaksTruth ==
  ASSUME IInv, PInv, RP!IInv, RP!TreeInv, RP!Fits, VersionTrees,
         NEW owner \in Principals, NEW id \in DOMAIN issued,
         NEW j \in 1..Len(versions), NEW p \in DOMAIN versions[j].records,
         Provable(p, versions[j], issued[id]),
         parse_fe(DeviceInputs(owner, p, versions[j], issued[id]).merkle_root)
           = issued[id].merkle_root
  PROVE  InOrder(owner, p, versions[issued_at[id]], issued[id].current_timestamp)
<1> DEFINE k == issued_at[id]
           w == versions[k]
           index == leaf_index_by_property[p]
           expiry == versions[j].records[p].terms.expiry
           proof == versions[j].proofs[p]
           leaf == ExpectedLeaf(owner, p, expiry)
           root == Registry!RecomputedRoot(leaf, proof)
<1>1. k \in 1..Len(versions)
  BY DEF IInv, IssuedInVersion
<1>2. /\ p \in DOMAIN records /\ p \in PropertyIds /\ index \in Nat
      /\ RP!Ancestor(index, TREE_DEPTH) = 0
  BY LeafPlace
<1>3. PICK t : IsTree(t, w, leaf_index_by_property)
  BY <1>1 DEF VersionTrees
<1>4. RP!SidesOf(proof, index)
  <2>1. PICK s : IsTree(s, versions[j], leaf_index_by_property)
    BY DEF VersionTrees
  <2> QED BY <1>2, <2>1 DEF IsTree
<1>5. root = w.root
  <2>1. DeviceInputs(owner, p, versions[j], issued[id]).merkle_root
          = fe_to_string(RootNumber(root))
    BY DEF DeviceInputs
  <2> HIDE DEF root
  <2>2. RootNumber(root) \in FieldElements
    BY RootInField DEF PInv
  <2>3. RootNumber(root) = issued[id].merkle_root
    BY <2>1, <2>2, Canonical
  <2>4. RootNumber(root) = RootNumber(w.root)
    BY <2>3 DEF VersionTrees
  <2> QED BY <1>1, <2>4, SameRoot DEF PInv
<1>6. RP!RecomputedRoot(leaf, proof) = t[TREE_DEPTH][RP!Ancestor(index, TREE_DEPTH)]
  <2>1. root = RP!RecomputedRoot(leaf, proof)
    BY DEF Registry!RecomputedRoot, RP!RecomputedRoot, Registry!HashNode, RP!HashNode
  <2> QED BY <1>2, <1>3, <1>5, <2>1 DEF IsTree
<1>7. leaf = t[0][index]
  <2>1. RP!HashTree(t)
    BY <1>3 DEF IsTree
  <2> HIDE DEF leaf, proof, index
  <2> QED BY <1>2, <1>4, <1>6, <2>1, RP!Descends, Parts
<1>8. p \in DOMAIN w.records
  <2>1. leaf # RP!ZERO
    BY DEF ExpectedLeaf, Registry!leaf_hash, RP!ZERO
  <2>2. PICK q \in DOMAIN w.records : leaf_index_by_property[q] = index
    BY <1>2, <1>3, <1>7, <2>1 DEF IsTree
  <2>3. q \in DOMAIN leaf_index_by_property /\ p \in DOMAIN leaf_index_by_property
    BY <1>1, <1>2 DEF PInv, VersionsTyped, RP!IInv, RP!IndexMaps
  <2>4. q = p
    BY <2>2, <2>3 DEF RP!TreeInv, RP!LeavesDistinct
  <2> QED BY <2>4
<1>9. leaf = RP!leaf_hash(w.records[p]) /\ w.records[p] \in RP!Records
  BY <1>1, <1>2, <1>3, <1>7, <1>8 DEF IsTree, PInv, VersionsTyped
<1>10. /\ w.records[p].owner_commitment = fe_to_string(Commitment[<<owner, p>>])
       /\ w.records[p].terms = [clear |-> TRUE, expiry |-> expiry]
  <2> HIDE DEF w, expiry
  <2> QED BY <1>2, <1>9, LeafDetermines
<1>11. expiry > issued[id].current_timestamp
  BY DEF Provable
<1> HIDE DEF expiry, leaf
<1>12. w.records[p].terms.clear /\ w.records[p].terms.expiry = expiry
  BY <1>10
<1> QED BY <1>8, <1>10, <1>11, <1>12 DEF InOrder

-----------------------------------------------------------------------------
(* Truth and honesty *)

\* Versions and the versions of challenges stay as they are.
LEMMA HistoryKept ==
  ASSUME IInv, [Next]_vars
  PROVE  /\ \A j \in 1..Len(versions) : versions'[j] = versions[j]
         /\ \A id \in DOMAIN issued : issued_at'[id] = issued_at[id]
<1>1. \A j \in 1..Len(versions) : versions'[j] = versions[j]
  <2>1. CASE versions' = Append(versions, Version')
    <3> DEFINE v == Version'
    <3> HIDE DEF v
    <3>1. versions' = Append(versions, v)
      BY <2>1 DEF v
    <3> QED BY <3>1, Appended DEF IInv, Shapes
  <2>2. versions' = versions \/ versions' = Append(versions, Version')
    BY DEF Next, vars, registryVars, treeVars, Bootstrap, SubmitRecord, Upgrade,
       RequestChallenge, Answer, Heartbeat, Tick
  <2> QED BY <2>1, <2>2
<1>2. \A id \in DOMAIN issued : issued_at'[id] = issued_at[id]
  <2>1. ASSUME NEW caller, NEW purpose, RequestChallenge(caller, purpose)
        PROVE  \A id \in DOMAIN issued : issued_at'[id] = issued_at[id]
    <3>1. /\ issued_at' = Verifier!Inserted(issued_at, next_challenge_id, Len(versions))
          /\ DOMAIN issued_at = DOMAIN issued /\ next_challenge_id \notin DOMAIN issued
      BY <2>1 DEF RequestChallenge, IInv, IssuedInVersion, Shapes
    <3> QED BY <3>1 DEF Verifier!Inserted
  <2>2. \/ issued_at' = issued_at
        \/ \E caller \in Principals, purpose \in Purposes : RequestChallenge(caller, purpose)
    BY DEF Next, vars, verifierVars, Bootstrap, SubmitRecord, Upgrade, Answer, Heartbeat, Tick
  <2> QED BY <2>1, <2>2
<1> QED BY <1>1, <1>2

\* An answer that passes the checks is for the challenge as it was issued
\* (verify_precheck_impl).
LEMMA PassedAsIssued ==
  ASSUME PInv, NEW caller, NEW id, NEW inputs, Verifier!Precheck(caller, id, inputs)
  PROVE  /\ id \in DOMAIN issued /\ id \in Nat
         /\ parse_fe(inputs.merkle_root) = issued[id].merkle_root
<1>1. id \in DOMAIN challenges /\ Verifier!Matches(inputs, challenges[id])
  BY DEF Verifier!Precheck
<1>2. /\ id \in DOMAIN issued /\ id \in Nat /\ issued[id] \in VP!Challenge
      /\ challenges[id] = [issued[id] EXCEPT !.consumed = challenges[id].consumed]
  BY <1>1 DEF PInv, VP!RInv, VP!IInv, VP!TypeOK, VP!IsMap, VP!PendingAsIssued
<1>3. challenges[id].merkle_root = issued[id].merkle_root
  BY <1>2 DEF VP!Challenge
<1> QED BY <1>1, <1>2, <1>3 DEF Verifier!Matches, Verifier!parse_fe, parse_fe

\* An accepted answer is true (verify), and what was true stays so.
LEMMA NextTrue ==
  ASSUME IInv, PInv, RP!IInv, RP!TreeInv, RP!Fits, VersionTrees, AcceptedWasTrue, [Next]_vars
  PROVE  AcceptedWasTrue'
<1> DEFINE True(a, vs, at) ==
             \E p \in PropertyIds :
               /\ InOrder(a.caller, p, vs[at[a.id]], a.statement.current_timestamp)
               /\ a.statement.nullifier =
                    Nullifier[<<a.caller, p, a.statement.purpose, a.statement.request_nonce>>]
<1>0. (AcceptedWasTrue <=> \A i \in 1..Len(accepted) : True(accepted[i], versions, issued_at))
      /\ (AcceptedWasTrue'
            <=> \A i \in 1..Len(accepted') : True(accepted'[i], versions', issued_at'))
  BY DEF AcceptedWasTrue, InOrder
<1>1. ASSUME NEW a, a.id \in DOMAIN issued, True(a, versions, issued_at)
      PROVE  True(a, versions', issued_at')
  <2>1. versions'[issued_at'[a.id]] = versions[issued_at[a.id]]
    BY <1>1, HistoryKept DEF IInv, IssuedInVersion
  <2> QED BY <1>1, <2>1
<1>2. \A i \in 1..Len(accepted) : accepted[i].id \in DOMAIN issued
  BY DEF IInv, AcceptedInTime
<1>3. \A i \in 1..Len(accepted) : True(accepted[i], versions', issued_at')
  BY <1>0, <1>1, <1>2
<1>4. CASE accepted' = accepted
  BY <1>0, <1>3, <1>4
<1>5. ASSUME NEW owner \in Principals, NEW id \in DOMAIN issued, NEW j \in 1..Len(versions),
             NEW p \in DOMAIN versions[j].records, NEW intact,
             Answer(owner, id, p, versions[j], intact)
      PROVE  AcceptedWasTrue'
  <2> DEFINE c == issued[id]
             inputs == DeviceInputs(owner, p, versions[j], c)
             st == Verifier!Statement(inputs)
             n == Nullifier[<<owner, p, c.purpose, c.request_nonce>>]
             a == [id |-> id, caller |-> owner, at |-> now, statement |-> st]
  <2>1. CASE ~(Verifier!Precheck(owner, id, inputs) /\ intact)
    BY <1>4, <1>5, <2>1 DEF Answer, Verifier!Verify
  <2>2. CASE Verifier!Precheck(owner, id, inputs) /\ intact
    <3>1. accepted' = Append(accepted, a)
      BY <1>5, <2>2 DEF Answer, Verifier!Verify, Verifier!Commit
    <3>2. InOrder(owner, p, versions[issued_at[id]], c.current_timestamp) /\ p \in PropertyIds
      <4>1. parse_fe(inputs.merkle_root) = c.merkle_root
        BY <2>2, PassedAsIssued
      <4>2. Provable(p, versions[j], c)
        BY <1>5 DEF Answer
      <4> QED BY <4>1, <4>2, RootSpeaksTruth, AnswerSubmitted
    <3>3. n \in FieldElements
      BY AnswerSubmitted
    <3>4. /\ inputs.purpose = c.purpose /\ inputs.request_nonce = c.request_nonce
          /\ inputs.current_timestamp = c.current_timestamp
          /\ inputs.nullifier = fe_to_string(n)
      BY DEF DeviceInputs
    <3>5. parse_fe(fe_to_string(n)) = n
      <4> HIDE DEF n
      <4> QED BY <3>3, Canonical
    <3> HIDE DEF inputs, n
    <3>6. /\ st.purpose = c.purpose /\ st.request_nonce = c.request_nonce
          /\ st.current_timestamp = c.current_timestamp /\ st.nullifier = n
      BY <3>4, <3>5 DEF Verifier!Statement, Verifier!parse_fe, parse_fe
    <3> HIDE DEF st
    <3>7. a.id = id /\ a.caller = owner /\ a.statement = st
      OBVIOUS
    <3> HIDE DEF a
    <3>8. True(a, versions, issued_at)
      BY <3>2, <3>6, <3>7 DEF n
    <3>9. True(a, versions', issued_at')
      <4> HIDE DEF True
      <4> QED BY <1>1, <3>7, <3>8
    <3>10. /\ Len(accepted) \in Nat /\ Len(accepted') = Len(accepted) + 1
           /\ accepted'[Len(accepted) + 1] = a
           /\ \A i \in 1..Len(accepted) : accepted'[i] = accepted[i]
      BY <3>1, Appended DEF IInv, Shapes
    <3>11. \A i \in 1..Len(accepted') : i \in 1..Len(accepted) \/ i = Len(accepted) + 1
      BY <3>10
    <3> HIDE DEF True
    <3> QED BY <1>0, <1>3, <3>9, <3>10, <3>11
  <2> QED BY <2>1, <2>2
<1>6. \/ accepted' = accepted
      \/ \E owner \in Principals, id \in DOMAIN issued, j \in 1..Len(versions),
            intact \in BOOLEAN :
           \E p \in DOMAIN versions[j].records : Answer(owner, id, p, versions[j], intact)
  BY DEF Next, vars, verifierVars, Bootstrap, SubmitRecord, Upgrade, RequestChallenge,
     Heartbeat, Tick, Verifier!RequestChallenge, Verifier!Restored, Verifier!Heartbeat,
     Verifier!Tick, Verifier!history
<1> QED BY <1>4, <1>5, <1>6

\* The leaf a device expects of a title in order is the record's
\* (compute_leaf_hash).
LEMMA LeafExpected ==
  ASSUME NEW owner, NEW p, NEW version, NEW timestamp, InOrder(owner, p, version, timestamp),
         version.records[p] \in RP!Records
  PROVE  ExpectedLeaf(owner, p, version.records[p].terms.expiry)
           = RP!leaf_hash(version.records[p])
<1> DEFINE record == version.records[p]
           expiry == record.terms.expiry
           c == fe_to_string(Commitment[<<owner, p>>])
<1>1. record.owner_commitment = c /\ record.terms = [clear |-> TRUE, expiry |-> expiry]
  BY DEF InOrder, RP!Records
<1>2. ExpectedLeaf(owner, p, expiry) = <<"leaf", parse_fe(c), [clear |-> TRUE, expiry |-> expiry]>>
  BY DEF ExpectedLeaf, Registry!leaf_hash, Registry!parse_fe, parse_fe
<1>3. RP!leaf_hash(record) = <<"leaf", parse_fe(record.owner_commitment), record.terms>>
  BY DEF RP!leaf_hash, RP!parse_fe, parse_fe
<1> HIDE DEF record, expiry, c
<1>4. ExpectedLeaf(owner, p, expiry) = RP!leaf_hash(record)
  BY <1>1, <1>2, <1>3
<1> QED BY <1>4 DEF record, expiry

\* From a Merkle proof of the version a challenge was issued in, the device
\* computes the root the challenge was issued with.
LEMMA HonestRoot ==
  ASSUME IInv, PInv, RP!IInv, RP!TreeInv, RP!Fits, VersionTrees,
         NEW owner, NEW id \in DOMAIN issued, NEW p,
         InOrder(owner, p, versions[issued_at[id]], issued[id].current_timestamp)
  PROVE  /\ Parses(DeviceInputs(owner, p, versions[issued_at[id]], issued[id]).merkle_root)
         /\ parse_fe(DeviceInputs(owner, p, versions[issued_at[id]], issued[id]).merkle_root)
              = issued[id].merkle_root
<1> DEFINE k == issued_at[id]
           w == versions[k]
           index == leaf_index_by_property[p]
           proof == w.proofs[p]
           leaf == ExpectedLeaf(owner, p, w.records[p].terms.expiry)
           root == Registry!RecomputedRoot(leaf, proof)
<1>1. k \in 1..Len(versions) /\ p \in DOMAIN w.records
  BY DEF IInv, IssuedInVersion, InOrder
<1>2. index \in Nat /\ RP!Ancestor(index, TREE_DEPTH) = 0
  BY <1>1, LeafPlace
<1>3. PICK t : IsTree(t, w, leaf_index_by_property)
  BY <1>1 DEF VersionTrees
<1>4. leaf = t[0][index]
  <2>1. leaf = RP!leaf_hash(w.records[p])
    BY <1>1, LeafExpected DEF PInv, VersionsTyped
  <2> HIDE DEF leaf, w
  <2> QED BY <1>1, <1>2, <1>3, <2>1 DEF IsTree
<1>5. /\ RP!HashTree(t) /\ RP!SidesOf(proof, index) /\ RP!SiblingsIn(proof, t, index)
      /\ t[TREE_DEPTH][0] = w.root
  BY <1>1, <1>2, <1>3 DEF IsTree
<1>6. RP!RecomputedRoot(leaf, proof) = w.root
  <2> HIDE DEF leaf, proof, index, w
  <2>1. RP!RecomputedRoot(t[0][index], proof) = t[TREE_DEPTH][RP!Ancestor(index, TREE_DEPTH)]
    BY <1>2, <1>5, RP!Climbs, Parts
  <2> QED BY <1>2, <1>4, <1>5, <2>1
<1>7. root = w.root
  BY <1>6 DEF Registry!RecomputedRoot, RP!RecomputedRoot, Registry!HashNode, RP!HashNode
<1>8. DeviceInputs(owner, p, w, issued[id]).merkle_root = fe_to_string(RootNumber(root))
  BY DEF DeviceInputs
<1>9. RootNumber(root) = issued[id].merkle_root /\ RootNumber(root) \in FieldElements
  BY <1>7, RootInField DEF VersionTrees, PInv
<1> HIDE DEF root
<1> QED BY <1>8, <1>9, Canonical

\* The nullifier of a challenge not answered yet has not been spent: it is
\* made from the nonce, which no other challenge has (canonical_nullifier).
LEMMA HonestNullifier ==
  ASSUME PInv, AcceptedWasTrue, NEW id \in DOMAIN issued, NEW p \in PropertyIds,
         \A i \in 1..Len(accepted) : accepted[i].id # id
  PROVE  fe_to_string(Nullifier[<<issued[id].requester, p, issued[id].purpose,
                                  issued[id].request_nonce>>]) \notin nullifiers
<1> DEFINE c == issued[id]
           x == <<c.requester, p, c.purpose, c.request_nonce>>
<1> SUFFICES ASSUME fe_to_string(Nullifier[x]) \in nullifiers PROVE FALSE
  OBVIOUS
<1>1. \A y \in DOMAIN issued : issued[y] \in VP!Challenge
      /\ issued[y].request_nonce \in 0 .. MaxChallenges - 1
  BY DEF PInv, VP!RInv, VP!IInv, VP!TypeOK, VP!IsMap, WithinBounds
<1>2. x \in DOMAIN Nullifier
  BY <1>1, SystemAssumption DEF VP!Challenge
<1>3. PICK i \in 1..Len(accepted) :
        fe_to_string(Nullifier[x]) = VP!fe_to_string(accepted[i].statement.nullifier)
  <2> HIDE DEF x
  <2> QED BY DEF PInv, VP!Answerable
<1> DEFINE a == accepted[i]
<1>4. Nullifier[x] = a.statement.nullifier
  <2> HIDE DEF x
  <2> QED BY <1>3 DEF fe_to_string, VP!fe_to_string
<1>5. PICK q \in PropertyIds :
        a.statement.nullifier =
          Nullifier[<<a.caller, q, a.statement.purpose, a.statement.request_nonce>>]
  BY DEF AcceptedWasTrue
<1>6. /\ a.id \in DOMAIN issued /\ a.caller = issued[a.id].requester
      /\ a.statement.purpose = issued[a.id].purpose
      /\ a.statement.request_nonce = issued[a.id].request_nonce
  BY DEF PInv, VP!RInv, VP!IInv, VP!AcceptedAsIssued
<1> DEFINE y == <<a.caller, q, a.statement.purpose, a.statement.request_nonce>>
<1>7. y \in DOMAIN Nullifier
  BY <1>1, <1>6, SystemAssumption DEF VP!Challenge
<1>8. x = y
  <2>1. Nullifier[x] = Nullifier[y]
    BY <1>4, <1>5
  <2> HIDE DEF x, y
  <2> QED BY <1>2, <1>7, <2>1, SystemAssumption
<1>9. c.request_nonce = issued[a.id].request_nonce
  BY <1>6, <1>8
<1>10. a.id = id
  BY <1>6, <1>9 DEF PInv, VP!RInv, VP!IInv, VP!NonceFresh
<1> QED BY <1>10

\* Nothing stands in the way of an honest answer in time (verify_precheck_impl).
LEMMA HonestPasses ==
  ASSUME IInv, PInv, RP!IInv, RP!TreeInv, RP!Fits, VersionTrees, AcceptedWasTrue
  PROVE  HonestAnswerPasses
<1> SUFFICES ASSUME NEW id \in DOMAIN issued, NEW p \in PropertyIds,
                    InOrder(issued[id].requester, p, versions[issued_at[id]],
                            issued[id].current_timestamp),
                    now <= issued[id].expires_at,
                    \A i \in 1..Len(accepted) : accepted[i].id # id
             PROVE  Verifier!Precheck(issued[id].requester, id,
                      DeviceInputs(issued[id].requester, p, versions[issued_at[id]],
                                   issued[id]))
  BY DEF HonestAnswerPasses
<1> DEFINE c == issued[id]
           inputs == DeviceInputs(c.requester, p, versions[issued_at[id]], c)
           n == Nullifier[<<c.requester, p, c.purpose, c.request_nonce>>]
<1>1. /\ id \in DOMAIN challenges /\ c \in VP!Challenge
      /\ challenges[id] = [c EXCEPT !.consumed = challenges[id].consumed]
      /\ ~challenges[id].consumed
  BY DEF PInv, VP!RInv, VP!IInv, VP!TypeOK, VP!IsMap, VP!PendingAsIssued, VP!Answerable
<1>2. /\ challenges[id].requester = c.requester
      /\ challenges[id].expires_at = c.expires_at
      /\ challenges[id].registry_id = c.registry_id
      /\ challenges[id].merkle_root = c.merkle_root
      /\ challenges[id].purpose = c.purpose
      /\ challenges[id].request_nonce = c.request_nonce
      /\ challenges[id].current_timestamp = c.current_timestamp
  BY <1>1 DEF VP!Challenge
<1>3. Parses(inputs.merkle_root) /\ parse_fe(inputs.merkle_root) = c.merkle_root
  BY HonestRoot
<1>4. /\ inputs.registry_id = c.registry_id /\ inputs.purpose = c.purpose
      /\ inputs.request_nonce = c.request_nonce
      /\ inputs.current_timestamp = c.current_timestamp
      /\ inputs.nullifier = fe_to_string(n)
  BY DEF DeviceInputs
<1>5. fe_to_string(n) \notin nullifiers
  BY HonestNullifier
<1>6. n \in FieldElements
  <2>1. c.request_nonce \in 0 .. MaxChallenges - 1
    BY DEF PInv, WithinBounds
  <2> QED BY <1>1, <2>1, SystemAssumption DEF VP!Challenge
<1> HIDE DEF inputs, n, c
<1>7. Parses(inputs.nullifier) /\ Verifier!canonical_nullifier(inputs.nullifier) = fe_to_string(n)
  BY <1>4, <1>6, Canonical DEF Verifier!canonical_nullifier, Verifier!parse_fe, parse_fe,
     Verifier!fe_to_string, fe_to_string
<1>8. Verifier!Matches(inputs, challenges[id])
  BY <1>2, <1>3, <1>4 DEF Verifier!Matches, Verifier!Parses, Parses, Verifier!parse_fe, parse_fe
<1>9. now <= challenges[id].expires_at
  BY <1>2 DEF c
<1>10. Verifier!Precheck(c.requester, id, inputs)
  BY <1>1, <1>2, <1>5, <1>7, <1>8, <1>9 DEF Verifier!Precheck, Verifier!Parses, Parses
<1> QED BY <1>10 DEF inputs, c

\* As long as the tree has room, every version has its tree and every accepted
\* answer was true.
Truths == RP!Fits => VersionTrees /\ AcceptedWasTrue

\* Submissions, challenges and answers keep the truths.
LEMMA TruthsHold == Spec => []Truths
<1>1. Init /\ RP!IInv /\ RP!TreeInv => Truths
  <2>1. Init => AcceptedWasTrue
    BY DEF Init, AcceptedWasTrue
  <2> QED BY <2>1, InitVersionTrees DEF Truths
<1>2. /\ IInv /\ IInv' /\ PInv /\ PInv' /\ RP!IInv /\ RP!IInv' /\ RP!TreeInv /\ RP!TreeInv'
      /\ Truths /\ [Next]_vars
      => Truths'
  <2> SUFFICES ASSUME IInv, IInv', PInv, PInv', RP!IInv, RP!IInv', RP!TreeInv, RP!TreeInv',
                      Truths, [Next]_vars, RP!Fits'
               PROVE  VersionTrees' /\ AcceptedWasTrue'
    BY DEF Truths
  <2>1. RP!Fits
    <3>1. [RP!Next]_(RP!vars)
      BY RegistryStep
    <3>2. /\ next_leaf_index' \in Nat /\ next_leaf_index <= next_leaf_index'
          /\ next_leaf_index \in Nat
      BY <3>1, RP!CounterGrows, Parts DEF RP!IInv, RP!IndexMaps
    <3>3. RP!Capacity \in Nat
      BY RP!Widths, Parts
    <3> QED BY <3>2, <3>3 DEF RP!Fits
  <2>2. VersionTrees /\ AcceptedWasTrue
    BY <2>1 DEF Truths
  <2>3. VersionTrees'
    BY <2>1, <2>2, NextVersionTrees
  <2>4. AcceptedWasTrue'
    BY <2>1, <2>2, NextTrue
  <2> QED BY <2>3, <2>4
<1> QED BY <1>1, <1>2, Invariance, PartsInvariance, RegistryHolds, PTL DEF Spec

-----------------------------------------------------------------------------
(* The theorems *)

\* An accepted answer is about a registry that was superseded at most
\* ChallengeTTL before, if at all.
THEOREM TruthsAreRecent == Spec => []OutdatedAtMostTTL
<1>1. IInv => OutdatedAtMostTTL
  <2> SUFFICES ASSUME IInv, NEW i \in 1..Len(accepted),
                      issued_at[accepted[i].id] + 1 <= Len(versions)
               PROVE  accepted[i].at
                        <= versions[issued_at[accepted[i].id] + 1].since + ChallengeTTL
    BY DEF OutdatedAtMostTTL
  <2> DEFINE id == accepted[i].id
  <2>1. /\ id \in DOMAIN issued /\ accepted[i].at \in Nat
        /\ accepted[i].at <= issued[id].expires_at
    BY DEF IInv, AcceptedInTime
  <2>2. issued[id].expires_at <= versions[issued_at[id] + 1].since + ChallengeTTL
    BY <2>1 DEF IInv, SupersededInTime
  <2>3. issued[id].expires_at \in Nat
        /\ versions[issued_at[id] + 1].since + ChallengeTTL \in Nat
    <3>1. issued_at[id] + 1 \in 1..Len(versions)
      BY <2>1 DEF IInv, Shapes, IssuedInVersion
    <3>2. versions[issued_at[id] + 1].since \in Nat
      BY <3>1 DEF IInv, Shapes
    <3>3. issued[id].expires_at \in Nat
      BY <2>1 DEF IInv, IssuedInVersion
    <3>4. \A n \in Nat : n + ChallengeTTL \in Nat
      BY Parts
    <3> QED BY <3>2, <3>3, <3>4
  <2> QED BY <2>1, <2>2, <2>3
<1> QED BY Invariance, <1>1, PTL

\* The composed system implements VerificationRights: neither submissions nor
\* upgrades nor anything the devices send disturb a right.
THEOREM SystemKeepsRights == Spec => RightsKept
<1>1. Init => Verifier!Rights!Init
  BY VerifierInit, VP!InitRights, Parts
     DEF VP!Rights!Init, Verifier!Rights!Init, VP!Answered, Verifier!Answered, VP!AnswerTo,
         Verifier!AnswerTo, VP!BoundTo, Verifier!BoundTo
<1>2. IInv /\ IInv' /\ RP!IInv /\ PInv /\ PInv' /\ [Next]_vars
        => [Verifier!Rights!Next]_(Verifier!Rights!vars)
  <2> SUFFICES ASSUME IInv, IInv', RP!IInv, PInv, PInv', [Next]_vars
               PROVE  [Verifier!Rights!Next]_(Verifier!Rights!vars)
    OBVIOUS
  <2>1. [VP!Next]_(VP!vars) \/ VP!Restoration
    BY VerifierStep DEF PInv
  <2>2. [VP!Rights!Next]_(VP!Rights!vars)
    BY <2>1, VP!NextRights, Parts DEF PInv
  <2> QED BY <2>2
      DEF VP!Rights!Next, Verifier!Rights!Next, VP!Rights!vars, Verifier!Rights!vars,
          VP!Rights!Issue, Verifier!Rights!Issue, VP!Rights!Answer, Verifier!Rights!Answer,
          VP!Rights!Lapse, Verifier!Rights!Lapse, VP!Rights!Right, Verifier!Rights!Right,
          VP!Answered, Verifier!Answered, VP!AnswerTo, Verifier!AnswerTo,
          VP!BoundTo, Verifier!BoundTo, VP!Bindings, Verifier!Bindings,
          VP!REGISTRY_ID, Verifier!REGISTRY_ID, VP!FieldElements, Verifier!FieldElements
<1> QED BY <1>1, <1>2, Invariance, RegistryHolds, PartsInvariance, PTL
        DEF Spec, RightsKept, Verifier!RightsKept, Verifier!Rights!Spec

\* As long as the tree has room, every accepted answer spoke the truth about
\* the registry at the moment its challenge was issued, whatever versions of
\* the registry the devices answered from.
THEOREM OnlyTruthsAccepted == Spec => [](RP!Fits => AcceptedWasTrue)
BY TruthsHold, PTL DEF Truths

\* As long as the tree has room, an owner whose title was in order when the
\* challenge was issued is not turned away before the deadline.
THEOREM HonestAnswersPass == Spec => [](RP!Fits => HonestAnswerPasses)
<1>1. IInv /\ PInv /\ RP!IInv /\ RP!TreeInv /\ Truths => (RP!Fits => HonestAnswerPasses)
  BY HonestPasses DEF Truths
<1> QED BY <1>1, Invariance, PartsInvariance, RegistryHolds, TruthsHold, PTL

\* The tree has room for ever if it has a leaf for every property there can be.
THEOREM RoomForAll ==
  ASSUME RP!IsFiniteSet(PropertyIds), RP!Cardinality(PropertyIds) <= RP!Capacity
  PROVE  Spec => []RP!Fits
<1>1. [Next]_vars => [RP!Next]_(RP!vars)
  BY RegistryStep
<1>2. RP!Spec => []RP!Fits
  BY RP!RoomForAll, Parts
<1> QED BY <1>1, <1>2, RegistryInit, PTL DEF Spec, RP!Spec

=============================================================================
