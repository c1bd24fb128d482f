----------------------- MODULE ChallengeVerify_proofs -----------------------
(***************************************************************************)
(* Proofs about ChallengeVerify for every set of principals, every field,  *)
(* any strings on the wire, any timing constants and any number of         *)
(* challenges, heartbeats and upgrades.                                    *)
(*                                                                         *)
(* The safety properties speak of the history; the inductive invariant     *)
(* ties the history to what the canister still holds: a pending challenge  *)
(* is the one issued but for its flag (PendingAsIssued), ids and nonces    *)
(* handed out lie below their counters (IssuedInPast), and an accepted     *)
(* answer has left its two marks, the flag on the challenge for as long as *)
(* that is kept and the canonical nullifier for ever (AcceptanceMarked).   *)
(* Answerable is the converse: what the canister holds against an answer   *)
(* goes back to an answer it accepted.                                     *)
(*                                                                         *)
(* The second half proves that ChallengeVerify implements                  *)
(* VerificationRights: each call of the canister is a step of the abstract *)
(* specification or invisible to it.                                       *)
(***************************************************************************)
EXTENDS ChallengeVerify, FiniteSetTheorems, SequenceTheorems, TLAPS

PendingAsIssued ==
  \A id \in DOMAIN challenges :
    /\ id \in DOMAIN issued
    /\ challenges[id] = [issued[id] EXCEPT !.consumed = challenges[id].consumed]

IssuedInPast ==
  \A id \in DOMAIN issued :
    id < next_challenge_id /\ issued[id].request_nonce < next_nonce

ScanBehindCounter == oldest_unpruned_challenge_id <= next_challenge_id

AcceptanceMarked ==
  \A i \in 1..Len(accepted) :
    /\ accepted[i].id \in DOMAIN challenges => challenges[accepted[i].id].consumed
    /\ fe_to_string(accepted[i].statement.nullifier) \in nullifiers

IInv ==
  /\ TypeOK
  /\ NoOrphanChallenge
  /\ ScanBehindCounter
  /\ PendingAsIssued
  /\ IssuedInPast
  /\ NonceFresh
  /\ AcceptanceMarked
  /\ AcceptedAsIssued
  /\ NullifierSpentOnce
  /\ ChallengeAnsweredOnce

\* An unexpired challenge is pending, and only an accepted answer consumes a
\* challenge or spends a nullifier.
Answerable ==
  /\ \A id \in DOMAIN issued : now <= issued[id].expires_at => id \in DOMAIN challenges
  /\ \A id \in DOMAIN challenges :
       challenges[id].consumed => \E i \in 1..Len(accepted) : accepted[i].id = id
  /\ \A w \in nullifiers :
       \E i \in 1..Len(accepted) : w = fe_to_string(accepted[i].statement.nullifier)

\* An upgrade that may come back with another root.  The canister's does not
\* (Upgrade), but where the root comes from is the registry's affair.
Restoration == Restored /\ current_root' \in FieldElements

-----------------------------------------------------------------------------
(* Lemmas about the operators *)

\* A call let through keeps map and log of its throttle what they are
\* (check_and_update_throttle).
LEMMA CallKeepsThrottle ==
  ASSUME NEW store, IsMap(store, Principals, Nat), NEW log \in Logs,
         NEW p \in Callers, NEW t \in Nat, Admits(store, p, t)
  PROVE  /\ IsMap(Recorded(store, p, t), Principals, Nat)
         /\ Logged(log, p, t) \in Logs /\ p \in Principals
BY DEF IsMap, Recorded, Admits, Callers, Logged, Entry, Logs

\* So does pruning (prune_throttle_log).
LEMMA PruningKeepsThrottle ==
  ASSUME NEW store, IsMap(store, Principals, Nat), NEW log \in Logs, NEW k \in 0..Len(log)
  PROVE  /\ IsMap(PrunedStore(store, log, k), Principals, Nat)
         /\ PrunedLog(log, k) \in Logs
<1> DEFINE E == [who : Principals, at : Nat]
<1>1. log \in Seq(E) /\ Len(log) \in Nat
  BY LenProperties DEF Logs
<1> HIDE DEF E
<1>2. \A i \in k + 1 .. Len(log) : log[i] \in E
  BY <1>1, ElementOfSeq
<1>3. SubSeq(log, k + 1, Len(log)) \in Seq(E)
  BY <1>1, <1>2, SubSeqProperties
<1>4. PrunedLog(log, k) \in Logs
  BY <1>3 DEF PrunedLog, Logs, E
<1>5. IsMap(PrunedStore(store, log, k), Principals, Nat)
  BY DEF IsMap, PrunedStore, Kept
<1> QED BY <1>4, <1>5

\* The log rebuilt from a map is a log (post_upgrade).
LEMMA RebuiltIsLog ==
  ASSUME NEW store, IsMap(store, Principals, Nat)
  PROVE  RebuiltLogs(store) \subseteq Logs
<1> DEFINE n == Cardinality(DOMAIN store) E == [who : Principals, at : Nat]
<1>1. n \in Nat
  BY PrincipalsAssumption, FS_Subset, FS_CardinalityType DEF IsMap
<1>2. Entries(store) \subseteq E
  BY DEF Entries, Entry, IsMap
<1> HIDE DEF n, E
<1>3. [1..n -> Entries(store)] \subseteq Seq(E)
  <2>1. [1..n -> Entries(store)] \subseteq [1..n -> E]
    BY <1>2
  <2> QED BY <1>1, <2>1, SeqDef
<1> QED BY <1>3 DEF RebuiltLogs, Logs, n, E

\* Reducing a parsed u128 once lands in the field (parse_fe).
LEMMA ParsedInField ==
  ASSUME NEW w \in WireStrings, Parses(w)
  PROVE  parse_fe(w) \in FieldElements
BY FieldAssumption DEF WireStrings, Parses, parse_fe, FieldElements

\* Two field elements with one canonical string are one (fe_to_string).
LEMMA CanonicalInjective ==
  ASSUME NEW u, NEW v, fe_to_string(u) = fe_to_string(v)
  PROVE  u = v
BY DEF fe_to_string

\* The canonical string of a field element is a string of the wire.
LEMMA CanonicalIsWire ==
  ASSUME NEW v \in FieldElements
  PROVE  fe_to_string(v) \in WireStrings
BY FieldAssumption DEF fe_to_string, FieldElements, WireStrings

\* What callers submit are public inputs (VerifyPublicInputs).
LEMMA SubmissionsTyped ==
  ASSUME IsMap(issued, Nat, Challenge), NEW inputs \in Submissions
  PROVE  inputs \in VerifyPublicInputs
<1>1. Known \subseteq [nonce : Nat, at : Nat]
  BY DEF IsMap, Challenge, Known
<1>2. PICK r \in RegistryIds, w \in RootWires, p \in Purposes, k \in Known,
           n \in NullifierWires :
             inputs = [registry_id       |-> r,
                       merkle_root       |-> w,
                       purpose           |-> p,
                       request_nonce     |-> k.nonce,
                       current_timestamp |-> k.at,
                       nullifier         |-> n]
  BY DEF Submissions
<1> QED BY <1>1, <1>2, ChallengeAssumption DEF VerifyPublicInputs

\* A new challenge is a challenge (request_challenge_impl).
LEMMA NewChallengeTyped ==
  ASSUME TypeOK, NEW caller \in Principals, NEW purpose \in Purposes
  PROVE  NewChallenge(caller, purpose) \in Challenge
<1>1. now \div Second \in Nat /\ now + ChallengeTTL \in Nat
  BY ChallengeAssumption DEF TypeOK
<1> QED BY <1>1 DEF TypeOK, NewChallenge, Challenge, REGISTRY_ID

-----------------------------------------------------------------------------
(* The invariant is preserved by each action *)

\* The canister starts with no challenges and nothing spent (fresh_state).
LEMMA InitIInv == Init => IInv
<1> SUFFICES ASSUME Init PROVE IInv
  OBVIOUS
<1>1. TypeOK
  BY FieldAssumption, EmptySeq DEF Init, TypeOK, IsMap, NoEntries, FieldElements, Logs
<1>2. NoOrphanChallenge /\ ScanBehindCounter /\ PendingAsIssued /\ IssuedInPast /\ NonceFresh
  BY DEF Init, NoEntries, NoOrphanChallenge, ScanBehindCounter, PendingAsIssued,
     IssuedInPast, NonceFresh
<1>3. AcceptanceMarked /\ AcceptedAsIssued /\ NullifierSpentOnce /\ ChallengeAnsweredOnce
  BY EmptySeq DEF Init, AcceptanceMarked, AcceptedAsIssued, NullifierSpentOnce,
     ChallengeAnsweredOnce
<1> QED BY <1>1, <1>2, <1>3 DEF IInv

\* Issuing a challenge (request_challenge) preserves the invariant.
LEMMA RequestIInv ==
  ASSUME IInv, NEW caller \in Callers, NEW purpose \in Purposes,
         RequestChallenge(caller, purpose)
  PROVE  IInv'
<1> DEFINE new == NewChallenge(caller, purpose)
           id == next_challenge_id
<1>0. TypeOK
  BY DEF IInv
<1>1. /\ challenges' = Inserted(challenges, id, new) /\ issued' = Inserted(issued, id, new)
      /\ next_challenge_id' = id + 1 /\ next_nonce' = next_nonce + 1
      /\ accepted' = accepted /\ nullifiers' = nullifiers
      /\ oldest_unpruned_challenge_id' = oldest_unpruned_challenge_id
  BY DEF RequestChallenge
<1>2. /\ IsMap(last_challenge_call_at', Principals, Nat) /\ challenge_throttle_log' \in Logs
      /\ caller \in Principals
  BY <1>0, CallKeepsThrottle DEF RequestChallenge, TypeOK
<1>3. new \in Challenge /\ id \in Nat
  BY <1>0, <1>2, NewChallengeTyped DEF TypeOK
<1>4. /\ new.request_nonce = next_nonce
  BY DEF NewChallenge
<1> HIDE DEF new
<1>5. /\ IsMap(challenges', Nat, Challenge) /\ DOMAIN challenges' = DOMAIN challenges \cup {id}
      /\ challenges'[id] = new
      /\ \A x \in DOMAIN challenges \ {id} : challenges'[x] = challenges[x]
  <2>1. IsMap(challenges, Nat, Challenge)
    BY <1>0 DEF TypeOK
  <2> DEFINE ins == Inserted(challenges, id, new)
  <2>2. /\ IsMap(ins, Nat, Challenge) /\ DOMAIN ins = DOMAIN challenges \cup {id}
        /\ ins[id] = new
        /\ \A x \in DOMAIN challenges \ {id} : ins[x] = challenges[x]
    <3> HIDE DEF id
    <3> QED BY <1>3, <2>1 DEF IsMap, Inserted
  <2>3. challenges' = ins
    BY <1>1
  <2> HIDE DEF ins
  <2> QED BY <2>2, <2>3
<1>6. /\ IsMap(issued', Nat, Challenge) /\ DOMAIN issued' = DOMAIN issued \cup {id}
      /\ issued'[id] = new
      /\ \A x \in DOMAIN issued \ {id} : issued'[x] = issued[x]
  <2>1. IsMap(issued, Nat, Challenge)
    BY <1>0 DEF TypeOK
  <2> DEFINE ins == Inserted(issued, id, new)
  <2>2. /\ IsMap(ins, Nat, Challenge) /\ DOMAIN ins = DOMAIN issued \cup {id}
        /\ ins[id] = new
        /\ \A x \in DOMAIN issued \ {id} : ins[x] = issued[x]
    <3> HIDE DEF id
    <3> QED BY <1>3, <2>1 DEF IsMap, Inserted
  <2>3. issued' = ins
    BY <1>1
  <2> HIDE DEF ins
  <2> QED BY <2>2, <2>3
<1>7. id \notin DOMAIN issued /\ id \notin DOMAIN challenges
  BY <1>0 DEF IInv, TypeOK, IssuedInPast, PendingAsIssued
<1>8. TypeOK'
  BY <1>0, <1>1, <1>2, <1>5, <1>6 DEF TypeOK, RequestChallenge
<1>9. NoOrphanChallenge' /\ ScanBehindCounter'
  BY <1>0, <1>1, <1>5 DEF IInv, TypeOK, NoOrphanChallenge, ScanBehindCounter
<1>10. PendingAsIssued'
  <2> SUFFICES ASSUME NEW x \in DOMAIN challenges'
               PROVE  /\ x \in DOMAIN issued'
                      /\ challenges'[x] = [issued'[x] EXCEPT !.consumed = challenges'[x].consumed]
    BY DEF PendingAsIssued
  <2>1. CASE x = id
    BY <1>3, <1>5, <1>6, <2>1 DEF Challenge
  <2>2. CASE x # id
    BY <1>5, <1>6, <1>7, <2>2 DEF IInv, PendingAsIssued
  <2> QED BY <2>1, <2>2
<1>11. IssuedInPast' /\ NonceFresh'
  <2>1. \A x \in DOMAIN issued : issued[x].request_nonce \in Nat /\ x \in Nat
    BY <1>0 DEF TypeOK, IsMap, Challenge
  <2> QED BY <1>0, <1>1, <1>4, <1>6, <1>7, <2>1 DEF IInv, TypeOK, IssuedInPast, NonceFresh
<1>12. AcceptanceMarked' /\ AcceptedAsIssued' /\ NullifierSpentOnce' /\ ChallengeAnsweredOnce'
  <2>1. \A i \in 1..Len(accepted) : accepted[i].id \in DOMAIN issued /\ accepted[i].id # id
    BY <1>7 DEF IInv, AcceptedAsIssued
  <2>2. AcceptanceMarked'
    BY <1>1, <1>5, <2>1 DEF IInv, AcceptanceMarked
  <2>3. AcceptedAsIssued'
    BY <1>1, <1>6, <2>1 DEF IInv, AcceptedAsIssued
  <2>4. NullifierSpentOnce' /\ ChallengeAnsweredOnce'
    BY <1>1 DEF IInv, NullifierSpentOnce, ChallengeAnsweredOnce
  <2> QED BY <2>2, <2>3, <2>4
<1> QED BY <1>8, <1>9, <1>10, <1>11, <1>12 DEF IInv

\* What a call of verify does to the throttle and leaves alone, whatever its
\* outcome.
LEMMA VerifyThrottles ==
  ASSUME TypeOK, NEW caller \in Callers, NEW id, NEW inputs, NEW ok,
         Verify(caller, id, inputs, ok)
  PROVE  /\ IsMap(last_verify_call_at', Principals, Nat) /\ verify_throttle_log' \in Logs
         /\ caller \in Principals
BY CallKeepsThrottle DEF Verify, TypeOK

\* A refused answer leaves everything but the throttle as it was
\* (verify_precheck_impl and verify_crypto_impl returning Err).
LEMMA RefusedIInv ==
  ASSUME IInv, NEW caller \in Callers, NEW id, NEW inputs, NEW ok,
         Verify(caller, id, inputs, ok), ~(Precheck(caller, id, inputs) /\ ok)
  PROVE  IInv'
<1>1. UNCHANGED <<challengeVars, nullifiers, history>>
  BY DEF Verify, challengeVars, history
<1>2. TypeOK'
  BY <1>1, VerifyThrottles DEF IInv, TypeOK, Verify, challengeVars, history
<1> QED BY <1>1, <1>2 DEF IInv, challengeVars, history, NoOrphanChallenge, ScanBehindCounter,
     PendingAsIssued, IssuedInPast, NonceFresh, AcceptanceMarked, AcceptedAsIssued,
     NullifierSpentOnce, ChallengeAnsweredOnce

\* An accepted answer (verify_commit_impl after verify_precheck_impl)
\* preserves the invariant.
LEMMA CommitIInv ==
  ASSUME IInv, NEW caller \in Callers, NEW id \in Nat, NEW inputs \in Submissions, NEW ok,
         Verify(caller, id, inputs, ok), Precheck(caller, id, inputs), ok
  PROVE  IInv'
<1> DEFINE st == Statement(inputs)
           a == [id |-> id, caller |-> caller, at |-> now, statement |-> st]
<1>0. TypeOK
  BY DEF IInv
<1>1. /\ challenges' = [challenges EXCEPT ![id].consumed = TRUE]
      /\ nullifiers' = nullifiers \cup {canonical_nullifier(inputs.nullifier)}
      /\ accepted' = Append(accepted, a)
      /\ UNCHANGED <<issued, next_challenge_id, next_nonce, oldest_unpruned_challenge_id>>
  BY DEF Verify, Commit
<1>2. /\ id \in DOMAIN challenges /\ caller = challenges[id].requester
      /\ ~challenges[id].consumed /\ now <= challenges[id].expires_at
      /\ Matches(inputs, challenges[id]) /\ Parses(inputs.nullifier)
      /\ canonical_nullifier(inputs.nullifier) \notin nullifiers
  BY DEF Precheck
<1>3. inputs \in VerifyPublicInputs
  BY <1>0, SubmissionsTyped DEF TypeOK
<1>4. st \in PublicInputs
  <2>1. inputs.merkle_root \in WireStrings /\ inputs.nullifier \in WireStrings
    BY <1>3 DEF VerifyPublicInputs
  <2>2. parse_fe(inputs.merkle_root) \in FieldElements
        /\ parse_fe(inputs.nullifier) \in FieldElements
    BY <1>2, <2>1, ParsedInField DEF Matches
  <2> QED BY <1>3, <2>2 DEF VerifyPublicInputs, PublicInputs, Statement
<1>5. st.nullifier = parse_fe(inputs.nullifier)
      /\ canonical_nullifier(inputs.nullifier) = fe_to_string(st.nullifier)
  BY DEF Statement, canonical_nullifier
<1>6. /\ st.registry_id = challenges[id].registry_id
      /\ st.merkle_root = challenges[id].merkle_root
      /\ st.purpose = challenges[id].purpose
      /\ st.request_nonce = challenges[id].request_nonce
      /\ st.current_timestamp = challenges[id].current_timestamp
  BY <1>2 DEF Matches, Statement
<1> HIDE DEF st
<1>7. a \in Acceptance
  BY <1>0, <1>4, VerifyThrottles DEF TypeOK, Acceptance
<1>8. a.id = id /\ a.caller = caller /\ a.at = now /\ a.statement = st
  OBVIOUS
<1> HIDE DEF a
<1>9. /\ accepted' \in Seq(Acceptance) /\ Len(accepted') = Len(accepted) + 1
      /\ Len(accepted) \in Nat /\ accepted'[Len(accepted) + 1] = a
      /\ \A i \in 1..Len(accepted) : accepted'[i] = accepted[i]
  BY <1>0, <1>1, <1>7, AppendProperties, LenProperties DEF TypeOK
<1>10. /\ DOMAIN challenges' = DOMAIN challenges /\ IsMap(challenges', Nat, Challenge)
       /\ challenges'[id] = [challenges[id] EXCEPT !.consumed = TRUE]
       /\ challenges'[id].consumed
       /\ \A x \in DOMAIN challenges \ {id} : challenges'[x] = challenges[x]
  <2>1. challenges[id] \in Challenge
    BY <1>0, <1>2 DEF TypeOK, IsMap
  <2>2. [challenges[id] EXCEPT !.consumed = TRUE] \in Challenge
        /\ [challenges[id] EXCEPT !.consumed = TRUE].consumed
    BY <2>1 DEF Challenge
  <2> QED BY <1>0, <1>1, <1>2, <2>2 DEF TypeOK, IsMap
<1>11. TypeOK'
  <2>1. nullifiers' \subseteq WireStrings
    BY <1>0, <1>1, <1>4, <1>5, CanonicalIsWire DEF TypeOK, PublicInputs
  <2> QED BY <1>0, <1>1, <1>9, <1>10, <2>1, VerifyThrottles
          DEF TypeOK, Verify
<1>12. NoOrphanChallenge' /\ ScanBehindCounter'
  BY <1>1, <1>10 DEF IInv, NoOrphanChallenge, ScanBehindCounter
<1>13. PendingAsIssued'
  <2> SUFFICES ASSUME NEW x \in DOMAIN challenges'
               PROVE  /\ x \in DOMAIN issued
                      /\ challenges'[x] = [issued[x] EXCEPT !.consumed = challenges'[x].consumed]
    BY <1>1 DEF PendingAsIssued
  <2>1. /\ x \in DOMAIN issued /\ issued[x] \in Challenge
        /\ challenges[x] = [issued[x] EXCEPT !.consumed = challenges[x].consumed]
    BY <1>0, <1>10 DEF IInv, PendingAsIssued, TypeOK, IsMap
  <2>2. CASE x = id
    BY <1>10, <2>1, <2>2 DEF Challenge
  <2>3. CASE x # id
    BY <1>10, <2>1, <2>3
  <2> QED BY <2>2, <2>3
<1>14. IssuedInPast' /\ NonceFresh'
  BY <1>1 DEF IInv, IssuedInPast, NonceFresh
<1>15. AcceptanceMarked'
  <2> SUFFICES ASSUME NEW i \in 1..Len(accepted')
               PROVE  /\ accepted'[i].id \in DOMAIN challenges'
                           => challenges'[accepted'[i].id].consumed
                      /\ fe_to_string(accepted'[i].statement.nullifier) \in nullifiers'
    BY DEF AcceptanceMarked
  <2>1. CASE i \in 1..Len(accepted)
    BY <1>1, <1>9, <1>10, <2>1 DEF IInv, AcceptanceMarked
  <2>2. CASE i = Len(accepted) + 1
    BY <1>1, <1>5, <1>8, <1>9, <1>10, <2>2
  <2> QED BY <1>9, <2>1, <2>2
<1>16. AcceptedAsIssued'
  <2>1. /\ id \in DOMAIN issued /\ issued[id] \in Challenge
        /\ challenges[id] = [issued[id] EXCEPT !.consumed = challenges[id].consumed]
    BY <1>0, <1>2 DEF IInv, PendingAsIssued, TypeOK, IsMap
  <2>2. /\ caller = issued[id].requester /\ now <= issued[id].expires_at
        /\ st.registry_id = issued[id].registry_id
        /\ st.merkle_root = issued[id].merkle_root
        /\ st.purpose = issued[id].purpose
        /\ st.request_nonce = issued[id].request_nonce
        /\ st.current_timestamp = issued[id].current_timestamp
    BY <1>2, <1>6, <2>1 DEF Challenge
  <2> SUFFICES ASSUME NEW i \in 1..Len(accepted')
               PROVE  LET b == accepted'[i] IN
                      /\ b.id \in DOMAIN issued
                      /\ b.caller = issued[b.id].requester
                      /\ b.at <= issued[b.id].expires_at
                      /\ b.statement.registry_id = issued[b.id].registry_id
                      /\ b.statement.merkle_root = issued[b.id].merkle_root
                      /\ b.statement.purpose = issued[b.id].purpose
                      /\ b.statement.request_nonce = issued[b.id].request_nonce
                      /\ b.statement.current_timestamp = issued[b.id].current_timestamp
    BY <1>1 DEF AcceptedAsIssued
  <2>3. CASE i \in 1..Len(accepted)
    BY <1>9, <2>3 DEF IInv, AcceptedAsIssued
  <2>4. CASE i = Len(accepted) + 1
    BY <1>8, <1>9, <2>1, <2>2, <2>4
  <2> QED BY <1>9, <2>3, <2>4
<1>17. NullifierSpentOnce'
  <2>1. \A i \in 1..Len(accepted) : accepted[i].statement.nullifier # st.nullifier
    BY <1>2, <1>5 DEF IInv, AcceptanceMarked
  <2> QED BY <1>8, <1>9, <2>1 DEF IInv, NullifierSpentOnce
<1>18. ChallengeAnsweredOnce'
  <2>1. \A i \in 1..Len(accepted) : accepted[i].id # id
    BY <1>2 DEF IInv, AcceptanceMarked
  <2> QED BY <1>8, <1>9, <2>1 DEF IInv, ChallengeAnsweredOnce
<1> QED BY <1>11, <1>12, <1>13, <1>14, <1>15, <1>16, <1>17, <1>18 DEF IInv

\* The heartbeat prunes challenges and throttle entries (heartbeat_impl) and
\* preserves the invariant.
LEMMA HeartbeatIInv ==
  ASSUME IInv, Heartbeat
  PROVE  IInv'
<1>0. TypeOK
  BY DEF IInv
<1>1. PICK n \in oldest_unpruned_challenge_id .. next_challenge_id :
        /\ oldest_unpruned_challenge_id' = n
        /\ challenges' = [id \in DOMAIN challenges \ (oldest_unpruned_challenge_id .. n - 1)
                            |-> challenges[id]]
  BY DEF Heartbeat, PruneChallenges
<1>2. UNCHANGED <<now, current_root, next_challenge_id, next_nonce, nullifiers, issued, accepted>>
  BY DEF Heartbeat, history
<1>3. /\ IsMap(last_challenge_call_at', Principals, Nat) /\ challenge_throttle_log' \in Logs
      /\ IsMap(last_verify_call_at', Principals, Nat) /\ verify_throttle_log' \in Logs
  <2>1. /\ IsMap(last_challenge_call_at, Principals, Nat) /\ challenge_throttle_log \in Logs
        /\ IsMap(last_verify_call_at, Principals, Nat) /\ verify_throttle_log \in Logs
    BY <1>0 DEF TypeOK
  <2>2. \E k \in 0..Len(challenge_throttle_log) :
          /\ last_challenge_call_at' =
               PrunedStore(last_challenge_call_at, challenge_throttle_log, k)
          /\ challenge_throttle_log' = PrunedLog(challenge_throttle_log, k)
    BY DEF Heartbeat, PruneThrottles
  <2>3. \E k \in 0..Len(verify_throttle_log) :
          /\ last_verify_call_at' = PrunedStore(last_verify_call_at, verify_throttle_log, k)
          /\ verify_throttle_log' = PrunedLog(verify_throttle_log, k)
    BY DEF Heartbeat, PruneThrottles
  <2>4. IsMap(last_challenge_call_at', Principals, Nat) /\ challenge_throttle_log' \in Logs
    BY <2>1, <2>2, PruningKeepsThrottle
  <2>5. IsMap(last_verify_call_at', Principals, Nat) /\ verify_throttle_log' \in Logs
    BY <2>1, <2>3, PruningKeepsThrottle
  <2> QED BY <2>4, <2>5
<1>4. /\ DOMAIN challenges' \subseteq DOMAIN challenges
      /\ IsMap(challenges', Nat, Challenge)
      /\ \A id \in DOMAIN challenges' : challenges'[id] = challenges[id]
  BY <1>0, <1>1 DEF TypeOK, IsMap
<1>5. TypeOK'
  BY <1>0, <1>1, <1>2, <1>3, <1>4 DEF TypeOK
<1>6. NoOrphanChallenge' /\ ScanBehindCounter'
  BY <1>0, <1>1, <1>2 DEF IInv, TypeOK, NoOrphanChallenge, ScanBehindCounter
<1>7. PendingAsIssued' /\ IssuedInPast' /\ NonceFresh'
  BY <1>2, <1>4 DEF IInv, PendingAsIssued, IssuedInPast, NonceFresh
<1>8. AcceptanceMarked' /\ AcceptedAsIssued' /\ NullifierSpentOnce' /\ ChallengeAnsweredOnce'
  BY <1>2, <1>4 DEF IInv, AcceptanceMarked, AcceptedAsIssued, NullifierSpentOnce,
     ChallengeAnsweredOnce
<1> QED BY <1>5, <1>6, <1>7, <1>8 DEF IInv

\* Upgrades, registry updates and time leave challenges, nullifiers and the
\* history alone.
LEMMA OtherIInv ==
  ASSUME IInv, Restoration \/ SubmitRecord \/ Tick \/ UNCHANGED vars
  PROVE  IInv'
<1>1. UNCHANGED <<challengeVars, nullifiers, history>>
  BY DEF Restoration, Restored, SubmitRecord, Tick, vars
<1>2. TypeOK'
  <2>0. TypeOK
    BY DEF IInv
  <2>1. CASE Restoration
    BY <2>0, <2>1, RebuiltIsLog
       DEF Restoration, Restored, TypeOK, challengeVars, history
  <2>2. CASE SubmitRecord
    BY <2>0, <2>2 DEF SubmitRecord, TypeOK, challengeVars, throttleVars, history
  <2>3. CASE Tick
    BY <2>0, <2>3 DEF Tick, TypeOK, challengeVars, throttleVars, history
  <2>4. CASE UNCHANGED vars
    BY <2>0, <2>4 DEF vars, TypeOK, challengeVars, throttleVars, history
  <2> QED BY <2>1, <2>2, <2>3, <2>4
<1> QED BY <1>1, <1>2 DEF IInv, challengeVars, history, NoOrphanChallenge, ScanBehindCounter,
     PendingAsIssued, IssuedInPast, NonceFresh, AcceptanceMarked, AcceptedAsIssued,
     NullifierSpentOnce, ChallengeAnsweredOnce

\* Every step of the canister preserves the invariant, and so does an upgrade
\* after which another root is shown (post_upgrade).
LEMMA NextIInv == IInv /\ ([Next]_vars \/ Restoration) => IInv'
<1> SUFFICES ASSUME IInv, [Next]_vars \/ Restoration PROVE IInv'
  OBVIOUS
<1>1. CASE \E caller \in Callers, purpose \in Purposes : RequestChallenge(caller, purpose)
  BY <1>1, RequestIInv
<1>2. CASE \E caller \in Callers, id \in 0 .. next_challenge_id,
              inputs \in Submissions, ok \in BOOLEAN : Verify(caller, id, inputs, ok)
  <2>1. PICK caller \in Callers, id \in 0 .. next_challenge_id,
             inputs \in Submissions, ok \in BOOLEAN : Verify(caller, id, inputs, ok)
    BY <1>2
  <2>2. id \in Nat
    BY DEF IInv, TypeOK
  <2>3. CASE Precheck(caller, id, inputs) /\ ok
    BY <2>1, <2>2, <2>3, CommitIInv
  <2>4. CASE ~(Precheck(caller, id, inputs) /\ ok)
    BY <2>1, <2>4, RefusedIInv
  <2> QED BY <2>3, <2>4
<1>3. CASE Heartbeat
  BY <1>3, HeartbeatIInv
<1>4. CASE Restoration \/ SubmitRecord \/ Tick \/ UNCHANGED vars
  BY <1>4, OtherIInv
<1>5. CASE Upgrade
  BY <1>5, OtherIInv DEF Upgrade, Restoration, IInv, TypeOK
<1> QED BY <1>1, <1>2, <1>3, <1>4, <1>5 DEF Next

\* A challenge starts unconsumed (request_challenge_impl), the heartbeat drops
\* none before its deadline, and an accepted answer leaves its marks in the
\* same call (verify_commit_impl).
LEMMA NextAnswerable ==
  IInv /\ Answerable /\ ([Next]_vars \/ Restoration) => Answerable'
<1> SUFFICES ASSUME IInv, Answerable, [Next]_vars \/ Restoration PROVE Answerable'
  OBVIOUS
<1>0. TypeOK /\ \A id \in DOMAIN issued : issued[id].expires_at \in Nat
  BY DEF IInv, TypeOK, IsMap, Challenge
<1>1. ASSUME NEW caller \in Callers, NEW purpose \in Purposes, RequestChallenge(caller, purpose)
      PROVE  Answerable'
  <2> DEFINE new == NewChallenge(caller, purpose)
             id == next_challenge_id
  <2>1. /\ challenges' = Inserted(challenges, id, new) /\ issued' = Inserted(issued, id, new)
        /\ UNCHANGED <<now, accepted, nullifiers>>
    BY <1>1 DEF RequestChallenge
  <2>2. ~new.consumed
    BY DEF NewChallenge
  <2> HIDE DEF new
  <2>3. /\ DOMAIN issued' = DOMAIN issued \cup {id}
        /\ \A x \in DOMAIN issued \ {id} : issued'[x] = issued[x]
    BY <2>1 DEF Inserted
  <2>4. /\ DOMAIN challenges' = DOMAIN challenges \cup {id} /\ challenges'[id] = new
        /\ \A x \in DOMAIN challenges \ {id} : challenges'[x] = challenges[x]
    BY <2>1 DEF Inserted
  <2> QED BY <2>1, <2>2, <2>3, <2>4 DEF Answerable
<1>2. ASSUME NEW caller \in Callers, NEW id \in 0 .. next_challenge_id,
             NEW inputs \in Submissions, NEW ok, Verify(caller, id, inputs, ok)
      PROVE  Answerable'
  <2>1. UNCHANGED <<now, issued>>
    BY <1>2 DEF Verify
  <2>2. CASE ~(Precheck(caller, id, inputs) /\ ok)
    BY <1>2, <2>1, <2>2 DEF Verify, Answerable
  <2>3. CASE Precheck(caller, id, inputs) /\ ok
    <3> DEFINE st == Statement(inputs)
               a == [id |-> id, caller |-> caller, at |-> now, statement |-> st]
    <3>1. /\ challenges' = [challenges EXCEPT ![id].consumed = TRUE]
          /\ nullifiers' = nullifiers \cup {canonical_nullifier(inputs.nullifier)}
          /\ accepted' = Append(accepted, a)
      BY <1>2, <2>3 DEF Verify, Commit
    <3>2. canonical_nullifier(inputs.nullifier) = fe_to_string(st.nullifier)
      BY DEF Statement, canonical_nullifier
    <3> HIDE DEF st
    <3>3. a.id = id /\ a.statement = st
      OBVIOUS
    <3> HIDE DEF a
    <3>4. /\ Len(accepted) \in Nat /\ Len(accepted') = Len(accepted) + 1
          /\ accepted'[Len(accepted) + 1] = a
          /\ \A i \in 1..Len(accepted) : accepted'[i] = accepted[i]
      <4>1. /\ accepted \in Seq(Acceptance) /\ accepted' \in Seq(Acceptance)
        <5>1. IInv'
          <6>1. id \in Nat
            BY <1>0 DEF TypeOK
          <6> QED BY <1>2, <2>3, <6>1, CommitIInv
        <5> QED BY <1>0, <5>1 DEF IInv, TypeOK
      <4> QED BY <3>1, <4>1, AppendProperties, LenProperties
    <3>5. /\ Len(accepted) + 1 \in 1..Len(accepted')
          /\ \A i \in 1..Len(accepted) : i \in 1..Len(accepted')
      BY <3>4
    <3>6. \A x \in DOMAIN challenges' :
            x \in DOMAIN challenges /\ (x # id => challenges'[x] = challenges[x])
      BY <3>1
    <3>7. \A x \in DOMAIN challenges : x \in DOMAIN challenges'
      BY <3>1
    <3>8. \A x \in DOMAIN issued' : now' <= issued'[x].expires_at => x \in DOMAIN challenges'
      BY <2>1, <3>7 DEF Answerable
    <3>9. \A x \in DOMAIN challenges' : challenges'[x].consumed =>
            \E i \in 1..Len(accepted') : accepted'[i].id = x
      <4> SUFFICES ASSUME NEW x \in DOMAIN challenges', challenges'[x].consumed
                   PROVE  \E i \in 1..Len(accepted') : accepted'[i].id = x
        OBVIOUS
      <4>1. CASE x = id
        BY <3>3, <3>4, <3>5, <4>1
      <4>2. CASE x # id
        <5>1. PICK i \in 1..Len(accepted) : accepted[i].id = x
          BY <3>6, <4>2 DEF Answerable
        <5> QED BY <3>4, <3>5, <5>1
      <4> QED BY <4>1, <4>2
    <3>10. \A w \in nullifiers' :
             \E i \in 1..Len(accepted') : w = fe_to_string(accepted'[i].statement.nullifier)
      <4> SUFFICES ASSUME NEW w \in nullifiers'
                   PROVE  \E i \in 1..Len(accepted') :
                            w = fe_to_string(accepted'[i].statement.nullifier)
        OBVIOUS
      <4>1. CASE w \in nullifiers
        <5>1. PICK i \in 1..Len(accepted) : w = fe_to_string(accepted[i].statement.nullifier)
          BY <4>1 DEF Answerable
        <5> QED BY <3>4, <3>5, <5>1
      <4>2. CASE w \notin nullifiers
        <5>1. w = fe_to_string(st.nullifier)
          BY <3>1, <3>2, <4>2
        <5> QED BY <3>3, <3>4, <3>5, <5>1
      <4> QED BY <4>1, <4>2
    <3> QED BY <3>8, <3>9, <3>10 DEF Answerable
  <2> QED BY <2>2, <2>3
<1>3. CASE Heartbeat
  <2>1. UNCHANGED <<now, nullifiers, issued, accepted>>
    BY <1>3 DEF Heartbeat, history
  <2>2. PICK n \in oldest_unpruned_challenge_id .. next_challenge_id :
          /\ \A id \in oldest_unpruned_challenge_id .. n - 1 : Prunable(id)
          /\ challenges' = [id \in DOMAIN challenges \ (oldest_unpruned_challenge_id .. n - 1)
                              |-> challenges[id]]
    BY <1>3 DEF Heartbeat, PruneChallenges, ScanEnd
  <2>3. ASSUME NEW id \in DOMAIN issued, now <= issued[id].expires_at
        PROVE  id \in DOMAIN challenges'
    <3>1. id \in DOMAIN challenges /\ challenges[id].expires_at = issued[id].expires_at
      BY <1>0, <2>3 DEF Answerable, IInv, PendingAsIssued, TypeOK, IsMap, Challenge
    <3>2. ~Prunable(id)
      BY <1>0, <2>3, <3>1 DEF Prunable, TypeOK
    <3> QED BY <2>2, <3>1, <3>2
  <2>4. \A id \in DOMAIN challenges' : id \in DOMAIN challenges /\ challenges'[id] = challenges[id]
    BY <2>2
  <2> QED BY <2>1, <2>3, <2>4 DEF Answerable
<1>4. CASE Tick
  BY <1>0, <1>4 DEF Tick, Answerable, TypeOK, challengeVars, history
<1>5. CASE Upgrade \/ Restoration \/ SubmitRecord \/ UNCHANGED vars
  BY <1>5 DEF Upgrade, Restoration, Restored, SubmitRecord, vars, Answerable, challengeVars,
     history
<1> QED BY <1>1, <1>2, <1>3, <1>4, <1>5 DEF Next

\* No challenge is issued, and no nullifier spent, in the beginning.
LEMMA InitAnswerable == Init => Answerable
BY DEF Init, Answerable, NoEntries

-----------------------------------------------------------------------------
(* The theorems *)

\* The invariant holds in every state the canister can reach.
THEOREM Invariance == Spec => []IInv
BY InitIInv, NextIInv, PTL DEF Spec

\* Nothing but an accepted answer or the deadline is ever held against an
\* answer: no refused call, heartbeat or upgrade uses up a challenge or a
\* nullifier.
THEOREM StayAnswerable == Spec => []Answerable
BY InitAnswerable, NextAnswerable, Invariance, PTL DEF Spec

\* The state keeps its type.
THEOREM TypeCorrect == Spec => []TypeOK
BY Invariance, PTL DEF IInv

\* A nullifier, as a field element, is spent at most once.
THEOREM NoDoubleSpend == Spec => []NullifierSpentOnce
BY Invariance, PTL DEF IInv

\* A challenge is answered at most once, also after it has been pruned.
THEOREM NoReplay == Spec => []ChallengeAnsweredOnce
BY Invariance, PTL DEF IInv

\* Answers are accepted only from the requester, in time, for the inputs of
\* the very challenge they answer.
THEOREM AnswersMatchIssue == Spec => []AcceptedAsIssued
BY Invariance, PTL DEF IInv

\* The heartbeat neither loses nor skips a challenge.
THEOREM NoOrphans == Spec => []NoOrphanChallenge
BY Invariance, PTL DEF IInv

\* No nonce is issued twice.
THEOREM NoncesAreFresh == Spec => []NonceFresh
BY Invariance, PTL DEF IInv

\* Nothing but an accepted answer takes an unexpired challenge from its
\* requester.
THEOREM ChallengesAreSafe == Spec => OnlyAnswersConsume
<1> DEFINE Unharmed(id) ==
      \/ id \in DOMAIN challenges' /\ challenges'[id] = challenges[id]
      \/ now > challenges[id].expires_at
      \/ /\ Len(accepted') > Len(accepted)
         /\ accepted'[Len(accepted')].id = id
<1>1. IInv /\ [Next]_vars => [\A id \in DOMAIN challenges : Unharmed(id)]_vars
  <2> SUFFICES ASSUME IInv, Next, NEW id \in DOMAIN challenges PROVE Unharmed(id)
    OBVIOUS
  <2>0. TypeOK /\ id \in Nat /\ id # next_challenge_id
    BY DEF IInv, TypeOK, IsMap, NoOrphanChallenge
  <2>1. CASE \E caller \in Callers, purpose \in Purposes : RequestChallenge(caller, purpose)
    BY <2>0, <2>1 DEF RequestChallenge, Inserted
  <2>2. CASE \E caller \in Callers, x \in 0 .. next_challenge_id,
                inputs \in Submissions, ok \in BOOLEAN : Verify(caller, x, inputs, ok)
    <3>1. PICK caller \in Callers, x \in 0 .. next_challenge_id,
               inputs \in Submissions, ok \in BOOLEAN : Verify(caller, x, inputs, ok)
      BY <2>2
    <3>2. CASE ~(Precheck(caller, x, inputs) /\ ok)
      BY <3>1, <3>2 DEF Verify
    <3>3. CASE Precheck(caller, x, inputs) /\ ok
      <4> DEFINE a == [id |-> x, caller |-> caller, at |-> now, statement |-> Statement(inputs)]
      <4>1. challenges' = [challenges EXCEPT ![x].consumed = TRUE]
            /\ accepted' = Append(accepted, a)
        BY <3>1, <3>3 DEF Verify, Commit
      <4>2. CASE x # id
        BY <2>0, <4>1, <4>2 DEF TypeOK, IsMap
      <4>3. CASE x = id
        <5>1. a.id = id
          BY <4>3
        <5>2. Len(accepted) \in Nat
          BY <2>0, LenProperties DEF TypeOK
        <5> HIDE DEF a
        <5>3. Len(accepted') = Len(accepted) + 1 /\ accepted'[Len(accepted')] = a
          BY <2>0, <4>1, <5>2 DEF TypeOK
        <5> QED BY <5>1, <5>2, <5>3
      <4> QED BY <4>2, <4>3
    <3> QED BY <3>2, <3>3
  <2>3. CASE Heartbeat
    <3>1. PICK n \in oldest_unpruned_challenge_id .. next_challenge_id :
            /\ ScanEnd(n)
            /\ challenges' = [x \in DOMAIN challenges \ (oldest_unpruned_challenge_id .. n - 1)
                                |-> challenges[x]]
      BY <2>3 DEF Heartbeat, PruneChallenges
    <3>2. CASE id \in oldest_unpruned_challenge_id .. n - 1
      BY <3>1, <3>2 DEF ScanEnd, Prunable
    <3>3. CASE id \notin oldest_unpruned_challenge_id .. n - 1
      BY <3>1, <3>3
    <3> QED BY <3>2, <3>3
  <2>4. CASE Upgrade \/ SubmitRecord \/ Tick
    BY <2>4 DEF Upgrade, Restored, SubmitRecord, Tick, challengeVars
  <2> QED BY <2>1, <2>2, <2>3, <2>4 DEF Next
<1> QED BY Invariance, <1>1, PTL DEF Spec, OnlyAnswersConsume

-----------------------------------------------------------------------------
(* The rights: what else holds in every state, and the mapping named *)

\* Ids and nonces are handed out together, and the clock stays within the
\* model's bound: the terms of a right are one of Bindings.
Bounded ==
  /\ now <= MaxTime
  /\ next_nonce = next_challenge_id

RInv == IInv /\ Bounded

\* The mapping, named.
RightsMap ==
  [id \in DOMAIN issued |-> [holder |-> issued[id].requester,
                             terms  |-> BoundTo(issued[id])]]

OpenMap == {id \in DOMAIN issued \ Answered : now <= issued[id].expires_at}

IdsOf(acc) == {acc[i].id : i \in 1..Len(acc)}

EntryOf(a) ==
  [by |-> a.caller, terms |-> BoundTo(a.statement), mark |-> a.statement.nullifier]

AnswerIn(acc, id) == acc[CHOOSE i \in 1..Len(acc) : acc[i].id = id]

AnswersIn(acc) == [id \in IdsOf(acc) |-> EntryOf(AnswerIn(acc, id))]

-----------------------------------------------------------------------------
(* Lemmas about the history of answers *)

\* If no id occurs twice, the answer found for an id is the one given.
LEMMA AnswerFound ==
  ASSUME NEW acc, NEW i \in 1..Len(acc),
         \A j, k \in 1..Len(acc) : acc[j].id = acc[k].id => j = k
  PROVE  AnswerIn(acc, acc[i].id) = acc[i]
<1> DEFINE j == CHOOSE x \in 1..Len(acc) : acc[x].id = acc[i].id
<1>1. j \in 1..Len(acc) /\ acc[j].id = acc[i].id
  OBVIOUS
<1>2. j = i
  BY <1>1
<1> QED BY <1>2 DEF AnswerIn

\* One more answer, to a challenge not answered before, adds its entry and
\* keeps every other (verify_commit_impl).
LEMMA AnswerAdded ==
  ASSUME NEW acc \in Seq(Acceptance), NEW a \in Acceptance, a.id \notin IdsOf(acc),
         \A j, k \in 1..Len(acc) : acc[j].id = acc[k].id => j = k
  PROVE  /\ IdsOf(Append(acc, a)) = IdsOf(acc) \cup {a.id}
         /\ AnswersIn(Append(acc, a)) =
              [x \in IdsOf(acc) \cup {a.id} |->
                 IF x = a.id THEN EntryOf(a) ELSE AnswersIn(acc)[x]]
<1> DEFINE app == Append(acc, a)
<1>1. /\ Len(acc) \in Nat /\ Len(app) = Len(acc) + 1 /\ app[Len(acc) + 1] = a
      /\ \A i \in 1..Len(acc) : app[i] = acc[i]
  BY AppendProperties, LenProperties
<1> HIDE DEF app
<1>2. IdsOf(app) = IdsOf(acc) \cup {a.id}
  <2>1. \A i \in 1..Len(app) : i \in 1..Len(acc) \/ i = Len(acc) + 1
    BY <1>1
  <2>2. 1..Len(acc) \subseteq 1..Len(app) /\ Len(acc) + 1 \in 1..Len(app)
    BY <1>1
  <2> QED BY <1>1, <2>1, <2>2 DEF IdsOf
<1>3. \A j, k \in 1..Len(app) : app[j].id = app[k].id => j = k
  <2>1. \A i \in 1..Len(acc) : acc[i].id # a.id
    BY DEF IdsOf
  <2> QED BY <1>1, <2>1
<1>4. AnswerIn(app, a.id) = a
  BY <1>1, <1>3, AnswerFound
<1>5. \A x \in IdsOf(acc) : x # a.id /\ AnswerIn(app, x) = AnswerIn(acc, x)
  <2> SUFFICES ASSUME NEW i \in 1..Len(acc)
               PROVE  AnswerIn(app, acc[i].id) = AnswerIn(acc, acc[i].id)
    BY DEF IdsOf
  <2>1. AnswerIn(acc, acc[i].id) = acc[i]
    BY AnswerFound
  <2>2. i \in 1..Len(app) /\ app[i] = acc[i]
    BY <1>1
  <2>3. AnswerIn(app, app[i].id) = app[i]
    BY <1>3, <2>2, AnswerFound
  <2> QED BY <2>1, <2>2, <2>3
<1>6. \A x \in IdsOf(acc) : AnswersIn(acc)[x] = EntryOf(AnswerIn(acc, x))
  BY DEF AnswersIn
<1>7. AnswersIn(app) = [x \in IdsOf(acc) \cup {a.id} |->
                          IF x = a.id THEN EntryOf(a) ELSE AnswersIn(acc)[x]]
  BY <1>2, <1>4, <1>5, <1>6 DEF AnswersIn
<1> QED BY <1>2, <1>7 DEF app

-----------------------------------------------------------------------------
(* The bounds *)

\* The invariant holds initially (fresh_state).
LEMMA InitRInv == Init => RInv
<1>1. Init => Bounded
  BY ChallengeAssumption DEF Init, Bounded
<1> QED BY <1>1, InitIInv DEF RInv

\* Nonces and ids move together and the clock stays below its bound
\* (request_challenge_impl takes both counters in one call).
LEMMA NextRInv == RInv /\ ([Next]_vars \/ Restoration) => RInv'
<1> SUFFICES ASSUME IInv, Bounded, [Next]_vars \/ Restoration PROVE Bounded'
  BY NextIInv DEF RInv
<1>1. CASE \E caller \in Callers, purpose \in Purposes : RequestChallenge(caller, purpose)
  BY <1>1 DEF Bounded, RequestChallenge
<1>2. CASE \E caller \in Callers, id \in 0 .. next_challenge_id,
              inputs \in Submissions, ok \in BOOLEAN : Verify(caller, id, inputs, ok)
  BY <1>2 DEF Bounded, Verify
<1>3. CASE Tick
  BY <1>3, ChallengeAssumption DEF Bounded, Tick, challengeVars, IInv, TypeOK
<1>4. CASE Heartbeat \/ Upgrade \/ Restoration \/ SubmitRecord \/ UNCHANGED vars
  BY <1>4 DEF Bounded, Heartbeat, Upgrade, Restoration, Restored, SubmitRecord, vars,
     challengeVars
<1> QED BY <1>1, <1>2, <1>3, <1>4 DEF Next

-----------------------------------------------------------------------------
(* The steps *)

\* The names above are what the mapping of ChallengeVerify says.
LEMMA Mapping ==
  /\ Answered = IdsOf(accepted)
  /\ [id \in Answered |-> [by    |-> AnswerTo(id).caller,
                           terms |-> BoundTo(AnswerTo(id).statement),
                           mark  |-> AnswerTo(id).statement.nullifier]]
       = AnswersIn(accepted)
BY DEF Answered, IdsOf, AnswersIn, EntryOf, AnswerIn, AnswerTo

\* Only what was issued has been answered.
LEMMA AnsweredIssued ==
  ASSUME IInv
  PROVE  IdsOf(accepted) \subseteq DOMAIN issued
BY DEF IInv, AcceptedAsIssued, IdsOf

\* The canister starts with no rights (fresh_state).
LEMMA InitRights == Init => Rights!Init
<1> SUFFICES ASSUME Init PROVE Rights!Init
  OBVIOUS
<1>1. DOMAIN issued = {} /\ IdsOf(accepted) = {}
  BY EmptySeq DEF Init, NoEntries, IdsOf
<1>2. Answered = {} /\ OpenMap = {}
  BY <1>1, Mapping DEF OpenMap
<1> QED BY <1>1, <1>2 DEF Rights!Init, OpenMap

\* Whole seconds are no more than the clock they are taken from
\* (current_timestamp = now / 1_000_000_000).
LEMMA SecondsBelow ==
  ASSUME NEW n \in Nat
  PROVE  n \div Second \in 0..n
BY ChallengeAssumption

\* request_challenge issues a right to the caller.
LEMMA RequestIssues ==
  ASSUME RInv, NEW caller \in Callers, NEW purpose \in Purposes,
         RequestChallenge(caller, purpose),
         NEW id, id = next_challenge_id,
         NEW right, right = [holder |-> caller,
                             terms  |-> BoundTo(NewChallenge(caller, purpose))]
  PROVE  Rights!Next
<1> DEFINE new == NewChallenge(caller, purpose)
<1>0. TypeOK /\ caller \in Principals /\ id \in Nat
  BY CallKeepsThrottle DEF RInv, IInv, RequestChallenge, TypeOK
<1>1. /\ issued' = Inserted(issued, id, new) /\ accepted' = accepted /\ now' = now
      /\ id < MaxChallenges
  BY DEF RequestChallenge
<1>2. id \notin DOMAIN issued
  BY <1>0 DEF RInv, IInv, TypeOK, IssuedInPast
<1>3. right \in Rights!Right
  <2>1. BoundTo(new) \in Bindings
    <3>1. now \div Second \in 0 .. MaxTime
      BY <1>0, SecondsBelow, ChallengeAssumption DEF TypeOK, RInv, Bounded
    <3>2. next_nonce \in 0 .. MaxChallenges - 1
      BY <1>0, <1>1, ChallengeAssumption DEF RInv, Bounded
    <3> QED BY <1>0, <3>1, <3>2 DEF NewChallenge, BoundTo, Bindings, TypeOK
  <2> QED BY <1>0, <2>1 DEF Rights!Right
<1>4. /\ new.requester = caller /\ now <= new.expires_at
      /\ right = [holder |-> caller, terms |-> BoundTo(new)]
  BY <1>0, ChallengeAssumption DEF NewChallenge, TypeOK
<1>5. id \notin Answered /\ Answered' = Answered
  BY <1>1, <1>2, Mapping, AnsweredIssued DEF RInv, Answered
<1> HIDE DEF new
<1>6. /\ DOMAIN issued' = DOMAIN issued \cup {id} /\ issued'[id] = new
      /\ \A x \in DOMAIN issued : issued'[x] = issued[x]
  BY <1>1, <1>2 DEF Inserted
<1>7. RightsMap' = [x \in DOMAIN RightsMap \cup {id} |->
                      IF x = id THEN right ELSE RightsMap[x]]
  BY <1>2, <1>4, <1>6 DEF RightsMap
<1>8. OpenMap' = OpenMap \cup {id}
  BY <1>1, <1>2, <1>4, <1>5, <1>6 DEF OpenMap
<1>9. [x \in Answered |-> [by    |-> AnswerTo(x).caller,
                           terms |-> BoundTo(AnswerTo(x).statement),
                           mark  |-> AnswerTo(x).statement.nullifier]]'
        = [x \in Answered |-> [by    |-> AnswerTo(x).caller,
                               terms |-> BoundTo(AnswerTo(x).statement),
                               mark  |-> AnswerTo(x).statement.nullifier]]
  BY <1>1 DEF Answered, AnswerTo
<1>10. Rights!Issue(id, right)
  BY <1>7, <1>8, <1>9 DEF Rights!Issue, RightsMap, OpenMap
<1>11. id \in (0 .. MaxChallenges - 1) \ DOMAIN RightsMap
  BY <1>0, <1>1, <1>2, ChallengeAssumption DEF RightsMap
<1> QED BY <1>3, <1>10, <1>11 DEF Rights!Next, RightsMap

\* An accepted verify answers a right, with a mark no other answer has.
LEMMA CommitAnswers ==
  ASSUME RInv, NEW caller \in Callers, NEW id \in Nat, NEW inputs \in Submissions, NEW ok,
         Verify(caller, id, inputs, ok), Precheck(caller, id, inputs), ok
  PROVE  Rights!Next
<1> DEFINE st == Statement(inputs)
           a == [id |-> id, caller |-> caller, at |-> now, statement |-> st]
<1>0. TypeOK /\ IInv
  BY DEF RInv, IInv
<1>1. /\ accepted' = Append(accepted, a) /\ issued' = issued /\ now' = now
      /\ IInv'
  BY CommitIInv, <1>0 DEF Verify, Commit
<1>2. /\ id \in DOMAIN challenges /\ caller = challenges[id].requester
      /\ ~challenges[id].consumed /\ now <= challenges[id].expires_at
      /\ Matches(inputs, challenges[id])
  BY DEF Precheck
<1>3. /\ id \in DOMAIN issued /\ issued[id] \in Challenge
      /\ challenges[id] = [issued[id] EXCEPT !.consumed = challenges[id].consumed]
  BY <1>0, <1>2 DEF IInv, PendingAsIssued, TypeOK, IsMap
<1>4. caller = issued[id].requester /\ now <= issued[id].expires_at
  BY <1>2, <1>3 DEF Challenge
<1>5. BoundTo(st) = BoundTo(issued[id])
  BY <1>2, <1>3 DEF Matches, Statement, BoundTo, Challenge
<1>6. id \notin IdsOf(accepted)
  BY <1>0, <1>2 DEF IInv, AcceptanceMarked, IdsOf
<1> HIDE DEF st
<1>7. a.id = id /\ a.caller = caller /\ a.statement = st
  OBVIOUS
<1> HIDE DEF a
<1>8. Len(accepted) \in Nat /\ a \in Acceptance
      /\ Len(accepted') = Len(accepted) + 1 /\ accepted'[Len(accepted) + 1] = a
      /\ \A i \in 1..Len(accepted) : accepted'[i] = accepted[i]
  <2>1. caller \in Principals /\ now \in Nat /\ inputs \in VerifyPublicInputs
    BY <1>0, VerifyThrottles, SubmissionsTyped DEF TypeOK
  <2>2. accepted \in Seq(Acceptance) /\ accepted' \in Seq(Acceptance)
    BY <1>0, <1>1 DEF IInv, TypeOK
  <2>3. Len(accepted) \in Nat /\ Len(accepted') = Len(accepted) + 1
        /\ accepted'[Len(accepted) + 1] = a
        /\ \A i \in 1..Len(accepted) : accepted'[i] = accepted[i]
    BY <1>1, <2>2, AppendProperties, LenProperties
  <2> QED BY <2>2, <2>3
<1>9. /\ IdsOf(accepted') = IdsOf(accepted) \cup {id}
      /\ AnswersIn(accepted') = [x \in IdsOf(accepted) \cup {id} |->
                                   IF x = id THEN EntryOf(a) ELSE AnswersIn(accepted)[x]]
  <2>1. /\ accepted \in Seq(Acceptance) /\ a \in Acceptance /\ a.id \notin IdsOf(accepted)
        /\ \A j, k \in 1..Len(accepted) : accepted[j].id = accepted[k].id => j = k
    BY <1>0, <1>6, <1>7, <1>8 DEF IInv, TypeOK, ChallengeAnsweredOnce
  <2>2. /\ IdsOf(Append(accepted, a)) = IdsOf(accepted) \cup {a.id}
        /\ AnswersIn(Append(accepted, a)) =
             [x \in IdsOf(accepted) \cup {a.id} |->
                IF x = a.id THEN EntryOf(a) ELSE AnswersIn(accepted)[x]]
    BY <2>1, AnswerAdded
  <2> QED BY <1>1, <1>7, <2>2
<1>10. EntryOf(a) = [by    |-> RightsMap[id].holder,
                     terms |-> RightsMap[id].terms,
                     mark  |-> st.nullifier]
  BY <1>3, <1>4, <1>5, <1>7 DEF EntryOf, RightsMap
<1>11. st.nullifier \in FieldElements
  BY <1>7, <1>8 DEF Acceptance, PublicInputs
<1>12. \A x \in IdsOf(accepted) : AnswersIn(accepted)[x].mark # st.nullifier
  <2> SUFFICES ASSUME NEW i \in 1..Len(accepted)
               PROVE  AnswersIn(accepted)[accepted[i].id].mark # st.nullifier
    BY DEF IdsOf
  <2>1. AnswerIn(accepted, accepted[i].id) = accepted[i]
    BY <1>0, AnswerFound DEF IInv, ChallengeAnsweredOnce
  <2>2. AnswersIn(accepted)[accepted[i].id].mark = accepted[i].statement.nullifier
    BY <2>1 DEF AnswersIn, IdsOf, EntryOf
  <2>3. accepted[i].statement.nullifier # st.nullifier
    BY <1>1, <1>7, <1>8 DEF IInv, NullifierSpentOnce
  <2> QED BY <2>2, <2>3
<1>13. id \in OpenMap /\ OpenMap' = OpenMap \ {id} /\ RightsMap' = RightsMap
  <2>1. Answered = IdsOf(accepted) /\ Answered' = IdsOf(accepted')
    BY DEF Answered, IdsOf
  <2> QED BY <1>1, <1>3, <1>4, <1>6, <1>9, <2>1 DEF OpenMap, RightsMap
<1> DEFINE Shown(x) == [by    |-> AnswerTo(x).caller,
                        terms |-> BoundTo(AnswerTo(x).statement),
                        mark  |-> AnswerTo(x).statement.nullifier]
<1>14. /\ [x \in Answered |-> Shown(x)] = AnswersIn(accepted)
       /\ [x \in Answered |-> Shown(x)]' = AnswersIn(accepted')
  BY DEF Answered, IdsOf, AnswersIn, EntryOf, AnswerIn, AnswerTo
<1>15. Rights!Answer(id, st.nullifier)
  <2>1. DOMAIN AnswersIn(accepted) = IdsOf(accepted)
    BY DEF AnswersIn
  <2> QED BY <1>9, <1>10, <1>12, <1>13, <1>14, <2>1 DEF Rights!Answer, RightsMap, OpenMap
<1> QED BY <1>11, <1>13, <1>15 DEF Rights!Next, OpenMap
\* A refused or throttled call, the heartbeat, an upgrade and a submission
\* change nothing a holder of rights can see.
LEMMA Invisible ==
  ASSUME UNCHANGED <<issued, accepted, now>>
  PROVE  UNCHANGED Rights!vars
BY DEF Rights!vars, Answered, AnswerTo

\* The passing of time (ic_cdk::api::time) closes the rights it outlives.
LEMMA TickLapses ==
  ASSUME RInv, Tick
  PROVE  Rights!Next
<1>1. now \in Nat /\ now' = now + 1 /\ issued' = issued /\ accepted' = accepted
  BY DEF RInv, IInv, TypeOK, Tick, history
<1>2. \A x \in DOMAIN issued : issued[x].expires_at \in Nat
  BY DEF RInv, IInv, TypeOK, IsMap, Challenge
<1>3. Answered' = Answered
  BY <1>1 DEF Answered
<1>4. OpenMap' \subseteq OpenMap
  BY <1>1, <1>2, <1>3 DEF OpenMap
<1>5. RightsMap' = RightsMap
  BY <1>1 DEF RightsMap
<1> DEFINE Shown(x) == [by    |-> AnswerTo(x).caller,
                        terms |-> BoundTo(AnswerTo(x).statement),
                        mark  |-> AnswerTo(x).statement.nullifier]
<1>6. [x \in Answered |-> Shown(x)]' = [x \in Answered |-> Shown(x)]
  BY <1>1 DEF Answered, AnswerTo
<1>7. ASSUME NEW ids, ids = OpenMap \ OpenMap'
      PROVE  ids \in SUBSET OpenMap /\ Rights!Lapse(ids)
  <2>1. ids \subseteq OpenMap /\ OpenMap' = OpenMap \ ids
    BY <1>4, <1>7
  <2> QED BY <1>5, <1>6, <2>1 DEF Rights!Lapse, RightsMap, OpenMap
<1> QED BY <1>7 DEF Rights!Next, OpenMap

\* Every step of the canister is one of the rights' or invisible to them, also
\* an upgrade after which another root is shown.
LEMMA NextRights == RInv /\ ([Next]_vars \/ Restoration) => [Rights!Next]_(Rights!vars)
<1> SUFFICES ASSUME RInv, [Next]_vars \/ Restoration
             PROVE  Rights!Next \/ UNCHANGED Rights!vars
  OBVIOUS
<1>1. CASE \E caller \in Callers, purpose \in Purposes : RequestChallenge(caller, purpose)
  BY <1>1, RequestIssues
<1>2. CASE \E caller \in Callers, id \in 0 .. next_challenge_id,
              inputs \in Submissions, ok \in BOOLEAN : Verify(caller, id, inputs, ok)
  <2>1. PICK caller \in Callers, id \in 0 .. next_challenge_id,
             inputs \in Submissions, ok \in BOOLEAN : Verify(caller, id, inputs, ok)
    BY <1>2
  <2>2. id \in Nat
    BY DEF RInv, IInv, TypeOK
  <2>3. CASE Precheck(caller, id, inputs) /\ ok
    BY <2>1, <2>2, <2>3, CommitAnswers
  <2>4. CASE ~(Precheck(caller, id, inputs) /\ ok)
    BY <2>1, <2>4, Invisible DEF Verify
  <2> QED BY <2>3, <2>4
<1>3. CASE Heartbeat \/ Upgrade \/ Restoration \/ SubmitRecord \/ UNCHANGED vars
  BY <1>3, Invisible
     DEF Heartbeat, Upgrade, Restoration, Restored, SubmitRecord, history, vars
<1>4. CASE Tick
  BY <1>4, TickLapses
<1> QED BY <1>1, <1>2, <1>3, <1>4 DEF Next

-----------------------------------------------------------------------------
(* The refinement *)

\* The canister's challenges are the rights VerificationRights promises: each
\* is answered at most once, by its holder, on its terms, with a fresh mark,
\* while it is open, or it lapses, and no other call shows.
THEOREM ImplementsRights == Spec => RightsKept
BY InitRights, InitRInv, NextRInv, NextRights, PTL DEF Spec, RightsKept, Rights!Spec
=============================================================================
