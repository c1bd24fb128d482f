--------------------------- MODULE ChallengeVerify ---------------------------
(***************************************************************************)
(* The challenge and verification half of the title_verifier canister:     *)
(* request_challenge, verify, the heartbeat, and canister upgrades, called *)
(* by any number of principals in any order.                               *)
(*                                                                         *)
(* An update call of the canister runs to completion without an await, so  *)
(* each call is one action.  A call the throttle turns away, or one that   *)
(* traps, changes nothing and is a stuttering step.                        *)
(*                                                                         *)
(* The registry is reduced to the root it shows: submit_record replaces    *)
(* current_root by some other field element (MerkleRegistry has the tree). *)
(* The proof system is reduced to its verdict on a proof, accept or not,   *)
(* chosen freely: what the canister guarantees here may not lean on it.    *)
(*                                                                         *)
(* Two variables are history only: issued, every challenge ever handed     *)
(* out, and accepted, the calls of verify that returned Ok, in order.      *)
(***************************************************************************)
EXTENDS Throttle, FieldElement

CONSTANTS
  Purposes,         \* purposes a challenge is requested for
  RegistryIds,      \* numbers submitted as registry_id
  RootWires,        \* strings submitted as merkle_root
  NullifierWires,   \* strings submitted as nullifier
  ChallengeTTL,     \* CHALLENGE_TTL_NS
  Second,           \* 1_000_000_000, time units per second
  MaxTime,          \* bound: the clock stops here
  MaxChallenges     \* bound: number of challenges ever issued

ASSUME ChallengeAssumption ==
  /\ RegistryIds \subseteq Nat
  /\ RootWires \subseteq WireStrings
  /\ NullifierWires \subseteq WireStrings
  /\ ChallengeTTL \in Nat
  /\ Second \in Nat \ {0}
  /\ MaxTime \in Nat
  /\ MaxChallenges \in Nat

REGISTRY_ID == 1

VARIABLES
  now,                           \* ic_cdk::api::time()
  current_root,
  challenges,                    \* a partial function from ids
  next_challenge_id,
  next_nonce,
  oldest_unpruned_challenge_id,
  nullifiers,                    \* the spent canonical strings
  last_challenge_call_at,
  last_verify_call_at,
  challenge_throttle_log,
  verify_throttle_log,
  issued,                        \* history
  accepted                       \* history

challengeVars == <<challenges, next_challenge_id, next_nonce,
                   oldest_unpruned_challenge_id>>
throttleVars == <<last_challenge_call_at, last_verify_call_at,
                  challenge_throttle_log, verify_throttle_log>>
history == <<issued, accepted>>
vars == <<now, current_root, challengeVars, nullifiers, throttleVars, history>>

Challenge ==
  [registry_id       : Nat,
   merkle_root       : FieldElements,
   purpose           : Purposes,
   request_nonce     : Nat,
   current_timestamp : Nat,
   expires_at        : Nat,
   consumed          : BOOLEAN,
   requester         : Principals]

VerifyPublicInputs ==
  [registry_id       : Nat,
   merkle_root       : WireStrings,
   purpose           : Purposes,
   request_nonce     : Nat,
   current_timestamp : Nat,
   nullifier         : WireStrings]

\* The statement a proof is checked against, in field elements.
PublicInputs ==
  [registry_id       : Nat,
   merkle_root       : FieldElements,
   purpose           : Purposes,
   request_nonce     : Nat,
   current_timestamp : Nat,
   nullifier         : FieldElements]

Acceptance ==
  [id : Nat, caller : Principals, at : Nat, statement : PublicInputs]

Logs == Seq([who : Principals, at : Nat])

TypeOK ==
  /\ now \in Nat
  /\ current_root \in FieldElements
  /\ IsMap(challenges, Nat, Challenge)
  /\ next_challenge_id \in Nat
  /\ next_nonce \in Nat
  /\ oldest_unpruned_challenge_id \in Nat
  /\ nullifiers \subseteq WireStrings
  /\ IsMap(last_challenge_call_at, Principals, Nat)
  /\ IsMap(last_verify_call_at, Principals, Nat)
  /\ challenge_throttle_log \in Logs
  /\ verify_throttle_log \in Logs
  /\ IsMap(issued, Nat, Challenge)
  /\ accepted \in Seq(Acceptance)

NoEntries == [x \in {} |-> 0]

Init ==
  /\ now = 0
  /\ current_root = 0
  /\ challenges = NoEntries
  /\ next_challenge_id = 0
  /\ next_nonce = 0
  /\ oldest_unpruned_challenge_id = 0
  /\ nullifiers = {}
  /\ last_challenge_call_at = NoEntries
  /\ last_verify_call_at = NoEntries
  /\ challenge_throttle_log = <<>>
  /\ verify_throttle_log = <<>>
  /\ issued = NoEntries
  /\ accepted = <<>>

-----------------------------------------------------------------------------
(* request_challenge *)

NewChallenge(caller, purpose) ==
  [registry_id       |-> REGISTRY_ID,
   merkle_root       |-> current_root,
   purpose           |-> purpose,
   request_nonce     |-> next_nonce,
   current_timestamp |-> now \div Second,
   expires_at        |-> now + ChallengeTTL,
   consumed          |-> FALSE,
   requester         |-> caller]

Inserted(f, id, c) == [x \in DOMAIN f \cup {id} |-> IF x = id THEN c ELSE f[x]]

RequestChallenge(caller, purpose) ==
  /\ next_challenge_id < MaxChallenges
  /\ Admits(last_challenge_call_at, caller, now)
  /\ last_challenge_call_at' = Recorded(last_challenge_call_at, caller, now)
  /\ challenge_throttle_log' = Logged(challenge_throttle_log, caller, now)
  /\ challenges' = Inserted(challenges, next_challenge_id, NewChallenge(caller, purpose))
  /\ next_challenge_id' = next_challenge_id + 1
  /\ next_nonce' = next_nonce + 1
  /\ issued' = Inserted(issued, next_challenge_id, NewChallenge(caller, purpose))
  /\ UNCHANGED <<now, current_root, oldest_unpruned_challenge_id, nullifiers,
                 last_verify_call_at, verify_throttle_log, accepted>>

-----------------------------------------------------------------------------
(* verify *)

\* The nonces and timestamps callers know: those handed out so far, and a
\* guess made before anything was.
Known ==
  {[nonce |-> c.request_nonce, at |-> c.current_timestamp] :
     c \in {issued[x] : x \in DOMAIN issued}}
  \cup {[nonce |-> 0, at |-> 0]}

\* The public inputs callers submit: the nonce and timestamp of any challenge,
\* with any purpose, root, registry and nullifier.
Submissions ==
  {[registry_id       |-> r,
    merkle_root       |-> w,
    purpose           |-> p,
    request_nonce     |-> k.nonce,
    current_timestamp |-> k.at,
    nullifier         |-> n] :
     r \in RegistryIds, w \in RootWires, p \in Purposes,
     k \in Known, n \in NullifierWires}

\* Faulty variant: the root is not compared.
MatchesAnyRoot(inputs, c) ==
  /\ inputs.registry_id = c.registry_id
  /\ Parses(inputs.merkle_root)
  /\ inputs.purpose = c.purpose
  /\ inputs.request_nonce = c.request_nonce
  /\ inputs.current_timestamp = c.current_timestamp

\* The public inputs are those the challenge was issued with.
Matches(inputs, c) ==
  /\ inputs.registry_id = c.registry_id
  /\ Parses(inputs.merkle_root)
  /\ parse_fe(inputs.merkle_root) = c.merkle_root
  /\ inputs.purpose = c.purpose
  /\ inputs.request_nonce = c.request_nonce
  /\ inputs.current_timestamp = c.current_timestamp

\* verify_crypto_impl parses the strings again for the verifier.
Statement(inputs) ==
  [registry_id       |-> inputs.registry_id,
   merkle_root       |-> parse_fe(inputs.merkle_root),
   purpose           |-> inputs.purpose,
   request_nonce     |-> inputs.request_nonce,
   current_timestamp |-> inputs.current_timestamp,
   nullifier         |-> parse_fe(inputs.nullifier)]

\* Faulty variant: anybody may answer a challenge.
PrecheckAnyCaller(caller, id, inputs) ==
  /\ id \in DOMAIN challenges
  /\ ~challenges[id].consumed
  /\ now <= challenges[id].expires_at
  /\ Matches(inputs, challenges[id])
  /\ Parses(inputs.nullifier)
  /\ canonical_nullifier(inputs.nullifier) \notin nullifiers

\* Faulty variant: an expired challenge can be answered until it is pruned.
PrecheckUntilPruned(caller, id, inputs) ==
  /\ id \in DOMAIN challenges
  /\ caller = challenges[id].requester
  /\ ~challenges[id].consumed
  /\ Matches(inputs, challenges[id])
  /\ Parses(inputs.nullifier)
  /\ canonical_nullifier(inputs.nullifier) \notin nullifiers

Precheck(caller, id, inputs) ==
  /\ id \in DOMAIN challenges
  /\ caller = challenges[id].requester
  /\ ~challenges[id].consumed
  /\ now <= challenges[id].expires_at
  /\ Matches(inputs, challenges[id])
  /\ Parses(inputs.nullifier)
  /\ canonical_nullifier(inputs.nullifier) \notin nullifiers

\* Faulty variant: the challenge is not marked consumed.
CommitUnmarked(caller, id, inputs) ==
  /\ nullifiers' = nullifiers \cup {canonical_nullifier(inputs.nullifier)}
  /\ accepted' = Append(accepted, [id        |-> id,
                                   caller    |-> caller,
                                   at        |-> now,
                                   statement |-> Statement(inputs)])
  /\ UNCHANGED challenges

Commit(caller, id, inputs) ==
  /\ challenges' = [challenges EXCEPT ![id].consumed = TRUE]
  /\ nullifiers' = nullifiers \cup {canonical_nullifier(inputs.nullifier)}
  /\ accepted' = Append(accepted, [id        |-> id,
                                   caller    |-> caller,
                                   at        |-> now,
                                   statement |-> Statement(inputs)])

\* The throttle entry is written before anything else is looked at and stays
\* written when the rest of the call fails.
Verify(caller, id, inputs, proofAccepted) ==
  /\ Admits(last_verify_call_at, caller, now)
  /\ last_verify_call_at' = Recorded(last_verify_call_at, caller, now)
  /\ verify_throttle_log' = Logged(verify_throttle_log, caller, now)
  /\ IF Precheck(caller, id, inputs) /\ proofAccepted
     THEN Commit(caller, id, inputs)
     ELSE UNCHANGED <<challenges, nullifiers, accepted>>
  /\ UNCHANGED <<now, current_root, next_challenge_id, next_nonce,
                 oldest_unpruned_challenge_id, last_challenge_call_at,
                 challenge_throttle_log, issued>>

-----------------------------------------------------------------------------
(* heartbeat *)

\* Faulty variant: a challenge is dropped in its last instant.
PrunableAtDeadline(id) == id \in DOMAIN challenges => now >= challenges[id].expires_at

\* Faulty variant: only answered challenges are cleaned up.
PrunableIfAnswered(id) ==
  id \in DOMAIN challenges => challenges[id].consumed /\ now > challenges[id].expires_at

\* The scan passes over an id that is absent or whose challenge has expired.
Prunable(id) == id \in DOMAIN challenges => now > challenges[id].expires_at

\* The scan starts at the oldest unpruned id and stops at the first id it
\* may not pass, at the end of the ids, or when the tick's budget is spent.
ScanEnd(n) ==
  LET oldest == oldest_unpruned_challenge_id IN
  /\ n <= oldest + MaxPrune
  /\ \A id \in oldest .. n - 1 : Prunable(id)
  /\ n < oldest + MaxPrune /\ n < next_challenge_id => ~Prunable(n)

\* Faulty variant: the position moves past the challenge the scan stopped at.
PruneAndSkip ==
  \E n \in oldest_unpruned_challenge_id .. next_challenge_id :
    /\ ScanEnd(n)
    /\ oldest_unpruned_challenge_id' = n + 1
    /\ challenges' = [id \in DOMAIN challenges
                               \ (oldest_unpruned_challenge_id .. n - 1)
                        |-> challenges[id]]

PruneChallenges ==
  \E n \in oldest_unpruned_challenge_id .. next_challenge_id :
    /\ ScanEnd(n)
    /\ oldest_unpruned_challenge_id' = n
    /\ challenges' = [id \in DOMAIN challenges
                               \ (oldest_unpruned_challenge_id .. n - 1)
                        |-> challenges[id]]

PruneThrottles ==
  /\ \E k \in 0..Len(challenge_throttle_log) :
       /\ PruneCut(challenge_throttle_log, now, k)
       /\ last_challenge_call_at' =
            PrunedStore(last_challenge_call_at, challenge_throttle_log, k)
       /\ challenge_throttle_log' = PrunedLog(challenge_throttle_log, k)
  /\ \E k \in 0..Len(verify_throttle_log) :
       /\ PruneCut(verify_throttle_log, now, k)
       /\ last_verify_call_at' =
            PrunedStore(last_verify_call_at, verify_throttle_log, k)
       /\ verify_throttle_log' = PrunedLog(verify_throttle_log, k)

Heartbeat ==
  /\ PruneChallenges
  /\ PruneThrottles
  /\ UNCHANGED <<now, current_root, next_challenge_id, next_nonce, nullifiers,
                 history>>

-----------------------------------------------------------------------------
(* pre_upgrade and post_upgrade, the rest of the canister, and time *)

\* Faulty variant: the nonce counter is not part of the snapshot.
RestoredWithoutNonce ==
  /\ next_nonce' = 0
  /\ challenge_throttle_log' \in RebuiltLogs(last_challenge_call_at)
  /\ verify_throttle_log' \in RebuiltLogs(last_verify_call_at)
  /\ UNCHANGED <<now, challenges, next_challenge_id, oldest_unpruned_challenge_id,
                 nullifiers, last_challenge_call_at, last_verify_call_at, history>>

\* The snapshot carries everything of these calls but the two throttle logs,
\* which are rebuilt.
Restored ==
  /\ challenge_throttle_log' \in RebuiltLogs(last_challenge_call_at)
  /\ verify_throttle_log' \in RebuiltLogs(last_verify_call_at)
  /\ UNCHANGED <<now, challengeVars, nullifiers, last_challenge_call_at,
                 last_verify_call_at, history>>

\* current_root is read back from the restored tree (MerkleRegistry).
Upgrade == Restored /\ UNCHANGED current_root

SubmitRecord ==
  /\ \E root \in FieldElements : current_root' = root
  /\ UNCHANGED <<now, challengeVars, nullifiers, throttleVars, history>>

Tick ==
  /\ now < MaxTime
  /\ now' = now + 1
  /\ UNCHANGED <<current_root, challengeVars, nullifiers, throttleVars, history>>

Next ==
  \/ \E caller \in Callers, purpose \in Purposes : RequestChallenge(caller, purpose)
  \/ \E caller \in Callers, id \in 0 .. next_challenge_id,
        inputs \in Submissions, proofAccepted \in BOOLEAN :
          Verify(caller, id, inputs, proofAccepted)
  \/ Heartbeat
  \/ Upgrade
  \/ SubmitRecord
  \/ Tick

Spec == Init /\ [][Next]_vars

\* The subnet calls the heartbeat of a running canister again and again and
\* time advances.
FairSpec == Spec /\ WF_vars(Heartbeat) /\ WF_vars(Tick)

-----------------------------------------------------------------------------
(* Properties *)

\* No field element is accepted as a nullifier twice, however its string was
\* written on the wire, across challenges, prunings and upgrades
\* (verify_precheck_impl, verify_commit_impl, canonical_nullifier).
NullifierSpentOnce ==
  \A i, j \in 1..Len(accepted) :
    accepted[i].statement.nullifier = accepted[j].statement.nullifier => i = j

\* A challenge is answered at most once in the canister's life, also after it
\* has been pruned (the consumed flag and the id counter together).
ChallengeAnsweredOnce ==
  \A i, j \in 1..Len(accepted) : accepted[i].id = accepted[j].id => i = j

\* Every accepted call came from the principal the challenge was issued to,
\* within its lifetime, and was for exactly the inputs it was issued with:
\* inputs of another challenge never pass (verify_precheck_impl).
AcceptedAsIssued ==
  \A i \in 1..Len(accepted) :
    LET a == accepted[i] IN
    /\ a.id \in DOMAIN issued
    /\ a.caller = issued[a.id].requester
    /\ a.at <= issued[a.id].expires_at
    /\ a.statement.registry_id = issued[a.id].registry_id
    /\ a.statement.merkle_root = issued[a.id].merkle_root
    /\ a.statement.purpose = issued[a.id].purpose
    /\ a.statement.request_nonce = issued[a.id].request_nonce
    /\ a.statement.current_timestamp = issued[a.id].current_timestamp

\* The pending challenges are exactly the ids from the scan position to the
\* counter: the heartbeat loses none and skips none (heartbeat_impl).
NoOrphanChallenge ==
  DOMAIN challenges = oldest_unpruned_challenge_id .. next_challenge_id - 1

\* Nonces are never issued twice, also across upgrades: the nonce is what
\* makes two proofs by one owner spend different nullifiers.
NonceFresh ==
  \A x, y \in DOMAIN issued :
    issued[x].request_nonce = issued[y].request_nonce => x = y

\* A pending, unexpired challenge is taken from its requester by nothing but
\* an accepted answer to it: no other caller, failed call, heartbeat or
\* upgrade removes, consumes or alters it ("State integrity on failure" and
\* the front-running guard).
OnlyAnswersConsume ==
  [][\A id \in DOMAIN challenges :
       \/ id \in DOMAIN challenges' /\ challenges'[id] = challenges[id]
       \/ now > challenges[id].expires_at
       \/ /\ Len(accepted') > Len(accepted)
          /\ accepted'[Len(accepted')].id = id]_vars

\* Every expired challenge is eventually pruned: no younger or older one
\* blocks the scan for ever (heartbeat_impl).
ExpiredArePruned ==
  \A id \in 0 .. MaxChallenges - 1 :
    (id \in DOMAIN challenges /\ now > challenges[id].expires_at)
      ~> id \notin DOMAIN challenges

-----------------------------------------------------------------------------
(* What this promises, without the bookkeeping: VerificationRights *)

Answered == {accepted[i].id : i \in 1..Len(accepted)}

AnswerTo(id) == accepted[CHOOSE i \in 1..Len(accepted) : accepted[i].id = id]

\* What a challenge and an answer to it have to have in common.
BoundTo(x) ==
  [registry_id       |-> x.registry_id,
   merkle_root       |-> x.merkle_root,
   purpose           |-> x.purpose,
   request_nonce     |-> x.request_nonce,
   current_timestamp |-> x.current_timestamp]

Bindings ==
  [registry_id       : {REGISTRY_ID},
   merkle_root       : FieldElements,
   purpose           : Purposes,
   request_nonce     : 0 .. MaxChallenges - 1,
   current_timestamp : 0 .. MaxTime]

\* A challenge is an open right from its issue to its answer or its deadline:
\* it lapses by the passing of time, long before a heartbeat prunes it.
Rights == INSTANCE VerificationRights WITH
  Ids     <- 0 .. MaxChallenges - 1,
  Holders <- Principals,
  Terms   <- Bindings,
  Marks   <- FieldElements,
  rights  <- [id \in DOMAIN issued |-> [holder |-> issued[id].requester,
                                       terms  |-> BoundTo(issued[id])]],
  open    <- {id \in DOMAIN issued \ Answered : now <= issued[id].expires_at},
  answers <- [id \in Answered |-> [by    |-> AnswerTo(id).caller,
                                  terms |-> BoundTo(AnswerTo(id).statement),
                                  mark  |-> AnswerTo(id).statement.nullifier]]

\* request_challenge issues rights, verify answers them and time lets them
\* lapse; throttling, failed calls, pruning, upgrades and submissions are
\* invisible at this level.
RightsKept == Rights!Spec
=============================================================================
