------------------------------ MODULE Throttle ------------------------------
(***************************************************************************)
(* The per-principal call throttle of the canister: the map from a caller  *)
(* to the time of its last accepted call, and the insertion-ordered log    *)
(* that lets the heartbeat prune the map a bounded number of entries at a  *)
(* time.  The canister keeps two independent copies of this pair, one for  *)
(* request_challenge and one for verify, so the operations are written     *)
(* here as operators on a (store, log) pair and used by both.              *)
(*                                                                         *)
(*   store  a partial function from principals to times                    *)
(*   log    a sequence of entries [who, at], oldest call first             *)
(***************************************************************************)
EXTENDS Integers, Sequences, FiniteSets

CONSTANTS
  Principals,         \* the authenticated principals that may call
  Anonymous,          \* the anonymous principal
  MinCallInterval,    \* MIN_CALL_INTERVAL_NS
  ThrottleRetention,  \* THROTTLE_RETENTION_NS
  MaxPrune            \* MAX_PRUNE_PER_HEARTBEAT

ASSUME PrincipalsAssumption ==
  /\ IsFiniteSet(Principals)
  /\ Anonymous \notin Principals

\* The comment at THROTTLE_RETENTION_NS relies on the retention window being
\* longer than the interval it protects.
ASSUME ThrottleAssumption ==
  /\ MinCallInterval \in Nat \ {0}
  /\ ThrottleRetention \in Nat
  /\ MinCallInterval <= ThrottleRetention
  /\ MaxPrune \in Nat \ {0}

\* m is a map with keys in K and values in V (a Rust HashMap).
IsMap(m, K, V) == DOMAIN m \subseteq K /\ m \in [DOMAIN m -> V]

Callers == Principals \cup {Anonymous}

Entry(p, t) == [who |-> p, at |-> t]

Entries(store) == {Entry(p, store[p]) : p \in DOMAIN store}

-----------------------------------------------------------------------------
(* check_and_update_throttle *)

\* Faulty variant: the anonymous principal is let through.
AdmitsAnonymous(store, caller, t) ==
  caller \in DOMAIN store => t - store[caller] >= MinCallInterval

Admits(store, caller, t) ==
  /\ caller # Anonymous
  /\ caller \in DOMAIN store => t - store[caller] >= MinCallInterval

Recorded(store, caller, t) ==
  [p \in DOMAIN store \cup {caller} |-> IF p = caller THEN t ELSE store[p]]

\* Faulty variant: push_front in place of push_back.
LoggedInFront(log, caller, t) == <<Entry(caller, t)>> \o log

Logged(log, caller, t) == Append(log, Entry(caller, t))

-----------------------------------------------------------------------------
(* prune_throttle_log: the loop pops the front of the log while it is older *)
(* than the retention window and the tick's budget lasts.  It therefore     *)
(* pops the k entries characterised by PruneCut.                            *)

\* Faulty variant: the wrong interval is compared.
StaleTooSoon(e, t) == t - e.at >= MinCallInterval

Stale(e, t) == t - e.at >= ThrottleRetention

PruneCut(log, t, k) ==
  /\ k <= MaxPrune
  /\ \A i \in 1..k : Stale(log[i], t)
  /\ k < MaxPrune /\ k < Len(log) => ~Stale(log[k + 1], t)

\* Faulty variant: the timestamp of the map entry is not compared.
KeptByName(store, log, k) ==
  {p \in DOMAIN store : \A i \in 1..k : log[i].who # p}

\* Faulty variant: log entries are popped, map entries stay.
KeptForEver(store, log, k) == DOMAIN store

\* A popped entry takes its principal out of the map only if the map still
\* holds exactly that entry's timestamp.
Kept(store, log, k) ==
  {p \in DOMAIN store : \A i \in 1..k : log[i] # Entry(p, store[p])}

PrunedStore(store, log, k) == [p \in Kept(store, log, k) |-> store[p]]

PrunedLog(log, k) == SubSeq(log, k + 1, Len(log))

-----------------------------------------------------------------------------
(* post_upgrade: the log is not part of the stable snapshot; it is rebuilt  *)
(* from the restored map, in whatever order the HashMap iterates.           *)

\* Faulty variant: the log starts empty after an upgrade.
LogNotRebuilt(store) == {<<>>}

RebuiltLogs(store) ==
  LET n == Cardinality(DOMAIN store)
  IN  {l \in [1..n -> Entries(store)] :
         \A e \in Entries(store) : \E i \in 1..n : l[i] = e}
=============================================================================
