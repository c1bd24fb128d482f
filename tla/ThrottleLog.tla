---------------------------- MODULE ThrottleLog ----------------------------
(***************************************************************************)
(* One throttled endpoint of the canister over time: calls by several      *)
(* principals, heartbeats that prune a bounded number of log entries, and  *)
(* canister upgrades that rebuild the log from the map.                    *)
(*                                                                         *)
(* Two variables are history only and are read by no guard: lastCall, the  *)
(* time of each principal's last accepted call whatever the map has        *)
(* forgotten since, and lateBeats, the heartbeats since the last upgrade   *)
(* that stopped with budget left although the log still held a stale entry.*)
(***************************************************************************)
EXTENDS Throttle

CONSTANTS
  LastCallTime,  \* bound: no call is made after this time
  MaxTime,       \* bound: the clock stops here
  MaxUpgrades    \* bound: number of canister upgrades

ASSUME BoundsAssumption ==
  /\ LastCallTime \in Nat
  /\ MaxTime \in Nat
  /\ MaxUpgrades \in Nat

Never == -1

VARIABLES
  store,      \* last_challenge_call_at (or last_verify_call_at)
  log,        \* challenge_throttle_log (or verify_throttle_log)
  now,        \* ic_cdk::api::time(), non-decreasing
  lastCall,   \* history: last accepted call of each principal
  lateBeats,  \* history: heartbeats that left a stale entry behind
  upgrades    \* number of upgrades so far

vars == <<store, log, now, lastCall, lateBeats, upgrades>>

TypeOK ==
  /\ IsMap(store, Principals, Nat)
  /\ log \in Seq([who : Principals, at : Nat])
  /\ now \in Nat
  /\ lastCall \in [Principals -> Nat \cup {Never}]
  /\ lateBeats \in Nat
  /\ upgrades \in Nat

Init ==
  /\ store = [p \in {} |-> 0]
  /\ log = <<>>
  /\ now = 0
  /\ lastCall = [p \in Principals |-> Never]
  /\ lateBeats = 0
  /\ upgrades = 0

\* A throttled endpoint is called and the throttle lets the call through.  A
\* call it turns away returns before anything is written.
Call(p) ==
  /\ now <= LastCallTime
  /\ Admits(store, p, now)
  /\ store' = Recorded(store, p, now)
  /\ log' = Logged(log, p, now)
  /\ lastCall' = [lastCall EXCEPT ![p] = now]
  /\ UNCHANGED <<now, lateBeats, upgrades>>

LeftBehind(k) ==
  /\ k < MaxPrune
  /\ \E i \in k + 1 .. Len(log) : Stale(log[i], now)

Heartbeat ==
  /\ \E k \in 0..Len(log) :
       /\ PruneCut(log, now, k)
       /\ store' = PrunedStore(store, log, k)
       /\ log' = PrunedLog(log, k)
       /\ lateBeats' = IF LeftBehind(k) /\ lateBeats < 2
                       THEN lateBeats + 1 ELSE lateBeats
  /\ UNCHANGED <<now, lastCall, upgrades>>

Upgrade ==
  /\ upgrades < MaxUpgrades
  /\ log' \in RebuiltLogs(store)
  /\ lateBeats' = 0
  /\ upgrades' = upgrades + 1
  /\ UNCHANGED <<store, now, lastCall>>

Tick ==
  /\ now < MaxTime
  /\ now' = now + 1
  /\ UNCHANGED <<store, log, lastCall, lateBeats, upgrades>>

Next ==
  \/ \E p \in Callers : Call(p)
  \/ Heartbeat
  \/ Upgrade
  \/ Tick

Spec == Init /\ [][Next]_vars

\* The subnet calls the heartbeat of a running canister again and again and
\* time advances; nobody is obliged to call or to upgrade.
FairSpec == Spec /\ WF_vars(Heartbeat) /\ WF_vars(Tick)

-----------------------------------------------------------------------------
(* Properties *)

\* Accepted calls of one principal are MinCallInterval apart, whatever the
\* heartbeats pruned and the upgrades rebuilt in between
\* (check_and_update_throttle and prune_throttle_log together).  A call is
\* accepted exactly when the log grows without an upgrade.
RateLimited ==
  [][\A p \in Principals :
       /\ upgrades' = upgrades
       /\ Len(log') > Len(log)
       /\ log'[Len(log')].who = p
       => \/ lastCall[p] = Never
          \/ now - lastCall[p] >= MinCallInterval]_vars

\* Every entry of the map has its own entry in the log, so the pruner will
\* reach it: the map cannot grow with entries that nothing ever removes.
NoLeak == \A p \in DOMAIN store : \E i \in 1..Len(log) : log[i] = Entry(p, store[p])

\* An entry leaves the map only when the principal's LAST accepted call is a
\* whole retention window old: an old log entry never evicts a refreshed one.
EvictedOnlyWhenStale ==
  [][\A p \in DOMAIN store :
       p \notin DOMAIN store' => now - lastCall[p] >= ThrottleRetention]_vars

\* Until the first upgrade the log is in call order, so a heartbeat with
\* budget left leaves no stale entry behind (doc of prune_throttle_log).
PromptUntilUpgrade == upgrades = 0 => lateBeats = 0

\* A stale entry is eventually pruned or refreshed, also after upgrades have
\* shuffled the log.
Outdated(p) == p \in DOMAIN store /\ now - store[p] >= ThrottleRetention
Drains == \A p \in Principals : Outdated(p) ~> ~Outdated(p)

\* What the comment in post_upgrade promises: after an upgrade pruning is
\* late for at most one heartbeat's worth of work.
AtMostOneLateHeartbeat == lateBeats <= 1
=============================================================================
