------------------------- MODULE ThrottleLog_proofs -------------------------
(***************************************************************************)
(* Proofs about ThrottleLog for every set of principals, every interval,   *)
(* retention window and budget, any number of upgrades and any clock.      *)
(*                                                                         *)
(* The inductive invariant says how the map relates to the history: an     *)
(* entry of the map is its principal's last accepted call (MapIsLastCall), *)
(* and only calls a whole retention window old have been forgotten         *)
(* (RecentIsRemembered).                                                   *)
(***************************************************************************)
EXTENDS ThrottleLog, FiniteSetTheorems, SequenceTheorems, TLAPS

-----------------------------------------------------------------------------
(* What the throttle's operations keep and return, for every store and log *)

StoreOK(map) == IsMap(map, Principals, Nat)
LogOK(list) == list \in Seq([who : Principals, at : Nat])

\* An accepted call keeps the map a map from principals to times
\* (check_and_update_throttle, store.insert).
LEMMA RecordedStore ==
  ASSUME NEW map, StoreOK(map), NEW p, NEW t \in Nat, Admits(map, p, t), p \in Callers
  PROVE  /\ StoreOK(Recorded(map, p, t))
         /\ DOMAIN Recorded(map, p, t) = DOMAIN map \cup {p}
         /\ Recorded(map, p, t)[p] = t
         /\ \A q \in DOMAIN map \ {p} : Recorded(map, p, t)[q] = map[q]
         /\ p \in Principals
BY DEF StoreOK, IsMap, Recorded, Admits, Callers

\* An accepted call adds its own entry at the back of the log
\* (check_and_update_throttle, log.push_back).
LEMMA LoggedLog ==
  ASSUME NEW list, LogOK(list), NEW p \in Principals, NEW t \in Nat
  PROVE  /\ LogOK(Logged(list, p, t))
         /\ Len(Logged(list, p, t)) = Len(list) + 1
         /\ Logged(list, p, t)[Len(list) + 1] = Entry(p, t)
         /\ \A i \in 1..Len(list) : Logged(list, p, t)[i] = list[i]
BY DEF LogOK, Logged, Entry

\* Pruning only forgets: what stays in the map is unchanged
\* (prune_throttle_log, store.remove).
LEMMA PrunedStoreKeeps ==
  ASSUME NEW map, StoreOK(map), NEW list, NEW k
  PROVE  /\ StoreOK(PrunedStore(map, list, k))
         /\ DOMAIN PrunedStore(map, list, k) = Kept(map, list, k)
         /\ Kept(map, list, k) \subseteq DOMAIN map
         /\ \A p \in Kept(map, list, k) : PrunedStore(map, list, k)[p] = map[p]
BY DEF StoreOK, IsMap, PrunedStore, Kept

\* Pruning leaves the entries behind the popped ones, in order
\* (prune_throttle_log, log.pop_front).
LEMMA PrunedLogKeeps ==
  ASSUME NEW list, LogOK(list), NEW k \in 0..Len(list)
  PROVE  /\ LogOK(PrunedLog(list, k))
         /\ Len(PrunedLog(list, k)) = Len(list) - k
         /\ \A i \in 1..Len(list) - k : PrunedLog(list, k)[i] = list[i + k]
<1> DEFINE E == [who : Principals, at : Nat]
<1>1. list \in Seq(E) /\ Len(list) \in Nat
  BY LenProperties DEF LogOK
<1> HIDE DEF E
<1>2. \A i \in k + 1 .. Len(list) : list[i] \in E
  BY <1>1, ElementOfSeq
<1>3. /\ SubSeq(list, k + 1, Len(list)) \in Seq(E)
      /\ Len(SubSeq(list, k + 1, Len(list))) =
           IF k + 1 <= Len(list) THEN Len(list) - (k + 1) + 1 ELSE 0
      /\ \A i \in 1 .. Len(list) - (k + 1) + 1 :
           SubSeq(list, k + 1, Len(list))[i] = list[k + 1 + i - 1]
  BY <1>1, <1>2, SubSeqProperties
<1>4. /\ k \in Nat /\ k <= Len(list)
      /\ Len(list) - (k + 1) + 1 = Len(list) - k
      /\ (IF k + 1 <= Len(list) THEN Len(list) - (k + 1) + 1 ELSE 0) = Len(list) - k
  BY <1>1
<1>5. LogOK(PrunedLog(list, k))
  BY <1>3 DEF LogOK, PrunedLog, E
<1>6. Len(PrunedLog(list, k)) = Len(list) - k
  BY <1>3, <1>4 DEF PrunedLog
<1>7. ASSUME NEW i \in 1 .. Len(list) - k
      PROVE  PrunedLog(list, k)[i] = list[i + k]
  <2>1. PrunedLog(list, k)[i] = list[k + 1 + i - 1]
    BY <1>3, <1>4 DEF PrunedLog
  <2>2. k \in Int /\ i \in Int
    BY <1>1
  <2>3. k + 1 + i - 1 = i + k
    BY <2>2
  <2> QED BY <2>1, <2>3, Zenon
<1> QED BY <1>5, <1>6, <1>7, Zenon

\* The log rebuilt after an upgrade holds the entries of the map and nothing
\* else (post_upgrade).
LEMMA RebuiltLogHolds ==
  ASSUME NEW map, StoreOK(map), NEW list \in RebuiltLogs(map)
  PROVE  /\ LogOK(list)
         /\ \A i \in 1..Len(list) : list[i] \in Entries(map)
         /\ \A p \in DOMAIN map : \E i \in 1..Len(list) : list[i] = Entry(p, map[p])
         /\ Len(list) = Cardinality(DOMAIN map)
<1> DEFINE n == Cardinality(DOMAIN map)
<1>1. n \in Nat
  <2>1. IsFiniteSet(DOMAIN map)
    BY PrincipalsAssumption, FS_Subset DEF StoreOK, IsMap
  <2> QED BY <2>1, FS_CardinalityType
<1>2. Entries(map) \subseteq [who : Principals, at : Nat]
  BY DEF Entries, Entry, StoreOK, IsMap
<1>3. list \in [1..n -> Entries(map)] /\ \A e \in Entries(map) : \E i \in 1..n : list[i] = e
  BY DEF RebuiltLogs
<1>4. list \in Seq([who : Principals, at : Nat]) /\ Len(list) = n
  <2> HIDE DEF n
  <2>1. list \in [1..n -> [who : Principals, at : Nat]]
    BY <1>2, <1>3
  <2>2. list \in Seq([who : Principals, at : Nat])
    BY <2>1, <1>1, SeqDef
  <2>3. DOMAIN list = 1..n /\ DOMAIN list = 1..Len(list) /\ Len(list) \in Nat
    BY <2>1, <2>2, LenProperties
  <2> QED BY <2>2, <2>3, <1>1
<1>5. \A p \in DOMAIN map : Entry(p, map[p]) \in Entries(map)
  BY DEF Entries
<1> QED BY <1>3, <1>4, <1>5 DEF LogOK

-----------------------------------------------------------------------------
(* The invariant *)

CallsInPast == \A p \in Principals : lastCall[p] <= now

MapIsLastCall == \A p \in DOMAIN store : store[p] = lastCall[p]

RecentIsRemembered ==
  \A p \in Principals :
    lastCall[p] # Never /\ now - lastCall[p] < ThrottleRetention => p \in DOMAIN store

\* Until an upgrade reshuffles it the log is in call order.
InCallOrder ==
  upgrades = 0 => /\ \A i \in 1..Len(log) : log[i].at <= now
                  /\ \A i, j \in 1..Len(log) : i <= j => log[i].at <= log[j].at

IInv ==
  /\ TypeOK
  /\ CallsInPast
  /\ MapIsLastCall
  /\ RecentIsRemembered
  /\ NoLeak
  /\ InCallOrder
  /\ PromptUntilUpgrade

\* The canister starts with an empty map and log (fresh_state).
LEMMA InitIInv == Init => IInv
BY EmptySeq DEF Init, IInv, TypeOK, IsMap, CallsInPast, MapIsLastCall,
     RecentIsRemembered, NoLeak, InCallOrder, PromptUntilUpgrade, Never

\* An accepted call (check_and_update_throttle) preserves the invariant.
LEMMA CallIInv ==
  ASSUME IInv, NEW p \in Callers, Call(p)
  PROVE  IInv'
<1>1. StoreOK(store) /\ LogOK(log) /\ now \in Nat
  BY DEF IInv, TypeOK, StoreOK, LogOK
<1>2. Admits(store, p, now) /\ store' = Recorded(store, p, now)
      /\ log' = Logged(log, p, now) /\ lastCall' = [lastCall EXCEPT ![p] = now]
      /\ now' = now /\ upgrades' = upgrades /\ lateBeats' = lateBeats
  BY DEF Call
<1>3. /\ StoreOK(store') /\ DOMAIN store' = DOMAIN store \cup {p} /\ store'[p] = now
      /\ \A q \in DOMAIN store \ {p} : store'[q] = store[q]
      /\ p \in Principals
  BY <1>1, <1>2, RecordedStore
<1>4. /\ LogOK(log') /\ Len(log') = Len(log) + 1
      /\ log'[Len(log) + 1] = Entry(p, now)
      /\ \A i \in 1..Len(log) : log'[i] = log[i]
  BY <1>1, <1>2, <1>3, LoggedLog
<1>5. Len(log) \in Nat
  BY <1>1, LenProperties DEF LogOK
<1>6. TypeOK'
  BY <1>2, <1>3, <1>4 DEF IInv, TypeOK, StoreOK, LogOK
<1>7. CallsInPast' /\ MapIsLastCall' /\ RecentIsRemembered'
  BY <1>1, <1>2, <1>3 DEF IInv, TypeOK, CallsInPast, MapIsLastCall, RecentIsRemembered,
     StoreOK, IsMap
<1>8. NoLeak'
  BY <1>3, <1>4, <1>5 DEF IInv, NoLeak
<1>9. InCallOrder' /\ PromptUntilUpgrade'
  BY <1>1, <1>2, <1>4, <1>5 DEF IInv, InCallOrder, PromptUntilUpgrade, Entry
<1> QED BY <1>6, <1>7, <1>8, <1>9 DEF IInv

\* A heartbeat pops at most its budget of stale entries (prune_throttle_log)
\* and preserves the invariant.
LEMMA HeartbeatIInv ==
  ASSUME IInv, Heartbeat
  PROVE  IInv'
<1>1. StoreOK(store) /\ LogOK(log) /\ now \in Nat
  BY DEF IInv, TypeOK, StoreOK, LogOK
<1>2. Len(log) \in Nat /\ log \in [1..Len(log) -> [who : Principals, at : Nat]]
  BY <1>1, LenProperties DEF LogOK
<1>3. PICK k \in 0..Len(log) :
        /\ PruneCut(log, now, k)
        /\ store' = PrunedStore(store, log, k)
        /\ log' = PrunedLog(log, k)
        /\ lateBeats' = IF LeftBehind(k) /\ lateBeats < 2 THEN lateBeats + 1 ELSE lateBeats
  BY DEF Heartbeat
<1>4. now' = now /\ lastCall' = lastCall /\ upgrades' = upgrades
  BY DEF Heartbeat
<1>5. /\ StoreOK(store') /\ DOMAIN store' = Kept(store, log, k)
      /\ Kept(store, log, k) \subseteq DOMAIN store
      /\ \A p \in DOMAIN store' : store'[p] = store[p]
  BY <1>1, <1>3, PrunedStoreKeeps
<1>6. /\ LogOK(log') /\ Len(log') = Len(log) - k
      /\ \A i \in 1..Len(log) - k : log'[i] = log[i + k]
  BY <1>1, <1>3, PrunedLogKeeps
<1>7. \A p \in DOMAIN store \ DOMAIN store' : now - store[p] >= ThrottleRetention
  BY <1>3, <1>5 DEF Kept, PruneCut, Stale, Entry
<1>8. TypeOK'
  BY <1>3, <1>4, <1>5, <1>6 DEF IInv, TypeOK, StoreOK, LogOK
<1>9. CallsInPast' /\ MapIsLastCall'
  BY <1>4, <1>5 DEF IInv, CallsInPast, MapIsLastCall
<1>10. RecentIsRemembered'
  BY <1>1, <1>4, <1>5, <1>7, ThrottleAssumption
     DEF IInv, TypeOK, RecentIsRemembered, MapIsLastCall, StoreOK, IsMap
<1>11. NoLeak'
  <2> SUFFICES ASSUME NEW p \in DOMAIN store'
               PROVE  \E i \in 1..Len(log') : log'[i] = Entry(p, store'[p])
    BY DEF NoLeak
  <2>1. PICK i \in 1..Len(log) : log[i] = Entry(p, store[p])
    BY <1>5 DEF IInv, NoLeak
  <2>2. ~(i \in 1..k)
    BY <1>5, <2>1 DEF Kept
  <2>3. i - k \in 1..Len(log') /\ log'[i - k] = log[i]
    BY <1>2, <1>3, <1>6, <2>2
  <2> QED BY <1>5, <2>1, <2>3
<1>12. InCallOrder'
  BY <1>2, <1>4, <1>6 DEF IInv, InCallOrder
<1>13. PromptUntilUpgrade'
  <2> SUFFICES ASSUME upgrades = 0 PROVE ~LeftBehind(k)
    BY <1>3, <1>4 DEF IInv, PromptUntilUpgrade
  <2> SUFFICES ASSUME k < MaxPrune, NEW i \in k + 1 .. Len(log), Stale(log[i], now)
               PROVE  FALSE
    BY DEF LeftBehind
  <2>1. k + 1 \in 1..Len(log) /\ i \in 1..Len(log) /\ k + 1 <= i /\ k < Len(log)
    BY <1>2, <1>3
  <2>2. ~Stale(log[k + 1], now)
    BY <1>3, <2>1 DEF PruneCut
  <2>3. log[k + 1].at <= log[i].at
    BY <2>1 DEF IInv, InCallOrder
  <2>4. log[k + 1].at \in Nat /\ log[i].at \in Nat
    BY <1>2, <2>1
  <2> QED BY <1>1, <2>2, <2>3, <2>4, ThrottleAssumption DEF Stale
<1> QED BY <1>8, <1>9, <1>10, <1>11, <1>12, <1>13 DEF IInv

\* An upgrade rebuilds the log from the map (post_upgrade) and preserves the
\* invariant.
LEMMA UpgradeIInv ==
  ASSUME IInv, Upgrade
  PROVE  IInv'
<1>1. StoreOK(store)
  BY DEF IInv, TypeOK, StoreOK
<1>2. /\ log' \in RebuiltLogs(store) /\ store' = store /\ now' = now
      /\ lastCall' = lastCall /\ lateBeats' = 0 /\ upgrades' = upgrades + 1
  BY DEF Upgrade
<1>3. /\ LogOK(log')
      /\ \A p \in DOMAIN store : \E i \in 1..Len(log') : log'[i] = Entry(p, store[p])
  BY <1>1, <1>2, RebuiltLogHolds
<1>4. TypeOK'
  BY <1>2, <1>3 DEF IInv, TypeOK, LogOK
<1>5. CallsInPast' /\ MapIsLastCall' /\ RecentIsRemembered'
  BY <1>2 DEF IInv, CallsInPast, MapIsLastCall, RecentIsRemembered
<1>6. NoLeak'
  BY <1>2, <1>3 DEF NoLeak
<1>7. InCallOrder' /\ PromptUntilUpgrade'
  BY <1>2 DEF IInv, TypeOK, InCallOrder, PromptUntilUpgrade
<1> QED BY <1>4, <1>5, <1>6, <1>7 DEF IInv

\* The passing of time preserves the invariant.
LEMMA TickIInv ==
  ASSUME IInv, Tick
  PROVE  IInv'
<1>1. now' = now + 1 /\ now \in Nat /\ UNCHANGED <<store, log, lastCall, lateBeats, upgrades>>
  BY DEF IInv, TypeOK, Tick
<1>2. TypeOK' /\ MapIsLastCall' /\ NoLeak' /\ PromptUntilUpgrade'
  BY <1>1 DEF IInv, TypeOK, MapIsLastCall, NoLeak, PromptUntilUpgrade
<1>3. CallsInPast' /\ RecentIsRemembered'
  BY <1>1, ThrottleAssumption DEF IInv, TypeOK, CallsInPast, RecentIsRemembered, Never
<1>4. InCallOrder'
  <2>1. Len(log) \in Nat /\ log \in [1..Len(log) -> [who : Principals, at : Nat]]
    BY LenProperties DEF IInv, TypeOK
  <2> QED BY <1>1, <2>1 DEF IInv, InCallOrder
<1> QED BY <1>2, <1>3, <1>4 DEF IInv

\* The invariant holds in every state the throttle can reach.
THEOREM Invariance == Spec => []IInv
<1>1. IInv /\ [Next]_vars => IInv'
  <2> SUFFICES ASSUME IInv, [Next]_vars PROVE IInv'
    OBVIOUS
  <2>1. CASE \E p \in Callers : Call(p)
    BY <2>1, CallIInv
  <2>2. CASE Heartbeat
    BY <2>2, HeartbeatIInv
  <2>3. CASE Upgrade
    BY <2>3, UpgradeIInv
  <2>4. CASE Tick
    BY <2>4, TickIInv
  <2>5. CASE UNCHANGED vars
    BY <2>5 DEF vars, IInv, TypeOK, CallsInPast, MapIsLastCall, RecentIsRemembered,
       NoLeak, InCallOrder, PromptUntilUpgrade
  <2> QED BY <2>1, <2>2, <2>3, <2>4, <2>5 DEF Next
<1> QED BY InitIInv, <1>1, PTL DEF Spec

\* The map, the log and the history keep their types.
THEOREM TypeCorrect == Spec => []TypeOK
BY Invariance, PTL DEF IInv

\* The map never holds an entry the pruner cannot reach.
THEOREM NeverLeaks == Spec => []NoLeak
BY Invariance, PTL DEF IInv

\* Until the first upgrade every heartbeat with budget left prunes all that is
\* stale.
THEOREM PruningIsPrompt == Spec => []PromptUntilUpgrade
BY Invariance, PTL DEF IInv

\* Two accepted calls of one principal are at least MinCallInterval apart.
THEOREM CallsAreRateLimited == Spec => RateLimited
<1> DEFINE Limited(p) ==
      /\ upgrades' = upgrades
      /\ Len(log') > Len(log)
      /\ log'[Len(log')].who = p
      => \/ lastCall[p] = Never
         \/ now - lastCall[p] >= MinCallInterval
<1>1. IInv /\ [Next]_vars => [\A p \in Principals : Limited(p)]_vars
  <2> SUFFICES ASSUME IInv, Next, NEW p \in Principals PROVE Limited(p)
    OBVIOUS
  <2>0. StoreOK(store) /\ LogOK(log) /\ now \in Nat /\ Len(log) \in Nat
    BY LenProperties DEF IInv, TypeOK, StoreOK, LogOK
  <2>1. CASE \E q \in Callers : Call(q)
    <3>1. PICK q \in Callers : Call(q)
      BY <2>1
    <3>2. Admits(store, q, now) /\ log' = Logged(log, q, now)
      BY <3>1 DEF Call
    <3>3. q \in Principals
      BY <3>2 DEF Admits, Callers
    <3>4. Len(log') = Len(log) + 1 /\ log'[Len(log) + 1] = Entry(q, now)
      BY <2>0, <3>2, <3>3, LoggedLog
    <3>5. SUFFICES ASSUME p = q PROVE lastCall[p] = Never \/ now - lastCall[p] >= MinCallInterval
      BY <2>0, <3>4 DEF Entry
    <3>6. CASE p \in DOMAIN store
      BY <3>2, <3>5, <3>6 DEF Admits, IInv, MapIsLastCall
    <3>7. CASE p \notin DOMAIN store
      BY <2>0, <3>7, ThrottleAssumption DEF IInv, TypeOK, RecentIsRemembered, Never
    <3> QED BY <3>6, <3>7
  <2>2. CASE Heartbeat
    <3>1. PICK k \in 0..Len(log) : log' = PrunedLog(log, k)
      BY <2>2 DEF Heartbeat
    <3>2. Len(log') = Len(log) - k
      BY <2>0, <3>1, PrunedLogKeeps
    <3> QED BY <2>0, <3>2
  <2>3. CASE Upgrade
    BY <2>3 DEF Upgrade, IInv, TypeOK
  <2>4. CASE Tick
    BY <2>0, <2>4 DEF Tick
  <2> QED BY <2>1, <2>2, <2>3, <2>4 DEF Next
<1> QED BY Invariance, <1>1, PTL DEF Spec, RateLimited

\* Only a call a whole retention window old is ever forgotten.
THEOREM EvictionIsStale == Spec => EvictedOnlyWhenStale
<1> DEFINE Evicted(p) ==
      p \notin DOMAIN store' => now - lastCall[p] >= ThrottleRetention
<1>1. IInv /\ [Next]_vars => [\A p \in DOMAIN store : Evicted(p)]_vars
  <2> SUFFICES ASSUME IInv, Next, NEW p \in DOMAIN store PROVE Evicted(p)
    OBVIOUS
  <2>0. StoreOK(store) /\ LogOK(log) /\ now \in Nat
    BY DEF IInv, TypeOK, StoreOK, LogOK
  <2>1. CASE \E q \in Callers : Call(q)
    BY <2>1 DEF Call, Recorded
  <2>2. CASE Heartbeat
    <3>1. PICK k \in 0..Len(log) : PruneCut(log, now, k) /\ store' = PrunedStore(store, log, k)
      BY <2>2 DEF Heartbeat
    <3>2. DOMAIN store' = Kept(store, log, k)
      BY <2>0, <3>1, PrunedStoreKeeps
    <3>3. SUFFICES ASSUME p \notin Kept(store, log, k) PROVE now - store[p] >= ThrottleRetention
      BY <3>2 DEF IInv, MapIsLastCall
    <3>4. PICK i \in 1..k : log[i] = Entry(p, store[p])
      BY <3>3 DEF Kept
    <3> QED BY <3>1, <3>4 DEF PruneCut, Stale, Entry
  <2>3. CASE Upgrade \/ Tick
    BY <2>3 DEF Upgrade, Tick
  <2> QED BY <2>1, <2>2, <2>3 DEF Next
<1> QED BY Invariance, <1>1, PTL DEF Spec, EvictedOnlyWhenStale
=============================================================================
