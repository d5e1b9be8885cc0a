------------------------- MODULE KeySetCacheProofs -------------------------
(***************************************************************************)
(* That the shared key-set cache asks the issuer once for each cooldown,   *)
(* never goes back to an older key set and never verifies with a key the   *)
(* issuer withdrew a time to live ago, for any number of threads.          *)
(***************************************************************************)
EXTENDS KeySetCache, FiniteSetTheorems, TLAPS

Holding == {"cooldown", "fetch", "swap", "clear"}

\* The refresh steps are taken by the lock's holder alone.
LockHeld == \A t \in Threads : pc[t] \in Holding => lock = t

\* What an attempt has noted: when it began, and what it fetched, which is newer
\* than the set it is about to replace.
Refreshing ==
    /\ lastRefreshAt # Never => lastRefreshAt <= clock
    /\ keySet # NoSet => lastRefreshAt # Never /\ keySet.fetchedAt <= lastRefreshAt
    /\ \A t \in Threads : pc[t] \in {"fetch", "swap"} =>
          /\ lastRefreshAt # Never
          /\ keySet # NoSet => keySet.fetchedAt < lastRefreshAt
    /\ \A t \in Threads : pc[t] = "fetch" => began[t] = lastRefreshAt
    /\ askedAt # Never => lastRefreshAt # Never /\ askedAt <= lastRefreshAt
    /\ \A t \in Threads : pc[t] = "swap" =>
          snap[t] # NoSet /\ IsSound(snap[t].keys) /\ snap[t].fetchedAt = lastRefreshAt

\* Every key of a set was still published when the set's age began to count.
Traced(set) ==
    set # NoSet =>
        /\ set.fetchedAt <= clock
        /\ \A k \in set.keys :
              k \notin published => lastPublished[k] # Never /\ set.fetchedAt <= lastPublished[k]

AllTraced == Traced(keySet) /\ \A t \in Threads : Traced(snap[t])

IInv == TypeOK /\ LockHeld /\ Refreshing /\ AllTraced

LEMMA InitIInv == Init => IInv
<1> SUFFICES ASSUME Init PROVE IInv
  OBVIOUS
<1>1. TypeOK
  BY DEF Init, TypeOK, Keys, Steps, Answers
<1>2. LockHeld
  BY DEF Init, LockHeld, Holding
<1>3. Refreshing
  BY DEF Init, Refreshing
<1>4. AllTraced
  BY DEF Init, AllTraced, Traced
<1> QED
  BY <1>1, <1>2, <1>3, <1>4 DEF IInv

LEMMA NextTypeOK == TypeOK /\ [Next]_vars => TypeOK'
<1> SUFFICES ASSUME TypeOK, [Next]_vars PROVE TypeOK'
  OBVIOUS
<1> USE KeySetAssumption DEF TypeOK
<1>1. ASSUME NEW t \in Threads, Verify(t) PROVE TypeOK'
  BY <1>1 DEF Verify, Goto, environment, cache, Steps, Answers
<1>2. ASSUME NEW t \in Threads, Read(t) PROVE TypeOK'
  BY <1>2 DEF Read, Goto, environment, cache, Steps
<1>3. ASSUME NEW t \in Threads, Look(t) PROVE TypeOK'
  BY <1>3 DEF Look, Goto, environment, cache, Steps
<1>4. ASSUME NEW t \in Threads, Judge(t) PROVE TypeOK'
  <2>1. ASSUME NEW result \in Answers, Finish(t, result)
        PROVE  /\ pc' \in [Threads -> Steps]
               /\ kid' \in [Threads -> Kids \cup {NoKid}]
               /\ snap' \in [Threads -> KeySet \cup {NoSet}]
               /\ answer' \in [Threads -> Answers]
               /\ skipped' \in SUBSET Threads
    BY <2>1 DEF Finish, Goto, Steps
  <2>2. \E result \in Answers : Finish(t, result)
    <3>1. \A k \in Keys : [key |-> k] \in Answers
      BY DEF Answers
    <3>2. \A r \in Rejections : [rejection |-> r] \in Answers
      BY DEF Answers
    <3>3. "key-set-unavailable" \in Rejections /\ "unknown-key-id" \in Rejections
          /\ "invalid-key-id" \in Rejections
      BY DEF Rejections
    <3>4. kid[t] # NoKid => kid[t] \in Keys
      BY DEF Keys
    <3> QED
      BY <1>4, <3>1, <3>2, <3>3, <3>4 DEF Judge
  <2> QED
    BY <1>4, <2>1, <2>2 DEF Judge, environment, cache
<1>5. ASSUME NEW t \in Threads, TryLock(t) PROVE TypeOK'
  BY <1>5 DEF TryLock, Goto, environment, cache, Steps
<1>6. ASSUME NEW t \in Threads, Cooldown(t) PROVE TypeOK'
  BY <1>6 DEF Cooldown, Goto, environment, Steps
<1>7. ASSUME NEW t \in Threads, FetchServed(t) PROVE TypeOK'
  <2>1. [keys |-> published, fetchedAt |-> began[t]] \in KeySet
    BY DEF KeySet
  <2> QED
    BY <1>7, <2>1 DEF FetchServed, Goto, environment, cache, Steps
<1>8. ASSUME NEW t \in Threads, FetchFailed(t) PROVE TypeOK'
  BY <1>8 DEF FetchFailed, Goto, environment, Steps
<1>9. ASSUME NEW t \in Threads, Swap(t) PROVE TypeOK'
  BY <1>9 DEF Swap, Goto, environment, Steps
<1>10. ASSUME NEW t \in Threads, Clear(t) PROVE TypeOK'
  BY <1>10 DEF Clear, Goto, environment, Steps
<1>11. CASE Rotate
  BY <1>11 DEF Rotate, cache
<1>12. CASE Tick
  BY <1>12 DEF Tick, cache
<1>13. CASE UNCHANGED vars
  BY <1>13 DEF vars
<1> QED
  BY <1>1, <1>2, <1>3, <1>4, <1>5, <1>6, <1>7, <1>8, <1>9, <1>10, <1>11, <1>12, <1>13
  DEF Next, Proceed

\* Every verifier's state has its type, whatever the threads do.
THEOREM KeySetCache_TypeOK == Spec => []TypeOK
<1>1. Init => TypeOK
  BY InitIInv DEF IInv
<1> QED
  BY <1>1, NextTypeOK, PTL DEF Spec

-----------------------------------------------------------------------------
(* One refresh at a time, and what it has noted                            *)

LEMMA NextLockHeld == TypeOK /\ LockHeld /\ [Next]_vars => LockHeld'
<1> SUFFICES ASSUME TypeOK, LockHeld, [Next]_vars PROVE LockHeld'
  OBVIOUS
<1> USE KeySetAssumption DEF TypeOK, LockHeld, Holding
<1>1. ASSUME NEW t \in Threads, Verify(t) \/ Read(t) \/ Look(t) PROVE LockHeld'
  BY <1>1 DEF Verify, Read, Look, Goto, environment, cache
<1>2. ASSUME NEW t \in Threads, Judge(t) PROVE LockHeld'
  BY <1>2 DEF Judge, Finish, Goto
<1>3. ASSUME NEW t \in Threads, TryLock(t) PROVE LockHeld'
  BY <1>3 DEF TryLock, Goto
<1>4. ASSUME NEW t \in Threads, Cooldown(t) PROVE LockHeld'
  BY <1>4 DEF Cooldown, Goto
<1>5. ASSUME NEW t \in Threads, FetchServed(t) \/ FetchFailed(t) \/ Swap(t) \/ Clear(t)
      PROVE  LockHeld'
  BY <1>5 DEF FetchServed, FetchFailed, Swap, Clear, Goto
<1>6. CASE Rotate \/ Tick \/ UNCHANGED vars
  BY <1>6 DEF Rotate, Tick, vars
<1> QED
  BY <1>1, <1>2, <1>3, <1>4, <1>5, <1>6 DEF Next, Proceed

LEMMA NextRefreshing ==
    TypeOK /\ LockHeld /\ Refreshing /\ [Next]_vars => Refreshing'
<1> SUFFICES ASSUME TypeOK, LockHeld, Refreshing, [Next]_vars PROVE Refreshing'
  OBVIOUS
<1> USE KeySetAssumption DEF TypeOK
<1>1. ASSUME NEW t \in Threads, Verify(t) \/ Look(t) PROVE Refreshing'
  BY <1>1 DEF Refreshing, Verify, Look, Goto, environment, cache
<1>2. ASSUME NEW t \in Threads, Read(t) PROVE Refreshing'
  BY <1>2 DEF Refreshing, Read, Goto, environment, cache
<1>3. ASSUME NEW t \in Threads, Judge(t) PROVE Refreshing'
  BY <1>3 DEF Refreshing, Judge, Finish, Goto, environment, cache
<1>4. ASSUME NEW t \in Threads, TryLock(t) PROVE Refreshing'
  BY <1>4 DEF Refreshing, TryLock, Goto, environment, cache
<1>5. ASSUME NEW t \in Threads, Cooldown(t) PROVE Refreshing'
  <2>1. \A u \in Threads \ {t} : pc[u] \notin Holding
    BY <1>5 DEF LockHeld, Cooldown, Holding
  <2>2. \A u \in Threads \ {t} : pc'[u] = pc[u] /\ began'[u] = began[u]
    BY <1>5 DEF Cooldown, Goto
  <2>3. CASE lastRefreshAt' = lastRefreshAt
    BY <1>5, <2>1, <2>2, <2>3 DEF Refreshing, Cooldown, Goto, environment, Holding
  <2>4. CASE lastRefreshAt' # lastRefreshAt
    <3>1. /\ lastRefreshAt' = clock /\ began'[t] = clock /\ pc'[t] = "fetch"
          /\ UNCHANGED <<clock, keySet, snap, askedAt>>
      BY <1>5, <2>4 DEF Cooldown, Goto, environment
    <3>2. lastRefreshAt # Never => lastRefreshAt < clock
      BY <1>5, <2>4 DEF Cooldown
    <3>3. keySet # NoSet => keySet.fetchedAt < clock
      BY <3>2 DEF Refreshing, KeySet
    <3>4. askedAt # Never => askedAt <= clock
      BY <3>2 DEF Refreshing
    <3> QED
      BY <2>1, <2>2, <3>1, <3>3, <3>4 DEF Refreshing, Holding, KeySet
  <2> QED
    BY <2>3, <2>4
<1>6. ASSUME NEW t \in Threads, FetchServed(t) PROVE Refreshing'
  <2>1. snap'[t] # NoSet /\ IsSound(snap'[t].keys) /\ snap'[t].fetchedAt = lastRefreshAt
    <3>1. [keys |-> published, fetchedAt |-> began[t]] \in KeySet
      BY DEF KeySet
    <3> QED
      BY <1>6, <3>1 DEF FetchServed, Refreshing
  <2> QED
    BY <1>6, <2>1 DEF Refreshing, FetchServed, Goto, environment, cache
<1>7. ASSUME NEW t \in Threads, FetchFailed(t) PROVE Refreshing'
  BY <1>7 DEF Refreshing, FetchFailed, Goto, environment
<1>8. ASSUME NEW t \in Threads, Swap(t) PROVE Refreshing'
  <2>1. \A u \in Threads \ {t} : pc[u] \notin Holding
    BY <1>8 DEF LockHeld, Swap, Holding
  <2>2. keySet' # NoSet /\ keySet'.fetchedAt = lastRefreshAt /\ pc'[t] = "clear"
    BY <1>8 DEF Refreshing, Swap, Goto
  <2> QED
    BY <1>8, <2>1, <2>2 DEF Refreshing, Swap, Goto, environment, Holding
<1>9. ASSUME NEW t \in Threads, Clear(t) PROVE Refreshing'
  BY <1>9 DEF Refreshing, Clear, Goto, environment
<1>10. CASE Rotate \/ UNCHANGED vars
  BY <1>10 DEF Refreshing, Rotate, cache, vars
<1>11. CASE Tick
  BY <1>11 DEF Refreshing, Tick, cache
<1> QED
  BY <1>1, <1>2, <1>3, <1>4, <1>5, <1>6, <1>7, <1>8, <1>9, <1>10, <1>11 DEF Next, Proceed

-----------------------------------------------------------------------------
(* How old what a set says can be                                          *)

\* Time and rotations leave a traced set traced: a key that is withdrawn is
\* seen published until then.
LEMMA TracedKept ==
    ASSUME TypeOK, NEW set \in KeySet \cup {NoSet}, Traced(set),
           Rotate \/ Tick \/ UNCHANGED environment
    PROVE  Traced(set)'
BY KeySetAssumption DEF TypeOK, Traced, KeySet, Rotate, Tick, environment

LEMMA NextAllTraced ==
    TypeOK /\ Refreshing /\ AllTraced /\ [Next]_vars => AllTraced'
<1> SUFFICES ASSUME TypeOK, Refreshing, AllTraced, [Next]_vars PROVE AllTraced'
  OBVIOUS
<1>1. Rotate \/ Tick \/ UNCHANGED environment
  BY DEF Next, Proceed, Verify, Read, Look, Judge, TryLock, Cooldown, FetchServed,
         FetchFailed, Swap, Clear, environment, vars
<1>2. \A set \in {keySet, NoSet} \cup {snap[t] : t \in Threads} : Traced(set)'
  <2>1. \A set \in {keySet, NoSet} \cup {snap[t] : t \in Threads} :
            set \in KeySet \cup {NoSet} /\ Traced(set)
    BY DEF TypeOK, AllTraced, Traced
  <2> QED
    BY <1>1, <2>1, TracedKept
<1>3. ASSUME NEW t \in Threads, FetchServed(t) PROVE Traced(snap[t])'
  <2>1. snap'[t] = [keys |-> published, fetchedAt |-> began[t]]
    BY <1>3 DEF FetchServed, TypeOK
  <2>2. began[t] <= clock
    BY <1>3 DEF FetchServed, Refreshing
  <2> QED
    BY <1>3, <2>1, <2>2 DEF FetchServed, Traced, environment
<1>4. keySet' \in {keySet} \cup {snap[t] : t \in Threads}
  BY DEF Next, Proceed, Verify, Read, Look, Judge, TryLock, Cooldown, FetchServed,
         FetchFailed, Swap, Clear, Rotate, Tick, cache, vars
<1>5. ASSUME NEW u \in Threads
      PROVE  \/ snap'[u] \in {keySet, NoSet} \cup {snap[t] : t \in Threads}
             \/ FetchServed(u)
  BY DEF TypeOK, Next, Proceed, Verify, Read, Look, Judge, Finish, TryLock, Cooldown,
         FetchServed, FetchFailed, Swap, Clear, Rotate, Tick, vars
<1> QED
  BY <1>2, <1>3, <1>4, <1>5 DEF AllTraced, Traced

-----------------------------------------------------------------------------
(* The theorems                                                            *)

LEMMA InductiveInvariant == Spec => []IInv
<1>1. IInv /\ [Next]_vars => IInv'
  BY NextTypeOK, NextLockHeld, NextRefreshing, NextAllTraced DEF IInv
<1> QED
  BY InitIInv, <1>1, PTL DEF Spec

\* However many threads meet unknown kids at once, and however their fetches end, a
\* thread sets out to ask the issuer only where no other is asking and the last
\* fetch began a cooldown ago (_refresh_key_set).
THEOREM KeySetCache_FetchesBounded == Spec => FetchesBounded
<1> DEFINE Bounded == \A t \in Threads :
               pc[t] # "fetch" /\ pc'[t] = "fetch" =>
                   /\ \A u \in Threads : pc[u] # "fetch"
                   /\ askedAt # Never => clock - askedAt >= RefreshCooldown
<1>1. IInv /\ [Next]_vars => [Bounded]_vars
  <2> SUFFICES ASSUME IInv, Next, NEW t \in Threads, pc[t] # "fetch", pc'[t] = "fetch"
               PROVE  /\ \A u \in Threads : pc[u] # "fetch"
                      /\ askedAt # Never => clock - askedAt >= RefreshCooldown
    BY DEF vars
  <2>1. Cooldown(t)
    <3>1. ASSUME NEW u \in Threads,
                 \/ Verify(u) \/ Read(u) \/ Look(u) \/ TryLock(u)
                 \/ FetchServed(u) \/ FetchFailed(u) \/ Swap(u) \/ Clear(u)
          PROVE  FALSE
      BY <3>1 DEF Verify, Read, Look, TryLock, FetchServed, FetchFailed, Swap, Clear, Goto,
                  IInv, TypeOK
    <3>2. ASSUME NEW u \in Threads, Judge(u)
          PROVE  FALSE
      <4>1. pc' = [pc EXCEPT ![u] = "idle"]
        BY <3>2 DEF Judge, Finish, Goto
      <4> QED
        BY <4>1 DEF IInv, TypeOK
    <3>3. ASSUME NEW u \in Threads, Cooldown(u)
          PROVE  u = t
      BY <3>3 DEF Cooldown, Goto, IInv, TypeOK
    <3>4. ~Rotate /\ ~Tick
      BY DEF Rotate, Tick
    <3> QED
      BY <3>1, <3>2, <3>3, <3>4 DEF Next, Proceed
  <2>2. \A u \in Threads : pc[u] # "fetch"
    BY <2>1 DEF Cooldown, IInv, LockHeld, Holding
  <2>3. lastRefreshAt # Never => clock - lastRefreshAt >= RefreshCooldown
    BY <2>1, KeySetAssumption DEF Cooldown, Goto, IInv, TypeOK
  <2>4. ASSUME askedAt # Never
        PROVE  clock - askedAt >= RefreshCooldown
    <3>1. lastRefreshAt # Never /\ askedAt <= lastRefreshAt
      BY <2>4 DEF IInv, Refreshing
    <3> QED
      BY <2>3, <2>4, <3>1, KeySetAssumption DEF IInv, TypeOK
  <2> QED
    BY <2>2, <2>4
<1> QED
  BY <1>1, InductiveInvariant, PTL DEF Spec, FetchesBounded

\* No refresh, however late it ends, puts an older or unsound key set in the
\* place of the cached one, and none leaves the cache empty again.
THEOREM KeySetCache_NewestSetKept == Spec => NewestSetKept
<1> DEFINE Newest == keySet' # keySet =>
               /\ keySet' # NoSet
               /\ IsSound(keySet'.keys)
               /\ keySet # NoSet => keySet.fetchedAt < keySet'.fetchedAt
<1>1. IInv /\ [Next]_vars => [Newest]_vars
  <2> SUFFICES ASSUME IInv, Next, keySet' # keySet
               PROVE  Newest
    BY DEF vars
  <2>1. PICK t \in Threads : Swap(t)
    BY DEF Next, Proceed, Verify, Read, Look, Judge, TryLock, Cooldown, FetchServed,
           FetchFailed, Clear, Rotate, Tick, cache
  <2> QED
    BY <2>1 DEF Swap, IInv, Refreshing
<1> QED
  BY <1>1, InductiveInvariant, PTL DEF Spec, NewestSetKept

\* A key the issuer withdrew KEY_SET_TTL ago verifies no token, however slow the
\* fetch that brought it and however long a thread held its snapshot.
THEOREM KeySetCache_RetiredKeyRefused == Spec => RetiredKeyRefused
<1> DEFINE Fresh == \A t \in Threads, k \in Keys :
               pc[t] = "judge" /\ answer'[t] = [key |-> k] /\ pc'[t] = "idle" =>
                   \/ k \in published
                   \/ lastPublished[k] # Never /\ clock - lastPublished[k] < KeySetTtl
<1>1. IInv /\ [Next]_vars => [Fresh]_vars
  <2> SUFFICES ASSUME IInv, Next, NEW t \in Threads, NEW k \in Keys,
                      pc[t] = "judge", answer'[t] = [key |-> k], pc'[t] = "idle",
                      k \notin published
               PROVE  lastPublished[k] # Never /\ clock - lastPublished[k] < KeySetTtl
    BY DEF vars
  <2>1. Judge(t)
    BY DEF Next, Proceed, Verify, Read, Look, Judge, TryLock, Cooldown, FetchServed,
           FetchFailed, Swap, Clear, Rotate, Tick, Finish, Goto, IInv, TypeOK
  <2>2. IsCurrent(snap[t]) /\ k \in snap[t].keys
    <3>1. \A r \in STRING : [key |-> k] # [rejection |-> r]
      OBVIOUS
    <3>2. ASSUME NEW result, Finish(t, result)
          PROVE  result = [key |-> k]
      BY <3>2 DEF Finish, IInv, TypeOK
    <3>3. IsCurrent(snap[t])
      BY <2>1, <3>1, <3>2 DEF Judge
    <3>4. CASE kid[t] = NoKid
      <4>1. PICK sole \in Keys : IsSole(snap[t], sole) /\ Finish(t, [key |-> sole])
        BY <2>1, <3>1, <3>2, <3>3, <3>4 DEF Judge
      <4>2. sole = k
        BY <3>2, <4>1
      <4> QED
        BY <3>3, <4>1, <4>2 DEF IsSole
    <3>5. CASE kid[t] # NoKid
      <4>1. kid[t] \in snap[t].keys /\ Finish(t, [key |-> kid[t]])
        BY <2>1, <3>1, <3>2, <3>3, <3>5 DEF Judge
      <4>2. kid[t] = k
        BY <3>2, <4>1
      <4> QED
        BY <3>3, <4>1, <4>2
    <3> QED
      BY <3>4, <3>5
  <2>3. snap[t] \in KeySet /\ snap[t].fetchedAt <= lastPublished[k] /\ lastPublished[k] # Never
    BY <2>2 DEF IInv, AllTraced, Traced, IsCurrent, TypeOK
  <2> QED
    BY <2>2, <2>3, KeySetAssumption DEF IsCurrent, IInv, TypeOK, KeySet
<1> QED
  BY <1>1, InductiveInvariant, PTL DEF Spec, RetiredKeyRefused

=============================================================================
