----------------------- MODULE SingleProcessRateLimit -----------------------
(***************************************************************************)
(* webauth.rate_limit.SingleProcessRateLimitBackend: every key's events in *)
(* this process's memory behind one lock, a key's timestamps trimmed when  *)
(* it is checked and whole keys swept away now and then.  The middleware   *)
(* checks a key always with the window of its budget, so a key has one     *)
(* window and the ValueError of a second one never arises.                 *)
(***************************************************************************)
EXTENDS Integers, Sequences, FiniteSets

CONSTANTS
    Keys, Limit, Window,
    Threads,
    PruneInterval,  \* _PRUNE_INTERVAL_SECONDS
    MaxClock,       \* bound on the monotonic clock
    NoKey, NoEntry, NoThread

ASSUME SingleProcessAssumption ==
    /\ Limit \in [Keys -> Nat \ {0}]
    /\ Window \in [Keys -> Nat \ {0}]
    /\ PruneInterval \in Nat \ {0}
    /\ MaxClock \in Nat
    /\ NoKey \notin Keys
    /\ NoThread \notin Threads
    /\ NoEntry \notin Seq(Nat)

VARIABLES
    clock,        \* time.monotonic()
    events,       \* _events
    nextPruneAt,  \* _next_prune_at
    lock,         \* the holder of _lock
    asked,        \* the key each thread is checking, or NoKey
    now,          \* each thread's local now
    spent,        \* the instants of the checks that were allowed, none forgotten
    verdict       \* the last answer given

vars == <<clock, events, nextPruneAt, lock, asked, now, spent, verdict>>

Init ==
    /\ clock = 0
    /\ events = [k \in Keys |-> NoEntry]
    /\ nextPruneAt = 0
    /\ lock = NoThread
    /\ asked = [t \in Threads |-> NoKey]
    /\ now = [t \in Threads |-> 0]
    /\ spent = [k \in Keys |-> <<>>]
    /\ verdict = [key |-> NoKey, answer |-> "none"]

Newest(key) == events[key][Len(events[key])]

\* Mutant: a key goes only when its newest event has been outside the window.
SweptLate(at) ==
    IF at < nextPruneAt
    THEN {}
    ELSE {k \in Keys : events[k] # NoEntry /\
             (events[k] = <<>> \/ Newest(k) + Window[k] < at)}

\* _sweep_expired_when_due: which keys it deletes.  The last timestamp of an
\* entry is its newest, because now is read under the lock.
Swept(at) ==
    IF at < nextPruneAt
    THEN {}
    ELSE {k \in Keys : /\ events[k] # NoEntry
                       /\ events[k] = <<>> \/ Newest(k) + Window[k] <= at}

NextPrune(at) == IF at < nextPruneAt THEN nextPruneAt ELSE at + PruneInterval

Call(t) ==
    /\ asked[t] = NoKey
    /\ \E key \in Keys : asked' = [asked EXCEPT ![t] = key]
    /\ UNCHANGED <<clock, events, nextPruneAt, lock, now, spent, verdict>>

\* with self._lock: now = time.monotonic()
Acquire(t) ==
    /\ asked[t] # NoKey
    /\ lock = NoThread
    /\ lock' = t
    /\ now' = [now EXCEPT ![t] = clock]
    /\ UNCHANGED <<clock, events, nextPruneAt, asked, spent, verdict>>

\* What a list has at these places, in its order.
AtPlaces(list, places) ==
    [n \in 1 .. Cardinality(places) |->
        list[CHOOSE i \in places : Cardinality({j \in places : j <= i}) = n]]

\* Mutant: a timestamp is kept until it is older than the window.
TrimmedLate(key, at) ==
    IF events[key] = NoEntry \/ key \in Swept(at)
    THEN <<>>
    ELSE AtPlaces(events[key], {i \in DOMAIN events[key] : events[key][i] >= at - Window[key]})

\* The timestamps is_allowed keeps of a key.
Trimmed(key, at) ==
    IF events[key] = NoEntry \/ key \in Swept(at)
    THEN <<>>
    ELSE AtPlaces(events[key], {i \in DOMAIN events[key] : events[key][i] > at - Window[key]})

\* The rest of is_allowed, and the release.
Answer(t) ==
    /\ lock = t
    /\ LET key == asked[t]
           kept == Trimmed(key, now[t])
           allowed == Len(kept) < Limit[key]
       IN  /\ events' = [k \in Keys |->
                 CASE k = key -> IF allowed THEN Append(kept, now[t]) ELSE kept
                   [] k # key /\ k \in Swept(now[t]) -> NoEntry
                   [] OTHER -> events[k]]
           /\ spent' = IF allowed THEN [spent EXCEPT ![key] = Append(@, now[t])] ELSE spent
           /\ verdict' = [key |-> key, answer |-> IF allowed THEN "allowed" ELSE "denied"]
    /\ nextPruneAt' = NextPrune(now[t])
    /\ lock' = NoThread
    /\ asked' = [asked EXCEPT ![t] = NoKey]
    /\ now' = [now EXCEPT ![t] = 0]
    /\ UNCHANGED clock

Tick ==
    /\ clock < MaxClock
    /\ clock' = clock + 1
    /\ UNCHANGED <<events, nextPruneAt, lock, asked, now, spent, verdict>>

Next == (\E t \in Threads : Call(t) \/ Acquire(t) \/ Answer(t)) \/ Tick

Spec == Init /\ [][Next]_vars

-----------------------------------------------------------------------------

\* The clock that decides: what the lock's holder read of it, since no check is
\* decided before it lets go, and the clock itself between two holders.
Reading == IF lock = NoThread THEN clock ELSE now[lock]

Budget == INSTANCE SlidingWindow WITH deciding <- Reading, lag <- 0

\* Trimming and sweeping forget nothing that still counts and keep nothing that
\* no longer does: every check is allowed or denied as by a backend that
\* remembers every event for ever and decides at the reading made under the lock
\* (is_allowed).
KeepsBudget == Budget!WindowSpec

\* The store stays bounded by the addresses currently active: right after a
\* check that swept, every other key it still holds counts for something.
SweepLeavesActive ==
    [][\A t \in Threads :
          lock = t /\ lock' # t /\ now[t] >= nextPruneAt =>
              \A k \in Keys \ {asked[t]} : events'[k] # NoEntry =>
                  \E i \in DOMAIN events'[k] : events'[k][i] > now[t] - Window[k]]_vars

=============================================================================
