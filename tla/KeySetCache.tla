---------------------------- MODULE KeySetCache ----------------------------
(***************************************************************************)
(* webauth.jwt_verification._JwtVerifier: the key a token's signature is   *)
(* read against.  One verifier is shared by all request threads.  It keeps *)
(* an immutable key set, when a refresh was last tried and whether it      *)
(* failed; a refresh runs under a lock nobody waits for.  Every read or    *)
(* write of a field another thread writes is a step of its own.            *)
(*                                                                         *)
(* A key is named by its key id; Unnamed is a key published without one.   *)
(***************************************************************************)
EXTENDS Integers, FiniteSets

CONSTANTS
    Threads,
    Kids,              \* the key ids the issuer uses over time
    Unnamed,           \* a verification key without a kid
    NoKid,             \* the kid of a token without one
    KeySetTtl,         \* _KEY_SET_TTL_SECONDS
    RefreshCooldown,   \* KEY_SET_REFRESH_COOLDOWN_SECONDS
    MaxKeySetKeys,     \* _MAX_KEY_SET_KEYS
    MaxClock,          \* bound on the monotonic clock
    NoSet, NoThread, Never

Keys == Kids \cup {Unnamed}

KeySet == [keys : SUBSET Keys, fetchedAt : Nat]

ASSUME KeySetAssumption ==
    /\ IsFiniteSet(Kids)
    /\ Unnamed \notin Kids
    /\ NoKid \notin Kids
    /\ KeySetTtl \in Nat \ {0}
    /\ RefreshCooldown \in Nat \ {0}
    /\ MaxKeySetKeys \in Nat \ {0}
    /\ MaxClock \in Nat
    /\ NoSet \notin KeySet
    /\ NoThread \notin Threads
    /\ Never \notin Int

VARIABLES
    clock,          \* the monotonic clock
    published,      \* the verification keys the issuer publishes
    lastPublished,  \* when each key was last seen published, Never if it was not
    keySet,         \* _key_set
    lastRefreshAt,  \* _last_refresh_at
    lastFailed,     \* _last_refresh_failed
    lock,           \* the holder of _refresh_lock
    pc, kid,        \* each thread's next step and its token's kid
    snap,           \* each thread's local key_set
    began,          \* the local now of _refresh_key_set
    answer,         \* what _signing_key answered: a key, or a rejection
    askedAt,        \* history: the start of the last fetch that came back, Never before
    skipped         \* history: the threads that left their refresh to another's

vars == <<clock, published, lastPublished, keySet, lastRefreshAt, lastFailed, lock,
          pc, kid, snap, began, answer, askedAt, skipped>>

\* RejectionReason, and "none" before the first answer.
Rejections == {"key-set-unavailable", "unknown-key-id", "invalid-key-id"}

Steps == {"idle", "read", "look", "tryLock", "cooldown", "fetch", "swap", "clear",
          "reread", "judge"}

Answers == [key : Keys] \cup [rejection : Rejections \cup {"none"}]

TypeOK ==
    /\ clock \in Nat
    /\ published \in SUBSET Keys
    /\ lastPublished \in [Keys -> Nat \cup {Never}]
    /\ keySet \in KeySet \cup {NoSet}
    /\ lastRefreshAt \in Nat \cup {Never}
    /\ lastFailed \in BOOLEAN
    /\ lock \in Threads \cup {NoThread}
    /\ pc \in [Threads -> Steps]
    /\ kid \in [Threads -> Kids \cup {NoKid}]
    /\ snap \in [Threads -> KeySet \cup {NoSet}]
    /\ began \in [Threads -> Nat]
    /\ answer \in [Threads -> Answers]
    /\ askedAt \in Nat \cup {Never}
    /\ skipped \in SUBSET Threads

Init ==
    /\ clock = 0
    /\ published \in SUBSET Keys
    /\ lastPublished = [k \in Keys |-> IF k \in published THEN 0 ELSE Never]
    /\ keySet = NoSet
    /\ lastRefreshAt = Never
    /\ lastFailed = FALSE
    /\ lock = NoThread
    /\ pc = [t \in Threads |-> "idle"]
    /\ kid = [t \in Threads |-> NoKid]
    /\ snap = [t \in Threads |-> NoSet]
    /\ began = [t \in Threads |-> 0]
    /\ answer = [t \in Threads |-> [rejection |-> "none"]]
    /\ askedAt = Never
    /\ skipped = {}

environment == <<clock, published, lastPublished>>
cache == <<keySet, lastRefreshAt, lastFailed>>

Goto(t, step) == pc' = [pc EXCEPT ![t] = step]

Finish(t, result) ==
    /\ answer' = [answer EXCEPT ![t] = result]
    /\ kid' = [kid EXCEPT ![t] = NoKid]
    /\ snap' = [snap EXCEPT ![t] = NoSet]
    /\ skipped' = skipped \ {t}
    /\ Goto(t, "idle")

-----------------------------------------------------------------------------
(* _signing_key                                                            *)

\* _is_current
IsCurrent(set) == set # NoSet /\ clock - set.fetchedAt < KeySetTtl

\* A token whose header held reaches _signing_key.
Verify(t) ==
    /\ pc[t] = "idle"
    /\ \E k \in Kids \cup {NoKid} : kid' = [kid EXCEPT ![t] = k]
    /\ answer' = [answer EXCEPT ![t] = [rejection |-> "none"]]
    /\ Goto(t, "read")
    /\ UNCHANGED <<environment, cache, lock, snap, began, askedAt, skipped>>

\* key_set = self._key_set, before and after the refresh.
Read(t) ==
    /\ pc[t] \in {"read", "reread"}
    /\ snap' = [snap EXCEPT ![t] = keySet]
    /\ Goto(t, IF pc[t] = "read" THEN "look" ELSE "judge")
    /\ UNCHANGED <<environment, cache, lock, kid, began, answer, askedAt, skipped>>

\* Whether the snapshot will do: if not, the thread tries a refresh.
Look(t) ==
    /\ pc[t] = "look"
    /\ Goto(t, IF ~IsCurrent(snap[t]) \/ (kid[t] # NoKid /\ kid[t] \notin snap[t].keys)
               THEN "tryLock" ELSE "judge")
    /\ UNCHANGED <<environment, cache, lock, kid, snap, began, answer, askedAt, skipped>>

\* The sole key of a key set, whether or not it has a name.
IsSole(set, k) == set.keys = {k}

Judge(t) ==
    /\ pc[t] = "judge"
    /\ IF ~IsCurrent(snap[t])
       THEN Finish(t, [rejection |-> "key-set-unavailable"])
       ELSE IF kid[t] = NoKid
       THEN \/ \E k \in Keys : IsSole(snap[t], k) /\ Finish(t, [key |-> k])
            \/ /\ \A k \in Keys : ~IsSole(snap[t], k)
               /\ Finish(t, [rejection |-> "invalid-key-id"])
       ELSE IF kid[t] \in snap[t].keys
       THEN Finish(t, [key |-> kid[t]])
       ELSE Finish(t, [rejection |-> IF lastFailed THEN "key-set-unavailable"
                                                   ELSE "unknown-key-id"])
    /\ UNCHANGED <<environment, cache, lock, began, askedAt>>

-----------------------------------------------------------------------------
(* _refresh_key_set                                                        *)

\* acquire(blocking=False)
TryLock(t) ==
    /\ pc[t] = "tryLock"
    /\ IF lock = NoThread
       THEN lock' = t /\ Goto(t, "cooldown") /\ UNCHANGED skipped
       ELSE skipped' = skipped \cup {t} /\ Goto(t, "reread") /\ UNCHANGED lock
    /\ UNCHANGED <<environment, cache, kid, snap, began, answer, askedAt>>

\* Mutant: the early return of the cooldown does not release.
CooldownKeepsLock(t) ==
    /\ pc[t] = "cooldown"
    /\ IF lastRefreshAt # Never /\ clock - lastRefreshAt < RefreshCooldown
       THEN /\ Goto(t, "reread")
            /\ UNCHANGED <<lastRefreshAt, began>>
       ELSE /\ lastRefreshAt' = clock
            /\ began' = [began EXCEPT ![t] = clock]
            /\ Goto(t, "fetch")
    /\ UNCHANGED <<environment, keySet, lastFailed, lock, kid, snap, answer, askedAt, skipped>>

Cooldown(t) ==
    /\ pc[t] = "cooldown"
    /\ IF lastRefreshAt # Never /\ clock - lastRefreshAt < RefreshCooldown
       THEN /\ lock' = NoThread
            /\ Goto(t, "reread")
            /\ UNCHANGED <<lastRefreshAt, began>>
       ELSE /\ lastRefreshAt' = clock
            /\ began' = [began EXCEPT ![t] = clock]
            /\ Goto(t, "fetch")
            /\ UNCHANGED lock
    /\ UNCHANGED <<environment, keySet, lastFailed, kid, snap, answer, askedAt, skipped>>

\* _parse_key_set: a document with too many keys, or none, replaces nothing.
IsSound(keys) == keys # {} /\ Cardinality(keys) <= MaxKeySetKeys

\* The issuer serves what it publishes now; the parsed keys are a local of the
\* thread, kept in snap, which is read again before it is next used.
FetchServed(t) ==
    /\ pc[t] = "fetch"
    /\ IsSound(published)
    /\ snap' = [snap EXCEPT ![t] = [keys |-> published, fetchedAt |-> began[t]]]
    /\ askedAt' = began[t]
    /\ began' = [began EXCEPT ![t] = 0]
    /\ Goto(t, "swap")
    /\ UNCHANGED <<environment, cache, lock, kid, answer, skipped>>

\* Mutant: a failed refresh drops the set it could not replace.
FetchFailedEvicts(t) ==
    /\ pc[t] = "fetch"
    /\ keySet' = NoSet
    /\ lastFailed' = TRUE
    /\ lock' = NoThread
    /\ snap' = [snap EXCEPT ![t] = NoSet]
    /\ askedAt' = began[t]
    /\ began' = [began EXCEPT ![t] = 0]
    /\ Goto(t, "reread")
    /\ UNCHANGED <<environment, lastRefreshAt, kid, answer, skipped>>

\* Mutant: a failed attempt does not count for the cooldown.
FetchFailedForgotten(t) ==
    /\ pc[t] = "fetch"
    /\ lastFailed' = TRUE
    /\ lastRefreshAt' = Never
    /\ lock' = NoThread
    /\ snap' = [snap EXCEPT ![t] = NoSet]
    /\ askedAt' = began[t]
    /\ began' = [began EXCEPT ![t] = 0]
    /\ Goto(t, "reread")
    /\ UNCHANGED <<environment, keySet, kid, answer, skipped>>

\* KeySetFetchError, or a document _parse_key_set refuses.
FetchFailed(t) ==
    /\ pc[t] = "fetch"
    /\ lastFailed' = TRUE
    /\ lock' = NoThread
    /\ snap' = [snap EXCEPT ![t] = NoSet]
    /\ askedAt' = began[t]
    /\ began' = [began EXCEPT ![t] = 0]
    /\ Goto(t, "reread")
    /\ UNCHANGED <<environment, keySet, lastRefreshAt, kid, answer, skipped>>

\* Mutant: the set's age counts from the end of its fetch.
SwapStampedLate(t) ==
    /\ pc[t] = "swap"
    /\ keySet' = [snap[t] EXCEPT !.fetchedAt = clock]
    /\ Goto(t, "clear")
    /\ UNCHANGED <<environment, lastRefreshAt, lastFailed, lock, kid, snap, began, answer, askedAt, skipped>>

\* self._key_set = _KeySet(...)
Swap(t) ==
    /\ pc[t] = "swap"
    /\ keySet' = snap[t]
    /\ Goto(t, "clear")
    /\ UNCHANGED <<environment, lastRefreshAt, lastFailed, lock, kid, snap, began, answer, askedAt, skipped>>

\* self._last_refresh_failed = False, and the release.
Clear(t) ==
    /\ pc[t] = "clear"
    /\ lastFailed' = FALSE
    /\ lock' = NoThread
    /\ Goto(t, "reread")
    /\ UNCHANGED <<environment, keySet, lastRefreshAt, kid, snap, began, answer, askedAt, skipped>>

-----------------------------------------------------------------------------
(* The issuer's rotations, and time                                        *)

Rotate ==
    /\ \E keys \in SUBSET Keys :
          /\ keys # published
          /\ published' = keys
          /\ lastPublished' = [k \in Keys |-> IF k \in published \cup keys
                                              THEN clock ELSE lastPublished[k]]
    /\ UNCHANGED <<clock, cache, lock, pc, kid, snap, began, answer, askedAt, skipped>>

Tick ==
    /\ clock < MaxClock
    /\ clock' = clock + 1
    /\ UNCHANGED <<published, lastPublished, cache, lock, pc, kid, snap, began, answer, askedAt, skipped>>

\* Everything a thread does once its request has reached _signing_key.
Proceed(t) ==
    \/ Read(t) \/ Look(t) \/ Judge(t) \/ TryLock(t) \/ Cooldown(t)
    \/ FetchServed(t) \/ FetchFailed(t) \/ Swap(t) \/ Clear(t)

Next ==
    \/ \E t \in Threads : Verify(t) \/ Proceed(t)
    \/ Rotate
    \/ Tick

Spec == Init /\ [][Next]_vars

\* No thread waits for another, and the transport bounds every fetch, so each
\* started verification goes on.
FairSpec == Spec /\ \A t \in Threads : WF_vars(Proceed(t))

-----------------------------------------------------------------------------
(* Properties                                                              *)

\* A key the issuer has stopped publishing KeySetTtl ago verifies nothing, even
\* when it was withdrawn while a slow fetch was under way: a set's age counts
\* from before its fetch.
RetiredKeyRefused ==
    [][\A t \in Threads, k \in Keys :
          pc[t] = "judge" /\ answer'[t] = [key |-> k] /\ pc'[t] = "idle" =>
              \/ k \in published
              \/ lastPublished[k] # Never /\ clock - lastPublished[k] < KeySetTtl]_vars

\* A refresh never puts an older key set in the place of a newer one, and no
\* failed or unsound refresh evicts the last good one.
NewestSetKept ==
    [][keySet' # keySet => /\ keySet' # NoSet
                           /\ IsSound(keySet'.keys)
                           /\ keySet # NoSet => keySet.fetchedAt < keySet'.fetchedAt]_vars

\* However many threads meet unknown kids, and whether or not the last fetch
\* failed, a thread sets out to fetch only where no other is fetching and the last
\* fetch began a cooldown ago (_refresh_key_set).
FetchesBounded ==
    [][\A t \in Threads :
          pc[t] # "fetch" /\ pc'[t] = "fetch" =>
              /\ \A u \in Threads : pc[u] # "fetch"
              /\ askedAt # Never => clock - askedAt >= RefreshCooldown]_vars

\* A token whose refresh was skipped while another thread was refreshing is
\* rejected as unknown, once no refresh is under way any more, only when the key
\* set of the last one lacks its kid (the module's docstring).
UnknownMeansAbsent ==
    [][\A t \in skipped :
          /\ pc[t] = "judge" /\ answer'[t] = [rejection |-> "unknown-key-id"] /\ pc'[t] = "idle"
          /\ lock = NoThread
          => keySet # NoSet /\ kid[t] \notin keySet.keys]_vars

\* The refresh lock is always given back: a refresh that ends in any way leaves
\* the next one possible.
RefreshLockFreed == \A t \in Threads : lock = t ~> lock # t

=============================================================================
