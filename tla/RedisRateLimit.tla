--------------------------- MODULE RedisRateLimit ---------------------------
(***************************************************************************)
(* webauth.rate_limit.RedisRateLimitBackend: the windows of every process  *)
(* in one Redis, one sorted set for each key.  A check is one Lua script,  *)
(* which Redis runs as one step at its own clock, so it has no interleaving *)
(* here; what can go wrong is around it: the server forgets a key when its *)
(* EXPIRE is due, cannot be reached, has its answer lost after it ran, or  *)
(* has its wall clock set back.                                            *)
(***************************************************************************)
EXTENDS Integers, Sequences, FiniteSets

CONSTANTS
    Keys, Limit, Window,
    MaxClock,  \* bound on true time
    MaxSetBack,
    NoKey

ASSUME RedisAssumption ==
    /\ Limit \in [Keys -> Nat \ {0}]
    /\ Window \in [Keys -> Nat \ {0}]
    /\ MaxClock \in Nat /\ MaxSetBack \in Nat
    /\ NoKey \notin Keys

VARIABLES
    time,       \* true time
    setBack,    \* how far the server's clock has been set back so far
    sortedSet,  \* each key's members and their scores
    expiresAt,  \* when the server forgets the key
    spent,      \* the checks that were counted, by the true instant they counted at
    verdict     \* the last answer given

vars == <<time, setBack, sortedSet, expiresAt, spent, verdict>>

Init ==
    /\ time = 0 /\ setBack = 0
    /\ sortedSet = [k \in Keys |-> {}]
    /\ expiresAt = [k \in Keys |-> 0]
    /\ spent = [k \in Keys |-> <<>>]
    /\ verdict = [key |-> NoKey, answer |-> "none"]

\* redis.call("TIME")
clock == time - setBack

\* ZREMRANGEBYSCORE key 0 (now - window)
Trimmed(key) == {m \in sortedSet[key] : ~(0 <= m.score /\ m.score <= clock - Window[key])}

\* ZADD: no two calls have one member, a fresh uuid4, which stands here as the
\* number of the check among those that were counted.
Added(key) == [member |-> Len(spent[key]) + 1, score |-> clock]

\* Mutant: EXPIRE is set only when the key is new.
ScriptExpiresOnce(key, counts) ==
    LET kept == Trimmed(key)
    IN  /\ counts = (Cardinality(kept) < Limit[key])
        /\ sortedSet' = [sortedSet EXCEPT ![key] = IF counts THEN kept \cup {Added(key)} ELSE kept]
        /\ expiresAt' = IF counts /\ sortedSet[key] = {}
                        THEN [expiresAt EXCEPT ![key] = clock + Window[key]] ELSE expiresAt
        /\ spent' = IF counts THEN [spent EXCEPT ![key] = Append(@, time)] ELSE spent

\* _LUA_SLIDING_WINDOW; the count it returns is over the limit when the set was full.
Script(key, counts) ==
    LET kept == Trimmed(key)
    IN  /\ counts = (Cardinality(kept) < Limit[key])
        /\ sortedSet' = [sortedSet EXCEPT ![key] = IF counts THEN kept \cup {Added(key)} ELSE kept]
        /\ expiresAt' = [expiresAt EXCEPT ![key] = IF counts THEN clock + Window[key] ELSE @]
        /\ spent' = IF counts THEN [spent EXCEPT ![key] = Append(@, time)] ELSE spent

\* is_allowed: the script's answer arrives, or is lost and the client raises.
Check(key) ==
    /\ \E counts \in BOOLEAN :
          /\ Script(key, counts)
          /\ verdict' \in {[key |-> key, answer |-> IF counts THEN "allowed" ELSE "denied"],
                          [key |-> NoKey, answer |-> "unavailable"]}
    /\ UNCHANGED <<time, setBack>>

\* The script never reaches the server.
Unreachable ==
    /\ verdict' = [key |-> NoKey, answer |-> "unavailable"]
    /\ UNCHANGED <<time, setBack, sortedSet, expiresAt, spent>>

\* The server drops a key whose EXPIRE is due; a check after it finds none.
Expire(key) ==
    /\ sortedSet[key] # {}
    /\ clock >= expiresAt[key]
    /\ sortedSet' = [sortedSet EXCEPT ![key] = {}]
    /\ UNCHANGED <<time, setBack, expiresAt, spent, verdict>>

Tick ==
    /\ time < MaxClock
    /\ time' = time + 1
    /\ UNCHANGED <<setBack, sortedSet, expiresAt, spent, verdict>>

\* An operator or a time service corrects the server's clock.
SetClockBack ==
    /\ setBack < MaxSetBack /\ clock > 0
    /\ setBack' = setBack + 1
    /\ UNCHANGED <<time, sortedSet, expiresAt, spent, verdict>>

Next == (\E key \in Keys : Check(key) \/ Expire(key)) \/ Unreachable \/ Tick \/ SetClockBack

Spec == Init /\ [][Next]_vars

-----------------------------------------------------------------------------

Budget == INSTANCE SlidingWindow WITH deciding <- time, lag <- setBack

\* In true time, and whenever the clock is set back: a check is counted only where
\* it fits, a key the server forgets no longer counts, a lost answer stays spent,
\* and a denial is due, late by no more than the clock was set back
\* (_LUA_SLIDING_WINDOW).
KeepsBudget == Budget!WindowSpec

=============================================================================
