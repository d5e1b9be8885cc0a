--------------------------- MODULE SlidingWindow ---------------------------
(***************************************************************************)
(* What webauth.ports.RateLimitBackend promises: "whether key still fits   *)
(* limit events in the last window_seconds", and a call that is told yes   *)
(* has spent one.  A call is one step here, decided at what its clock shows *)
(* then; when its answer is lost on the way, what it spent stays spent.    *)
(* What the constants may be is assumed by the modules that implement this. *)
(***************************************************************************)
EXTENDS Integers, Sequences

CONSTANTS
    Keys,
    Limit,    \* of each key, positive
    Window,   \* of each key, positive
    NoKey     \* in the place of a key where no call was answered

VARIABLES
    deciding, \* what the clock that decides shows
    lag,      \* how far behind it the backend's clock may have been set
    spent,    \* the instants at which each key spent one of its budget
    verdict   \* the last answer given

windowVars == <<deciding, lag, spent, verdict>>

Told(key, answer) == verdict' = [key |-> key, answer |-> answer]

\* The Limit-th last spend of the key, if there is one, has left the window.
FitsAt(key, instant) ==
    Len(spent[key]) >= Limit[key] =>
        spent[key][Len(spent[key]) + 1 - Limit[key]] <= instant - Window[key]

Spend(key) == spent' = [spent EXCEPT ![key] = Append(@, deciding)]

\* The deciding clock goes only forward, in a call or between two.
Onward ==
    /\ deciding' \in Nat /\ deciding' >= deciding
    /\ lag' \in Nat /\ lag' >= lag

WindowInit ==
    /\ deciding = 0 /\ lag = 0
    /\ spent = [k \in Keys |-> <<>>]
    /\ verdict = [key |-> NoKey, answer |-> "none"]

Allow(key) ==
    /\ FitsAt(key, deciding)
    /\ Spend(key)
    /\ Told(key, "allowed")

\* A denial is due: one more event would not fit by the backend's own clock.
Deny(key) ==
    /\ ~FitsAt(key, deciding - lag)
    /\ Told(key, "denied")
    /\ UNCHANGED spent

LoseAnswer(key) ==
    /\ FitsAt(key, deciding)
    /\ Spend(key)
    /\ Told(NoKey, "unavailable")

Unreachable ==
    /\ Told(NoKey, "unavailable")
    /\ UNCHANGED spent

Decide == (\E key \in Keys : Allow(key) \/ Deny(key) \/ LoseAnswer(key)) \/ Unreachable

WindowNext == Onward /\ (Decide \/ UNCHANGED <<spent, verdict>>)

WindowSpec == WindowInit /\ [][WindowNext]_windowVars

\* However the calls arrive, no half-open window of the key's length holds more
\* than its limit of spends: any spend and the Limit-th after it are a whole
\* window apart (RateLimitBackend.is_allowed).
WithinBudget ==
    \A key \in Keys : \A i \in 1 .. Len(spent[key]) - Limit[key] :
        spent[key][i + Limit[key]] - spent[key][i] >= Window[key]

=============================================================================
