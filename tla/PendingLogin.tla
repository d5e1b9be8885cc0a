---------------------------- MODULE PendingLogin ----------------------------
(***************************************************************************)
(* The logins one browser has begun and not finished (webauth.cookies, the *)
(* start and callback routes of webauth.sign_in_routes).  The host keeps   *)
(* nothing: each login travels in a signed cookie of its own, a start      *)
(* clears the oldest of those it was sent, and a callback takes back the   *)
(* one its state names.  The browser has several requests open at once; an *)
(* answer changes its cookies when it arrives, if it does, whatever they   *)
(* have become since the request was sent.                                 *)
(***************************************************************************)
EXTENDS Integers, FiniteSets

CONSTANTS
    Logins,      \* the logins the browser may begin, by their state; a bound
    Slots,       \* requests the browser may have open at once; a bound
    MaxPending,  \* _MAX_PENDING_LOGINS
    MaxAge,      \* PENDING_LOGIN_MAX_AGE_SECONDS
    MaxTime,     \* bound on the passing of time
    NoLogin

\* _UNRANKED
Unranked == -1

ASSUME PendingLoginAssumption ==
    /\ IsFiniteSet(Logins)
    /\ IsFiniteSet(Slots)
    /\ MaxPending \in Nat \ {0}
    /\ MaxAge \in Nat
    /\ MaxTime \in Nat
    /\ NoLogin \notin Logins

VARIABLES
    time,
    issuedAt,  \* when each login was begun, as its cookie says
    begun,     \* the logins the start route has begun
    sentTo,    \* those whose answer arrived: the browser went to the issuer
    genuine,   \* those signed under the key the host has now
    delivered, \* history: those that had an answer to a callback arrive
    jar,       \* the pending-login cookies the browser holds
    stage,     \* of each slot: "free", "start", "callback" or "answered"
    login,     \* the login a slot's request begins or names
    carried,   \* the pending-login cookies its request carries to the route
    cleared,   \* the cookies its answer takes back
    outcome    \* what its answer says

requests == <<stage, login, carried, cleared, outcome>>
logins == <<issuedAt, begun, sentTo, genuine>>
vars == <<time, logins, delivered, jar, requests>>

Outcomes == {"none", "redirected", "state-mismatch", "expired", "judged", "failed"}

Init ==
    /\ time = 0
    /\ issuedAt = [l \in Logins |-> 0]
    /\ begun = {}
    /\ sentTo = {}
    /\ genuine = {}
    /\ delivered = {}
    /\ jar = {}
    /\ stage = [r \in Slots |-> "free"]
    /\ login = [r \in Slots |-> NoLogin]
    /\ carried = [r \in Slots |-> {}]
    /\ cleared = [r \in Slots |-> {}]
    /\ outcome = [r \in Slots |-> "none"]

-----------------------------------------------------------------------------
(* The browser sends                                                       *)

\* The request carries cookies of the jar: the route looks at no others.
Send(r, kind, l, cookies) ==
    /\ stage[r] = "free"
    /\ stage' = [stage EXCEPT ![r] = kind]
    /\ login' = [login EXCEPT ![r] = l]
    /\ carried' = [carried EXCEPT ![r] = cookies]
    /\ UNCHANGED <<time, logins, delivered, jar, cleared, outcome>>

\* Bound: the starts that are open may still begin a login each.
LoginsLeft ==
    Cardinality(begun) + Cardinality({r \in Slots : stage[r] = "start"}) < Cardinality(Logins)

SendStart(r) == LoginsLeft /\ Send(r, "start", NoLogin, jar)

\* The issuer sent the browser back; a reload sends the same callback again.
SendCallback(r) == \E l \in sentTo : Send(r, "callback", l, jar \cap {l})

-----------------------------------------------------------------------------
(* The start route                                                         *)

\* _issued_at
Rank(l) == IF l \in genuine THEN issuedAt[l] ELSE Unranked

\* Mutant: the new login is not counted.
EvictableUncounted(held) ==
    {evicted \in SUBSET held :
        /\ Cardinality(evicted) =
               IF Cardinality(held) > MaxPending THEN Cardinality(held) - MaxPending ELSE 0
        /\ \A gone \in evicted, kept \in held \ evicted : Rank(gone) <= Rank(kept)}

\* Mutant: newest first.
EvictableNewest(held) ==
    {evicted \in SUBSET held :
        /\ Cardinality(evicted) =
               IF Cardinality(held) >= MaxPending THEN Cardinality(held) + 1 - MaxPending ELSE 0
        /\ \A gone \in evicted, kept \in held \ evicted : Rank(gone) >= Rank(kept)}

\* _pending_login_cookies_to_evict: equal seconds tie.
Evictable(held) ==
    {evicted \in SUBSET held :
        /\ Cardinality(evicted) =
               IF Cardinality(held) >= MaxPending THEN Cardinality(held) + 1 - MaxPending ELSE 0
        /\ \A gone \in evicted, kept \in held \ evicted : Rank(gone) <= Rank(kept)}

\* begin_login and _begin_pending_login
ServeStart(r) ==
    /\ stage[r] = "start"
    /\ \E l \in Logins \ begun :
          /\ begun' = begun \cup {l}
          /\ genuine' = genuine \cup {l}
          /\ issuedAt' = [issuedAt EXCEPT ![l] = time]
          /\ login' = [login EXCEPT ![r] = l]
    /\ \E evicted \in Evictable(carried[r]) : cleared' = [cleared EXCEPT ![r] = evicted]
    /\ stage' = [stage EXCEPT ![r] = "answered"]
    /\ outcome' = [outcome EXCEPT ![r] = "redirected"]
    /\ carried' = [carried EXCEPT ![r] = {}]
    /\ UNCHANGED <<time, sentTo, delivered, jar>>

-----------------------------------------------------------------------------
(* The callback route                                                      *)

\* _is_unexpired
IsUnexpired(l) == 0 <= time - issuedAt[l] /\ time - issuedAt[l] <= MaxAge

\* A request that carries the cookie of its state under the host's key gets to
\* complete_login's age check; what the issuer, the admission and the host's stores
\* then say is an input, a verdict or a failure.  Every answer carries the deletion.
ServeCallback(r) ==
    /\ stage[r] = "callback"
    /\ LET l == login[r]
       IN  \/ /\ l \notin carried[r] \cap genuine
              /\ outcome' = [outcome EXCEPT ![r] = "state-mismatch"]
           \/ /\ l \in carried[r] \cap genuine
              /\ ~IsUnexpired(l)
              /\ outcome' = [outcome EXCEPT ![r] = "expired"]
           \/ /\ l \in carried[r] \cap genuine
              /\ IsUnexpired(l)
              /\ \E verdict \in {"judged", "failed"} : outcome' = [outcome EXCEPT ![r] = verdict]
    /\ cleared' = [cleared EXCEPT ![r] = {login[r]}]
    /\ carried' = [carried EXCEPT ![r] = {}]
    /\ stage' = [stage EXCEPT ![r] = "answered"]
    /\ UNCHANGED <<time, logins, delivered, jar, login>>

-----------------------------------------------------------------------------
(* The browser receives, and what happens beside it                        *)

Free(r) ==
    /\ stage' = [stage EXCEPT ![r] = "free"]
    /\ login' = [login EXCEPT ![r] = NoLogin]
    /\ carried' = [carried EXCEPT ![r] = {}]
    /\ cleared' = [cleared EXCEPT ![r] = {}]
    /\ outcome' = [outcome EXCEPT ![r] = "none"]

\* Mutant: a failure's answer is sent without the deletion.
ReceiveBare(r) ==
    /\ stage[r] = "answered"
    /\ LET new == IF outcome[r] = "redirected" THEN {login[r]} ELSE {}
       IN  /\ jar' = (jar \ (IF outcome[r] = "failed" THEN {} ELSE cleared[r])) \cup new
           /\ sentTo' = sentTo \cup new
           /\ delivered' = delivered \cup (IF new = {} THEN {login[r]} ELSE {})
    /\ Free(r)
    /\ UNCHANGED <<time, issuedAt, begun, genuine>>

\* The Set-Cookie headers of an answer, the failure answer's included: _RouteAnswer.
Receive(r) ==
    /\ stage[r] = "answered"
    /\ LET new == IF outcome[r] = "redirected" THEN {login[r]} ELSE {}
       IN  /\ jar' = (jar \ cleared[r]) \cup new
           /\ sentTo' = sentTo \cup new
           /\ delivered' = delivered \cup (IF new = {} THEN {login[r]} ELSE {})
    /\ Free(r)
    /\ UNCHANGED <<time, issuedAt, begun, genuine>>

LoseAnswer(r) ==
    /\ stage[r] = "answered"
    /\ Free(r)
    /\ UNCHANGED <<time, logins, delivered, jar>>

\* The cookie's max_age has passed by the browser's clock.
Expire ==
    /\ \E l \in jar : time - issuedAt[l] >= MaxAge /\ jar' = jar \ {l}
    /\ UNCHANGED <<time, logins, delivered, requests>>

\* The host is started again with another signing key.
Rekey ==
    /\ genuine # {}
    /\ genuine' = {}
    /\ UNCHANGED <<time, issuedAt, begun, sentTo, delivered, jar, requests>>

Tick ==
    /\ time < MaxTime
    /\ time' = time + 1
    /\ UNCHANGED <<logins, delivered, jar, requests>>

Next ==
    \/ \E r \in Slots :
          \/ SendStart(r) \/ SendCallback(r) \/ ServeStart(r) \/ ServeCallback(r)
          \/ Receive(r) \/ LoseAnswer(r)
    \/ Expire \/ Rekey \/ Tick

Spec == Init /\ [][Next]_vars

-----------------------------------------------------------------------------
(* Properties                                                              *)

\* The browser's cookies stay bounded however its starts overlap: of the starts
\* that were open together each may add one before the next start clears them.
JarBounded == Cardinality(jar) <= MaxPending - 1 + Cardinality(Slots)

\* What _begin_pending_login's docstring says: the browser "holds at most
\* _MAX_PENDING_LOGINS with the new one".
AtMostMaxPending == Cardinality(jar) <= MaxPending

\* Any of the MaxPending logins begun last can still be completed: overlapping
\* starts evict only a login that MaxPending others are at least as young as
\* (_pending_login_cookies_to_evict).
LatestLoginsKept ==
    \A l \in sentTo \cap genuine :
        \/ l \in jar \cup delivered
        \/ time - issuedAt[l] >= MaxAge
        \/ Cardinality({m \in begun \ {l} : issuedAt[m] >= issuedAt[l]}) >= MaxPending

\* A login that had any answer to its callback arrive, a failure's too, is not
\* held again, whatever older answers arrive after it (_RouteAnswer).
DeliveredNotHeld == jar \cap delivered = {}

=============================================================================
