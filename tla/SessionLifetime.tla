-------------------------- MODULE SessionLifetime --------------------------
(***************************************************************************)
(* The pure rules of a session's life (webauth.dependencies and            *)
(* webauth.config.SessionLifetime): when a stored row speaks for its       *)
(* account at the instant a node's clock shows, and how far an admitted    *)
(* request renews it.  Instants are whole seconds, as _whole_second_now    *)
(* truncates every clock reading.                                          *)
(***************************************************************************)
EXTENDS Integers

CONSTANTS
    IdleSeconds,             \* SessionLifetime.idle_seconds
    AbsoluteMaxAgeSeconds,   \* SessionLifetime.absolute_max_age_seconds
    ExpiryTolerance          \* _EXPIRY_TOLERANCE, 60 s in the code

\* What SessionLifetime.__post_init__ refuses to be without.
ASSUME LifetimeAssumption ==
    /\ IdleSeconds \in Nat \ {0}
    /\ AbsoluteMaxAgeSeconds \in Nat \ {0}
    /\ IdleSeconds <= AbsoluteMaxAgeSeconds
    /\ ExpiryTolerance \in Nat

Lesser(a, b) == IF a <= b THEN a ELSE b

\* Mutant: the cap is forgotten.
RenewedExpiryUncapped(now, created) == now + IdleSeconds

\* _renewed_expiry: one idle period from now, but never past the cap.
RenewedExpiry(now, created) ==
    LET remainingCap == AbsoluteMaxAgeSeconds - (now - created)
    IN  now + Lesser(IdleSeconds, remainingCap)

\* Mutant: no tolerance for the clock of the node that created the session.
IsAdmittedStrict(record, now) ==
    /\ record.created <= now
    /\ now <= record.expires
    /\ record.expires - now <= IdleSeconds + ExpiryTolerance
    /\ record.expires - record.created <= AbsoluteMaxAgeSeconds

\* _is_admitted: the four bounds a stored row must meet at the instant now.
IsAdmitted(record, now) ==
    /\ record.created <= now + ExpiryTolerance
    /\ now <= record.expires
    /\ record.expires - now <= IdleSeconds + ExpiryTolerance
    /\ record.expires - record.created <= AbsoluteMaxAgeSeconds

=============================================================================
