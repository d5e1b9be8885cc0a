--------------------------- MODULE SessionLedger ---------------------------
(***************************************************************************)
(* What the sign-in routes and the session admission promise of a host     *)
(* whose SignInTransaction is a database transaction: every route changes  *)
(* accounts, sessions and audit trail in one indivisible step, a session   *)
(* id names one session for ever, and a session is opened only together    *)
(* with its account, its role's event and the enforcement of the cap.      *)
(* SignIn, where every store call is a step of its own and any of them may *)
(* fail, implements this (SignIn!LedgerSpec).                              *)
(***************************************************************************)
EXTENDS SessionLifetime, FiniteSets

CONSTANTS Subjects, Sids, Instants, Roles, MaxSessions, NoCap, NoRow, NoSid, NoRole

VARIABLES
    accounts,  \* the role of each account, NoRole for none
    rows,      \* the stored sessions
    audit,     \* what the audit sink has recorded
    used       \* the ids that can name no further session

vars == <<accounts, rows, audit, used>>

Init ==
    /\ accounts = [s \in Subjects |-> NoRole]
    /\ rows = [s \in Sids |-> NoRow]
    /\ audit = [roles |-> [s \in Subjects |-> NoRole], ended |-> {}]
    /\ used = {}

Of(user, table) == {s \in Sids : table[s] # NoRow /\ table[s].user = user}

Ended(sids) == [s \in Sids |-> IF s \in sids THEN NoRow ELSE rows[s]]

\* An account, and the event that tells its role, change together.
Admits(user, role) ==
    /\ accounts' = [accounts EXCEPT ![user] = role]
    /\ audit' = [audit EXCEPT !.roles[user] = role]

\* Of the user's sessions in table, the newest MaxSessions - 1 survive.
Survivors(user, table) ==
    IF MaxSessions = NoCap
    THEN {Of(user, table)}
    ELSE {kept \in SUBSET Of(user, table) :
            /\ Cardinality(kept) <= MaxSessions - 1
            /\ Cardinality(kept) < MaxSessions - 1 => kept = Of(user, table)
            /\ \A s \in kept, t \in Of(user, table) \ kept :
                  table[t].created <= table[s].created}

SignIn(user, role, replaced, new, now) ==
    LET left == Ended({replaced})
    IN  /\ Admits(user, role)
        /\ new \notin used
        /\ used' = used \cup {new}
        /\ \E kept \in Survivors(user, left) :
              rows' = [s \in Sids |->
                  CASE s = new -> [user |-> user, created |-> now,
                                   expires |-> RenewedExpiry(now, now)]
                    [] s \in Of(user, left) \ kept -> NoRow
                    [] OTHER -> left[s]]

Renew(sid, now) ==
    /\ rows[sid] # NoRow
    /\ rows' = [rows EXCEPT ![sid].expires = RenewedExpiry(now, rows[sid].created)]
    /\ UNCHANGED <<accounts, audit, used>>

End(sid) ==
    /\ rows' = Ended({sid})
    /\ UNCHANGED <<accounts, audit, used>>

EndAllOf(user) ==
    /\ rows' = Ended(Of(user, rows))
    /\ audit' = [audit EXCEPT !.ended = @ \cup Of(user, rows)]
    /\ UNCHANGED <<accounts, used>>

\* A sign-in that fails leaves nothing but the id it was given.
Lose(sid) ==
    /\ used' = used \cup {sid}
    /\ UNCHANGED <<accounts, rows, audit>>

Next ==
    \/ \E user \in Subjects, role \in Roles :
          \/ \E replaced \in Sids \cup {NoSid}, new \in Sids, now \in Instants :
                SignIn(user, role, replaced, new, now)
          \/ Admits(user, role) /\ UNCHANGED <<rows, used>>
    \/ \E sid \in Sids : (\E now \in Instants : Renew(sid, now)) \/ End(sid) \/ Lose(sid)
    \/ \E user \in Subjects : EndAllOf(user)

Spec == Init /\ [][Next]_vars

=============================================================================
