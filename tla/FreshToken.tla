----------------------------- MODULE FreshToken -----------------------------
(***************************************************************************)
(* fresh_access_token and current_groups (webauth.oidc_login): the session *)
(* is read in one SessionTransaction, its refresh token goes to the issuer *)
(* with no transaction open, and a second SessionTransaction reads the     *)
(* session again and stores the refresh token the issuer rotated to.       *)
(* Meanwhile other calls do the same, requests renew the session, logouts  *)
(* end it, and time passes.                                                *)
(*                                                                         *)
(* A transaction that commits at its exit is the case in which its one     *)
(* write happens at the exit, so a step for each store call covers it.     *)
(***************************************************************************)
EXTENDS SessionLifetime, FiniteSets

CONSTANTS
    Callers,   \* threads that ask for tokens or groups
    Sids,      \* session ids
    Tokens,    \* the refresh tokens the issuer can mint; bounds the grants
    MaxTime,   \* bound on the passing of time
    NoRow, NoSid, NoToken

Row == [created : Nat, expires : Int, token : Tokens \cup {NoToken}]

ASSUME FreshTokenAssumption ==
    /\ MaxTime \in Nat
    /\ NoRow \notin Row
    /\ NoSid \notin Sids
    /\ NoToken \notin Tokens

VARIABLES
    time,
    rows,       \* the stored sessions, with the refresh token each holds
    ended,      \* the session ids that were deleted; a store mints no id twice
    minted,     \* the refresh tokens the issuer has handed out
    honoured,   \* those it still accepts
    pc,         \* each caller's next step
    op,         \* whether it wants a token or the groups
    sid, sent, rotated, seen,  \* its session, the refresh token it sent, the one
                               \* it got back, and the row it read last
    groupsHold, \* whether the ID token of the grant held
    answer,     \* its last answer
    stood,      \* history: whether its session stood when the issuer answered it
    dropped     \* history: the sessions that were denied a rotation or a token

session == <<rows, ended>>
issuer == <<minted, honoured>>
locals == <<op, sid, sent, rotated, seen, groupsHold>>
vars == <<time, session, issuer, pc, locals, answer, stood, dropped>>

Answers == {"none", "handed-out", "session-ended", "sign-in-again",
            "issuer-unavailable", "failed"}

Init ==
    /\ time = 0
    /\ rows = [s \in Sids |-> NoRow]
    /\ ended = {}
    /\ minted = {}
    /\ honoured = {}
    /\ pc = [c \in Callers |-> "idle"]
    /\ op = [c \in Callers |-> "token"]
    /\ sid = [c \in Callers |-> NoSid]
    /\ sent = [c \in Callers |-> NoToken]
    /\ rotated = [c \in Callers |-> NoToken]
    /\ seen = [c \in Callers |-> NoRow]
    /\ groupsHold = [c \in Callers |-> TRUE]
    /\ answer = [c \in Callers |-> "none"]
    /\ stood = [c \in Callers |-> FALSE]
    /\ dropped = {}

-----------------------------------------------------------------------------

Stored(s) == rows[s] # NoRow

\* Whether a row read from the store stands by the clock now.
Stands(row) == row # NoRow /\ IsAdmitted(row, time)

Goto(c, step) == pc' = [pc EXCEPT ![c] = step]

\* The call returns or raises, and its locals are gone.
Return(c, outcome) ==
    /\ Goto(c, "idle")
    /\ answer' = [answer EXCEPT ![c] = outcome]
    /\ sid' = [sid EXCEPT ![c] = NoSid]
    /\ sent' = [sent EXCEPT ![c] = NoToken]
    /\ rotated' = [rotated EXCEPT ![c] = NoToken]
    /\ seen' = [seen EXCEPT ![c] = NoRow]
    /\ groupsHold' = [groupsHold EXCEPT ![c] = TRUE]
    /\ stood' = [stood EXCEPT ![c] = FALSE]
    /\ UNCHANGED op

\* The last look held: current_groups may still refuse the ID token's groups.
HandOut(c) == Return(c, IF groupsHold[c] THEN "handed-out" ELSE "issuer-unavailable")

\* Whether the issuer gave c a refresh token that is not the one it was sent.
Rotated(c) == rotated[c] \notin {NoToken, sent[c]}

Drop(c, drops) == dropped' = IF drops THEN dropped \cup {sid[c]} ELSE dropped

-----------------------------------------------------------------------------
(* The first transaction: _evidence_of_standing_session                    *)

Call(c) ==
    /\ pc[c] = "idle"
    /\ \E s \in Sids : (Stored(s) \/ s \in ended) /\ sid' = [sid EXCEPT ![c] = s]
    /\ \E wanted \in {"token", "groups"} : op' = [op EXCEPT ![c] = wanted]
    /\ answer' = [answer EXCEPT ![c] = "none"]
    /\ Goto(c, "load")
    /\ UNCHANGED <<time, session, issuer, sent, rotated, seen, groupsHold, stood, dropped>>

\* sessions.load, in either transaction
Load(c) ==
    /\ pc[c] \in {"load", "reload"}
    /\ seen' = [seen EXCEPT ![c] = rows[sid[c]]]
    /\ Goto(c, IF pc[c] = "load" THEN "judge" ELSE "rejudge")
    /\ UNCHANGED <<time, session, issuer, op, sid, sent, rotated, groupsHold, answer, stood, dropped>>

Judge(c) ==
    /\ pc[c] = "judge"
    /\ IF ~Stands(seen[c])
       THEN Return(c, "session-ended")
       ELSE IF seen[c].token = NoToken
       THEN Return(c, "sign-in-again")
       ELSE /\ sent' = [sent EXCEPT ![c] = seen[c].token]
            /\ Goto(c, "grant")
            /\ UNCHANGED <<op, sid, rotated, seen, groupsHold, answer, stood>>
    /\ UNCHANGED <<time, session, issuer, dropped>>

-----------------------------------------------------------------------------
(* The refresh grant: renew_access and _refreshed_groups                   *)

\* The issuer serves the grant: with no refresh token, with the one it was sent,
\* or with a new one, and then it may or may not go on honouring the one sent.
Serve(c, new) ==
    /\ sent[c] \in honoured
    /\ \/ new \in {NoToken, sent[c]} /\ UNCHANGED issuer
       \/ /\ new \in Tokens \ minted
          /\ minted' = minted \cup {new}
          /\ \E revoked \in SUBSET {sent[c]} : honoured' = (honoured \cup {new}) \ revoked

\* Mutant: current_groups answers a refused ID token before it stores the rotation.
GrantAnsweredHasty(c) ==
    /\ pc[c] = "grant"
    /\ \E new \in Tokens \cup {NoToken}, hold \in BOOLEAN :
          /\ Serve(c, new)
          /\ ~hold => op[c] = "groups"
          /\ IF hold
             THEN /\ rotated' = [rotated EXCEPT ![c] = new]
                  /\ stood' = [stood EXCEPT ![c] = Stands(rows[sid[c]])]
                  /\ Goto(c, "reload")
                  /\ UNCHANGED <<op, sid, sent, seen, groupsHold, answer>>
             ELSE Return(c, "issuer-unavailable")
    /\ UNCHANGED <<time, session, dropped>>

\* The answer arrives and its refresh token is usable.  In current_groups the ID
\* token may not hold, which is kept for after the second transaction.
GrantAnswered(c) ==
    /\ pc[c] = "grant"
    /\ \E new \in Tokens \cup {NoToken}, hold \in BOOLEAN :
          /\ Serve(c, new)
          /\ ~hold => op[c] = "groups"
          /\ rotated' = [rotated EXCEPT ![c] = new]
          /\ groupsHold' = [groupsHold EXCEPT ![c] = hold]
    /\ stood' = [stood EXCEPT ![c] = Stands(rows[sid[c]])]
    /\ Goto(c, "reload")
    /\ UNCHANGED <<time, session, op, sid, sent, seen, answer, dropped>>

\* The issuer served the grant and its answer is lost or unusable.
GrantLost(c) ==
    /\ pc[c] = "grant"
    /\ \E new \in Tokens \cup {NoToken} :
          /\ Serve(c, new)
          /\ Drop(c, new \notin {NoToken, sent[c]})
    /\ Return(c, "issuer-unavailable")
    /\ UNCHANGED <<time, session>>

\* The issuer refuses the grant, with invalid_grant only for a token it does not
\* honour, or is not reached: _refusal_of_grant.
GrantRefused(c) ==
    /\ pc[c] = "grant"
    /\ \/ sent[c] \notin honoured /\ Return(c, "sign-in-again")
       \/ Return(c, "issuer-unavailable")
    /\ UNCHANGED <<time, session, issuer, dropped>>

-----------------------------------------------------------------------------
(* The second transaction: _kept_after_grant                               *)

\* Mutant: the second look asks only whether the row is there.
RejudgeUnaged(c) ==
    /\ pc[c] = "rejudge"
    /\ IF seen[c] = NoRow
       THEN Return(c, "session-ended") /\ Drop(c, Rotated(c))
       ELSE IF ~Rotated(c)
       THEN HandOut(c) /\ UNCHANGED dropped
       ELSE /\ Goto(c, "replace")
            /\ UNCHANGED <<locals, answer, stood, dropped>>
    /\ UNCHANGED <<time, session, issuer>>

\* Mutant: the rotated token is compared with the one read again.
RejudgeReread(c) ==
    /\ pc[c] = "rejudge"
    /\ IF ~Stands(seen[c])
       THEN Return(c, "session-ended") /\ Drop(c, Rotated(c))
       ELSE IF rotated[c] \in {NoToken, seen[c].token}
       THEN HandOut(c) /\ UNCHANGED dropped
       ELSE /\ Goto(c, "replace")
            /\ UNCHANGED <<locals, answer, stood, dropped>>
    /\ UNCHANGED <<time, session, issuer>>

\* A clock that finds the session over drops the rotation with it.
Rejudge(c) ==
    /\ pc[c] = "rejudge"
    /\ IF ~Stands(seen[c])
       THEN Return(c, "session-ended") /\ Drop(c, Rotated(c))
       ELSE IF ~Rotated(c)
       THEN HandOut(c) /\ UNCHANGED dropped
       ELSE /\ Goto(c, "replace")
            /\ UNCHANGED <<locals, answer, stood, dropped>>
    /\ UNCHANGED <<time, session, issuer>>

\* replace_refresh_token updates the row in place or says that it is gone.
Replace(c) ==
    /\ pc[c] = "replace"
    /\ IF Stored(sid[c])
       THEN /\ rows' = [rows EXCEPT ![sid[c]].token = rotated[c]]
            /\ HandOut(c)
       ELSE /\ Return(c, "session-ended")
            /\ UNCHANGED rows
    /\ UNCHANGED <<time, ended, issuer, dropped>>

\* A store call, or the exit of a transaction, raises; what the second one had
\* written may be durable all the same.
Fail(c) ==
    /\ pc[c] \in {"load", "judge", "reload", "rejudge", "replace"}
    /\ \/ UNCHANGED rows
       \/ /\ pc[c] = "replace" /\ Stored(sid[c])
          /\ rows' = [rows EXCEPT ![sid[c]].token = rotated[c]]
    /\ Drop(c, Rotated(c))
    /\ Return(c, "failed")
    /\ UNCHANGED <<time, ended, issuer>>

-----------------------------------------------------------------------------
(* What happens beside the calls                                           *)

\* A sign-in stores a session, with the refresh token of its code exchange if the
\* issuer gave one.
SignIn(s) ==
    /\ ~Stored(s) /\ s \notin ended
    /\ \E token \in (Tokens \ minted) \cup {NoToken} :
          /\ rows' = [rows EXCEPT ![s] = [created |-> time, expires |-> RenewedExpiry(time, time),
                                          token |-> token]]
          /\ minted' = minted \cup ({token} \ {NoToken})
          /\ honoured' = honoured \cup ({token} \ {NoToken})
    /\ UNCHANGED <<time, ended, pc, locals, answer, stood, dropped>>

\* admit_session admits a request of the session and renews it.
Renew(s) ==
    /\ Stored(s) /\ IsAdmitted(rows[s], time)
    /\ rows' = [rows EXCEPT ![s].expires = RenewedExpiry(time, rows[s].created)]
    /\ UNCHANGED <<time, ended, issuer, pc, locals, answer, stood, dropped>>

\* A logout, a newer sign-in or the host ends the session.
End(s) ==
    /\ Stored(s)
    /\ rows' = [rows EXCEPT ![s] = NoRow]
    /\ ended' = ended \cup {s}
    /\ UNCHANGED <<time, issuer, pc, locals, answer, stood, dropped>>

\* The issuer ends its own session of the person.
IssuerRevokes(s) ==
    /\ Stored(s) /\ rows[s].token \in honoured
    /\ honoured' = honoured \ {rows[s].token}
    /\ dropped' = dropped \cup {s}
    /\ UNCHANGED <<time, session, minted, pc, locals, answer, stood>>

Tick ==
    /\ time < MaxTime
    /\ time' = time + 1
    /\ UNCHANGED <<session, issuer, pc, locals, answer, stood, dropped>>

CallStep(c) ==
    \/ Call(c) \/ Load(c) \/ Judge(c)
    \/ GrantAnswered(c) \/ GrantLost(c) \/ GrantRefused(c)
    \/ Rejudge(c) \/ Replace(c) \/ Fail(c)

Next ==
    \/ \E c \in Callers : CallStep(c)
    \/ \E s \in Sids : SignIn(s) \/ Renew(s) \/ End(s) \/ IssuerRevokes(s)
    \/ Tick

Spec == Init /\ [][Next]_vars

-----------------------------------------------------------------------------
(* Properties                                                              *)

\* An access token, or the groups, are handed out only for a session that stood
\* when the issuer answered and, where the rotation was stored, in the row it
\* was stored to: a session that ended during a slow grant yields nothing.
HandedOutWhileStanding ==
    [][\A c \in Callers :
          pc[c] # "idle" /\ answer'[c] = "handed-out" =>
              stood[c] /\ (pc[c] = "replace" => Stored(sid[c]))]_vars

\* The refresh token of a stored session is one the issuer honours, or a call that
\* is under way brings one, whatever calls overlap and whether or not the issuer
\* rotates and revokes on use.  Excepted are only the losses nobody can undo:
\* a lost answer, a second transaction that fails or finds the session over, and
\* the issuer's own revocation.
StoredTokenHonoured ==
    \A s \in Sids \ dropped :
        Stored(s) /\ rows[s].token # NoToken =>
            \/ rows[s].token \in honoured
            \/ \E c \in Callers : sid[c] = s /\ Rotated(c) /\ rotated[c] \in honoured

=============================================================================
