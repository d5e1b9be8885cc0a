------------------------------- MODULE SignIn -------------------------------
(***************************************************************************)
(* The session and account state of one host, and everything webauth does  *)
(* to it: the session admission of every request (admit_session), and the  *)
(* entries of the host's serialized SignInTransaction made by the callback, *)
(* the logout, the back-channel logout, the bearer gate's person paths and *)
(* the protected resource.                                                 *)
(*                                                                         *)
(* Worker threads run one request each; every call of a store port is one  *)
(* step, so requests interleave between the calls.  RollsBack says what    *)
(* the host's transaction is: TRUE is a database transaction (nothing else *)
(* reaches the stores while an entry is open, and an exception restores    *)
(* them), FALSE is a store that applies each call at once (other requests  *)
(* see the entry half done, and an exception leaves it so).                *)
(***************************************************************************)
EXTENDS SessionLifetime, Admission, FiniteSets

CONSTANTS
    Workers,        \* worker threads
    Subjects,       \* the issuer's subjects; an account's id is its subject
    Sids,           \* the session ids the store can mint; bounds the sign-ins
    GroupSets,      \* the sets of group paths a verified token may carry
    RequiredGroup,  \* ProtectedResource.required_group
    MaxSessions,    \* install_sign_in_routes' max_sessions, or NoCap
    KeepsIdToken,   \* whether the sessions keep the login's ID token
    RollsBack,      \* what the host's transaction does, see above
    Ops,            \* the routes and gates the host installed
    MaxSkew,        \* how far a node's clock is off, at most
    MaxTime,        \* bound on the passing of time
    NoCap, NoRow, NoSid, NoSubject, NoRole, NoRequest, NoWorker, NoSnapshot

Row == [user : Subjects, created : Int, expires : Int]

AllOps == {"admit", "callback", "logout", "backchannel", "token", "resource"}

Request ==
    [op : AllOps, sid : Sids \cup {NoSid}, subject : Subjects \cup {NoSubject},
     role : Roles \cup {NoRole}, row : Row \cup {NoRow}, now : Int,
     ended : SUBSET Sids]

ASSUME SignInAssumption ==
    /\ IsFiniteSet(Sids)
    /\ MaxSessions \in (Nat \ {0}) \cup {NoCap}
    /\ NoCap \notin Nat
    /\ KeepsIdToken \in BOOLEAN
    /\ RollsBack \in BOOLEAN
    /\ Ops \subseteq AllOps
    /\ MaxSkew \in Nat   \* Bound: of the clocks
    /\ MaxTime \in Nat
    /\ NoRow \notin Row
    /\ NoSid \notin Sids
    /\ NoSubject \notin Subjects
    /\ NoRole \notin Roles \cup {NotAMember}
    /\ NoRequest \notin Request
    /\ NoWorker \notin Workers

VARIABLES
    time,      \* true time; a node reads a clock at most MaxSkew away from it
    accounts,  \* SubjectUserStore: the role of each account, NoRole for none
    rows,      \* SessionRecordStore: the stored sessions
    audit,     \* AuditSink: the last role recorded of each account, and the
               \* sessions the BACKCHANNEL_LOGOUT events account for
    minted,    \* the session ids the store has handed out
    issued,    \* the session ids whose signed cookie left in an answer
    lock,      \* the worker inside a SignInTransaction entry
    saved,     \* the stores as the open entry found them
    pc, req,   \* each worker's next step and the request it serves
    answer     \* each worker's last answer

stores == <<accounts, rows, audit>>
vars == <<time, accounts, rows, audit, minted, issued, lock, saved, pc, req, answer>>

\* The steps inside the `with transaction() as stores' blocks.
InBlock == {"account", "audit", "replace", "prune", "create", "exit",
            "logoutLoad", "logoutDelete", "endAll", "auditLogout", "lookup"}

Answers == {"none", "refused", "admitted", "failed", "foreign-issuer", "not-a-member",
            "username-taken", "signed-in", "hinted", "unhinted", "accepted", "token-user", "token-admin",
            "capped-user", "not-admitted"}

Audit == [roles : [Subjects -> Roles \cup {NoRole}], ended : SUBSET Sids]

Snapshot == [accounts : [Subjects -> Roles \cup {NoRole}],
             rows : [Sids -> Row \cup {NoRow}], audit : Audit]

TypeOK ==
    /\ time \in Nat
    /\ accounts \in [Subjects -> Roles \cup {NoRole}]
    /\ rows \in [Sids -> Row \cup {NoRow}]
    /\ audit \in Audit
    /\ minted \in SUBSET Sids
    /\ issued \in SUBSET minted
    /\ lock \in Workers \cup {NoWorker}
    /\ saved \in Snapshot \cup {NoSnapshot}
    /\ pc \in [Workers -> {"idle", "load", "decide", "touch", "enter"} \cup InBlock]
    /\ req \in [Workers -> Request \cup {NoRequest}]
    /\ answer \in [Workers -> Answers]

Init ==
    /\ time = 0
    /\ accounts = [s \in Subjects |-> NoRole]
    /\ rows = [s \in Sids |-> NoRow]
    /\ audit = [roles |-> [s \in Subjects |-> NoRole], ended |-> {}]
    /\ minted = {}
    /\ issued = {}
    /\ lock = NoWorker
    /\ saved = NoSnapshot
    /\ pc = [w \in Workers |-> "idle"]
    /\ req = [w \in Workers |-> NoRequest]
    /\ answer = [w \in Workers |-> "none"]

-----------------------------------------------------------------------------
(* Helpers                                                                 *)

\* The whole-second instants a node's clock may show now (_whole_second_now).
Readings == (time - MaxSkew) .. (time + MaxSkew)

\* Whether w may call a store: a database transaction keeps the others out.
StoreFree(w) == RollsBack => lock \in {NoWorker, w}

Without(sids) == [s \in Sids |-> IF s \in sids THEN NoRow ELSE rows[s]]

SessionsOf(user) == {s \in Sids : rows[s] # NoRow /\ rows[s].user = user}

Blank(op) == [op |-> op, sid |-> NoSid, subject |-> NoSubject, role |-> NoRole,
              row |-> NoRow, now |-> 0, ended |-> {}]

Begin(w, request, step) ==
    /\ pc[w] = "idle"
    /\ request.op \in Ops
    /\ pc' = [pc EXCEPT ![w] = step]
    /\ req' = [req EXCEPT ![w] = request]
    /\ answer' = [answer EXCEPT ![w] = "none"]

\* A request refused before it touches any store.
Decline(w, op, refusal) ==
    /\ pc[w] = "idle"
    /\ op \in Ops
    /\ answer' = [answer EXCEPT ![w] = refusal]
    /\ UNCHANGED <<pc, req>>

Goto(w, step) == pc' = [pc EXCEPT ![w] = step]

Finish(w, outcome) ==
    /\ pc' = [pc EXCEPT ![w] = "idle"]
    /\ req' = [req EXCEPT ![w] = NoRequest]
    /\ answer' = [answer EXCEPT ![w] = outcome]

-----------------------------------------------------------------------------
(* Admitting a request's session: load, one clock reading, touch           *)

\* The cookie's reading comes first: a request without a valid one is refused.
StartAdmit(w) ==
    /\ \/ \E sid \in issued : Begin(w, [Blank("admit") EXCEPT !.sid = sid], "load")
       \/ Decline(w, "admit", "refused")
    /\ UNCHANGED <<time, stores, minted, issued, lock, saved>>

AdmitLoad(w) ==
    /\ pc[w] = "load"
    /\ StoreFree(w)
    /\ req' = [req EXCEPT ![w].row = rows[req[w].sid]]
    /\ Goto(w, "decide")
    /\ UNCHANGED <<time, stores, minted, issued, lock, saved, answer>>

AdmitDecide(w) ==
    /\ pc[w] = "decide"
    /\ \E now \in Readings :
          IF req[w].row # NoRow /\ IsAdmitted(req[w].row, now)
          THEN /\ req' = [req EXCEPT ![w].now = now]
               /\ Goto(w, "touch")
               /\ UNCHANGED answer
          ELSE Finish(w, "refused")
    /\ UNCHANGED <<time, stores, minted, issued, lock, saved>>

\* Mutant: touch writes the row it was given, stored or not.
AdmitTouchUpserts(w) ==
    /\ pc[w] = "touch"
    /\ StoreFree(w)
    /\ rows' = [rows EXCEPT ![req[w].sid] =
                  [req[w].row EXCEPT !.expires = RenewedExpiry(req[w].now, req[w].row.created)]]
    /\ Finish(w, "admitted")
    /\ UNCHANGED <<time, accounts, audit, minted, issued, lock, saved>>

\* Mutant: touch's answer is not looked at.
AdmitTouchUnread(w) ==
    /\ pc[w] = "touch"
    /\ StoreFree(w)
    /\ rows' = IF rows[req[w].sid] = NoRow THEN rows
               ELSE [rows EXCEPT ![req[w].sid].expires =
                        RenewedExpiry(req[w].now, req[w].row.created)]
    /\ Finish(w, "admitted")
    /\ UNCHANGED <<time, accounts, audit, minted, issued, lock, saved>>

\* touch renews the row in place and answers whether it was still there; the
\* exit of the host's SessionTransaction may fail after it.
AdmitTouch(w) ==
    /\ pc[w] = "touch"
    /\ StoreFree(w)
    /\ LET sid == req[w].sid
       IN  IF rows[sid] = NoRow
           THEN /\ Finish(w, "refused")
                /\ UNCHANGED rows
           ELSE /\ rows' = [rows EXCEPT ![sid].expires =
                                RenewedExpiry(req[w].now, req[w].row.created)]
                /\ Finish(w, "admitted") \/ Finish(w, "failed")
    /\ UNCHANGED <<time, accounts, audit, minted, issued, lock, saved>>

\* The store raises, or the transaction's exit does after rolling back.
AdmitFails(w) ==
    /\ pc[w] \in {"load", "touch"}
    /\ Finish(w, "failed")
    /\ UNCHANGED <<time, stores, minted, issued, lock, saved>>

-----------------------------------------------------------------------------
(* What comes before an entry of the SignInTransaction                     *)

\* Bound: the ids the open callbacks may still mint fit into Sids.
SidsLeft ==
    Cardinality(minted) + Cardinality({w \in Workers : req[w] # NoRequest /\
                                         req[w].op = "callback" /\ pc[w] # "exit"})
        < Cardinality(Sids)

\* The callback route once the issuer vouched for an identity: _decide_admission,
\* then the session id the request's cookie names, if any.
StartCallback(w) ==
    /\ SidsLeft
    /\ \/ Decline(w, "callback", "foreign-issuer")
       \/ \E subject \in Subjects, groups \in GroupSets, sid \in issued \cup {NoSid} :
             LET role == AppRole(groups)
             IN  IF role = NotAMember
                 THEN Decline(w, "callback", NotAMember)
                 ELSE Begin(w, [Blank("callback") EXCEPT !.subject = subject, !.role = role,
                                                         !.sid = sid], "enter")
    /\ UNCHANGED <<time, stores, minted, issued, lock, saved>>

\* The logout route: a cookie that names no session enters no transaction.
StartLogout(w) ==
    /\ \/ \E sid \in issued : Begin(w, [Blank("logout") EXCEPT !.sid = sid], "enter")
       \/ Decline(w, "logout", "unhinted")
    /\ UNCHANGED <<time, stores, minted, issued, lock, saved>>

\* The back-channel route: the Logout Token is verified before the entry.
StartBackchannel(w) ==
    /\ \/ \E subject \in Subjects :
             Begin(w, [Blank("backchannel") EXCEPT !.subject = subject], "enter")
       \/ Decline(w, "backchannel", "refused")
    /\ UNCHANGED <<time, stores, minted, issued, lock, saved>>

\* A person path of the bearer gate with a verified access token.
StartToken(w) ==
    /\ \E subject \in Subjects, groups \in GroupSets :
          LET role == AppRole(groups)
          IN  IF role = NotAMember
              THEN Decline(w, "token", NotAMember)
              ELSE Begin(w, [Blank("token") EXCEPT !.subject = subject, !.role = role], "enter")
    /\ UNCHANGED <<time, stores, minted, issued, lock, saved>>

\* A protected resource with a verified access token.
StartResource(w) ==
    /\ \E subject \in Subjects, groups \in GroupSets :
          IF AppRole(groups) = NotAMember \/ ~IsMemberOf(RequiredGroup, groups)
          THEN Decline(w, "resource", "not-admitted")
          ELSE Begin(w, [Blank("resource") EXCEPT !.subject = subject], "enter")
    /\ UNCHANGED <<time, stores, minted, issued, lock, saved>>

-----------------------------------------------------------------------------
(* The entries of the host's SignInTransaction                             *)

\* Mutant: the session is opened without admitting the account first.
FirstStepNoAccount(op) ==
    CASE op = "callback" -> "replace"
      [] op = "token" -> "account"
      [] op = "logout" -> "logoutLoad"
      [] op = "backchannel" -> "endAll"
      [] op = "resource" -> "lookup"

FirstStep(op) ==
    CASE op \in {"callback", "token"} -> "account"
      [] op = "logout" -> "logoutLoad"
      [] op = "backchannel" -> "endAll"
      [] op = "resource" -> "lookup"

\* Mutant: an entry that does not wait for the open one.
EnterAtOnce(w) ==
    /\ pc[w] = "enter"
    /\ lock' = w
    /\ saved' = [accounts |-> accounts, rows |-> rows, audit |-> audit]
    /\ Goto(w, FirstStep(req[w].op))
    /\ UNCHANGED <<time, stores, minted, issued, req, answer>>

Enter(w) ==
    /\ pc[w] = "enter"
    /\ lock = NoWorker
    /\ lock' = w
    /\ saved' = [accounts |-> accounts, rows |-> rows, audit |-> audit]
    /\ Goto(w, FirstStep(req[w].op))
    /\ UNCHANGED <<time, stores, minted, issued, req, answer>>

AfterAccount(op) == IF op = "callback" THEN "replace" ELSE "exit"

\* Mutant: a changed role is written and not recorded.
AdmitAccountUnrecorded(w) ==
    /\ pc[w] = "account"
    /\ LET known == accounts[req[w].subject]
       IN  /\ accounts' = [accounts EXCEPT ![req[w].subject] = req[w].role]
           /\ Goto(w, IF known = NoRole THEN "audit" ELSE AfterAccount(req[w].op))
    /\ UNCHANGED <<time, rows, audit, minted, issued, lock, saved, req, answer>>

\* _admit_account: provision a new subject, or let a known one's role follow.
AdmitAccount(w) ==
    /\ pc[w] = "account"
    /\ LET known == accounts[req[w].subject]
           role == req[w].role
       IN  IF known = role
           THEN /\ Goto(w, AfterAccount(req[w].op))
                /\ UNCHANGED accounts
           ELSE /\ accounts' = [accounts EXCEPT ![req[w].subject] = role]
                /\ Goto(w, "audit")
    /\ UNCHANGED <<time, rows, audit, minted, issued, lock, saved, req, answer>>

\* USER_CREATED or ROLE_CHANGED
AuditRole(w) ==
    /\ pc[w] = "audit"
    /\ audit' = [audit EXCEPT !.roles[req[w].subject] = req[w].role]
    /\ Goto(w, AfterAccount(req[w].op))
    /\ UNCHANGED <<time, accounts, rows, minted, issued, lock, saved, req, answer>>

\* _write_sign_in: the instant of the sign-in, and the session its cookie named.
EndReplaced(w) ==
    /\ pc[w] = "replace"
    /\ \E now \in Readings : req' = [req EXCEPT ![w].now = now]
    /\ rows' = Without({req[w].sid})
    /\ Goto(w, "prune")
    /\ UNCHANGED <<time, accounts, audit, minted, issued, lock, saved, answer>>

\* What prune_overflow(user, keep_newest) may keep: equal instants tie.
NewestOf(user, keep) ==
    {kept \in SUBSET SessionsOf(user) :
        /\ Cardinality(kept) <= keep
        /\ Cardinality(kept) < keep => kept = SessionsOf(user)
        /\ \A s \in kept, t \in SessionsOf(user) \ kept : rows[t].created <= rows[s].created}

\* Mutant: the cap forgets the session about to be created.
PruneToMax(w) ==
    /\ pc[w] = "prune"
    /\ IF MaxSessions = NoCap
       THEN UNCHANGED rows
       ELSE \E kept \in NewestOf(req[w].subject, MaxSessions) :
               rows' = Without(SessionsOf(req[w].subject) \ kept)
    /\ Goto(w, "create")
    /\ UNCHANGED <<time, accounts, audit, minted, issued, lock, saved, req, answer>>

Prune(w) ==
    /\ pc[w] = "prune"
    /\ IF MaxSessions = NoCap
       THEN UNCHANGED rows
       ELSE \E kept \in NewestOf(req[w].subject, MaxSessions - 1) :
               rows' = Without(SessionsOf(req[w].subject) \ kept)
    /\ Goto(w, "create")
    /\ UNCHANGED <<time, accounts, audit, minted, issued, lock, saved, req, answer>>

\* Mutant: the cookie is set on the answer inside the block.
CreateIssues(w) ==
    /\ pc[w] = "create"
    /\ \E sid \in Sids \ minted :
          /\ rows' = [rows EXCEPT ![sid] =
                        [user |-> req[w].subject, created |-> req[w].now,
                         expires |-> RenewedExpiry(req[w].now, req[w].now)]]
          /\ minted' = minted \cup {sid}
          /\ issued' = issued \cup {sid}
          /\ req' = [req EXCEPT ![w].sid = sid]
    /\ Goto(w, "exit")
    /\ UNCHANGED <<time, accounts, audit, lock, saved, answer>>

\* Mutant: the store forgets which ids it handed out.
CreateUnminted(w) ==
    /\ pc[w] = "create"
    /\ \E sid \in Sids \ minted :
          /\ rows' = [rows EXCEPT ![sid] =
                        [user |-> req[w].subject, created |-> req[w].now,
                         expires |-> RenewedExpiry(req[w].now, req[w].now)]]
          /\ req' = [req EXCEPT ![w].sid = sid]
    /\ Goto(w, "exit")
    /\ UNCHANGED <<time, accounts, audit, minted, issued, lock, saved, answer>>

Create(w) ==
    /\ pc[w] = "create"
    /\ \E sid \in Sids \ minted :
          /\ rows' = [rows EXCEPT ![sid] =
                        [user |-> req[w].subject, created |-> req[w].now,
                         expires |-> RenewedExpiry(req[w].now, req[w].now)]]
          /\ minted' = minted \cup {sid}
          /\ req' = [req EXCEPT ![w].sid = sid]
    /\ Goto(w, "exit")
    /\ UNCHANGED <<time, accounts, audit, issued, lock, saved, answer>>

\* Mutant: the row is deleted before its ID token is read.
LogoutDeleteFirst(w) ==
    /\ pc[w] = "logoutLoad"
    /\ rows' = Without({req[w].sid})
    /\ req' = [req EXCEPT ![w].row = NoRow]
    /\ Goto(w, "logoutDelete")
    /\ UNCHANGED <<time, accounts, audit, minted, issued, lock, saved, answer>>

\* _id_token_of_ended_session: read the row's ID token, then delete the row.
LogoutLoad(w) ==
    /\ pc[w] = "logoutLoad"
    /\ req' = [req EXCEPT ![w].row = rows[req[w].sid]]
    /\ Goto(w, "logoutDelete")
    /\ UNCHANGED <<time, stores, minted, issued, lock, saved, answer>>

LogoutDelete(w) ==
    /\ pc[w] = "logoutDelete"
    /\ rows' = Without({req[w].sid})
    /\ Goto(w, "exit")
    /\ UNCHANGED <<time, accounts, audit, minted, issued, lock, saved, req, answer>>

\* delete_for_user, when the subject has an account.
EndAll(w) ==
    /\ pc[w] = "endAll"
    /\ LET subject == req[w].subject
           ended == IF accounts[subject] = NoRole THEN {} ELSE SessionsOf(subject)
       IN  /\ rows' = Without(ended)
           /\ req' = [req EXCEPT ![w].ended = ended]
           /\ Goto(w, IF ended = {} THEN "exit" ELSE "auditLogout")
    /\ UNCHANGED <<time, accounts, audit, minted, issued, lock, saved, answer>>

\* BACKCHANNEL_LOGOUT
AuditLogout(w) ==
    /\ pc[w] = "auditLogout"
    /\ audit' = [audit EXCEPT !.ended = @ \cup req[w].ended]
    /\ Goto(w, "exit")
    /\ UNCHANGED <<time, accounts, rows, minted, issued, lock, saved, req, answer>>

\* _admit_resource_holder: only a known account, and never more than a user.
Lookup(w) ==
    /\ pc[w] = "lookup"
    /\ req' = [req EXCEPT ![w].role =
                  IF accounts[req[w].subject] = NoRole THEN NoRole ELSE "user"]
    /\ Goto(w, "exit")
    /\ UNCHANGED <<time, stores, minted, issued, lock, saved, answer>>

Outcome(request) ==
    CASE request.op = "callback" -> "signed-in"
      [] request.op = "logout" -> IF request.row # NoRow /\ KeepsIdToken
                                   THEN "hinted" ELSE "unhinted"
      [] request.op = "backchannel" -> "accepted"
      [] request.op = "token" -> IF request.role = "admin" THEN "token-admin" ELSE "token-user"
      [] request.op = "resource" -> IF request.role = NoRole THEN "not-admitted" ELSE "capped-user"

\* The block is left and its writes are durable; only then does the callback's
\* answer carry the session cookie.
Exit(w) ==
    /\ pc[w] = "exit"
    /\ lock' = NoWorker
    /\ saved' = NoSnapshot
    /\ issued' = IF req[w].op = "callback" THEN issued \cup {req[w].sid} ELSE issued
    /\ Finish(w, Outcome(req[w]))
    /\ UNCHANGED <<time, stores, minted>>

RestoreOrKeep ==
    IF RollsBack
    THEN /\ accounts' = saved.accounts
         /\ rows' = saved.rows
         /\ audit' = saved.audit
    ELSE UNCHANGED stores

\* Mutant: a refused sign-in returns without leaving the entry.
LeaveOpen(w, outcome) ==
    /\ lock' = IF outcome = "username-taken" THEN lock ELSE NoWorker
    /\ saved' = NoSnapshot
    /\ Finish(w, outcome)
    /\ UNCHANGED <<time, minted, issued>>

Leave(w, outcome) ==
    /\ lock' = NoWorker
    /\ saved' = NoSnapshot
    /\ Finish(w, outcome)
    /\ UNCHANGED <<time, minted, issued>>

\* Mutant: the failure is swallowed inside the block, which then commits.
RaiseSwallowed(w) ==
    /\ pc[w] \in InBlock
    /\ UNCHANGED stores
    /\ Leave(w, "failed")

\* A store, the audit sink or the exit raises.  A failing commit may or may
\* not have made the writes durable.
Raise(w) ==
    /\ pc[w] \in InBlock
    /\ RestoreOrKeep \/ (pc[w] = "exit" /\ UNCHANGED stores)
    /\ Leave(w, "failed")

\* The store refuses a new account's username: _UsernameTakenSignal.
UsernameTaken(w) ==
    /\ pc[w] = "account"
    /\ accounts[req[w].subject] = NoRole
    /\ RestoreOrKeep
    /\ Leave(w, "username-taken")

-----------------------------------------------------------------------------
(* The host's own revocation and sweeping, and time                        *)

HostEnds ==
    /\ RollsBack => lock = NoWorker
    /\ \E sid \in Sids : rows[sid] # NoRow /\ rows' = Without({sid})
    /\ UNCHANGED <<time, accounts, audit, minted, issued, lock, saved, pc, req, answer>>

Tick ==
    /\ time < MaxTime
    /\ time' = time + 1
    /\ UNCHANGED <<stores, minted, issued, lock, saved, pc, req, answer>>

AdmissionStep(w) ==
    StartAdmit(w) \/ AdmitLoad(w) \/ AdmitDecide(w) \/ AdmitTouch(w) \/ AdmitFails(w)

StartStep(w) ==
    StartCallback(w) \/ StartLogout(w) \/ StartBackchannel(w) \/ StartToken(w) \/ StartResource(w)

BlockStep(w) ==
    \/ AdmitAccount(w) \/ AuditRole(w) \/ EndReplaced(w) \/ Prune(w) \/ Create(w)
    \/ LogoutLoad(w) \/ LogoutDelete(w) \/ EndAll(w) \/ AuditLogout(w) \/ Lookup(w)
    \/ Exit(w) \/ Raise(w) \/ UsernameTaken(w)

Next ==
    \/ \E w \in Workers : AdmissionStep(w) \/ StartStep(w) \/ Enter(w) \/ BlockStep(w)
    \/ HostEnds
    \/ Tick

Spec == Init /\ [][Next]_vars

\* A worker thread inside a block waits for nobody: no step of a block takes a
\* lock or calls the issuer, so the scheduler alone decides that it goes on.
FairSpec == Spec /\ \A w \in Workers : WF_vars(BlockStep(w))

-----------------------------------------------------------------------------
(* Properties                                                              *)

\* What a request of another node, or a restart, finds in the stores.
Durable ==
    IF RollsBack /\ lock # NoWorker
    THEN saved
    ELSE [accounts |-> accounts, rows |-> rows, audit |-> audit]

\* The library's own writes never make admit_session refuse a session early: as
\* long as two clocks differ by no more than _EXPIRY_TOLERANCE, a stored row
\* whose expiry a node's clock has not passed is admitted by that node, however
\* loads, renewals and sign-ins of other nodes interleave.
SkewTolerated ==
    2 * MaxSkew <= ExpiryTolerance =>
        \A s \in Sids, now \in Readings :
            rows[s] # NoRow /\ now <= rows[s].expires => IsAdmitted(rows[s], now)

\* No renewal, however stale the row or the clock it was computed from, carries
\* a session past absolute_max_age_seconds after its creation (_renewed_expiry).
RowsWithinCap ==
    \A s \in Sids : rows[s] # NoRow =>
        rows[s].expires <= rows[s].created + AbsoluteMaxAgeSeconds

\* No account ever holds more than max_sessions sessions, whatever sign-ins run
\* at once and whichever of their calls fail (_write_sign_in, prune_overflow).
SessionsWithinMax ==
    MaxSessions # NoCap => \A user \in Subjects : Cardinality(SessionsOf(user)) <= MaxSessions

\* Every stored session belongs to an account the store holds, also after an
\* entry that failed half-way (the order of _write_sign_in's writes).
SessionsHaveAccounts ==
    \A s \in Sids : rows[s] # NoRow => accounts[rows[s].user] # NoRole

\* With a transaction that rolls back, the audit trail tells every account's
\* role whenever no entry is open (_with_role, _provision).
AuditFollowsRole ==
    RollsBack /\ lock = NoWorker => audit.roles = accounts

\* A session whose cookie was handed out and that was ended, by anyone, is never
\* stored again: a renewal racing the deletion does not bring it back.
EndedStaysEnded ==
    [][\A s \in issued : Durable.rows[s] = NoRow => Durable'.rows[s] = NoRow]_vars

\* admit_session admits only a session that is still stored when the request is
\* admitted, and as the account that owns it, not merely when it was loaded.
AdmittedWhileStored ==
    [][\A w \in Workers :
          answer'[w] = "admitted" /\ pc[w] # "idle" /\ pc'[w] = "idle" =>
              LET sid == req[w].sid
              IN  /\ rows[sid] # NoRow
                  /\ rows'[sid].user = req[w].row.user]_vars

\* The callback's cookie leaves only once its session is durable: no failure of
\* the entry leaves a browser with a cookie that names nothing.
CookieNamesDurableSession ==
    [][RollsBack => \A s \in issued' \ issued : Durable'.rows[s] # NoRow]_vars

\* An accepted back-channel logout has ended every session its subject had, also
\* those of sign-ins that ran at the same time, and the audit trail names those
\* the entry found.
BackchannelEndsAll ==
    [][\A w \in Workers :
          pc[w] # "idle" /\ req[w].op = "backchannel" /\ answer'[w] = "accepted" =>
              /\ \A s \in Sids : rows'[s] # NoRow => rows'[s].user # req[w].subject
              /\ RollsBack => {s \in Sids : saved.rows[s] # NoRow /\
                                  saved.rows[s].user = req[w].subject} \subseteq audit'.ended]_vars

\* Over a transaction that rolls back a logout spends a session's hint once and
\* loses it only to an uncertain commit (_id_token_of_ended_session, and
\* docs/host-contract.md:603-606).  Of the logouts of one session only the one that
\* ended it answers with the hint; one that answers without had none to lose; and one that
\* fails leaves the session stored, so that a retry has its hint, unless it was the
\* commit that failed: then the session may be gone, and with it the hint.
LogoutKeepsHint ==
    [][\A w \in Workers :
          RollsBack /\ KeepsIdToken /\ pc[w] \in InBlock /\ pc'[w] = "idle" /\ req[w].op = "logout" =>
              LET found == saved.rows[req[w].sid]
                  left == Durable'.rows[req[w].sid]
              IN  \/ answer'[w] = "hinted" /\ found # NoRow /\ left = NoRow
                  \/ answer'[w] = "unhinted" /\ found = NoRow /\ left = NoRow
                  \/ answer'[w] = "failed" /\ left = found
                  \/ answer'[w] = "failed" /\ left = NoRow /\ pc[w] = "exit"]_vars

\* An entry of the serialized transaction is always left, whatever fails in it:
\* no request keeps the others out for ever.
EntryLeft == \A w \in Workers : lock = w ~> lock # w

\* The id the open entry was given, not yet decided.
Undecided ==
    {req[w].sid : w \in {v \in Workers : v = lock /\ pc[v] = "exit" /\ req[v].op = "callback"}}

Ledger == INSTANCE SessionLedger WITH
    Instants <- (-MaxSkew) .. (MaxTime + MaxSkew),
    accounts <- Durable.accounts,
    rows <- Durable.rows,
    audit <- Durable.audit,
    used <- minted \ (IF RollsBack THEN Undecided ELSE {})

\* Over a transaction that rolls back, every entry and every renewal takes effect
\* as a whole or not at all (SessionLedger).
LedgerSpec == Ledger!Spec

=============================================================================
