---------------------------- MODULE SignInProofs ----------------------------
(***************************************************************************)
(* What SignIn promises, for any number of threads, subjects, sessions and *)
(* clocks.  For a host whose transaction rolls back as for one whose       *)
(* stores apply each call: type correctness, the cap on an account's       *)
(* sessions, an expiry within the cap, a session admitted only while it is *)
(* stored and ended for good, an account behind every session, and none    *)
(* left of a subject logged out by the issuer.  For one that rolls back:   *)
(* the entries and the renewals are the indivisible steps of SessionLedger.*)
(***************************************************************************)
EXTENDS SignIn, FiniteSetTheorems, TLAPS

\* The steps a request of each kind can be at.
StepsOf(op) ==
    CASE op = "admit" -> {"load", "decide", "touch"}
      [] op = "callback" -> {"enter", "account", "audit", "replace", "prune", "create", "exit"}
      [] op = "token" -> {"enter", "account", "audit", "exit"}
      [] op = "logout" -> {"enter", "logoutLoad", "logoutDelete", "exit"}
      [] op = "backchannel" -> {"enter", "endAll", "auditLogout", "exit"}
      [] op = "resource" -> {"enter", "lookup", "exit"}

\* What a request carries while it is served.
ServedOK(w) ==
    pc[w] # "idle" =>
        /\ req[w] \in Request
        /\ pc[w] \in StepsOf(req[w].op)
        /\ req[w].op \in {"admit", "logout"} => req[w].sid \in Sids
        /\ req[w].op \in {"callback", "token"} =>
              req[w].subject \in Subjects /\ req[w].role \in Roles
        /\ req[w].op \in {"backchannel", "resource"} => req[w].subject \in Subjects
        /\ pc[w] = "touch" => req[w].row \in Row
        /\ pc[w] = "exit" /\ req[w].op = "callback" => req[w].sid \in minted

\* The open entry is the one of the worker inside a block, and the stores as it
\* found them are kept until it is left.
EntryOK ==
    /\ \A w \in Workers : pc[w] \in InBlock => lock = w
    /\ lock # NoWorker => saved \in Snapshot

TypeInv == TypeOK /\ EntryOK /\ \A w \in Workers : ServedOK(w)

LEMMA SomeSteps ==
    /\ \A op \in AllOps : StepsOf(op) \subseteq {"load", "decide", "touch", "enter"} \cup InBlock
    /\ \A op \in AllOps : "idle" \notin StepsOf(op)
BY DEF AllOps, StepsOf, InBlock

LEMMA BlankOK ==
    ASSUME NEW op \in AllOps
    PROVE  Blank(op) \in Request /\ Blank(op).op = op
BY DEF Blank, Request

LEMMA InitTypeInv == Init => TypeInv
<1> SUFFICES ASSUME Init PROVE TypeInv
  OBVIOUS
<1>1. TypeOK
  BY DEF Init, TypeOK, Audit, Answers
<1> QED
  BY <1>1, SignInAssumption DEF Init, TypeInv, EntryOK, ServedOK, InBlock

-----------------------------------------------------------------------------
(* Type correctness, one lemma for each kind of step                       *)

\* The control variables of the workers, as one worker's step leaves them.
ControlOK ==
    /\ pc' \in [Workers -> {"idle", "load", "decide", "touch", "enter"} \cup InBlock]
    /\ req' \in [Workers -> Request \cup {NoRequest}]
    /\ answer' \in [Workers -> Answers]

\* A worker another one's step leaves alone is served as before.
LEMMA OthersServed ==
    ASSUME TypeInv, NEW u \in Workers, pc'[u] = pc[u], req'[u] = req[u], minted \subseteq minted'
    PROVE  ServedOK(u)'
BY DEF TypeInv, ServedOK

LEMMA FinishOK ==
    ASSUME TypeInv, NEW w \in Workers, NEW outcome \in Answers, Finish(w, outcome),
           minted \subseteq minted'
    PROVE  /\ ControlOK
           /\ pc' = [pc EXCEPT ![w] = "idle"]
           /\ \A u \in Workers : ServedOK(u)'
<1>1. ControlOK
  BY DEF TypeInv, TypeOK, Finish, ControlOK
<1>2. pc'[w] = "idle"
  BY DEF TypeInv, TypeOK, Finish
<1>3. \A u \in Workers \ {w} : pc'[u] = pc[u] /\ req'[u] = req[u]
  BY DEF TypeInv, TypeOK, Finish
<1>4. \A u \in Workers \ {w} : ServedOK(u)'
  BY <1>3, OthersServed
<1> QED
  BY <1>1, <1>2, <1>4 DEF ServedOK, Finish

LEMMA BeginOK ==
    ASSUME TypeInv, NEW w \in Workers, NEW request \in Request, NEW step \in {"load", "enter"},
           Begin(w, request, step),
           step \in StepsOf(request.op),
           request.op \in {"admit", "logout"} => request.sid \in Sids,
           request.op \in {"callback", "token"} =>
               request.subject \in Subjects /\ request.role \in Roles,
           request.op \in {"backchannel", "resource"} => request.subject \in Subjects,
           UNCHANGED <<time, stores, minted, issued, lock, saved>>
    PROVE  TypeInv'
<1>1. ControlOK
  BY DEF TypeInv, TypeOK, Begin, ControlOK, Answers
<1>2. TypeOK'
  BY <1>1 DEF TypeInv, TypeOK, ControlOK, stores
<1>3. pc'[w] = step /\ req'[w] = request
  BY DEF TypeInv, TypeOK, Begin
<1>4. \A u \in Workers \ {w} : pc'[u] = pc[u] /\ req'[u] = req[u]
  BY DEF TypeInv, TypeOK, Begin
<1>5. ServedOK(w)'
  BY <1>3 DEF ServedOK
<1>6. EntryOK'
  BY <1>3, <1>4 DEF TypeInv, EntryOK, InBlock
<1>7. \A u \in Workers \ {w} : ServedOK(u)'
  BY <1>4, OthersServed
<1> QED
  BY <1>2, <1>5, <1>6, <1>7 DEF TypeInv

LEMMA DeclineOK ==
    ASSUME TypeInv, NEW w \in Workers, NEW op, NEW refusal \in Answers, Decline(w, op, refusal),
           UNCHANGED <<time, stores, minted, issued, lock, saved>>
    PROVE  TypeInv'
<1>1. TypeOK'
  BY DEF TypeInv, TypeOK, Decline, stores
<1> QED
  BY <1>1 DEF TypeInv, Decline, EntryOK, ServedOK

LEMMA StartTypeInv ==
    ASSUME TypeInv, NEW w \in Workers, StartAdmit(w) \/ StartStep(w)
    PROVE  TypeInv'
<1> USE SignInAssumption
<1>1. issued \subseteq Sids
  BY DEF TypeInv, TypeOK
<1>2. \A groups : AppRole(groups) \in Roles \cup {NotAMember}
  BY DEF AppRole, Roles
<1>3. {"refused", "foreign-issuer", "unhinted", "not-admitted", NotAMember} \subseteq Answers
  BY DEF Answers, NotAMember
<1>4. CASE StartAdmit(w)
  <2>1. ASSUME NEW sid \in issued, Begin(w, [Blank("admit") EXCEPT !.sid = sid], "load")
        PROVE  TypeInv'
    <3>1. /\ [Blank("admit") EXCEPT !.sid = sid] \in Request
          /\ [Blank("admit") EXCEPT !.sid = sid].op = "admit"
          /\ [Blank("admit") EXCEPT !.sid = sid].sid = sid
      BY <1>1, BlankOK DEF AllOps, Blank, Request
    <3> QED
      BY <1>1, <1>4, <2>1, <3>1, BeginOK DEF StartAdmit, StepsOf
  <2> QED
    BY <1>3, <1>4, <2>1, DeclineOK DEF StartAdmit
<1>5. CASE StartCallback(w)
  <2>1. ASSUME NEW subject \in Subjects, NEW role \in Roles, NEW sid \in issued \cup {NoSid},
               Begin(w, [Blank("callback") EXCEPT !.subject = subject, !.role = role,
                                                  !.sid = sid], "enter")
        PROVE  TypeInv'
    <3> DEFINE r == [Blank("callback") EXCEPT !.subject = subject, !.role = role, !.sid = sid]
    <3>0. Blank("callback") \in Request /\ Blank("callback").op = "callback"
      BY BlankOK DEF AllOps
    <3>1. r \in Request
      BY <1>1, <2>1, <3>0 DEF Request
    <3>2. r.op = "callback" /\ r.subject = subject /\ r.role = role
      BY <3>0 DEF Request
    <3> QED
      BY <1>5, <2>1, <3>1, <3>2, BeginOK DEF StartCallback, StepsOf
  <2> QED
    BY <1>2, <1>3, <1>5, <2>1, DeclineOK DEF StartCallback
<1>6. CASE StartLogout(w)
  <2>1. ASSUME NEW sid \in issued, Begin(w, [Blank("logout") EXCEPT !.sid = sid], "enter")
        PROVE  TypeInv'
    <3>1. /\ [Blank("logout") EXCEPT !.sid = sid] \in Request
          /\ [Blank("logout") EXCEPT !.sid = sid].op = "logout"
          /\ [Blank("logout") EXCEPT !.sid = sid].sid = sid
      BY <1>1, BlankOK DEF AllOps, Blank, Request
    <3> QED
      BY <1>1, <1>6, <2>1, <3>1, BeginOK DEF StartLogout, StepsOf
  <2> QED
    BY <1>3, <1>6, <2>1, DeclineOK DEF StartLogout
<1>7. CASE StartBackchannel(w)
  <2>1. ASSUME NEW subject \in Subjects,
               Begin(w, [Blank("backchannel") EXCEPT !.subject = subject], "enter")
        PROVE  TypeInv'
    <3> DEFINE r == [Blank("backchannel") EXCEPT !.subject = subject]
    <3>1. r \in Request /\ r.op = "backchannel" /\ r.subject = subject
      BY BlankOK DEF AllOps, Blank, Request
    <3> QED
      BY <1>7, <2>1, <3>1, BeginOK DEF StartBackchannel, StepsOf
  <2> QED
    BY <1>3, <1>7, <2>1, DeclineOK DEF StartBackchannel
<1>8. CASE StartToken(w)
  <2>1. ASSUME NEW subject \in Subjects, NEW role \in Roles,
               Begin(w, [Blank("token") EXCEPT !.subject = subject, !.role = role], "enter")
        PROVE  TypeInv'
    <3> DEFINE r == [Blank("token") EXCEPT !.subject = subject, !.role = role]
    <3>1. r \in Request /\ r.op = "token" /\ r.subject = subject /\ r.role = role
      BY BlankOK DEF AllOps, Blank, Request
    <3> QED
      BY <1>8, <2>1, <3>1, BeginOK DEF StartToken, StepsOf
  <2> QED
    BY <1>2, <1>3, <1>8, <2>1, DeclineOK DEF StartToken
<1>9. CASE StartResource(w)
  <2>1. ASSUME NEW subject \in Subjects,
               Begin(w, [Blank("resource") EXCEPT !.subject = subject], "enter")
        PROVE  TypeInv'
    <3> DEFINE r == [Blank("resource") EXCEPT !.subject = subject]
    <3>1. r \in Request /\ r.op = "resource" /\ r.subject = subject
      BY BlankOK DEF AllOps, Blank, Request
    <3> QED
      BY <1>9, <2>1, <3>1, BeginOK DEF StartResource, StepsOf
  <2> QED
    BY <1>3, <1>9, <2>1, DeclineOK DEF StartResource
<1> QED
  BY <1>4, <1>5, <1>6, <1>7, <1>8, <1>9 DEF StartStep

LEMMA RenewedExpiryInt ==
    ASSUME NEW now \in Int, NEW created \in Int
    PROVE  RenewedExpiry(now, created) \in Int
BY LifetimeAssumption DEF RenewedExpiry, Lesser

LEMMA WithoutOK ==
    ASSUME TypeOK, NEW sids
    PROVE  Without(sids) \in [Sids -> Row \cup {NoRow}]
BY DEF TypeOK, Without

\* A step of one worker that stays inside its block.
LEMMA BlockStepOK ==
    ASSUME TypeInv, NEW w \in Workers, NEW step \in InBlock, NEW request \in Request,
           pc[w] \in InBlock, Goto(w, step), req' = [req EXCEPT ![w] = request],
           request.op = req[w].op,
           step \in StepsOf(request.op),
           request.op \in {"admit", "logout"} => request.sid \in Sids,
           request.op \in {"callback", "token"} =>
               request.subject \in Subjects /\ request.role \in Roles,
           request.op \in {"backchannel", "resource"} => request.subject \in Subjects,
           step = "exit" /\ request.op = "callback" => request.sid \in minted',
           accounts' \in [Subjects -> Roles \cup {NoRole}],
           rows' \in [Sids -> Row \cup {NoRow}],
           audit' \in Audit,
           minted \subseteq minted', minted' \subseteq Sids,
           UNCHANGED <<time, issued, lock, saved, answer>>
    PROVE  TypeInv'
<1>1. TypeOK'
  BY DEF TypeInv, TypeOK, Goto
<1>2. pc'[w] = step /\ req'[w] = request
  BY DEF TypeInv, TypeOK, Goto
<1>3. \A u \in Workers \ {w} : pc'[u] = pc[u] /\ req'[u] = req[u]
  BY DEF TypeInv, TypeOK, Goto
<1>4. ServedOK(w)'
  BY <1>2 DEF ServedOK, InBlock
<1>5. EntryOK'
  BY <1>2, <1>3 DEF TypeInv, EntryOK
<1>6. \A u \in Workers \ {w} : ServedOK(u)'
  BY <1>3, OthersServed
<1> QED
  BY <1>1, <1>4, <1>5, <1>6 DEF TypeInv

LEMMA AdmissionTypeInv ==
    ASSUME TypeInv, NEW w \in Workers, AdmissionStep(w)
    PROVE  TypeInv'
<1> USE SignInAssumption
<1>1. CASE StartAdmit(w)
  BY <1>1, StartTypeInv
<1>2. CASE AdmitLoad(w) \/ (AdmitDecide(w) /\ pc'[w] = "touch")
  <2>1. /\ pc[w] \in {"load", "decide"} /\ req[w] \in Request /\ req[w].op = "admit"
        /\ req[w].sid \in Sids
    BY <1>2 DEF TypeInv, ServedOK, AdmitLoad, AdmitDecide, Request, AllOps, StepsOf
  <2>2. /\ req'[w] \in Request /\ req'[w].op = "admit" /\ req'[w].sid = req[w].sid
        /\ pc'[w] \in {"decide", "touch"}
        /\ pc'[w] = "touch" => req'[w].row \in Row
        /\ \A u \in Workers \ {w} : pc'[u] = pc[u] /\ req'[u] = req[u]
    <3>1. CASE AdmitLoad(w)
      BY <2>1, <3>1 DEF AdmitLoad, Goto, TypeInv, TypeOK, Request
    <3>2. CASE AdmitDecide(w) /\ pc'[w] = "touch"
      <4>1. PICK now \in Readings :
              IF req[w].row # NoRow /\ IsAdmitted(req[w].row, now)
              THEN /\ req' = [req EXCEPT ![w].now = now]
                   /\ Goto(w, "touch")
                   /\ UNCHANGED answer
              ELSE Finish(w, "refused")
        BY <3>2 DEF AdmitDecide
      <4>2. now \in Int
        BY DEF Readings, TypeInv, TypeOK
      <4>3. ~Finish(w, "refused")
        BY <3>2 DEF Finish, TypeInv, TypeOK
      <4> QED
        BY <2>1, <4>1, <4>2, <4>3 DEF Goto, TypeInv, TypeOK, Request
    <3> QED
      BY <1>2, <3>1, <3>2
  <2>3. ServedOK(w)'
    BY <2>1, <2>2 DEF ServedOK, StepsOf
  <2>4. TypeOK'
    <3>1. pc' = [pc EXCEPT ![w] = pc'[w]] /\ req' = [req EXCEPT ![w] = req'[w]]
      BY <1>2 DEF AdmitLoad, AdmitDecide, Goto, Finish, TypeInv, TypeOK
    <3>2. UNCHANGED <<time, stores, minted, issued, lock, saved, answer>>
      BY <1>2, <2>1 DEF AdmitLoad, AdmitDecide, Finish, TypeInv, TypeOK
    <3> QED
      BY <2>2, <3>1, <3>2 DEF TypeInv, TypeOK, stores
  <2>5. EntryOK'
    BY <1>2, <2>2 DEF TypeInv, EntryOK, InBlock, AdmitLoad, AdmitDecide
  <2>6. \A u \in Workers \ {w} : ServedOK(u)'
    <3>1. minted' = minted
      BY <1>2 DEF AdmitLoad, AdmitDecide
    <3> QED
      BY <2>2, <3>1, OthersServed
  <2> QED
    BY <2>3, <2>4, <2>5, <2>6 DEF TypeInv
<1>3. ASSUME NEW outcome \in {"refused", "admitted", "failed"}, Finish(w, outcome),
             rows' \in [Sids -> Row \cup {NoRow}],
             UNCHANGED <<time, accounts, audit, minted, issued, lock, saved>>
      PROVE  TypeInv'
  <2>1. outcome \in Answers
    BY DEF Answers
  <2>2. ControlOK /\ pc' = [pc EXCEPT ![w] = "idle"] /\ \A u \in Workers : ServedOK(u)'
    BY <1>3, <2>1, FinishOK
  <2> QED
    BY <1>3, <2>2 DEF TypeInv, TypeOK, EntryOK, InBlock, ControlOK
<1>4. CASE AdmitDecide(w) /\ pc'[w] # "touch"
  <2>1. Finish(w, "refused")
    BY <1>4 DEF AdmitDecide, Goto, TypeInv, TypeOK
  <2> QED
    BY <1>3, <1>4, <2>1 DEF AdmitDecide, stores, TypeInv, TypeOK
<1>5. CASE AdmitTouch(w)
  <2>1. req[w] \in Request /\ req[w].sid \in Sids /\ req[w].row \in Row
    BY <1>5 DEF TypeInv, ServedOK, AdmitTouch, Request, AllOps, StepsOf
  <2>2. RenewedExpiry(req[w].now, req[w].row.created) \in Int
    BY <2>1, RenewedExpiryInt DEF Request, Row
  <2>3. rows' \in [Sids -> Row \cup {NoRow}]
    <3>1. rows[req[w].sid] # NoRow =>
            [rows[req[w].sid] EXCEPT !.expires =
                RenewedExpiry(req[w].now, req[w].row.created)] \in Row
      BY <2>1, <2>2 DEF TypeInv, TypeOK, Row
    <3> QED
      BY <1>5, <2>1, <3>1 DEF TypeInv, TypeOK, AdmitTouch
  <2>4. \E outcome \in {"refused", "admitted", "failed"} : Finish(w, outcome)
    BY <1>5 DEF AdmitTouch
  <2> QED
    BY <1>3, <1>5, <2>3, <2>4 DEF AdmitTouch
<1>6. CASE AdmitFails(w)
  BY <1>3, <1>6 DEF AdmitFails, stores, TypeInv, TypeOK
<1> QED
  BY <1>1, <1>2, <1>4, <1>5, <1>6 DEF AdmissionStep

LEMMA EnterTypeInv ==
    ASSUME TypeInv, NEW w \in Workers, Enter(w)
    PROVE  TypeInv'
<1> USE SignInAssumption
<1>1. /\ req[w] \in Request /\ pc[w] = "enter" /\ pc[w] \in StepsOf(req[w].op)
      /\ req[w].op \in AllOps
  BY DEF TypeInv, ServedOK, Enter, Request
<1>2. /\ FirstStep(req[w].op) \in StepsOf(req[w].op)
      /\ FirstStep(req[w].op) \in InBlock
      /\ FirstStep(req[w].op) \notin {"exit", "touch"}
  BY <1>1 DEF FirstStep, StepsOf, AllOps, InBlock
<1>3. /\ pc'[w] = FirstStep(req[w].op)
      /\ \A u \in Workers \ {w} : pc'[u] = pc[u]
      /\ req' = req /\ minted' = minted
  BY DEF Enter, Goto, TypeInv, TypeOK
<1>4. saved' \in Snapshot
  BY DEF Enter, TypeInv, TypeOK, Snapshot
<1>5. TypeOK'
  BY <1>2, <1>4 DEF Enter, Goto, TypeInv, TypeOK, stores
<1>6. EntryOK'
  BY <1>3, <1>4 DEF Enter, TypeInv, EntryOK
<1>7. ServedOK(w)'
  BY <1>1, <1>2, <1>3 DEF TypeInv, ServedOK
<1>8. \A u \in Workers \ {w} : ServedOK(u)'
  BY <1>3, OthersServed
<1> QED
  BY <1>5, <1>6, <1>7, <1>8 DEF TypeInv

\* What the steps inside a block find.
LEMMA ServedInBlock ==
    ASSUME TypeInv, NEW w \in Workers, pc[w] \in InBlock
    PROVE  /\ req[w] \in Request
           /\ req[w].op \in AllOps
           /\ pc[w] \in StepsOf(req[w].op)
           /\ req[w].op = "logout" => req[w].sid \in Sids
           /\ req[w].op \in {"callback", "token"} =>
                 req[w].subject \in Subjects /\ req[w].role \in Roles
           /\ req[w].op \in {"backchannel", "resource"} => req[w].subject \in Subjects
           /\ req[w].op # "admit"
           /\ req' = req => req' = [req EXCEPT ![w] = req[w]]
BY DEF TypeInv, TypeOK, ServedOK, InBlock, Request, StepsOf

LEMMA AccountTypeInv ==
    ASSUME TypeInv, NEW w \in Workers, AdmitAccount(w) \/ AuditRole(w)
    PROVE  TypeInv'
<1>1. pc[w] \in {"account", "audit"} /\ pc[w] \in InBlock
  BY DEF AdmitAccount, AuditRole, InBlock
<1>2. /\ req[w] \in Request /\ req[w].op \in {"callback", "token"}
      /\ req[w].subject \in Subjects /\ req[w].role \in Roles
      /\ req' = [req EXCEPT ![w] = req[w]]
  BY <1>1, ServedInBlock DEF AllOps, StepsOf, AdmitAccount, AuditRole
<1>3. PICK step \in {"audit", AfterAccount(req[w].op)} : Goto(w, step)
  BY DEF AdmitAccount, AuditRole
<1>4. /\ step \in InBlock /\ step \in StepsOf(req[w].op)
      /\ ~(step = "exit" /\ req[w].op = "callback")
  BY <1>2 DEF AfterAccount, InBlock, StepsOf
<1>5. /\ accounts' \in [Subjects -> Roles \cup {NoRole}]
      /\ rows' \in [Sids -> Row \cup {NoRow}]
      /\ audit' \in Audit
  BY <1>2 DEF AdmitAccount, AuditRole, TypeInv, TypeOK, Audit
<1>6. UNCHANGED <<time, minted, issued, lock, saved, answer>> /\ minted \subseteq Sids
  BY DEF AdmitAccount, AuditRole, TypeInv, TypeOK
<1> QED
  BY <1>1, <1>2, <1>3, <1>4, <1>5, <1>6, BlockStepOK

LEMMA SessionTypeInv ==
    ASSUME TypeInv, NEW w \in Workers, EndReplaced(w) \/ Prune(w) \/ Create(w)
    PROVE  TypeInv'
<1>1. pc[w] \in {"replace", "prune", "create"} /\ pc[w] \in InBlock
  BY DEF EndReplaced, Prune, Create, InBlock
<1>2. /\ req[w] \in Request /\ req[w].op = "callback"
      /\ req[w].subject \in Subjects /\ req[w].role \in Roles
      /\ req' = req => req' = [req EXCEPT ![w] = req[w]]
      /\ minted \subseteq Sids
  BY <1>1, ServedInBlock DEF AllOps, StepsOf, TypeInv, TypeOK
<1>3. {"prune", "create", "exit"} \subseteq InBlock \cap StepsOf("callback")
  BY DEF InBlock, StepsOf
<1>4. CASE EndReplaced(w)
  <2>1. PICK now \in Readings : req' = [req EXCEPT ![w].now = now]
    BY <1>4 DEF EndReplaced
  <2> DEFINE r == [req[w] EXCEPT !.now = now]
  <2>2. now \in Int
    BY DEF Readings, TypeInv, TypeOK
  <2>3. /\ r \in Request /\ r.op = "callback" /\ r.subject \in Subjects /\ r.role \in Roles
        /\ req' = [req EXCEPT ![w] = r]
    BY <1>2, <2>1, <2>2 DEF Request, TypeInv, TypeOK
  <2>4. rows' \in [Sids -> Row \cup {NoRow}]
    BY <1>4, WithoutOK DEF EndReplaced, TypeInv
  <2>5. /\ UNCHANGED <<time, accounts, audit, minted, issued, lock, saved, answer>>
        /\ Goto(w, "prune")
    BY <1>4 DEF EndReplaced
  <2>6. accounts' \in [Subjects -> Roles \cup {NoRole}] /\ audit' \in Audit
    BY <2>5 DEF TypeInv, TypeOK
  <2> HIDE DEF r
  <2> QED
    BY <1>1, <1>2, <1>3, <2>3, <2>4, <2>5, <2>6, BlockStepOK
<1>5. CASE Prune(w)
  <2>1. rows' \in [Sids -> Row \cup {NoRow}]
    BY <1>5, WithoutOK DEF Prune, TypeInv, TypeOK
  <2>2. /\ UNCHANGED <<time, accounts, audit, minted, issued, lock, saved, req, answer>>
        /\ Goto(w, "create")
    BY <1>5 DEF Prune
  <2>3. accounts' \in [Subjects -> Roles \cup {NoRole}] /\ audit' \in Audit
    BY <2>2 DEF TypeInv, TypeOK
  <2> QED
    BY <1>1, <1>2, <1>3, <2>1, <2>2, <2>3, BlockStepOK
<1>6. CASE Create(w)
  <2>1. PICK sid \in Sids \ minted :
          /\ rows' = [rows EXCEPT ![sid] =
                        [user |-> req[w].subject, created |-> req[w].now,
                         expires |-> RenewedExpiry(req[w].now, req[w].now)]]
          /\ minted' = minted \cup {sid}
          /\ req' = [req EXCEPT ![w].sid = sid]
    BY <1>6 DEF Create
  <2> DEFINE r == [req[w] EXCEPT !.sid = sid]
  <2>2. /\ r \in Request /\ r.op = "callback" /\ r.subject \in Subjects /\ r.role \in Roles
        /\ req' = [req EXCEPT ![w] = r] /\ r.sid = sid
    BY <1>2, <2>1 DEF Request, TypeInv, TypeOK
  <2>3. req[w].now \in Int
    BY <1>2 DEF Request
  <2>4. rows' \in [Sids -> Row \cup {NoRow}]
    BY <1>2, <2>1, <2>3, RenewedExpiryInt DEF Row, TypeInv, TypeOK
  <2>5. /\ UNCHANGED <<time, accounts, audit, issued, lock, saved, answer>>
        /\ Goto(w, "exit")
    BY <1>6 DEF Create
  <2>6. accounts' \in [Subjects -> Roles \cup {NoRole}] /\ audit' \in Audit
    BY <2>5 DEF TypeInv, TypeOK
  <2>7. minted \subseteq minted' /\ minted' \subseteq Sids /\ r.sid \in minted'
    BY <1>2, <2>1, <2>2
  <2> HIDE DEF r
  <2> QED
    BY <1>1, <1>2, <1>3, <2>2, <2>4, <2>5, <2>6, <2>7, BlockStepOK
<1> QED
  BY <1>4, <1>5, <1>6

LEMMA LogoutTypeInv ==
    ASSUME TypeInv, NEW w \in Workers, LogoutLoad(w) \/ LogoutDelete(w)
    PROVE  TypeInv'
<1>1. pc[w] \in {"logoutLoad", "logoutDelete"} /\ pc[w] \in InBlock
  BY DEF LogoutLoad, LogoutDelete, InBlock
<1>2. /\ req[w] \in Request /\ req[w].op = "logout" /\ req[w].sid \in Sids
      /\ req' = req => req' = [req EXCEPT ![w] = req[w]]
      /\ minted \subseteq Sids
  BY <1>1, ServedInBlock DEF AllOps, StepsOf, TypeInv, TypeOK
<1>3. {"logoutDelete", "exit"} \subseteq InBlock \cap StepsOf("logout")
  BY DEF InBlock, StepsOf
<1>4. /\ UNCHANGED <<time, minted, issued, lock, saved, answer>>
      /\ accounts' \in [Subjects -> Roles \cup {NoRole}] /\ audit' \in Audit
      /\ rows' \in [Sids -> Row \cup {NoRow}]
  BY WithoutOK DEF LogoutLoad, LogoutDelete, stores, TypeInv, TypeOK
<1>5. CASE LogoutLoad(w)
  <2> DEFINE r == [req[w] EXCEPT !.row = rows[req[w].sid]]
  <2>1. /\ r \in Request /\ r.op = "logout" /\ r.sid \in Sids
        /\ req' = [req EXCEPT ![w] = r]
    BY <1>2, <1>5 DEF LogoutLoad, Request, TypeInv, TypeOK
  <2>2. Goto(w, "logoutDelete")
    BY <1>5 DEF LogoutLoad
  <2> HIDE DEF r
  <2> QED
    BY <1>1, <1>2, <1>3, <1>4, <2>1, <2>2, BlockStepOK
<1>6. CASE LogoutDelete(w)
  BY <1>1, <1>2, <1>3, <1>4, <1>6, BlockStepOK DEF LogoutDelete
<1> QED
  BY <1>5, <1>6

LEMMA BackchannelTypeInv ==
    ASSUME TypeInv, NEW w \in Workers, EndAll(w) \/ AuditLogout(w)
    PROVE  TypeInv'
<1>1. pc[w] \in {"endAll", "auditLogout"} /\ pc[w] \in InBlock
  BY DEF EndAll, AuditLogout, InBlock
<1>2. /\ req[w] \in Request /\ req[w].op = "backchannel" /\ req[w].subject \in Subjects
      /\ req' = req => req' = [req EXCEPT ![w] = req[w]]
      /\ minted \subseteq Sids
  BY <1>1, ServedInBlock DEF AllOps, StepsOf, TypeInv, TypeOK
<1>3. {"auditLogout", "exit"} \subseteq InBlock \cap StepsOf("backchannel")
  BY DEF InBlock, StepsOf
<1>4. /\ UNCHANGED <<time, accounts, minted, issued, lock, saved, answer>>
      /\ accounts' \in [Subjects -> Roles \cup {NoRole}]
      /\ rows' \in [Sids -> Row \cup {NoRow}]
  BY WithoutOK DEF EndAll, AuditLogout, TypeInv, TypeOK
<1>5. CASE EndAll(w)
  <2> DEFINE ended == IF accounts[req[w].subject] = NoRole
                      THEN {} ELSE SessionsOf(req[w].subject)
             r == [req[w] EXCEPT !.ended = ended]
  <2>1. ended \subseteq Sids
    BY DEF SessionsOf
  <2>2. /\ r \in Request /\ r.op = "backchannel" /\ r.subject \in Subjects
        /\ req' = [req EXCEPT ![w] = r]
    BY <1>2, <1>5, <2>1 DEF EndAll, Request, TypeInv, TypeOK
  <2>3. PICK step \in {"auditLogout", "exit"} : Goto(w, step)
    BY <1>5 DEF EndAll
  <2>4. audit' \in Audit
    BY <1>5 DEF EndAll, TypeInv, TypeOK
  <2> HIDE DEF r
  <2> QED
    BY <1>1, <1>2, <1>3, <1>4, <2>2, <2>3, <2>4, BlockStepOK
<1>6. CASE AuditLogout(w)
  <2>1. audit' \in Audit
    BY <1>2, <1>6 DEF AuditLogout, Audit, Request, TypeInv, TypeOK
  <2> QED
    BY <1>1, <1>2, <1>3, <1>4, <1>6, <2>1, BlockStepOK DEF AuditLogout
<1> QED
  BY <1>5, <1>6

LEMMA LookupTypeInv ==
    ASSUME TypeInv, NEW w \in Workers, Lookup(w)
    PROVE  TypeInv'
<1>1. pc[w] = "lookup" /\ pc[w] \in InBlock
  BY DEF Lookup, InBlock
<1>2. /\ req[w] \in Request /\ req[w].op = "resource" /\ req[w].subject \in Subjects
      /\ minted \subseteq Sids
  BY <1>1, ServedInBlock DEF AllOps, StepsOf, TypeInv, TypeOK
<1>3. "exit" \in InBlock \cap StepsOf("resource")
  BY DEF InBlock, StepsOf
<1>4. /\ UNCHANGED <<time, accounts, rows, audit, minted, issued, lock, saved, answer>>
      /\ accounts' \in [Subjects -> Roles \cup {NoRole}] /\ audit' \in Audit
      /\ rows' \in [Sids -> Row \cup {NoRow}]
  BY DEF Lookup, stores, TypeInv, TypeOK
<1> DEFINE role == IF accounts[req[w].subject] = NoRole THEN NoRole ELSE "user"
           r == [req[w] EXCEPT !.role = role]
<1>5. role \in Roles \cup {NoRole}
  BY DEF Roles
<1>6. /\ r \in Request /\ r.op = "resource" /\ r.subject \in Subjects
      /\ req' = [req EXCEPT ![w] = r]
  BY <1>2, <1>5 DEF Lookup, Request, TypeInv, TypeOK
<1>7. Goto(w, "exit")
  BY DEF Lookup
<1> HIDE DEF r
<1> QED
  BY <1>1, <1>2, <1>3, <1>4, <1>6, <1>7, BlockStepOK

\* Leaving a block frees the lock; no other worker is inside one.
LEMMA LeaveOK ==
    ASSUME TypeInv, NEW w \in Workers, NEW outcome \in Answers, Finish(w, outcome),
           pc[w] \in InBlock, lock' = NoWorker, saved' = NoSnapshot,
           accounts' \in [Subjects -> Roles \cup {NoRole}],
           rows' \in [Sids -> Row \cup {NoRow}],
           audit' \in Audit,
           issued' \subseteq minted,
           UNCHANGED <<time, minted>>
    PROVE  TypeInv'
<1>1. ControlOK /\ pc' = [pc EXCEPT ![w] = "idle"] /\ \A u \in Workers : ServedOK(u)'
  BY FinishOK
<1>2. TypeOK'
  BY <1>1 DEF TypeInv, TypeOK, ControlOK
<1>3. \A u \in Workers : pc'[u] \notin InBlock
  <2>1. \A u \in Workers \ {w} : pc[u] \notin InBlock
    BY DEF TypeInv, EntryOK
  <2> QED
    BY <1>1, <2>1 DEF TypeInv, TypeOK, InBlock
<1>4. EntryOK'
  BY <1>3 DEF EntryOK
<1> QED
  BY <1>1, <1>2, <1>4 DEF TypeInv

LEMMA RestoreOK ==
    ASSUME TypeInv, NEW w \in Workers, pc[w] \in InBlock, RestoreOrKeep \/ UNCHANGED stores
    PROVE  /\ accounts' \in [Subjects -> Roles \cup {NoRole}]
           /\ rows' \in [Sids -> Row \cup {NoRow}]
           /\ audit' \in Audit
<1>1. saved \in Snapshot
  BY SignInAssumption DEF TypeInv, EntryOK
<1> QED
  BY <1>1 DEF RestoreOrKeep, stores, Snapshot, TypeInv, TypeOK

LEMMA LeaveTypeInv ==
    ASSUME TypeInv, NEW w \in Workers, Exit(w) \/ Raise(w) \/ UsernameTaken(w)
    PROVE  TypeInv'
<1>1. pc[w] \in InBlock
  BY DEF Exit, Raise, UsernameTaken, InBlock
<1>2. issued \subseteq minted
  BY DEF TypeInv, TypeOK
<1>3. CASE Exit(w)
  <2>1. Outcome(req[w]) \in Answers
    BY <1>1, ServedInBlock DEF Outcome, Answers, AllOps
  <2>2. req[w].op = "callback" => req[w].sid \in minted
    BY <1>3 DEF Exit, TypeInv, ServedOK
  <2>3. issued' \subseteq minted
    BY <1>2, <1>3, <2>2 DEF Exit
  <2> QED
    BY <1>1, <1>3, <2>1, <2>3, RestoreOK, LeaveOK DEF Exit
<1>4. ASSUME NEW outcome \in {"failed", "username-taken"}, Leave(w, outcome),
             RestoreOrKeep \/ UNCHANGED stores
      PROVE  TypeInv'
  <2>1. outcome \in Answers
    BY DEF Answers
  <2> QED
    BY <1>1, <1>2, <1>4, <2>1, RestoreOK, LeaveOK DEF Leave
<1> QED
  BY <1>3, <1>4 DEF Raise, UsernameTaken

LEMMA NextTypeInv == TypeInv /\ [Next]_vars => TypeInv'
<1> SUFFICES ASSUME TypeInv, [Next]_vars PROVE TypeInv'
  OBVIOUS
<1>1. ASSUME NEW w \in Workers, AdmissionStep(w) PROVE TypeInv'
  BY <1>1, AdmissionTypeInv
<1>2. ASSUME NEW w \in Workers, StartStep(w) PROVE TypeInv'
  BY <1>2, StartTypeInv
<1>3. ASSUME NEW w \in Workers, Enter(w) PROVE TypeInv'
  BY <1>3, EnterTypeInv
<1>4. ASSUME NEW w \in Workers, BlockStep(w) PROVE TypeInv'
  BY <1>4, AccountTypeInv, SessionTypeInv, LogoutTypeInv, BackchannelTypeInv, LookupTypeInv,
     LeaveTypeInv DEF BlockStep
<1>5. CASE HostEnds
  <2>1. rows' \in [Sids -> Row \cup {NoRow}]
    BY <1>5, WithoutOK DEF HostEnds, TypeInv
  <2>2. TypeOK'
    BY <1>5, <2>1 DEF HostEnds, TypeInv, TypeOK
  <2> QED
    BY <1>5, <2>2 DEF HostEnds, TypeInv, EntryOK, ServedOK
<1>6. CASE Tick
  BY <1>6 DEF Tick, stores, TypeInv, TypeOK, EntryOK, ServedOK
<1>7. CASE UNCHANGED vars
  BY <1>7 DEF vars, TypeInv, TypeOK, EntryOK, ServedOK
<1> QED
  BY <1>1, <1>2, <1>3, <1>4, <1>5, <1>6, <1>7 DEF Next

LEMMA TypeInvariance == Spec => []TypeInv
BY InitTypeInv, NextTypeInv, PTL DEF Spec

\* Every variable keeps its type in every reachable state: what a request carries
\* fits the step it is at, and the stores hold rows and roles only.
THEOREM SignIn_TypeOK == Spec => []TypeOK
<1>1. TypeInv => TypeOK
  BY DEF TypeInv
<1> QED
  BY <1>1, TypeInvariance, PTL

-----------------------------------------------------------------------------
(* The cap on an account's sessions                                        *)

SessionsIn(table, user) == {s \in Sids : table[s] # NoRow /\ table[s].user = user}

\* The cap alone is not inductive: the sign-in about to create a session has made
\* room for it, and what a failing entry restores respects the cap as well.
WithinMax(table) ==
    \A user \in Subjects : Cardinality(SessionsIn(table, user)) <= MaxSessions

RoomMade == \A w \in Workers :
    pc[w] = "create" => Cardinality(SessionsIn(rows, req[w].subject)) <= MaxSessions - 1

SavedWithinMax == RollsBack /\ lock # NoWorker => WithinMax(saved.rows)

CapInv == MaxSessions # NoCap => WithinMax(rows) /\ RoomMade /\ SavedWithinMax

LEMMA SessionsFinite ==
    ASSUME NEW table, NEW user
    PROVE  /\ IsFiniteSet(SessionsIn(table, user))
           /\ Cardinality(SessionsIn(table, user)) \in Nat
<1>1. SessionsIn(table, user) \subseteq Sids
  BY DEF SessionsIn
<1> QED
  BY <1>1, SignInAssumption, FS_Subset, FS_CardinalityType

LEMMA FewerSessions ==
    ASSUME NEW table, NEW smaller, NEW user,
           SessionsIn(smaller, user) \subseteq SessionsIn(table, user)
    PROVE  Cardinality(SessionsIn(smaller, user)) <= Cardinality(SessionsIn(table, user))
BY SessionsFinite, FS_Subset

\* A step that opens no session and lets nobody reach "create" keeps the cap.
LEMMA ShrinkOK ==
    ASSUME TypeInv, CapInv,
           \A user \in Subjects : SessionsIn(rows', user) \subseteq SessionsIn(rows, user),
           \A u \in Workers : pc'[u] = "create" => pc[u] = "create" /\ req'[u] = req[u],
           MaxSessions # NoCap => SavedWithinMax'
    PROVE  CapInv'
<1> SUFFICES ASSUME MaxSessions # NoCap PROVE WithinMax(rows') /\ RoomMade' /\ SavedWithinMax'
  BY DEF CapInv
<1>1. MaxSessions \in Nat \ {0}
  BY SignInAssumption
<1>2. \A user \in Subjects :
        /\ Cardinality(SessionsIn(rows', user)) <= Cardinality(SessionsIn(rows, user))
        /\ Cardinality(SessionsIn(rows, user)) \in Nat
        /\ Cardinality(SessionsIn(rows', user)) \in Nat
  BY FewerSessions, SessionsFinite
<1>3. WithinMax(rows')
  BY <1>1, <1>2 DEF CapInv, WithinMax
<1>4. RoomMade'
  <2> SUFFICES ASSUME NEW u \in Workers, pc'[u] = "create"
               PROVE  Cardinality(SessionsIn(rows', req'[u].subject)) <= MaxSessions - 1
    BY DEF RoomMade
  <2>1. pc[u] = "create" /\ req'[u] = req[u]
    OBVIOUS
  <2>2. req[u].subject \in Subjects
    BY <2>1, ServedInBlock DEF InBlock, StepsOf, AllOps
  <2>3. Cardinality(SessionsIn(rows, req[u].subject)) <= MaxSessions - 1
    BY <2>1 DEF CapInv, RoomMade
  <2> QED
    BY <1>1, <1>2, <2>1, <2>2, <2>3
<1> QED
  BY <1>3, <1>4

\* What Without leaves of an account's sessions.
LEMMA WithoutSessions ==
    ASSUME NEW user, NEW sids
    PROVE  SessionsIn(Without(sids), user) = SessionsIn(rows, user) \ sids
BY DEF SessionsIn, Without

LEMMA AdmissionCap ==
    ASSUME TypeInv, CapInv, NEW w \in Workers, AdmissionStep(w)
    PROVE  CapInv'
<1>1. \A user \in Subjects : SessionsIn(rows', user) \subseteq SessionsIn(rows, user)
  <2>1. CASE UNCHANGED rows
    BY <2>1
  <2>2. CASE AdmitTouch(w) /\ rows' # rows
    <3>1. req[w].sid \in Sids
      BY <2>2 DEF TypeInv, ServedOK, AdmitTouch, Request, AllOps, StepsOf
    <3>2. rows[req[w].sid] \in Row
      BY <2>2, <3>1 DEF AdmitTouch, TypeInv, TypeOK
    <3> QED
      BY <2>2, <3>1, <3>2 DEF AdmitTouch, SessionsIn, TypeInv, TypeOK, Row
  <2> QED
    BY <2>1, <2>2 DEF AdmissionStep, StartAdmit, AdmitLoad, AdmitDecide, AdmitFails, stores
<1>2. \A u \in Workers : pc'[u] = "create" => pc[u] = "create" /\ req'[u] = req[u]
  BY DEF AdmissionStep, StartAdmit, AdmitLoad, AdmitDecide, AdmitTouch, AdmitFails, Begin,
         Decline, Goto, Finish, TypeInv, TypeOK
<1>3. MaxSessions # NoCap => SavedWithinMax'
  <2>1. UNCHANGED <<lock, saved>>
    BY DEF AdmissionStep, StartAdmit, AdmitLoad, AdmitDecide, AdmitTouch, AdmitFails
  <2> QED
    BY <2>1 DEF CapInv, SavedWithinMax
<1> QED
  BY <1>1, <1>2, <1>3, ShrinkOK

LEMMA StartCap ==
    ASSUME TypeInv, CapInv, NEW w \in Workers, StartStep(w)
    PROVE  CapInv'
<1>1. UNCHANGED <<time, stores, minted, issued, lock, saved>>
  BY DEF StartStep, StartCallback, StartLogout, StartBackchannel, StartToken, StartResource
<1>2. \A u \in Workers : pc'[u] = "create" => pc[u] = "create" /\ req'[u] = req[u]
  BY DEF StartStep, StartCallback, StartLogout, StartBackchannel, StartToken, StartResource,
         Begin, Decline, TypeInv, TypeOK
<1>3. MaxSessions # NoCap => SavedWithinMax'
  BY <1>1 DEF CapInv, SavedWithinMax
<1> QED
  BY <1>1, <1>2, <1>3, ShrinkOK DEF stores

LEMMA EnterCap ==
    ASSUME TypeInv, CapInv, NEW w \in Workers, Enter(w)
    PROVE  CapInv'
<1>1. UNCHANGED rows /\ saved'.rows = rows
  BY DEF Enter, stores
<1>2. FirstStep(req[w].op) # "create"
  <2>1. req[w].op \in AllOps \ {"admit"}
    BY DEF Enter, TypeInv, ServedOK, Request, StepsOf
  <2> QED
    BY <2>1 DEF FirstStep, AllOps
<1>3. \A u \in Workers : pc'[u] = "create" => pc[u] = "create" /\ req'[u] = req[u]
  BY <1>2 DEF Enter, Goto, TypeInv, TypeOK
<1>4. MaxSessions # NoCap => SavedWithinMax'
  BY <1>1 DEF CapInv, SavedWithinMax, WithinMax
<1> QED
  BY <1>1, <1>3, <1>4, ShrinkOK

\* The steps of a block that neither make room nor create: they end sessions at most.
LEMMA EndingCap ==
    ASSUME TypeInv, CapInv, NEW w \in Workers,
           \/ AdmitAccount(w) \/ AuditRole(w) \/ EndReplaced(w)
           \/ LogoutLoad(w) \/ LogoutDelete(w) \/ EndAll(w) \/ AuditLogout(w) \/ Lookup(w)
    PROVE  CapInv'
<1>1. \A user \in Subjects : SessionsIn(rows', user) \subseteq SessionsIn(rows, user)
  <2>1. CASE UNCHANGED rows
    BY <2>1
  <2>2. CASE \E sids : rows' = Without(sids)
    BY <2>2, WithoutSessions
  <2> QED
    BY <2>1, <2>2 DEF AdmitAccount, AuditRole, EndReplaced, LogoutLoad, LogoutDelete, EndAll,
                      AuditLogout, Lookup, stores
<1>2. \A u \in Workers : pc'[u] = "create" => pc[u] = "create" /\ req'[u] = req[u]
  BY DEF AdmitAccount, AuditRole, EndReplaced, LogoutLoad, LogoutDelete, EndAll,
         AuditLogout, Lookup, AfterAccount, Goto, TypeInv, TypeOK
<1>3. MaxSessions # NoCap => SavedWithinMax'
  <2>1. UNCHANGED <<lock, saved>>
    BY DEF AdmitAccount, AuditRole, EndReplaced, LogoutLoad, LogoutDelete, EndAll,
           AuditLogout, Lookup
  <2> QED
    BY <2>1 DEF CapInv, SavedWithinMax
<1> QED
  BY <1>1, <1>2, <1>3, ShrinkOK

\* prune_overflow(user, keep_newest = max_sessions - 1) makes room for one.
LEMMA PruneCap ==
    ASSUME TypeInv, CapInv, NEW w \in Workers, Prune(w)
    PROVE  CapInv'
<1> SUFFICES ASSUME MaxSessions # NoCap PROVE WithinMax(rows') /\ RoomMade' /\ SavedWithinMax'
  BY DEF CapInv
<1>1. MaxSessions \in Nat \ {0}
  BY SignInAssumption
<1> DEFINE user == req[w].subject
<1>2. PICK kept \in NewestOf(user, MaxSessions - 1) : rows' = Without(SessionsOf(user) \ kept)
  BY DEF Prune
<1>3. \A other : SessionsIn(rows', other) \subseteq SessionsIn(rows, other)
  BY <1>2, WithoutSessions
<1>4. SessionsIn(rows', user) = kept /\ Cardinality(kept) <= MaxSessions - 1
  <2>1. kept \subseteq SessionsIn(rows, user) /\ Cardinality(kept) <= MaxSessions - 1
    BY <1>2 DEF NewestOf, SessionsOf, SessionsIn
  <2> QED
    <3>1. SessionsOf(user) = SessionsIn(rows, user)
      BY DEF SessionsOf, SessionsIn
    <3>2. SessionsIn(rows', user) = SessionsIn(rows, user) \ (SessionsIn(rows, user) \ kept)
      BY <1>2, <3>1, WithoutSessions
    <3> QED
      BY <2>1, <3>2
<1>5. WithinMax(rows')
  BY <1>1, <1>3, FewerSessions, SessionsFinite DEF CapInv, WithinMax
<1>6. RoomMade'
  <2>1. req' = req /\ pc[w] \in InBlock /\ pc' = [pc EXCEPT ![w] = "create"]
    BY DEF Prune, Goto, InBlock
  <2>2. \A u \in Workers : pc'[u] = "create" => u = w
    BY <2>1 DEF TypeInv, TypeOK, EntryOK, InBlock
  <2> QED
    BY <1>4, <2>1, <2>2 DEF RoomMade
<1>7. SavedWithinMax'
  <2>1. UNCHANGED <<lock, saved>>
    BY DEF Prune
  <2> QED
    BY <2>1 DEF CapInv, SavedWithinMax
<1> QED
  BY <1>5, <1>6, <1>7

LEMMA CreateCap ==
    ASSUME TypeInv, CapInv, NEW w \in Workers, Create(w)
    PROVE  CapInv'
<1> SUFFICES ASSUME MaxSessions # NoCap PROVE WithinMax(rows') /\ RoomMade' /\ SavedWithinMax'
  BY DEF CapInv
<1>1. MaxSessions \in Nat \ {0}
  BY SignInAssumption
<1> DEFINE subject == req[w].subject
           new == [user |-> subject, created |-> req[w].now,
                   expires |-> RenewedExpiry(req[w].now, req[w].now)]
<1>2. PICK sid \in Sids \ minted : rows' = [rows EXCEPT ![sid] = new]
  BY DEF Create
<1>3. Cardinality(SessionsIn(rows, subject)) <= MaxSessions - 1
  BY DEF Create, CapInv, RoomMade
<1>4. ASSUME NEW user \in Subjects
      PROVE  Cardinality(SessionsIn(rows', user)) <= MaxSessions
  <2>1. CASE user = subject
    <3>1. SessionsIn(rows', user) \subseteq SessionsIn(rows, user) \cup {sid}
      BY <1>2, <2>1 DEF SessionsIn, TypeInv, TypeOK
    <3>2. /\ IsFiniteSet(SessionsIn(rows, user) \cup {sid})
          /\ Cardinality(SessionsIn(rows, user) \cup {sid}) <=
                Cardinality(SessionsIn(rows, user)) + 1
          /\ Cardinality(SessionsIn(rows, user) \cup {sid}) \in Nat
      <4> DEFINE S == SessionsIn(rows, user)
      <4>1. IsFiniteSet(S) /\ Cardinality(S) \in Nat
        BY SessionsFinite
      <4> HIDE DEF S
      <4>2. /\ IsFiniteSet(S \cup {sid})
            /\ Cardinality(S \cup {sid}) =
                  IF sid \in S THEN Cardinality(S) ELSE Cardinality(S) + 1
        BY <4>1, FS_AddElement
      <4>3. IsFiniteSet(S \cup {sid}) /\ Cardinality(S \cup {sid}) <= Cardinality(S) + 1
            /\ Cardinality(S \cup {sid}) \in Nat
        BY <4>1, <4>2
      <4> QED
        BY <4>3 DEF S
    <3>3. Cardinality(SessionsIn(rows', user)) <=
             Cardinality(SessionsIn(rows, user) \cup {sid})
      BY <3>1, <3>2, FS_Subset
    <3> QED
      BY <1>1, <1>3, <2>1, <3>2, <3>3, SessionsFinite
  <2>2. CASE user # subject
    <3>1. SessionsIn(rows', user) \subseteq SessionsIn(rows, user)
      BY <1>2, <2>2 DEF SessionsIn, TypeInv, TypeOK
    <3> QED
      BY <1>1, <3>1, FewerSessions, SessionsFinite DEF CapInv, WithinMax
  <2> QED
    BY <2>1, <2>2
<1>5. RoomMade'
  <2>1. pc[w] \in InBlock /\ pc' = [pc EXCEPT ![w] = "exit"]
    BY DEF Create, Goto, InBlock
  <2>2. \A u \in Workers : pc'[u] # "create"
    BY <2>1 DEF TypeInv, TypeOK, EntryOK, InBlock
  <2> QED
    BY <2>2 DEF RoomMade
<1>6. SavedWithinMax'
  <2>1. UNCHANGED <<lock, saved>>
    BY DEF Create
  <2> QED
    BY <2>1 DEF CapInv, SavedWithinMax
<1> QED
  BY <1>4, <1>5, <1>6 DEF WithinMax

LEMMA LeaveCap ==
    ASSUME TypeInv, CapInv, NEW w \in Workers, Exit(w) \/ Raise(w) \/ UsernameTaken(w)
    PROVE  CapInv'
<1>1. /\ pc[w] \in InBlock /\ lock = w /\ lock # NoWorker
      /\ pc' = [pc EXCEPT ![w] = "idle"] /\ lock' = NoWorker
  BY SignInAssumption DEF Exit, Raise, UsernameTaken, Leave, Finish, InBlock, TypeInv, EntryOK
<1>2. \A u \in Workers : pc'[u] # "create"
  BY <1>1 DEF TypeInv, TypeOK, EntryOK, InBlock
<1>3. CASE rows' = rows
  BY <1>1, <1>2, <1>3 DEF CapInv, RoomMade, SavedWithinMax
<1>4. CASE RollsBack /\ rows' = saved.rows
  BY <1>1, <1>2, <1>4 DEF CapInv, RoomMade, SavedWithinMax
<1> QED
  BY <1>3, <1>4 DEF Exit, Raise, UsernameTaken, RestoreOrKeep, stores

LEMMA NextCapInv == TypeInv /\ CapInv /\ [Next]_vars => CapInv'
<1> SUFFICES ASSUME TypeInv, CapInv, [Next]_vars PROVE CapInv'
  OBVIOUS
<1>1. ASSUME NEW w \in Workers, AdmissionStep(w) PROVE CapInv'
  BY <1>1, AdmissionCap
<1>2. ASSUME NEW w \in Workers, StartStep(w) PROVE CapInv'
  BY <1>2, StartCap
<1>3. ASSUME NEW w \in Workers, Enter(w) PROVE CapInv'
  BY <1>3, EnterCap
<1>4. ASSUME NEW w \in Workers, BlockStep(w) PROVE CapInv'
  BY <1>4, EndingCap, PruneCap, CreateCap, LeaveCap DEF BlockStep
<1>5. CASE HostEnds
  <2>1. \A user \in Subjects : SessionsIn(rows', user) \subseteq SessionsIn(rows, user)
    BY <1>5, WithoutSessions DEF HostEnds
  <2>2. UNCHANGED <<lock, saved, pc, req>>
    BY <1>5 DEF HostEnds
  <2> QED
    BY <2>1, <2>2, ShrinkOK DEF CapInv, SavedWithinMax
<1>6. CASE Tick \/ UNCHANGED vars
  BY <1>6 DEF Tick, stores, vars, CapInv, RoomMade, SavedWithinMax
<1> QED
  BY <1>1, <1>2, <1>3, <1>4, <1>5, <1>6 DEF Next

\* No account ever holds more than max_sessions sessions, whatever sign-ins run at
\* once, whichever call fails, and whether the host's transaction rolls back
\* or its stores keep what an entry did before it failed (_write_sign_in).
THEOREM SignIn_SessionsWithinMax == Spec => []SessionsWithinMax
<1>1. Init => CapInv
  <2> SUFFICES ASSUME Init, MaxSessions # NoCap PROVE WithinMax(rows) /\ RoomMade /\ SavedWithinMax
    BY DEF CapInv
  <2>1. MaxSessions \in Nat
    BY SignInAssumption
  <2>2. \A user : SessionsIn(rows, user) = {}
    BY DEF Init, SessionsIn
  <2> QED
    BY <2>1, <2>2, FS_EmptySet DEF Init, WithinMax, RoomMade, SavedWithinMax
<1>2. CapInv => SessionsWithinMax
  BY DEF CapInv, WithinMax, SessionsWithinMax, SessionsIn, SessionsOf
<1> QED
  BY <1>1, <1>2, TypeInvariance, NextCapInv, PTL DEF Spec

-----------------------------------------------------------------------------
(* A session by itself: its cap, when it is admitted, how it ends          *)


WithinCap(row) == row.expires <= row.created + AbsoluteMaxAgeSeconds

SameSession(a, b) == a # NoRow /\ b # NoRow => a.user = b.user /\ a.created = b.created

\* A table of rows as the store can hold them beside the rows of now.
TableOK(table) ==
    \A s \in Sids : table[s] # NoRow =>
        s \in minted /\ WithinCap(table[s]) /\ SameSession(table[s], rows[s])

\* The row a request loaded is, as long as it is stored, the stored session's.
LoadedOK(w) ==
    pc[w] \in {"decide", "touch"} /\ req[w].row # NoRow =>
        /\ req[w].row \in Row
        /\ req[w].sid \in minted
        /\ SameSession(req[w].row, rows[req[w].sid])
        /\ lock # NoWorker => SameSession(req[w].row, saved.rows[req[w].sid])

RowInv ==
    /\ TableOK(rows)
    /\ lock # NoWorker => TableOK(saved.rows)
    /\ \A w \in Workers : LoadedOK(w)

\* No renewal passes the cap, whatever the instant it is computed at.
LEMMA RenewalWithinCap ==
    ASSUME NEW now \in Int, NEW created \in Int
    PROVE  RenewedExpiry(now, created) <= created + AbsoluteMaxAgeSeconds
BY LifetimeAssumption DEF RenewedExpiry, Lesser

\* A step that keeps every stored row's owner and creation, and makes none of an
\* id handed out before, keeps RowInv as long as nothing new is loaded or saved.
Kept == \A s \in Sids : rows'[s] # NoRow =>
    \/ rows[s] # NoRow /\ SameSession(rows'[s], rows[s]) /\ WithinCap(rows'[s])
    \/ s \notin minted /\ s \in minted' /\ WithinCap(rows'[s])

LEMMA KeptOK ==
    ASSUME TypeInv, RowInv, TypeInv', Kept, minted \subseteq minted',
           lock' # NoWorker => lock # NoWorker /\ saved' = saved,
           \A w \in Workers : pc'[w] \in {"decide", "touch"} /\ req'[w].row # NoRow =>
               /\ pc[w] \in {"decide", "touch"}
               /\ req'[w].row = req[w].row /\ req'[w].sid = req[w].sid
    PROVE  RowInv'
<1>1. TableOK(rows)'
  BY DEF RowInv, TableOK, Kept, SameSession
<1>2. ASSUME lock' # NoWorker PROVE TableOK(saved.rows)'
  <2>1. saved' = saved /\ TableOK(saved.rows)
    BY <1>2 DEF RowInv
  <2> QED
    BY <2>1 DEF TableOK, Kept, SameSession
<1>3. ASSUME NEW w \in Workers PROVE LoadedOK(w)'
  <2> SUFFICES ASSUME pc'[w] \in {"decide", "touch"}, req'[w].row # NoRow
               PROVE  /\ req'[w].row \in Row
                      /\ req'[w].sid \in minted'
                      /\ SameSession(req'[w].row, rows'[req'[w].sid])
                      /\ lock' # NoWorker => SameSession(req'[w].row, saved'.rows[req'[w].sid])
    BY DEF LoadedOK
  <2>1. /\ req'[w].row = req[w].row /\ req'[w].sid = req[w].sid
        /\ req[w].row \in Row /\ req[w].sid \in minted
        /\ SameSession(req[w].row, rows[req[w].sid])
        /\ lock # NoWorker => SameSession(req[w].row, saved.rows[req[w].sid])
    BY DEF RowInv, LoadedOK
  <2>2. req[w].sid \in Sids
    BY <2>1 DEF TypeInv, TypeOK
  <2> QED
    BY <2>1, <2>2 DEF Kept, SameSession
<1> QED
  BY <1>1, <1>2, <1>3 DEF RowInv

LEMMA AdmissionRows ==
    ASSUME TypeInv, RowInv, TypeInv', NEW w \in Workers, AdmissionStep(w)
    PROVE  RowInv'
<1>1. UNCHANGED <<minted, lock, saved>>
  BY DEF AdmissionStep, StartAdmit, AdmitLoad, AdmitDecide, AdmitTouch, AdmitFails
<1>2. UNCHANGED rows => Kept
  BY DEF RowInv, TableOK, Kept, SameSession
<1>3. CASE StartAdmit(w) \/ AdmitDecide(w) \/ AdmitFails(w)
  <2>1. UNCHANGED rows
    BY <1>3 DEF StartAdmit, AdmitDecide, AdmitFails, stores
  <2>2. \A u \in Workers : pc'[u] \in {"decide", "touch"} /\ req'[u].row # NoRow =>
           /\ pc[u] \in {"decide", "touch"}
           /\ req'[u].row = req[u].row /\ req'[u].sid = req[u].sid
    <3>1. \A u \in Workers \ {w} : pc'[u] = pc[u] /\ req'[u] = req[u]
      BY <1>3 DEF StartAdmit, AdmitDecide, AdmitFails, Begin, Decline, Finish, Goto, TypeInv, TypeOK
    <3>2. CASE StartAdmit(w) \/ AdmitFails(w)
      <4>1. pc'[w] \notin {"decide", "touch"}
        BY <3>2 DEF StartAdmit, AdmitFails, Begin, Decline, Finish, TypeInv, TypeOK
      <4> QED
        BY <3>1, <4>1
    <3>3. CASE AdmitDecide(w)
      <4>1. pc[w] = "decide" /\ req[w] \in Request
        BY <3>3 DEF AdmitDecide, TypeInv, ServedOK
      <4>2. CASE pc'[w] = "idle"
        BY <3>1, <4>2
      <4>3. CASE pc'[w] # "idle"
        <5>1. PICK now : req' = [req EXCEPT ![w].now = now]
          BY <3>3, <4>3 DEF AdmitDecide, Finish, TypeInv, TypeOK
        <5>2. req'[w].row = req[w].row /\ req'[w].sid = req[w].sid
          BY <4>1, <5>1 DEF Request, TypeInv, TypeOK
        <5> QED
          BY <3>1, <4>1, <5>2
      <4> QED
        BY <4>2, <4>3
    <3> QED
      BY <1>3, <3>2, <3>3
  <2> QED
    BY <1>1, <1>2, <2>1, <2>2, KeptOK
<1>4. CASE AdmitLoad(w)
  <2>1. /\ req[w] \in Request /\ req[w].sid \in Sids
        /\ UNCHANGED rows /\ pc'[w] = "decide"
        /\ req'[w].row = rows[req[w].sid] /\ req'[w].sid = req[w].sid
    <3>1. req[w] \in Request /\ req[w].sid \in Sids
      BY <1>4 DEF AdmitLoad, TypeInv, ServedOK, Request, AllOps, StepsOf
    <3> QED
      BY <1>4, <3>1 DEF AdmitLoad, Goto, Request, stores, TypeInv, TypeOK
  <2>2. \A u \in Workers \ {w} : pc'[u] = pc[u] /\ req'[u] = req[u]
    BY <1>4 DEF AdmitLoad, Goto, TypeInv, TypeOK
  <2>3. LoadedOK(w)'
    BY <1>1, <2>1 DEF RowInv, TableOK, LoadedOK, SameSession, TypeInv, TypeOK
  <2>4. \A u \in Workers \ {w} : LoadedOK(u)'
    BY <1>1, <2>1, <2>2 DEF RowInv, LoadedOK
  <2> QED
    BY <1>1, <2>1, <2>3, <2>4 DEF RowInv, TableOK
<1>5. CASE AdmitTouch(w)
  <2>1. /\ req[w] \in Request /\ req[w].sid \in Sids /\ req[w].row \in Row
        /\ req[w].now \in Int /\ req[w].row.created \in Int
        /\ SameSession(req[w].row, rows[req[w].sid])
    BY <1>5, SignInAssumption DEF AdmitTouch, TypeInv, ServedOK, Request, Row, AllOps, StepsOf,
                                  RowInv, LoadedOK
  <2>2. Kept
    <3>1. CASE rows' = [rows EXCEPT ![req[w].sid].expires =
                           RenewedExpiry(req[w].now, req[w].row.created)]
               /\ rows[req[w].sid] # NoRow
      <4> DEFINE sid == req[w].sid
      <4>1. /\ rows[sid] \in Row /\ req[w].row # NoRow
            /\ rows[sid].created = req[w].row.created
        BY <2>1, <3>1, SignInAssumption DEF TypeInv, TypeOK, SameSession
      <4>2. /\ rows'[sid].user = rows[sid].user /\ rows'[sid].created = rows[sid].created
            /\ rows'[sid].expires = RenewedExpiry(req[w].now, req[w].row.created)
        BY <2>1, <3>1, <4>1 DEF TypeInv, TypeOK, Row
      <4>3. WithinCap(rows'[sid]) /\ SameSession(rows'[sid], rows[sid]) /\ rows[sid] # NoRow
        BY <2>1, <3>1, <4>1, <4>2, RenewalWithinCap DEF WithinCap, SameSession
      <4>4. \A s \in Sids \ {sid} : rows'[s] = rows[s]
        BY <3>1 DEF TypeInv, TypeOK
      <4> HIDE DEF sid
      <4> QED
        BY <4>3, <4>4 DEF Kept, SameSession, RowInv, TableOK
    <3> QED
      BY <1>2, <1>5, <3>1 DEF AdmitTouch
  <2>3. /\ pc'[w] = "idle"
        /\ \A u \in Workers \ {w} : pc'[u] = pc[u] /\ req'[u] = req[u]
    BY <1>5 DEF AdmitTouch, Finish, TypeInv, TypeOK
  <2> QED
    BY <1>1, <2>2, <2>3, KeptOK
<1> QED
  BY <1>3, <1>4, <1>5 DEF AdmissionStep

LEMMA EnterRows ==
    ASSUME TypeInv, RowInv, NEW w \in Workers, Enter(w)
    PROVE  RowInv'
<1>1. UNCHANGED <<rows, minted, req>> /\ saved'.rows = rows
  BY DEF Enter, stores
<1>2. TableOK(rows)' /\ TableOK(saved.rows)'
  BY <1>1 DEF RowInv, TableOK, SameSession
<1>3. FirstStep(req[w].op) \notin {"decide", "touch"}
  <2>1. req[w].op \in AllOps \ {"admit"}
    BY DEF Enter, TypeInv, ServedOK, Request, StepsOf
  <2> QED
    BY <2>1 DEF FirstStep, AllOps
<1>4. \A u \in Workers : pc'[u] \in {"decide", "touch"} => pc[u] = pc'[u]
  BY <1>3 DEF Enter, Goto, TypeInv, TypeOK
<1>5. \A u \in Workers : LoadedOK(u)'
  BY <1>1, <1>4 DEF RowInv, LoadedOK
<1> QED
  BY <1>2, <1>5 DEF RowInv

LEMMA LeaveRows ==
    ASSUME TypeInv, RowInv, NEW w \in Workers, Exit(w) \/ Raise(w) \/ UsernameTaken(w)
    PROVE  RowInv'
<1>1. /\ lock = w /\ lock # NoWorker /\ lock' = NoWorker /\ UNCHANGED minted
  BY SignInAssumption DEF Exit, Raise, UsernameTaken, Leave, InBlock, TypeInv, EntryOK
<1>2. /\ pc'[w] = "idle"
      /\ \A u \in Workers \ {w} : pc'[u] = pc[u] /\ req'[u] = req[u]
  BY DEF Exit, Raise, UsernameTaken, Leave, Finish, TypeInv, TypeOK
<1>3. rows' = rows \/ rows' = saved.rows
  BY DEF Exit, Raise, UsernameTaken, RestoreOrKeep, stores
<1>4. TableOK(rows)'
  BY <1>1, <1>3 DEF RowInv, TableOK, SameSession
<1>5. \A u \in Workers : LoadedOK(u)'
  BY <1>1, <1>2, <1>3 DEF RowInv, LoadedOK
<1> QED
  BY <1>1, <1>4, <1>5 DEF RowInv

\* The steps inside a block that do not leave it.
InsideStep(w) ==
    \/ AdmitAccount(w) \/ AuditRole(w) \/ EndReplaced(w) \/ Prune(w) \/ Create(w)
    \/ LogoutLoad(w) \/ LogoutDelete(w) \/ EndAll(w) \/ AuditLogout(w) \/ Lookup(w)

\* What they do to the sessions: end some of them, or create one of a new id.
LEMMA InsideStepRows ==
    ASSUME TypeInv, NEW w \in Workers, InsideStep(w)
    PROVE  /\ \/ UNCHANGED <<rows, minted>>
              \/ \E sids : rows' = Without(sids) /\ UNCHANGED minted
              \/ \E sid \in Sids \ minted :
                    /\ rows' = [rows EXCEPT ![sid] =
                                  [user |-> req[w].subject, created |-> req[w].now,
                                   expires |-> RenewedExpiry(req[w].now, req[w].now)]]
                    /\ minted' = minted \cup {sid}
           /\ UNCHANGED <<issued, lock, saved>>
           /\ pc[w] \in InBlock /\ pc'[w] \in InBlock
           /\ \A u \in Workers \ {w} : pc'[u] = pc[u] /\ req'[u] = req[u]
<1>1. UNCHANGED <<issued, lock, saved>> /\ pc[w] \in InBlock
  BY DEF InsideStep, AdmitAccount, AuditRole, EndReplaced, Prune, Create, LogoutLoad,
         LogoutDelete, EndAll, AuditLogout, Lookup, InBlock
<1>2. pc'[w] \in InBlock
  BY DEF InsideStep, AdmitAccount, AuditRole, EndReplaced, Prune, Create, LogoutLoad,
         LogoutDelete, EndAll, AuditLogout, Lookup, InBlock, Goto, AfterAccount, TypeInv, TypeOK
<1>3. \A u \in Workers \ {w} : pc'[u] = pc[u] /\ req'[u] = req[u]
  BY DEF InsideStep, AdmitAccount, AuditRole, EndReplaced, Prune, Create, LogoutLoad,
         LogoutDelete, EndAll, AuditLogout, Lookup, Goto, TypeInv, TypeOK
<1>4. CASE Create(w)
  BY <1>1, <1>2, <1>3, <1>4 DEF Create
<1>5. CASE ~Create(w)
  <2>1. UNCHANGED minted
    BY <1>5 DEF InsideStep, AdmitAccount, AuditRole, EndReplaced, Prune, LogoutLoad,
                LogoutDelete, EndAll, AuditLogout, Lookup
  <2>2. rows' = rows \/ \E sids : rows' = Without(sids)
    BY <1>5 DEF InsideStep, AdmitAccount, AuditRole, EndReplaced, Prune, LogoutLoad,
                LogoutDelete, EndAll, AuditLogout, Lookup, stores
  <2> QED
    BY <1>1, <1>2, <1>3, <2>1, <2>2
<1> QED
  BY <1>4, <1>5

LEMMA InsideRows ==
    ASSUME TypeInv, RowInv, TypeInv', NEW w \in Workers, InsideStep(w)
    PROVE  RowInv'
<1>1. /\ UNCHANGED <<issued, lock, saved>>
      /\ pc'[w] \notin {"decide", "touch"}
      /\ \A u \in Workers \ {w} : pc'[u] = pc[u] /\ req'[u] = req[u]
  BY InsideStepRows DEF InBlock
<1>2. Kept /\ minted \subseteq minted'
  <2>1. CASE UNCHANGED <<rows, minted>>
    BY <2>1 DEF RowInv, TableOK, Kept, SameSession
  <2>2. CASE UNCHANGED minted /\ \E sids : rows' = Without(sids)
    BY <2>2 DEF RowInv, TableOK, Kept, SameSession, Without
  <2>3. ASSUME NEW sid \in Sids \ minted,
               rows' = [rows EXCEPT ![sid] =
                          [user |-> req[w].subject, created |-> req[w].now,
                           expires |-> RenewedExpiry(req[w].now, req[w].now)]],
               minted' = minted \cup {sid}
        PROVE  Kept /\ minted \subseteq minted'
    <3>1. req[w].now \in Int
      BY InsideStepRows, ServedInBlock DEF Request
    <3>2. /\ rows'[sid].created = req[w].now
          /\ rows'[sid].expires = RenewedExpiry(req[w].now, req[w].now)
      BY <2>3 DEF TypeInv, TypeOK
    <3>3. WithinCap(rows'[sid])
      BY <3>1, <3>2, RenewalWithinCap DEF WithinCap
    <3>4. \A s \in Sids \ {sid} : rows'[s] = rows[s]
      BY <2>3 DEF TypeInv, TypeOK
    <3> QED
      BY <2>3, <3>3, <3>4 DEF RowInv, TableOK, Kept, SameSession
  <2> QED
    BY <2>1, <2>2, <2>3, InsideStepRows
<1> QED
  BY <1>1, <1>2, KeptOK

LEMMA NextRowInv == TypeInv /\ RowInv /\ [Next]_vars /\ TypeInv' => RowInv'
<1> SUFFICES ASSUME TypeInv, RowInv, [Next]_vars, TypeInv' PROVE RowInv'
  OBVIOUS
<1>1. ASSUME NEW w \in Workers, AdmissionStep(w) PROVE RowInv'
  BY <1>1, AdmissionRows
<1>2. ASSUME NEW w \in Workers, StartStep(w) PROVE RowInv'
  <2>1. UNCHANGED <<time, stores, minted, issued, lock, saved>>
    BY <1>2 DEF StartStep, StartCallback, StartLogout, StartBackchannel, StartToken, StartResource
  <2>2. \A u \in Workers : pc'[u] \in {"decide", "touch"} => pc'[u] = pc[u] /\ req'[u] = req[u]
    BY <1>2 DEF StartStep, StartCallback, StartLogout, StartBackchannel, StartToken,
                StartResource, Begin, Decline, TypeInv, TypeOK
  <2> QED
    BY <2>1, <2>2 DEF stores, RowInv, TableOK, LoadedOK
<1>3. ASSUME NEW w \in Workers, Enter(w) PROVE RowInv'
  BY <1>3, EnterRows
<1>4. ASSUME NEW w \in Workers, BlockStep(w) PROVE RowInv'
  BY <1>4, InsideRows, LeaveRows DEF BlockStep, InsideStep
<1>5. CASE HostEnds
  <2>1. Kept
    BY <1>5 DEF HostEnds, RowInv, TableOK, Kept, SameSession, Without
  <2>2. UNCHANGED <<minted, lock, saved, pc, req>>
    BY <1>5 DEF HostEnds
  <2> QED
    BY <2>1, <2>2, KeptOK
<1>6. CASE Tick \/ UNCHANGED vars
  BY <1>6 DEF Tick, vars, stores, RowInv, TableOK, LoadedOK
<1> QED
  BY <1>1, <1>2, <1>3, <1>4, <1>5, <1>6 DEF Next

LEMMA RowInvariance == Spec => [](TypeInv /\ RowInv)
<1>1. Init => RowInv
  BY DEF Init, RowInv, TableOK, LoadedOK
<1> QED
  BY <1>1, TypeInvariance, NextRowInv, PTL DEF Spec

\* No stored session outlives absolute_max_age_seconds from its creation, however
\* stale the row or the clock a renewal was computed from (_renewed_expiry).
THEOREM SignIn_RowsWithinCap == Spec => []RowsWithinCap
<1>1. RowInv => RowsWithinCap
  BY DEF RowInv, TableOK, WithinCap, RowsWithinCap
<1> QED
  BY <1>1, RowInvariance, PTL

-----------------------------------------------------------------------------
(* Admitted only while stored                                              *)

\* Only touch's answer admits a request.
LEMMA AdmittedByTouch ==
    ASSUME TypeInv, [Next]_vars, NEW w \in Workers,
           answer'[w] = "admitted", pc[w] # "idle", pc'[w] = "idle"
    PROVE  AdmitTouch(w) /\ rows[req[w].sid] # NoRow
<1>1. \A u \in Workers : (AdmissionStep(u) \/ StartStep(u) \/ Enter(u) \/ BlockStep(u)) => u = w
  <2> SUFFICES ASSUME NEW u \in Workers, u # w,
                      AdmissionStep(u) \/ StartStep(u) \/ Enter(u) \/ BlockStep(u)
               PROVE  pc'[w] = pc[w]
    BY SMT
  <2>1. CASE AdmissionStep(u)
    BY <2>1 DEF AdmissionStep, StartAdmit, AdmitLoad, AdmitDecide, AdmitTouch, AdmitFails, Begin,
                Decline, Goto, Finish, TypeInv, TypeOK
  <2>2. CASE StartStep(u)
    BY <2>2 DEF StartStep, StartCallback, StartLogout, StartBackchannel, StartToken,
                StartResource, Begin, Decline, TypeInv, TypeOK
  <2>3. CASE Enter(u)
    BY <2>3 DEF Enter, Goto, TypeInv, TypeOK
  <2>4. CASE InsideStep(u)
    BY <2>4, InsideStepRows
  <2>5. CASE Exit(u) \/ Raise(u) \/ UsernameTaken(u)
    BY <2>5 DEF Exit, Raise, UsernameTaken, Leave, Finish, TypeInv, TypeOK
  <2> QED
    BY <2>1, <2>2, <2>3, <2>4, <2>5 DEF BlockStep, InsideStep
<1>2. ~HostEnds /\ ~Tick /\ ~UNCHANGED vars
  BY DEF HostEnds, Tick, vars
<1>3. AdmissionStep(w) \/ StartStep(w) \/ Enter(w) \/ BlockStep(w)
  BY <1>1, <1>2 DEF Next
<1>4. ~StartStep(w)
  BY DEF StartStep, StartCallback, StartLogout, StartBackchannel, StartToken, StartResource,
         Begin, Decline
<1>5. ~Enter(w)
  <2>1. Enter(w) => FirstStep(req[w].op) # "idle"
    <3>1. Enter(w) => req[w].op \in AllOps \ {"admit"}
      BY DEF Enter, TypeInv, ServedOK, Request, StepsOf
    <3> QED
      BY <3>1 DEF FirstStep, AllOps
  <2> QED
    BY <2>1 DEF Enter, Goto, TypeInv, TypeOK
<1>6. ~BlockStep(w)
  <2>1. ~InsideStep(w)
    BY InsideStepRows DEF InBlock
  <2>2. ~Exit(w)
    <3>1. Exit(w) => Outcome(req[w]) # "admitted"
      <4>1. Exit(w) => req[w].op \in AllOps \ {"admit"}
        BY ServedInBlock DEF Exit, InBlock
      <4> QED
        BY <4>1 DEF Outcome, AllOps
    <3> QED
      BY <3>1 DEF Exit, Finish, TypeInv, TypeOK
  <2>3. ~Raise(w) /\ ~UsernameTaken(w)
    BY DEF Raise, UsernameTaken, Leave, Finish, TypeInv, TypeOK
  <2> QED
    BY <2>1, <2>2, <2>3 DEF BlockStep, InsideStep
<1>7. AdmissionStep(w)
  BY <1>3, <1>4, <1>5, <1>6
<1>8. ~StartAdmit(w) /\ ~AdmitLoad(w) /\ ~AdmitDecide(w) /\ ~AdmitFails(w)
  BY DEF StartAdmit, AdmitLoad, AdmitDecide, AdmitFails, Begin, Decline, Goto, Finish,
         TypeInv, TypeOK
<1>9. AdmitTouch(w)
  BY <1>7, <1>8 DEF AdmissionStep
<1> QED
  BY <1>9 DEF AdmitTouch, Finish, TypeInv, TypeOK

\* admit_session admits a request only as the owner of a session that is still
\* stored when it is admitted: a deletion between load and touch is never missed.
THEOREM SignIn_AdmittedWhileStored == Spec => AdmittedWhileStored
<1> DEFINE Admitted ==
      \A w \in Workers :
          answer'[w] = "admitted" /\ pc[w] # "idle" /\ pc'[w] = "idle" =>
              LET sid == req[w].sid
              IN  /\ rows[sid] # NoRow
                  /\ rows'[sid].user = req[w].row.user
<1>1. ASSUME TypeInv, RowInv, [Next]_vars, NEW w \in Workers,
             answer'[w] = "admitted", pc[w] # "idle", pc'[w] = "idle"
      PROVE  rows[req[w].sid] # NoRow /\ rows'[req[w].sid].user = req[w].row.user
  <2>1. AdmitTouch(w) /\ rows[req[w].sid] # NoRow
    BY <1>1, AdmittedByTouch
  <2>2. /\ req[w].sid \in Sids /\ req[w].row # NoRow
        /\ rows[req[w].sid].user = req[w].row.user
    BY <1>1, <2>1, SignInAssumption DEF AdmitTouch, TypeInv, ServedOK, Request, AllOps, StepsOf,
                                        RowInv, LoadedOK, SameSession
  <2>3. rows'[req[w].sid].user = rows[req[w].sid].user
    <3>1. rows[req[w].sid] \in Row
      BY <1>1, <2>1, <2>2 DEF TypeInv, TypeOK
    <3> QED
      BY <1>1, <2>1, <2>2, <3>1 DEF AdmitTouch, TypeInv, TypeOK, Row
  <2> QED
    BY <2>1, <2>2, <2>3
<1>2. TypeInv /\ RowInv /\ [Next]_vars => [Admitted]_vars
  BY <1>1
<1> QED
  BY <1>2, RowInvariance, PTL DEF Spec, AdmittedWhileStored

-----------------------------------------------------------------------------
(* Ended for good                                                          *)

\* While an entry is open, it and the requests beside it only end handed-out
\* sessions: what they ended and a failure restores was stored before.
EndedInv ==
    RollsBack /\ lock # NoWorker => \A s \in issued : saved.rows[s] = NoRow => rows[s] = NoRow

EndedStep == \A s \in issued : Durable.rows[s] = NoRow => Durable'.rows[s] = NoRow

LEMMA EnterEnded ==
    ASSUME TypeInv, EndedInv, NEW w \in Workers, Enter(w)
    PROVE  EndedInv' /\ EndedStep
<1>1. UNCHANGED rows /\ saved'.rows = rows /\ lock = NoWorker
  BY DEF Enter, stores
<1> QED
  BY <1>1 DEF EndedInv, EndedStep, Durable

LEMMA LeaveEnded ==
    ASSUME TypeInv, EndedInv, NEW w \in Workers, Exit(w) \/ Raise(w) \/ UsernameTaken(w)
    PROVE  EndedInv' /\ EndedStep
<1>1. lock = w /\ lock # NoWorker /\ lock' = NoWorker
  BY SignInAssumption DEF Exit, Raise, UsernameTaken, Leave, InBlock, TypeInv, EntryOK
<1>2. rows' = rows \/ (RollsBack /\ rows' = saved.rows)
  BY DEF Exit, Raise, UsernameTaken, RestoreOrKeep, stores
<1> QED
  BY <1>1, <1>2 DEF EndedInv, EndedStep, Durable

\* Every other step leaves the entry as it is and revives nothing handed out.
LEMMA RevivesNothing ==
    ASSUME EndedInv, UNCHANGED <<lock, saved, issued>>,
           \A s \in issued : rows[s] = NoRow => rows'[s] = NoRow
    PROVE  EndedInv' /\ EndedStep
BY DEF EndedInv, EndedStep, Durable

LEMMA NextEnded == TypeInv /\ EndedInv /\ [Next]_vars => EndedInv' /\ EndedStep
<1> SUFFICES ASSUME TypeInv, EndedInv, [Next]_vars PROVE EndedInv' /\ EndedStep
  OBVIOUS
<1>1. issued \subseteq minted /\ minted \subseteq Sids
  BY DEF TypeInv, TypeOK
<1>2. ASSUME NEW w \in Workers, AdmissionStep(w) PROVE EndedInv' /\ EndedStep
  <2>1. UNCHANGED <<lock, saved, issued>>
    BY <1>2 DEF AdmissionStep, StartAdmit, AdmitLoad, AdmitDecide, AdmitTouch, AdmitFails
  <2>2. \A s \in issued : rows[s] = NoRow => rows'[s] = NoRow
    BY <1>1, <1>2 DEF AdmissionStep, StartAdmit, AdmitLoad, AdmitDecide, AdmitTouch, AdmitFails,
                      stores, TypeInv, TypeOK
  <2> QED
    BY <2>1, <2>2, RevivesNothing
<1>3. ASSUME NEW w \in Workers, StartStep(w) PROVE EndedInv' /\ EndedStep
  <2>1. UNCHANGED <<time, stores, minted, issued, lock, saved>>
    BY <1>3 DEF StartStep, StartCallback, StartLogout, StartBackchannel, StartToken, StartResource
  <2> QED
    BY <2>1, RevivesNothing DEF stores
<1>4. ASSUME NEW w \in Workers, Enter(w) PROVE EndedInv' /\ EndedStep
  BY <1>4, EnterEnded
<1>5. ASSUME NEW w \in Workers, InsideStep(w) PROVE EndedInv' /\ EndedStep
  <2>1. UNCHANGED <<lock, saved, issued>>
    BY <1>5, InsideStepRows
  <2>2. \A s \in issued : rows[s] = NoRow => rows'[s] = NoRow
    BY <1>1, <1>5, InsideStepRows DEF Without, TypeInv, TypeOK
  <2> QED
    BY <2>1, <2>2, RevivesNothing
<1>6. ASSUME NEW w \in Workers, Exit(w) \/ Raise(w) \/ UsernameTaken(w)
      PROVE  EndedInv' /\ EndedStep
  BY <1>6, LeaveEnded
<1>7. CASE HostEnds
  BY <1>1, <1>7, RevivesNothing DEF HostEnds, Without
<1>8. CASE Tick \/ UNCHANGED vars
  BY <1>8, RevivesNothing DEF Tick, vars, stores
<1> QED
  BY <1>2, <1>3, <1>4, <1>5, <1>6, <1>7, <1>8 DEF Next, BlockStep, InsideStep

\* A session whose cookie was handed out and that was ended, by anyone, is never
\* stored again: neither a renewal racing the deletion nor a failing entry's
\* rollback brings it back.
THEOREM SignIn_EndedStaysEnded == Spec => EndedStaysEnded
<1>1. Init => EndedInv
  BY DEF Init, EndedInv
<1>2. TypeInv /\ EndedInv /\ [Next]_vars => EndedInv' /\ [EndedStep]_vars
  BY NextEnded
<1> QED
  BY <1>1, <1>2, TypeInvariance, PTL DEF Spec, EndedStaysEnded, EndedStep

-----------------------------------------------------------------------------
(* Clocks that differ                                                      *)

\* No stored instant is further ahead than the fastest clock allows.
SkewedRow(row) ==
    row.created <= time + MaxSkew /\ row.expires <= time + MaxSkew + IdleSeconds

SkewedTable(table) == \A s \in Sids : table[s] # NoRow => SkewedRow(table[s])

\* Nor is an instant a request has read and is about to store.
ReadOK(w) == pc[w] \in {"touch", "prune", "create"} => req[w].now <= time + MaxSkew

SkewInv ==
    /\ SkewedTable(rows)
    /\ lock # NoWorker => SkewedTable(saved.rows)
    /\ \A w \in Workers : ReadOK(w)

\* A renewal reaches at most one idle window past the clock it was computed from.
LEMMA RenewalWithinIdle ==
    ASSUME NEW now \in Int, NEW created \in Int
    PROVE  RenewedExpiry(now, created) <= now + IdleSeconds
BY LifetimeAssumption DEF RenewedExpiry, Lesser

\* A clock reading is an instant, and at most MaxSkew ahead of the time.
LEMMA ReadingOK ==
    ASSUME TypeInv, NEW now \in Readings
    PROVE  now \in Int /\ now <= time + MaxSkew
BY SignInAssumption DEF Readings, TypeInv, TypeOK

\* admit_session renews from the instant it read, so no row gets further ahead.
LEMMA AdmissionSkew ==
    ASSUME TypeInv, SkewInv, NEW w \in Workers, AdmissionStep(w)
    PROVE  SkewInv'
<1>1. UNCHANGED <<time, lock, saved>>
  BY DEF AdmissionStep, StartAdmit, AdmitLoad, AdmitDecide, AdmitTouch, AdmitFails
<1>2. \A u \in Workers \ {w} : pc'[u] = pc[u] /\ req'[u] = req[u]
  BY DEF AdmissionStep, StartAdmit, AdmitLoad, AdmitDecide, AdmitTouch, AdmitFails, Begin, Decline,
         Goto, Finish, TypeInv, TypeOK
<1>3. ReadOK(w)'
  <2> SUFFICES ASSUME pc'[w] \in {"touch", "prune", "create"}
               PROVE  req'[w].now <= time' + MaxSkew
    BY DEF ReadOK
  <2>1. AdmitDecide(w) \/ (UNCHANGED <<pc, req>>)
    BY DEF AdmissionStep, StartAdmit, AdmitLoad, AdmitTouch, AdmitFails, Begin, Decline, Goto,
           Finish, TypeInv, TypeOK
  <2>2. CASE AdmitDecide(w)
    <3>1. PICK now \in Readings : req' = [req EXCEPT ![w].now = now]
      BY <2>2 DEF AdmitDecide, Finish, TypeInv, TypeOK
    <3>2. req[w] \in Request
      BY <2>2 DEF AdmitDecide, TypeInv, ServedOK
    <3> QED
      BY <1>1, <3>1, <3>2, ReadingOK DEF Request, TypeInv, TypeOK
  <2>3. CASE UNCHANGED <<pc, req>>
    BY <1>1, <2>3 DEF SkewInv, ReadOK
  <2> QED
    BY <2>1, <2>2, <2>3
<1>4. SkewedTable(rows)'
  <2>1. CASE UNCHANGED rows
    BY <1>1, <2>1 DEF SkewInv, SkewedTable, SkewedRow
  <2>2. CASE AdmitTouch(w) /\ rows' # rows
    <3> DEFINE sid == req[w].sid
    <3>1. /\ sid \in Sids /\ req[w].now \in Int /\ req[w].row.created \in Int
          /\ req[w].now <= time + MaxSkew
      BY <2>2 DEF AdmitTouch, TypeInv, ServedOK, Request, Row, AllOps, StepsOf, SkewInv, ReadOK
    <3>2. rows[sid] \in Row /\ rows[sid] # NoRow
      BY <2>2, <3>1 DEF AdmitTouch, TypeInv, TypeOK
    <3>3. /\ rows'[sid].created = rows[sid].created
          /\ rows'[sid].expires = RenewedExpiry(req[w].now, req[w].row.created)
          /\ \A s \in Sids \ {sid} : rows'[s] = rows[s]
      BY <2>2, <3>1, <3>2 DEF AdmitTouch, TypeInv, TypeOK, Row
    <3>4. RenewedExpiry(req[w].now, req[w].row.created) <= time + MaxSkew + IdleSeconds
      <4>1. /\ RenewedExpiry(req[w].now, req[w].row.created) <= req[w].now + IdleSeconds
            /\ RenewedExpiry(req[w].now, req[w].row.created) \in Int
        BY <3>1, RenewalWithinIdle, RenewedExpiryInt
      <4> QED
        BY <3>1, <4>1, LifetimeAssumption, SignInAssumption DEF TypeInv, TypeOK
    <3>5. SkewedRow(rows[sid])
      BY <3>1, <3>2 DEF SkewInv, SkewedTable
    <3> HIDE DEF sid
    <3> QED
      BY <1>1, <3>3, <3>4, <3>5 DEF SkewInv, SkewedTable, SkewedRow
  <2> QED
    BY <2>1, <2>2 DEF AdmissionStep, StartAdmit, AdmitLoad, AdmitDecide, AdmitFails, stores
<1>5. lock' # NoWorker => SkewedTable(saved.rows)'
  BY <1>1 DEF SkewInv, SkewedTable, SkewedRow
<1>6. \A u \in Workers \ {w} : ReadOK(u)'
  BY <1>1, <1>2 DEF SkewInv, ReadOK
<1> QED
  BY <1>3, <1>4, <1>5, <1>6 DEF SkewInv

\* The steps of an entry store only instants they read, or take rows away.
LEMMA InsideSkew ==
    ASSUME TypeInv, SkewInv, NEW w \in Workers, InsideStep(w)
    PROVE  SkewInv'
<1>1. /\ UNCHANGED <<time, lock, saved>>
      /\ \A u \in Workers \ {w} : pc'[u] = pc[u] /\ req'[u] = req[u]
  <2>1. UNCHANGED time
    BY DEF InsideStep, AdmitAccount, AuditRole, EndReplaced, Prune, Create, LogoutLoad,
           LogoutDelete, EndAll, AuditLogout, Lookup
  <2> QED
    BY <2>1, InsideStepRows
<1>2. pc[w] \in InBlock /\ req[w] \in Request
  BY InsideStepRows, ServedInBlock
<1>3. ReadOK(w)'
  <2>1. CASE EndReplaced(w)
    <3>1. PICK now \in Readings : req' = [req EXCEPT ![w].now = now]
      BY <2>1 DEF EndReplaced
    <3> QED
      BY <1>1, <1>2, <3>1, ReadingOK DEF ReadOK, Request, TypeInv, TypeOK
  <2>2. CASE Prune(w)
    BY <1>1, <2>2 DEF Prune, SkewInv, ReadOK, Goto, TypeInv, TypeOK
  <2>3. CASE ~EndReplaced(w) /\ ~Prune(w)
    <3>1. pc'[w] \notin {"touch", "prune", "create"}
      BY <2>3 DEF InsideStep, AdmitAccount, AuditRole, Create, LogoutLoad, LogoutDelete,
                  EndAll, AuditLogout, Lookup, Goto, AfterAccount, TypeInv, TypeOK
    <3> QED
      BY <3>1 DEF ReadOK
  <2> QED
    BY <2>1, <2>2, <2>3
<1>4. SkewedTable(rows)'
  <2>1. CASE UNCHANGED rows
    BY <1>1, <2>1 DEF SkewInv, SkewedTable, SkewedRow
  <2>2. CASE \E sids : rows' = Without(sids)
    BY <1>1, <2>2 DEF SkewInv, SkewedTable, SkewedRow, Without
  <2>3. CASE Create(w)
    <3>1. PICK sid \in Sids \ minted : rows' = [rows EXCEPT ![sid] =
             [user |-> req[w].subject, created |-> req[w].now,
              expires |-> RenewedExpiry(req[w].now, req[w].now)]]
      BY <2>3 DEF Create
    <3>2. /\ rows'[sid].created = req[w].now
          /\ rows'[sid].expires = RenewedExpiry(req[w].now, req[w].now)
          /\ \A s \in Sids \ {sid} : rows'[s] = rows[s]
      BY <3>1 DEF TypeInv, TypeOK
    <3>3. req[w].now \in Int /\ req[w].now <= time + MaxSkew
      BY <1>2, <2>3 DEF Create, SkewInv, ReadOK, Request
    <3>4. RenewedExpiry(req[w].now, req[w].now) <= time + MaxSkew + IdleSeconds
      <4>1. /\ RenewedExpiry(req[w].now, req[w].now) <= req[w].now + IdleSeconds
            /\ RenewedExpiry(req[w].now, req[w].now) \in Int
        BY <3>3, RenewalWithinIdle, RenewedExpiryInt
      <4> QED
        BY <3>3, <4>1, LifetimeAssumption, SignInAssumption DEF TypeInv, TypeOK
    <3> QED
      BY <1>1, <3>2, <3>3, <3>4 DEF SkewInv, SkewedTable, SkewedRow
  <2> QED
    BY <2>1, <2>2, <2>3 DEF InsideStep, AdmitAccount, AuditRole, EndReplaced, Prune, LogoutLoad,
                            LogoutDelete, EndAll, AuditLogout, Lookup, stores
<1>5. lock' # NoWorker => SkewedTable(saved.rows)'
  BY <1>1 DEF SkewInv, SkewedTable, SkewedRow
<1>6. \A u \in Workers \ {w} : ReadOK(u)'
  BY <1>1 DEF SkewInv, ReadOK
<1> QED
  BY <1>3, <1>4, <1>5, <1>6 DEF SkewInv

\* SkewInv is inductive: time only moves on, and a failed entry restores rows
\* that were no further ahead.
LEMMA NextSkewInv == TypeInv /\ SkewInv /\ [Next]_vars => SkewInv'
<1> SUFFICES ASSUME TypeInv, SkewInv, [Next]_vars PROVE SkewInv'
  OBVIOUS
<1>1. ASSUME NEW w \in Workers, AdmissionStep(w) PROVE SkewInv'
  BY <1>1, AdmissionSkew
<1>2. ASSUME NEW w \in Workers, StartStep(w) PROVE SkewInv'
  <2>1. UNCHANGED <<time, stores, minted, issued, lock, saved>>
    BY <1>2 DEF StartStep, StartCallback, StartLogout, StartBackchannel, StartToken, StartResource
  <2>2. \A u \in Workers : pc'[u] \in {"touch", "prune", "create"} =>
          pc'[u] = pc[u] /\ req'[u] = req[u]
    <3>1. ASSUME NEW op, NEW refusal, Decline(w, op, refusal)
          PROVE  \A u \in Workers : pc'[u] = pc[u] /\ req'[u] = req[u]
      BY <3>1 DEF Decline
    <3>2. ASSUME NEW request, Begin(w, request, "enter"), NEW u \in Workers
          PROVE  pc'[u] = "enter" \/ (pc'[u] = pc[u] /\ req'[u] = req[u])
      <4>1. DOMAIN pc = Workers /\ DOMAIN req = Workers
        BY DEF TypeInv, TypeOK
      <4>2. CASE u = w
        BY <3>2, <4>1, <4>2 DEF Begin
      <4>3. CASE u # w
        BY <3>2, <4>1, <4>3 DEF Begin
      <4> QED
        BY <4>2, <4>3
    <3> QED
      BY <1>2, <3>1, <3>2 DEF StartStep, StartCallback, StartLogout, StartBackchannel, StartToken,
                              StartResource
  <2> QED
    BY <2>1, <2>2 DEF stores, SkewInv, SkewedTable, SkewedRow, ReadOK
<1>3. ASSUME NEW w \in Workers, Enter(w) PROVE SkewInv'
  <2>1. UNCHANGED <<time, rows, req>> /\ saved'.rows = rows
    BY <1>3 DEF Enter, stores
  <2>2. FirstStep(req[w].op) \notin {"touch", "prune", "create"}
    <3>1. req[w].op \in AllOps \ {"admit"}
      BY <1>3 DEF Enter, TypeInv, ServedOK, Request, StepsOf
    <3> QED
      BY <3>1 DEF FirstStep, AllOps
  <2>3. \A u \in Workers : pc'[u] \in {"touch", "prune", "create"} => pc'[u] = pc[u]
    BY <1>3, <2>2 DEF Enter, Goto, TypeInv, TypeOK
  <2> QED
    BY <2>1, <2>3 DEF SkewInv, SkewedTable, SkewedRow, ReadOK
<1>4. ASSUME NEW w \in Workers, InsideStep(w) PROVE SkewInv'
  BY <1>4, InsideSkew
<1>5. ASSUME NEW w \in Workers, Exit(w) \/ Raise(w) \/ UsernameTaken(w) PROVE SkewInv'
  <2>1. lock = w /\ lock # NoWorker /\ lock' = NoWorker /\ UNCHANGED time
    BY <1>5, SignInAssumption DEF Exit, Raise, UsernameTaken, Leave, InBlock, TypeInv, EntryOK
  <2>2. rows' = rows \/ rows' = saved.rows
    BY <1>5 DEF Exit, Raise, UsernameTaken, RestoreOrKeep, stores
  <2>3. /\ pc'[w] = "idle"
        /\ \A u \in Workers \ {w} : pc'[u] = pc[u] /\ req'[u] = req[u]
    BY <1>5 DEF Exit, Raise, UsernameTaken, Leave, Finish, TypeInv, TypeOK
  <2>4. SkewedTable(rows)'
    BY <2>1, <2>2 DEF SkewInv, SkewedTable, SkewedRow
  <2>5. \A u \in Workers : ReadOK(u)'
    BY <2>1, <2>3 DEF SkewInv, ReadOK
  <2> QED
    BY <2>1, <2>4, <2>5 DEF SkewInv
<1>6. CASE HostEnds
  BY <1>6 DEF HostEnds, SkewInv, SkewedTable, SkewedRow, ReadOK, Without
<1>7. CASE Tick
  <2>1. /\ time \in Int /\ MaxSkew \in Int /\ IdleSeconds \in Int /\ time' = time + 1
        /\ UNCHANGED <<rows, lock, saved, pc, req>>
    BY <1>7, LifetimeAssumption, SignInAssumption DEF Tick, stores, TypeInv, TypeOK
  <2>2. ASSUME NEW row \in Row, SkewedRow(row) PROVE SkewedRow(row)'
    BY <2>1, <2>2 DEF SkewedRow, Row
  <2>3. SkewedTable(rows)'
    BY <2>1, <2>2 DEF SkewInv, SkewedTable, TypeInv, TypeOK
  <2>4. lock # NoWorker => SkewedTable(saved.rows)'
    BY <2>1, <2>2 DEF SkewInv, SkewedTable, TypeInv, EntryOK, Snapshot
  <2>5. \A u \in Workers : ReadOK(u)'
    <3> SUFFICES ASSUME NEW u \in Workers, pc[u] \in {"touch", "prune", "create"}
                 PROVE  req[u].now <= time' + MaxSkew
      BY <2>1 DEF ReadOK
    <3>1. req[u].now \in Int /\ req[u].now <= time + MaxSkew
      BY DEF SkewInv, ReadOK, TypeInv, ServedOK, Request
    <3> QED
      BY <2>1, <3>1
  <2> QED
    BY <2>1, <2>3, <2>4, <2>5 DEF SkewInv
<1>8. CASE UNCHANGED vars
  BY <1>8 DEF vars, SkewInv, SkewedTable, SkewedRow, ReadOK
<1> QED
  BY <1>1, <1>2, <1>3, <1>4, <1>5, <1>6, <1>7, <1>8 DEF Next, BlockStep, InsideStep

\* While two clocks differ by no more than _EXPIRY_TOLERANCE, no node refuses a
\* stored session whose expiry its own clock has not passed, whatever other
\* nodes created or renewed in between (_is_admitted).
THEOREM SignIn_SkewTolerated == Spec => []SkewTolerated
<1>1. Init => SkewInv
  BY DEF Init, SkewInv, SkewedTable, ReadOK
<1>2. TypeInv /\ RowInv /\ SkewInv => SkewTolerated
  <2> SUFFICES ASSUME TypeInv, RowInv, SkewInv, 2 * MaxSkew <= ExpiryTolerance,
                      NEW s \in Sids, NEW now \in Readings, rows[s] # NoRow, now <= rows[s].expires
               PROVE  IsAdmitted(rows[s], now)
    BY DEF SkewTolerated
  <2>1. rows[s].created \in Int /\ rows[s].expires \in Int
    BY DEF TypeInv, TypeOK, Row
  <2>2. /\ time \in Int /\ MaxSkew \in Int /\ IdleSeconds \in Int /\ ExpiryTolerance \in Int
        /\ AbsoluteMaxAgeSeconds \in Int /\ now \in Int /\ time - MaxSkew <= now
    BY LifetimeAssumption, SignInAssumption DEF Readings, TypeInv, TypeOK
  <2>3. /\ rows[s].created <= time + MaxSkew /\ rows[s].expires <= time + MaxSkew + IdleSeconds
        /\ rows[s].expires <= rows[s].created + AbsoluteMaxAgeSeconds
    BY DEF SkewInv, SkewedTable, SkewedRow, RowInv, TableOK, WithinCap
  <2> QED
    BY <2>1, <2>2, <2>3 DEF IsAdmitted
<1> QED
  BY <1>1, <1>2, NextSkewInv, RowInvariance, PTL DEF Spec

-----------------------------------------------------------------------------
(* What each kind of step leaves alone                                     *)

\* The requests of the other workers go on as they were.
OthersAlone(w) ==
    \A u \in Workers \ {w} : pc'[u] = pc[u] /\ req'[u] = req[u] /\ answer'[u] = answer[u]

\* A request outside the transaction changes no more than a stored expiry, and
\* that only when the host's transaction lets it reach the store.
LEMMA OutsideFrame ==
    ASSUME TypeInv, NEW w \in Workers, AdmissionStep(w) \/ StartStep(w)
    PROVE  /\ UNCHANGED <<time, accounts, audit, minted, issued, lock, saved>>
           /\ OthersAlone(w)
           /\ pc[w] \notin InBlock /\ pc'[w] \notin InBlock
           /\ rows' # rows => AdmitTouch(w) /\ rows[req[w].sid] # NoRow /\ req[w].sid \in Sids
           /\ pc'[w] # "idle" => answer'[w] = "none" \/ (pc[w] # "idle" /\ answer'[w] = answer[w])
<1>1. /\ UNCHANGED <<time, accounts, audit, minted, issued, lock, saved>>
      /\ rows' # rows => AdmitTouch(w)
  BY DEF AdmissionStep, StartAdmit, AdmitLoad, AdmitDecide, AdmitTouch, AdmitFails, StartStep,
         StartCallback, StartLogout, StartBackchannel, StartToken, StartResource, stores
<1>2. CASE AdmissionStep(w)
  <2>1. OthersAlone(w)
    BY <1>2 DEF OthersAlone, AdmissionStep, StartAdmit, AdmitLoad, AdmitDecide, AdmitTouch,
                AdmitFails, Begin, Decline, Goto, Finish, TypeInv, TypeOK
  <2>2. pc[w] \notin InBlock /\ pc'[w] \notin InBlock
    BY <1>2 DEF AdmissionStep, StartAdmit, AdmitLoad, AdmitDecide, AdmitTouch, AdmitFails, Begin,
                Decline, Goto, Finish, InBlock, TypeInv, TypeOK
  <2>3. pc'[w] # "idle" => answer'[w] = "none" \/ (pc[w] # "idle" /\ answer'[w] = answer[w])
    BY <1>2 DEF AdmissionStep, StartAdmit, AdmitLoad, AdmitDecide, AdmitTouch, AdmitFails, Begin,
                Decline, Goto, Finish, TypeInv, TypeOK
  <2>4. AdmitTouch(w) => req[w].sid \in Sids
    BY DEF AdmitTouch, TypeInv, ServedOK, Request, AllOps, StepsOf
  <2>5. AdmitTouch(w) /\ rows' # rows => rows[req[w].sid] # NoRow
    BY DEF AdmitTouch
  <2> QED
    BY <1>1, <2>1, <2>2, <2>3, <2>4, <2>5
<1>3. CASE StartStep(w)
  <2>1. OthersAlone(w)
    BY <1>3 DEF OthersAlone, StartStep, StartCallback, StartLogout, StartBackchannel, StartToken,
                StartResource, Begin, Decline, TypeInv, TypeOK
  <2>2. rows' = rows
    BY <1>3 DEF StartStep, StartCallback, StartLogout, StartBackchannel, StartToken, StartResource,
                stores
  <2>3. pc[w] \notin InBlock /\ pc'[w] \notin InBlock
    BY <1>3 DEF StartStep, StartCallback, StartLogout, StartBackchannel, StartToken,
                StartResource, Begin, Decline, InBlock, TypeInv, TypeOK
  <2>4. pc'[w] # "idle" => answer'[w] = "none"
    BY <1>3 DEF StartStep, StartCallback, StartLogout, StartBackchannel, StartToken,
                StartResource, Begin, Decline, TypeInv, TypeOK
  <2> QED
    BY <1>1, <2>1, <2>2, <2>3, <2>4
<1> QED
  BY <1>2, <1>3

LEMMA EnterFrame ==
    ASSUME TypeInv, NEW w \in Workers, Enter(w)
    PROVE  /\ UNCHANGED <<time, accounts, rows, audit, minted, issued, req, answer>>
           /\ OthersAlone(w)
           /\ lock = NoWorker /\ lock' = w
           /\ saved' = [accounts |-> accounts, rows |-> rows, audit |-> audit]
           /\ pc[w] = "enter" /\ pc'[w] = FirstStep(req[w].op)
           /\ pc'[w] \in {"account", "logoutLoad", "endAll", "lookup"}
<1>1. req[w].op \in AllOps \ {"admit"}
  BY DEF Enter, TypeInv, ServedOK, Request, StepsOf
<1>2. FirstStep(req[w].op) \in {"account", "logoutLoad", "endAll", "lookup"}
  BY <1>1 DEF FirstStep, AllOps
<1> QED
  BY <1>2 DEF Enter, Goto, OthersAlone, stores, TypeInv, TypeOK

LEMMA InsideFrame ==
    ASSUME TypeInv, NEW w \in Workers, InsideStep(w)
    PROVE  /\ UNCHANGED <<time, issued, lock, saved, answer>>
           /\ OthersAlone(w)
           /\ pc[w] \in InBlock /\ pc'[w] \in InBlock
           /\ lock = w /\ lock # NoWorker
<1>1. UNCHANGED <<time, answer>>
  BY DEF InsideStep, AdmitAccount, AuditRole, EndReplaced, Prune, Create, LogoutLoad,
         LogoutDelete, EndAll, AuditLogout, Lookup
<1> QED
  BY <1>1, InsideStepRows, SignInAssumption DEF OthersAlone, TypeInv, EntryOK

LEMMA LeaveFrame ==
    ASSUME TypeInv, NEW w \in Workers, Exit(w) \/ Raise(w) \/ UsernameTaken(w)
    PROVE  /\ UNCHANGED <<time, minted>>
           /\ OthersAlone(w)
           /\ pc[w] \in InBlock /\ pc'[w] = "idle"
           /\ lock = w /\ lock # NoWorker /\ lock' = NoWorker
           /\ UNCHANGED stores \/ (RollsBack /\ RestoreOrKeep)
           /\ saved \in Snapshot
           /\ \A u \in Workers : pc'[u] \notin InBlock
<1>1. /\ UNCHANGED <<time, minted>> /\ pc[w] \in InBlock /\ lock' = NoWorker
      /\ UNCHANGED stores \/ (RollsBack /\ RestoreOrKeep)
  BY DEF Exit, Raise, UsernameTaken, Leave, InBlock, RestoreOrKeep
<1>2. OthersAlone(w) /\ pc'[w] = "idle"
  BY DEF OthersAlone, Exit, Raise, UsernameTaken, Leave, Finish, TypeInv, TypeOK
<1>3. lock = w /\ lock # NoWorker /\ saved \in Snapshot
  BY <1>1, SignInAssumption DEF TypeInv, EntryOK
<1>4. \A u \in Workers : pc'[u] \notin InBlock
  BY <1>2, <1>3 DEF OthersAlone, TypeInv, EntryOK, InBlock
<1> QED
  BY <1>1, <1>2, <1>3, <1>4

-----------------------------------------------------------------------------
(* Accounts before sessions, whatever the transaction does                 *)

HaveAccounts(table, roles) == \A s \in Sids : table[s] # NoRow => roles[table[s].user] # NoRole

\* A sign-in has its account before it writes a session; a back-channel logout
\* past EndAll has left its subject none, and nobody signs in beside it.
AdmittedFirst(w) ==
    pc[w] \in {"audit", "replace", "prune", "create"} => accounts[req[w].subject] # NoRole

NobodyLeft(w) ==
    pc[w] \in {"auditLogout", "exit"} /\ req[w].op = "backchannel" =>
        SessionsIn(rows, req[w].subject) = {}

AccountInv ==
    /\ HaveAccounts(rows, accounts)
    /\ lock # NoWorker => HaveAccounts(saved.rows, saved.accounts)
    /\ \A w \in Workers : AdmittedFirst(w) /\ NobodyLeft(w)

\* Accounts stay, and the sessions left were there before.
OnlyEnds ==
    /\ \A user \in Subjects : accounts[user] # NoRole => accounts'[user] # NoRole
    /\ \A s \in Sids : rows'[s] # NoRow => rows[s] # NoRow /\ rows'[s].user = rows[s].user

LEMMA OnlyEndsOK ==
    ASSUME TypeInv, AccountInv, OnlyEnds,
           lock' # NoWorker => lock # NoWorker /\ saved' = saved
    PROVE  /\ HaveAccounts(rows, accounts)'
           /\ lock' # NoWorker => HaveAccounts(saved.rows, saved.accounts)'
           /\ \A user : SessionsIn(rows', user) \subseteq SessionsIn(rows, user)
           /\ \A u \in Workers : pc'[u] = pc[u] /\ req'[u] = req[u] =>
                 AdmittedFirst(u)' /\ NobodyLeft(u)'
<1>1. \A s \in Sids : rows[s] # NoRow => rows[s].user \in Subjects
  BY DEF TypeInv, TypeOK, Row
<1>2. HaveAccounts(rows, accounts)'
  BY <1>1 DEF AccountInv, HaveAccounts, OnlyEnds
<1>3. lock' # NoWorker => HaveAccounts(saved.rows, saved.accounts)'
  BY DEF AccountInv, HaveAccounts
<1>4. \A user : SessionsIn(rows', user) \subseteq SessionsIn(rows, user)
  BY DEF OnlyEnds, SessionsIn
<1>5. ASSUME NEW u \in Workers, pc'[u] = pc[u], req'[u] = req[u]
      PROVE  AdmittedFirst(u)' /\ NobodyLeft(u)'
  <2>1. AdmittedFirst(u)'
    <3> SUFFICES ASSUME pc[u] \in {"audit", "replace", "prune", "create"}
                 PROVE  accounts'[req[u].subject] # NoRole
      BY <1>5 DEF AdmittedFirst
    <3>1. req[u].subject \in Subjects
      BY ServedInBlock DEF InBlock, StepsOf, AllOps
    <3> QED
      BY <3>1 DEF AccountInv, AdmittedFirst, OnlyEnds
  <2>2. NobodyLeft(u)'
    BY <1>4, <1>5 DEF AccountInv, NobodyLeft
  <2> QED
    BY <2>1, <2>2
<1> QED
  BY <1>2, <1>3, <1>4, <1>5

LEMMA OutsideAccounts ==
    ASSUME TypeInv, RowInv, AccountInv, NEW w \in Workers, AdmissionStep(w) \/ StartStep(w)
    PROVE  AccountInv'
<1>1. /\ UNCHANGED <<accounts, lock, saved>> /\ OthersAlone(w)
      /\ pc'[w] \notin InBlock
      /\ rows' # rows => AdmitTouch(w) /\ rows[req[w].sid] # NoRow /\ req[w].sid \in Sids
  BY OutsideFrame
<1>2. OnlyEnds
  <2>1. ASSUME rows' # rows, NEW s \in Sids, rows'[s] # NoRow
        PROVE  rows[s] # NoRow /\ rows'[s].user = rows[s].user
    <3>1. rows[req[w].sid] \in Row
      BY <1>1, <2>1 DEF TypeInv, TypeOK
    <3> QED
      BY <1>1, <2>1, <3>1 DEF AdmitTouch, TypeInv, TypeOK, Row
  <2> QED
    BY <1>1, <2>1 DEF OnlyEnds
<1>3. AdmittedFirst(w)' /\ NobodyLeft(w)'
  BY <1>1 DEF AdmittedFirst, NobodyLeft, InBlock
<1> QED
  BY <1>1, <1>2, <1>3, OnlyEndsOK DEF OthersAlone, AccountInv

LEMMA EnterAccounts ==
    ASSUME TypeInv, AccountInv, NEW w \in Workers, Enter(w)
    PROVE  AccountInv'
<1>1. /\ UNCHANGED <<accounts, rows, req>> /\ OthersAlone(w)
      /\ pc'[w] \in {"account", "logoutLoad", "endAll", "lookup"}
      /\ saved'.rows = rows /\ saved'.accounts = accounts
  BY EnterFrame
<1> QED
  BY <1>1 DEF AccountInv, HaveAccounts, AdmittedFirst, NobodyLeft, OthersAlone

\* Inside its entry a sign-in writes the account first, and a back-channel
\* logout finds no session of a subject without one.
LEMMA InsideAccounts ==
    ASSUME TypeInv, AccountInv, NEW w \in Workers, InsideStep(w)
    PROVE  AccountInv'
<1> USE SignInAssumption
<1>1. UNCHANGED <<lock, saved>> /\ OthersAlone(w) /\ pc[w] \in InBlock
  BY InsideFrame
<1>2. /\ req[w] \in Request /\ req[w].op \in AllOps /\ pc[w] \in StepsOf(req[w].op)
      /\ req[w].op \in {"callback", "token"} => req[w].subject \in Subjects /\ req[w].role \in Roles
  BY <1>1, ServedInBlock
<1>3. \A u \in Workers \ {w} : pc[u] \notin InBlock
  BY <1>1 DEF TypeInv, EntryOK
<1>4. ASSUME OnlyEnds, AdmittedFirst(w)', NobodyLeft(w)' PROVE AccountInv'
  BY <1>1, <1>4, OnlyEndsOK DEF OthersAlone, AccountInv
<1>5. (UNCHANGED accounts /\ (rows' = rows \/ \E sids : rows' = Without(sids))) => OnlyEnds
  BY DEF OnlyEnds, Without
<1>6. CASE AdmitAccount(w)
  <2>1. req[w].op \in {"callback", "token"} /\ UNCHANGED <<rows, req>>
    BY <1>2, <1>6 DEF AdmitAccount, AllOps, StepsOf
  <2>2. /\ accounts'[req[w].subject] = req[w].role /\ req[w].role # NoRole
        /\ \A user \in Subjects \ {req[w].subject} : accounts'[user] = accounts[user]
    BY <1>2, <1>6, <2>1 DEF AdmitAccount, TypeInv, TypeOK
  <2>3. OnlyEnds
    BY <1>2, <2>1, <2>2 DEF OnlyEnds
  <2> QED
    BY <1>4, <2>1, <2>2, <2>3 DEF AdmittedFirst, NobodyLeft
<1>7. CASE AuditRole(w)
  <2>1. req[w].op \in {"callback", "token"} /\ UNCHANGED <<accounts, rows, req>> /\ pc[w] = "audit"
    BY <1>2, <1>7 DEF AuditRole, AllOps, StepsOf
  <2> QED
    BY <1>4, <1>5, <2>1 DEF AccountInv, AdmittedFirst, NobodyLeft
<1>8. CASE EndReplaced(w) \/ Prune(w)
  <2>1. /\ req[w].op = "callback" /\ UNCHANGED accounts /\ req'[w].subject = req[w].subject
        /\ req'[w].op = "callback" /\ pc[w] \in {"replace", "prune"}
        /\ rows' = rows \/ \E sids : rows' = Without(sids)
    <3>1. req[w].op = "callback" /\ pc[w] \in {"replace", "prune"} /\ UNCHANGED accounts
      BY <1>2, <1>8 DEF EndReplaced, Prune, AllOps, StepsOf
    <3>2. rows' = rows \/ \E sids : rows' = Without(sids)
      BY <1>8 DEF EndReplaced, Prune
    <3>3. req' = req \/ \E now : req' = [req EXCEPT ![w].now = now]
      BY <1>8 DEF EndReplaced, Prune
    <3> QED
      BY <1>2, <3>1, <3>2, <3>3 DEF Request, TypeInv, TypeOK
  <2> QED
    BY <1>4, <1>5, <2>1 DEF AccountInv, AdmittedFirst, NobodyLeft
<1>9. CASE Create(w)
  <2>1. PICK sid \in Sids \ minted :
          /\ rows' = [rows EXCEPT ![sid] =
                        [user |-> req[w].subject, created |-> req[w].now,
                         expires |-> RenewedExpiry(req[w].now, req[w].now)]]
          /\ req' = [req EXCEPT ![w].sid = sid]
    BY <1>9 DEF Create
  <2>2. /\ req'[w].op = "callback" /\ pc'[w] = "exit" /\ UNCHANGED accounts
        /\ accounts[req[w].subject] # NoRole
    BY <1>2, <1>9, <2>1 DEF Create, Goto, AllOps, StepsOf, Request, TypeInv, TypeOK,
                            AccountInv, AdmittedFirst
  <2>3. HaveAccounts(rows, accounts)'
    <3>1. rows'[sid].user = req[w].subject /\ \A s \in Sids \ {sid} : rows'[s] = rows[s]
      BY <2>1 DEF TypeInv, TypeOK
    <3> QED
      BY <2>2, <3>1 DEF AccountInv, HaveAccounts
  <2>4. \A u \in Workers : AdmittedFirst(u)' /\ NobodyLeft(u)'
    BY <1>1, <1>3, <2>2 DEF AdmittedFirst, NobodyLeft, OthersAlone, InBlock
  <2> QED
    BY <1>1, <2>3, <2>4 DEF AccountInv, HaveAccounts
<1>10. CASE LogoutLoad(w) \/ LogoutDelete(w) \/ Lookup(w)
  <2>1. /\ req[w].op \in {"logout", "resource"} /\ req'[w].op = req[w].op /\ UNCHANGED accounts
        /\ pc'[w] \in {"logoutDelete", "exit"}
        /\ rows' = rows \/ \E sids : rows' = Without(sids)
    BY <1>2, <1>10 DEF LogoutLoad, LogoutDelete, Lookup, stores, Goto, AllOps, StepsOf, Request,
                       TypeInv, TypeOK
  <2> QED
    BY <1>4, <1>5, <2>1 DEF AdmittedFirst, NobodyLeft
<1>11. CASE EndAll(w)
  <2> DEFINE subject == req[w].subject
  <2>1. /\ UNCHANGED accounts /\ req'[w].subject = subject /\ pc'[w] \in {"auditLogout", "exit"}
        /\ rows' = Without(IF accounts[subject] = NoRole THEN {} ELSE SessionsOf(subject))
    BY <1>2, <1>11 DEF EndAll, Goto, Request, TypeInv, TypeOK
  <2>2. SessionsIn(rows, subject) = SessionsOf(subject)
    BY DEF SessionsIn, SessionsOf
  <2>3. accounts[subject] = NoRole => SessionsIn(rows, subject) = {}
    BY DEF AccountInv, HaveAccounts, SessionsIn
  <2>4. SessionsIn(rows', subject) = {}
    BY <2>1, <2>2, <2>3, WithoutSessions
  <2> QED
    BY <1>4, <1>5, <2>1, <2>4 DEF AdmittedFirst, NobodyLeft
<1>12. CASE AuditLogout(w)
  <2>1. UNCHANGED <<accounts, rows, req>> /\ pc[w] = "auditLogout" /\ pc'[w] = "exit"
    BY <1>12 DEF AuditLogout, Goto, TypeInv, TypeOK
  <2> QED
    BY <1>4, <1>5, <2>1 DEF AccountInv, AdmittedFirst, NobodyLeft
<1> QED
  BY <1>6, <1>7, <1>8, <1>9, <1>10, <1>11, <1>12 DEF InsideStep

LEMMA LeaveAccounts ==
    ASSUME TypeInv, AccountInv, NEW w \in Workers, Exit(w) \/ Raise(w) \/ UsernameTaken(w)
    PROVE  AccountInv'
<1>1. /\ lock # NoWorker /\ lock' = NoWorker
      /\ UNCHANGED stores \/ (RollsBack /\ RestoreOrKeep)
      /\ \A u \in Workers : pc'[u] \notin InBlock
  BY LeaveFrame
<1>2. HaveAccounts(rows, accounts)'
  BY <1>1 DEF AccountInv, HaveAccounts, RestoreOrKeep, stores
<1>3. \A u \in Workers : AdmittedFirst(u)' /\ NobodyLeft(u)'
  BY <1>1 DEF AdmittedFirst, NobodyLeft, InBlock
<1> QED
  BY <1>1, <1>2, <1>3 DEF AccountInv

LEMMA NextAccountInv == TypeInv /\ RowInv /\ AccountInv /\ [Next]_vars => AccountInv'
<1> SUFFICES ASSUME TypeInv, RowInv, AccountInv, [Next]_vars PROVE AccountInv'
  OBVIOUS
<1>1. ASSUME NEW w \in Workers, AdmissionStep(w) \/ StartStep(w) PROVE AccountInv'
  BY <1>1, OutsideAccounts
<1>2. ASSUME NEW w \in Workers, Enter(w) PROVE AccountInv'
  BY <1>2, EnterAccounts
<1>3. ASSUME NEW w \in Workers, BlockStep(w) PROVE AccountInv'
  BY <1>3, InsideAccounts, LeaveAccounts DEF BlockStep, InsideStep
<1>4. CASE HostEnds
  <2>1. UNCHANGED <<accounts, lock, saved, pc, req>> /\ OnlyEnds
    BY <1>4 DEF HostEnds, OnlyEnds, Without
  <2> QED
    BY <2>1, OnlyEndsOK DEF AccountInv
<1>5. CASE Tick \/ UNCHANGED vars
  BY <1>5 DEF Tick, vars, stores, AccountInv, HaveAccounts, AdmittedFirst, NobodyLeft
<1> QED
  BY <1>1, <1>2, <1>3, <1>4, <1>5 DEF Next

LEMMA AccountInvariance == Spec => [](TypeInv /\ RowInv /\ AccountInv)
<1>1. Init => AccountInv
  BY DEF Init, AccountInv, HaveAccounts, AdmittedFirst, NobodyLeft
<1> QED
  BY <1>1, RowInvariance, NextAccountInv, PTL DEF Spec

\* Every stored session belongs to an account the store holds, also when an entry
\* fails half-way and its writes stay: the account is admitted before the session
\* is opened (_write_sign_in), and no route deletes an account.
THEOREM SignIn_SessionsHaveAccounts == Spec => []SessionsHaveAccounts
<1>1. AccountInv => SessionsHaveAccounts
  BY DEF AccountInv, HaveAccounts, SessionsHaveAccounts
<1> QED
  BY <1>1, AccountInvariance, PTL

-----------------------------------------------------------------------------
(* Requests on their way                                                   *)

Instants == (-MaxSkew) .. (MaxTime + MaxSkew)

At(w, step, op) == pc[w] = step /\ req[w].op = op

\* A request is answered when it is over, and what it stores of a clock is a
\* reading some node can take.
RequestOK(w) ==
    /\ pc[w] # "idle" => answer[w] = "none"
    /\ pc[w] \in {"touch", "prune", "create"} \/ At(w, "exit", "callback") =>
          req[w].now \in Instants

RequestInv == time <= MaxTime /\ \A w \in Workers : RequestOK(w)

LEMMA ReadingInstant ==
    ASSUME TypeInv, RequestInv, NEW now \in Readings
    PROVE  now \in Instants
BY SignInAssumption DEF Readings, Instants, RequestInv, TypeInv, TypeOK

LEMMA NextRequestInv == TypeInv /\ RequestInv /\ [Next]_vars => RequestInv'
<1> SUFFICES ASSUME TypeInv, RequestInv, [Next]_vars PROVE RequestInv'
  OBVIOUS
<1>1. ASSUME NEW w \in Workers, UNCHANGED time, OthersAlone(w), RequestOK(w)'
      PROVE  RequestInv'
  BY <1>1 DEF RequestInv, RequestOK, OthersAlone, At
<1>2. ASSUME NEW w \in Workers, AdmissionStep(w) \/ StartStep(w) PROVE RequestInv'
  <2>1. /\ UNCHANGED time /\ OthersAlone(w) /\ pc'[w] \notin InBlock
        /\ pc'[w] # "idle" => answer'[w] = "none" \/ (pc[w] # "idle" /\ answer'[w] = answer[w])
    BY <1>2, OutsideFrame
  <2>2. ASSUME pc'[w] = "touch" PROVE req'[w].now \in Instants
    <3>1. (AdmitDecide(w) /\ pc'[w] = "touch") \/ UNCHANGED <<pc, req>>
      BY <1>2, <2>2 DEF AdmissionStep, StartAdmit, AdmitLoad, AdmitTouch, AdmitFails, StartStep,
           StartCallback, StartLogout, StartBackchannel, StartToken, StartResource, Begin,
           Decline, Goto, Finish, TypeInv, TypeOK
    <3>2. CASE AdmitDecide(w) /\ pc'[w] = "touch"
      <4>1. PICK now \in Readings : req' = [req EXCEPT ![w].now = now]
        BY <3>2 DEF AdmitDecide, Finish, TypeInv, TypeOK
      <4>2. req[w] \in Request
        BY <3>2 DEF AdmitDecide, TypeInv, ServedOK
      <4> QED
        BY <4>1, <4>2, ReadingInstant DEF Request, TypeInv, TypeOK
    <3> QED
      BY <2>2, <3>1, <3>2 DEF RequestInv, RequestOK
  <2>3. RequestOK(w)'
    BY <2>1, <2>2 DEF RequestInv, RequestOK, At, InBlock
  <2> QED
    BY <1>1, <2>1, <2>3
<1>3. ASSUME NEW w \in Workers, Enter(w) PROVE RequestInv'
  <2>1. /\ UNCHANGED <<time, req, answer>> /\ OthersAlone(w) /\ pc[w] = "enter"
        /\ pc'[w] \in {"account", "logoutLoad", "endAll", "lookup"}
    BY <1>3, EnterFrame
  <2> QED
    BY <1>1, <2>1 DEF RequestInv, RequestOK, At
<1>4. ASSUME NEW w \in Workers, InsideStep(w) PROVE RequestInv'
  <2>1. /\ UNCHANGED <<time, answer>> /\ OthersAlone(w) /\ pc[w] \in InBlock
        /\ req[w] \in Request /\ req[w].op \in AllOps /\ pc[w] \in StepsOf(req[w].op)
    BY <1>4, InsideFrame, ServedInBlock
  <2>2. answer'[w] = "none"
    BY <2>1 DEF RequestInv, RequestOK, InBlock
  <2>3. CASE EndReplaced(w)
    <3>1. PICK now \in Readings : req' = [req EXCEPT ![w].now = now]
      BY <2>3 DEF EndReplaced
    <3> QED
      BY <1>1, <2>1, <2>2, <3>1, ReadingInstant DEF RequestOK, Request, TypeInv, TypeOK
  <2>4. CASE Prune(w) \/ Create(w)
    <3>1. /\ req'[w].now = req[w].now /\ pc[w] \in {"prune", "create"}
      BY <2>1, <2>4 DEF Prune, Create, Request, TypeInv, TypeOK
    <3> QED
      BY <1>1, <2>1, <2>2, <3>1 DEF RequestInv, RequestOK
  <2>5. CASE ~EndReplaced(w) /\ ~Prune(w) /\ ~Create(w)
    <3>1. /\ req'[w].op = req[w].op /\ pc'[w] \notin {"touch", "prune", "create"}
          /\ ~(pc'[w] = "exit" /\ req[w].op = "callback")
      BY <1>4, <2>1, <2>5
         DEF InsideStep, AdmitAccount, AuditRole, LogoutLoad, LogoutDelete, EndAll, AuditLogout,
             Lookup, Goto, AfterAccount, AllOps, StepsOf, Request, TypeInv, TypeOK
    <3> QED
      BY <1>1, <2>1, <2>2, <3>1 DEF RequestOK, At
  <2> QED
    BY <2>3, <2>4, <2>5
<1>5. ASSUME NEW w \in Workers, Exit(w) \/ Raise(w) \/ UsernameTaken(w) PROVE RequestInv'
  BY <1>1, <1>5, LeaveFrame DEF RequestOK, At
<1>6. CASE HostEnds \/ UNCHANGED vars
  BY <1>6 DEF HostEnds, vars, RequestInv, RequestOK, At
<1>7. CASE Tick
  BY <1>7, SignInAssumption DEF Tick, RequestInv, RequestOK, At, TypeInv, TypeOK
<1> QED
  BY <1>2, <1>3, <1>4, <1>5, <1>6, <1>7 DEF Next, BlockStep, InsideStep

-----------------------------------------------------------------------------
(* What the open entry has written, over a transaction that rolls back     *)

Cleared(table, sids) == [s \in Sids |-> IF s \in sids THEN NoRow ELSE table[s]]

\* _write_sign_in's rows: without the replaced session, pruned to make room, ...
MadeRoom(user, table) ==
    \E replaced \in Sids \cup {NoSid} :
        LET left == Cleared(saved.rows, {replaced})
        IN  \E kept \in Ledger!Survivors(user, left) :
                table = Cleared(left, SessionsIn(left, user) \ kept)

\* ... and with the new one.
NewRow(w) == [user |-> req[w].subject, created |-> req[w].now,
              expires |-> RenewedExpiry(req[w].now, req[w].now)]

Opened(w) ==
    LET before == [rows EXCEPT ![req[w].sid] = NoRow]
    IN  /\ MadeRoom(req[w].subject, before)
        /\ rows = [before EXCEPT ![req[w].sid] = NewRow(w)]
        /\ saved.rows[req[w].sid] = NoRow

\* The account with the verified role, and the event that tells it.
AccountWritten(w) ==
    /\ pc[w] \in {"audit", "replace", "prune", "create"}
          \/ At(w, "exit", "callback") \/ At(w, "exit", "token") =>
          accounts = [saved.accounts EXCEPT ![req[w].subject] = req[w].role]
    /\ pc[w] \in {"account", "logoutLoad", "logoutDelete", "endAll", "auditLogout", "lookup"}
          \/ At(w, "exit", "logout") \/ At(w, "exit", "backchannel") \/ At(w, "exit", "resource") =>
          accounts = saved.accounts

AuditWritten(w) ==
    /\ pc[w] \in {"replace", "prune", "create"}
          \/ At(w, "exit", "callback") \/ At(w, "exit", "token") =>
          audit = [saved.audit EXCEPT !.roles[req[w].subject] = req[w].role]
    /\ At(w, "exit", "backchannel") =>
          audit = [saved.audit EXCEPT !.ended = @ \cup SessionsIn(saved.rows, req[w].subject)]
    /\ pc[w] \in {"account", "audit", "logoutLoad", "logoutDelete", "endAll", "auditLogout", "lookup"}
          \/ At(w, "exit", "logout") \/ At(w, "exit", "resource") =>
          audit = saved.audit

RowsWritten(w) ==
    /\ pc[w] \in {"account", "audit", "replace", "logoutLoad", "logoutDelete", "endAll", "lookup"}
          \/ At(w, "exit", "token") \/ At(w, "exit", "resource") =>
          rows = saved.rows
    /\ pc[w] = "prune" => rows = Cleared(saved.rows, {req[w].sid})
    /\ pc[w] = "create" => MadeRoom(req[w].subject, rows)
    /\ At(w, "exit", "callback") => Opened(w)
    /\ At(w, "exit", "logout") => rows = Cleared(saved.rows, {req[w].sid})
    /\ pc[w] = "auditLogout" \/ At(w, "exit", "backchannel") =>
          rows = Cleared(saved.rows, SessionsIn(saved.rows, req[w].subject))

\* What the entry has read of the sessions it ends.
EntryRead(w) ==
    /\ pc[w] = "logoutDelete" \/ At(w, "exit", "logout") =>
          req[w].row = saved.rows[req[w].sid]
    /\ pc[w] = "auditLogout" => req[w].ended = SessionsIn(saved.rows, req[w].subject)

EntryWritten(w) == AccountWritten(w) /\ AuditWritten(w) /\ RowsWritten(w) /\ EntryRead(w)

EntryInv ==
    RollsBack =>
        /\ lock = NoWorker => audit.roles = accounts
        /\ lock # NoWorker => saved.audit.roles = saved.accounts
        /\ \A w \in Workers : pc[w] \in InBlock => EntryWritten(w)

\* The next step of an entry that left stores and snapshot alone.
LEMMA EntryFrame ==
    ASSUME NEW u \in Workers, EntryWritten(u), UNCHANGED <<accounts, rows, audit, saved>>,
           pc'[u] = pc[u], req'[u] = req[u]
    PROVE  EntryWritten(u)'
<1>1. \A user, table : MadeRoom(user, table)' <=> MadeRoom(user, table)
  BY DEF MadeRoom
<1>2. Opened(u)' <=> Opened(u)
  BY <1>1 DEF Opened, NewRow
<1>3. MadeRoom(req[u].subject, rows)' <=> MadeRoom(req[u].subject, rows)
  BY DEF MadeRoom
<1> QED
  BY <1>2, <1>3 DEF EntryWritten, AccountWritten, AuditWritten, RowsWritten, EntryRead, At

\* Nothing outside reaches the stores while an entry is open.
LEMMA OutsideEntry ==
    ASSUME TypeInv, EntryInv, NEW w \in Workers, AdmissionStep(w) \/ StartStep(w)
    PROVE  EntryInv'
<1> SUFFICES ASSUME RollsBack PROVE EntryInv'
  BY DEF EntryInv
<1>1. /\ UNCHANGED <<accounts, audit, lock, saved>> /\ OthersAlone(w)
      /\ pc'[w] \notin InBlock
      /\ rows' # rows => AdmitTouch(w)
  BY OutsideFrame
<1>2. ASSUME NEW u \in Workers, pc'[u] \in InBlock PROVE EntryWritten(u)'
  <2>1. u # w /\ pc'[u] = pc[u] /\ req'[u] = req[u] /\ lock = u
    BY <1>1, <1>2 DEF OthersAlone, TypeInv, EntryOK
  <2>2. rows' = rows
    BY <1>1, <2>1, SignInAssumption DEF AdmitTouch, StoreFree
  <2> QED
    BY <1>1, <1>2, <2>1, <2>2, EntryFrame DEF EntryInv
<1> QED
  BY <1>1, <1>2 DEF EntryInv

LEMMA EnterEntry ==
    ASSUME TypeInv, EntryInv, NEW w \in Workers, Enter(w)
    PROVE  EntryInv'
<1> SUFFICES ASSUME RollsBack PROVE EntryInv'
  BY DEF EntryInv
<1>1. /\ UNCHANGED <<accounts, rows, audit, req>> /\ OthersAlone(w)
      /\ lock = NoWorker /\ lock' = w
      /\ saved'.accounts = accounts /\ saved'.rows = rows /\ saved'.audit = audit
      /\ pc'[w] \in {"account", "logoutLoad", "endAll", "lookup"}
  BY EnterFrame
<1>2. \A u \in Workers \ {w} : pc'[u] \notin InBlock
  BY <1>1, SignInAssumption DEF OthersAlone, TypeInv, EntryOK
<1>3. EntryWritten(w)'
  BY <1>1 DEF EntryWritten, AccountWritten, AuditWritten, RowsWritten, EntryRead, At
<1> QED
  BY <1>1, <1>2, <1>3, SignInAssumption DEF EntryInv

LEMMA LeaveEntry ==
    ASSUME TypeInv, EntryInv, NEW w \in Workers, Exit(w) \/ Raise(w) \/ UsernameTaken(w)
    PROVE  EntryInv'
<1> SUFFICES ASSUME RollsBack PROVE EntryInv'
  BY DEF EntryInv
<1>1. /\ lock # NoWorker /\ lock' = NoWorker /\ pc[w] \in InBlock /\ saved \in Snapshot
      /\ \A u \in Workers : pc'[u] \notin InBlock
  BY LeaveFrame
<1>2. saved.audit.roles = saved.accounts /\ EntryWritten(w)
  BY <1>1 DEF EntryInv
<1>3. CASE RestoreOrKeep
  BY <1>1, <1>2, <1>3 DEF RestoreOrKeep, EntryInv
<1>4. CASE pc[w] = "exit" /\ UNCHANGED stores
  <2>1. req[w].op \in AllOps \ {"admit"}
    BY <1>1, ServedInBlock
  <2>2. audit.roles = accounts
    BY <1>1, <1>2, <1>4, <2>1 DEF EntryWritten, AccountWritten, AuditWritten, At, AllOps,
                                  Snapshot, Audit
  <2> QED
    BY <1>1, <1>4, <2>2 DEF EntryInv, stores
<1> QED
  BY <1>3, <1>4 DEF Exit, Raise, UsernameTaken

\* What a step inside an entry has to show of its own entry alone.
LEMMA InsideEntryOK ==
    ASSUME TypeInv, EntryInv, RollsBack, NEW w \in Workers, InsideStep(w), EntryWritten(w)'
    PROVE  EntryInv'
<1>1. UNCHANGED <<lock, saved>> /\ OthersAlone(w) /\ lock = w /\ lock # NoWorker
  BY InsideFrame
<1>2. \A u \in Workers \ {w} : pc'[u] \notin InBlock
  BY <1>1 DEF OthersAlone, TypeInv, EntryOK
<1> QED
  BY <1>1, <1>2 DEF EntryInv

\* _admit_account: the role and its event, or neither when it is the one known.
LEMMA AccountEntry ==
    ASSUME TypeInv, EntryInv, RollsBack, NEW w \in Workers, AdmitAccount(w) \/ AuditRole(w)
    PROVE  EntryWritten(w)'
<1>1. /\ lock # NoWorker /\ UNCHANGED saved /\ saved \in Snapshot /\ pc[w] \in InBlock
      /\ req[w] \in Request /\ req[w].op \in AllOps /\ pc[w] \in StepsOf(req[w].op)
  BY InsideFrame, ServedInBlock DEF InsideStep, TypeInv, EntryOK
<1>2. saved.audit.roles = saved.accounts /\ EntryWritten(w)
  BY <1>1 DEF EntryInv
<1>3. /\ pc[w] \in {"account", "audit"} /\ req[w].op \in {"callback", "token"} /\ UNCHANGED req
      /\ req[w].subject \in Subjects
  BY <1>1, ServedInBlock DEF AdmitAccount, AuditRole, AllOps, StepsOf
<1> DEFINE role == req[w].role
           subject == req[w].subject
<1>4. CASE pc'[w] = "audit"
  <2>1. pc[w] = "account" /\ accounts' = [accounts EXCEPT ![subject] = role] /\ UNCHANGED <<rows, audit>>
    BY <1>3, <1>4 DEF AdmitAccount, AuditRole, AfterAccount, Goto, TypeInv, TypeOK
  <2> QED
    BY <1>1, <1>2, <1>3, <1>4, <2>1 DEF EntryWritten, AccountWritten, AuditWritten, RowsWritten, EntryRead, At
<1>5. CASE pc'[w] # "audit"
  <2>1. pc'[w] = AfterAccount(req[w].op) /\ UNCHANGED rows
    BY <1>3, <1>5 DEF AdmitAccount, AuditRole, Goto, TypeInv, TypeOK
  <2>2. /\ accounts' = [saved.accounts EXCEPT ![subject] = role]
        /\ audit' = [saved.audit EXCEPT !.roles[subject] = role]
    <3>1. CASE pc[w] = "account"
      <4>1. UNCHANGED <<accounts, audit>> /\ accounts[subject] = role
        BY <1>3, <1>5, <3>1 DEF AdmitAccount, AuditRole, Goto, TypeInv, TypeOK
      <4>2. accounts = saved.accounts /\ audit = saved.audit
        BY <1>2, <3>1 DEF EntryWritten, AccountWritten, AuditWritten
      <4> QED
        BY <1>1, <1>2, <1>3, <4>1, <4>2 DEF Snapshot, Audit
    <3>2. CASE pc[w] = "audit"
      <4>1. UNCHANGED accounts /\ audit' = [audit EXCEPT !.roles[subject] = role]
        BY <1>3, <3>2 DEF AdmitAccount, AuditRole
      <4> QED
        BY <1>2, <3>2, <4>1 DEF EntryWritten, AccountWritten, AuditWritten
    <3> QED
      BY <1>3, <3>1, <3>2
  <2>3. rows' = saved.rows
    BY <1>2, <1>3, <2>1 DEF EntryWritten, RowsWritten
  <2>4. \/ pc'[w] = "replace" /\ req[w].op = "callback"
        \/ pc'[w] = "exit" /\ req[w].op = "token"
    BY <1>3, <2>1 DEF AfterAccount
  <2> HIDE DEF role, subject
  <2> QED
    BY <1>1, <1>3, <2>2, <2>3, <2>4
       DEF EntryWritten, AccountWritten, AuditWritten, RowsWritten, EntryRead, At, role, subject
<1> QED
  BY <1>4, <1>5

LEMMA LedgerCardinality == \A S : Ledger!Cardinality(S) = Cardinality(S)
BY DEF Ledger!Cardinality, Cardinality

\* prune_overflow keeps what SessionLedger lets survive.
LEMMA PruneSurvivors ==
    ASSUME NEW user
    PROVE  /\ MaxSessions = NoCap => SessionsIn(rows, user) \in Ledger!Survivors(user, rows)
           /\ MaxSessions # NoCap => NewestOf(user, MaxSessions - 1) = Ledger!Survivors(user, rows)
<1>1. SessionsOf(user) = SessionsIn(rows, user) /\ Ledger!Of(user, rows) = SessionsIn(rows, user)
  BY DEF SessionsOf, SessionsIn, Ledger!Of
<1>2. MaxSessions = NoCap => SessionsIn(rows, user) \in Ledger!Survivors(user, rows)
  BY <1>1 DEF Ledger!Survivors
<1>3. ASSUME MaxSessions # NoCap
      PROVE  NewestOf(user, MaxSessions - 1) = Ledger!Survivors(user, rows)
  <2>1. ASSUME NEW kept
        PROVE  kept \in NewestOf(user, MaxSessions - 1) <=> kept \in Ledger!Survivors(user, rows)
    BY <1>1, <1>3, LedgerCardinality DEF Ledger!Survivors, NewestOf
  <2> QED
    BY <2>1
<1> QED
  BY <1>2, <1>3

\* _write_sign_in: the replaced session, the overflow, the new session.
LEMMA SessionEntry ==
    ASSUME TypeInv, RowInv, EntryInv, RollsBack, NEW w \in Workers,
           EndReplaced(w) \/ Prune(w) \/ Create(w)
    PROVE  EntryWritten(w)'
<1>1. /\ lock # NoWorker /\ UNCHANGED <<saved, accounts, audit>> /\ pc[w] \in InBlock
      /\ saved \in Snapshot
      /\ req[w] \in Request /\ req[w].op \in AllOps /\ pc[w] \in StepsOf(req[w].op)
  BY InsideFrame, ServedInBlock DEF InsideStep, EndReplaced, Prune, Create, TypeInv, EntryOK
<1>2. /\ pc[w] \in {"replace", "prune", "create"} /\ req[w].op = "callback"
      /\ EntryWritten(w)
  BY <1>1 DEF EndReplaced, Prune, Create, AllOps, StepsOf, EntryInv
<1>3. /\ accounts' = [saved.accounts EXCEPT ![req[w].subject] = req[w].role]
      /\ audit' = [saved.audit EXCEPT !.roles[req[w].subject] = req[w].role]
  BY <1>1, <1>2 DEF EntryWritten, AccountWritten, AuditWritten
<1>4. /\ req'[w].subject = req[w].subject /\ req'[w].role = req[w].role /\ req'[w].op = "callback"
      /\ pc'[w] \in {"prune", "create", "exit"}
  <2>1. \/ \E now : req' = [req EXCEPT ![w].now = now]
        \/ req' = req
        \/ \E sid : req' = [req EXCEPT ![w].sid = sid]
    BY DEF EndReplaced, Prune, Create
  <2>2. pc'[w] \in {"prune", "create", "exit"}
    BY DEF EndReplaced, Prune, Create, Goto, TypeInv, TypeOK
  <2> QED
    BY <1>1, <1>2, <2>1, <2>2 DEF Request, TypeInv, TypeOK
<1>5. ASSUME RowsWritten(w)' PROVE EntryWritten(w)'
  BY <1>1, <1>3, <1>4, <1>5 DEF EntryWritten, AccountWritten, AuditWritten, EntryRead, At
<1>6. CASE EndReplaced(w)
  <2>1. /\ rows' = Cleared(saved.rows, {req[w].sid}) /\ pc'[w] = "prune"
        /\ req'[w].sid = req[w].sid
    <3>1. rows = saved.rows
      BY <1>2, <1>6 DEF EndReplaced, EntryWritten, RowsWritten
    <3> QED
      BY <1>1, <1>6, <3>1 DEF EndReplaced, Without, Cleared, Goto, Request, TypeInv, TypeOK
  <2> QED
    BY <1>1, <1>4, <1>5, <2>1 DEF RowsWritten, At, Cleared
<1>7. CASE Prune(w)
  <2> DEFINE user == req[w].subject
             left == Cleared(saved.rows, {req[w].sid})
  <2>1. rows = left /\ pc'[w] = "create" /\ UNCHANGED req
    BY <1>2, <1>7 DEF Prune, EntryWritten, RowsWritten, Goto, TypeInv, TypeOK
  <2>2. PICK kept \in Ledger!Survivors(user, left) :
          rows' = Cleared(left, SessionsIn(left, user) \ kept)
    <3>1. CASE MaxSessions = NoCap
      <4>1. rows' = left /\ SessionsIn(left, user) \in Ledger!Survivors(user, left)
        BY <1>7, <2>1, <3>1, PruneSurvivors DEF Prune
      <4>2. Cleared(left, SessionsIn(left, user) \ SessionsIn(left, user)) = left
        BY DEF Cleared
      <4> QED
        BY <4>1, <4>2
    <3>2. CASE MaxSessions # NoCap
      <4>1. PICK kept \in NewestOf(user, MaxSessions - 1) :
              rows' = Without(SessionsOf(user) \ kept)
        BY <1>7, <3>2 DEF Prune
      <4>2. kept \in Ledger!Survivors(user, left)
        BY <2>1, <3>2, <4>1, PruneSurvivors
      <4>3. rows' = Cleared(left, SessionsIn(left, user) \ kept)
        BY <2>1, <4>1 DEF Without, Cleared, SessionsOf, SessionsIn
      <4> QED
        BY <4>2, <4>3
    <3> QED
      BY <3>1, <3>2
  <2>3. MadeRoom(user, rows)'
    <3>1. req[w].sid \in Sids \cup {NoSid}
      BY <1>1 DEF Request
    <3> QED
      BY <1>1, <2>1, <2>2, <3>1 DEF MadeRoom
  <2> QED
    BY <1>5, <2>1, <2>3 DEF RowsWritten, At
<1>8. CASE Create(w)
  <2>1. PICK sid \in Sids \ minted :
          rows' = [rows EXCEPT ![sid] = NewRow(w)] /\ req' = [req EXCEPT ![w].sid = sid]
    BY <1>8 DEF Create, NewRow
  <2>2. pc[w] = "create" /\ pc'[w] = "exit"
    BY <1>8 DEF Create, Goto, TypeInv, TypeOK
  <2>3. rows[sid] = NoRow /\ saved.rows[sid] = NoRow
    BY <1>1, <2>1 DEF RowInv, TableOK
  <2>4. req'[w].sid = sid /\ NewRow(w)' = NewRow(w)
    BY <1>1, <1>4, <2>1 DEF NewRow, Request, TypeInv, TypeOK
  <2>5. [rows' EXCEPT ![sid] = NoRow] = rows
    BY <2>1, <2>3 DEF TypeInv, TypeOK
  <2>6. MadeRoom(req[w].subject, rows)
    BY <1>2, <2>2 DEF EntryWritten, RowsWritten
  <2>7. Opened(w)'
    <3>1. rows' = [rows EXCEPT ![sid] = NewRow(w)'] /\ saved'.rows[sid] = NoRow
      BY <1>1, <2>1, <2>3, <2>4
    <3>2. \E replaced \in Sids \cup {NoSid} :
            LET left == Cleared(saved'.rows, {replaced})
            IN  \E kept \in Ledger!Survivors(req'[w].subject, left) :
                    rows = Cleared(left, SessionsIn(left, req'[w].subject) \ kept)
      BY <1>1, <1>4, <2>6 DEF MadeRoom
    <3> QED
      BY <2>4, <2>5, <3>1, <3>2 DEF Opened, MadeRoom
  <2> QED
    BY <1>4, <1>5, <2>2, <2>7 DEF RowsWritten, At
<1> QED
  BY <1>6, <1>7, <1>8

\* The entries that end sessions, and the one that only looks.
LEMMA EndingEntry ==
    ASSUME TypeInv, AccountInv, EntryInv, RollsBack, NEW w \in Workers,
           LogoutLoad(w) \/ LogoutDelete(w) \/ EndAll(w) \/ AuditLogout(w) \/ Lookup(w)
    PROVE  EntryWritten(w)'
<1>1. /\ lock # NoWorker /\ UNCHANGED <<saved, accounts>> /\ pc[w] \in InBlock
      /\ saved \in Snapshot
      /\ req[w] \in Request /\ req[w].op \in AllOps /\ pc[w] \in StepsOf(req[w].op)
  BY InsideFrame, ServedInBlock DEF InsideStep, LogoutLoad, LogoutDelete, EndAll, AuditLogout,
                                    Lookup, stores, TypeInv, EntryOK
<1>2. EntryWritten(w) /\ accounts = saved.accounts
  BY <1>1 DEF LogoutLoad, LogoutDelete, EndAll, AuditLogout, Lookup, EntryInv, EntryWritten,
              AccountWritten
<1>3. CASE LogoutLoad(w) \/ LogoutDelete(w)
  <2>1. /\ req[w].op = "logout" /\ UNCHANGED audit /\ audit = saved.audit /\ rows = saved.rows
        /\ req'[w].op = "logout" /\ req'[w].sid = req[w].sid
        /\ req'[w].row = saved.rows[req[w].sid]
    <3>1. /\ req[w].op = "logout" /\ UNCHANGED audit /\ audit = saved.audit /\ rows = saved.rows
          /\ pc[w] = "logoutDelete" => req[w].row = saved.rows[req[w].sid]
      BY <1>1, <1>2, <1>3 DEF LogoutLoad, LogoutDelete, AllOps, StepsOf, stores, EntryWritten,
                              AuditWritten, RowsWritten, EntryRead
    <3> QED
      BY <1>1, <1>3, <3>1 DEF LogoutLoad, LogoutDelete, Request, TypeInv, TypeOK
  <2>2. \/ pc'[w] = "logoutDelete" /\ rows' = saved.rows
        \/ pc'[w] = "exit" /\ rows' = Cleared(saved.rows, {req[w].sid})
    BY <1>3, <2>1 DEF LogoutLoad, LogoutDelete, Goto, stores, Without, Cleared, TypeInv, TypeOK
  <2> QED
    BY <1>1, <1>2, <2>1, <2>2
       DEF EntryWritten, AccountWritten, AuditWritten, RowsWritten, EntryRead, At, Cleared
<1>4. CASE EndAll(w)
  <2> DEFINE subject == req[w].subject
             ended == SessionsIn(saved.rows, subject)
  <2>1. /\ req[w].op = "backchannel" /\ pc[w] = "endAll" /\ UNCHANGED audit
        /\ audit = saved.audit /\ rows = saved.rows
    BY <1>1, <1>2, <1>4 DEF EndAll, AllOps, StepsOf, EntryWritten, AuditWritten, RowsWritten
  <2>2. (IF accounts[subject] = NoRole THEN {} ELSE SessionsOf(subject)) = ended
    <3>1. SessionsOf(subject) = ended
      BY <2>1 DEF SessionsOf, SessionsIn
    <3>2. accounts[subject] = NoRole => ended = {}
      BY <2>1 DEF AccountInv, HaveAccounts, SessionsIn
    <3> QED
      BY <3>1, <3>2
  <2>3. /\ rows' = Cleared(saved.rows, ended)
        /\ req' = [req EXCEPT ![w].ended = ended]
        /\ pc'[w] = IF ended = {} THEN "exit" ELSE "auditLogout"
    <3> HIDE DEF ended
    <3>1. /\ rows' = Without(ended)
          /\ req' = [req EXCEPT ![w].ended = ended]
          /\ Goto(w, IF ended = {} THEN "exit" ELSE "auditLogout")
      BY <1>4, <2>2 DEF EndAll
    <3> QED
      BY <2>1, <3>1 DEF Without, Cleared, Goto, TypeInv, TypeOK
  <2>4. /\ req'[w].op = "backchannel" /\ req'[w].subject = subject /\ req'[w].ended = ended
    BY <1>1, <2>1, <2>3 DEF Request, TypeInv, TypeOK
  <2>5. ended = {} => audit' = [saved.audit EXCEPT !.ended = @ \cup ended]
    BY <1>1, <2>1 DEF Snapshot, Audit
  <2> QED
    BY <1>1, <1>2, <2>1, <2>3, <2>4, <2>5
       DEF EntryWritten, AccountWritten, AuditWritten, RowsWritten, EntryRead, At, Cleared
<1>5. CASE AuditLogout(w)
  <2>1. /\ req[w].op = "backchannel" /\ pc'[w] = "exit" /\ UNCHANGED <<rows, req>>
        /\ audit = saved.audit /\ audit' = [audit EXCEPT !.ended = @ \cup req[w].ended]
        /\ rows = Cleared(saved.rows, SessionsIn(saved.rows, req[w].subject))
        /\ req[w].ended = SessionsIn(saved.rows, req[w].subject)
    BY <1>1, <1>2, <1>5 DEF AuditLogout, AllOps, StepsOf, EntryWritten, AuditWritten,
                            RowsWritten, EntryRead, Goto, TypeInv, TypeOK
  <2> QED
    BY <1>1, <1>2, <2>1
       DEF EntryWritten, AccountWritten, AuditWritten, RowsWritten, EntryRead, At, Cleared,
           SessionsIn
<1>6. CASE Lookup(w)
  <2>1. /\ req'[w].op = "resource" /\ pc'[w] = "exit" /\ UNCHANGED <<rows, audit>>
        /\ audit = saved.audit /\ rows = saved.rows
    BY <1>1, <1>2, <1>6 DEF Lookup, AllOps, StepsOf, EntryWritten, AuditWritten, RowsWritten,
                            stores, Goto, Request, TypeInv, TypeOK
  <2> QED
    BY <1>1, <1>2, <2>1
       DEF EntryWritten, AccountWritten, AuditWritten, RowsWritten, EntryRead, At
<1> QED
  BY <1>3, <1>4, <1>5, <1>6

LEMMA NextEntryInv ==
    TypeInv /\ RowInv /\ AccountInv /\ EntryInv /\ [Next]_vars => EntryInv'
<1> SUFFICES ASSUME TypeInv, RowInv, AccountInv, EntryInv, [Next]_vars PROVE EntryInv'
  OBVIOUS
<1>1. ASSUME NEW w \in Workers, AdmissionStep(w) \/ StartStep(w) PROVE EntryInv'
  BY <1>1, OutsideEntry
<1>2. ASSUME NEW w \in Workers, Enter(w) PROVE EntryInv'
  BY <1>2, EnterEntry
<1>3. ASSUME NEW w \in Workers, InsideStep(w), RollsBack PROVE EntryInv'
  BY <1>3, InsideEntryOK, AccountEntry, SessionEntry, EndingEntry DEF InsideStep
<1>4. ASSUME NEW w \in Workers, Exit(w) \/ Raise(w) \/ UsernameTaken(w) PROVE EntryInv'
  BY <1>4, LeaveEntry
<1>5. CASE HostEnds
  BY <1>5, SignInAssumption DEF HostEnds, EntryInv, TypeInv, EntryOK
<1>6. CASE Tick \/ UNCHANGED vars
  <2>1. UNCHANGED <<accounts, rows, audit, lock, saved, pc, req>>
    BY <1>6 DEF Tick, vars, stores
  <2> QED
    BY <2>1, EntryFrame DEF EntryInv
<1> QED
  BY <1>1, <1>2, <1>3, <1>4, <1>5, <1>6 DEF Next, BlockStep, InsideStep, EntryInv

LedgerInv == TypeInv /\ RowInv /\ AccountInv /\ RequestInv /\ EntryInv

LEMMA LedgerInvariance == Spec => []LedgerInv
<1>1. Init => RequestInv /\ EntryInv
  BY SignInAssumption DEF Init, RequestInv, RequestOK, EntryInv, At, InBlock
<1> QED
  BY <1>1, AccountInvariance, NextRequestInv, NextEntryInv, PTL DEF Spec, LedgerInv

\* Over a transaction that rolls back, the audit trail tells every account's role
\* whenever no entry is open: a changed role and its event are written together
\* or not at all (_admit_account, _with_role).
THEOREM SignIn_AuditFollowsRole == Spec => []AuditFollowsRole
<1>1. EntryInv => AuditFollowsRole
  BY DEF EntryInv, AuditFollowsRole
<1> QED
  BY <1>1, LedgerInvariance, PTL DEF LedgerInv

-----------------------------------------------------------------------------
(* What an answer promises                                                 *)

\* Only leaving its entry answers a request of the routes with an outcome.
LEMMA AnsweredByExit ==
    ASSUME TypeInv, RequestInv, [Next]_vars, NEW w \in Workers,
           pc[w] # "idle", req[w].op # "admit",
           answer'[w] \notin {"none", "failed", "username-taken"}
    PROVE  Exit(w)
<1>1. answer'[w] # answer[w]
  BY DEF RequestInv, RequestOK
<1>2. ASSUME NEW u \in Workers, AdmissionStep(u) \/ StartStep(u) PROVE FALSE
  <2>1. u = w
    BY <1>1, <1>2, OutsideFrame DEF OthersAlone
  <2>2. pc[w] \in StepsOf(req[w].op) /\ req[w].op \in AllOps
    BY DEF TypeInv, ServedOK, Request
  <2>3. pc[w] \notin {"load", "decide", "touch"}
    BY <2>2 DEF StepsOf, AllOps
  <2> QED
    BY <1>2, <2>1, <2>3 DEF AdmissionStep, StartAdmit, AdmitLoad, AdmitDecide, AdmitTouch,
         AdmitFails, StartStep, StartCallback, StartLogout, StartBackchannel, StartToken,
         StartResource, Begin, Decline
<1>3. ASSUME NEW u \in Workers, Enter(u) PROVE FALSE
  BY <1>1, <1>3, EnterFrame
<1>4. ASSUME NEW u \in Workers, InsideStep(u) PROVE FALSE
  BY <1>1, <1>4, InsideFrame
<1>5. ASSUME NEW u \in Workers, Exit(u) \/ Raise(u) \/ UsernameTaken(u) PROVE Exit(w)
  <2>1. u = w
    BY <1>1, <1>5, LeaveFrame DEF OthersAlone
  <2>2. ~Raise(w) /\ ~UsernameTaken(w)
    BY DEF Raise, UsernameTaken, Leave, Finish, TypeInv, TypeOK
  <2> QED
    BY <1>5, <2>1, <2>2
<1>6. ~HostEnds /\ ~Tick /\ ~UNCHANGED vars
  BY <1>1 DEF HostEnds, Tick, vars
<1> QED
  BY <1>2, <1>3, <1>4, <1>5, <1>6 DEF Next, BlockStep, InsideStep

\* Nothing but leaving it takes a request out of its entry.
LEMMA LeftByLeaving ==
    ASSUME TypeInv, [Next]_vars, NEW w \in Workers, pc[w] \in InBlock, pc'[w] = "idle"
    PROVE  Exit(w) \/ Raise(w) \/ UsernameTaken(w)
<1>1. pc[w] # "idle" /\ "idle" \notin InBlock
  BY DEF InBlock
<1>2. ASSUME NEW u \in Workers, AdmissionStep(u) \/ StartStep(u) PROVE FALSE
  BY <1>1, <1>2, OutsideFrame DEF OthersAlone
<1>3. ASSUME NEW u \in Workers, Enter(u) PROVE FALSE
  BY <1>1, <1>3, EnterFrame DEF OthersAlone
<1>4. ASSUME NEW u \in Workers, InsideStep(u) PROVE FALSE
  BY <1>1, <1>4, InsideFrame DEF OthersAlone
<1>5. ASSUME NEW u \in Workers, Exit(u) \/ Raise(u) \/ UsernameTaken(u)
      PROVE  Exit(w) \/ Raise(w) \/ UsernameTaken(w)
  BY <1>1, <1>5, LeaveFrame DEF OthersAlone
<1>6. ~HostEnds /\ ~Tick /\ ~UNCHANGED vars
  BY <1>1 DEF HostEnds, Tick, vars
<1> QED
  BY <1>2, <1>3, <1>4, <1>5, <1>6 DEF Next, BlockStep, InsideStep

\* What the entry left with Exit has done.
LEMMA ExitWritten ==
    ASSUME LedgerInv, NEW w \in Workers, Exit(w)
    PROVE  /\ pc[w] = "exit" /\ pc[w] \in InBlock
           /\ lock = w /\ lock # NoWorker /\ saved \in Snapshot
           /\ req[w] \in Request /\ req[w].op \in AllOps \ {"admit"}
           /\ UNCHANGED stores /\ lock' = NoWorker
           /\ answer'[w] = Outcome(req[w])
           /\ RollsBack => EntryWritten(w)
<1>1. TypeInv /\ pc[w] = "exit" /\ pc[w] \in InBlock
  BY DEF Exit, InBlock, LedgerInv
<1>2. lock = w /\ lock # NoWorker /\ saved \in Snapshot /\ lock' = NoWorker
  BY <1>1, LeaveFrame
<1>3. UNCHANGED stores /\ answer'[w] = Outcome(req[w])
  BY <1>1 DEF Exit, Finish, TypeInv, TypeOK
<1> QED
  BY <1>1, <1>2, <1>3, ServedInBlock DEF LedgerInv, EntryInv

\* Over a transaction that rolls back, the session a callback's cookie names is
\* durable when the answer leaves: no failure of the entry leaves a browser with
\* a cookie that names nothing.
THEOREM SignIn_CookieNamesDurableSession == Spec => CookieNamesDurableSession
<1> DEFINE Names == RollsBack => \A s \in issued' \ issued : Durable'.rows[s] # NoRow
<1>1. ASSUME LedgerInv, [Next]_vars, RollsBack, NEW s \in issued' \ issued
      PROVE  Durable'.rows[s] # NoRow
  <2>1. \A w \in Workers : AdmissionStep(w) \/ StartStep(w) \/ Enter(w) \/ InsideStep(w) =>
           UNCHANGED issued
    BY <1>1, OutsideFrame, EnterFrame, InsideFrame DEF LedgerInv
  <2>2. HostEnds \/ Tick \/ UNCHANGED vars => UNCHANGED issued
    BY DEF HostEnds, Tick, vars
  <2>3. \A w \in Workers : Raise(w) \/ UsernameTaken(w) => UNCHANGED issued
    BY DEF Raise, UsernameTaken, Leave
  <2>4. PICK w \in Workers : Exit(w)
    BY <1>1, <2>1, <2>2, <2>3 DEF Next, BlockStep, InsideStep
  <2>5. req[w].op = "callback" /\ s = req[w].sid
    BY <1>1, <2>4 DEF Exit
  <2>6. /\ rows' = rows /\ lock' = NoWorker /\ Opened(w)
        /\ s \in Sids /\ NewRow(w) # NoRow
    <3>1. /\ rows' = rows /\ lock' = NoWorker /\ Opened(w) /\ req[w] \in Request
          /\ pc[w] = "exit"
      BY <1>1, <2>4, <2>5, ExitWritten DEF EntryWritten, RowsWritten, At, stores
    <3>2. s \in Sids
      BY <1>1, <2>5, <3>1 DEF LedgerInv, TypeInv, TypeOK, ServedOK
    <3>3. req[w].subject \in Subjects
      BY <1>1, <2>5, <3>1, ServedInBlock DEF LedgerInv, InBlock
    <3>4. NewRow(w) \in Row
      BY <3>1, <3>3, RenewedExpiryInt DEF NewRow, Row, Request
    <3> QED
      BY <3>1, <3>2, <3>4, SignInAssumption
  <2>7. rows[s] = NewRow(w)
    BY <1>1, <2>5, <2>6 DEF Opened, LedgerInv, TypeInv, TypeOK
  <2> QED
    BY <2>6, <2>7 DEF Durable
<1>2. LedgerInv /\ [Next]_vars => [Names]_vars
  BY <1>1
<1> QED
  BY <1>2, LedgerInvariance, PTL DEF Spec, CookieNamesDurableSession

\* Over a transaction that rolls back, a logout answers with the ID-token hint
\* exactly when it ended a session stored as its entry found it, and one that fails
\* leaves that session stored, so that a retry has its hint; only a commit that
\* failed and was durable ends it without (_id_token_of_ended_session).
THEOREM SignIn_LogoutKeepsHint == Spec => LogoutKeepsHint
<1> DEFINE Left(w, found, left) ==
      \/ answer'[w] = "hinted" /\ found # NoRow /\ left = NoRow
      \/ answer'[w] = "unhinted" /\ found = NoRow /\ left = NoRow
      \/ answer'[w] = "failed" /\ left = found
      \/ answer'[w] = "failed" /\ left = NoRow /\ pc[w] = "exit"
<1> DEFINE Keeps ==
      \A w \in Workers :
          RollsBack /\ KeepsIdToken /\ pc[w] \in InBlock /\ pc'[w] = "idle" /\ req[w].op = "logout" =>
              Left(w, saved.rows[req[w].sid], Durable'.rows[req[w].sid])
<1>1. ASSUME LedgerInv, [Next]_vars, NEW w \in Workers, RollsBack, KeepsIdToken,
             pc[w] \in InBlock, pc'[w] = "idle", req[w].op = "logout"
      PROVE  Left(w, saved.rows[req[w].sid], Durable'.rows[req[w].sid])
  <2>1. Exit(w) \/ Raise(w) \/ UsernameTaken(w)
    BY <1>1, LeftByLeaving DEF LedgerInv
  <2>2. /\ lock # NoWorker /\ lock' = NoWorker /\ saved \in Snapshot
        /\ pc[w] \in {"logoutLoad", "logoutDelete", "exit"} /\ req[w].sid \in Sids
    BY <1>1, <2>1, LeaveFrame, ServedInBlock DEF LedgerInv, TypeInv, ServedOK, StepsOf, InBlock
  <2>3. Durable'.rows = rows'
    BY <2>2 DEF Durable
  <2>4. pc[w] = "exit" => rows = Cleared(saved.rows, {req[w].sid})
                          /\ req[w].row = saved.rows[req[w].sid]
    BY <1>1 DEF LedgerInv, EntryInv, EntryWritten, RowsWritten, EntryRead, At
  <2>5. pc[w] = "exit" => rows[req[w].sid] = NoRow
    BY <2>2, <2>4 DEF Cleared
  <2>6. CASE Exit(w)
    <3>1. pc[w] = "exit" /\ rows' = rows /\ answer'[w] = Outcome(req[w])
      BY <1>1, <2>6, ExitWritten DEF stores
    <3> QED
      BY <1>1, <2>3, <2>4, <2>5, <3>1 DEF Outcome
  <2>7. CASE Raise(w)
    <3>1. answer'[w] = "failed"
      BY <1>1, <2>7 DEF Raise, Leave, Finish, LedgerInv, TypeInv, TypeOK
    <3>2. rows' = saved.rows \/ (pc[w] = "exit" /\ rows' = rows)
      BY <1>1, <2>7 DEF Raise, RestoreOrKeep, stores
    <3> QED
      BY <2>3, <2>5, <3>1, <3>2
  <2>8. ~UsernameTaken(w)
    BY <2>2 DEF UsernameTaken
  <2> QED
    BY <2>1, <2>6, <2>7, <2>8
<1>2. LedgerInv /\ [Next]_vars => [Keeps]_vars
  BY <1>1
<1> QED
  BY <1>2, LedgerInvariance, PTL DEF Spec, LogoutKeepsHint

\* An accepted back-channel logout has ended every session its subject had, also
\* those of sign-ins that ran at the same time and over stores that apply each
\* call; over a transaction that rolls back the trail names those it found.
THEOREM SignIn_BackchannelEndsAll == Spec => BackchannelEndsAll
<1> DEFINE Ends ==
      \A w \in Workers :
          pc[w] # "idle" /\ req[w].op = "backchannel" /\ answer'[w] = "accepted" =>
              /\ \A s \in Sids : rows'[s] # NoRow => rows'[s].user # req[w].subject
              /\ RollsBack => {s \in Sids : saved.rows[s] # NoRow /\
                                  saved.rows[s].user = req[w].subject} \subseteq audit'.ended
<1>1. ASSUME LedgerInv, [Next]_vars, NEW w \in Workers,
             pc[w] # "idle", req[w].op = "backchannel", answer'[w] = "accepted"
      PROVE  /\ \A s \in Sids : rows'[s] # NoRow => rows'[s].user # req[w].subject
             /\ RollsBack => SessionsIn(saved.rows, req[w].subject) \subseteq audit'.ended
  <2>1. Exit(w)
    BY <1>1, AnsweredByExit DEF LedgerInv
  <2>2. /\ pc[w] = "exit" /\ UNCHANGED stores /\ saved \in Snapshot
        /\ RollsBack => EntryWritten(w)
    BY <1>1, <2>1, ExitWritten
  <2>3. SessionsIn(rows, req[w].subject) = {}
    BY <1>1, <2>2 DEF LedgerInv, AccountInv, NobodyLeft
  <2>4. RollsBack =>
          audit = [saved.audit EXCEPT !.ended = @ \cup SessionsIn(saved.rows, req[w].subject)]
    BY <1>1, <2>2 DEF EntryWritten, AuditWritten, At
  <2> QED
    BY <2>2, <2>3, <2>4 DEF SessionsIn, stores, Snapshot, Audit
<1>2. LedgerInv /\ [Next]_vars => [Ends]_vars
  BY <1>1 DEF SessionsIn
<1> QED
  BY <1>2, LedgerInvariance, PTL DEF Spec, BackchannelEndsAll

-----------------------------------------------------------------------------
(* The refinement of SessionLedger                                         *)

\* The id of the open entry that Undecided holds back, before and after a step.
LEMMA UndecidedIs ==
    /\ lock = NoWorker => Undecided = {}
    /\ \A w \in Workers : lock = w =>
          Undecided = IF At(w, "exit", "callback") THEN {req[w].sid} ELSE {}
    /\ lock' = NoWorker => Undecided' = {}
    /\ \A w \in Workers : lock' = w =>
          Undecided' = IF pc'[w] = "exit" /\ req'[w].op = "callback" THEN {req'[w].sid} ELSE {}
BY SignInAssumption DEF Undecided, At

LEMMA DurableIs ==
    ASSUME RollsBack
    PROVE  /\ lock = NoWorker =>
                Durable.accounts = accounts /\ Durable.rows = rows /\ Durable.audit = audit
           /\ lock # NoWorker => Durable = saved
           /\ lock' = NoWorker =>
                Durable'.accounts = accounts' /\ Durable'.rows = rows' /\ Durable'.audit = audit'
           /\ lock' # NoWorker => Durable' = saved'
BY DEF Durable

\* A step the ledger does not see.
LEMMA Unseen ==
    ASSUME RollsBack, Durable'.accounts = Durable.accounts, Durable'.rows = Durable.rows,
           Durable'.audit = Durable.audit, minted' \ Undecided' = minted \ Undecided
    PROVE  UNCHANGED Ledger!vars
BY DEF Ledger!vars

LEMMA LedgerInit == Init /\ RollsBack => Ledger!Init
<1> SUFFICES ASSUME Init, RollsBack PROVE Ledger!Init
  OBVIOUS
<1>1. lock = NoWorker
  BY DEF Init
<1> QED
  BY <1>1, DurableIs DEF Init, Ledger!Init

\* A renewal, by a request that the open entry does not keep out.
LEMMA OutsideLedger ==
    ASSUME LedgerInv, RollsBack, NEW w \in Workers, AdmissionStep(w) \/ StartStep(w)
    PROVE  [Ledger!Next]_(Ledger!vars)
<1>1. /\ UNCHANGED <<accounts, audit, minted, lock, saved>> /\ OthersAlone(w)
      /\ pc[w] \notin InBlock /\ pc'[w] \notin InBlock
      /\ rows' # rows => AdmitTouch(w) /\ rows[req[w].sid] # NoRow /\ req[w].sid \in Sids
  BY OutsideFrame DEF LedgerInv
<1>2. Undecided' = Undecided
  <2>1. lock \in Workers \cup {NoWorker}
    BY DEF LedgerInv, TypeInv, TypeOK
  <2> QED
    BY <1>1, <2>1, UndecidedIs DEF At, OthersAlone, InBlock
<1>3. CASE lock # NoWorker \/ rows' = rows
  BY <1>1, <1>2, <1>3, Unseen, DurableIs
<1>4. CASE lock = NoWorker /\ rows' # rows
  <2> DEFINE sid == req[w].sid
             now == req[w].now
  <2>1. AdmitTouch(w) /\ rows[sid] # NoRow /\ sid \in Sids
    BY <1>1, <1>4
  <2>2. now \in Instants
    BY <2>1 DEF AdmitTouch, LedgerInv, RequestInv, RequestOK
  <2>3. req[w].row.created = rows[sid].created
    <3>1. req[w].row \in Row /\ pc[w] = "touch"
      BY <2>1 DEF AdmitTouch, LedgerInv, TypeInv, ServedOK
    <3> QED
      BY <2>1, <3>1, SignInAssumption DEF LedgerInv, RowInv, LoadedOK, SameSession
  <2>4. rows' = [rows EXCEPT ![sid].expires = RenewedExpiry(now, rows[sid].created)]
    BY <2>1, <2>3 DEF AdmitTouch
  <2>5. Ledger!Renew(sid, now)
    <3> HIDE DEF sid, now
    <3> QED
      BY <1>1, <1>2, <1>4, <2>1, <2>4, DurableIs DEF Ledger!Renew, Ledger!RenewedExpiry,
         Ledger!Lesser, RenewedExpiry, Lesser
  <2> QED
    BY <2>1, <2>2, <2>5 DEF Ledger!Next, Instants
<1> QED
  BY <1>3, <1>4

LEMMA EnterLedger ==
    ASSUME LedgerInv, RollsBack, NEW w \in Workers, Enter(w)
    PROVE  UNCHANGED Ledger!vars
<1>1. /\ UNCHANGED minted /\ lock = NoWorker /\ lock' = w /\ lock' # NoWorker
      /\ saved'.accounts = accounts /\ saved'.rows = rows /\ saved'.audit = audit
      /\ pc'[w] # "exit"
  BY EnterFrame, SignInAssumption DEF LedgerInv
<1>2. Undecided = {} /\ Undecided' = {}
  BY <1>1, UndecidedIs
<1> QED
  BY <1>1, <1>2, Unseen, DurableIs

\* Inside the entry nothing shows, not even the id Create is given.
LEMMA InsideLedger ==
    ASSUME LedgerInv, RollsBack, NEW w \in Workers, InsideStep(w)
    PROVE  UNCHANGED Ledger!vars
<1>1. /\ UNCHANGED <<lock, saved>> /\ lock = w /\ lock # NoWorker /\ pc[w] \in InBlock
      /\ req[w] \in Request /\ req[w].op \in AllOps /\ pc[w] \in StepsOf(req[w].op)
  BY InsideFrame, ServedInBlock DEF LedgerInv
<1>2. pc[w] # "exit"
  BY DEF InsideStep, AdmitAccount, AuditRole, EndReplaced, Prune, Create, LogoutLoad,
         LogoutDelete, EndAll, AuditLogout, Lookup
<1>3. Undecided = {}
  BY <1>1, <1>2, UndecidedIs DEF At
<1>4. minted' \ Undecided' = minted
  <2>1. CASE Create(w)
    <3>1. PICK sid \in Sids \ minted :
            minted' = minted \cup {sid} /\ req' = [req EXCEPT ![w].sid = sid]
      BY <2>1 DEF Create
    <3>2. /\ pc'[w] = "exit" /\ req'[w].op = "callback" /\ req'[w].sid = sid
      BY <1>1, <2>1, <3>1 DEF Create, Goto, AllOps, StepsOf, Request, LedgerInv, TypeInv, TypeOK
    <3> QED
      BY <1>1, <3>1, <3>2, UndecidedIs
  <2>2. CASE ~Create(w)
    <3>1. UNCHANGED minted
      BY <2>2 DEF InsideStep, AdmitAccount, AuditRole, EndReplaced, Prune, LogoutLoad,
                  LogoutDelete, EndAll, AuditLogout, Lookup
    <3>2. ~(pc'[w] = "exit" /\ req'[w].op = "callback")
      <4>1. req'[w].op = req[w].op
        <5>1. \/ req' = req
              \/ \E now : req' = [req EXCEPT ![w].now = now]
              \/ \E row : req' = [req EXCEPT ![w].row = row]
              \/ \E ended : req' = [req EXCEPT ![w].ended = ended]
              \/ \E role : req' = [req EXCEPT ![w].role = role]
          BY <2>2 DEF InsideStep, AdmitAccount, AuditRole, EndReplaced, Prune, LogoutLoad,
                      LogoutDelete, EndAll, AuditLogout, Lookup
        <5> QED
          BY <1>1, <5>1 DEF LedgerInv, TypeInv, TypeOK, Request
      <4>2. CASE pc[w] \in {"account", "audit"}
        BY <2>2, <4>1, <4>2 DEF InsideStep, AdmitAccount, AuditRole, EndReplaced, Prune,
             LogoutLoad, LogoutDelete, EndAll, AuditLogout, Lookup, Goto, AfterAccount,
             LedgerInv, TypeInv, TypeOK
      <4>3. CASE pc[w] \in {"replace", "prune"}
        BY <2>2, <4>3 DEF InsideStep, AdmitAccount, AuditRole, EndReplaced, Prune,
             LogoutLoad, LogoutDelete, EndAll, AuditLogout, Lookup, Goto, LedgerInv, TypeInv, TypeOK
      <4>4. CASE pc[w] \in {"logoutLoad", "logoutDelete", "endAll", "auditLogout", "lookup"}
        <5>1. req[w].op # "callback"
          BY <1>1, <4>4 DEF StepsOf
        <5> QED
          BY <4>1, <5>1
      <4> QED
        BY <2>2, <4>2, <4>3, <4>4 DEF InsideStep, AdmitAccount, AuditRole, EndReplaced, Prune,
             LogoutLoad, LogoutDelete, EndAll, AuditLogout, Lookup
    <3> QED
      BY <1>1, <3>1, <3>2, UndecidedIs
  <2> QED
    BY <2>1, <2>2
<1> QED
  BY <1>1, <1>3, <1>4, Unseen, DurableIs

\* An entry whose writes become durable is one step of the ledger.
LEMMA CommitLedger ==
    ASSUME LedgerInv, RollsBack, NEW w \in Workers, pc[w] = "exit",
           lock' = NoWorker, UNCHANGED <<accounts, rows, audit, minted>>
    PROVE  [Ledger!Next]_(Ledger!vars)
<1>1. /\ lock = w /\ lock # NoWorker /\ saved \in Snapshot /\ EntryWritten(w)
      /\ req[w] \in Request /\ req[w].op \in AllOps \ {"admit"}
  BY ServedInBlock, SignInAssumption DEF LedgerInv, EntryInv, TypeInv, EntryOK, InBlock
<1>2. /\ Durable.accounts = saved.accounts /\ Durable'.accounts = accounts
      /\ Durable.rows = saved.rows /\ Durable'.rows = rows
      /\ Durable.audit = saved.audit /\ Durable'.audit = audit
      /\ Undecided' = {}
  BY <1>1, DurableIs, UndecidedIs
<1>3. req[w].op # "callback" => Undecided = {}
  BY <1>1, UndecidedIs DEF At
<1>4. /\ req[w].op \in {"callback", "token"} => req[w].subject \in Subjects /\ req[w].role \in Roles
      /\ req[w].op = "backchannel" => req[w].subject \in Subjects
      /\ req[w].op = "logout" => req[w].sid \in Sids
  BY ServedInBlock DEF LedgerInv, InBlock
<1>5. CASE req[w].op = "callback"
  <2> DEFINE user == req[w].subject
             role == req[w].role
             new == req[w].sid
             now == req[w].now
  <2>1. /\ accounts = [saved.accounts EXCEPT ![user] = role]
        /\ audit = [saved.audit EXCEPT !.roles[user] = role]
        /\ Opened(w)
    BY <1>1, <1>5 DEF EntryWritten, AccountWritten, AuditWritten, RowsWritten, At
  <2>2. /\ new \in minted /\ new \in Sids /\ now \in Instants
        /\ Undecided = {new}
    <3>1. new \in minted /\ now \in Instants
      BY <1>5 DEF LedgerInv, TypeInv, ServedOK, RequestInv, RequestOK, At
    <3> QED
      BY <1>1, <1>5, <3>1, UndecidedIs DEF At, LedgerInv, TypeInv, TypeOK
  <2>3. PICK replaced \in Sids \cup {NoSid} :
          \E kept \in Ledger!Survivors(user, Cleared(saved.rows, {replaced})) :
              [rows EXCEPT ![new] = NoRow] =
                  Cleared(Cleared(saved.rows, {replaced}),
                          SessionsIn(Cleared(saved.rows, {replaced}), user) \ kept)
    BY <2>1, Zenon DEF Opened, MadeRoom
  <2> DEFINE left == Ledger!Ended({replaced})
  <2>4. left = Cleared(saved.rows, {replaced})
    BY <1>2 DEF Ledger!Ended, Cleared
  <2>5. PICK kept \in Ledger!Survivors(user, left) :
          [rows EXCEPT ![new] = NoRow] = Cleared(left, SessionsIn(left, user) \ kept)
    BY <2>3, <2>4
  <2>6. /\ rows[new] = NewRow(w)
        /\ \A s \in Sids \ {new} :
              rows[s] = IF s \in SessionsIn(left, user) \ kept THEN NoRow ELSE left[s]
    <3>1. rows = [[rows EXCEPT ![new] = NoRow] EXCEPT ![new] = NewRow(w)]
      BY <2>1 DEF Opened
    <3>2. rows[new] = NewRow(w)
      BY <2>2, <3>1 DEF LedgerInv, TypeInv, TypeOK
    <3>3. \A s \in Sids \ {new} : rows[s] = [rows EXCEPT ![new] = NoRow][s]
      BY DEF LedgerInv, TypeInv, TypeOK
    <3> HIDE DEF left
    <3> QED
      BY <2>5, <3>2, <3>3 DEF Cleared
  <2>7. Ledger!Of(user, left) = SessionsIn(left, user) /\ new \notin SessionsIn(left, user)
    <3> HIDE DEF left
    <3> QED
      BY <2>1, <2>2, <2>4 DEF Ledger!Of, SessionsIn, Opened, Cleared
  <2>8. NewRow(w) = [user |-> user, created |-> now, expires |-> Ledger!RenewedExpiry(now, now)]
    BY DEF NewRow, Ledger!RenewedExpiry, Ledger!Lesser, RenewedExpiry, Lesser
  <2>9. rows = [s \in Sids |->
                  CASE s = new -> [user |-> user, created |-> now,
                                   expires |-> Ledger!RenewedExpiry(now, now)]
                    [] s \in Ledger!Of(user, left) \ kept -> NoRow
                    [] OTHER -> left[s]]
    <3>1. rows \in [Sids -> Row \cup {NoRow}]
      BY DEF LedgerInv, TypeInv, TypeOK
    <3> HIDE DEF left, new, user, now
    <3> QED
      BY <2>2, <2>6, <2>7, <2>8, <3>1
  <2>10. Ledger!SignIn(user, role, replaced, new, now)
    <3>1. Ledger!Admits(user, role)
      BY <1>2, <2>1 DEF Ledger!Admits
    <3>2. /\ new \notin (minted \ (IF RollsBack THEN Undecided ELSE {}))
          /\ (minted \ (IF RollsBack THEN Undecided ELSE {}))' =
                (minted \ (IF RollsBack THEN Undecided ELSE {})) \cup {new}
      BY <1>2, <2>2
    <3>3. \E survivors \in Ledger!Survivors(user, left) :
            Durable'.rows = [s \in Sids |->
                CASE s = new -> [user |-> user, created |-> now,
                                 expires |-> Ledger!RenewedExpiry(now, now)]
                  [] s \in Ledger!Of(user, left) \ survivors -> NoRow
                  [] OTHER -> left[s]]
      <4> HIDE DEF left, new, user, now
      <4> QED
        BY <1>2, <2>5, <2>9
    <3> HIDE DEF new, user, now, role
    <3> QED
      BY <3>1, <3>2, <3>3, Zenon DEF Ledger!SignIn
  <2> QED
    BY <1>4, <1>5, <2>2, <2>10 DEF Ledger!Next, Instants
<1>6. CASE req[w].op = "token"
  <2>1. /\ accounts = [saved.accounts EXCEPT ![req[w].subject] = req[w].role]
        /\ audit = [saved.audit EXCEPT !.roles[req[w].subject] = req[w].role]
        /\ rows = saved.rows
    BY <1>1, <1>6 DEF EntryWritten, AccountWritten, AuditWritten, RowsWritten, At
  <2>2. Ledger!Admits(req[w].subject, req[w].role)
    BY <1>2, <2>1 DEF Ledger!Admits
  <2>3. /\ Durable'.rows = Durable.rows
        /\ minted' \ (IF RollsBack THEN Undecided' ELSE {}) =
              minted \ (IF RollsBack THEN Undecided ELSE {})
    BY <1>2, <1>3, <1>6, <2>1
  <2> QED
    BY <1>4, <1>6, <2>2, <2>3 DEF Ledger!Next
<1>7. CASE req[w].op = "logout"
  <2>1. accounts = saved.accounts /\ audit = saved.audit /\ rows = Cleared(saved.rows, {req[w].sid})
    BY <1>1, <1>7 DEF EntryWritten, AccountWritten, AuditWritten, RowsWritten, At
  <2>2. Ledger!End(req[w].sid)
    BY <1>2, <1>3, <1>7, <2>1 DEF Ledger!End, Ledger!Ended, Cleared
  <2> QED
    BY <1>4, <1>7, <2>2 DEF Ledger!Next
<1>8. CASE req[w].op = "backchannel"
  <2> DEFINE ended == SessionsIn(saved.rows, req[w].subject)
  <2>1. /\ accounts = saved.accounts /\ rows = Cleared(saved.rows, ended)
        /\ audit = [saved.audit EXCEPT !.ended = @ \cup ended]
    BY <1>1, <1>8 DEF EntryWritten, AccountWritten, AuditWritten, RowsWritten, At
  <2>2. Ledger!Of(req[w].subject, Durable.rows) = ended
    BY <1>2 DEF Ledger!Of, SessionsIn
  <2>3. Ledger!EndAllOf(req[w].subject)
    BY <1>2, <1>3, <1>8, <2>1, <2>2 DEF Ledger!EndAllOf, Ledger!Ended, Cleared
  <2> QED
    BY <1>4, <1>8, <2>3 DEF Ledger!Next
<1>9. CASE req[w].op = "resource"
  <2>1. accounts = saved.accounts /\ audit = saved.audit /\ rows = saved.rows
    BY <1>1, <1>9 DEF EntryWritten, AccountWritten, AuditWritten, RowsWritten, At
  <2> QED
    BY <1>2, <1>3, <1>9, <2>1, Unseen
<1> QED
  BY <1>1, <1>5, <1>6, <1>7, <1>8, <1>9 DEF AllOps

\* A failing entry leaves no trace but the id it was given, unless its commit
\* took effect after all.
LEMMA LeaveLedger ==
    ASSUME LedgerInv, RollsBack, NEW w \in Workers, Exit(w) \/ Raise(w) \/ UsernameTaken(w)
    PROVE  [Ledger!Next]_(Ledger!vars)
<1>1. /\ UNCHANGED minted /\ pc[w] \in InBlock /\ saved \in Snapshot
      /\ lock = w /\ lock # NoWorker /\ lock' = NoWorker
  BY LeaveFrame DEF LedgerInv
<1>2. CASE UNCHANGED stores /\ pc[w] = "exit"
  BY <1>1, <1>2, CommitLedger DEF stores
<1>3. CASE RestoreOrKeep
  <2>1. /\ Durable'.accounts = Durable.accounts /\ Durable'.rows = Durable.rows
        /\ Durable'.audit = Durable.audit
    BY <1>1, <1>3, DurableIs DEF RestoreOrKeep
  <2>2. Undecided' = {}
    BY <1>1, UndecidedIs
  <2>3. CASE At(w, "exit", "callback")
    <3>1. req[w].sid \in minted /\ req[w].sid \in Sids /\ Undecided = {req[w].sid}
      BY <1>1, <2>3, UndecidedIs DEF At, LedgerInv, TypeInv, TypeOK, ServedOK
    <3>2. Ledger!Lose(req[w].sid)
      BY <1>1, <2>1, <2>2, <3>1 DEF Ledger!Lose
    <3> QED
      BY <3>1, <3>2 DEF Ledger!Next
  <2>4. CASE ~At(w, "exit", "callback")
    BY <1>1, <2>1, <2>2, <2>4, UndecidedIs, Unseen
  <2> QED
    BY <2>3, <2>4
<1> QED
  BY <1>2, <1>3 DEF Exit, Raise, UsernameTaken

LEMMA NextLedger == LedgerInv /\ RollsBack /\ [Next]_vars => [Ledger!Next]_(Ledger!vars)
<1> SUFFICES ASSUME LedgerInv, RollsBack, [Next]_vars PROVE [Ledger!Next]_(Ledger!vars)
  OBVIOUS
<1>1. ASSUME NEW w \in Workers, AdmissionStep(w) \/ StartStep(w)
      PROVE  [Ledger!Next]_(Ledger!vars)
  BY <1>1, OutsideLedger
<1>2. ASSUME NEW w \in Workers, Enter(w) PROVE [Ledger!Next]_(Ledger!vars)
  BY <1>2, EnterLedger
<1>3. ASSUME NEW w \in Workers, InsideStep(w) PROVE [Ledger!Next]_(Ledger!vars)
  BY <1>3, InsideLedger
<1>4. ASSUME NEW w \in Workers, Exit(w) \/ Raise(w) \/ UsernameTaken(w)
      PROVE  [Ledger!Next]_(Ledger!vars)
  BY <1>4, LeaveLedger
<1>5. CASE HostEnds
  <2>1. PICK sid \in Sids : rows' = Without({sid})
    BY <1>5 DEF HostEnds
  <2>2. lock = NoWorker /\ UNCHANGED <<accounts, audit, minted, lock>>
    BY <1>5 DEF HostEnds
  <2>3. Undecided = {} /\ Undecided' = {}
    BY <2>2, UndecidedIs
  <2>4. Ledger!End(sid)
    BY <2>1, <2>2, <2>3, DurableIs DEF Ledger!End, Ledger!Ended, Without
  <2> QED
    BY <2>4 DEF Ledger!Next
<1>6. CASE Tick \/ UNCHANGED vars
  <2>1. UNCHANGED <<accounts, rows, audit, minted, lock, saved, pc, req>>
    BY <1>6 DEF Tick, vars, stores
  <2>2. Durable' = Durable /\ Undecided' = Undecided
    BY <2>1 DEF Durable, Undecided
  <2> QED
    BY <2>1, <2>2, Unseen
<1> QED
  BY <1>1, <1>2, <1>3, <1>4, <1>5, <1>6 DEF Next, BlockStep, InsideStep

\* Over a transaction that rolls back, every entry of the routes and every
\* renewal takes effect as a whole or not at all, however their calls interleave
\* and whichever of them fail: SignIn implements SessionLedger.
THEOREM SignIn_LedgerSpec ==
    ASSUME RollsBack
    PROVE  Spec => LedgerSpec
<1>1. Init => Ledger!Init
  BY LedgerInit
<1>2. LedgerInv /\ [Next]_vars => [Ledger!Next]_(Ledger!vars)
  BY NextLedger
<1> QED
  BY <1>1, <1>2, LedgerInvariance, PTL DEF Spec, LedgerSpec, Ledger!Spec

=============================================================================
