---------------------------- MODULE RequestGates ----------------------------
(***************************************************************************)
(* One request inside the library's middleware of an app: the bearer gate  *)
(* (middleware/bearer_gate.py), the CSRF origin check (middleware/csrf.py) *)
(* and the session gate (middleware/session_gate.py); then host code,      *)
(* which may change the request or hand it to a sub-app that may have      *)
(* gates of its own; then a route, which reads who the request is from     *)
(* through the readers of dependencies.py, session_gate.py and             *)
(* bearer_gate.py.  Every layer judges the request as it is when the layer *)
(* is entered, and the records it leaves in the scope stay there whatever  *)
(* happens to the request afterwards.                                      *)
(***************************************************************************)
CONSTANTS
    Apps, MainApp,
    ConfigOf,      \* the WebAuthConfig instance installed on each app
    Policy,        \* of each app: its layers and the paths each of them selects
    Requests,      \* the requests that may arrive at the main app
    Tokens,        \* the Authorization values with one readable bearer token
    Claims,        \* of each token: audiences, party, owner, role and scoped
    Sids,          \* the cookie values that name a session
    SignedUnder,   \* the configuration each of them is read under
    SessionPerson, \* the account of each session
    Nothing        \* no record, no refusal, no account

VARIABLES
    stage,      \* the layer that decides next, "inside", "route" or "answered"
    request,    \* app, path, method, auth, cookie, site
    arrived,    \* the request as it arrived
    rewritten,  \* host code has changed it
    bearerMemo, \* scope["webauth.bearer_gate"]
    gateMemo,   \* scope["webauth.session_gate"]
    live,       \* the sessions a store would admit
    vouched,    \* the request the bearer gate last admitted, as it was then
    looked,     \* whether a session gate asked the store
    answer      \* what the request was refused with

gateVars == <<stage, request, arrived, rewritten, bearerMemo, gateMemo, live, vouched, looked, answer>>

Mutating == {"POST"}  \* of the modelled methods
Person(who, role, via) == [kind |-> "person", who |-> who, role |-> role, via |-> via]
Caller(who) == [kind |-> "machine", who |-> who, role |-> "none", via |-> "machine"]
Refused == [kind |-> "refused", who |-> Nothing, role |-> "none", via |-> "none"]
Raises == [Refused EXCEPT !.kind = "raises"]   \* a RuntimeError
SignedOut == [Refused EXCEPT !.kind = "None"]  \* None
Rules == Policy[request.app]
IsHandshake == request.method = "websocket"

-----------------------------------------------------------------------------
\* The order of the layers.

\* Mutant: the session gate outside the CSRF check.
SwappedLayers == [rate |-> "bearer", bearer |-> "session", session |-> "csrf", csrf |-> "inside"]

\* _library_middleware, from the rate limit inwards
NextLayer == [rate |-> "bearer", bearer |-> "csrf", csrf |-> "session", session |-> "inside"]

\* The next layer the app has; there are four it may lack.
Installed(layer, app) ==
    LET Skip(l) == IF l = "inside" \/ l \in Policy[app].layers THEN l ELSE NextLayer[l]
    IN  Skip(Skip(Skip(Skip(layer))))

Pass == stage' = Installed(NextLayer[stage], request.app) /\ UNCHANGED answer
Refuse(with) == stage' = "answered" /\ answer' = with
NoRecord == UNCHANGED <<bearerMemo, vouched>>

-----------------------------------------------------------------------------
\* The bearer gate.

\* _credential_of
Credential(auth) ==
    CASE auth \in Tokens -> auth
      [] auth \in {"no-header", "another-scheme"} -> "no-credentials"
      [] auth = "not-a-b64token" -> "invalid-token"
      [] OTHER -> "invalid-request"

\* What verify_access_token may find of a token for a client's parties: one that
\* holds may also be expired, or its keys out of reach.
AccessVerdicts(token, parties) ==
    {"refused"} \cup IF Claims[token].audiences = {"client"} /\ Claims[token].party \in parties THEN {"holds"} ELSE {}

\* The same for the resource's verifier, which names a foreign audience.
ResourceVerdicts(token) ==
    {"refused"} \cup
    IF "resource" \notin Claims[token].audiences THEN {"another-audience"}
    ELSE IF Claims[token].audiences # {"resource"} \/ Claims[token].party \notin Rules.agents THEN {}
    ELSE IF Claims[token].scoped THEN {"holds"} ELSE {"insufficient-scope"}

IsMachinePath == request.path \in Rules.machine
IsMarked == <<request.method, request.path>> \in Rules.marked
IsEntryPoint == request.path = Rules.entry
IsPersonPath == request.path \in Rules.person

\* _record_bearer_admission
RecordBearer(principal, ofResource) ==
    /\ bearerMemo' = [app |-> request.app, path |-> request.path, auth |-> request.auth,
                      principal |-> principal,
                      method |-> IF ofResource THEN request.method ELSE Nothing]
    /\ vouched' = request

\* _machine_refusal
MachineDecides ==
    LET credential == Credential(request.auth) IN
    IF credential \notin Tokens
    THEN Refuse(<<401, credential>>) /\ NoRecord
    ELSE \E verdict \in AccessVerdicts(credential, Rules.machines) :
            IF verdict = "refused" THEN Refuse(<<401, "invalid-token">>) /\ NoRecord
            ELSE IF Claims[credential].role # "admin" THEN Refuse(<<403, "insufficient-scope">>) /\ NoRecord
            ELSE RecordBearer(Caller(Claims[credential].owner), FALSE) /\ Pass

\* _person_refusal and _admit_token_holder, whose account may be refused
PersonDecides ==
    LET credential == Credential(request.auth) IN
    IF credential = "no-credentials" THEN Pass /\ NoRecord
    ELSE IF credential \notin Tokens THEN Refuse(<<401, credential>>) /\ NoRecord
    ELSE \E verdict \in AccessVerdicts(credential, Rules.persons) :
            IF verdict = "refused" THEN Refuse(<<401, "invalid-token">>) /\ NoRecord
            ELSE IF Claims[credential].role = "none" THEN Refuse(<<403, "not-a-member">>) /\ NoRecord
            ELSE \/ Refuse(<<403, "username-taken">>) /\ NoRecord
                 \/ Refuse(<<500, "raised">>) /\ NoRecord
                 \/ /\ RecordBearer(Person(Claims[credential].owner, Claims[credential].role, "token"), FALSE)
                    /\ Pass

\* A request the resource does not decide, or no longer decides.
Unmarked == IF IsPersonPath THEN PersonDecides ELSE Pass /\ NoRecord

\* Whether a marked route hands the request on: AS_UNMARKED
HandsOn(credential, verdict) ==
    ~IsEntryPoint /\ (credential = "no-credentials" \/ verdict = "another-audience")

\* _resource_refusal; the person admitted is known and a member, whose role is capped
ResourceDecides ==
    LET credential == Credential(request.auth)
        verdicts == IF credential \in Tokens THEN ResourceVerdicts(credential) ELSE {"none"}
    IN  \E verdict \in verdicts :
            IF HandsOn(credential, verdict) THEN Unmarked
            ELSE IF verdict # "holds"
            THEN /\ Refuse(CASE verdict = "none" -> <<401, credential>>
                             [] verdict = "insufficient-scope" -> <<403, verdict>>
                             [] OTHER -> <<401, "invalid-token">>)
                 /\ NoRecord
            ELSE \/ Refuse(<<403, "resource-not-admitted">>) /\ NoRecord
                 \/ Refuse(<<500, "raised">>) /\ NoRecord
                 \/ /\ Claims[credential].role # "none"
                    /\ RecordBearer(Person(Claims[credential].owner, "user", "resource"), TRUE)
                    /\ Pass

BearerLayer ==
    /\ stage = "bearer"
    /\ IF IsMachinePath THEN MachineDecides
       ELSE IF IsEntryPoint \/ IsMarked THEN ResourceDecides
       ELSE Unmarked
    /\ UNCHANGED <<request, arrived, rewritten, gateMemo, live, looked>>

-----------------------------------------------------------------------------
\* What the readers and the other layers make of the bearer gate's record.

\* Mutant: the record's app is not compared.
StrictWhateverApp ==
    IF /\ bearerMemo # Nothing
       /\ bearerMemo.path = request.path
       /\ bearerMemo.method \in {Nothing, request.method}
       /\ bearerMemo.auth = request.auth
    THEN bearerMemo ELSE Nothing

\* _bearer_admission: only when it was made for this very request
BearerAdmission ==
    IF /\ bearerMemo # Nothing
       /\ bearerMemo.app = request.app
       /\ bearerMemo.path = request.path
       /\ bearerMemo.method \in {Nothing, request.method}
       /\ bearerMemo.auth = request.auth
    THEN bearerMemo ELSE Nothing

\* _admitted_token_person
TokenPerson ==
    IF BearerAdmission # Nothing /\ BearerAdmission.principal.kind = "person"
    THEN BearerAdmission.principal ELSE Nothing

\* Mutant: whatever carries a bearer token needs no origin.
CsrfSkipsTokens ==
    /\ stage = "csrf"
    /\ IF /\ request.method \in Mutating
          /\ request.path \notin Rules.csrfExempt
          /\ request.auth \notin Tokens
          /\ request.site \notin {"same-origin", "allowed"}
       THEN Refuse(<<403, "cross-origin">>)
       ELSE Pass
    /\ UNCHANGED <<request, arrived, rewritten, bearerMemo, gateMemo, live, vouched, looked>>

\* CsrfOriginMiddleware._refusal; site is "same-origin" by Sec-Fetch-Site, else
\* the verdict of _origin_check_refusal
CsrfLayer ==
    /\ stage = "csrf"
    /\ IF /\ request.method \in Mutating
          /\ request.path \notin Rules.csrfExempt
          /\ BearerAdmission = Nothing
          /\ request.site \notin {"same-origin", "allowed"}
       THEN Refuse(<<403, "cross-origin">>)
       ELSE Pass
    /\ UNCHANGED <<request, arrived, rewritten, bearerMemo, gateMemo, live, vouched, looked>>

-----------------------------------------------------------------------------
\* The session gate.

\* _read_session_cookie; a cookie of another configuration has another name
Reading(cookie, config) ==
    IF cookie \in Sids /\ SignedUnder[cookie] # config THEN "no-session" ELSE cookie

CookieReading == Reading(request.cookie, ConfigOf[request.app])

\* admit_session, without the renewal
Admit(sid) == IF sid \in live THEN SessionPerson[sid] ELSE Refused

\* _resolve_session
OwnAdmission == IF CookieReading \in Sids THEN Admit(CookieReading) ELSE Refused

\* Mutant: a public prefix opens what a dot segment leads out of it.
PublicWhateverDots == <<request.method, request.path>> \in Rules.public

\* _is_public
IsPublic ==
    <<request.method, request.path>> \in Rules.public /\ request.path \notin Rules.dotted

\* _is_optional
IsOptional == request.path \in Rules.optional \ Rules.dotted

RecordGate(admission) ==
    gateMemo' = [config |-> ConfigOf[request.app], reading |-> CookieReading, admission |-> admission]

\* SessionGateMiddleware._refusal and _refused_or_passed
SessionLayer ==
    /\ stage = "session"
    /\ \/ BearerAdmission # Nothing /\ Pass /\ UNCHANGED <<gateMemo, looked>>
       \/ /\ BearerAdmission = Nothing /\ IsPublic
          /\ RecordGate(Nothing) /\ Pass /\ UNCHANGED looked
       \/ /\ BearerAdmission = Nothing /\ ~IsPublic
          /\ IF OwnAdmission = Refused /\ ~IsOptional
             THEN Refuse(<<401, "session">>) /\ UNCHANGED gateMemo
             ELSE RecordGate(OwnAdmission) /\ Pass
          /\ looked' = (looked \/ CookieReading \in Sids)
    /\ UNCHANGED <<request, arrived, rewritten, bearerMemo, live, vouched>>

\* The store or the transaction the gate enters raises.
SessionRaises ==
    /\ stage = "session" /\ BearerAdmission = Nothing /\ ~IsPublic /\ CookieReading \in Sids
    /\ looked' = TRUE
    /\ Refuse(<<500, "raised">>)
    /\ UNCHANGED <<request, arrived, rewritten, bearerMemo, gateMemo, live, vouched>>

-----------------------------------------------------------------------------
\* Host code inside the layers, and what happens meanwhile.

\* A middleware of the host's changes one field of the request.
HostRewrites(field, value) ==
    /\ stage = "inside" /\ ~rewritten
    /\ value # request[field] /\ (IsHandshake => field # "method")
    /\ request' = [request EXCEPT ![field] = value]
    /\ rewritten' = TRUE
    /\ UNCHANGED <<stage, arrived, bearerMemo, gateMemo, live, vouched, looked, answer>>

\* A mount hands the request to another app, which judges it in turn.
Mount(app) ==
    /\ stage = "inside" /\ request.app = MainApp /\ app # MainApp
    /\ request' = [request EXCEPT !.app = app]
    /\ stage' = IF IsHandshake THEN "inside" ELSE Installed("rate", app)
    /\ UNCHANGED <<arrived, rewritten, bearerMemo, gateMemo, live, vouched, looked, answer>>

Route ==
    /\ stage = "inside"
    /\ stage' = "route"
    /\ UNCHANGED <<request, arrived, rewritten, bearerMemo, gateMemo, live, vouched, looked, answer>>

\* A logout elsewhere, or its expiry.
SessionEnds(sid) ==
    /\ sid \in live
    /\ live' = live \ {sid}
    /\ UNCHANGED <<stage, request, arrived, rewritten, bearerMemo, gateMemo, vouched, looked, answer>>

-----------------------------------------------------------------------------
\* The readers of a route.

\* _is_bearer_admitted: any record, whatever request carries it
IsBearerAdmitted == bearerMemo # Nothing

\* Mutant: the cookie is not read again.
GateDecisionOfAnyCookie ==
    IF gateMemo # Nothing /\ gateMemo.config = ConfigOf[request.app] THEN gateMemo ELSE Nothing

\* _gate_admission: only when it was made from this cookie under this configuration
GateAdmission ==
    IF /\ gateMemo # Nothing
       /\ gateMemo.config = ConfigOf[request.app]
       /\ gateMemo.reading = CookieReading
    THEN gateMemo ELSE Nothing

\* current_user, by _gate_or_own_admission
CurrentUser ==
    CASE TokenPerson # Nothing -> TokenPerson
      [] TokenPerson = Nothing /\ IsBearerAdmitted -> Raises
      [] ~IsBearerAdmitted /\ GateAdmission # Nothing /\ GateAdmission.admission # Nothing ->
            GateAdmission.admission
      [] OTHER -> OwnAdmission

\* admitted_user
AdmittedUser ==
    CASE TokenPerson # Nothing -> TokenPerson
      [] TokenPerson = Nothing /\ IsBearerAdmitted ->
            IF bearerMemo.principal.kind = "person" THEN Raises ELSE SignedOut
      [] ~IsBearerAdmitted /\ GateAdmission = Nothing -> Raises
      [] OTHER -> IF GateAdmission.admission \in {Nothing, Refused} THEN SignedOut
                  ELSE GateAdmission.admission

\* admitted_admin
AdmittedAdmin ==
    IF TokenPerson = Nothing /\ IsBearerAdmitted THEN Raises
    ELSE IF AdmittedUser.role = "admin" \/ AdmittedUser = Raises THEN AdmittedUser ELSE Refused

\* bearer_caller
BearerCaller ==
    IF BearerAdmission # Nothing /\ BearerAdmission.principal.kind = "machine"
    THEN BearerAdmission.principal ELSE Raises

\* resource_person
ResourcePerson ==
    IF TokenPerson # Nothing /\ BearerAdmission.method # Nothing THEN TokenPerson ELSE Raises

\* session_id_from_request
SessionId == IF IsBearerAdmitted \/ CookieReading \notin Sids THEN Nothing ELSE CookieReading

\* authenticate_websocket: by an allowed Origin alone
WebSocketUser == IF request.site = "allowed" THEN OwnAdmission ELSE Refused

Readers ==
    IF IsHandshake THEN {WebSocketUser, AdmittedUser}
    ELSE {CurrentUser, AdmittedUser, AdmittedAdmin, BearerCaller, ResourcePerson}

=============================================================================
