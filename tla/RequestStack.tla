---------------------------- MODULE RequestStack ----------------------------
(***************************************************************************)
(* One request from its client to a route of the host, through the layers  *)
(* install_web_auth_middleware puts around an app (middleware/stack.py):   *)
(* policy headers and body limit (BodySize), rate limit, whose client is   *)
(* named by the proxies on the way (ClientIdentity), bearer gate, CSRF and *)
(* session gate (RequestGates), and back again.  What refuses or routes    *)
(* the request is the app of BodySize.                                     *)
(***************************************************************************)
EXTENDS Naturals, Sequences, RequestGates, ClientIdentity, BodySize

CONSTANTS
    BudgetNames,   \* of each path, the budget it spends from; a path not in it is exempt
    BodyLimits,    \* of each path, BodySizePolicy.max_bytes
    Pieces,        \* the sizes in which a body arrives
    Paths, Methods, Auths, Cookies, Sites,  \* what the fields of a request may be
    Rewrites,      \* what host code may set a field to, a set of <<field, value>>
    TravellingRequests, \* bound: the requests that come through proxies
    AnsweredRequests    \* bound: the requests followed through body and response; in
                        \* the others host code, mounts and logouts intervene

ASSUME RequestStackAssumption ==
    /\ \A r \in Requests : r.body \in Nat /\ BodyLimits[r.path] \in Nat
    /\ Pieces \subseteq Nat

\* The records of a request, of an admitted token and of the session gate's decision.
RequestRecord == [app: Apps, path: Paths, method: Methods, auth: Auths, cookie: Cookies,
                  site: Sites, body: Nat, declared: BOOLEAN]
Principal == [kind: {"person", "machine"}, who: {Claims[t].owner : t \in Tokens},
              role: {"admin", "user", "none"}, via: {"machine", "token", "resource"}]
BearerRecord == [app: Apps, path: Paths, auth: Auths, principal: Principal,
                 method: Methods \cup {Nothing}]
Accounts == {SessionPerson[sid] : sid \in Sids}
GateRecord == [config: {ConfigOf[app] : app \in Apps}, reading: Cookies \cup {"no-session"},
               admission: {Nothing, Refused} \cup Accounts]

\* Requests arrive at the main app, whose stack always checks the origin
\* (install_web_auth_middleware); host code makes no request a handshake.
ASSUME RequestsAssumption ==
    /\ \A r \in Requests : r \in RequestRecord /\ r.app = MainApp
    /\ \A r \in Rewrites :
          \/ r[1] = "path" /\ r[2] \in Paths
          \/ r[1] = "method" /\ r[2] \in Methods \ {"websocket"}
          \/ r[1] = "auth" /\ r[2] \in Auths
          \/ r[1] = "cookie" /\ r[2] \in Cookies
    /\ "csrf" \in Policy[MainApp].layers

\* A session is a person's; a token has an owner and a role, and is no outcome
\* of reading a header.
ASSUME PrincipalsAssumption ==
    /\ \A account \in Accounts : account.kind = "person" /\ account.via = "session"
    /\ \A token \in Tokens :
          /\ Claims[token].role \in {"admin", "user", "none"}
          /\ token \notin {"no-header", "another-scheme", "not-a-b64token",
                          "no-credentials", "invalid-token", "invalid-request"}

ASSUME NothingAssumption ==
    /\ Nothing \notin Methods /\ Nothing \notin Accounts
    /\ Nothing \notin RequestRecord /\ Nothing \notin BearerRecord
    /\ Nothing \notin Principal /\ Nothing \notin GateRecord

VARIABLES charged  \* the budget and the client the limiter was asked for

vars == <<gateVars, identityVars, bodyVars, charged>>

Travelling == stage = "network"

Init ==
    /\ request \in Requests /\ arrived = request /\ rewritten = FALSE
    /\ stage = "network"
    /\ bearerMemo = Nothing /\ gateMemo = Nothing /\ vouched = Nothing /\ answer = Nothing
    /\ live = Sids /\ looked = FALSE
    /\ IdentityInit
    /\ request \notin TravellingRequests => fields = <<>> /\ senders[1] = CHOOSE a \in Addresses : TRUE
    /\ BodyInit(request.body, BodyLimits[request.path])
    /\ charged = Nothing

OnTheWay ==
    /\ Travelling /\ request \in TravellingRequests
    /\ \E proxy \in Addresses : Forward(proxy)
    /\ UNCHANGED <<gateVars, bodyVars, charged>>

\* The request reaches the server, and the door of the body limit.
Arrive ==
    /\ Travelling /\ ~IsHandshake
    /\ Door(request.declared)
    /\ IF place' = "app"
       THEN stage' = Installed("rate", MainApp) /\ UNCHANGED answer
       ELSE Refuse(<<413, "declared">>)
    /\ UNCHANGED <<request, arrived, rewritten, bearerMemo, gateMemo, live, vouched, looked,
                   identityVars, charged>>

\* Every layer lets a WebSocket handshake through.
Handshake ==
    /\ Travelling /\ IsHandshake
    /\ stage' = "inside"
    /\ UNCHANGED <<request, arrived, rewritten, bearerMemo, gateMemo, live, vouched, looked, answer,
                   identityVars, bodyVars, charged>>

\* IpRateLimitMiddleware._refusal
RateLayer ==
    /\ stage = "rate"
    /\ IF request.path \in DOMAIN BudgetNames
       THEN /\ charged' = [budget |-> BudgetNames[request.path], client |-> BudgetAddress]
            /\ Pass \/ Refuse(<<429, "budget">>) \/ Refuse(<<503, "limiter">>)
       ELSE Pass /\ UNCHANGED charged
    /\ UNCHANGED <<request, arrived, rewritten, bearerMemo, gateMemo, live, vouched, looked>>

Layers ==
    /\ \/ RateLayer
       \/ /\ UNCHANGED charged
          /\ BearerLayer \/ CsrfLayer \/ SessionLayer \/ SessionRaises \/ Route
    /\ UNCHANGED <<identityVars, bodyVars>>

Meanwhile ==
    /\ stage \notin {"network", "answered"} /\ arrived \notin AnsweredRequests \cup TravellingRequests
    /\ \/ \E app \in Apps : Mount(app)
       \/ \E rewrite \in Rewrites : HostRewrites(rewrite[1], rewrite[2])
       \/ \E sid \in Sids : SessionEnds(sid)
    /\ UNCHANGED <<identityVars, bodyVars, charged>>

\* What the app does: a layer's refusal is its response, or a layer has raised.
App ==
    \/ stage = "answered" /\ answer[1] = 500 /\ starts = <<>> /\ AppFails
    \/ stage = "answered" /\ answer[1] # 500 /\ HandOver(answer[1])
    \/ /\ stage = "route"
       /\ \/ \E size \in Pieces : ReadPiece(size)
          \/ HandOver(200)
          \/ AppFails
          \/ AppCatches

Outward == AppEnds \/ BodyLayer \/ SecurityLayer

Respond ==
    /\ arrived \in AnsweredRequests
    /\ App \/ Deliver \/ StartFails \/ Outward
    /\ UNCHANGED <<gateVars, identityVars, charged>>

\* The request has been answered, or is not followed further.
Done ==
    /\ \/ place = "server"
       \/ stage \in {"route", "answered"} /\ arrived \notin AnsweredRequests
    /\ UNCHANGED vars

Next == OnTheWay \/ Arrive \/ Handshake \/ Layers \/ Meanwhile \/ Respond \/ Done

Spec == Init /\ [][Next]_vars

\* A start that does not arrive fails in start_send_seconds, and every layer
\* passes on what leaves it; nothing makes a peer read.
Fairness ==
    /\ WF_vars(StartFails /\ UNCHANGED <<gateVars, identityVars, charged>>)
    /\ WF_vars(Outward /\ UNCHANGED <<gateVars, identityVars, charged>>)

FairSpec == Spec /\ Fairness

-----------------------------------------------------------------------------
\* Whom the client is known as: its own address, or that of the last proxy no
\* trusted one vouches for, however many proxies wrote into however many fields
\* and whatever the client had written there before (proxies.py).
ClientPaysForItself ==
    charged # Nothing =>
        \A i \in DOMAIN senders : IsOutsider(i) /\ Len(senders) - i <= MaxHops =>
            charged.client = Pool[Canonical[senders[i]]]

\* A request that is refused before the session gate has not cost a session
\* lookup and renewed nothing (stack.py, install_web_auth_middleware).
RefusedBeforeLookup ==
    stage = "answered" /\ request.app = MainApp /\ answer[1] # 500 /\ answer[2] # "session" => ~looked

\* A principal of the bearer gate is only ever read on the request it was
\* admitted for: the same app, path and header, and for a resource the same
\* method, whatever host code and mounts did in between (_bearer_admission).
TokenSpeaksForItsRequest ==
    \A reader \in Readers : reader.via \in {"machine", "token", "resource"} =>
        /\ <<request.app, request.path, request.auth>> = <<vouched.app, vouched.path, vouched.auth>>
        /\ reader.via = "resource" => request.method = vouched.method
        /\ reader.who = Claims[request.auth].owner

\* Once a token was admitted the cookie names nobody, also after the token's
\* record has become stale (_is_bearer_admitted).
TokenLeavesNoCookieReader ==
    vouched # Nothing => SessionId = Nothing /\ \A reader \in Readers : reader.via # "session"

\* However the request changed after a token was admitted, a route reads from it
\* the token's principal for the admitted request or nobody (_bearer_admission,
\* _is_bearer_admitted).
TokenBinding == stage = "route" => TokenSpeaksForItsRequest /\ TokenLeavesNoCookieReader

\* A state-changing request or a handshake from another site reaches no route as
\* the visitor whose cookie it carries, unless the host exempted the path.
ForgeryIsNobody ==
    /\ stage = "route" /\ arrived.method \in Mutating \cup {"websocket"}
    /\ arrived.path \notin Policy[MainApp].csrfExempt
    /\ arrived.site \notin {"same-origin", "allowed"}
    => /\ IsHandshake \/ SessionId = Nothing
       /\ \A reader \in Readers : reader.via # "session"

\* Two readers that both name an account name the same one, which is that of
\* the session id read there if there is one (current_user, admitted_user).
ReadersAgree ==
    stage = "route" =>
        \A one, other \in Readers : one.kind = "person" /\ other.kind = "person" =>
            /\ one.who = other.who /\ one.via = other.via
            /\ SessionId # Nothing => one = SessionPerson[SessionId]

\* With a session gate, a path that is not open is reached only by a token the
\* bearer gate checked or by a session that was live; with a bearer gate, a machine
\* path and the resource's entry point by a token alone, and the first decides a
\* path that is both.  A path with a dot segment is never open.
HandlerIsVouchedFor ==
    stage = "route" /\ ~rewritten /\ ~IsHandshake /\ request.app = MainApp =>
        /\ "bearer" \in Rules.layers =>
              /\ IsMachinePath => BearerCaller.kind = "machine"
              /\ IsEntryPoint /\ ~IsMachinePath => ResourcePerson.kind = "person"
        /\ "session" \in Rules.layers =>
              \/ BearerCaller.kind = "machine" \/ CurrentUser.kind = "person"
              \/ /\ request.path \notin Rules.dotted
                 /\ \/ <<request.method, request.path>> \in Rules.public
                    \/ request.path \in Rules.optional

\* One response start goes to the server, also when the body is found too
\* large while a slow peer holds up the start (send_start_whole); and the app is
\* given no more of a body than the limit, even if it catches the exception and
\* reads on (guarded_receive).
OneStart == Len(starts) <= 1
ConsumedWithinLimit == consumed <= limit
ResponseGuarded == OneStart /\ ConsumedWithinLimit

\* What left the app is answered or known to the server: an exception is not lost.
OverLimitIsTold ==
    [][exception = "too-large" /\ exception' # "too-large" =>
          place = "app" \/ exception' = "other" \/ starts' # starts]_vars

\* What leaves the app reaches the server although the peer stops reading.
FailureEnds == exception # "none" ~> place = "server" \/ exception = "none"

=============================================================================
