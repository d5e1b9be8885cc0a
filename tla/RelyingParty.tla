---------------------------- MODULE RelyingParty ----------------------------
(***************************************************************************)
(* oidc._relying_party.OidcRelyingParty on several nodes, each with a wall *)
(* clock of its own: logins that begin on one node and call back on        *)
(* another, the exchange of a code and the other grants (HttpsExchange),   *)
(* and the verdict on every token that comes back or is presented          *)
(* (TokenVerification), with the two tokens of a service call verified one *)
(* after the other (ServiceCallerCheck).                                   *)
(*                                                                         *)
(* The issuer is external: it keeps true time, redeems a code once, and    *)
(* its answer may be lost after that.  Whether it compares the PKCE        *)
(* verifier is left open.  One operation is under way at a time: they      *)
(* share nothing but the codes, and the key sets of KeySetCache.           *)
(***************************************************************************)
EXTENDS HttpsExchange, TokenVerification

CONSTANTS
    Nodes, SkewOf,      \* how far a node's clock is ahead of the issuer's
    MostBehind, MostAhead,  \* the bounds the nodes' clocks keep
    MaxLogins,          \* a login is its number, in the order they begin
    PendingMaxAge,      \* PENDING_LOGIN_MAX_AGE_SECONDS
    TicksPerSecond,     \* the resolution of the wall clocks
    IdTokens,           \* what the issuer answers a grant with, but for times and nonce
    Presented,          \* of each kind of endpoint, the tokens it is shown
    TokenLife, MaxTime, BeginningsEnd

\* leeway_seconds is a whole number, in ticks.
ASSUME RelyingPartyAssumption ==
    /\ SkewOf \in [Nodes -> (0 - MostBehind) .. MostAhead]
    /\ TicksPerSecond \in Nat \ {0} /\ Leeway % TicksPerSecond = 0
    /\ {MostBehind, MostAhead, MaxLogins, PendingMaxAge, TokenLife, MaxTime} \subseteq Nat

\* kind is the use the issuer mints a token for.  What it signed as its own says that
\* use with its type and audience; what it did not sign, or what another issuer with
\* the same key did, may say anything.
ASSUME IssuerAssumption ==
    /\ \A token \in IdTokens \cup UNION {Presented[kind] : kind \in {"endpoint", "workload", "person"}} :
          {"iat", "exp", "nonce"} \subseteq DOMAIN token
    /\ \A token \in Presented["endpoint"] :
          token.signed /\ token.issuer = "own" =>
             /\ token.typ = "logout+jwt" => token.kind = "logout"
             /\ token.typ = "at+jwt" /\ token.audiences = {Client} => token.kind = "access"
             /\ token.typ = "at+jwt" /\ token.audiences = {Resource} => token.kind = "resource"

VARIABLES
    time,    \* the issuer's clock
    begun,   \* of each login, when it began and the issued_at of its PendingLogin
    grant,   \* of each login, its code at the issuer: "none", "issued" or "redeemed"
    work,    \* the operation under way
    answer,  \* what the issuer answered it
    last     \* the verdict given last, and what it is of

rpVars == <<time, begun, grant, work, answer, last, exchangeVars>>

Logins == 1 .. MaxLogins
NoCode == 0
Idle == [op |-> "idle"]
NoVerdict == [of |-> Idle, verdict |-> "none"]
NoLogin == [at |-> -1, stamp |-> -1]
Unanswered == [status |-> "none", whole |-> FALSE]
LongestExchange == ConnectSeconds + DeadlineSeconds

\* One operation at a time, and its verdict is taken note of first.
Ready == work = Idle /\ last = NoVerdict

ClockOf(node) == time + SkewOf[node]

\* int(self._wall_clock())
WholeSecond(reading) == TicksPerSecond * (reading \div TicksPerSecond)

Minted(token, at) == [token EXCEPT !.iat = at, !.exp = at + TokenLife]

RPInit ==
    /\ ExchangeInit
    /\ time = 0 /\ begun = [login \in Logins |-> NoLogin] /\ grant = [login \in Logins |-> "none"]
    /\ work = Idle /\ answer = Unanswered /\ last = NoVerdict

-----------------------------------------------------------------------------
\* Logins.

\* begin_login: state, nonce and verifier are fresh, so they are the login itself.
BeginLogin(login, node) ==
    /\ begun[login] = NoLogin /\ time < BeginningsEnd
    /\ \A earlier \in 1 .. login - 1 : begun[earlier] # NoLogin
    /\ begun' = [begun EXCEPT ![login] = [at |-> time, stamp |-> WholeSecond(ClockOf(node))]]
    /\ UNCHANGED <<time, grant, work, answer, last, exchangeVars>>

\* The person authenticates at the issuer.
IssueCode(login) ==
    /\ begun[login] # NoLogin /\ grant[login] = "none"
    /\ grant' = [grant EXCEPT ![login] = "issued"]
    /\ UNCHANGED <<time, begun, work, answer, last, exchangeVars>>

\* Mutant: an old pending login is as good as a new one.
IsUnexpiredAtAnyAge(pending, now) == 0 <= now - pending.stamp

IsUnexpired(pending, now) == 0 <= now - pending.stamp /\ now - pending.stamp <= PendingMaxAge

\* What a callback's query may say.
Queries == [wellFormed : BOOLEAN, state : Logins, ownIssuer : BOOLEAN, error : BOOLEAN,
            code : Logins \cup {NoCode}]

\* _authorization_code
CallbackVerdict(login, query, now) ==
    FirstRefusal(<<Check(query.wellFormed, "malformed-callback"),
                   Check(query.state = login, "state-mismatch"),
                   Check(IsUnexpired(begun[login], now), "pending-login-expired"),
                   Check(query.ownIssuer, "issuer-mismatch"),
                   Check(~query.error, "authorization-denied"),
                   Check(query.code # NoCode, "malformed-callback")>>)

\* _post_token_request and _fetch_key_set
Send(operation, for) ==
    /\ time + LongestExchange <= MaxTime
    /\ StartExchange(for)
    /\ work' = operation
    /\ UNCHANGED <<time, begun, grant, answer, last>>

\* complete_login
Callback(login, node, query) ==
    LET verdict == CallbackVerdict(login, query, ClockOf(node))
        operation == [op |-> "login", node |-> node, at |-> time, login |-> login, code |-> query.code]
    IN  /\ begun[login] # NoLogin
        /\ IF verdict = "holds"
           THEN Send(operation, "token-request")
           ELSE /\ last' = [of |-> operation, answer |-> Unanswered, verdict |-> verdict]
                /\ UNCHANGED <<time, begun, grant, work, answer, exchangeVars>>

\* started_at
StartedAt(node) == WholeSecond(ClockOf(node))

\* What shares nothing with a login is followed while none is under way.
NoLoginBegan == \A login \in Logins : begun[login] = NoLogin

\* _refreshed_groups, renew_access and workload_access_token
Grant(op, node) ==
    Send([op |-> op, node |-> node, at |-> time, startedAt |-> StartedAt(node)], "token-request")

\* The fetch of a key set that KeySetCache decides on.
FetchKeySet(node) == Send([op |-> "key-set", node |-> node, at |-> time], "key-set")

-----------------------------------------------------------------------------
\* The issuer's answer, and what is made of it.

\* A login's ID token carries its nonce; the one of a refresh may be an old one.
Answers ==
    CASE work.op = "login" ->
            {[status |-> "200", whole |-> TRUE,
              token |-> Minted([token EXCEPT !.nonce = work.code], WholeSecond(time))] :
                 token \in {t \in IdTokens : grant[work.code] = "issued"}}
      [] work.op = "refresh" ->
            {[status |-> "200", whole |-> TRUE, token |-> Minted(token, WholeSecond(at))] :
                 token \in IdTokens, at \in 0 .. time}
      [] OTHER -> {}

FlawedAnswers == [status : {"200"}, whole : {FALSE}] \cup [status : {"400", "500"}]

\* The issuer acts on the request before its answer is on the way.
IssuerAnswers ==
    /\ phase = "head" /\ answer = Unanswered
    /\ \E given \in Answers \cup FlawedAnswers \cup
                     (IF work.op \in {"renew", "workload", "key-set"}
                      THEN {[status |-> "200", whole |-> TRUE]} ELSE {}) :
          /\ answer' = given
          /\ grant' = IF work.op = "login" /\ given.status = "200" /\ grant[work.code] = "issued"
                      THEN [grant EXCEPT ![work.code] = "redeemed"] ELSE grant
    /\ UNCHANGED <<time, begun, work, last, exchangeVars>>

\* A redirect may come from a proxy that never asked the issuer.
HeadArrives ==
    /\ phase = "head"
    /\ \/ HeadComplete("redirect")
       \/ answer.status = "200" /\ HeadComplete("200")
       \/ answer.status \in {"400", "500"} /\ HeadComplete("other")
    /\ UNCHANGED <<time, begun, grant, work, answer, last>>

OnTheWire == ExchangeStep /\ UNCHANGED <<time, begun, grant, work, answer, last>>

\* _token_answer, and the members an answer must carry
TokenAnswer ==
    IF result # "answered" \/ answer.status = "500" THEN "token-endpoint-failed"
    ELSE IF answer.status = "400" THEN "token-request-refused"
    ELSE IF ~answer.whole THEN "token-endpoint-failed"
    ELSE "holds"

\* The verdict of the operation under way, its exchange over.
Verdict(now, key) ==
    IF work.op = "key-set"
    THEN IF result = "answered" /\ answer.whole /\ bodyRead <= MaxBodyBytes
         THEN "holds" ELSE "key-set-unavailable"
    ELSE IF TokenAnswer # "holds" THEN TokenAnswer
    ELSE CASE work.op = "login" -> LoginVerdict(answer.token, work.login, now, key)
           [] work.op = "refresh" ->
                 RefreshVerdict(answer.token, "person", work.startedAt, now, key)
           [] OTHER -> "holds"

\* _identity, _refreshed_groups, _renewed_access, workload_access_token: the end
Conclude ==
    /\ Return
    /\ \E key \in KeyVerdicts :
          last' = [of |-> work, answer |-> answer, verdict |-> Verdict(ClockOf(work.node), key)]
    /\ work' = Idle /\ answer' = Unanswered
    /\ UNCHANGED <<time, begun, grant>>

-----------------------------------------------------------------------------
\* Tokens that are presented.

EndpointVerdict(endpoint, token, now, key) ==
    CASE endpoint = "logout" -> LogoutVerdict(token, now, key)
      [] endpoint = "access" -> AccessVerdict(token, now, key)
      [] endpoint = "resource" -> ResourceVerdict(token, now, key)

\* verify_logout_token, verify_access_token and resource_token_verifier
Present(endpoint, node, token, key) ==
    /\ last' = [of |-> [op |-> endpoint, node |-> node, at |-> time, token |-> token],
                verdict |-> EndpointVerdict(endpoint, token, ClockOf(node), key)]
    /\ UNCHANGED <<time, begun, grant, work, answer, exchangeVars>>

\* person_caller: the workload's token is verified, ...
VerifyWorkload(node, workload, person, key) ==
    /\ work' = [op |-> "service-call", node |-> node, at |-> time,
                workload |-> workload, person |-> person,
                workloadVerified |-> VerifiedForService(workload, ClockOf(node), key)]
    /\ UNCHANGED <<time, begun, grant, answer, last, exchangeVars>>

\* ... then, perhaps after a fetch, the person's, unless the first was refused.
AnswerCall(key) ==
    LET personVerified == VerifiedForService(work.person, ClockOf(work.node), key) IN
    /\ work.op = "service-call"
    /\ last' = [of |-> work, verdict |-> CallerVerdict(work.workload, work.person, work.workloadVerified,
                                                       personVerified),
                personVerified |-> IF work.workloadVerified = "holds" THEN personVerified ELSE "unread"]
    /\ work' = Idle
    /\ UNCHANGED <<time, begun, grant, answer, exchangeVars>>

-----------------------------------------------------------------------------
Tick ==
    /\ last = NoVerdict /\ time < MaxTime /\ time' = time + 1
    /\ TimePasses
    /\ UNCHANGED <<begun, grant, work, answer, last>>

\* The host has the verdict.
TakeNote ==
    /\ last # NoVerdict /\ last' = NoVerdict
    /\ UNCHANGED <<time, begun, grant, work, answer, exchangeVars>>

\* Tokens reach an endpoint when they were minted already.
PresentedNow(kind, minted) ==
    {Minted(token, at) : token \in Presented[kind], at \in {m \in minted : m <= time}}

LoginStep ==
    \E login \in Logins :
       \/ IssueCode(login)
       \/ \E node \in Nodes :
             \/ BeginLogin(login, node)
             \/ \E query \in Queries : Callback(login, node, query)

TokenStep ==
    \E node \in Nodes :
       \/ \E op \in {"refresh", "renew", "workload"} : Grant(op, node)
       \/ FetchKeySet(node)
       \/ \E key \in KeyVerdicts :
             \/ \E endpoint \in {"logout", "access", "resource"} :
                   \E token \in PresentedNow("endpoint", 0 .. time) :
                      Present(endpoint, node, token, key)
             \/ \E workload \in PresentedNow("workload", {0}),
                   person \in PresentedNow("person", {0}) :
                   VerifyWorkload(node, workload, person, key)

RPNext ==
    \/ Ready /\ LoginStep
    \/ Ready /\ NoLoginBegan /\ TokenStep
    \/ \E key \in KeyVerdicts : AnswerCall(key)
    \/ IssuerAnswers \/ HeadArrives \/ OnTheWire \/ Conclude \/ Tick \/ TakeNote

\* Time passes, a socket's timeout fires, and a call returns to its caller.
RPFairness ==
    /\ WF_rpVars(Tick) /\ WF_rpVars(StepTimesOut /\ UNCHANGED <<time, begun, grant, work, answer, last>>)
    /\ WF_rpVars(Conclude)

RPSpec == RPInit /\ [][RPNext]_rpVars /\ RPFairness

-----------------------------------------------------------------------------
\* How far two nodes' clocks may be apart.
Spread == MostBehind + MostAhead

Held(op) == last.of.op = op /\ last.verdict = "holds"

\* However codes and callbacks are mixed up, and if the issuer compares no PKCE
\* verifier, a login yields an identity for the code of its own sign-in only
\* (_identity: the nonce).
IdentityOfOwnLogin == Held("login") => last.of.code = last.of.login

\* A pending login is given up early only within the nodes' clock difference of
\* its limits, and outlives its age by that difference at most (_is_unexpired).
PendingAgeUnderSkew ==
    last.of.op = "login" =>
        LET age == last.of.at - begun[last.of.login].at IN
        IF last.verdict = "pending-login-expired"
        THEN age < Spread \/ age > PendingMaxAge - Spread - TicksPerSecond + 1
        ELSE last.verdict \notin {"malformed-callback", "state-mismatch"}
                 => age <= PendingMaxAge + Spread

\* Groups that a refresh yields were minted for a grant no older than the leeway
\* and the clock's lag (_refreshed_id_token_groups).
GroupsOfThisGrant ==
    Held("refresh") =>
        last.answer.token.iat + Leeway + MostBehind + TicksPerSecond > last.of.at

\* A node whose clock is ahead by no more than the leeway never takes the ID
\* token minted for its own grant for a stale one (started_at is a whole second).
FreshGrantIsNotStale ==
    last.of.op = "refresh" /\ last.verdict = "stale-id-token" /\ SkewOf[last.of.node] <= Leeway
        => last.answer.token.iat < WholeSecond(last.of.at)

\* There is no replay store: a copy of a logout token ends sessions only until
\* it is as old as the limit, the leeway and the clock's lag.
LogoutCopiesAgeOut ==
    Held("logout") => last.of.at - last.of.token.iat <= LogoutMaxAge + Leeway + MostBehind

\* What is judged by age is judged rightly up to the difference of the clocks and
\* the leeway: pending logins, the ID tokens of a refresh and copies of a logout
\* token (_is_unexpired, _refreshed_id_token_groups, _is_logout_profile).
AgesUnderSkew ==
    PendingAgeUnderSkew /\ GroupsOfThisGrant /\ FreshGrantIsNotStale /\ LogoutCopiesAgeOut

\* A token the issuer minted for one use holds at no endpoint of another: its
\* type and audience tell (verify_logout_token, verify_access_token,
\* resource_token_verifier).
KindsApart ==
    last.of.op \in {"logout", "access", "resource"} /\ Held(last.of.op)
        => last.of.token.kind = last.of.op

\* A 401 or 503 never gives way to a 403, also when time and key sets change
\* between the two verifications (ServiceCallerCheck.person_caller).
NoForbiddenForUnverified ==
    last.of.op = "service-call" /\ RefusalClass(last.verdict) = "forbidden" /\ last.verdict # "holds" =>
        /\ last.of.workloadVerified = "holds" /\ last.personVerified = "holds"
        /\ Identified(last.of.workload) = "holds" /\ Identified(last.of.person) = "holds"

\* Whatever the origin does, an exchange ends (DEADLINE_SECONDS).
ExchangeEnds == phase # "idle" ~> phase = "idle"

=============================================================================
