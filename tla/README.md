# A TLA+ model of webauth

`webauth` is a library a FastAPI host installs to sign people in with OpenID
Connect, to admit their requests afterwards, and to limit and protect those
requests. It owns no database. The host hands it *ports* (`src/src/webauth/ports.py`):
an account store, a session store, an audit sink, two kinds of transaction around
them, and a rate-limit backend. What makes the library hard to get right is
what happens between its calls to those ports: requests run on several worker
threads and several nodes, every call may fail, clocks differ, and the issuer
answers late or not at all.

Paths below are relative to `src/src/webauth/`.

## Inventory

| component | state it keeps | operations | what makes it correct |
|---|---|---|---|
| session lifetime rules (`dependencies.py`, `config.py`) | none; reads a row and a clock | `_is_admitted`, `_renewed_expiry` | no row outlives its cap; clocks inside the tolerance refuse nobody early |
| admission rules (`admission.py`) | none | `app_role` | membership is at or below a path, never a longer name |
| session admission (`dependencies.py`, `middleware/session_gate.py`) | the host's session rows | `load`, clock, `touch` | an ended session is neither admitted nor brought back |
| sign-in transaction (`oidc_login.py`, `sign_in_routes.py`) | accounts, sessions, audit trail; the session cookie in the browser | callback, logout, back-channel logout, person path, protected resource | each entry is one step or none; the cap holds; roles and events agree; no cookie for a session that is not durable |
| key-set cache (`jwt_verification.py`) | key set, time and outcome of the last refresh, refresh lock | `_signing_key`, `_refresh_key_set` | one fetch at a time and per cooldown; no retired key; no older set over a newer one; the lock is given back |
| rate-limit backends (`rate_limit.py`) | events of each key, the next sweep; a sorted set in Redis | `is_allowed` | no window ever holds more than the limit; memory stays bounded |
| fresh access tokens (`oidc_login.py`, `oidc/_relying_party.py`) | the refresh token in the session row | load, refresh grant, load, replace | a token only for a session that stood after the grant; the newest refresh token kept |
| pending logins (`cookies.py`, `sign_in_routes.py`) | one signed cookie per started login | begin, take, expire | a callback finds its own login; the browser holds a bounded number |
| session gate, bearer gate, WebSocket admission (`middleware/session_gate.py`, `middleware/bearer_gate.py`, `dependencies.py`) | the two records of one request, in its scope | route to one credential, refuse, leave a record, read it in the handler | no handler runs without the admission its path calls for; a record speaks for the request it was made for only |
| rate-limit middleware, proxies (`middleware/rate_limit.py`, `proxies.py`) | none | name the client, charge its budget | the client pays for itself, whatever it wrote into its headers |
| body limit, policy headers, CSRF, stack (`middleware/`) | what was counted, whether a start was handed over | count pieces, answer 413 or 500, refuse another site's request | one response start, whoever sends it; no more than the limit for the app; the order of the layers |
| token verification, service callers (`jwt_verification.py`, `oidc/_relying_party.py`, `service_callers.py`) | none | judge ID, access, logout, resource and service tokens | a token is good for its own use, audience and age, whoever's clock judges |
| relying party, HTTPS exchange (`oidc/_relying_party.py`, `https_client.py`) | the pending login in the browser; one socket and its deadline | begin and complete a login, refresh, renew, workload token | an identity only for one's own sign-in; every exchange ends in time |
| policies, pages, configuration | none | construction, rendering | pure |

How they interact: the routes and gates call the token verifier and the relying
party *before* they enter the host's `SignInTransaction`; inside an entry they only
call the three stores, never the issuer. Session admission uses the host's other
transaction (`SessionTransaction`), which is not serialized. The two therefore
interleave at the granularity of store calls when the stores apply each call, and
not at all when the host's transaction is a database transaction. The verifier's
key-set cache is shared by all threads under a lock nobody waits for. The layers
of `middleware/stack.py` lie around an app in a fixed order: policy headers, body
limit, rate limit, bearer gate, CSRF, session gate. The rate limit shares only its
backend; the two gates share their records with the handler through the request's
scope, which host code and mounts may change in between.

The hard behaviours, each at its line, are the `hazards` of `PROJECT.json`.

## The modules

```
SessionLifetime   Admission              pure rules, EXTENDed by
        \            /
         SignIn  ----implements---->  SessionLedger
           |                             (abstract)
   SignInProofs

KeySetCache                SlidingWindow  <--implements--  RedisRateLimit
   |                         (abstract)                          |
KeySetCacheProofs                ^                     RedisRateLimitProofs
                                 '---implements--  SingleProcessRateLimit
                                                             |
                                                SingleProcessRateLimitProofs

SessionLifetime <-- FreshToken             PendingLogin
                        |                       |
                FreshTokenProofs        PendingLoginProofs

RequestGates  ClientIdentity  BodySize     HttpsExchange   TokenVerification
      \            |           /                      \         /
       `------ RequestStack --'                      RelyingParty
                   |                                      |
           RequestStackProofs                    RelyingPartyProofs
```

`MC*.tla` give the constants their values for TLC.

### SignIn

One host, its stores, its worker threads. `accounts`, `rows` and `audit` are the
three stores; `minted` the session ids the store has handed out; `issued` those
whose cookie left in an answer; `pc` and `req` what each worker does next and the
locals it holds (`row` is the record it loaded, `now` its clock reading).

Every store call is one action, so what a worker read may be stale when it acts:

| action | code |
|---|---|
| `StartAdmit`, `AdmitLoad`, `AdmitDecide`, `AdmitTouch`, `AdmitFails` | `admit_session` and the gate around it |
| `StartCallback` | the callback up to `_decide_admission` and `session_id_from_request` |
| `StartLogout`, `StartBackchannel`, `StartToken`, `StartResource` | what the other routes decide before they enter |
| `Enter` | `with transaction() as stores:` |
| `AdmitAccount`, `AuditRole` | `_admit_account`, `_with_role`, `_provision` |
| `EndReplaced`, `Prune`, `Create` | the session half of `_write_sign_in` |
| `LogoutLoad`, `LogoutDelete` | `_id_token_of_ended_session` |
| `EndAll`, `AuditLogout` | `_receive_backchannel_logout` |
| `Lookup` | `_admit_resource_holder` |
| `Exit` | the block is left; only then `issue_session_cookies` |
| `Raise`, `UsernameTaken` | any call or the exit raises; the store refuses a username |
| `HostEnds` | the host revokes or sweeps a session (external) |

`RollsBack` chooses the host: with `TRUE` the transaction is a database transaction,
which keeps everything else away from the stores while it is open and restores
them on an exception; with `FALSE` the stores apply each call (which the port's
docstring allows), other requests see half-done entries, and a failure leaves
them. A failing commit (`Raise` at `exit`) may or may not have been durable. Where it was, the session
is gone although the logout failed, and a retry finds no row and has no hint, which
`docs/host-contract.md` (lines 603-606) accepts; `LogoutKeepsHint` names this as the only way a hint
is lost.

Data that is abstracted: an account's id is its subject (as the port demands); its
username is left out but for the refusal `UsernameTaken`; refresh and ID tokens
are not stored in the row, `KeepsIdToken` tells whether a logout can hint; a cookie
is the session id it signs. A request without a valid cookie is refused
before any store is asked.

`SessionLedger` is what this promises over a host that rolls back: a sign-in, a
renewal, a logout or a back-channel logout is one step. The refinement maps the
stores to what another node finds there (`Durable`: the snapshot while an entry is
open), and an id counts as `used` once the entry that got it has been decided.

### KeySetCache

`_signing_key` and `_refresh_key_set` by many threads. Each read or write of a field
another thread writes is its own action: `Read` takes the snapshot, `Look` decides
on a refresh, `TryLock` does not wait, `Cooldown` reads the clock and stamps the
attempt, `FetchServed`/`FetchFailed` end the fetch, `Swap` and `Clear` are the two
assignments of a success, `Judge` answers. `Rotate` is the issuer publishing other
keys. A key is named by its id and `Unnamed` stands for one published without; more
than one unnamed key differs from one only in `sole`, as two named keys do. Two variables are
histories: `askedAt`, when the last fetch that came back was begun, and `skipped`, the threads
that left their refresh to another one's.

### SlidingWindow, SingleProcessRateLimit, RedisRateLimit

`SlidingWindow` is the port's promise, told with a history `spent` that forgets
nothing and with the clock `deciding` that decides: a call is allowed only where the limit-th last
spend has left the window by that clock, and denied only where it has not. A denial may be
late by `lag`, which is how far the backend's clock may have been set behind the deciding one.
The in-memory backend (one lock, trim at every check, a sweep of all keys when due) and
the Redis backend (one Lua script as one step, `EXPIRE`, lost answers) both instantiate it.

In memory, `deciding` is `Reading`: the clock, or what the holder of the lock read of it. `lag` is 0, so
every answer, allowed or denied, is the one of a backend that forgets nothing. Redis decides by its wall clock,
which `SetClockBack` may set back (`clock` is `time` less `setBack`); there `deciding` is true
time and `lag` is `setBack`. Scores then lie in the server's future: they are trimmed and expire
late, never early. So no true window ever holds more than the limit, and a denial
outlives its window by no more than the clock was set back.

A comprehension that filters a list is `AtPlaces`, the list at the places that pass. A sorted
set is a set of members with scores, and the uuid that makes each call's member its own is the
number of the check among those that were counted.

### FreshToken

`fresh_access_token` and `current_groups`. A caller loads the session (`Load`), judges
it (`Judge`), sends its refresh token to the issuer with no transaction open
(`GrantAnswered`, `GrantLost`, `GrantRefused`), loads the session again (`Load`),
judges it again (`Rejudge`) and stores the refresh token the issuer rotated to
(`Replace`). `Fail` is a store call or a transaction's exit that raises; the write of
the second transaction may be durable all the same. Beside the calls, sign-ins store
sessions, requests renew them, logouts end them, and the issuer may end its own
session (`IssuerRevokes`). The issuer answers with no refresh token, with the same,
or with a new one, and may then stop honouring the one it was sent. `dropped` names the
sessions whose rotation was lost in a way the code documents or cannot help: the
answer was lost, the second transaction failed or found the session over, the issuer
revoked. `StoredTokenHonoured` is about all others.

The transactions here are not serialized and may commit at their exit; each makes one
write at most, so a step for each store call covers both kinds of store.

### PendingLogin

One browser, and a host that keeps nothing of a login it began. `jar` is the set of
pending-login cookies the browser holds. Each of `Slots` is a request it has open: `Send`
fixes the cookies it carries, `ServeStart` and `ServeCallback` are the two routes, which
see only what was carried, and `Receive` applies the answer's `Set-Cookie` headers to the
jar as it is by then (`LoseAnswer`: it never arrives). A cookie is the login it is of,
since its name is derived from the state and its value is signed; `genuine` are the ones
signed under the key the host has now. `ServeCallback`'s outcome "judged" stands
for a sign-in or a refusal, and "failed" for an exception in the route or in sending its
answer; what the issuer and the stores say is an input (SignIn has the entry itself).
All nodes and the browser share one clock here; the browser drops a cookie after its
`max_age`, or keeps it until the callback finds it expired.

### RequestGates, ClientIdentity, BodySize, RequestStack

One request from its client to a route and back. `RequestStack` is the composition, with
one action per layer, in the order `install_web_auth_middleware` builds.

| action | code |
|---|---|
| `OnTheWay` (`Forward`) | a proxy passes the request on and writes its entry (external) |
| `Arrive` (`Door`), `Handshake` | the body limit's declared-length check; what every layer does with a WebSocket |
| `RateLayer` | `IpRateLimitMiddleware._refusal`, charging `BudgetAddress` |
| `BearerLayer` | machine, marked, entry-point and person paths; `_record_bearer_admission` |
| `CsrfLayer`, `SessionLayer`, `SessionRaises` | the origin check; the session gate and its record |
| `Mount`, `HostRewrites`, `SessionEnds` | what host code and other requests do before a route reads |
| `Route` | the handler, with the readers of `dependencies.py` as operators |
| `ReadPiece`, `HandOver`, `Deliver`, `StartFails`, `AppFails`, `AppCatches`, `AppEnds` | `guarded_receive`, `send_start_whole`, the app between them |
| `BodyLayer`, `SecurityLayer` | what each does with an exception that leaves the app |

A request is its app, path, method, Authorization value, cookie and site. A path is
the one `route_path` yields and the policies are sets of paths; `dotted` are the paths
with a dot segment. `site` is what `Sec-Fetch-Site` and the `Origin` come to. The
Authorization values are tokens with their claims, no header, and one of each other
kind `_credential_of` tells apart. A digest or an identity that is compared is the
value itself. `vouched` is a history: the request the bearer gate admitted, as
it was then. `HandsOn` is how a marked route hands a request on to the next rule.

`ClientIdentity` names the client from the right end of `X-Forwarded-For`, while proxies
append to the last field or add one and the first sender has written what it likes. A hop is
the place of its entry, and the walk of `_client_from_chain` is told by where it ends: at the hop
(`Decides`) that no trusted proxy vouches for while proxies vouch for all that are read before it.
The reference definition is `IsOutsider`, told from the true senders, which the code cannot see.

`BodySize` has the two places a response may be started twice: an app whose body is found
too large while its own start waits for a slow peer, and the 413 or the 500 that another layer
would send. `StartFails` is the peer that is gone or the end of `start_send_seconds`; the
exception group that then leaves the app may hold the failure, the too-large
exception, or both, which is the choice in `StartFails`. `starts` keeps the status of each
start the server was given. That all of them pass `send_with_policy` is the place of that
layer, outside every other, and no property.

### HttpsExchange, TokenVerification, RelyingParty

`HttpsExchange` is `_exchange` with `SocketUnderDeadline`. Each blocking step begins under
`_Deadline.bound`, which only ever shortens the socket's timeout; time
passes until the step proceeds or times out. Connecting runs under urllib3's own
timeout, one for each address, and is bounded by `ConnectSeconds` apart from the deadline.
A failure to connect is `unreachable`; a step that breaks off later is told as a TLS failure or as a breakage,
which depends on the exception (`BreakOff`). The lookup of the host's name comes before all of this. The code
sets it no bound (`https_client.py`, lines 10-13), so it is outside the model, and what is
said of an exchange's end holds from the first connection on.

`TokenVerification` is one operator per verdict, as the list of its checks in the code's
order, of which `FirstRefusal` names the first that does not hold. `Verified` is the JWT: `HeaderVerdict` (length,
form, algorithm, type), the key, `PayloadVerdict` (signature, form, required claims, issuer, audience), `TimeVerdict`
(integer claims, `exp`, `iat`, and `nbf` where a token has one) and the form of `sub`. On it stand
`LoginVerdict`, `RefreshVerdict`, `LogoutVerdict`,
`AccessVerdict` and `ResourceVerdict` for the relying party's profiles, and `CallerVerdict` for
a service call. A signature, an issuer, a type and a nonce are compared as values; what the key id and the
cached key set come to is an input (`KeyVerdicts`; `KeySetCache` has the cache itself). The order of the
checks inside PyJWT's `decode` is external.

`RelyingParty` composes them. Logins begin on one node and call back on another, whose
wall clocks differ (`SkewOf`, between `MostBehind` and `MostAhead` of the issuer's); a callback is any mixture of a pending login and a query,
other logins' codes included. `work` is the operation under way and `answer` what the issuer made of it: `Callback`, `Grant` and
`FetchKeySet` send a request, `IssuerAnswers` is the issuer acting on it, and only then may the
head arrive, or not: an answer may be lost after the code was redeemed.
`Conclude` gives the verdict with the clock as it is then. `Present` shows a token to an
endpoint; `VerifyWorkload` and `AnswerCall` are the two verifications of a service call,
between which time passes and the key set may come or go.

The issuer is external. It keeps true time, stamps whole seconds, redeems a code once, and
need not check PKCE: `IdentityOfOwnLogin` rests on the nonce alone. `IssuerAssumption` is what the
endpoints rely on it for: what it signs in its own name says by type and audience which use it is for.
A token another issuer signed, or nobody, may say anything.

## The runs

Bounds are constants of the modules, marked there. Deadlock is checked in every run
but `pending_login`: once the bounded logins are begun and their answers
lost, a browser has nothing left to send, as a real one may stop. `RequestStack!Done`
is a request that has been answered; `RelyingParty!TakeNote` is the host after a verdict.

| run | what it shows | bounds |
|---|---|---|
| `signin_atomic` | rolled-back host, admission and all kinds of entry: refinement of `SessionLedger`, cookies, logout hints | 2 workers, 2 accounts, 4 group sets, 2 session ids, cap 1, one renewal |
| `signin_percall` | per-call stores: cap, sessions have accounts, no resurrection, back-channel logout | 2 workers, 2 accounts, 3 ids, cap 2 |
| `signin_lifetime` | clocks that differ, renewals and the cap while time passes; roles and events, and an entry is always left | 1 account, 1 id, 4 group sets, skew 1, tolerance 2, idle 2, cap 4, time to 5, no symmetry; fairness below |
| `keyset` | fetches one at a time and a cooldown apart, age and order of key sets; the refresh lock is given back | 2 threads, a named key and an unnamed one, time to live 3, cooldown 2, clock to 3; fairness below |
| `keyset_unknown` | **violation**, see below | 2 named keys |
| `rate_single_process` | every answer of the in-memory backend, allowed or denied, is the one `SlidingWindow` promises; the sweep bounds the store | 2 keys with different limits and windows, 2 threads, clock past the longest window, a sweep every 2 |
| `rate_redis` | no true window holds more than the limit; a denial is late by the set-back at most | the same keys, the clock set back twice by one |
| `fresh_token` | tokens only for sessions that stand; the stored refresh token stays usable | 2 callers, 1 session, 3 refresh tokens, time to the cap |
| `pending_login` | the jar stays bounded, the latest logins can be completed, an answered one is gone | 2 open requests, 4 logins, at most 2 pending, time past the age limit |
| `pending_overlap` | **violation**, see below | 2 open requests, 3 logins |
| `request_stack` | whom a handler believes the request is from, whom the limiter charges, how often and how a response starts; failures reach the server | 4 apps, 8 paths, 5 tokens, 3 sessions; below |
| `relying_party` | own sign-ins only, ages under clock skew, a token for one use, refusals of a service call; bounds of an exchange | 2 nodes, half a second behind the issuer and a second ahead of it, 2 logins, half-second ticks to 9; below |

Why the bounds are enough: the interesting cases need two requests (one that
read, one that writes in between), one account that both speak for and another
that must not notice, a session more than the cap allows, a set of keys and its
successor, a refresh token with two successors, one login more than may be
pending, and a clock that passes each of the time limits in a model. Every store
call names one account or one id.

`request_stack` combines every path with every token, two methods and two sites. Host code
may change one field once, and a mount may hand the request to an app with gates of
its own, one without, or one under another configuration, which is every way a record can
become stale. To keep these apart, only `TravellingRequests` come through proxies (up to
three after the client, one hop more than `MaxHops`), and only `AnsweredRequests` are
followed through body and response: bodies at the limit and one over it, in pieces of
one and two, declared or not.

`relying_party` counts half seconds, so that whole-second stamps lose something. Its
limits are scaled: a pending login lives 2.5 seconds, a logout token 1, the leeway is 1,
an exchange takes at most 1 to connect and 2 ticks from its start for its TLS steps. One operation is under way at a
time, because operations share nothing but the issuer's codes; logins are begun in the order of their
numbers before `BeginningsEnd`; grants, key sets and presented tokens are followed only
while no login was begun, since they do not touch one; an exchange begins only when its longest
course still fits before `MaxTime`; the tokens of a service call are minted at 0.

`SYMMETRY` is used where the elements are only compared (session ids, subjects,
workers, threads, key ids, refresh tokens, logins), and never in a liveness run.

The conjunct of `BackchannelEndsAll` about the audit trail is for a host that rolls back, and so says nothing in
`signin_percall`, where a failing sink leaves sessions ended and untold. In `signin_atomic` the back-channel
step of `SessionLedger` records the same ended sessions, and `SignIn_BackchannelEndsAll` proves the conjunct itself.

Group sets: a user's, an admin's (a path strictly below the admin group), a
non-member's whose path is a prefix of the login group, and an agent's.

### Fairness

`SignIn!FairSpec`: a worker thread inside a block goes on. The block makes only
local store calls, takes no lock and never calls the issuer
(`ports.py`, `SignInTransaction`), so the scheduler alone decides. Nothing is assumed of
new requests, of entering (a queue at the host's lock) or of time.
`KeySetCache!FairSpec`: a started verification goes on. No step waits for another
thread (`acquire(blocking=False)`), and the transport bounds every fetch.
`RequestStack!FairSpec`: a start that does not arrive fails in `start_send_seconds`
(`send_start_whole` waits no longer), and each layer passes on what left the app. Nothing is assumed of the
peer: `Deliver` is not fair. `RelyingParty!RPSpec`: time passes, a socket's
timeout fires when it is due, and a call returns to its caller. Nothing makes an origin answer.

### The findings

`keyset_unknown` checks what the docstring of `jwt_verification.py` (lines 42-45) says:
`UNKNOWN_KEY_ID` when the last refresh "succeeded and the key set it fetched lacks
the `kid`". `UnknownMeansAbsent` says it of a thread that left its refresh to another one's, and TLC finds the
interleaving in which it does not hold. A thread verifies a token whose `kid` the cached set lacks while another
thread holds the refresh lock. It cannot take the lock, and reads the same old set again. The issuer
publishes the key; the other thread fetches the new set, swaps it in, clears `_last_refresh_failed` and releases
the lock. Only then does the first thread look the `kid` up in the set it read and look at the flag. It
answers `UNKNOWN_KEY_ID` for a key the last refresh did fetch. The
request is refused either way; the reason is wrong, and a retry succeeds.

`pending_overlap` checks what the docstring of `_begin_pending_login` (`cookies.py`, lines
289-290) says: that the browser "holds at most `_MAX_PENDING_LOGINS` with the new one". Two
starts that are open together are sent the same cookies, each makes room for
one, and the browser ends with one more than the maximum. `JarBounded` is the bound that
does hold: each open start beyond the first can add one, and the next start that
carries them all clears the surplus.

## What is proved

Each theorem holds for every value of the constants that meets the modules'
assumptions: any number of workers, accounts and ids, both kinds of host, any
lifetime, skew, cap, time to live, cooldown, limit and window, any requests, policies,
piece sizes, timeouts and deadlines, any number of callers, refresh tokens, logins and open requests,
any nodes and any bounds of their clocks. `SignIn_LedgerSpec`
alone assumes more: `RollsBack`, the host whose promise it is.

* `SignInProofs`. `TypeInv` strengthens `TypeOK` with what each step of a request
  holds (`ServedOK`: a worker in an entry's step serves a request of that entry's
  kind, with the fields that step needs) and who is in the block (`EntryOK`: the
  lock's holder is the one worker whose `pc` is inside, and there is a snapshot).
  `TypeOK` alone is not inductive: a step reads fields of `req` that are only
  there because an earlier step set them. `SignIn_SessionsWithinMax` adds that the
  holder's account has one session fewer than the cap when it is about to create
  one, and that the snapshot a failure restores is within the cap. It needs the
  serialization: with per-call stores other steps may only remove rows.
  `RowInv` (every row and every row somebody loaded is within its cap, and an id's creation instant never changes) gives
  `SignIn_RowsWithinCap`; with `SkewInv` (no stored or held instant is further ahead
  than the fastest clock allows) it gives `SignIn_SkewTolerated`.
  `SignIn_AdmittedWhileStored` and `SignIn_EndedStaysEnded` are action properties from
  `TypeInv` and from the fact that an id is minted before it is issued and that the
  snapshot holds every issued session that is not ended.
  In the second half of the module `AccountInv` holds for both kinds of host: in the stores and in the
  snapshot every session has an account, a sign-in past `AdmitAccount` has one, and a back-channel
  logout past `EndAll` has left its subject no session. `SessionsHaveAccounts` alone is
  not inductive, since it forgets what the entry admitted before it creates a session and what
  a failure restores. `EntryInv` is about a host that rolls back: at each step of an open entry
  (`EntryWritten`) the accounts, the trail and the rows differ from the snapshot by just what the entry
  has written by then, whatever other requests do meanwhile, and between two entries the trail tells the
  role each account has. From it follow `SignIn_AuditFollowsRole`, `_CookieNamesDurableSession`,
  `_LogoutKeepsHint` and `_BackchannelEndsAll`, and the refinement `SignIn_LedgerSpec`: a step inside
  an entry is a stutter of `SessionLedger`, because the snapshot stands for the stores; `Exit` is its
  one step; and `Raise` is a stutter, or that same step where a commit that failed was durable.
  `_LogoutKeepsHint` is a case for each way out of a logout's block (`LeftByLeaving`).
* `FreshTokenProofs`. `FreshInv` has eight parts. `StoredTokenHonoured` is about calls that were
  sent the same token, and is not inductive: nothing in it says that the token one of them was given
  is not somebody else's too. `BelongsInv` says that a refresh token belongs to one session, and
  `RotationInv` that a token a call was given and has not stored is honoured and known to no row and no
  other call. Then what a grant revokes is a token of its own session, and a call under way brings that
  session the next one (`KeptInv`). For `HandedOutWhileStanding`, `TimelyInv` says that by one clock no row
  is ahead of its time, hence a row that stands at the second look stood when the issuer answered
  (`StoodInv`), also where it was renewed in between.
* `PendingLoginProofs`. `RequestInv`: a login is its own start's until the browser is sent to the issuer
  with it, and only then does a callback name it; so no answer brings a login back that another one
  completed (`PendingLogin_DeliveredNotHeld`). `EvictedInv`: what a start's answer will clear has
  `MaxPending` others at least as young, whichever came in between (`PendingLogin_LatestLoginsKept`).
  `JarBounded` is far from inductive: an answer takes away what its start was sent with, so what
  counts is which starts are still open. `JarInv` numbers them in the order they were sent, and holds
  of the jar that whatever the answer of a start leaves in it, with the earlier starts still open, is
  no more than there are slots for (`PendingLogin_JarBounded`).
* `KeySetCacheProofs`. The invariant relates the lock to the one thread in a
  refresh, its `began` to `_last_refresh_at`, the age of every key set in the cache
  or in a local to `lastPublished`, and `askedAt` to `_last_refresh_at`, which is never the earlier of the two:
  so a thread that passed the cooldown is a cooldown later than the last fetch (`KeySetCache_FetchesBounded`).
* `SingleProcessRateLimitProofs`. Of the promise: whoever spends only where `FitsAt` says so keeps any two
  spends that are `Limit` apart a window apart (`SlidingWindow_WithinBudget`). Of the in-memory backend:
  `BackendInv` says of each key that what is held is what was ever spent from some place on (`RecordOf`), and
  that all before that place has left the window at `Reading`, the instant of decision: the clock, or
  what the holder of the lock read of it. Spends are in order because the clock is read under the lock
  (`SpentInOrder`), so what a trim keeps are the last places of the list (`LastPlaces`, by well-foundedness), its
  length is the number of spends that count, and a sweep that looks at a key's newest event alone is right.
  That gives `SingleProcess_KeepsBudget`, every answer, a denial too, being the one of the backend that forgets nothing,
  with it `SingleProcess_WithinBudget`, and `SingleProcess_SweepLeavesActive`.
* `RedisRateLimitProofs`. `RedisInv`: each member is a counted check of its own, whose score is behind true
  time by no more than the clock is set back by now (`MembersOK`); a check whose member is gone has left the
  window in true time (`Remembered`); and `EXPIRE` is not due while the last one counts (`ExpiryOK`). The cardinality of
  what trimming leaves is then at least the number of checks that count (`CountedFits`), and where
  it reaches the limit, one check more would not fit a set-back ago (`DeniedFull`): `Redis_KeepsBudget`.
* `RelyingPartyProofs`. About an exchange by itself (`ExchangeSpec`) `StepBounded` says that a step under way
  ends by the deadline, since it began before it and its timeout was cut to what was left;
  `TlsWithinDeadline`, a part of `ExchangeBounded`, is not inductive alone, for it does not say when a step times out.
  `OutcomeAtEnd`: an outcome stands only once the exchange is over, so that no time passes
  between the naming of a failure and its report (`LateIsTimedOut`, `OneByteOver`).
  `RelyingParty_ExchangeSpec` is a refinement: whatever a relying party does is a step of one exchange or leaves
  it alone, and so keeps its bounds. `RPInv` is about the operation under way. None of the four properties of
  verdicts is inductive, for the step that gives a verdict reads what earlier steps stored: `Stamped` and
  `LoginCalledBack` keep the second a login began by its own node's clock and the age its callback had by
  another's, `RefreshSent` the second at which a refresh was sent, `AnswerOK` that a login's token has the nonce of
  the login its code is of, and `WorkOK` what was made of a workload's token before the person's. With what each
  verdict tells of a token (`HeaderVerdictTells` to `CallbackVerdictTells`, from `FirstRefusalIsFirst`) they give
  `RelyingParty_IdentityOfOwnLogin`, `_AgesUnderSkew`, `_KindsApart` and `_NoForbiddenForUnverified`.
  `AgesUnderSkew` needs the leeway to be a whole number of seconds, as `leeway_seconds` is: `started_at` is one, and
  with half a second of leeway the rounding would make a fresh token stale. `KindsApart` rests on
  `IssuerAssumption`, and so on the check of the issuer that lets only its own tokens through.
* `RequestStackProofs`. `StartsKnown` relates the starts the server was given to what each layer
  believes: the app's side knows by `startHandedOver`, the outer layer by `responseStarted`, and
  the two agree for as long as a layer still has to decide. `ResponseGuarded` by itself says nothing of the
  flags a layer decides by. `Counted` adds that what the app has is part of what was counted.
  `OverLimitIsTold` needs both: a 413 is given only where no start was.
  `GateInv` is about the two records: what the bearer gate left repeats the fields of `vouched`, and
  its principal the claims of that token (`MemoInv`); what the session gate left names nobody or the
  account of the session it read (`GateRecordInv`); and a request of the main app that nobody has
  rewritten was found to be what each layer it passed asks for (`PassedInv`). It gives
  `RequestStack_RefusedBeforeLookup`, `_TokenBinding`, `_ForgeryIsNobody`, `_ReadersAgree` and
  `_HandlerIsVouchedFor`. These are about every configuration, that of a host which installs only
  some of the layers included, so `HandlerIsVouchedFor` says of each gate what it says only where the
  rules install it. The fields of a request are taken from sets of their own (`Paths`, `Methods`,
  `Auths`, `Cookies`, `Sites`), which the proofs need to know what a record may hold.
  `IdentityInv` relates the header to the true senders: each sender but the last is told of by a hop
  (`ToldOf`), the hops read before that one tell only of later senders, and they are as many as those. A proxy adds one
  hop that is read first, into whichever field (`ForwardedHop`), and at most one hop decides (`OneDecides`). So the
  client named is the last sender no trusted proxy vouches for (`ClientIsOutsider`), and it is the one
  charged, since nothing is forwarded any more once a layer decides (`RequestStack_ClientPaysForItself`).

The type invariants of `SignIn`, `KeySetCache`, `HttpsExchange`, `RequestStack`, `FreshToken` and `PendingLogin` are proved
as parts of these invariants, with those of both rate-limit backends, and that of `SignIn` is checked as well.

Only model-checked:

* `EntryLeft`, `RefreshLockFreed`, `ExchangeEnds` and `FailureEnds`: liveness under fairness, and
  `ENABLED`, are out of the prover's reach.

## Not modelled, and the plan

1. A composition of `PendingLogin` and `SignIn`: a callback from the cookie it carries to the
   session cookie it answers, with the login of `RelyingParty` between them. It is what the sign-in routes still lack.
2. Cancellation of a request's own task while its start is shielded.

Left out for good: parsing and cryptography (of a JWT, a cookie, a URL, an address),
which the models replace by the outcomes the code tells apart; the content security
policy's values, the redirect rules of `_paths.py`, the end-session page and rendering,
which keep no state; construction-time validation beyond what the assumptions state.
A back-channel logout that arrives between the issuer's answer to a callback and that
callback's entry ends no session of it: the code accepts that order, and no property
is about it. The `ValueError` of a rate-limit key
checked with a second window cannot arise: the middleware ties a key to one
budget.
