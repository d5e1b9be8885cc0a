------------------------- MODULE RequestStackProofs -------------------------
(***************************************************************************)
(* Theorems about a request on its way through the layers of an app, for   *)
(* every set of apps, requests, policies, tokens, sessions, limits, piece  *)
(* sizes, host rewrites and proxies: first its body and its response, then *)
(* what the gates decide and what the readers of a route make of it, and   *)
(* last whom its client is known as.                                       *)
(***************************************************************************)
EXTENDS RequestStack, FiniteSetTheorems, TLAPS

\* What was counted is at least what the app has, and both are numbers.
Counted ==
    /\ limit \in Nat /\ received \in Nat /\ consumed \in Nat
    /\ consumed <= received /\ consumed <= limit

\* No start or one, and the flag of each layer knows of it for as long as that layer still has to decide.
StartsKnown ==
    /\ starts = <<>> \/ \E status : starts = <<status>>
    /\ responseStarted <=> starts # <<>>
    /\ startHandedOver <=> sending # "not-yet"
    /\ place = "door" => starts = <<>>
    /\ place \in {"door", "app", "body-layer"} => (startHandedOver <=> starts # <<>>)

BodyInv == Counted /\ StartsKnown

\* A layer that has given the server no start may give it one.
LEMMA FirstStart ==
    ASSUME NEW status, starts = <<>>, SendWithPolicy(status)
    PROVE  responseStarted' /\ starts' = <<status>> /\ starts' # <<>>
<1>1. Append(<<>>, status) = <<status>>
  OBVIOUS
<1>2. <<status>> # <<>>
  OBVIOUS
<1> QED
  BY <1>1, <1>2 DEF SendWithPolicy

LEMMA InitBody == Init => BodyInv
<1> SUFFICES ASSUME Init PROVE BodyInv
  OBVIOUS
<1>1. BodyLimits[request.path] \in Nat
  BY RequestStackAssumption DEF Init, RequestStackAssumption
<1>2. /\ limit = BodyLimits[request.path] /\ received = 0 /\ consumed = 0
      /\ startHandedOver = FALSE /\ responseStarted = FALSE
      /\ sending = "not-yet" /\ starts = <<>>
  BY DEF Init, BodyInit
<1>3. Counted
  BY <1>1, <1>2 DEF Counted
<1>4. StartsKnown
  BY <1>2 DEF StartsKnown
<1> QED
  BY <1>3, <1>4 DEF BodyInv

LEMMA StutterKeepsBody ==
    ASSUME BodyInv, UNCHANGED bodyVars
    PROVE  BodyInv'
  BY DEF BodyInv, Counted, StartsKnown, bodyVars

\* The steps that give the server no start.
LEMMA NoStartKeeps ==
    ASSUME StartsKnown, UNCHANGED <<startHandedOver, responseStarted, starts>>,
           sending' = sending \/ (sending = "pending" /\ sending' # "not-yet"),
           place' = "door" => place = "door",
           place' \in {"door", "app", "body-layer"} => place \in {"door", "app", "body-layer"}
    PROVE  StartsKnown'
  BY DEF StartsKnown

LEMMA DoorKeeps ==
    ASSUME BodyInv, NEW declared, Door(declared)
    PROVE  BodyInv'
<1>1. place = "door" /\ UNCHANGED <<limit, received, consumed, startHandedOver, sending>>
  BY DEF Door
<1>2. Counted'
  BY <1>1 DEF BodyInv, Counted
<1>3. CASE declared /\ unread > limit
  <2>1. place' = "server" /\ SendWithPolicy(413)
    BY <1>3 DEF Door
  <2>2. starts = <<>>
    BY <1>1 DEF BodyInv, StartsKnown
  <2>3. responseStarted' /\ starts' = <<413>> /\ starts' # <<>>
    BY <2>1, <2>2, FirstStart
  <2>4. StartsKnown'
    BY <1>1, <2>1, <2>3 DEF BodyInv, StartsKnown
  <2> QED
    BY <1>2, <2>4 DEF BodyInv
<1>4. CASE ~ (declared /\ unread > limit)
  <2>1. place' = "app" /\ UNCHANGED <<responseStarted, starts>>
    BY <1>4 DEF Door
  <2>2. StartsKnown'
    BY <1>1, <2>1, NoStartKeeps DEF BodyInv
  <2> QED
    BY <1>2, <2>2 DEF BodyInv
<1> QED
  BY <1>3, <1>4

LEMMA PieceKeeps ==
    ASSUME BodyInv, NEW size \in Nat, ReadPiece(size)
    PROVE  BodyInv'
<1>1. /\ received' = received + size /\ limit' = limit
      /\ UNCHANGED <<place, startHandedOver, responseStarted, sending, starts>>
  BY DEF ReadPiece
<1>2. consumed' = consumed \/ (received + size <= limit /\ consumed' = consumed + size)
  BY <1>1 DEF ReadPiece, BodyInv, Counted
<1>3. Counted'
  BY <1>1, <1>2 DEF BodyInv, Counted
<1>4. StartsKnown'
  BY <1>1, NoStartKeeps DEF BodyInv
<1> QED
  BY <1>3, <1>4 DEF BodyInv

\* The app hands over one start, for it waits until that one has arrived or failed.
LEMMA HandOverKeeps ==
    ASSUME BodyInv, NEW status, HandOver(status)
    PROVE  BodyInv'
<1>1. /\ place = "app" /\ sending = "not-yet" /\ sending' = "pending" /\ startHandedOver'
      /\ UNCHANGED <<place, limit, received, consumed>>
  BY DEF HandOver
<1>2. starts = <<>>
  BY <1>1 DEF BodyInv, StartsKnown
<1>3. responseStarted' /\ starts' = <<status>> /\ starts' # <<>>
  BY <1>2, FirstStart DEF HandOver
<1>4. StartsKnown'
  BY <1>1, <1>3 DEF StartsKnown
<1> QED
  BY <1>1, <1>4 DEF BodyInv, Counted

LEMMA AppKeeps ==
    ASSUME BodyInv, App
    PROVE  BodyInv'
<1>1. ASSUME AppFails \/ AppCatches PROVE BodyInv'
  <2>1. UNCHANGED <<place, limit, received, consumed, startHandedOver, responseStarted,
                    sending, starts>>
    BY <1>1 DEF AppFails, AppCatches
  <2> QED
    BY <2>1, NoStartKeeps DEF BodyInv, Counted
<1>2. ASSUME NEW size \in Pieces, ReadPiece(size) PROVE BodyInv'
  BY <1>2, PieceKeeps, RequestStackAssumption DEF RequestStackAssumption
<1> QED
  BY <1>1, <1>2, HandOverKeeps DEF App

LEMMA DeliveryKeeps ==
    ASSUME BodyInv, Deliver \/ StartFails
    PROVE  BodyInv'
<1>1. /\ sending = "pending" /\ sending' # "not-yet"
      /\ UNCHANGED <<place, limit, received, consumed, startHandedOver, responseStarted, starts>>
  BY DEF Deliver, StartFails
<1> QED
  BY <1>1, NoStartKeeps DEF BodyInv, Counted

\* Outside the app a start is given only by a layer that knows of none.
LEMMA OutwardKeeps ==
    ASSUME BodyInv, Outward
    PROVE  BodyInv'
<1>1. UNCHANGED <<limit, received, consumed, startHandedOver, sending>>
  BY DEF Outward, AppEnds, BodyLayer, SecurityLayer
<1>2. Counted'
  BY <1>1 DEF BodyInv, Counted
<1>3. CASE UNCHANGED <<responseStarted, starts>>
  <2>1. /\ place' # "door"
        /\ place' \in {"app", "body-layer"} => place = "app"
    BY DEF Outward, AppEnds, BodyLayer, SecurityLayer
  <2>2. StartsKnown'
    BY <1>1, <1>3, <2>1, NoStartKeeps DEF BodyInv
  <2> QED
    BY <1>2, <2>2 DEF BodyInv
<1>4. CASE place = "body-layer" /\ ~startHandedOver /\ SendWithPolicy(413)
           /\ place' = "security-layer"
  <2>1. starts = <<>>
    BY <1>4 DEF BodyInv, StartsKnown
  <2>2. responseStarted' /\ starts' = <<413>> /\ starts' # <<>>
    BY <1>4, <2>1, FirstStart
  <2>3. StartsKnown'
    BY <1>1, <1>4, <2>2 DEF BodyInv, StartsKnown
  <2> QED
    BY <1>2, <2>3 DEF BodyInv
<1>5. CASE ~responseStarted /\ SendWithPolicy(500) /\ place' = "server"
  <2>1. starts = <<>>
    BY <1>5 DEF BodyInv, StartsKnown
  <2>2. responseStarted' /\ starts' = <<500>> /\ starts' # <<>>
    BY <1>5, <2>1, FirstStart
  <2>3. StartsKnown'
    BY <1>1, <1>5, <2>2 DEF BodyInv, StartsKnown
  <2> QED
    BY <1>2, <2>3 DEF BodyInv
<1> QED
  BY <1>3, <1>4, <1>5 DEF Outward, AppEnds, BodyLayer, SecurityLayer

LEMMA StepKeepsBody ==
    ASSUME BodyInv, [Next]_vars
    PROVE  BodyInv'
<1>1. CASE Arrive
  <2>1. PICK declared : declared = request.declared /\ Door(declared)
    BY <1>1 DEF Arrive
  <2> QED
    BY <2>1, DoorKeeps
<1>2. CASE Respond
  BY <1>2, AppKeeps, DeliveryKeeps, OutwardKeeps DEF Respond
<1>3. CASE OnTheWay \/ Handshake \/ Layers \/ Meanwhile \/ Done \/ UNCHANGED vars
  <2>1. UNCHANGED bodyVars
    BY <1>3 DEF OnTheWay, Handshake, Layers, Meanwhile, Done, vars
  <2> QED
    BY <2>1, StutterKeepsBody
<1> QED
  BY <1>1, <1>2, <1>3 DEF Next

\* Every request keeps the invariant of its body and its response.
THEOREM RequestStack_BodyInv == Spec => []BodyInv
<1>1. BodyInv /\ [Next]_vars => BodyInv'
  BY StepKeepsBody
<1> QED
  BY <1>1, InitBody, PTL DEF Spec

\* The server is given at most one response start, whoever gives it
\* (send_start_whole), and the app no more of the body than the limit, in pieces
\* of any size (guarded_receive).
THEOREM RequestStack_ResponseGuarded == Spec => []ResponseGuarded
<1>1. BodyInv => ConsumedWithinLimit
  BY DEF BodyInv, Counted, ConsumedWithinLimit
<1>2. BodyInv => OneStart
  <2> SUFFICES ASSUME BodyInv PROVE Len(starts) <= 1
    BY DEF OneStart
  <2>1. starts = <<>> \/ \E status : starts = <<status>>
    BY DEF BodyInv, StartsKnown
  <2>2. CASE starts = <<>>
    <3>1. Len(<<>>) = 0
      OBVIOUS
    <3> QED
      BY <2>2, <3>1
  <2>3. CASE \E status : starts = <<status>>
    <3>1. \A one : Len(<<one>>) = 1
      OBVIOUS
    <3> QED
      BY <2>3, <3>1
  <2> QED
    BY <2>1, <2>2, <2>3
<1>3. BodyInv => ResponseGuarded
  BY <1>1, <1>2 DEF ResponseGuarded
<1> QED
  BY <1>3, RequestStack_BodyInv, PTL

\* A body found too large is answered or reaches the server as a failure, however
\* far the response is (BodySizeLimitMiddleware.__call__).
THEOREM RequestStack_OverLimitIsTold == Spec => OverLimitIsTold
<1> DEFINE Told == exception = "too-large" /\ exception' # "too-large" =>
                       place = "app" \/ exception' = "other" \/ starts' # starts
<1>1. BodyInv /\ [Next]_vars => [Told]_vars
  <2> SUFFICES ASSUME BodyInv, Next, exception = "too-large", exception' # "too-large"
               PROVE  place = "app" \/ exception' = "other" \/ starts' # starts
    OBVIOUS
  <2>1. CASE App \/ Arrive
    BY <2>1 DEF App, AppFails, AppCatches, ReadPiece, HandOver, Arrive, Door
  <2>2. CASE Deliver \/ StartFails
    BY <2>2 DEF Deliver, StartFails
  <2>3. CASE AppEnds \/ SecurityLayer
    BY <2>3 DEF AppEnds, SecurityLayer
  <2>4. CASE BodyLayer
    <3>1. place = "body-layer" /\ ~startHandedOver /\ SendWithPolicy(413)
      BY <2>4 DEF BodyLayer
    <3>2. starts = <<>>
      BY <3>1 DEF BodyInv, StartsKnown
    <3> QED
      BY <3>1, <3>2, FirstStart
  <2>5. CASE OnTheWay \/ Handshake \/ Layers \/ Meanwhile \/ Done
    BY <2>5 DEF OnTheWay, Handshake, Layers, Meanwhile, Done, bodyVars, vars
  <2> QED
    BY <2>1, <2>2, <2>3, <2>4, <2>5 DEF Next, Respond, Outward
<1> QED
  BY <1>1, RequestStack_BodyInv, PTL DEF Spec, OverLimitIsTold

-----------------------------------------------------------------------------
\* The layers of the gates: what each part of the state says of the others.

Stages == {"network", "rate", "bearer", "csrf", "session", "inside", "route", "answered"}

GateTypeOK ==
    /\ stage \in Stages
    /\ request \in RequestRecord /\ arrived \in Requests
    /\ rewritten \in BOOLEAN /\ looked \in BOOLEAN
    /\ bearerMemo \in BearerRecord \cup {Nothing}
    /\ gateMemo \in GateRecord \cup {Nothing}
    /\ vouched \in RequestRecord \cup {Nothing}

\* What host code and mounts leave of the request that arrived.
ArrivedInv ==
    /\ request.site = arrived.site
    /\ request.method = "websocket" <=> arrived.method = "websocket"
    /\ request.app = MainApp /\ ~rewritten => request = arrived
    /\ request.app = MainApp /\ rewritten => stage \in {"inside", "route"}
    /\ stage = "network" => request.app = MainApp

\* No layer decides a handshake, and no gate leaves a record on it.
HandshakeInv ==
    IsHandshake => /\ stage \in {"network", "inside", "route"}
                   /\ bearerMemo = Nothing /\ gateMemo = Nothing

\* The bearer gate's record is of the request it vouched for.
MemoInv ==
    /\ bearerMemo = Nothing <=> vouched = Nothing
    /\ bearerMemo # Nothing =>
          /\ bearerMemo.app = vouched.app /\ bearerMemo.path = vouched.path
          /\ bearerMemo.auth = vouched.auth
          /\ bearerMemo.principal.who = Claims[vouched.auth].owner
          /\ bearerMemo.principal.kind = "machine" <=> bearerMemo.principal.via = "machine"
          /\ bearerMemo.method = IF bearerMemo.principal.via = "resource"
                                 THEN vouched.method ELSE Nothing

\* The session gate's record names nobody, or the account of the session it read.
GateRecordInv ==
    gateMemo # Nothing =>
        \/ gateMemo.admission \in {Nothing, Refused}
        \/ gateMemo.reading \in Sids /\ gateMemo.admission = SessionPerson[gateMemo.reading]

\* At the main app only the session gate asks the store, and it decides last.
LookedInv ==
    looked /\ request.app = MainApp =>
        \/ stage \in {"inside", "route"}
        \/ stage = "answered" /\ (answer[1] = 500 \/ answer[2] = "session")

Forged ==
    /\ arrived.method \in Mutating
    /\ arrived.path \notin Policy[MainApp].csrfExempt
    /\ arrived.site \notin {"same-origin", "allowed"}

\* Nothing but a token gets a forged request past the origin check.
ForgeryInv ==
    Forged /\ (request.app # MainApp \/ stage \in {"session", "inside", "route"}) =>
        bearerMemo # Nothing

\* The session gate let the request pass: the path is open, or its session was live.
Opened ==
    /\ gateMemo # Nothing
    /\ gateMemo.config = ConfigOf[request.app] /\ gateMemo.reading = CookieReading
    /\ \/ IsPublic \/ IsOptional
       \/ gateMemo.admission \in Accounts

\* What the layers a request of the main app has passed have found of it.
PassedInv ==
    request.app = MainApp /\ ~rewritten /\ ~IsHandshake =>
        /\ bearerMemo # Nothing => vouched = request
        /\ "bearer" \in Rules.layers /\ stage \in {"csrf", "session", "inside", "route"} =>
              /\ IsMachinePath =>
                    bearerMemo # Nothing /\ bearerMemo.principal.kind = "machine"
              /\ IsEntryPoint /\ ~IsMachinePath =>
                    bearerMemo # Nothing /\ bearerMemo.principal.via = "resource"
        /\ "session" \in Rules.layers /\ stage \in {"inside", "route"} =>
              bearerMemo # Nothing \/ Opened

GateInv ==
    /\ GateTypeOK /\ ArrivedInv /\ HandshakeInv /\ MemoInv
    /\ GateRecordInv /\ LookedInv /\ ForgeryInv /\ PassedInv

LEMMA InstalledLayer ==
    ASSUME NEW app
    PROVE  /\ Installed("inside", app) = "inside"
           /\ Installed("session", app) =
                  IF "session" \in Policy[app].layers THEN "session" ELSE "inside"
           /\ Installed("csrf", app) =
                  IF "csrf" \in Policy[app].layers THEN "csrf" ELSE Installed("session", app)
           /\ Installed("bearer", app) =
                  IF "bearer" \in Policy[app].layers THEN "bearer" ELSE Installed("csrf", app)
           /\ Installed("rate", app) =
                  IF "rate" \in Policy[app].layers THEN "rate" ELSE Installed("bearer", app)
  BY DEF Installed, NextLayer

\* Where a request goes that a layer passes on; the main app checks the origin.
LEMMA PassedOn ==
    ASSUME NEW app
    PROVE  /\ Installed("rate", app) \in {"rate", "bearer", "csrf", "session", "inside"}
           /\ Installed("bearer", app) \in {"bearer", "csrf", "session", "inside"}
           /\ Installed("csrf", app) \in {"csrf", "session", "inside"}
           /\ Installed("session", app) \in {"session", "inside"}
           /\ Installed("session", app) = "inside" => "session" \notin Policy[app].layers
           /\ app = MainApp =>
                 /\ Installed("csrf", app) = "csrf"
                 /\ Installed("bearer", app) \in {"bearer", "csrf"}
                 /\ Installed("rate", app) \in {"rate", "bearer", "csrf"}
                 /\ "bearer" \in Policy[app].layers =>
                       /\ Installed("bearer", app) = "bearer"
                       /\ Installed("rate", app) # "csrf"
<1>1. "csrf" \in Policy[MainApp].layers
  BY RequestsAssumption DEF RequestsAssumption
<1> QED
  BY <1>1, InstalledLayer

LEMMA NextLayers ==
    /\ NextLayer["rate"] = "bearer" /\ NextLayer["bearer"] = "csrf"
    /\ NextLayer["csrf"] = "session" /\ NextLayer["session"] = "inside"
  BY DEF NextLayer

\* Which sessions are live is no part of what the layers left behind.
LEMMA GateStutter ==
    ASSUME GateInv,
           UNCHANGED <<stage, request, arrived, rewritten, bearerMemo, gateMemo, vouched, looked,
                       answer>>
    PROVE  GateInv'
<1>1. GateTypeOK' /\ ArrivedInv' /\ HandshakeInv' /\ MemoInv' /\ GateRecordInv'
  BY DEF GateInv, GateTypeOK, ArrivedInv, HandshakeInv, IsHandshake, MemoInv, GateRecordInv
<1>2. LookedInv' /\ ForgeryInv'
  BY DEF GateInv, LookedInv, ForgeryInv, Forged
<1>3. PassedInv'
  BY DEF GateInv, PassedInv, IsHandshake, Rules, IsMachinePath, IsEntryPoint, Opened,
         CookieReading, IsPublic, IsOptional
<1> QED
  BY <1>1, <1>2, <1>3 DEF GateInv

LEMMA InitGates == Init => GateInv
<1> SUFFICES ASSUME Init PROVE GateInv
  OBVIOUS
<1>1. /\ request \in Requests /\ arrived = request /\ rewritten = FALSE /\ stage = "network"
      /\ bearerMemo = Nothing /\ gateMemo = Nothing /\ vouched = Nothing /\ looked = FALSE
  BY DEF Init
<1>2. request \in RequestRecord /\ request.app = MainApp
  BY <1>1, RequestsAssumption DEF RequestsAssumption
<1>3. GateTypeOK
  BY <1>1, <1>2 DEF GateTypeOK, Stages
<1>4. ArrivedInv /\ HandshakeInv /\ MemoInv /\ GateRecordInv /\ LookedInv
  BY <1>1, <1>2 DEF ArrivedInv, HandshakeInv, MemoInv, GateRecordInv, LookedInv
<1>5. ForgeryInv /\ PassedInv
  BY <1>1, <1>2 DEF ForgeryInv, PassedInv
<1> QED
  BY <1>3, <1>4, <1>5 DEF GateInv

\* A step of a layer changes neither the request nor what host code did to it.
LEMMA LayerFrame ==
    ASSUME GateInv, stage \in {"rate", "bearer", "csrf", "session"},
           UNCHANGED <<request, arrived, rewritten>>, stage' \in Stages \ {"network"}
    PROVE  ArrivedInv' /\ HandshakeInv' /\ ~IsHandshake
<1>1. ~IsHandshake /\ ~IsHandshake'
  BY DEF GateInv, HandshakeInv, IsHandshake
<1>2. ArrivedInv'
  BY DEF GateInv, ArrivedInv, Stages
<1> QED
  BY <1>1, <1>2 DEF HandshakeInv

\* Records that stay, of a request that stays, still agree.
LEMMA RecordsFrame ==
    ASSUME GateInv, UNCHANGED <<request, arrived, rewritten, bearerMemo, gateMemo, vouched>>
    PROVE  MemoInv' /\ GateRecordInv'
  BY DEF GateInv, MemoInv, GateRecordInv

\* Before the session gate of the main app nobody has asked the store.
LEMMA NotLookedYet ==
    ASSUME GateInv, stage \in {"rate", "bearer", "csrf", "session"}, request.app = MainApp
    PROVE  ~looked /\ ~rewritten /\ request = arrived
  BY DEF GateInv, GateTypeOK, LookedInv, ArrivedInv

LEMMA RateKeepsGates ==
    ASSUME GateInv, RateLayer
    PROVE  GateInv'
<1>1. /\ stage = "rate"
      /\ UNCHANGED <<request, arrived, rewritten, bearerMemo, gateMemo, live, vouched, looked>>
      /\ stage' = Installed("bearer", request.app) \/ stage' = "answered"
  BY NextLayers DEF RateLayer, Pass, Refuse
<1>2. stage' \in {"bearer", "csrf", "session", "inside", "answered"}
  BY <1>1, PassedOn
<1>3. GateTypeOK'
  BY <1>1, <1>2 DEF GateInv, GateTypeOK, Stages
<1>4. ArrivedInv' /\ HandshakeInv' /\ MemoInv' /\ GateRecordInv' /\ ~IsHandshake
  BY <1>1, <1>2, LayerFrame, RecordsFrame DEF Stages
<1>5. CASE request.app # MainApp
  BY <1>1, <1>3, <1>4, <1>5 DEF GateInv, LookedInv, ForgeryInv, Forged, PassedInv
<1>6. CASE request.app = MainApp
  <2>1. ~looked
    BY <1>1, <1>6, NotLookedYet
  <2>2. /\ stage' \in {"bearer", "csrf", "answered"}
        /\ "bearer" \in Policy[request.app].layers => stage' # "csrf"
    BY <1>1, <1>6, PassedOn
  <2>3. LookedInv' /\ ForgeryInv'
    BY <1>1, <1>6, <2>1, <2>2 DEF LookedInv, ForgeryInv
  <2>4. PassedInv'
    BY <1>1, <2>2 DEF GateInv, PassedInv, Rules, IsHandshake
  <2> QED
    BY <1>3, <1>4, <2>3, <2>4 DEF GateInv
<1> QED
  BY <1>5, <1>6

\* What the bearer gate may do with a request: refuse it, ...
BearerRefuses == stage' = "answered" /\ UNCHANGED <<bearerMemo, vouched>>

\* ... pass it on as it came, ...
BearerPasses == stage' = Installed("csrf", request.app) /\ UNCHANGED <<bearerMemo, vouched>>

\* ... or admit the principal of its token.
BearerAdmits(principal) ==
    /\ stage' = Installed("csrf", request.app)
    /\ bearerMemo' = [app |-> request.app, path |-> request.path, auth |-> request.auth,
                      principal |-> principal,
                      method |-> IF principal.via = "resource" THEN request.method ELSE Nothing]
    /\ vouched' = request
    /\ principal.who = Claims[request.auth].owner
    /\ principal.kind = "machine" <=> principal.via = "machine"

\* Only a bearer token is read as a token.
LEMMA CredentialIsToken ==
    ASSUME NEW auth, Credential(auth) \in Tokens
    PROVE  auth \in Tokens /\ Credential(auth) = auth
<1>1. CASE auth \in Tokens
  <2>1. auth \notin {"no-header", "another-scheme", "not-a-b64token"}
    BY <1>1, PrincipalsAssumption DEF PrincipalsAssumption
  <2> QED
    BY <1>1, <2>1 DEF Credential
<1>2. CASE auth \notin Tokens
  <2>1. Credential(auth) \in {"no-credentials", "invalid-token", "invalid-request"}
    BY <1>2 DEF Credential
  <2> QED
    BY <2>1, PrincipalsAssumption DEF PrincipalsAssumption
<1> QED
  BY <1>1, <1>2

LEMMA MachineEffect ==
    ASSUME stage = "bearer", MachineDecides
    PROVE  \/ BearerRefuses
           \/ \E p \in Principal : BearerAdmits(p) /\ p.kind = "machine"
<1> DEFINE token == Credential(request.auth)
<1>1. CASE token \notin Tokens
  BY <1>1 DEF MachineDecides, Refuse, NoRecord, BearerRefuses
<1>2. CASE token \in Tokens
  <2>1. token = request.auth
    BY <1>2, CredentialIsToken
  <2>2. PICK verdict \in AccessVerdicts(token, Rules.machines) :
            IF verdict = "refused" THEN Refuse(<<401, "invalid-token">>) /\ NoRecord
            ELSE IF Claims[token].role # "admin"
            THEN Refuse(<<403, "insufficient-scope">>) /\ NoRecord
            ELSE RecordBearer(Caller(Claims[token].owner), FALSE) /\ Pass
    BY <1>2 DEF MachineDecides
  <2>3. BearerRefuses \/ (RecordBearer(Caller(Claims[token].owner), FALSE) /\ Pass)
    BY <2>2 DEF Refuse, NoRecord, BearerRefuses
  <2>4. ASSUME RecordBearer(Caller(Claims[token].owner), FALSE), Pass
        PROVE  \E p \in Principal : BearerAdmits(p) /\ p.kind = "machine"
    <3> DEFINE p == Caller(Claims[token].owner)
    <3>1. p \in Principal /\ p.kind = "machine" /\ p.via = "machine" /\ p.who = Claims[token].owner
      BY <1>2 DEF Principal, Caller
    <3>2. BearerAdmits(p)
      BY <2>1, <2>4, <3>1, NextLayers DEF RecordBearer, Pass, BearerAdmits
    <3> QED
      BY <3>1, <3>2
  <2> QED
    BY <2>3, <2>4
<1> QED
  BY <1>1, <1>2

LEMMA PersonEffect ==
    ASSUME stage = "bearer", PersonDecides
    PROVE  BearerRefuses \/ BearerPasses \/ \E p \in Principal : BearerAdmits(p)
<1> DEFINE token == Credential(request.auth)
<1>1. CASE token = "no-credentials"
  BY <1>1, NextLayers DEF PersonDecides, Pass, NoRecord, BearerPasses
<1>2. CASE token # "no-credentials" /\ token \notin Tokens
  BY <1>2 DEF PersonDecides, Refuse, NoRecord, BearerRefuses
<1>3. CASE token # "no-credentials" /\ token \in Tokens
  <2>1. token = request.auth
    BY <1>3, CredentialIsToken
  <2> DEFINE p == Person(Claims[token].owner, Claims[token].role, "token")
  <2>2. BearerRefuses \/ (RecordBearer(p, FALSE) /\ Pass)
    BY <1>3 DEF PersonDecides, Refuse, NoRecord, BearerRefuses
  <2>3. ASSUME RecordBearer(p, FALSE), Pass
        PROVE  \E q \in Principal : BearerAdmits(q)
    <3>1. Claims[token].role \in {"admin", "user", "none"}
      BY <1>3, PrincipalsAssumption DEF PrincipalsAssumption
    <3>2. p \in Principal /\ p.kind = "person" /\ p.via = "token" /\ p.who = Claims[token].owner
      BY <1>3, <3>1 DEF Principal, Person
    <3>3. BearerAdmits(p)
      BY <2>1, <2>3, <3>2, NextLayers DEF RecordBearer, Pass, BearerAdmits
    <3> QED
      BY <3>2, <3>3
  <2> QED
    BY <2>2, <2>3
<1> QED
  BY <1>1, <1>2, <1>3

LEMMA UnmarkedEffect ==
    ASSUME stage = "bearer", Unmarked
    PROVE  BearerRefuses \/ BearerPasses \/ \E p \in Principal : BearerAdmits(p)
<1>1. CASE IsPersonPath
  BY <1>1, PersonEffect DEF Unmarked
<1>2. CASE ~IsPersonPath
  BY <1>2, NextLayers DEF Unmarked, Pass, NoRecord, BearerPasses
<1> QED
  BY <1>1, <1>2

LEMMA ResourceEffect ==
    ASSUME stage = "bearer", ResourceDecides
    PROVE  \/ BearerRefuses
           \/ ~IsEntryPoint /\ BearerPasses
           \/ \E p \in Principal : BearerAdmits(p) /\ (p.via = "resource" \/ ~IsEntryPoint)
<1> DEFINE token == Credential(request.auth)
           verdicts == IF token \in Tokens THEN ResourceVerdicts(token) ELSE {"none"}
           p == Person(Claims[token].owner, "user", "resource")
<1>1. PICK verdict \in verdicts :
          \/ HandsOn(token, verdict) /\ Unmarked
          \/ BearerRefuses
          \/ verdict = "holds" /\ RecordBearer(p, TRUE) /\ Pass
  BY DEF ResourceDecides, Refuse, NoRecord, BearerRefuses
<1>2. CASE HandsOn(token, verdict) /\ Unmarked
  <2>1. ~IsEntryPoint
    BY <1>2 DEF HandsOn
  <2> QED
    BY <1>2, <2>1, UnmarkedEffect
<1>3. CASE verdict = "holds" /\ RecordBearer(p, TRUE) /\ Pass
  <2>1. token \in Tokens
    BY <1>3
  <2>2. token = request.auth
    BY <2>1, CredentialIsToken
  <2>3. p \in Principal /\ p.kind = "person" /\ p.via = "resource" /\ p.who = Claims[token].owner
    BY <2>1 DEF Principal, Person
  <2>4. BearerAdmits(p)
    BY <1>3, <2>2, <2>3, NextLayers DEF RecordBearer, Pass, BearerAdmits
  <2> QED
    BY <2>3, <2>4
<1> QED
  BY <1>1, <1>2, <1>3

LEMMA BearerEffect ==
    ASSUME BearerLayer
    PROVE  /\ stage = "bearer" /\ UNCHANGED <<request, arrived, rewritten, gateMemo, live, looked>>
           /\ \/ BearerRefuses
              \/ BearerPasses /\ ~IsMachinePath /\ ~IsEntryPoint
              \/ \E p \in Principal :
                    /\ BearerAdmits(p)
                    /\ IsMachinePath => p.kind = "machine"
                    /\ IsEntryPoint /\ ~IsMachinePath => p.via = "resource"
<1>1. stage = "bearer" /\ UNCHANGED <<request, arrived, rewritten, gateMemo, live, looked>>
  BY DEF BearerLayer
<1>2. CASE IsMachinePath
  BY <1>1, <1>2, MachineEffect DEF BearerLayer
<1>3. CASE ~IsMachinePath /\ (IsEntryPoint \/ IsMarked)
  BY <1>1, <1>3, ResourceEffect DEF BearerLayer
<1>4. CASE ~IsMachinePath /\ ~(IsEntryPoint \/ IsMarked)
  BY <1>1, <1>4, UnmarkedEffect DEF BearerLayer
<1> QED
  BY <1>1, <1>2, <1>3, <1>4

\* An admitted principal is recorded for the request as the bearer gate had it.
LEMMA AdmissionRecorded ==
    ASSUME GateInv, UNCHANGED request, ~IsHandshake, NEW p \in Principal, BearerAdmits(p)
    PROVE  /\ bearerMemo' \in BearerRecord /\ bearerMemo' # Nothing
           /\ vouched' = request /\ vouched' # Nothing
           /\ bearerMemo'.principal = p
           /\ MemoInv'
<1>1. request \in RequestRecord /\ request # Nothing
  BY NothingAssumption DEF GateInv, GateTypeOK, NothingAssumption
<1>2. bearerMemo' \in BearerRecord
  BY <1>1 DEF BearerAdmits, BearerRecord, RequestRecord
<1>3. bearerMemo' # Nothing
  BY <1>2, NothingAssumption DEF NothingAssumption
<1>4. vouched' = request /\ vouched' # Nothing /\ bearerMemo'.principal = p
  BY <1>1 DEF BearerAdmits
<1>5. /\ bearerMemo'.app = request.app /\ bearerMemo'.path = request.path
      /\ bearerMemo'.auth = request.auth /\ p.who = Claims[request.auth].owner
      /\ p.kind = "machine" <=> p.via = "machine"
      /\ bearerMemo'.method = IF p.via = "resource" THEN request.method ELSE Nothing
  BY DEF BearerAdmits
<1>6. MemoInv'
  BY <1>3, <1>4, <1>5 DEF MemoInv
<1> QED
  BY <1>2, <1>3, <1>4, <1>6

LEMMA BearerKeepsGates ==
    ASSUME GateInv, BearerLayer
    PROVE  GateInv'
<1>1. /\ stage = "bearer" /\ UNCHANGED <<request, arrived, rewritten, gateMemo, live, looked>>
      /\ \/ BearerRefuses
         \/ BearerPasses /\ ~IsMachinePath /\ ~IsEntryPoint
         \/ \E p \in Principal :
               /\ BearerAdmits(p)
               /\ IsMachinePath => p.kind = "machine"
               /\ IsEntryPoint /\ ~IsMachinePath => p.via = "resource"
  BY BearerEffect
<1>2. stage' = "answered" \/ stage' = Installed("csrf", request.app)
  BY <1>1 DEF BearerRefuses, BearerPasses, BearerAdmits
<1>3. /\ stage' \in {"csrf", "session", "inside", "answered"}
      /\ request.app = MainApp => stage' \in {"csrf", "answered"}
  BY <1>2, PassedOn
<1>4. ArrivedInv' /\ HandshakeInv' /\ ~IsHandshake /\ GateRecordInv'
  <2>1. GateRecordInv'
    BY <1>1 DEF GateInv, GateRecordInv
  <2> QED
    BY <1>1, <1>3, <2>1, LayerFrame DEF Stages
<1>5. request.app = MainApp => ~looked /\ ~rewritten
  BY <1>1, NotLookedYet
<1>6. LookedInv'
  BY <1>1, <1>5 DEF LookedInv
<1>7. CASE UNCHANGED <<bearerMemo, vouched>> /\ (stage' # "answered" => ~IsMachinePath /\ ~IsEntryPoint)
  <2>1. GateTypeOK' /\ MemoInv'
    BY <1>1, <1>3, <1>7 DEF GateInv, GateTypeOK, Stages, MemoInv
  <2>2. ForgeryInv'
    BY <1>1, <1>3, <1>7 DEF GateInv, ForgeryInv, Forged
  <2>3. PassedInv'
    BY <1>1, <1>3, <1>7 DEF GateInv, PassedInv, IsHandshake, Rules, IsMachinePath, IsEntryPoint
  <2> QED
    BY <1>4, <1>6, <2>1, <2>2, <2>3 DEF GateInv
<1>8. ASSUME NEW p \in Principal, BearerAdmits(p), IsMachinePath => p.kind = "machine",
             IsEntryPoint /\ ~IsMachinePath => p.via = "resource"
      PROVE  GateInv'
  <2>1. /\ bearerMemo' \in BearerRecord /\ bearerMemo' # Nothing /\ MemoInv'
        /\ vouched' = request /\ bearerMemo'.principal = p
    BY <1>1, <1>4, <1>8, AdmissionRecorded
  <2>2. GateTypeOK'
    BY <1>1, <1>3, <2>1 DEF GateInv, GateTypeOK, Stages
  <2>3. ForgeryInv'
    BY <2>1 DEF ForgeryInv
  <2>4. PassedInv'
    BY <1>1, <1>3, <1>8, <2>1 DEF PassedInv, IsHandshake, Rules, IsMachinePath, IsEntryPoint
  <2> QED
    BY <1>4, <1>6, <2>1, <2>2, <2>3, <2>4 DEF GateInv
<1> QED
  BY <1>1, <1>7, <1>8 DEF BearerRefuses, BearerPasses

\* The origin check passes a forged request of the main app on only by the record.
LEMMA CsrfKeepsGates ==
    ASSUME GateInv, CsrfLayer
    PROVE  GateInv'
<1>1. /\ stage = "csrf"
      /\ UNCHANGED <<request, arrived, rewritten, bearerMemo, gateMemo, live, vouched, looked>>
      /\ stage' = "answered" \/ stage' = Installed("session", request.app)
  BY NextLayers DEF CsrfLayer, Pass, Refuse
<1>2. /\ stage' \in {"session", "inside", "answered"}
      /\ "session" \in Rules.layers => stage' # "inside"
  BY <1>1, PassedOn DEF Rules
<1>3. ArrivedInv' /\ HandshakeInv' /\ ~IsHandshake /\ MemoInv' /\ GateRecordInv'
  BY <1>1, <1>2, LayerFrame, RecordsFrame DEF Stages
<1>4. GateTypeOK'
  BY <1>1, <1>2 DEF GateInv, GateTypeOK, Stages
<1>5. request.app = MainApp => ~looked /\ ~rewritten /\ request = arrived
  BY <1>1, NotLookedYet
<1>6. LookedInv'
  BY <1>1, <1>5 DEF LookedInv
<1>7. ForgeryInv'
  <2>1. CASE request.app = MainApp /\ Forged /\ stage' # "answered"
    <3>1. /\ request.method \in Mutating /\ request.path \notin Rules.csrfExempt
          /\ request.site \notin {"same-origin", "allowed"}
      BY <1>5, <2>1 DEF Forged, Rules
    <3>2. BearerAdmission # Nothing
      BY <2>1, <3>1 DEF CsrfLayer, Refuse
    <3>3. bearerMemo # Nothing
      BY <3>2 DEF BearerAdmission
    <3> QED
      BY <1>1, <3>3 DEF ForgeryInv
  <2>2. CASE ~(request.app = MainApp /\ Forged /\ stage' # "answered")
    BY <1>1, <2>2 DEF GateInv, ForgeryInv, Forged
  <2> QED
    BY <2>1, <2>2
<1>8. PassedInv'
  BY <1>1, <1>2 DEF GateInv, PassedInv, IsHandshake, Rules, IsMachinePath, IsEntryPoint
<1> QED
  BY <1>3, <1>4, <1>6, <1>7, <1>8 DEF GateInv

\* Whoever the cookie names is the account of the session it names.
LEMMA OwnAdmissionIs ==
    /\ OwnAdmission = Refused \/ (CookieReading \in Sids /\ OwnAdmission = SessionPerson[CookieReading])
    /\ OwnAdmission \in {Refused} \cup Accounts
  BY DEF OwnAdmission, Admit, Accounts

LEMMA DecisionRecorded ==
    ASSUME GateInv, UNCHANGED request, NEW admission, RecordGate(admission),
           admission \in {Nothing, Refused} \/
               (CookieReading \in Sids /\ admission = SessionPerson[CookieReading]),
           IsPublic \/ IsOptional \/ admission \in Accounts
    PROVE  /\ gateMemo' \in GateRecord /\ GateRecordInv' /\ Opened'
<1>1. request.app \in Apps /\ request.cookie \in Cookies
  BY DEF GateInv, GateTypeOK, RequestRecord
<1>2. CookieReading \in Cookies \cup {"no-session"}
  BY <1>1 DEF CookieReading, Reading
<1>3. admission \in {Nothing, Refused} \cup Accounts
  BY DEF Accounts
<1>4. gateMemo' = [config |-> ConfigOf[request.app], reading |-> CookieReading,
                   admission |-> admission]
  BY DEF RecordGate
<1>5. gateMemo' \in GateRecord
  BY <1>1, <1>2, <1>3, <1>4 DEF GateRecord
<1>6. gateMemo' # Nothing
  BY <1>5, NothingAssumption DEF NothingAssumption
<1>7. GateRecordInv'
  BY <1>4 DEF GateRecordInv
<1>8. /\ CookieReading' = CookieReading /\ (IsPublic' <=> IsPublic) /\ (IsOptional' <=> IsOptional)
      /\ request' = request
  BY DEF CookieReading, IsPublic, IsOptional, Rules
<1>9. /\ gateMemo'.config = ConfigOf[request.app] /\ gateMemo'.reading = CookieReading
      /\ gateMemo'.admission = admission
  BY <1>4
<1>10. Opened'
  BY <1>6, <1>8, <1>9 DEF Opened
<1> QED
  BY <1>5, <1>7, <1>10

LEMMA SessionKeepsGates ==
    ASSUME GateInv, SessionLayer \/ SessionRaises
    PROVE  GateInv'
<1> DEFINE Open == BearerAdmission = Nothing /\ IsPublic
           Decided == BearerAdmission = Nothing /\ ~IsPublic
           Ended == Decided /\ Refuse(<<401, "session">>) /\ UNCHANGED gateMemo
<1>1. /\ stage = "session"
      /\ UNCHANGED <<request, arrived, rewritten, bearerMemo, live, vouched>>
      /\ looked' \in BOOLEAN
  BY DEF SessionLayer, SessionRaises, GateInv, GateTypeOK
<1>2. \/ stage' = "answered" /\ UNCHANGED gateMemo /\ (answer'[1] = 500 \/ answer'[2] = "session")
      \/ stage' = "inside" /\ BearerAdmission # Nothing /\ UNCHANGED gateMemo
      \/ stage' = "inside" /\ IsPublic /\ RecordGate(Nothing)
      \/ stage' = "inside" /\ RecordGate(OwnAdmission) /\ (OwnAdmission # Refused \/ IsOptional)
  <2>1. Pass => stage' = "inside"
    BY <1>1, NextLayers, InstalledLayer DEF Pass
  <2>2. Refuse(<<401, "session">>) \/ Refuse(<<500, "raised">>) =>
            stage' = "answered" /\ (answer'[1] = 500 \/ answer'[2] = "session")
    BY DEF Refuse
  <2> QED
    BY <2>1, <2>2 DEF SessionLayer, SessionRaises
<1>3. stage' \in {"inside", "answered"}
  BY <1>2
<1>4. ArrivedInv' /\ HandshakeInv' /\ ~IsHandshake
  BY <1>1, <1>3, LayerFrame DEF Stages
<1>5. MemoInv'
  BY <1>1 DEF GateInv, MemoInv
<1>6. LookedInv'
  BY <1>2 DEF LookedInv
<1>7. ForgeryInv'
  BY <1>1, <1>3 DEF GateInv, ForgeryInv, Forged
<1>8. /\ UNCHANGED gateMemo \/ gateMemo' \in GateRecord
      /\ GateRecordInv'
      /\ stage' = "inside" => bearerMemo # Nothing \/ Opened'
  <2>1. CASE UNCHANGED gateMemo /\ (stage' = "inside" => BearerAdmission # Nothing)
    BY <2>1 DEF GateInv, GateRecordInv, BearerAdmission
  <2>2. CASE IsPublic /\ RecordGate(Nothing)
    BY <1>1, <2>2, DecisionRecorded
  <2>3. CASE RecordGate(OwnAdmission) /\ (OwnAdmission # Refused \/ IsOptional)
    <3>1. OwnAdmission \in {Nothing, Refused} \/
              (CookieReading \in Sids /\ OwnAdmission = SessionPerson[CookieReading])
      BY OwnAdmissionIs
    <3>2. IsPublic \/ IsOptional \/ OwnAdmission \in Accounts
      BY <2>3, OwnAdmissionIs
    <3> QED
      BY <1>1, <2>3, <3>1, <3>2, DecisionRecorded
  <2> QED
    BY <1>2, <2>1, <2>2, <2>3
<1>9. GateTypeOK'
  BY <1>1, <1>3, <1>8 DEF GateInv, GateTypeOK, Stages
<1>10. PassedInv'
  BY <1>1, <1>3, <1>8 DEF GateInv, PassedInv, IsHandshake, Rules, IsMachinePath, IsEntryPoint
<1> QED
  BY <1>4, <1>5, <1>6, <1>7, <1>8, <1>9, <1>10 DEF GateInv

LEMMA RouteKeepsGates ==
    ASSUME GateInv, Route
    PROVE  GateInv'
<1>1. /\ stage = "inside" /\ stage' = "route"
      /\ UNCHANGED <<request, arrived, rewritten, bearerMemo, gateMemo, live, vouched, looked, answer>>
  BY DEF Route
<1>2. GateTypeOK' /\ MemoInv' /\ GateRecordInv'
  BY <1>1, RecordsFrame DEF GateInv, GateTypeOK, Stages
<1>3. ArrivedInv' /\ HandshakeInv' /\ LookedInv' /\ ForgeryInv'
  BY <1>1 DEF GateInv, ArrivedInv, HandshakeInv, IsHandshake, LookedInv, ForgeryInv, Forged
<1>4. PassedInv'
  BY <1>1 DEF GateInv, PassedInv, IsHandshake, Rules, IsMachinePath, IsEntryPoint, Opened,
              CookieReading, IsPublic, IsOptional
<1> QED
  BY <1>2, <1>3, <1>4 DEF GateInv

\* Host code changes a field; the records are still those of the request as it was.
LEMMA RewriteKeepsGates ==
    ASSUME GateInv, NEW rewrite \in Rewrites, HostRewrites(rewrite[1], rewrite[2])
    PROVE  GateInv'
<1> DEFINE field == rewrite[1]  value == rewrite[2]
<1>1. /\ stage = "inside" /\ rewritten' = TRUE /\ (IsHandshake => field # "method")
      /\ request' = [request EXCEPT ![field] = value]
      /\ UNCHANGED <<stage, arrived, bearerMemo, gateMemo, live, vouched, looked, answer>>
  BY DEF HostRewrites
<1>2. request \in RequestRecord
  BY DEF GateInv, GateTypeOK
<1>3. /\ request' \in RequestRecord
      /\ request'.app = request.app /\ request'.site = request.site
      /\ request'.method = "websocket" <=> request.method = "websocket"
  <2>1. \/ field = "path" /\ value \in Paths
        \/ field = "method" /\ value \in Methods \ {"websocket"}
        \/ field = "auth" /\ value \in Auths
        \/ field = "cookie" /\ value \in Cookies
    BY RequestsAssumption DEF RequestsAssumption
  <2>2. CASE field = "path" /\ value \in Paths
    BY <1>1, <1>2, <2>2 DEF RequestRecord
  <2>3. CASE field = "method" /\ value \in Methods \ {"websocket"}
    BY <1>1, <1>2, <2>3 DEF RequestRecord, IsHandshake
  <2>4. CASE field = "auth" /\ value \in Auths
    BY <1>1, <1>2, <2>4 DEF RequestRecord
  <2>5. CASE field = "cookie" /\ value \in Cookies
    BY <1>1, <1>2, <2>5 DEF RequestRecord
  <2> QED
    BY <2>1, <2>2, <2>3, <2>4, <2>5
<1>4. GateTypeOK' /\ MemoInv' /\ GateRecordInv'
  BY <1>1, <1>3 DEF GateInv, GateTypeOK, MemoInv, GateRecordInv
<1>5. ArrivedInv' /\ HandshakeInv'
  BY <1>1, <1>3 DEF GateInv, ArrivedInv, HandshakeInv, IsHandshake
<1>6. LookedInv' /\ ForgeryInv' /\ PassedInv'
  BY <1>1, <1>3 DEF GateInv, LookedInv, ForgeryInv, Forged, PassedInv
<1> QED
  BY <1>4, <1>5, <1>6 DEF GateInv

\* A sub-app judges the request anew, with whatever the main app's layers recorded.
LEMMA MountKeepsGates ==
    ASSUME GateInv, NEW app \in Apps, Mount(app)
    PROVE  GateInv'
<1>1. /\ stage = "inside" /\ request.app = MainApp /\ app # MainApp
      /\ request' = [request EXCEPT !.app = app]
      /\ stage' = IF IsHandshake THEN "inside" ELSE Installed("rate", app)
      /\ UNCHANGED <<arrived, rewritten, bearerMemo, gateMemo, live, vouched, looked, answer>>
  BY DEF Mount
<1>2. request \in RequestRecord
  BY DEF GateInv, GateTypeOK
<1>3. /\ request' \in RequestRecord /\ request'.app # MainApp
      /\ request'.site = request.site /\ request'.method = request.method
  BY <1>1, <1>2 DEF RequestRecord
<1>4. /\ stage' \in {"rate", "bearer", "csrf", "session", "inside"}
      /\ IsHandshake => stage' = "inside"
  BY <1>1, PassedOn
<1>5. GateTypeOK' /\ MemoInv' /\ GateRecordInv'
  BY <1>1, <1>3, <1>4 DEF GateInv, GateTypeOK, Stages, MemoInv, GateRecordInv
<1>6. ArrivedInv' /\ HandshakeInv'
  BY <1>1, <1>3, <1>4 DEF GateInv, ArrivedInv, HandshakeInv, IsHandshake
<1>7. LookedInv' /\ ForgeryInv' /\ PassedInv'
  BY <1>1, <1>3 DEF GateInv, LookedInv, ForgeryInv, Forged, PassedInv
<1> QED
  BY <1>5, <1>6, <1>7 DEF GateInv

LEMMA ArrivalKeepsGates ==
    ASSUME GateInv, Arrive \/ Handshake
    PROVE  GateInv'
<1>1. /\ stage = "network"
      /\ UNCHANGED <<request, arrived, rewritten, bearerMemo, gateMemo, live, vouched, looked>>
      /\ \/ IsHandshake /\ stage' = "inside"
         \/ ~IsHandshake /\ (stage' = Installed("rate", MainApp) \/ stage' = "answered")
  BY DEF Arrive, Handshake, Travelling, Refuse
<1>2. /\ stage' \in {"rate", "bearer", "csrf", "inside", "answered"}
      /\ IsHandshake <=> stage' = "inside"
      /\ "bearer" \in Policy[MainApp].layers => stage' # "csrf"
  BY <1>1, PassedOn
<1>3. request.app = MainApp /\ ~rewritten /\ ~looked
  BY <1>1 DEF GateInv, GateTypeOK, ArrivedInv, LookedInv
<1>4. GateTypeOK' /\ MemoInv' /\ GateRecordInv'
  BY <1>1, <1>2, RecordsFrame DEF GateInv, GateTypeOK, Stages
<1>5. ArrivedInv' /\ HandshakeInv'
  BY <1>1, <1>2, <1>3 DEF GateInv, ArrivedInv, HandshakeInv, IsHandshake
<1>6. LookedInv'
  BY <1>1, <1>3 DEF LookedInv
<1>7. ForgeryInv'
  BY <1>1, <1>2, <1>3 DEF GateInv, ArrivedInv, IsHandshake, ForgeryInv, Forged, Mutating
<1>8. PassedInv'
  BY <1>1, <1>2, <1>3 DEF GateInv, PassedInv, IsHandshake, Rules
<1> QED
  BY <1>4, <1>5, <1>6, <1>7, <1>8 DEF GateInv

LEMMA StepKeepsGates ==
    ASSUME GateInv, [Next]_vars
    PROVE  GateInv'
<1>1. CASE OnTheWay \/ Respond \/ Done \/ UNCHANGED vars
  <2>1. UNCHANGED gateVars
    BY <1>1 DEF OnTheWay, Respond, Done, vars
  <2> QED
    BY <2>1, GateStutter DEF gateVars
<1>2. CASE Layers
  BY <1>2, RateKeepsGates, BearerKeepsGates, CsrfKeepsGates, SessionKeepsGates, RouteKeepsGates
     DEF Layers
<1>3. CASE Meanwhile
  <2>1. ASSUME NEW sid \in Sids, SessionEnds(sid) PROVE GateInv'
    BY <2>1, GateStutter DEF SessionEnds
  <2> QED
    BY <1>3, <2>1, MountKeepsGates, RewriteKeepsGates DEF Meanwhile
<1> QED
  BY <1>1, <1>2, <1>3, ArrivalKeepsGates DEF Next

\* Every reachable state keeps the invariant of the gates.
THEOREM RequestStack_GateInv == Spec => []GateInv
<1>1. GateInv /\ [Next]_vars => GateInv'
  BY StepKeepsGates
<1> QED
  BY <1>1, InitGates, PTL DEF Spec

\* The main app's session gate decides last: what was refused by any layer before it
\* has asked no store (install_web_auth_middleware).
THEOREM RequestStack_RefusedBeforeLookup == Spec => []RefusedBeforeLookup
<1>1. GateInv => RefusedBeforeLookup
  BY DEF GateInv, LookedInv, RefusedBeforeLookup
<1> QED
  BY <1>1, RequestStack_GateInv, PTL

-----------------------------------------------------------------------------
\* What a route reads.

\* A record that answers the request is of this very request.
LEMMA AdmissionIsOfRequest ==
    ASSUME GateInv, BearerAdmission # Nothing
    PROVE  /\ BearerAdmission = bearerMemo /\ bearerMemo # Nothing /\ ~IsHandshake
           /\ bearerMemo \in BearerRecord /\ bearerMemo.principal \in Principal
           /\ request.app = vouched.app /\ request.path = vouched.path
           /\ request.auth = vouched.auth
           /\ bearerMemo.principal.who = Claims[request.auth].owner
           /\ bearerMemo.principal.kind = "machine" <=> bearerMemo.principal.via = "machine"
           /\ bearerMemo.principal.via = "resource" =>
                  request.method = vouched.method /\ bearerMemo.method # Nothing
           /\ bearerMemo.method # Nothing => bearerMemo.principal.via = "resource"
<1>1. /\ BearerAdmission = bearerMemo /\ bearerMemo # Nothing
      /\ bearerMemo.app = request.app /\ bearerMemo.path = request.path
      /\ bearerMemo.auth = request.auth /\ bearerMemo.method \in {Nothing, request.method}
  BY DEF BearerAdmission
<1>2. vouched \in RequestRecord /\ bearerMemo \in BearerRecord
  BY <1>1 DEF GateInv, GateTypeOK, MemoInv
<1>3. vouched.method # Nothing /\ bearerMemo.principal \in Principal
  BY <1>2, NothingAssumption DEF NothingAssumption, RequestRecord, BearerRecord
<1>4. ~IsHandshake
  BY <1>1 DEF GateInv, HandshakeInv
<1> QED
  BY <1>1, <1>2, <1>3, <1>4 DEF GateInv, MemoInv

\* The person of a token is the principal of the record, and no token means nobody.
LEMMA TokenPersonIs ==
    ASSUME GateInv
    PROVE  \/ TokenPerson = Nothing
           \/ /\ BearerAdmission # Nothing /\ TokenPerson = bearerMemo.principal
              /\ TokenPerson \in Principal /\ TokenPerson # Nothing
              /\ TokenPerson.kind = "person" /\ TokenPerson.via \in {"token", "resource"}
<1>1. CASE TokenPerson = Nothing
  BY <1>1
<1>2. CASE TokenPerson # Nothing
  <2>1. /\ BearerAdmission # Nothing /\ TokenPerson = BearerAdmission.principal
        /\ TokenPerson.kind = "person"
    BY <1>2 DEF TokenPerson
  <2>2. /\ BearerAdmission = bearerMemo /\ bearerMemo.principal \in Principal
        /\ bearerMemo.principal.kind = "machine" <=> bearerMemo.principal.via = "machine"
    BY <2>1, AdmissionIsOfRequest
  <2>3. TokenPerson \in Principal /\ TokenPerson.via # "machine"
    BY <2>1, <2>2
  <2>4. TokenPerson.via \in {"token", "resource"}
    BY <2>3 DEF Principal
  <2> QED
    BY <1>2, <2>1, <2>2, <2>3, <2>4
<1> QED
  BY <1>1, <1>2

\* Nobody: what a reader answers that names no account.
Nobody == {Refused, Raises, SignedOut}

LEMMA NobodyIs ==
    /\ \A n \in Nobody : n.kind \notin {"person", "machine"} /\ n.via = "none" /\ n.role = "none"
    /\ Refused \in Nobody /\ Raises \in Nobody /\ SignedOut \in Nobody
  BY DEF Nobody, Refused, Raises, SignedOut

LEMMA AccountIs ==
    \A account \in Accounts : /\ account.kind = "person" /\ account.via = "session"
                              /\ account # Nothing /\ account \notin Nobody
<1>1. \A account \in Accounts : account.kind = "person" /\ account.via = "session"
  BY PrincipalsAssumption DEF PrincipalsAssumption
<1> QED
  BY <1>1, NobodyIs, NothingAssumption DEF NothingAssumption

\* Once a token was admitted, every reader answers the token's principal, for the
\* request it was admitted for, or nobody.
LEMMA ReadersOfToken ==
    ASSUME GateInv, bearerMemo # Nothing, NEW reader \in Readers
    PROVE  \/ reader \in Nobody
           \/ reader = TokenPerson /\ TokenPerson # Nothing
           \/ /\ reader = bearerMemo.principal /\ reader.kind = "machine"
              /\ BearerAdmission # Nothing
<1>1. reader \in {CurrentUser, AdmittedUser, AdmittedAdmin, BearerCaller, ResourcePerson}
  BY DEF Readers, GateInv, HandshakeInv
<1>2. IsBearerAdmitted
  BY DEF IsBearerAdmitted
<1>3. CurrentUser = IF TokenPerson # Nothing THEN TokenPerson ELSE Raises
  BY <1>2 DEF CurrentUser
<1>4. AdmittedUser \in {Raises, SignedOut} \/ (AdmittedUser = TokenPerson /\ TokenPerson # Nothing)
  BY <1>2 DEF AdmittedUser
<1>5. AdmittedAdmin \in {Raises, Refused, AdmittedUser}
  BY DEF AdmittedAdmin
<1>6. \/ BearerCaller = Raises
      \/ /\ BearerCaller = BearerAdmission.principal /\ BearerAdmission # Nothing
         /\ BearerAdmission.principal.kind = "machine"
  BY DEF BearerCaller
<1>7. ResourcePerson = Raises \/ (ResourcePerson = TokenPerson /\ TokenPerson # Nothing)
  BY DEF ResourcePerson
<1>8. BearerAdmission # Nothing => BearerAdmission = bearerMemo
  BY AdmissionIsOfRequest
<1> QED
  BY <1>1, <1>3, <1>4, <1>5, <1>6, <1>7, <1>8, NobodyIs

\* Without a token every reader answers the account of the session the cookie
\* names, or nobody.
LEMMA ReadersOfCookie ==
    ASSUME GateInv, bearerMemo = Nothing, NEW reader \in Readers
    PROVE  reader \in Nobody \/ (CookieReading \in Sids /\ reader = SessionPerson[CookieReading])
<1> DEFINE Named(x) == CookieReading \in Sids /\ x = SessionPerson[CookieReading]
<1>1. /\ BearerAdmission = Nothing /\ TokenPerson = Nothing /\ ~IsBearerAdmitted
      /\ BearerCaller = Raises /\ ResourcePerson = Raises
  BY DEF BearerAdmission, TokenPerson, IsBearerAdmitted, BearerCaller, ResourcePerson
<1>2. OwnAdmission = Refused \/ Named(OwnAdmission)
  BY OwnAdmissionIs
<1>3. GateAdmission # Nothing =>
          GateAdmission.admission \in {Nothing, Refused} \/ Named(GateAdmission.admission)
  BY DEF GateAdmission, GateInv, GateRecordInv
<1>4. CurrentUser = Refused \/ Named(CurrentUser)
  <2>1. CASE GateAdmission # Nothing /\ GateAdmission.admission # Nothing
    <3>1. CurrentUser = GateAdmission.admission
      BY <1>1, <2>1 DEF CurrentUser
    <3> QED
      BY <1>3, <2>1, <3>1
  <2>2. CASE ~(GateAdmission # Nothing /\ GateAdmission.admission # Nothing)
    <3>1. CurrentUser = OwnAdmission
      BY <1>1, <2>2 DEF CurrentUser
    <3> QED
      BY <1>2, <3>1
  <2> QED
    BY <2>1, <2>2
<1>5. AdmittedUser \in {Raises, SignedOut} \/ Named(AdmittedUser)
  <2>1. CASE GateAdmission = Nothing
    BY <1>1, <2>1 DEF AdmittedUser
  <2>2. CASE GateAdmission # Nothing
    <3>1. AdmittedUser = IF GateAdmission.admission \in {Nothing, Refused} THEN SignedOut
                         ELSE GateAdmission.admission
      BY <1>1, <2>2 DEF AdmittedUser
    <3> QED
      BY <1>3, <2>2, <3>1
  <2> QED
    BY <2>1, <2>2
<1>6. AdmittedAdmin \in {Refused, AdmittedUser}
  BY <1>1 DEF AdmittedAdmin
<1>7. WebSocketUser \in {Refused, OwnAdmission}
  BY DEF WebSocketUser
<1>8. reader \in {CurrentUser, AdmittedUser, AdmittedAdmin, BearerCaller, ResourcePerson, WebSocketUser}
  BY DEF Readers
<1> QED
  BY <1>1, <1>2, <1>4, <1>5, <1>6, <1>7, <1>8, NobodyIs

\* A principal of the bearer gate is read only on the request it was admitted for,
\* and from then on the cookie names nobody, whatever host code and mounts did in
\* between (_bearer_admission, _is_bearer_admitted).
THEOREM RequestStack_TokenBinding == Spec => []TokenBinding
<1>1. GateInv => TokenSpeaksForItsRequest
  <2> SUFFICES ASSUME GateInv, NEW reader \in Readers,
                      reader.via \in {"machine", "token", "resource"}
               PROVE  /\ <<request.app, request.path, request.auth>>
                             = <<vouched.app, vouched.path, vouched.auth>>
                      /\ reader.via = "resource" => request.method = vouched.method
                      /\ reader.who = Claims[request.auth].owner
    BY DEF TokenSpeaksForItsRequest
  <2>1. reader \notin Nobody
    BY NobodyIs
  <2>2. bearerMemo # Nothing
    <3>1. \A sid \in Sids : SessionPerson[sid].via = "session"
      BY AccountIs DEF Accounts
    <3> QED
      BY <2>1, <3>1, ReadersOfCookie
  <2>3. BearerAdmission # Nothing /\ reader = bearerMemo.principal
    BY <2>1, <2>2, ReadersOfToken, TokenPersonIs
  <2> QED
    BY <2>3, AdmissionIsOfRequest
<1>2. GateInv => TokenLeavesNoCookieReader
  <2> SUFFICES ASSUME GateInv, vouched # Nothing
               PROVE  SessionId = Nothing /\ \A reader \in Readers : reader.via # "session"
    BY DEF TokenLeavesNoCookieReader
  <2>1. bearerMemo # Nothing
    BY DEF GateInv, MemoInv
  <2>2. SessionId = Nothing
    BY <2>1 DEF SessionId, IsBearerAdmitted
  <2>3. ASSUME NEW reader \in Readers PROVE reader.via # "session"
    <3>1. CASE reader \in Nobody
      BY <3>1, NobodyIs
    <3>2. CASE reader = TokenPerson /\ TokenPerson # Nothing
      BY <3>2, TokenPersonIs
    <3>3. CASE reader = bearerMemo.principal /\ reader.kind = "machine" /\ BearerAdmission # Nothing
      BY <3>3, AdmissionIsOfRequest
    <3> QED
      BY <2>1, <3>1, <3>2, <3>3, ReadersOfToken
  <2> QED
    BY <2>2, <2>3
<1>3. GateInv => TokenBinding
  BY <1>1, <1>2 DEF TokenBinding
<1> QED
  BY <1>3, RequestStack_GateInv, PTL

\* A forged state-changing request reaches a route only with a token admitted, and
\* then its cookie names nobody; a forged handshake is refused by its origin
\* (CsrfOriginMiddleware, authenticate_websocket).
THEOREM RequestStack_ForgeryIsNobody == Spec => []ForgeryIsNobody
<1>1. GateInv => ForgeryIsNobody
  <2> SUFFICES ASSUME GateInv, stage = "route", arrived.method \in Mutating \cup {"websocket"},
                      arrived.path \notin Policy[MainApp].csrfExempt,
                      arrived.site \notin {"same-origin", "allowed"}
               PROVE  /\ IsHandshake \/ SessionId = Nothing
                      /\ \A reader \in Readers : reader.via # "session"
    BY DEF ForgeryIsNobody
  <2>1. CASE arrived.method \in Mutating
    <3>1. bearerMemo # Nothing
      BY <2>1 DEF GateInv, ForgeryInv, Forged
    <3>2. SessionId = Nothing
      BY <3>1 DEF SessionId, IsBearerAdmitted
    <3>3. ASSUME NEW reader \in Readers PROVE reader.via # "session"
      BY <3>1, ReadersOfToken, NobodyIs, TokenPersonIs, AdmissionIsOfRequest
    <3> QED
      BY <3>2, <3>3
  <2>2. CASE arrived.method = "websocket"
    <3>1. IsHandshake /\ bearerMemo = Nothing /\ request.site = arrived.site
      BY <2>2 DEF GateInv, ArrivedInv, HandshakeInv, IsHandshake
    <3>2. WebSocketUser = Refused
      BY <3>1 DEF WebSocketUser
    <3>3. gateMemo = Nothing
      BY <3>1 DEF GateInv, HandshakeInv
    <3>4. AdmittedUser = Raises
      BY <3>1, <3>3 DEF AdmittedUser, GateAdmission, IsBearerAdmitted, TokenPerson, BearerAdmission
    <3> QED
      BY <3>1, <3>2, <3>4, NobodyIs DEF Readers
  <2> QED
    BY <2>1, <2>2
<1> QED
  BY <1>1, RequestStack_GateInv, PTL

\* Two readers of a route that both name an account name the same one, which is that
\* of the session id read there (current_user, admitted_user, session_id_from_request).
THEOREM RequestStack_ReadersAgree == Spec => []ReadersAgree
<1>1. GateInv => ReadersAgree
  <2> SUFFICES ASSUME GateInv, NEW one \in Readers, NEW other \in Readers,
                      one.kind = "person", other.kind = "person"
               PROVE  /\ one.who = other.who /\ one.via = other.via
                      /\ SessionId # Nothing => one = SessionPerson[SessionId]
    BY DEF ReadersAgree
  <2>1. one \notin Nobody /\ other \notin Nobody
    BY NobodyIs
  <2>2. CASE bearerMemo # Nothing
    <3>1. one = TokenPerson /\ other = TokenPerson
      BY <2>1, <2>2, ReadersOfToken
    <3>2. SessionId = Nothing
      BY <2>2 DEF SessionId, IsBearerAdmitted
    <3> QED
      BY <3>1, <3>2
  <2>3. CASE bearerMemo = Nothing
    <3>1. /\ CookieReading \in Sids
          /\ one = SessionPerson[CookieReading] /\ other = SessionPerson[CookieReading]
      BY <2>1, <2>3, ReadersOfCookie
    <3>2. SessionId = CookieReading
      BY <2>3, <3>1 DEF SessionId, IsBearerAdmitted
    <3> QED
      BY <3>1, <3>2
  <2> QED
    BY <2>2, <2>3
<1> QED
  BY <1>1, RequestStack_GateInv, PTL

\* A request as it arrived that a record vouches for is answered by that record.
LEMMA VouchedAsItIs ==
    ASSUME GateInv, ~rewritten, ~IsHandshake, request.app = MainApp, bearerMemo # Nothing
    PROVE  /\ BearerAdmission = bearerMemo /\ BearerAdmission # Nothing
           /\ bearerMemo.principal \in Principal
           /\ bearerMemo.principal.kind = "person" => TokenPerson = bearerMemo.principal
<1>1. vouched = request /\ bearerMemo.app = vouched.app /\ bearerMemo.path = vouched.path
      /\ bearerMemo.auth = vouched.auth
      /\ bearerMemo.method \in {Nothing, vouched.method}
  BY DEF GateInv, PassedInv, MemoInv
<1>2. BearerAdmission = bearerMemo
  BY <1>1 DEF BearerAdmission
<1>3. bearerMemo.principal \in Principal
  BY <1>2, AdmissionIsOfRequest
<1> QED
  BY <1>2, <1>3 DEF TokenPerson

LEMMA OpenedNames ==
    ASSUME GateInv, bearerMemo = Nothing, Opened
    PROVE  CurrentUser.kind = "person" \/ IsPublic \/ IsOptional
<1>1. CASE gateMemo.admission \in Accounts
  <2>1. gateMemo.admission # Nothing /\ gateMemo.admission.kind = "person"
    BY <1>1, AccountIs
  <2>2. GateAdmission = gateMemo /\ GateAdmission # Nothing
    BY DEF Opened, GateAdmission
  <2>3. TokenPerson = Nothing /\ ~IsBearerAdmitted
    BY DEF TokenPerson, BearerAdmission, IsBearerAdmitted
  <2>4. CurrentUser = gateMemo.admission
    BY <2>1, <2>2, <2>3 DEF CurrentUser
  <2> QED
    BY <2>1, <2>4
<1>2. CASE gateMemo.admission \notin Accounts
  BY <1>2 DEF Opened
<1> QED
  BY <1>1, <1>2

\* Behind a session gate a handler of a path that is not open has a token's principal
\* or a session's person to read, and behind a bearer gate a machine path and the
\* resource's entry point only the principal of their kind (SessionGateMiddleware,
\* BearerGateMiddleware).
THEOREM RequestStack_HandlerIsVouchedFor == Spec => []HandlerIsVouchedFor
<1>1. GateInv => HandlerIsVouchedFor
  <2> SUFFICES ASSUME GateInv, stage = "route", ~rewritten, ~IsHandshake, request.app = MainApp
               PROVE  /\ "bearer" \in Rules.layers =>
                            /\ IsMachinePath => BearerCaller.kind = "machine"
                            /\ IsEntryPoint /\ ~IsMachinePath => ResourcePerson.kind = "person"
                      /\ "session" \in Rules.layers =>
                            \/ BearerCaller.kind = "machine" \/ CurrentUser.kind = "person"
                            \/ /\ request.path \notin Rules.dotted
                               /\ \/ <<request.method, request.path>> \in Rules.public
                                  \/ request.path \in Rules.optional
    BY DEF HandlerIsVouchedFor
  <2>1. bearerMemo # Nothing /\ bearerMemo.principal.kind = "machine" => BearerCaller.kind = "machine"
    BY VouchedAsItIs DEF BearerCaller
  <2>2. ASSUME bearerMemo # Nothing, bearerMemo.principal.via = "resource"
        PROVE  ResourcePerson.kind = "person"
    <3>1. BearerAdmission = bearerMemo /\ BearerAdmission # Nothing
      BY <2>2, VouchedAsItIs
    <3>2. /\ bearerMemo.principal \in Principal /\ bearerMemo.principal.kind # "machine"
          /\ bearerMemo.method # Nothing
      BY <2>2, <3>1, AdmissionIsOfRequest
    <3>3. bearerMemo.principal.kind = "person"
      BY <3>2 DEF Principal
    <3>4. TokenPerson = bearerMemo.principal /\ TokenPerson # Nothing
      BY <2>2, <3>2, <3>3, VouchedAsItIs, NothingAssumption DEF NothingAssumption
    <3>5. ResourcePerson = TokenPerson
      BY <3>1, <3>2, <3>4 DEF ResourcePerson
    <3> QED
      BY <3>3, <3>4, <3>5
  <2>3. ASSUME "bearer" \in Rules.layers
        PROVE  /\ IsMachinePath => BearerCaller.kind = "machine"
               /\ IsEntryPoint /\ ~IsMachinePath => ResourcePerson.kind = "person"
    BY <2>1, <2>2, <2>3 DEF GateInv, PassedInv
  <2>4. ASSUME "session" \in Rules.layers, bearerMemo # Nothing
        PROVE  BearerCaller.kind = "machine" \/ CurrentUser.kind = "person"
    <3>1. bearerMemo.principal \in Principal
      BY <2>4, VouchedAsItIs
    <3>2. CASE bearerMemo.principal.kind = "machine"
      BY <2>1, <2>4, <3>2
    <3>3. CASE bearerMemo.principal.kind = "person"
      <4>1. TokenPerson = bearerMemo.principal /\ TokenPerson # Nothing
        BY <2>4, <3>1, <3>3, VouchedAsItIs, NothingAssumption DEF NothingAssumption
      <4>2. CurrentUser = TokenPerson
        BY <2>4, <4>1 DEF CurrentUser, IsBearerAdmitted
      <4> QED
        BY <3>3, <4>1, <4>2
    <3> QED
      BY <3>1, <3>2, <3>3 DEF Principal
  <2>5. ASSUME "session" \in Rules.layers, bearerMemo = Nothing
        PROVE  \/ CurrentUser.kind = "person"
               \/ /\ request.path \notin Rules.dotted
                  /\ \/ <<request.method, request.path>> \in Rules.public
                     \/ request.path \in Rules.optional
    <3>1. Opened
      BY <2>5 DEF GateInv, PassedInv
    <3> QED
      BY <2>5, <3>1, OpenedNames DEF IsPublic, IsOptional
  <2> QED
    BY <2>3, <2>4, <2>5
<1> QED
  BY <1>1, RequestStack_GateInv, PTL

-----------------------------------------------------------------------------
\* Whom the client is known as.

Entries == Addresses \cup {Garbage}

\* What the header tells of the i-th sender, when a later one has passed the request on:
\* a hop that all the hops read before it follow, and these tell of later senders.
ToldOf(i) ==
    \E hop \in Hops :
        /\ EntryAt(hop) = senders[i]
        /\ IsFiniteSet(ReadBefore(hop)) /\ Cardinality(ReadBefore(hop)) = Len(senders) - 1 - i
        /\ \A h \in ReadBefore(hop) : \E j \in i + 1 .. Len(senders) - 1 : EntryAt(h) = senders[j]

IdentityInv ==
    /\ senders \in Seq(Addresses) /\ Len(senders) >= 1
    /\ fields \in Seq(Seq(Entries))
    /\ \A i \in 1 .. Len(senders) - 1 : ToldOf(i)

LEMMA HopIs ==
    ASSUME NEW hop
    PROVE  hop \in Hops <=> \E f \in DOMAIN fields : \E i \in DOMAIN fields[f] : hop = <<f, i>>
  BY DEF Hops

\* A proxy adds one hop, which is read before all others and tells of the peer.
LEMMA ForwardedHop ==
    ASSUME IdentityInv, NEW proxy \in Addresses, Forward(proxy)
    PROVE  \E new :
              /\ Hops' = Hops \cup {new} /\ new \notin Hops /\ EntryAt(new)' = Peer
              /\ ReadBefore(new)' = {}
              /\ \A hop \in Hops : EntryAt(hop)' = EntryAt(hop)
                                   /\ ReadBefore(hop)' = ReadBefore(hop) \cup {new}
<1>1. fields \in Seq(Seq(Entries)) /\ Peer \in Entries
  BY DEF IdentityInv, Peer, Entries
<1>2. PICK count \in Nat : count = Len(fields)
  BY <1>1
<1>3. \A f \in 1 .. count : fields[f] \in Seq(Entries) /\ DOMAIN fields[f] = 1 .. Len(fields[f])
                            /\ Len(fields[f]) \in Nat
  BY <1>1, <1>2
<1>4. DOMAIN fields = 1 .. count
  BY <1>1, <1>2
\* It is enough to know where the new entry is.
<1>5. ASSUME NEW new, NEW f \in Nat, NEW n \in Nat, new = <<f, n>>, Hops' = Hops \cup {new},
             EntryAt(new)' = Peer, \A hop \in Hops : EntryAt(hop)' = EntryAt(hop),
             \A hop \in Hops : \E g, i \in Nat : hop = <<g, i>> /\ (g < f \/ (g = f /\ i < n))
      PROVE  /\ new \notin Hops /\ ReadBefore(new)' = {}
             /\ \A hop \in Hops : ReadBefore(hop)' = ReadBefore(hop) \cup {new}
  <2>0. new[1] = f /\ new[2] = n
    BY <1>5
  <2>1. ASSUME NEW hop \in Hops
        PROVE  /\ hop # new /\ ~(hop[1] > new[1] \/ (hop[1] = new[1] /\ hop[2] > new[2]))
               /\ new[1] > hop[1] \/ (new[1] = hop[1] /\ new[2] > hop[2])
    <3>1. PICK g \in Nat, i \in Nat : hop = <<g, i>> /\ (g < f \/ (g = f /\ i < n))
      BY <1>5
    <3>2. hop[1] = g /\ hop[2] = i
      BY <3>1
    <3> QED
      BY <1>5, <2>0, <3>1, <3>2
  <2>2. new \notin Hops
    BY <2>1
  <2>3. ReadBefore(new)' = {}
    <3>1. ~(new[1] > new[1] \/ (new[1] = new[1] /\ new[2] > new[2]))
      BY <2>0
    <3> QED
      BY <1>5, <2>1, <3>1 DEF ReadBefore
  <2>4. ASSUME NEW hop \in Hops
        PROVE  ReadBefore(hop)' = ReadBefore(hop) \cup {new}
    <3>1. new[1] > hop[1] \/ (new[1] = hop[1] /\ new[2] > hop[2])
      BY <2>1
    <3>2. ReadBefore(hop)' \subseteq ReadBefore(hop) \cup {new}
      BY <1>5 DEF ReadBefore
    <3>3. ReadBefore(hop) \cup {new} \subseteq ReadBefore(hop)'
      BY <1>5, <3>1 DEF ReadBefore
    <3> QED
      BY <3>2, <3>3
  <2> QED
    BY <2>2, <2>3, <2>4
<1>6. CASE fields' = Append(fields, <<Peer>>)
  <2> DEFINE new == <<count + 1, 1>>
  <2>1. /\ DOMAIN fields' = 1 .. count + 1 /\ fields'[count + 1] = <<Peer>>
        /\ \A f \in 1 .. count : fields'[f] = fields[f]
    <3>1. <<Peer>> \in Seq(Entries)
      BY <1>1
    <3> QED
      BY <1>1, <1>2, <1>6, <3>1
  <2>2. DOMAIN <<Peer>> = {1} /\ <<Peer>>[1] = Peer
    OBVIOUS
  <2>3. Hops' = Hops \cup {new}
    <3>1. ASSUME NEW hop \in Hops'
          PROVE  hop \in Hops \cup {new}
      <4>1. PICK f \in 1 .. count + 1 : \E i \in DOMAIN fields'[f] : hop = <<f, i>>
        BY <2>1 DEF Hops
      <4>2. CASE f = count + 1
        BY <2>1, <2>2, <4>1, <4>2
      <4>3. CASE f # count + 1
        <5>1. f \in 1 .. count
          BY <4>3
        <5> QED
          BY <1>4, <2>1, <4>1, <5>1, HopIs
      <4> QED
        BY <4>2, <4>3
    <3>2. ASSUME NEW hop \in Hops
          PROVE  hop \in Hops'
      <4>1. PICK f \in 1 .. count : \E i \in DOMAIN fields[f] : hop = <<f, i>>
        BY <1>4, HopIs
      <4>2. f \in DOMAIN fields' /\ fields'[f] = fields[f]
        BY <2>1
      <4> QED
        BY <4>1, <4>2 DEF Hops
    <3>3. new \in Hops'
      <4>1. count + 1 \in DOMAIN fields' /\ 1 \in DOMAIN fields'[count + 1]
        BY <2>1, <2>2
      <4> QED
        BY <4>1 DEF Hops
    <3> QED
      BY <3>1, <3>2, <3>3
  <2>4. ASSUME NEW hop \in Hops
        PROVE  /\ EntryAt(hop)' = EntryAt(hop)
               /\ \E g, i \in Nat : hop = <<g, i>> /\ (g < count + 1 \/ (g = count + 1 /\ i < 1))
    <3>1. PICK f \in 1 .. count : \E i \in DOMAIN fields[f] : hop = <<f, i>>
      BY <1>4, HopIs
    <3>2. PICK i \in 1 .. Len(fields[f]) : hop = <<f, i>>
      BY <1>3, <3>1
    <3>3. hop[1] = f /\ f \in Nat /\ i \in Nat /\ f < count + 1
      BY <1>3, <3>2
    <3> QED
      BY <2>1, <3>2, <3>3 DEF EntryAt
  <2>5. EntryAt(new)' = Peer
    BY <2>1, <2>2 DEF EntryAt
  <2>6. count + 1 \in Nat /\ 1 \in Nat
    OBVIOUS
  <2> HIDE DEF new
  <2>7. new = <<count + 1, 1>>
    BY DEF new
  <2> QED
    BY <1>5, <2>3, <2>4, <2>5, <2>6, <2>7
<1>7. CASE fields # <<>> /\ fields' = [fields EXCEPT ![Len(fields)] = Append(fields[Len(fields)], Peer)]
  <2>0. count \in 1 .. count
    BY <1>1, <1>2, <1>7
  <2>last. PICK last \in Nat : last = Len(fields[count])
    BY <1>3, <2>0
  <2> DEFINE new == <<count, last + 1>>
  <2>longer. PICK longer : /\ longer = Append(fields[count], Peer) /\ DOMAIN longer = 1 .. last + 1
                           /\ longer[last + 1] = Peer
                           /\ \A i \in 1 .. last : longer[i] = fields[count][i]
    <3>1. PICK list \in Seq(Entries), entry \in Entries : list = fields[count] /\ entry = Peer
      BY <1>1, <1>3, <2>0
    <3>2. /\ DOMAIN Append(list, entry) = 1 .. Len(list) + 1
          /\ Append(list, entry)[Len(list) + 1] = entry
          /\ \A i \in 1 .. Len(list) : Append(list, entry)[i] = list[i]
      OBVIOUS
    <3> QED
      BY <2>last, <3>1, <3>2
  <2>1. /\ DOMAIN fields' = 1 .. count /\ fields'[count] = longer
        /\ \A f \in 1 .. count : f # count => fields'[f] = fields[f]
    BY <1>2, <1>4, <1>7, <2>0, <2>longer
  <2>3. Hops' = Hops \cup {new}
    <3>1. ASSUME NEW hop \in Hops'
          PROVE  hop \in Hops \cup {new}
      <4>1. PICK f \in 1 .. count : \E i \in DOMAIN fields'[f] : hop = <<f, i>>
        BY <2>1 DEF Hops
      <4>2. CASE f = count
        <5>1. PICK i \in 1 .. last + 1 : hop = <<count, i>>
          BY <2>1, <2>longer, <4>1, <4>2
        <5>2. i = last + 1 \/ i \in DOMAIN fields[count]
          <6>1. DOMAIN fields[count] = 1 .. last
            BY <1>3, <2>0, <2>last
          <6> QED
            BY <6>1
        <5> QED
          BY <1>4, <2>0, <5>1, <5>2, HopIs
      <4>3. CASE f # count
        BY <1>4, <2>1, <4>1, <4>3, HopIs
      <4> QED
        BY <4>2, <4>3
    <3>2. ASSUME NEW hop \in Hops
          PROVE  hop \in Hops'
      <4>1. PICK f \in 1 .. count : \E i \in DOMAIN fields[f] : hop = <<f, i>>
        BY <1>4, HopIs
      <4>2. DOMAIN fields[f] \subseteq DOMAIN fields'[f]
        <5>1. CASE f = count
          <6>1. DOMAIN fields[f] = 1 .. last
            BY <1>3, <2>last, <5>1
          <6> QED
            BY <2>1, <2>longer, <5>1, <6>1
        <5>2. CASE f # count
          BY <2>1, <5>2
        <5> QED
          BY <5>1, <5>2
      <4> QED
        BY <2>1, <4>1, <4>2 DEF Hops
    <3>3. new \in Hops'
      <4>1. count \in DOMAIN fields' /\ last + 1 \in DOMAIN fields'[count]
        BY <2>0, <2>1, <2>longer
      <4> QED
        BY <4>1 DEF Hops
    <3> QED
      BY <3>1, <3>2, <3>3
  <2>4. ASSUME NEW hop \in Hops
        PROVE  /\ EntryAt(hop)' = EntryAt(hop)
               /\ \E g, i \in Nat : hop = <<g, i>> /\ (g < count \/ (g = count /\ i < last + 1))
    <3>1. PICK f \in 1 .. count : \E i \in DOMAIN fields[f] : hop = <<f, i>>
      BY <1>4, HopIs
    <3>2. PICK i \in 1 .. Len(fields[f]) : hop = <<f, i>>
      BY <1>3, <3>1
    <3>3. hop[1] = f /\ hop[2] = i /\ f \in Nat /\ i \in Nat /\ Len(fields[f]) \in Nat
      BY <1>3, <3>2
    <3>4. CASE f = count
      <4>1. i \in 1 .. last
        BY <2>last, <3>4
      <4>2. fields'[f][i] = fields[f][i]
        BY <2>1, <2>longer, <3>4, <4>1
      <4> QED
        BY <3>2, <3>3, <3>4, <4>1, <4>2 DEF EntryAt
    <3>5. CASE f # count
      <4>1. f < count
        BY <3>5
      <4> QED
        BY <2>1, <3>2, <3>3, <3>5, <4>1 DEF EntryAt
    <3> QED
      BY <3>4, <3>5
  <2>5. EntryAt(new)' = Peer
    BY <2>1, <2>longer DEF EntryAt
  <2>6. count \in Nat /\ last + 1 \in Nat
    OBVIOUS
  <2> HIDE DEF new
  <2>7. new = <<count, last + 1>>
    BY DEF new
  <2> QED
    BY <1>5, <2>3, <2>4, <2>5, <2>6, <2>7
<1> QED
  BY <1>6, <1>7 DEF Forward

LEMMA ForwardKeepsIdentity ==
    ASSUME IdentityInv, NEW proxy \in Addresses, Forward(proxy)
    PROVE  IdentityInv'
<1>1. senders \in Seq(Addresses) /\ senders' = Append(senders, proxy)
  BY DEF IdentityInv, Forward
<1>2. PICK len \in Nat : len = Len(senders) /\ len >= 1
  BY <1>1 DEF IdentityInv
<1>3. /\ senders' \in Seq(Addresses) /\ Len(senders') = len + 1
      /\ \A i \in 1 .. len : senders'[i] = senders[i]
  BY <1>1, <1>2
<1>4. fields' \in Seq(Seq(Entries))
  <2>1. fields \in Seq(Seq(Entries)) /\ Peer \in Entries
    BY DEF IdentityInv, Peer, Entries
  <2>2. <<Peer>> \in Seq(Entries)
    BY <2>1
  <2>3. CASE fields' = Append(fields, <<Peer>>)
    BY <2>1, <2>2, <2>3
  <2>4. CASE fields # <<>> /\ fields' = [fields EXCEPT ![Len(fields)] = Append(fields[Len(fields)], Peer)]
    <3>1. fields[Len(fields)] \in Seq(Entries)
      BY <2>1, <2>4
    <3>2. Append(fields[Len(fields)], Peer) \in Seq(Entries)
      BY <2>1, <3>1
    <3> QED
      BY <2>1, <2>4, <3>2
  <2> QED
    BY <2>3, <2>4 DEF Forward
<1>5. PICK new :
         /\ Hops' = Hops \cup {new} /\ new \notin Hops /\ EntryAt(new)' = Peer
         /\ ReadBefore(new)' = {}
         /\ \A hop \in Hops : EntryAt(hop)' = EntryAt(hop)
                              /\ ReadBefore(hop)' = ReadBefore(hop) \cup {new}
  BY ForwardedHop
<1>6. ASSUME NEW i \in 1 .. len
      PROVE  ToldOf(i)'
  <2>1. CASE i = len
    <3>1. EntryAt(new)' = senders'[i]
      BY <1>2, <1>3, <1>5, <2>1 DEF Peer
    <3>2. IsFiniteSet(ReadBefore(new)') /\ Cardinality(ReadBefore(new)') = Len(senders') - 1 - i
      BY <1>3, <1>5, <2>1, FS_EmptySet
    <3> QED
      BY <1>5, <3>1, <3>2 DEF ToldOf
  <2>2. CASE i # len
    <3>1. i \in 1 .. Len(senders) - 1 /\ i \in 1 .. len
      BY <1>2, <2>2
    <3>2. PICK hop \in Hops :
             /\ EntryAt(hop) = senders[i]
             /\ IsFiniteSet(ReadBefore(hop)) /\ Cardinality(ReadBefore(hop)) = Len(senders) - 1 - i
             /\ \A h \in ReadBefore(hop) :
                   \E j \in i + 1 .. Len(senders) - 1 : EntryAt(h) = senders[j]
      BY <3>1 DEF IdentityInv, ToldOf
    <3>3. EntryAt(hop)' = senders'[i] /\ hop \in Hops'
      BY <1>3, <1>5, <3>1, <3>2
    <3>4. /\ IsFiniteSet(ReadBefore(hop)')
          /\ Cardinality(ReadBefore(hop)') = Len(senders') - 1 - i
      <4>1. new \notin ReadBefore(hop)
        BY <1>5 DEF ReadBefore
      <4>2. /\ IsFiniteSet(ReadBefore(hop) \cup {new})
            /\ Cardinality(ReadBefore(hop) \cup {new}) = Cardinality(ReadBefore(hop)) + 1
        BY <3>2, <4>1, FS_AddElement
      <4>3. Cardinality(ReadBefore(hop)) = len - 1 - i
        BY <1>2, <3>2
      <4>4. Cardinality(ReadBefore(hop) \cup {new}) = len + 1 - 1 - i
        BY <4>2, <4>3
      <4>5. ReadBefore(hop)' = ReadBefore(hop) \cup {new}
        BY <1>5, <3>2
      <4>6. IsFiniteSet(ReadBefore(hop)') /\ Cardinality(ReadBefore(hop)') = len + 1 - 1 - i
        BY <4>2, <4>4, <4>5
      <4> QED
        BY <1>3, <4>6
    <3>5. ASSUME NEW h \in ReadBefore(hop)'
          PROVE  \E j \in i + 1 .. Len(senders') - 1 : EntryAt(h)' = senders'[j]
      <4>1. CASE h = new
        <5>1. len \in i + 1 .. Len(senders') - 1
          BY <1>3, <3>1, <2>2
        <5> QED
          BY <1>2, <1>3, <1>5, <4>1, <5>1 DEF Peer
      <4>2. CASE h # new
        <5>1. h \in ReadBefore(hop) /\ h \in Hops
          BY <1>5, <3>2, <4>2 DEF ReadBefore
        <5>2. PICK j \in i + 1 .. Len(senders) - 1 : EntryAt(h) = senders[j]
          BY <3>2, <5>1
        <5>3. j \in i + 1 .. Len(senders') - 1 /\ j \in 1 .. len
          BY <1>2, <1>3, <3>1
        <5> QED
          BY <1>3, <1>5, <5>1, <5>2, <5>3
      <4> QED
        BY <4>1, <4>2
    <3> QED
      BY <3>3, <3>4, <3>5 DEF ToldOf
  <2> QED
    BY <2>1, <2>2
<1> QED
  BY <1>2, <1>3, <1>4, <1>6 DEF IdentityInv

\* Of two hops one is read before the other, so only one decides.
LEMMA OneDecides ==
    ASSUME IdentityInv, NEW one \in Hops, NEW other \in Hops, Decides(one), Decides(other)
    PROVE  one = other
<1>1. \A f \in DOMAIN fields : f \in Nat /\ \A i \in DOMAIN fields[f] : i \in Nat
  <2>1. \A f \in 1 .. Len(fields) : fields[f] \in Seq(Entries)
    BY DEF IdentityInv
  <2> QED
    BY <2>1 DEF IdentityInv
<1>2. PICK f \in Nat, i \in Nat : one = <<f, i>>
  BY <1>1, HopIs
<1>3. PICK g \in Nat, j \in Nat : other = <<g, j>>
  BY <1>1, HopIs
<1>4. one[1] = f /\ one[2] = i /\ other[1] = g /\ other[2] = j
  BY <1>2, <1>3
<1>5. one \notin ReadBefore(other) /\ other \notin ReadBefore(one)
  BY DEF Decides
<1>6. ~(f > g \/ (f = g /\ i > j)) /\ ~(g > f \/ (g = f /\ j > i))
  BY <1>4, <1>5 DEF ReadBefore
<1> QED
  BY <1>2, <1>3, <1>6

\* The client of a request is the last sender that is no trusted proxy, if the hops
\* after it are not more than are read.
LEMMA ClientIsOutsider ==
    ASSUME IdentityInv, NEW i \in DOMAIN senders, IsOutsider(i), Len(senders) - i <= MaxHops
    PROVE  ClientIp = Canonical[senders[i]]
<1>1. PICK len \in Nat : len = Len(senders) /\ len >= 1 /\ i \in 1 .. len /\ DOMAIN senders = 1 .. len
  <2>1. senders \in Seq(Addresses) /\ Len(senders) >= 1
    BY DEF IdentityInv
  <2>2. Len(senders) \in Nat /\ DOMAIN senders = 1 .. Len(senders)
    BY <2>1
  <2> QED
    BY <2>1, <2>2
<1>2. \A j \in 1 .. len : senders[j] \in Addresses
  BY <1>1 DEF IdentityInv
<1>3. CASE i = len
  BY <1>1, <1>3 DEF ClientIp, Peer, IsOutsider
<1>4. CASE i # len
  <2>1. Trusts(Peer) /\ ~Trusts(senders[i])
    BY <1>1, <1>4 DEF Peer, IsOutsider
  <2>2. PICK hop \in Hops :
           /\ EntryAt(hop) = senders[i]
           /\ IsFiniteSet(ReadBefore(hop)) /\ Cardinality(ReadBefore(hop)) = len - 1 - i
           /\ \A h \in ReadBefore(hop) : \E j \in i + 1 .. len - 1 : EntryAt(h) = senders[j]
    <3>1. i \in 1 .. len - 1
      BY <1>1, <1>4
    <3> QED
      BY <1>1, <3>1 DEF IdentityInv, ToldOf
  <2>3. Decides(hop)
    <3>1. MaxHops \in Nat
      BY ClientIdentityAssumption DEF ClientIdentityAssumption
    <3>2. Cardinality(ReadBefore(hop)) < MaxHops
      BY <1>1, <2>2, <3>1
    <3>3. ASSUME NEW h \in ReadBefore(hop)
          PROVE  Trusts(EntryAt(h))
      <4>1. PICK j \in i + 1 .. len - 1 : EntryAt(h) = senders[j]
        BY <2>2
      <4>2. j \in i + 1 .. Len(senders)
        BY <1>1
      <4>3. Trusts(senders[j])
        BY <4>2 DEF IsOutsider
      <4> QED
        BY <4>1, <4>3
    <3> QED
      BY <2>1, <2>2, <3>2, <3>3 DEF Decides
  <2>4. Garbage \notin Addresses /\ Canonical[senders[i]] \in Addresses
    BY <1>1, <1>2, ClientIdentityAssumption DEF ClientIdentityAssumption
  <2>5. EntryAt(hop) # Garbage
    BY <1>1, <1>2, <2>2, <2>4
  <2>6. {Canonical[EntryAt(h)] : h \in {g \in Hops : Decides(g) /\ EntryAt(g) # Garbage}}
           = {Canonical[senders[i]]}
    BY <2>2, <2>3, <2>5, OneDecides
  <2>7. ClientFromChain = Canonical[senders[i]]
    BY <2>6 DEF ClientFromChain
  <2>8. ClientFromChain # Garbage
    BY <2>4, <2>7
  <2> QED
    BY <2>1, <2>7, <2>8 DEF ClientIp
<1> QED
  BY <1>3, <1>4

\* The limiter was asked for the client of the request as it arrived.
ChargedInv == charged # Nothing => stage # "network" /\ charged.client = BudgetAddress

LEMMA NoWayBack ==
    ASSUME GateInv, [Next]_vars, stage # "network"
    PROVE  stage' # "network" /\ UNCHANGED identityVars
<1>1. UNCHANGED identityVars
  BY DEF Next, OnTheWay, Arrive, Handshake, Travelling, Layers, Meanwhile, Respond, Done, vars
<1>2. CASE Layers
  <2>1. CASE RateLayer
    BY <1>1, <2>1, PassedOn, NextLayers DEF RateLayer, Pass, Refuse
  <2>2. CASE BearerLayer
    BY <1>1, <2>2, BearerEffect, PassedOn DEF BearerRefuses, BearerPasses, BearerAdmits
  <2>3. CASE CsrfLayer
    BY <1>1, <2>3, PassedOn, NextLayers DEF CsrfLayer, Pass, Refuse
  <2>4. CASE SessionLayer \/ SessionRaises
    BY <1>1, <2>4, PassedOn, NextLayers, InstalledLayer DEF SessionLayer, SessionRaises, Pass, Refuse
  <2>5. CASE Route
    BY <1>1, <2>5 DEF Route
  <2> QED
    BY <1>2, <2>1, <2>2, <2>3, <2>4, <2>5 DEF Layers
<1>3. CASE Meanwhile
  <2>1. ASSUME NEW app \in Apps, Mount(app) PROVE stage' # "network"
    BY <2>1, PassedOn DEF Mount
  <2>2. UNCHANGED stage \/ \E app \in Apps : Mount(app)
    BY <1>3 DEF Meanwhile, HostRewrites, SessionEnds
  <2> QED
    BY <1>1, <2>1, <2>2
<1>4. CASE OnTheWay \/ Arrive \/ Handshake
  BY <1>4 DEF OnTheWay, Arrive, Handshake, Travelling
<1>5. CASE Respond \/ Done \/ UNCHANGED vars
  BY <1>1, <1>5 DEF Respond, Done, vars, gateVars
<1> QED
  BY <1>1, <1>2, <1>3, <1>4, <1>5 DEF Next

LEMMA StepKeepsIdentity ==
    ASSUME GateInv, IdentityInv, ChargedInv, [Next]_vars
    PROVE  IdentityInv' /\ ChargedInv'
<1>1. ASSUME UNCHANGED identityVars
      PROVE  IdentityInv' /\ BudgetAddress' = BudgetAddress
  <2>1. senders' = senders /\ fields' = fields
    BY <1>1 DEF identityVars
  <2>2. Hops' = Hops /\ Peer' = Peer
    BY <2>1 DEF Hops, Peer
  <2>3. \A hop : EntryAt(hop)' = EntryAt(hop) /\ ReadBefore(hop)' = ReadBefore(hop)
    BY <2>1, <2>2 DEF EntryAt, ReadBefore
  <2>4. IdentityInv'
    <3>1. \A i : ToldOf(i) => ToldOf(i)'
      BY <2>1, <2>2, <2>3 DEF ToldOf
    <3> QED
      BY <2>1, <3>1 DEF IdentityInv
  <2>5. BudgetAddress' = BudgetAddress
    BY <2>1 DEF BudgetAddress, ClientIp, ClientFromChain, Peer, Hops, EntryAt, ReadBefore, Decides
  <2> QED
    BY <2>4, <2>5
<1>2. CASE OnTheWay
  <2>1. charged' = charged /\ stage = "network"
    BY <1>2 DEF OnTheWay, Travelling
  <2> QED
    BY <1>2, <2>1, ForwardKeepsIdentity DEF OnTheWay, ChargedInv
<1>3. CASE RateLayer /\ UNCHANGED identityVars
  <2>1. stage # "network" /\ stage' # "network"
    BY <1>3, NoWayBack DEF RateLayer
  <2>2. charged' = charged \/ charged'.client = BudgetAddress
    BY <1>3 DEF RateLayer
  <2> QED
    BY <1>1, <1>3, <2>1, <2>2 DEF ChargedInv
<1>4. CASE UNCHANGED <<identityVars, charged>>
  BY <1>1, <1>4, NoWayBack DEF ChargedInv
<1> QED
  BY <1>2, <1>3, <1>4
     DEF Next, Arrive, Handshake, Layers, Meanwhile, Respond, Done, vars

LEMMA InitIdentity == Init => IdentityInv /\ ChargedInv
<1> SUFFICES ASSUME Init PROVE IdentityInv /\ ChargedInv
  OBVIOUS
<1>1. charged = Nothing /\ fields \in Written
  BY DEF Init, IdentityInit
<1>2. PICK client \in Addresses : senders = <<client>>
  BY DEF Init, IdentityInit
<1>3. senders \in Seq(Addresses) /\ Len(senders) = 1
  BY <1>2
<1>4. fields \in Seq(Seq(Entries) \ {<<>>})
  BY <1>1, ClientIdentityAssumption DEF ClientIdentityAssumption, Entries
<1>5. fields \in Seq(Seq(Entries))
  <2>1. /\ Len(fields) \in Nat /\ DOMAIN fields = 1 .. Len(fields)
        /\ fields = [f \in 1 .. Len(fields) |-> fields[f]]
        /\ \A f \in 1 .. Len(fields) : fields[f] \in Seq(Entries)
    BY <1>4
  <2>2. fields \in [1 .. Len(fields) -> Seq(Entries)]
    BY <2>1
  <2> QED
    BY <2>1, <2>2
<1> QED
  BY <1>1, <1>3, <1>5 DEF IdentityInv, ChargedInv

\* However many proxies wrote into however many fields, and whatever stood there
\* before, a request is charged to its own client, or to the last proxy that no
\* trusted one vouches for (_client_from_chain).
THEOREM RequestStack_ClientPaysForItself == Spec => []ClientPaysForItself
<1>1. IdentityInv /\ ChargedInv => ClientPaysForItself
  BY ClientIsOutsider DEF ChargedInv, BudgetAddress, ClientPaysForItself
<1>2. GateInv /\ IdentityInv /\ ChargedInv /\ [Next]_vars => IdentityInv' /\ ChargedInv'
  BY StepKeepsIdentity
<1> QED
  BY <1>1, <1>2, InitIdentity, RequestStack_GateInv, PTL DEF Spec

=============================================================================
