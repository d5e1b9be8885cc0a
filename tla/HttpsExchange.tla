--------------------------- MODULE HttpsExchange ---------------------------
(***************************************************************************)
(* webauth.https_client: one HTTPS request, made for a key set             *)
(* (fetch_key_set_over_https) or a token request                           *)
(* (post_token_request_over_https).  Each blocking step of the TLS socket  *)
(* runs under the socket's timeout, which is shortened before the step to  *)
(* what is left of the exchange's deadline.  Connecting runs under a       *)
(* timeout of its own for every resolved address.                          *)
(*                                                                         *)
(* Time is counted from the start of the exchange; a step that blocks may  *)
(* take any time until it times out.                                       *)
(***************************************************************************)
EXTENDS Naturals

CONSTANTS
    TimeoutSeconds,   \* of one step
    DeadlineSeconds,
    ConnectSeconds,   \* bound on connecting: a timeout for each resolved address
    MaxBodyBytes

ASSUME HttpsExchangeAssumption ==
    /\ TimeoutSeconds \in Nat \ {0}
    /\ DeadlineSeconds \in Nat \ {0}
    /\ ConnectSeconds \in Nat
    /\ MaxBodyBytes \in Nat

VARIABLES
    purpose,        \* "key-set" or "token-request"
    phase,          \* "idle", the blocking step under way, or "over"
    elapsed,        \* since the exchange began
    socketTimeout,  \* gettimeout() of the TLS socket
    stepEnds,       \* when the step under way times out
    bodyRead,
    result          \* "none", "answered", "refused-status" or an ExchangeFailure

exchangeVars == <<purpose, phase, elapsed, socketTimeout, stepEnds, bodyRead, result>>

TlsPhases == {"handshake", "sending", "head", "body"}
Blocking == TlsPhases \cup {"connecting"}
Failures == {"unreachable", "tls-failed", "timed-out", "broken-off", "redirected", "too-large"}

ExchangeInit ==
    /\ purpose = "key-set" /\ phase = "idle" /\ elapsed = 0 /\ socketTimeout = TimeoutSeconds
    /\ stepEnds = 0 /\ bodyRead = 0 /\ result = "none"

StartExchange(for) ==
    /\ phase = "idle"
    /\ purpose' = for /\ phase' = "connecting"
    /\ elapsed' = 0 /\ stepEnds' = ConnectSeconds /\ socketTimeout' = TimeoutSeconds
    /\ bodyRead' = 0 /\ result' = "none"

\* has_passed
DeadlineHasPassed == elapsed >= DeadlineSeconds

EndWith(outcome) == phase' = "over" /\ result' = outcome /\ UNCHANGED <<socketTimeout, stepEnds>>

\* Whatever error urllib3 made of it, an exchange past its deadline timed out.
Fail(failure) == EndWith(IF DeadlineHasPassed THEN "timed-out" ELSE failure)

\* Mutant: a step is bounded by the socket's timeout alone.
BlockForTimeout(step) ==
    /\ phase' = step /\ stepEnds' = elapsed + socketTimeout
    /\ UNCHANGED <<socketTimeout, result>>

\* SocketUnderDeadline: the step begins under _Deadline.bound
Block(step) ==
    IF DeadlineHasPassed
    THEN EndWith("timed-out")
    ELSE /\ phase' = step
         /\ socketTimeout' = IF socketTimeout < DeadlineSeconds - elapsed
                             THEN socketTimeout ELSE DeadlineSeconds - elapsed
         /\ stepEnds' = elapsed + socketTimeout'
         /\ UNCHANGED result

\* The TCP connection stands, the handshake is done or the request is sent.
Proceed ==
    /\ \/ phase = "connecting" /\ Block("handshake")
       \/ phase = "handshake" /\ Block("sending")
       \/ phase = "sending" /\ Block("head")
    /\ UNCHANGED <<purpose, elapsed, bodyRead>>

\* A part of the answer's head arrives, or part of the request leaves.
Trickle ==
    /\ phase \in {"sending", "head"}
    /\ Block(phase)
    /\ UNCHANGED <<purpose, elapsed, bodyRead>>

\* Whether accepts_status: _is_key_set_status, _is_form_answer_status
Accepts(status) ==
    IF purpose = "key-set" THEN status = "200" ELSE status # "redirect"

\* The head is complete; the body of a refused status is not read.
HeadComplete(status) ==
    /\ phase = "head"
    /\ IF Accepts(status) THEN Block("body")
       ELSE EndWith(IF purpose = "key-set" THEN "refused-status" ELSE "redirected")
    /\ UNCHANGED <<purpose, elapsed, bodyRead>>

\* What the caller makes of a body that was read: a token request refuses one
\* past its size, the verifier does so for a key set.
EndBody ==
    EndWith(IF purpose = "token-request" /\ bodyRead' > MaxBodyBytes THEN "too-large" ELSE "answered")

\* response.read(max_body_bytes + 1): it ends at the size or the answer's end
ReadBody(bytes) ==
    /\ phase = "body" /\ bodyRead + bytes <= MaxBodyBytes + 1
    /\ bodyRead' = bodyRead + bytes
    /\ IF bodyRead' = MaxBodyBytes + 1 THEN EndBody ELSE Block("body") \/ EndBody
    /\ UNCHANGED <<purpose, elapsed>>

\* The connection is refused or reset, the certificate is not trusted, or what
\* arrives is no TLS: urllib3's SSLError, NewConnectionError or any other.
BreakOff ==
    /\ phase \in Blocking
    /\ \E failure \in IF phase = "connecting" THEN {"unreachable"} ELSE {"tls-failed", "broken-off"} :
          Fail(failure)
    /\ UNCHANGED <<purpose, elapsed, bodyRead>>

\* Mutant: the TLS socket has lost its timeout.
OnlyConnectingTimesOut ==
    /\ phase = "connecting" /\ elapsed >= stepEnds
    /\ EndWith("timed-out")
    /\ UNCHANGED <<purpose, elapsed, bodyRead>>

StepTimesOut ==
    /\ phase \in Blocking /\ elapsed >= stepEnds
    /\ EndWith("timed-out")
    /\ UNCHANGED <<purpose, elapsed, bodyRead>>

\* A step that blocks lets time pass until it times out.
TimePasses ==
    /\ phase \in Blocking => elapsed < stepEnds
    /\ elapsed' = IF phase \in Blocking THEN elapsed + 1 ELSE elapsed
    /\ UNCHANGED <<purpose, phase, socketTimeout, stepEnds, bodyRead, result>>

\* The answer, or the exception, reaches the caller; the socket is closed.
Return ==
    /\ phase = "over" /\ phase' = "idle"
    /\ purpose' = "key-set" /\ elapsed' = 0 /\ socketTimeout' = TimeoutSeconds
    /\ stepEnds' = 0 /\ bodyRead' = 0 /\ result' = "none"

ExchangeStep ==
    \/ Proceed \/ Trickle \/ BreakOff \/ StepTimesOut
    \/ \E bytes \in 0 .. MaxBodyBytes + 1 : ReadBody(bytes)

ExchangeNext ==
    \/ \E for \in {"key-set", "token-request"} : StartExchange(for)
    \/ \E status \in {"200", "redirect", "other"} : HeadComplete(status)
    \/ ExchangeStep \/ TimePasses \/ Return

ExchangeSpec == ExchangeInit /\ [][ExchangeNext]_exchangeVars

-----------------------------------------------------------------------------
ExchangeTypeOK ==
    /\ purpose \in {"key-set", "token-request"}
    /\ phase \in Blocking \cup {"idle", "over"}
    /\ {elapsed, socketTimeout, stepEnds, bodyRead} \subseteq Nat
    /\ result \in Failures \cup {"none", "answered", "refused-status"}

\* However an origin trickles its bytes, no step after connecting outlasts the
\* deadline of the exchange (SocketUnderDeadline, _Deadline.bound).
TlsWithinDeadline == phase \in TlsPhases => elapsed <= DeadlineSeconds

\* A body is read at most one byte past its limit, and a token answer past the
\* limit is none.
OneByteOver ==
    /\ bodyRead <= MaxBodyBytes + 1
    /\ purpose = "token-request" /\ result = "answered" => bodyRead <= MaxBodyBytes

\* A failure past the deadline is named a timeout (_exchange).
LateIsTimedOut ==
    result \in {"unreachable", "tls-failed", "broken-off"} => elapsed < DeadlineSeconds

\* What an origin does bounds neither the time nor the size of an exchange, nor
\* what its failure is called (_exchange).
ExchangeBounded == TlsWithinDeadline /\ OneByteOver /\ LateIsTimedOut

=============================================================================
