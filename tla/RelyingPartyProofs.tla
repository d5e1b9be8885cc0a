------------------------- MODULE RelyingPartyProofs -------------------------
(***************************************************************************)
(* Theorems about one HTTPS exchange, for every timeout, deadline and body *)
(* limit; and about the relying party that makes such exchanges, for any   *)
(* nodes, bounds of their clocks, logins and tokens.                       *)
(***************************************************************************)
EXTENDS RelyingParty, WellFoundedInduction, TLAPS

-----------------------------------------------------------------------------
(* One exchange                                                            *)

\* A TLS step under way ends by the deadline, for it began before it and its
\* timeout was cut to what was left.
StepBounded ==
    phase \in TlsPhases => elapsed <= stepEnds /\ stepEnds <= DeadlineSeconds

\* An outcome stands only once the exchange is over.
OutcomeAtEnd == phase # "over" => result = "none"

ExchangeInv ==
    ExchangeTypeOK /\ StepBounded /\ OutcomeAtEnd /\ OneByteOver /\ LateIsTimedOut

USE DEF TlsPhases, Blocking, Failures

\* What is left of the deadline bounds the step that begins (_Deadline.bound).
LEMMA BlockBounded ==
    ASSUME ExchangeTypeOK, NEW step \in TlsPhases, Block(step)
    PROVE  /\ {socketTimeout', stepEnds'} \subseteq Nat
           /\ \/ /\ phase' = step /\ result' = result
                 /\ elapsed <= stepEnds' /\ stepEnds' <= DeadlineSeconds
              \/ phase' = "over" /\ result' = "timed-out"
<1>0. DeadlineSeconds \in Nat
  BY HttpsExchangeAssumption DEF HttpsExchangeAssumption
<1>1. elapsed \in Nat /\ socketTimeout \in Nat /\ stepEnds \in Nat
  BY DEF ExchangeTypeOK
<1>2. CASE DeadlineHasPassed
  BY <1>1, <1>2 DEF Block, EndWith
<1>3. CASE ~ DeadlineHasPassed
  <2>1. elapsed < DeadlineSeconds
    BY <1>0, <1>1, <1>3 DEF DeadlineHasPassed
  <2>2. /\ phase' = step /\ result' = result
        /\ socketTimeout' = IF socketTimeout < DeadlineSeconds - elapsed
                            THEN socketTimeout ELSE DeadlineSeconds - elapsed
        /\ stepEnds' = elapsed + socketTimeout'
    BY <1>3 DEF Block
  <2>3. socketTimeout' \in Nat /\ socketTimeout' <= DeadlineSeconds - elapsed
    BY <1>0, <1>1, <2>1, <2>2
  <2>4. stepEnds' \in Nat /\ elapsed <= stepEnds' /\ stepEnds' <= DeadlineSeconds
    BY <1>0, <1>1, <2>2, <2>3
  <2> QED
    BY <2>2, <2>3, <2>4
<1> QED
  BY <1>2, <1>3

\* A step that only begins the next one, leaving the body read so far alone.
LEMMA BlockKeepsInv ==
    ASSUME ExchangeInv, NEW step \in TlsPhases, Block(step), phase # "over",
           UNCHANGED <<purpose, elapsed, bodyRead>>
    PROVE  ExchangeInv'
<1>1. result = "none"
  BY DEF ExchangeInv, OutcomeAtEnd
<1>2. /\ {socketTimeout', stepEnds'} \subseteq Nat
      /\ \/ /\ phase' = step /\ result' = "none"
            /\ elapsed <= stepEnds' /\ stepEnds' <= DeadlineSeconds
         \/ phase' = "over" /\ result' = "timed-out"
  BY <1>1, BlockBounded DEF ExchangeInv
<1>3. ExchangeTypeOK'
  BY <1>2 DEF ExchangeInv, ExchangeTypeOK
<1>4. StepBounded' /\ OutcomeAtEnd'
  BY <1>2 DEF StepBounded, OutcomeAtEnd
<1>5. OneByteOver' /\ LateIsTimedOut'
  BY <1>2 DEF ExchangeInv, OneByteOver, LateIsTimedOut
<1> QED
  BY <1>3, <1>4, <1>5 DEF ExchangeInv

\* An exchange that has not read or decided anything yet.
LEMMA FreshKeepsInv ==
    ASSUME purpose' \in {"key-set", "token-request"}, phase' \in {"idle", "connecting"},
           elapsed' = 0, socketTimeout' \in Nat, stepEnds' \in Nat, bodyRead' = 0, result' = "none"
    PROVE  ExchangeInv'
<1>1. 0 <= MaxBodyBytes + 1
  BY HttpsExchangeAssumption DEF HttpsExchangeAssumption
<1>2. ExchangeTypeOK'
  BY DEF ExchangeTypeOK
<1>3. OneByteOver'
  BY <1>1 DEF OneByteOver
<1> QED
  BY <1>2, <1>3 DEF ExchangeInv, StepBounded, OutcomeAtEnd, LateIsTimedOut

LEMMA StartKeepsInv ==
    ASSUME ExchangeInv, NEW for \in {"key-set", "token-request"}, StartExchange(for)
    PROVE  ExchangeInv'
<1>1. TimeoutSeconds \in Nat /\ ConnectSeconds \in Nat
  BY HttpsExchangeAssumption DEF HttpsExchangeAssumption
<1> QED
  BY <1>1, FreshKeepsInv DEF StartExchange

LEMMA HeadKeepsInv ==
    ASSUME ExchangeInv, NEW status \in {"200", "redirect", "other"}, HeadComplete(status)
    PROVE  ExchangeInv'
<1>1. CASE Accepts(status)
  BY <1>1, BlockKeepsInv DEF HeadComplete
<1>2. CASE ~ Accepts(status)
  BY <1>2 DEF HeadComplete, EndWith, ExchangeInv, ExchangeTypeOK, StepBounded,
              OutcomeAtEnd, OneByteOver, LateIsTimedOut
<1> QED
  BY <1>1, <1>2

\* Reading stops one byte past the limit, which a token request then refuses.
LEMMA ReadKeepsInv ==
    ASSUME ExchangeInv, NEW bytes \in 0 .. MaxBodyBytes + 1, ReadBody(bytes)
    PROVE  ExchangeInv'
<1>0. MaxBodyBytes \in Nat /\ DeadlineSeconds \in Nat
  BY HttpsExchangeAssumption DEF HttpsExchangeAssumption
<1>1. /\ phase = "body" /\ result = "none" /\ bodyRead \in Nat /\ elapsed \in Nat
      /\ purpose \in {"key-set", "token-request"}
  BY DEF ReadBody, ExchangeInv, ExchangeTypeOK, OutcomeAtEnd
<1>2. bodyRead' \in Nat /\ bodyRead' <= MaxBodyBytes + 1 /\ UNCHANGED <<purpose, elapsed>>
  <2>1. /\ bodyRead + bytes <= MaxBodyBytes + 1 /\ bodyRead' = bodyRead + bytes
        /\ UNCHANGED <<purpose, elapsed>>
    BY DEF ReadBody
  <2>2. bytes \in Nat
    BY <1>0
  <2> QED
    BY <1>0, <1>1, <2>1, <2>2
<1>3. CASE Block("body")
  <2>1. /\ {socketTimeout', stepEnds'} \subseteq Nat
        /\ \/ /\ phase' = "body" /\ result' = "none"
              /\ elapsed <= stepEnds' /\ stepEnds' <= DeadlineSeconds
           \/ phase' = "over" /\ result' = "timed-out"
    BY <1>1, <1>3, BlockBounded DEF ExchangeInv
  <2>2. ExchangeTypeOK'
    BY <1>1, <1>2, <2>1 DEF ExchangeTypeOK
  <2> QED
    BY <1>2, <2>1, <2>2 DEF ExchangeInv, StepBounded, OutcomeAtEnd, OneByteOver, LateIsTimedOut
<1>4. CASE EndBody
  <2>1. /\ phase' = "over" /\ UNCHANGED <<socketTimeout, stepEnds>>
        /\ result' = IF purpose = "token-request" /\ bodyRead' > MaxBodyBytes
                     THEN "too-large" ELSE "answered"
    BY <1>4 DEF EndBody, EndWith
  <2>2. ExchangeTypeOK'
    BY <1>1, <1>2, <2>1 DEF ExchangeInv, ExchangeTypeOK
  <2>3. purpose' = "token-request" /\ result' = "answered" => bodyRead' <= MaxBodyBytes
    BY <1>0, <1>2, <2>1
  <2>4. OneByteOver'
    BY <1>2, <2>3 DEF OneByteOver
  <2> QED
    BY <2>1, <2>2, <2>4 DEF ExchangeInv, StepBounded, OutcomeAtEnd, LateIsTimedOut
<1> QED
  BY <1>3, <1>4 DEF ReadBody

\* A failure keeps its name only before the deadline.
LEMMA BreakOffKeepsInv ==
    ASSUME ExchangeInv, BreakOff
    PROVE  ExchangeInv'
<1>0. DeadlineSeconds \in Nat /\ elapsed \in Nat
  BY HttpsExchangeAssumption DEF HttpsExchangeAssumption, ExchangeInv, ExchangeTypeOK
<1>1. /\ phase' = "over" /\ UNCHANGED <<purpose, elapsed, bodyRead, socketTimeout, stepEnds>>
      /\ result' \in {"unreachable", "tls-failed", "broken-off", "timed-out"}
      /\ elapsed >= DeadlineSeconds => result' = "timed-out"
  BY DEF BreakOff, Fail, EndWith, DeadlineHasPassed
<1>2. LateIsTimedOut'
  BY <1>0, <1>1 DEF LateIsTimedOut
<1> QED
  BY <1>1, <1>2 DEF ExchangeInv, ExchangeTypeOK, StepBounded, OutcomeAtEnd, OneByteOver

LEMMA TimeoutKeepsInv ==
    ASSUME ExchangeInv, StepTimesOut
    PROVE  ExchangeInv'
  BY DEF StepTimesOut, EndWith, ExchangeInv, ExchangeTypeOK, StepBounded, OutcomeAtEnd,
         OneByteOver, LateIsTimedOut

\* Time passes only while the step under way has not timed out, and an outcome
\* is not looked at later than it came.
LEMMA TimeKeepsInv ==
    ASSUME ExchangeInv, TimePasses
    PROVE  ExchangeInv'
<1>0. DeadlineSeconds \in Nat /\ elapsed \in Nat /\ stepEnds \in Nat
  BY HttpsExchangeAssumption DEF HttpsExchangeAssumption, ExchangeInv, ExchangeTypeOK
<1>1. UNCHANGED <<purpose, phase, socketTimeout, stepEnds, bodyRead, result>>
  BY DEF TimePasses
<1>2. CASE phase \in Blocking
  <2>1. elapsed < stepEnds /\ elapsed' = elapsed + 1 /\ result = "none"
    BY <1>2 DEF TimePasses, ExchangeInv, OutcomeAtEnd
  <2>2. elapsed' \in Nat /\ elapsed' <= stepEnds
    BY <1>0, <2>1
  <2> QED
    BY <1>1, <2>1, <2>2 DEF ExchangeInv, ExchangeTypeOK, StepBounded, OutcomeAtEnd,
                            OneByteOver, LateIsTimedOut
<1>3. CASE phase \notin Blocking
  <2>1. elapsed' = elapsed
    BY <1>3 DEF TimePasses
  <2> QED
    BY <1>1, <2>1 DEF ExchangeInv, ExchangeTypeOK, StepBounded, OutcomeAtEnd,
                      OneByteOver, LateIsTimedOut
<1> QED
  BY <1>2, <1>3

LEMMA ReturnKeepsInv ==
    ASSUME ExchangeInv, Return
    PROVE  ExchangeInv'
<1>1. TimeoutSeconds \in Nat
  BY HttpsExchangeAssumption DEF HttpsExchangeAssumption
<1> QED
  BY <1>1, FreshKeepsInv DEF Return

LEMMA StepKeepsInv ==
    ASSUME ExchangeInv, [ExchangeNext]_exchangeVars
    PROVE  ExchangeInv'
<1>1. CASE \E for \in {"key-set", "token-request"} : StartExchange(for)
  BY <1>1, StartKeepsInv
<1>2. CASE \E status \in {"200", "redirect", "other"} : HeadComplete(status)
  BY <1>2, HeadKeepsInv
<1>3. CASE Proceed
  BY <1>3, BlockKeepsInv DEF Proceed
<1>4. CASE Trickle
  BY <1>4, BlockKeepsInv DEF Trickle
<1>5. CASE BreakOff
  BY <1>5, BreakOffKeepsInv
<1>6. CASE StepTimesOut
  BY <1>6, TimeoutKeepsInv
<1>7. CASE \E bytes \in 0 .. MaxBodyBytes + 1 : ReadBody(bytes)
  BY <1>7, ReadKeepsInv
<1>8. CASE TimePasses
  BY <1>8, TimeKeepsInv
<1>9. CASE Return
  BY <1>9, ReturnKeepsInv
<1>10. CASE UNCHANGED exchangeVars
  BY <1>10 DEF exchangeVars, ExchangeInv, ExchangeTypeOK, StepBounded, OutcomeAtEnd,
               OneByteOver, LateIsTimedOut
<1> QED
  BY <1>1, <1>2, <1>3, <1>4, <1>5, <1>6, <1>7, <1>8, <1>9, <1>10
  DEF ExchangeNext, ExchangeStep

\* Every exchange keeps the strengthened invariant.
THEOREM HttpsExchange_Invariant == ExchangeSpec => []ExchangeInv
<1>1. ExchangeInit => ExchangeInv
  <2>1. TimeoutSeconds \in Nat /\ 0 <= MaxBodyBytes + 1
    BY HttpsExchangeAssumption DEF HttpsExchangeAssumption
  <2>2. ExchangeInit => ExchangeTypeOK
    BY <2>1 DEF ExchangeInit, ExchangeTypeOK
  <2>3. ExchangeInit => OneByteOver
    BY <2>1 DEF ExchangeInit, OneByteOver
  <2> QED
    BY <2>2, <2>3 DEF ExchangeInit, ExchangeInv, StepBounded, OutcomeAtEnd, LateIsTimedOut
<1>2. ExchangeInv /\ [ExchangeNext]_exchangeVars => ExchangeInv'
  BY StepKeepsInv
<1> QED
  BY <1>1, <1>2, PTL DEF ExchangeSpec

\* The variables of an exchange keep their types (_exchange).
THEOREM HttpsExchange_ExchangeTypeOK == ExchangeSpec => []ExchangeTypeOK
<1>1. ExchangeInv => ExchangeTypeOK
  BY DEF ExchangeInv
<1> QED
  BY <1>1, HttpsExchange_Invariant, PTL

\* No TLS step outlasts the deadline, whatever the socket's own timeout and however
\* the origin spreads its bytes (SocketUnderDeadline).
THEOREM HttpsExchange_TlsWithinDeadline == ExchangeSpec => []TlsWithinDeadline
<1>1. ExchangeInv => TlsWithinDeadline
  <2>1. DeadlineSeconds \in Nat
    BY HttpsExchangeAssumption DEF HttpsExchangeAssumption
  <2> SUFFICES ASSUME ExchangeInv, phase \in TlsPhases
               PROVE  elapsed <= DeadlineSeconds
    BY DEF TlsWithinDeadline
  <2>2. elapsed \in Nat /\ stepEnds \in Nat
    BY DEF ExchangeInv, ExchangeTypeOK
  <2>3. elapsed <= stepEnds /\ stepEnds <= DeadlineSeconds
    BY DEF ExchangeInv, StepBounded
  <2> QED
    BY <2>1, <2>2, <2>3
<1> QED
  BY <1>1, HttpsExchange_Invariant, PTL

\* The body is read to one byte past the limit and no token answer past it is
\* returned (_exchange, post_token_request_over_https).
THEOREM HttpsExchange_OneByteOver == ExchangeSpec => []OneByteOver
<1>1. ExchangeInv => OneByteOver
  BY DEF ExchangeInv
<1> QED
  BY <1>1, HttpsExchange_Invariant, PTL

\* A failure past the deadline is reported as a timeout (_exchange).
THEOREM HttpsExchange_LateIsTimedOut == ExchangeSpec => []LateIsTimedOut
<1>1. ExchangeInv => LateIsTimedOut
  BY DEF ExchangeInv
<1> QED
  BY <1>1, HttpsExchange_Invariant, PTL

\* The three bounds of an exchange together (_exchange, SocketUnderDeadline).
THEOREM HttpsExchange_ExchangeBounded == ExchangeSpec => []ExchangeBounded
<1>1. TlsWithinDeadline /\ OneByteOver /\ LateIsTimedOut => ExchangeBounded
  BY DEF ExchangeBounded
<1> QED
  BY <1>1, HttpsExchange_TlsWithinDeadline, HttpsExchange_OneByteOver,
     HttpsExchange_LateIsTimedOut, PTL

HIDE DEF TlsPhases, Blocking, Failures

-----------------------------------------------------------------------------
(* The first check that refuses                                            *)

\* verdict is the first of the checks that does not hold.
IsFirst(n, checks, verdict) ==
    \/ verdict = "holds" /\ \A i \in 1 .. n : checks[i] = "holds"
    \/ \E i \in 1 .. n : /\ verdict = checks[i] /\ checks[i] # "holds"
                         /\ \A j \in 1 .. i - 1 : checks[j] = "holds"

LEMMA FirstRefusalIsFirst ==
    ASSUME NEW n \in Nat, NEW checks, DOMAIN checks = 1 .. n
    PROVE  IsFirst(n, checks, FirstRefusal(checks))
<1> DEFINE refusals == {i \in DOMAIN checks : checks[i] # "holds"}
<1>1. FirstRefusal(checks) =
         IF refusals = {} THEN "holds"
         ELSE checks[CHOOSE i \in refusals : \A j \in refusals : i <= j]
  BY DEF FirstRefusal
<1>2. CASE refusals = {}
  BY <1>1, <1>2 DEF IsFirst
<1>3. CASE refusals # {}
  <2>1. refusals \in SUBSET Nat
    OBVIOUS
  <2>2. PICK first \in refusals : \A j \in refusals : <<j, first>> \notin OpToRel(<, Nat)
    <3> HIDE DEF refusals
    <3> QED
      BY <1>3, <2>1, WFMin, NatLessThanWellFounded
  <2>3. \A j \in refusals : first <= j
    <3> SUFFICES ASSUME NEW j \in refusals, j < first PROVE FALSE
      BY <2>1
    <3>1. <<j, first>> \in OpToRel(<, Nat)
      BY <2>1 DEF OpToRel
    <3> QED
      BY <2>2, <3>1
  <2>4. PICK least : least = CHOOSE i \in refusals : \A j \in refusals : i <= j
    OBVIOUS
  <2>5. least \in refusals /\ \A j \in refusals : least <= j
    BY <2>3, <2>4
  <2>6. \A j \in 1 .. least - 1 : checks[j] = "holds"
    BY <2>1, <2>5
  <2>7. FirstRefusal(checks) = checks[least]
    BY <1>1, <1>3, <2>4
  <2> QED
    BY <2>5, <2>6, <2>7 DEF IsFirst
<1> QED
  BY <1>2, <1>3

LEMMA FirstOfTwo ==
    ASSUME NEW a, NEW b
    PROVE  FirstRefusal(<<a, b>>) = IF a # "holds" THEN a ELSE b
<1> DEFINE checks == <<a, b>>
<1>1. DOMAIN checks = 1 .. 2 /\ checks[1] = a /\ checks[2] = b
  OBVIOUS
<1> HIDE DEF checks
<1>2. IsFirst(2, checks, FirstRefusal(checks))
  BY <1>1, FirstRefusalIsFirst
<1> QED
  BY <1>1, <1>2 DEF IsFirst, checks

LEMMA FirstOfThree ==
    ASSUME NEW a, NEW b, NEW c
    PROVE  FirstRefusal(<<a, b, c>>) = IF a # "holds" THEN a ELSE IF b # "holds" THEN b ELSE c
<1> DEFINE checks == <<a, b, c>>
<1>1. DOMAIN checks = 1 .. 3 /\ checks[1] = a /\ checks[2] = b /\ checks[3] = c
  OBVIOUS
<1> HIDE DEF checks
<1>2. IsFirst(3, checks, FirstRefusal(checks))
  BY <1>1, FirstRefusalIsFirst
<1> QED
  BY <1>1, <1>2 DEF IsFirst, checks

LEMMA FirstOfFour ==
    ASSUME NEW a, NEW b, NEW c, NEW d
    PROVE  FirstRefusal(<<a, b, c, d>>) =
           IF a # "holds" THEN a ELSE IF b # "holds" THEN b ELSE IF c # "holds" THEN c ELSE d
<1> DEFINE checks == <<a, b, c, d>>
<1>1. DOMAIN checks = 1 .. 4 /\ checks[1] = a /\ checks[2] = b /\ checks[3] = c /\ checks[4] = d
  OBVIOUS
<1> HIDE DEF checks
<1>2. IsFirst(4, checks, FirstRefusal(checks))
  BY <1>1, FirstRefusalIsFirst
<1> QED
  BY <1>1, <1>2 DEF IsFirst, checks

LEMMA FirstOfFive ==
    ASSUME NEW a, NEW b, NEW c, NEW d, NEW e
    PROVE  FirstRefusal(<<a, b, c, d, e>>) =
           IF a # "holds" THEN a ELSE IF b # "holds" THEN b ELSE IF c # "holds" THEN c
           ELSE IF d # "holds" THEN d ELSE e
<1> DEFINE checks == <<a, b, c, d, e>>
<1>1. /\ DOMAIN checks = 1 .. 5
      /\ checks[1] = a /\ checks[2] = b /\ checks[3] = c /\ checks[4] = d /\ checks[5] = e
  OBVIOUS
<1> HIDE DEF checks
<1>2. IsFirst(5, checks, FirstRefusal(checks))
  BY <1>1, FirstRefusalIsFirst
<1> QED
  BY <1>1, <1>2 DEF IsFirst, checks

LEMMA FirstOfSix ==
    ASSUME NEW a, NEW b, NEW c, NEW d, NEW e, NEW f
    PROVE  FirstRefusal(<<a, b, c, d, e, f>>) =
           IF a # "holds" THEN a ELSE IF b # "holds" THEN b ELSE IF c # "holds" THEN c
           ELSE IF d # "holds" THEN d ELSE IF e # "holds" THEN e ELSE f
<1> DEFINE checks == <<a, b, c, d, e, f>>
<1>1. /\ DOMAIN checks = 1 .. 6
      /\ checks[1] = a /\ checks[2] = b /\ checks[3] = c
      /\ checks[4] = d /\ checks[5] = e /\ checks[6] = f
  OBVIOUS
<1> HIDE DEF checks
<1>2. IsFirst(6, checks, FirstRefusal(checks))
  BY <1>1, FirstRefusalIsFirst
<1> QED
  BY <1>1, <1>2 DEF IsFirst, checks

LEMMA FirstOfEight ==
    ASSUME NEW a, NEW b, NEW c, NEW d, NEW e, NEW f, NEW g, NEW h
    PROVE  FirstRefusal(<<a, b, c, d, e, f, g, h>>) =
           IF a # "holds" THEN a ELSE IF b # "holds" THEN b ELSE IF c # "holds" THEN c
           ELSE IF d # "holds" THEN d ELSE IF e # "holds" THEN e ELSE IF f # "holds" THEN f
           ELSE IF g # "holds" THEN g ELSE h
<1> DEFINE checks == <<a, b, c, d, e, f, g, h>>
<1>1. /\ DOMAIN checks = 1 .. 8
      /\ checks[1] = a /\ checks[2] = b /\ checks[3] = c /\ checks[4] = d
      /\ checks[5] = e /\ checks[6] = f /\ checks[7] = g /\ checks[8] = h
  OBVIOUS
<1> HIDE DEF checks
<1>2. IsFirst(8, checks, FirstRefusal(checks))
  BY <1>1, FirstRefusalIsFirst
<1> QED
  BY <1>1, <1>2 DEF IsFirst, checks

-----------------------------------------------------------------------------
(* What a verdict says of a token                                          *)

VerifiedReasons ==
    {"token-too-long", "malformed-token", "unsupported-algorithm", "invalid-token-type", "invalid-key-id",
     "key-set-unavailable", "unknown-key-id", "invalid-signature", "invalid-claim", "invalid-issuer",
     "invalid-audience", "expired", "issued-in-future", "not-yet-valid"}

LEMMA HeaderVerdictTells ==
    ASSUME NEW token, NEW types
    PROVE  LET verdict == HeaderVerdict(token, types)
           IN  /\ verdict \in VerifiedReasons \cup {"holds"}
               /\ verdict = "holds" => token.typ \in types
  BY FirstOfFour DEF HeaderVerdict, Check, VerifiedReasons

LEMMA PayloadVerdictTells ==
    ASSUME NEW token, NEW audience
    PROVE  LET verdict == PayloadVerdict(token, audience)
           IN  /\ verdict \in VerifiedReasons \cup {"holds"}
               /\ verdict = "holds" => token.signed /\ token.issuer = "own"
  BY FirstOfFive DEF PayloadVerdict, Check, VerifiedReasons

LEMMA TimeVerdictTells ==
    ASSUME NEW token, NEW now
    PROVE  TimeVerdict(token, now) \in VerifiedReasons \cup {"holds"}
  BY FirstOfFour DEF TimeVerdict, Check, VerifiedReasons

\* What holds has the right type and is the issuer's own.
LEMMA VerifiedTells ==
    ASSUME NEW token, NEW audience, NEW types, NEW now, NEW key \in KeyVerdicts
    PROVE  LET verdict == Verified(token, audience, types, now, key)
           IN  /\ verdict \in VerifiedReasons \cup {"holds"}
               /\ verdict = "holds" => token.typ \in types /\ token.signed /\ token.issuer = "own"
<1> DEFINE header == HeaderVerdict(token, types)
           payload == PayloadVerdict(token, audience)
           times == TimeVerdict(token, now)
           subject == Check(token.sub # "malformed", "invalid-claim")
<1>1. /\ {header, payload, times, subject} \subseteq VerifiedReasons \cup {"holds"}
      /\ header = "holds" => token.typ \in types
      /\ payload = "holds" => token.signed /\ token.issuer = "own"
  BY HeaderVerdictTells, PayloadVerdictTells, TimeVerdictTells DEF Check, VerifiedReasons
<1>2. key \in VerifiedReasons \cup {"holds"}
  BY DEF KeyVerdicts, VerifiedReasons
<1>3. Verified(token, audience, types, now, key) = FirstRefusal(<<header, key, payload, times, subject>>)
  BY DEF Verified
<1> HIDE DEF header, payload, times, subject
<1>4. Verified(token, audience, types, now, key) =
         IF header # "holds" THEN header ELSE IF key # "holds" THEN key
         ELSE IF payload # "holds" THEN payload ELSE IF times # "holds" THEN times ELSE subject
  BY <1>3, FirstOfFive
<1> QED
  BY <1>1, <1>2, <1>4

LEMMA LoginVerdictTells ==
    ASSUME NEW token, NEW nonce, NEW now, NEW key \in KeyVerdicts
    PROVE  LET verdict == LoginVerdict(token, nonce, now, key)
           IN  /\ verdict = "holds" => token.nonce = nonce
               /\ verdict \notin {"pending-login-expired", "malformed-callback", "state-mismatch"}
  BY FirstOfFour, VerifiedTells DEF LoginVerdict, Check, VerifiedReasons

LEMMA RefreshVerdictTells ==
    ASSUME NEW token, NEW subject, NEW startedAt, NEW now, NEW key \in KeyVerdicts
    PROVE  LET verdict == RefreshVerdict(token, subject, startedAt, now, key)
           IN  /\ verdict = "holds" => token.iat + Leeway >= startedAt
               /\ verdict = "stale-id-token" => ~(token.iat + Leeway >= startedAt)
  BY FirstOfSix, VerifiedTells DEF RefreshVerdict, Check, VerifiedReasons

LEMMA LogoutVerdictTells ==
    ASSUME NEW token, NEW now, NEW key \in KeyVerdicts, LogoutVerdict(token, now, key) = "holds"
    PROVE  /\ token.typ = "logout+jwt" /\ token.signed /\ token.issuer = "own"
           /\ now - token.iat <= LogoutMaxAge + Leeway
  BY FirstOfTwo, VerifiedTells DEF LogoutVerdict, Check, IsLogoutProfile

LEMMA AccessVerdictTells ==
    ASSUME NEW token, NEW now, NEW key \in KeyVerdicts, AccessVerdict(token, now, key) = "holds"
    PROVE  token.typ = "at+jwt" /\ token.signed /\ token.issuer = "own" /\ token.audiences = {Client}
  BY FirstOfTwo, FirstOfThree, VerifiedTells DEF AccessVerdict, AccessProfile, Check

LEMMA ResourceVerdictTells ==
    ASSUME NEW token, NEW now, NEW key \in KeyVerdicts, ResourceVerdict(token, now, key) = "holds"
    PROVE  token.typ = "at+jwt" /\ token.signed /\ token.issuer = "own" /\ token.audiences = {Resource}
  BY FirstOfThree, VerifiedTells DEF ResourceVerdict, AccessProfile, Check

ServiceReasons == {"missing-token", "key-set-unavailable", "token-rejected"}

LEMMA ServiceVerdicts ==
    ASSUME NEW token, NEW now, NEW key \in KeyVerdicts
    PROVE  VerifiedForService(token, now, key) \in ServiceReasons \cup {"holds"}
  BY VerifiedTells DEF VerifiedForService, ServiceReasons

LEMMA IdentifiedTells ==
    ASSUME NEW token
    PROVE  Identified(token) \in {"holds", "invalid-subject", "malformed-groups"}
  BY FirstOfTwo DEF Identified, Check

\* What refuses a service call for good is said after both tokens are good.
LEMMA ForbiddenIsLast ==
    ASSUME NEW workload, NEW person,
           NEW workloadVerified \in ServiceReasons \cup {"holds"},
           NEW personVerified \in ServiceReasons \cup {"holds"},
           RefusalClass(CallerVerdict(workload, person, workloadVerified, personVerified)) = "forbidden"
    PROVE  /\ workloadVerified = "holds" /\ personVerified = "holds"
           /\ Identified(workload) = "holds" /\ Identified(person) = "holds"
<1>1. Identified(workload) \in {"holds", "invalid-subject", "malformed-groups"}
      /\ Identified(person) \in {"holds", "invalid-subject", "malformed-groups"}
  BY IdentifiedTells
<1>v. PICK verdict : verdict = CallerVerdict(workload, person, workloadVerified, personVerified)
  OBVIOUS
<1>2. PICK e, f, g, h :
         verdict = FirstRefusal(<<workloadVerified, personVerified, Identified(workload),
                                  Identified(person), e, f, g, h>>)
  BY <1>v DEF CallerVerdict
<1>3. verdict = IF workloadVerified # "holds" THEN workloadVerified
                ELSE IF personVerified # "holds" THEN personVerified
                ELSE IF Identified(workload) # "holds" THEN Identified(workload)
                ELSE IF Identified(person) # "holds" THEN Identified(person)
                ELSE IF e # "holds" THEN e ELSE IF f # "holds" THEN f ELSE IF g # "holds" THEN g ELSE h
  BY <1>2, FirstOfEight
<1>4. verdict \notin {"missing-token", "key-set-unavailable", "token-rejected", "invalid-subject",
                      "malformed-groups"}
  BY <1>v DEF RefusalClass
<1>5. workloadVerified = "holds"
  BY <1>3, <1>4 DEF ServiceReasons
<1>6. personVerified = "holds"
  BY <1>3, <1>4, <1>5 DEF ServiceReasons
<1>7. Identified(workload) = "holds"
  BY <1>1, <1>3, <1>4, <1>5, <1>6
<1>8. Identified(person) = "holds"
  BY <1>1, <1>3, <1>4, <1>5, <1>6, <1>7
<1> QED
  BY <1>5, <1>6, <1>7, <1>8

\* A callback is looked at in order: its age only if it is well formed and the browser's own.
LEMMA CallbackVerdictTells ==
    ASSUME NEW login, NEW query, NEW now
    PROVE  LET verdict == CallbackVerdict(login, query, now)
           IN  /\ verdict = "pending-login-expired" => ~IsUnexpired(begun[login], now)
               /\ verdict \notin {"pending-login-expired", "malformed-callback", "state-mismatch"}
                     => IsUnexpired(begun[login], now)
               /\ verdict = "holds" => query.code # NoCode
  BY FirstOfSix DEF CallbackVerdict, Check

-----------------------------------------------------------------------------
(* The clocks                                                              *)

LEMMA ClockBounds ==
    ASSUME NEW node \in Nodes
    PROVE  /\ SkewOf[node] \in Int /\ MostBehind \in Nat /\ MostAhead \in Nat
           /\ 0 - MostBehind <= SkewOf[node] /\ SkewOf[node] <= MostAhead
  BY RelyingPartyAssumption DEF RelyingPartyAssumption

LEMMA SecondBounds ==
    ASSUME NEW reading \in Int
    PROVE  /\ WholeSecond(reading) \in Int
           /\ WholeSecond(reading) <= reading /\ reading < WholeSecond(reading) + TicksPerSecond
<1>1. TicksPerSecond \in Nat \ {0}
  BY RelyingPartyAssumption DEF RelyingPartyAssumption
<1> QED
  BY <1>1 DEF WholeSecond

\* A whole number of seconds later the second is that much later, and earlier it is no later.
LEMMA SecondsLater ==
    ASSUME NEW at \in Int, NEW reading \in Int, reading <= at + Leeway
    PROVE  WholeSecond(reading) <= WholeSecond(at) + Leeway
<1>1. TicksPerSecond \in Nat \ {0} /\ Leeway \in Nat /\ Leeway % TicksPerSecond = 0
  BY RelyingPartyAssumption, TokenVerificationAssumption
     DEF RelyingPartyAssumption, TokenVerificationAssumption
<1>2. PICK seconds \in Nat : Leeway = TicksPerSecond * seconds
  BY <1>1
<1>3. PICK q \in Int : q = at \div TicksPerSecond
  BY <1>1
<1>4. at < TicksPerSecond * q + TicksPerSecond
  BY <1>1, <1>3
<1>5. PICK p \in Int : p = reading \div TicksPerSecond
  BY <1>1
<1>6. TicksPerSecond * p <= reading
  BY <1>1, <1>5
<1>7. TicksPerSecond * p < TicksPerSecond * (q + 1 + seconds)
  BY <1>1, <1>2, <1>4, <1>6
<1>8. p < q + 1 + seconds
  BY <1>1, <1>7
<1>9. p <= q + seconds
  BY <1>8
<1>10. TicksPerSecond * p <= TicksPerSecond * (q + seconds)
  BY <1>1, <1>9
<1> QED
  BY <1>1, <1>2, <1>3, <1>5, <1>10 DEF WholeSecond

\* stamp is the second at which the login began, by the clock of the node it began on.
Stamped(pending) ==
    /\ pending.at \in Nat /\ pending.stamp \in Int
    /\ \E node \in Nodes : /\ pending.stamp <= pending.at + SkewOf[node]
                           /\ pending.at + SkewOf[node] < pending.stamp + TicksPerSecond

LEMMA PendingAges ==
    ASSUME NEW pending, Stamped(pending), NEW node \in Nodes, NEW at \in Nat
    PROVE  /\ IsUnexpired(pending, at + SkewOf[node]) => at - pending.at <= PendingMaxAge + Spread
           /\ ~IsUnexpired(pending, at + SkewOf[node]) =>
                 \/ at - pending.at < Spread
                 \/ at - pending.at > PendingMaxAge - Spread - TicksPerSecond + 1
<1>1. PICK first \in Nodes : /\ pending.stamp <= pending.at + SkewOf[first]
                             /\ pending.at + SkewOf[first] < pending.stamp + TicksPerSecond
  BY DEF Stamped
<1>2. pending.at \in Nat /\ pending.stamp \in Int
  BY DEF Stamped
<1>3. PendingMaxAge \in Nat /\ TicksPerSecond \in Nat \ {0}
  BY RelyingPartyAssumption DEF RelyingPartyAssumption
<1>4. /\ SkewOf[first] \in Int /\ 0 - MostBehind <= SkewOf[first] /\ SkewOf[first] <= MostAhead
      /\ SkewOf[node] \in Int /\ 0 - MostBehind <= SkewOf[node] /\ SkewOf[node] <= MostAhead
      /\ MostBehind \in Nat /\ MostAhead \in Nat
  BY ClockBounds
<1> QED
  BY <1>1, <1>2, <1>3, <1>4 DEF IsUnexpired, Spread

-----------------------------------------------------------------------------
(* The exchange of an operation                                            *)

\* Every step of a relying party is a step of one exchange, or none of its business.
LEMMA StepIsExchange ==
    ASSUME [RPNext]_rpVars
    PROVE  [ExchangeNext]_exchangeVars
<1>1. ASSUME NEW operation, NEW for \in {"key-set", "token-request"}, Send(operation, for)
      PROVE  ExchangeNext
  BY <1>1 DEF Send, ExchangeNext
<1>2. CASE LoginStep
  BY <1>1, <1>2 DEF LoginStep, IssueCode, BeginLogin, Callback
<1>3. CASE TokenStep
  BY <1>1, <1>3 DEF TokenStep, Grant, FetchKeySet, Present, VerifyWorkload
<1>4. CASE IssuerAnswers
  BY <1>4 DEF IssuerAnswers
<1>5. CASE HeadArrives
  BY <1>5 DEF HeadArrives, ExchangeNext
<1>6. CASE OnTheWire
  BY <1>6 DEF OnTheWire, ExchangeNext
<1>7. CASE Conclude
  BY <1>7 DEF Conclude, ExchangeNext
<1>8. CASE Tick
  BY <1>8 DEF Tick, ExchangeNext
<1>9. CASE TakeNote
  BY <1>9 DEF TakeNote
<1>10. CASE \E key \in KeyVerdicts : AnswerCall(key)
  BY <1>10 DEF AnswerCall
<1>11. CASE UNCHANGED rpVars
  BY <1>11 DEF rpVars
<1> QED
  BY <1>2, <1>3, <1>4, <1>5, <1>6, <1>7, <1>8, <1>9, <1>10, <1>11 DEF RPNext

-----------------------------------------------------------------------------
(* The operations                                                          *)

BegunOK ==
    /\ begun \in [Logins -> [at : Int, stamp : Int]]
    /\ \A login \in Logins : begun[login] # NoLogin => Stamped(begun[login])

Exchanging == {"login", "refresh", "renew", "workload", "key-set"}

\* The callback of a login that had begun and was not too old for its node's clock.
LoginCalledBack(operation) ==
    /\ operation.node \in Nodes /\ operation.at \in Nat
    /\ operation.login \in Logins /\ begun[operation.login] # NoLogin
    /\ IsUnexpired(begun[operation.login], operation.at + SkewOf[operation.node])

\* started_at is the second of the node's clock at which the grant was sent.
RefreshSent(operation) ==
    /\ operation.node \in Nodes /\ operation.at \in Nat
    /\ operation.startedAt = WholeSecond(operation.at + SkewOf[operation.node])

WorkOK ==
    /\ work.op \in Exchanging \cup {"idle", "service-call"}
    /\ phase # "idle" => work.op \in Exchanging
    /\ work.op = "login" => LoginCalledBack(work)
    /\ work.op = "refresh" => RefreshSent(work)
    /\ work.op = "service-call" => work.workloadVerified \in ServiceReasons \cup {"holds"}

\* The token of a login carries the nonce of the login the code is of.
AnswerOK ==
    /\ work.op \notin Exchanging => answer = Unanswered
    /\ answer.status \notin {"400", "500"} /\ answer.whole =>
          /\ work.op = "login" => answer.token.nonce = work.code
          /\ work.op = "refresh" => answer.token.iat \in Int

LastOK == IdentityOfOwnLogin /\ AgesUnderSkew /\ KindsApart /\ NoForbiddenForUnverified

RPInv == time \in Nat /\ BegunOK /\ WorkOK /\ AnswerOK /\ LastOK

USE DEF Exchanging

LEMMA NothingToNote ==
    ASSUME last' = NoVerdict
    PROVE  LastOK'
  BY DEF LastOK, IdentityOfOwnLogin, AgesUnderSkew, PendingAgeUnderSkew, GroupsOfThisGrant,
         FreshGrantIsNotStale, LogoutCopiesAgeOut, KindsApart, NoForbiddenForUnverified, Held,
         NoVerdict, Idle

LEMMA VerdictStands ==
    ASSUME LastOK, UNCHANGED <<last, begun>>
    PROVE  LastOK'
  BY DEF LastOK, IdentityOfOwnLogin, AgesUnderSkew, PendingAgeUnderSkew, GroupsOfThisGrant,
         FreshGrantIsNotStale, LogoutCopiesAgeOut, KindsApart, NoForbiddenForUnverified, Held

\* A step that is none of the operation's, and adds no login.
LEMMA OperationStands ==
    ASSUME WorkOK, AnswerOK, UNCHANGED <<work, answer, begun>>, phase' # "idle" => phase # "idle"
    PROVE  WorkOK' /\ AnswerOK'
  BY DEF WorkOK, AnswerOK, LoginCalledBack, RefreshSent

LEMMA BegunStands ==
    ASSUME BegunOK, UNCHANGED begun
    PROVE  BegunOK'
  BY DEF BegunOK

-----------------------------------------------------------------------------
(* Each action keeps the invariant                                         *)

LEMMA BeginKeeps ==
    ASSUME RPInv, Ready, NEW login \in Logins, NEW node \in Nodes, BeginLogin(login, node)
    PROVE  RPInv'
<1>1. SkewOf[node] \in Int /\ time \in Nat /\ time + SkewOf[node] \in Int
  BY ClockBounds DEF RPInv
<1>2. PICK stamp \in Int : /\ stamp = WholeSecond(time + SkewOf[node])
                           /\ stamp <= time + SkewOf[node]
                           /\ time + SkewOf[node] < stamp + TicksPerSecond
  BY <1>1, SecondBounds
<1>3. begun' = [begun EXCEPT ![login] = [at |-> time, stamp |-> stamp]]
  BY <1>2 DEF BeginLogin, ClockOf
<1>4. BegunOK'
  <2>1. begun' \in [Logins -> [at : Int, stamp : Int]]
    BY <1>1, <1>3 DEF RPInv, BegunOK
  <2>2. ASSUME NEW other \in Logins, begun'[other] # NoLogin
        PROVE  Stamped(begun'[other])
    <3>1. CASE other = login
      <4>1. begun'[other].at = time /\ begun'[other].stamp = stamp
        BY <1>3, <3>1 DEF RPInv, BegunOK
      <4> QED
        BY <1>1, <1>2, <4>1 DEF Stamped
    <3>2. CASE other # login
      BY <1>3, <2>2, <3>2 DEF RPInv, BegunOK
    <3> QED
      BY <3>1, <3>2
  <2> QED
    BY <2>1, <2>2 DEF BegunOK
<1>5. last' = NoVerdict /\ work' = Idle /\ answer' = answer /\ phase' = phase /\ time' = time
  BY DEF BeginLogin, Ready, exchangeVars
<1>6. LastOK'
  BY <1>5, NothingToNote
<1>7. WorkOK' /\ AnswerOK'
  BY <1>5 DEF RPInv, WorkOK, AnswerOK, Idle, Ready
<1> QED
  BY <1>4, <1>5, <1>6, <1>7 DEF RPInv

\* An operation is sent once nothing is under way.
LEMMA SendKeeps ==
    ASSUME RPInv, Ready, NEW operation, NEW for, Send(operation, for), operation.op \in Exchanging,
           operation.op = "login" => LoginCalledBack(operation),
           operation.op = "refresh" => RefreshSent(operation)
    PROVE  RPInv'
<1>1. /\ work' = operation /\ last' = NoVerdict
      /\ UNCHANGED <<time, begun, answer>>
  BY DEF Send, Ready
<1>2. answer = Unanswered
  BY DEF RPInv, AnswerOK, Ready, Idle
<1>3. WorkOK' /\ AnswerOK'
  BY <1>1, <1>2 DEF WorkOK, AnswerOK, LoginCalledBack, RefreshSent, Unanswered
<1> QED
  BY <1>1, <1>3, BegunStands, NothingToNote DEF RPInv

LEMMA CallbackKeeps ==
    ASSUME RPInv, Ready, NEW login \in Logins, NEW node \in Nodes, NEW query \in Queries,
           Callback(login, node, query)
    PROVE  RPInv'
<1>verdict. PICK verdict : verdict = CallbackVerdict(login, query, ClockOf(node))
  OBVIOUS
<1>operation. PICK operation :
                 operation = [op |-> "login", node |-> node, at |-> time, login |-> login,
                              code |-> query.code]
  OBVIOUS
<1>1. begun[login] # NoLogin /\ time \in Nat /\ Stamped(begun[login])
  BY DEF Callback, RPInv, BegunOK
<1>2. /\ verdict = "pending-login-expired" => ~IsUnexpired(begun[login], time + SkewOf[node])
      /\ verdict \notin {"pending-login-expired", "malformed-callback", "state-mismatch"}
            => IsUnexpired(begun[login], time + SkewOf[node])
  BY <1>verdict, CallbackVerdictTells DEF ClockOf
<1>3. CASE verdict = "holds"
  <2>1. Send(operation, "token-request")
    BY <1>3, <1>verdict, <1>operation DEF Callback
  <2>2. operation.op = "login" /\ LoginCalledBack(operation)
    BY <1>1, <1>2, <1>3, <1>operation DEF LoginCalledBack
  <2> QED
    BY <2>1, <2>2, SendKeeps
<1>4. CASE verdict # "holds"
  <2>1. /\ last' = [of |-> operation, answer |-> Unanswered, verdict |-> verdict]
        /\ UNCHANGED <<time, begun, grant, work, answer, exchangeVars>>
    BY <1>4, <1>verdict, <1>operation DEF Callback
  <2>2. /\ last'.of.op = "login" /\ last'.of.login = login /\ last'.of.at = time
        /\ last'.verdict = verdict
    BY <2>1, <1>operation
  <2>3. PendingAgeUnderSkew'
    BY <1>1, <1>2, <2>1, <2>2, PendingAges DEF PendingAgeUnderSkew, Spread
  <2>4. LastOK'
    BY <1>4, <2>2, <2>3 DEF LastOK, IdentityOfOwnLogin, AgesUnderSkew, GroupsOfThisGrant,
       FreshGrantIsNotStale, LogoutCopiesAgeOut, KindsApart, NoForbiddenForUnverified, Held
  <2> QED
    BY <2>1, <2>4, OperationStands, BegunStands DEF RPInv, exchangeVars
<1> QED
  BY <1>3, <1>4

LEMMA GrantKeeps ==
    ASSUME RPInv, Ready, NEW op \in {"refresh", "renew", "workload"}, NEW node \in Nodes, Grant(op, node)
    PROVE  RPInv'
<1>operation. PICK operation :
                 operation = [op |-> op, node |-> node, at |-> time, startedAt |-> StartedAt(node)]
  OBVIOUS
<1>1. RefreshSent(operation) /\ operation.op = op
  BY <1>operation DEF RefreshSent, StartedAt, ClockOf, RPInv
<1> QED
  BY <1>operation, <1>1, SendKeeps DEF Grant

LEMMA FetchKeeps ==
    ASSUME RPInv, Ready, NEW node \in Nodes, FetchKeySet(node)
    PROVE  RPInv'
  BY SendKeeps DEF FetchKeySet

LEMMA PresentKeeps ==
    ASSUME RPInv, Ready, NEW endpoint \in {"logout", "access", "resource"}, NEW node \in Nodes,
           NEW token \in PresentedNow("endpoint", 0 .. time), NEW key \in KeyVerdicts,
           Present(endpoint, node, token, key)
    PROVE  RPInv'
<1>1. time \in Nat /\ SkewOf[node] \in Int /\ 0 - MostBehind <= SkewOf[node] /\ MostBehind \in Nat
  BY ClockBounds DEF RPInv
<1>2. Leeway \in Nat /\ LogoutMaxAge \in Nat
  BY TokenVerificationAssumption DEF TokenVerificationAssumption
<1>3. token.iat \in Nat /\ (token.signed /\ token.issuer = "own" =>
         /\ token.typ = "logout+jwt" => token.kind = "logout"
         /\ token.typ = "at+jwt" /\ token.audiences = {Client} => token.kind = "access"
         /\ token.typ = "at+jwt" /\ token.audiences = {Resource} => token.kind = "resource")
  <2>1. PICK given \in Presented["endpoint"], at \in 0 .. time : token = Minted(given, at)
    BY DEF PresentedNow
  <2>2. {"iat", "exp"} \subseteq DOMAIN given
    BY <2>1, IssuerAssumption DEF IssuerAssumption
  <2>3. /\ token.iat = at /\ token.signed = given.signed /\ token.typ = given.typ
        /\ token.kind = given.kind /\ token.audiences = given.audiences
        /\ token.issuer = given.issuer
    BY <2>1, <2>2 DEF Minted
  <2> QED
    BY <1>1, <2>1, <2>3, IssuerAssumption DEF IssuerAssumption
<1>verdict. PICK verdict : verdict = EndpointVerdict(endpoint, token, ClockOf(node), key)
  OBVIOUS
<1>4. /\ last'.of.op = endpoint /\ last'.of.at = time /\ last'.of.token = token
      /\ last'.verdict = verdict /\ UNCHANGED <<time, begun, work, answer, exchangeVars>>
  BY <1>verdict DEF Present
<1>5. endpoint = "logout" /\ verdict = "holds" =>
         /\ time - token.iat <= LogoutMaxAge + Leeway + MostBehind
         /\ token.kind = "logout"
  <2>1. endpoint = "logout" /\ verdict = "holds" =>
           /\ token.typ = "logout+jwt" /\ token.signed /\ token.issuer = "own"
           /\ time + SkewOf[node] - token.iat <= LogoutMaxAge + Leeway
    <3> SUFFICES ASSUME endpoint = "logout", verdict = "holds"
                 PROVE  /\ token.typ = "logout+jwt" /\ token.signed /\ token.issuer = "own"
                        /\ time + SkewOf[node] - token.iat <= LogoutMaxAge + Leeway
      OBVIOUS
    <3>now. PICK now : now = time + SkewOf[node]
      OBVIOUS
    <3>1. LogoutVerdict(token, now, key) = "holds"
      BY <1>verdict, <3>now DEF EndpointVerdict, ClockOf
    <3>2. /\ token.typ = "logout+jwt" /\ token.signed /\ token.issuer = "own"
          /\ now - token.iat <= LogoutMaxAge + Leeway
      BY <3>1, LogoutVerdictTells
    <3> QED
      BY <1>1, <1>2, <1>3, <3>2, <3>now
  <2> QED
    BY <1>1, <1>2, <1>3, <2>1
<1>6. endpoint = "access" /\ verdict = "holds" => token.kind = "access"
  BY <1>verdict, <1>3, AccessVerdictTells DEF EndpointVerdict
<1>7. endpoint = "resource" /\ verdict = "holds" => token.kind = "resource"
  BY <1>verdict, <1>3, ResourceVerdictTells DEF EndpointVerdict
<1>8. LastOK'
  BY <1>4, <1>5, <1>6, <1>7 DEF LastOK, IdentityOfOwnLogin, AgesUnderSkew, PendingAgeUnderSkew,
     GroupsOfThisGrant, FreshGrantIsNotStale, LogoutCopiesAgeOut, KindsApart, NoForbiddenForUnverified,
     Held
<1> QED
  BY <1>4, <1>8, OperationStands, BegunStands DEF RPInv, exchangeVars

LEMMA VerifyKeeps ==
    ASSUME RPInv, Ready, NEW node \in Nodes, NEW workload, NEW person, NEW key \in KeyVerdicts,
           VerifyWorkload(node, workload, person, key)
    PROVE  RPInv'
<1>1. /\ work'.op = "service-call"
      /\ work'.workloadVerified = VerifiedForService(workload, ClockOf(node), key)
      /\ last' = NoVerdict /\ UNCHANGED <<time, begun, answer, exchangeVars>>
  BY DEF VerifyWorkload, Ready
<1>2. phase' = "idle" /\ answer = Unanswered
  BY <1>1 DEF exchangeVars, RPInv, WorkOK, AnswerOK, Ready, Idle
<1>3. work'.workloadVerified \in ServiceReasons \cup {"holds"}
  BY <1>1, ServiceVerdicts
<1>4. WorkOK' /\ AnswerOK'
  BY <1>1, <1>2, <1>3 DEF WorkOK, AnswerOK, Unanswered
<1> QED
  BY <1>1, <1>4, NothingToNote, BegunStands DEF RPInv

LEMMA AnswerCallKeeps ==
    ASSUME RPInv, NEW key \in KeyVerdicts, AnswerCall(key)
    PROVE  RPInv'
<1>person. PICK personVerified :
              personVerified = VerifiedForService(work.person, ClockOf(work.node), key)
  OBVIOUS
<1>verdict. PICK verdict :
               verdict = CallerVerdict(work.workload, work.person, work.workloadVerified, personVerified)
  OBVIOUS
<1>1. /\ work.op = "service-call" /\ last'.of = work /\ last'.verdict = verdict
      /\ last'.personVerified = IF work.workloadVerified = "holds" THEN personVerified ELSE "unread"
      /\ work' = Idle /\ UNCHANGED <<time, begun, answer, exchangeVars>>
  BY <1>person, <1>verdict DEF AnswerCall
<1>2. /\ work.workloadVerified \in ServiceReasons \cup {"holds"}
      /\ personVerified \in ServiceReasons \cup {"holds"}
  BY <1>1, <1>person, ServiceVerdicts DEF RPInv, WorkOK
<1>3. RefusalClass(verdict) = "forbidden" =>
         /\ work.workloadVerified = "holds" /\ personVerified = "holds"
         /\ Identified(work.workload) = "holds" /\ Identified(work.person) = "holds"
  <2>1. PICK workload, person, verified :
           workload = work.workload /\ person = work.person /\ verified = work.workloadVerified
    OBVIOUS
  <2>2. verdict = CallerVerdict(workload, person, verified, personVerified)
    BY <1>verdict, <2>1
  <2>3. verified \in ServiceReasons \cup {"holds"} /\ personVerified \in ServiceReasons \cup {"holds"}
    BY <1>2, <2>1
  <2>4. RefusalClass(verdict) = "forbidden" =>
           /\ verified = "holds" /\ personVerified = "holds"
           /\ Identified(workload) = "holds" /\ Identified(person) = "holds"
    BY <2>2, <2>3, ForbiddenIsLast
  <2> QED
    BY <2>1, <2>4
<1>4. NoForbiddenForUnverified'
  BY <1>1, <1>3 DEF NoForbiddenForUnverified
<1>5. LastOK'
  BY <1>1, <1>4 DEF LastOK, IdentityOfOwnLogin, AgesUnderSkew, PendingAgeUnderSkew,
     GroupsOfThisGrant, FreshGrantIsNotStale, LogoutCopiesAgeOut, KindsApart, Held
<1>6. answer = Unanswered /\ phase = "idle"
  BY <1>1 DEF RPInv, WorkOK, AnswerOK
<1>7. WorkOK' /\ AnswerOK'
  BY <1>1, <1>6 DEF WorkOK, AnswerOK, Idle, Unanswered, exchangeVars
<1> QED
  BY <1>1, <1>5, <1>7, BegunStands DEF RPInv

LEMMA IssuerKeeps ==
    ASSUME RPInv, IssuerAnswers
    PROVE  RPInv'
<1>1. PICK given \in Answers \cup FlawedAnswers \cup
                     (IF work.op \in {"renew", "workload", "key-set"}
                      THEN {[status |-> "200", whole |-> TRUE]} ELSE {}) :
         answer' = given
  BY DEF IssuerAnswers
<1>2. phase = "head" /\ UNCHANGED <<time, begun, work, last, exchangeVars>>
  BY DEF IssuerAnswers
<1>3. work.op \in Exchanging
  BY <1>2 DEF RPInv, WorkOK
<1>4. ASSUME work.op = "login", given.status \notin {"400", "500"}, given.whole
      PROVE  given.token.nonce = work.code
  <2>1. given \in Answers
    BY <1>1, <1>4 DEF FlawedAnswers
  <2>2. PICK token \in IdTokens :
           given.token = Minted([token EXCEPT !.nonce = work.code], WholeSecond(time))
    BY <1>4, <2>1 DEF Answers
  <2>3. {"iat", "exp", "nonce"} \subseteq DOMAIN token
    BY IssuerAssumption DEF IssuerAssumption
  <2> QED
    BY <2>2, <2>3 DEF Minted
<1>5. ASSUME work.op = "refresh", given.status \notin {"400", "500"}, given.whole
      PROVE  given.token.iat \in Int
  <2>1. given \in Answers
    BY <1>1, <1>5 DEF FlawedAnswers
  <2>2. PICK token \in IdTokens, at \in 0 .. time : given.token = Minted(token, WholeSecond(at))
    BY <1>5, <2>1 DEF Answers
  <2>3. {"iat", "exp", "nonce"} \subseteq DOMAIN token
    BY IssuerAssumption DEF IssuerAssumption
  <2>4. given.token.iat = WholeSecond(at)
    BY <2>2, <2>3 DEF Minted
  <2> QED
    BY <2>4, SecondBounds DEF RPInv
<1>6. AnswerOK'
  BY <1>1, <1>2, <1>3, <1>4, <1>5 DEF AnswerOK
<1>7. WorkOK'
  BY <1>2 DEF RPInv, WorkOK, LoginCalledBack, RefreshSent, exchangeVars
<1> QED
  BY <1>2, <1>6, <1>7, VerdictStands, BegunStands DEF RPInv

\* A login or a refresh that holds was answered with a whole token, and that token is judged.
LEMMA VerdictOfToken ==
    ASSUME RPInv, NEW now, NEW key \in KeyVerdicts, NEW verdict, verdict = Verdict(now, key)
    PROVE  /\ work.op = "login" /\ verdict = "holds" => work.code = work.login
           /\ work.op = "login" =>
                 verdict \notin {"pending-login-expired", "malformed-callback", "state-mismatch"}
           /\ work.op = "refresh" /\ verdict \in {"holds", "stale-id-token"} =>
                 /\ answer.token.iat \in Int
                 /\ verdict = "holds" <=> answer.token.iat + Leeway >= work.startedAt
<1>1. work.op \in {"login", "refresh"} =>
         \/ verdict \in {"token-endpoint-failed", "token-request-refused"}
         \/ TokenAnswer = "holds"
  BY DEF Verdict, TokenAnswer
<1>2. TokenAnswer = "holds" => answer.status \notin {"400", "500"} /\ answer.whole
  BY DEF TokenAnswer
<1>3. ASSUME work.op = "login", TokenAnswer = "holds"
      PROVE  /\ verdict = "holds" => work.code = work.login
             /\ verdict \notin {"pending-login-expired", "malformed-callback", "state-mismatch"}
  <2>1. verdict = LoginVerdict(answer.token, work.login, now, key)
    BY <1>3 DEF Verdict
  <2>2. answer.token.nonce = work.code
    BY <1>2, <1>3 DEF RPInv, AnswerOK
  <2> QED
    BY <2>1, <2>2, LoginVerdictTells
<1>4. ASSUME work.op = "refresh", TokenAnswer = "holds"
      PROVE  /\ answer.token.iat \in Int
             /\ verdict = "holds" => answer.token.iat + Leeway >= work.startedAt
             /\ verdict = "stale-id-token" => ~(answer.token.iat + Leeway >= work.startedAt)
  <2>1. verdict = RefreshVerdict(answer.token, "person", work.startedAt, now, key)
    BY <1>4 DEF Verdict
  <2>2. answer.token.iat \in Int
    BY <1>2, <1>4 DEF RPInv, AnswerOK
  <2> QED
    BY <2>1, <2>2, RefreshVerdictTells
<1> QED
  BY <1>1, <1>3, <1>4

LEMMA ConcludeKeeps ==
    ASSUME RPInv, Conclude
    PROVE  RPInv'
<1>1. PICK key \in KeyVerdicts :
         last' = [of |-> work, answer |-> answer, verdict |-> Verdict(ClockOf(work.node), key)]
  BY DEF Conclude
<1>verdict. PICK verdict : verdict = Verdict(ClockOf(work.node), key)
  OBVIOUS
<1>2. /\ last'.of = work /\ last'.answer = answer /\ last'.verdict = verdict
      /\ phase # "idle" /\ phase' = "idle" /\ work' = Idle /\ answer' = Unanswered
      /\ UNCHANGED <<time, begun>>
  BY <1>1, <1>verdict DEF Conclude, Return
<1>3. work.op \in Exchanging
  BY <1>2 DEF RPInv, WorkOK
<1>4. IdentityOfOwnLogin'
  BY <1>2, <1>verdict, VerdictOfToken DEF IdentityOfOwnLogin, Held
<1>5. PendingAgeUnderSkew'
  <2> SUFFICES ASSUME work.op = "login"
               PROVE  /\ verdict # "pending-login-expired"
                      /\ work.at - begun[work.login].at <= PendingMaxAge + Spread
    BY <1>2 DEF PendingAgeUnderSkew, Spread
  <2>1. LoginCalledBack(work) /\ Stamped(begun[work.login])
    BY DEF RPInv, WorkOK, BegunOK, LoginCalledBack
  <2> QED
    BY <2>1, <1>verdict, VerdictOfToken, PendingAges DEF LoginCalledBack
<1>6. ASSUME work.op = "refresh", verdict \in {"holds", "stale-id-token"}
      PROVE  /\ verdict = "holds" =>
                    answer.token.iat + Leeway + MostBehind + TicksPerSecond > work.at
             /\ verdict = "stale-id-token" /\ SkewOf[work.node] <= Leeway
                    => answer.token.iat < WholeSecond(work.at)
  <2>1. /\ answer.token.iat \in Int /\ work.node \in Nodes /\ work.at \in Nat
        /\ work.startedAt = WholeSecond(work.at + SkewOf[work.node])
        /\ verdict = "holds" <=> answer.token.iat + Leeway >= work.startedAt
    BY <1>6, <1>verdict, VerdictOfToken DEF RPInv, WorkOK, RefreshSent
  <2>2. PICK iat \in Int, at \in Nat, skew \in Int :
           iat = answer.token.iat /\ at = work.at /\ skew = SkewOf[work.node]
    BY <2>1, ClockBounds
  <2>3. /\ 0 - MostBehind <= skew /\ MostBehind \in Nat /\ Leeway \in Nat
        /\ TicksPerSecond \in Nat \ {0}
    BY <2>1, <2>2, ClockBounds, RelyingPartyAssumption, TokenVerificationAssumption
       DEF RelyingPartyAssumption, TokenVerificationAssumption
  <2>4. PICK started \in Int : /\ started = WholeSecond(at + skew)
                               /\ at + skew < started + TicksPerSecond
    BY SecondBounds, at + skew \in Int
  <2>5. PICK second \in Int : second = WholeSecond(at)
    BY SecondBounds
  <2>6. skew <= Leeway => started <= second + Leeway
    BY <2>3, <2>4, <2>5, SecondsLater
  <2>7. verdict = "holds" <=> iat + Leeway >= started
    BY <2>1, <2>2, <2>4
  <2>8. verdict = "holds" => iat + Leeway + MostBehind + TicksPerSecond > at
    BY <2>3, <2>4, <2>7
  <2>9. verdict = "stale-id-token" /\ skew <= Leeway => iat < second
    BY <2>3, <2>6, <2>7
  <2> QED
    BY <2>2, <2>5, <2>8, <2>9
<1>7. GroupsOfThisGrant' /\ FreshGrantIsNotStale'
  BY <1>2, <1>6 DEF GroupsOfThisGrant, FreshGrantIsNotStale, Held
<1>8. LastOK'
  BY <1>2, <1>3, <1>4, <1>5, <1>7 DEF LastOK, AgesUnderSkew, LogoutCopiesAgeOut, KindsApart,
     NoForbiddenForUnverified, Held
<1>9. WorkOK' /\ AnswerOK'
  BY <1>2 DEF WorkOK, AnswerOK, Idle, Unanswered
<1> QED
  BY <1>2, <1>8, <1>9, BegunStands DEF RPInv

LEMMA RPStepKeeps ==
    ASSUME RPInv, [RPNext]_rpVars
    PROVE  RPInv'
<1>1. CASE Ready /\ LoginStep
  <2>1. ASSUME NEW login \in Logins, IssueCode(login)
        PROVE  RPInv'
    BY <2>1, VerdictStands, OperationStands, BegunStands DEF IssueCode, RPInv, exchangeVars
  <2> QED
    BY <1>1, <2>1, BeginKeeps, CallbackKeeps DEF LoginStep
<1>2. CASE Ready /\ NoLoginBegan /\ TokenStep
  BY <1>2, GrantKeeps, FetchKeeps, PresentKeeps, VerifyKeeps DEF TokenStep
<1>3. CASE \E key \in KeyVerdicts : AnswerCall(key)
  BY <1>3, AnswerCallKeeps
<1>4. CASE IssuerAnswers
  BY <1>4, IssuerKeeps
<1>5. CASE HeadArrives
  <2>1. phase # "idle" /\ UNCHANGED <<time, begun, grant, work, answer, last>>
    BY <1>5 DEF HeadArrives
  <2> QED
    BY <2>1, VerdictStands, OperationStands, BegunStands DEF RPInv
<1>6. CASE OnTheWire
  <2>1. phase # "idle" /\ UNCHANGED <<time, begun, grant, work, answer, last>>
    BY <1>6 DEF OnTheWire, ExchangeStep, Proceed, Trickle, BreakOff, StepTimesOut, ReadBody, Blocking,
       TlsPhases
  <2> QED
    BY <2>1, VerdictStands, OperationStands, BegunStands DEF RPInv
<1>7. CASE Conclude
  BY <1>7, ConcludeKeeps
<1>8. CASE Tick
  <2>1. time' = time + 1 /\ UNCHANGED <<begun, grant, work, answer, last, phase>>
    BY <1>8 DEF Tick, TimePasses
  <2> QED
    BY <2>1, VerdictStands, OperationStands, BegunStands DEF RPInv
<1>9. CASE TakeNote
  BY <1>9, NothingToNote, OperationStands, BegunStands DEF TakeNote, RPInv, exchangeVars
<1>10. CASE UNCHANGED rpVars
  BY <1>10, VerdictStands, OperationStands, BegunStands DEF rpVars, RPInv, exchangeVars
<1> QED
  BY <1>1, <1>2, <1>3, <1>4, <1>5, <1>6, <1>7, <1>8, <1>9, <1>10 DEF RPNext

LEMMA RPInvariance == RPSpec => []RPInv
<1>1. RPInit => RPInv
  <2> SUFFICES ASSUME RPInit
               PROVE  RPInv
    OBVIOUS
  <2>1. BegunOK
    BY DEF RPInit, BegunOK, NoLogin
  <2>2. /\ work.op = "idle" /\ phase = "idle" /\ answer = Unanswered /\ last.of.op = "idle"
        /\ time \in Nat
    BY DEF RPInit, Idle, NoVerdict, ExchangeInit
  <2>3. WorkOK /\ AnswerOK
    BY <2>2 DEF WorkOK, AnswerOK, Unanswered
  <2>4. LastOK
    BY <2>2 DEF LastOK, IdentityOfOwnLogin, AgesUnderSkew, PendingAgeUnderSkew, GroupsOfThisGrant,
       FreshGrantIsNotStale, LogoutCopiesAgeOut, KindsApart, NoForbiddenForUnverified, Held
  <2> QED
    BY <2>1, <2>2, <2>3, <2>4 DEF RPInv
<1> QED
  BY <1>1, RPStepKeeps, PTL DEF RPSpec

-----------------------------------------------------------------------------
(* The theorems                                                            *)

\* Whatever operations a relying party sends, refuses or verifies, what happens on its
\* connection is one exchange after the other (_grant_request, _fetch_key_set).
THEOREM RelyingParty_ExchangeSpec == RPSpec => ExchangeSpec
<1>1. RPInit => ExchangeInit
  BY DEF RPInit
<1> QED
  BY <1>1, StepIsExchange, PTL DEF RPSpec, ExchangeSpec

\* So the bounds of an exchange hold of every exchange a relying party makes.
THEOREM RelyingParty_ExchangeBounded == RPSpec => []ExchangeBounded
  BY RelyingParty_ExchangeSpec, HttpsExchange_ExchangeBounded, PTL

\* Whichever code a callback brings, and if the issuer compares no verifier: _identity
\* yields an identity only for the code of the browser's own login.
THEOREM RelyingParty_IdentityOfOwnLogin == RPSpec => []IdentityOfOwnLogin
<1>1. RPInv => IdentityOfOwnLogin
  BY DEF RPInv, LastOK
<1> QED
  BY <1>1, RPInvariance, PTL

\* For clocks within any bounds of the issuer's: what _is_unexpired,
\* _refreshed_id_token_groups and _is_logout_profile make of an age is right up to the
\* bounds, the leeway and the second the code rounds to.
THEOREM RelyingParty_AgesUnderSkew == RPSpec => []AgesUnderSkew
<1>1. RPInv => AgesUnderSkew
  BY DEF RPInv, LastOK
<1> QED
  BY <1>1, RPInvariance, PTL

\* If the issuer signs no token whose type and audience say another use, no endpoint
\* takes a token of another use (verify_logout_token, verify_access_token,
\* resource_token_verifier).
THEOREM RelyingParty_KindsApart == RPSpec => []KindsApart
<1>1. RPInv => KindsApart
  BY DEF RPInv, LastOK
<1> QED
  BY <1>1, RPInvariance, PTL

\* Whatever the two tokens of a service call are and whatever time and key sets do
\* between them, a 403 says that both were verified and identified (person_caller).
THEOREM RelyingParty_NoForbiddenForUnverified == RPSpec => []NoForbiddenForUnverified
<1>1. RPInv => NoForbiddenForUnverified
  BY DEF RPInv, LastOK
<1> QED
  BY <1>1, RPInvariance, PTL

=============================================================================
