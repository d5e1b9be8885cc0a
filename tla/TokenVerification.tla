------------------------- MODULE TokenVerification -------------------------
(***************************************************************************)
(* What the library makes of a token: the JWT checks                       *)
(* (jwt_verification._JwtVerifier.verify), and on top of them the profiles *)
(* of an ID token, a logout token and an access token                      *)
(* (oidc._relying_party) and of the two tokens of a service call           *)
(* (service_callers).  Every check is a refusal reason or "holds", in the  *)
(* order of the code, and the first refusal is the answer.                 *)
(***************************************************************************)
EXTENDS Integers

CONSTANTS
    Client, Resource, Service,  \* the audiences of the three verifiers
    Parties, Agents,            \* AuthorizedParties of a gate's paths and of the resource
    RegisteredApps,             \* of each workload client id, the groups its admission admits
    Leeway,                     \* leeway_seconds
    LogoutMaxAge,               \* _LOGOUT_TOKEN_MAX_AGE_SECONDS
    Absent                      \* a claim the token does not carry

ASSUME TokenVerificationAssumption == Leeway \in Nat /\ LogoutMaxAge \in Nat

Check(ok, reason) == IF ok THEN "holds" ELSE reason

\* The first of the checks that refuses (First has them evaluated once).
FirstRefusal(checks) ==
    LET First[list \in {checks}] ==
            LET refusals == {i \in DOMAIN list : list[i] # "holds"} IN
            IF refusals = {} THEN "holds" ELSE list[CHOOSE i \in refusals : \A j \in refusals : i <= j]
    IN  First[checks]

AnyType == {"JWT", "at+jwt", "logout+jwt"}

\* What _header_key_id and _signing_key make of a token's kid and the cached key
\* set (KeySetCache), which may change between two verifications.
KeyVerdicts == {"holds", "invalid-key-id", "key-set-unavailable", "unknown-key-id"}

\* _verified_claims, before it asks for a key: length, header, algorithm and type
HeaderVerdict(token, types) ==
    FirstRefusal(<<Check(token.header # "too-long", "token-too-long"),
                   Check(token.header # "malformed", "malformed-token"),
                   Check(token.header # "other-algorithm", "unsupported-algorithm"),
                   Check(token.typ \in types, "invalid-token-type")>>)

\* _verified_payload; what is checked inside jwt.decode is external, its order too.
PayloadVerdict(token, audience) ==
    FirstRefusal(<<Check(token.signed, "invalid-signature"),
                   Check(token.payload # "malformed", "malformed-token"),
                   Check(token.payload # "incomplete", "invalid-claim"),
                   Check(token.issuer = "own", "invalid-issuer"),
                   Check(audience \in token.audiences, "invalid-audience")>>)

\* _checked_time_claims: a token may come without nbf.
TimeVerdict(token, now) ==
    FirstRefusal(<<Check(token.payload # "times-malformed", "invalid-claim"),
                   Check(now < token.exp + Leeway, "expired"),
                   Check(token.iat <= now + Leeway, "issued-in-future"),
                   Check("nbf" \in DOMAIN token => token.nbf <= now + Leeway, "not-yet-valid")>>)

\* Mutant: the type of a token is not looked at.
VerifiedWhateverType(token, audience, types, now, key) ==
    FirstRefusal(<<HeaderVerdict(token, {token.typ}), key, PayloadVerdict(token, audience),
                   TimeVerdict(token, now), Check(token.sub # "malformed", "invalid-claim")>>)

\* _verified_claims; signed is whether the key it found fits.
Verified(token, audience, types, now, key) ==
    FirstRefusal(<<HeaderVerdict(token, types), key, PayloadVerdict(token, audience),
                   TimeVerdict(token, now), Check(token.sub # "malformed", "invalid-claim")>>)

-----------------------------------------------------------------------------
\* The relying party's profiles.

\* _is_authorized_party
IsAuthorizedParty(token) ==
    IF token.azp = Absent THEN token.audiences = {Client} ELSE token.azp = Client

\* Mutant: the nonce is not compared.
LoginVerdictWithoutNonce(token, nonce, now, key) ==
    FirstRefusal(<<Verified(token, Client, AnyType, now, key),
                   Check(IsAuthorizedParty(token), "authorized-party-mismatch"),
                   Check(token.sub # Absent /\ token.groups # "malformed", "invalid-identity-claim")>>)

\* _identity after the exchange, and _identity_of
LoginVerdict(token, nonce, now, key) ==
    FirstRefusal(<<Verified(token, Client, AnyType, now, key),
                   Check(token.nonce = nonce, "nonce-mismatch"),
                   Check(IsAuthorizedParty(token), "authorized-party-mismatch"),
                   Check(token.sub # Absent /\ token.groups # "malformed", "invalid-identity-claim")>>)

\* _refreshed_id_token_groups
RefreshVerdict(token, subject, startedAt, now, key) ==
    FirstRefusal(<<Verified(token, Client, AnyType, now, key),
                   Check(token.nonce = Absent, "nonce-mismatch"),
                   Check(IsAuthorizedParty(token), "authorized-party-mismatch"),
                   Check(token.sub = subject, "subject-mismatch"),
                   Check(token.iat + Leeway >= startedAt, "stale-id-token"),
                   Check(token.groups # "malformed", "invalid-identity-claim")>>)

\* _is_logout_profile
IsLogoutProfile(token, now) ==
    /\ token.audiences = {Client}
    /\ now - token.iat <= LogoutMaxAge + Leeway
    /\ token.exp > token.iat
    /\ token.nonce = Absent
    /\ token.events

\* verify_logout_token
LogoutVerdict(token, now, key) ==
    FirstRefusal(<<Verified(token, Client, {"logout+jwt"}, now, key),
                   Check(IsLogoutProfile(token, now) /\ token.sub # Absent, "invalid-logout-claim")>>)

\* _access_token_profile
AccessProfile(token, parties, audience) ==
    FirstRefusal(<<Check(token.sub # Absent /\ token.audiences = {audience}, "invalid-access-claim"),
                   Check(token.azp \in parties, "authorized-party-mismatch"),
                   Check(token.groups # "malformed", "invalid-access-claim")>>)

\* verify_access_token
AccessVerdict(token, now, key) ==
    FirstRefusal(<<Verified(token, Client, {"at+jwt"}, now, key),
                   AccessProfile(token, Parties, Client)>>)

\* resource_token_verifier
ResourceVerdict(token, now, key) ==
    FirstRefusal(<<Verified(token, Resource, {"at+jwt"}, now, key),
                   AccessProfile(token, Agents, Resource),
                   Check(token.scoped, "insufficient-scope")>>)

-----------------------------------------------------------------------------
\* The two tokens of a service call.

\* ServiceCallerCheck._verified, _verifier_refusal
VerifiedForService(token, now, key) ==
    LET verdict == Verified(token, Service, AnyType, now, key) IN
    IF token.typ = "absent" THEN "missing-token"
    ELSE IF verdict \in {"holds", "key-set-unavailable"} THEN verdict ELSE "token-rejected"

\* _identified
Identified(token) ==
    FirstRefusal(<<Check(token.sub # Absent, "invalid-subject"),
                   Check(token.groups # "malformed", "malformed-groups")>>)

\* _workload
Workload(token) ==
    FirstRefusal(<<Check(token.workload, "not-a-workload"),
                   Check(token.azp # Absent /\ token.clientId = token.azp, "unbound-client"),
                   Check(token.azp \in DOMAIN RegisteredApps, "unregistered-client")>>)

\* Mutant: the workload is judged before the person's token.
CallerVerdictWorkloadFirst(workload, person, workloadVerified, personVerified) ==
    FirstRefusal(<<workloadVerified, Identified(workload), Workload(workload), personVerified,
                   Identified(person)>>)

\* person_caller
CallerVerdict(workload, person, workloadVerified, personVerified) ==
    FirstRefusal(<<workloadVerified, personVerified, Identified(workload), Identified(person),
                   Workload(workload),
                   Check(person.azp = workload.azp, "client-mismatch"),
                   Check(person.sub # workload.sub, "same-subject"),
                   Check(/\ workload.azp \in DOMAIN RegisteredApps
                         /\ person.groups \in RegisteredApps[workload.azp], "not-a-member")>>)

\* refusal_class
RefusalClass(reason) ==
    CASE reason = "key-set-unavailable" -> "unavailable"
      [] reason \in {"missing-token", "token-rejected", "invalid-subject", "malformed-groups"} ->
            "unauthenticated"
      [] OTHER -> "forbidden"

=============================================================================
