--------------------------- MODULE MCRelyingParty ---------------------------
EXTENDS RelyingParty, TLC

\* Half a second is a tick.  One clock is half a second behind, the other a second ahead.
MCSkewOf == [node \in Nodes |-> IF node = "behind" THEN 0 - 1 ELSE 2]

MCRegisteredApps == ("caller" :> {"member"})

Token(kind, typ, audiences, azp, nonce) ==
    [kind |-> kind, header |-> "good", typ |-> typ, signed |-> TRUE, payload |-> "good",
     issuer |-> "own", audiences |-> audiences, azp |-> azp,
     clientId |-> azp, sub |-> "person", nonce |-> nonce, events |-> FALSE, scoped |-> FALSE,
     groups |-> "member", workload |-> FALSE, iat |-> 0, exp |-> 0]

IdToken == Token("id", "JWT", {"app"}, Absent, Absent)
AppToken == Token("access", "at+jwt", {"app"}, "agent", Absent)
AgentToken == [Token("resource", "at+jwt", {"resource"}, "agent", Absent) EXCEPT !.scoped = TRUE]
LogoutToken == [Token("logout", "logout+jwt", {"app"}, Absent, Absent) EXCEPT !.events = TRUE]
PersonToken == Token("person", "at+jwt", {"service", "app"}, "caller", Absent)
WorkloadToken ==
    [PersonToken EXCEPT !.kind = "workload", !.sub = "service account", !.workload = TRUE]

\* What the issuer answers a login or a refresh with.
MCIdTokens ==
    {IdToken, [IdToken EXCEPT !.azp = "other"],
     [IdToken EXCEPT !.sub = "somebody else", !.groups = "malformed"]}

MCPresented ==
    [endpoint |-> {[IdToken EXCEPT !.azp = "app"], AppToken, AgentToken, LogoutToken,
                   [AppToken EXCEPT !.audiences = {"app", "service"}],
                   [LogoutToken EXCEPT !.signed = FALSE], [LogoutToken EXCEPT !.payload = "incomplete"],
                   [AppToken EXCEPT !.kind = "other", !.issuer = "other"], AgentToken @@ ("nbf" :> 4)},
     workload |-> {WorkloadToken, PersonToken, [WorkloadToken EXCEPT !.azp = "stranger"],
                   [WorkloadToken EXCEPT !.groups = "malformed"],
                   [WorkloadToken EXCEPT !.typ = "absent"], [WorkloadToken EXCEPT !.header = "malformed"]},
     person |-> {PersonToken, WorkloadToken, [PersonToken EXCEPT !.azp = "stranger"],
                 [PersonToken EXCEPT !.groups = "outsider"], [PersonToken EXCEPT !.sub = Absent]}]

=============================================================================
