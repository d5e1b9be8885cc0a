--------------------------- MODULE MCRequestStack ---------------------------
(* One app with every layer, a sub-app with gates of its own, a bare sub-app *)
(* and one that runs under another configuration.                            *)
EXTENDS RequestStack

MCApps == {"main", "gated", "bare", "foreign"}
MCConfigOf == [a \in MCApps |-> IF a = "foreign" THEN "config2" ELSE "config1"]

Open == [layers |-> {}, machine |-> {}, machines |-> {}, entry |-> "none", marked |-> {},
         agents |-> {}, person |-> {}, persons |-> {}, csrfExempt |-> {}, public |-> {},
         optional |-> {}, dotted |-> {"/pub/.."}]
Gates == [Open EXCEPT !.layers = {"csrf", "session"}, !.public = {<<"GET", "/pub">>}]
MCPolicy == [a \in MCApps |->
    CASE a = "main" ->
            [Gates EXCEPT !.layers = {"rate", "bearer", "csrf", "session"},
                          !.machine = {"/machine"}, !.machines = {"service"},
                          !.entry = "/resource", !.marked = {<<"POST", "/marked">>},
                          !.agents = {"agent"},
                          !.person = {"/marked", "/person"}, !.persons = {"cli"},
                          !.csrfExempt = {"/hook"}, !.optional = {"/optional"},
                          !.public = {<<"GET", "/pub">>, <<"GET", "/pub/..">>}]
      [] a = "gated" -> Gates
      [] OTHER -> Open]

Token(audience, party, owner, role, scoped) ==
    [audiences |-> {audience}, party |-> party, owner |-> owner, role |-> role, scoped |-> scoped]
MCClaims == [t \in {"cli", "agent", "unscoped", "robot", "stranger"} |->
    CASE t = "cli" -> Token("client", "cli", "ann", "admin", FALSE)
      [] t = "agent" -> Token("resource", "agent", "ann", "admin", TRUE)
      [] t = "unscoped" -> Token("resource", "agent", "ann", "user", FALSE)
      [] t = "robot" -> Token("client", "service", "robot", "admin", FALSE)
      [] OTHER -> Token("client", "cli", "eve", "none", FALSE)]
MCTokens == DOMAIN MCClaims

MCSids == {"s1", "s2", "s3"}
MCSignedUnder == [s \in MCSids |-> IF s = "s2" THEN "config2" ELSE "config1"]
MCSessionPerson == [s \in MCSids |-> Person(IF s = "s1" THEN "bob" ELSE "cyn", "admin", "session")]

MCPaths == {"/machine", "/resource", "/marked", "/person", "/pub", "/pub/..", "/optional", "/hook"}
MCMethods == {"GET", "POST", "websocket"}
MCAuths == MCTokens \cup {"no-header", "two-lines"}
MCCookies == MCSids \cup {"no-session"}
MCSites == {"foreign", "same-origin", "allowed"}
Plain == [app |-> "main", path |-> "/pub", method |-> "GET", auth |-> "no-header",
          cookie |-> "no-session", site |-> "foreign", body |-> 0, declared |-> FALSE]
MCTravelling == {Plain}
Uploads == {[Plain EXCEPT !.path = "/hook", !.method = "POST", !.auth = "robot", !.cookie = "s1",
                          !.body = b, !.declared = d] : b \in {2, 3}, d \in BOOLEAN}
MCAnswered == Uploads
Handshakes == {[Plain EXCEPT !.method = "websocket", !.cookie = c, !.site = o] :
                  c \in {"s1", "s2"}, o \in {"foreign", "allowed"}}
MCRequests == MCTravelling \cup Uploads \cup Handshakes \cup
    {[Plain EXCEPT !.path = p, !.method = m, !.auth = a, !.cookie = "s1", !.site = s] :
        p \in MCPaths, m \in {"GET", "POST"}, s \in {"foreign", "same-origin"},
        a \in MCAuths}
MCRewrites == {<<"auth", "no-header">>, <<"auth", "cli">>, <<"cookie", "s2">>, <<"cookie", "s3">>,
               <<"path", "/person">>, <<"method", "GET">>}

MCBudgetNames == [p \in MCPaths \ {"/machine"} |-> "default"]
MCBodyLimits == [p \in MCPaths |-> 2]

MCAddresses == {"v4", "v4mapped", "v6a", "v6b", "proxy"}
MCCanonical == [a \in MCAddresses |-> IF a = "v4mapped" THEN "v4" ELSE a]
MCPool == [a \in MCAddresses |-> IF a = "v6b" THEN "v6a" ELSE a]
MCWritten == {<<>>, <<<<"v6a">>, <<"v4", Garbage>>>>, <<<<"v4", "proxy">>>>}
=============================================================================
