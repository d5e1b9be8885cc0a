-------------------------- MODULE FreshTokenProofs --------------------------
(***************************************************************************)
(* fresh_access_token and current_groups for any number of callers,        *)
(* sessions and refresh tokens: a call that ends well answers for a        *)
(* session that stood after the grant, and no interleaving of two calls    *)
(* strands a session on a refresh token the issuer has revoked.            *)
(***************************************************************************)
EXTENDS FreshToken, TLAPS

-----------------------------------------------------------------------------
\* The inductive invariant.

Steps == {"idle", "load", "judge", "grant", "reload", "rejudge", "replace"}
AnyToken == Tokens \cup {NoToken}
AnyRow == Row \cup {NoRow}

TypeOK ==
    /\ time \in Nat
    /\ rows \in [Sids -> AnyRow] /\ ended \subseteq Sids /\ dropped \subseteq Sids
    /\ minted \subseteq Tokens /\ honoured \subseteq minted
    /\ pc \in [Callers -> Steps] /\ op \in [Callers -> {"token", "groups"}]
    /\ sid \in [Callers -> Sids \cup {NoSid}]
    /\ sent \in [Callers -> AnyToken] /\ rotated \in [Callers -> AnyToken]
    /\ seen \in [Callers -> AnyRow]
    /\ groupsHold \in [Callers -> BOOLEAN] /\ stood \in [Callers -> BOOLEAN]
    /\ answer \in [Callers -> Answers]

\* What a call holds at each of its steps.
LocalsOf(c) ==
    /\ pc[c] # "idle" => sid[c] \in Sids /\ (Stored(sid[c]) \/ sid[c] \in ended)
    /\ pc[c] = "idle" => sid[c] = NoSid
    /\ pc[c] \in {"idle", "load"} => seen[c] = NoRow
    /\ pc[c] \in {"idle", "load", "judge"} => sent[c] = NoToken
    /\ pc[c] \in {"idle", "load", "judge", "grant"} => rotated[c] = NoToken
    /\ pc[c] = "grant" => sent[c] # NoToken
    /\ pc[c] = "replace" => Rotated(c)

LocalsInv == \A c \in Callers : LocalsOf(c)

EndedInv == \A s \in ended : ~Stored(s)

TokenOf(row) == IF row = NoRow THEN NoToken ELSE row.token

\* Only tokens the issuer has handed out are about.
MintedOf(c) == {sent[c], rotated[c], TokenOf(seen[c])} \subseteq minted \cup {NoToken}

MintedInv ==
    /\ \A s \in Sids : TokenOf(rows[s]) \in minted \cup {NoToken}
    /\ \A c \in Callers : MintedOf(c)

\* A refresh token belongs to one session.
BelongsInv ==
    \A s \in Sids : TokenOf(rows[s]) # NoToken =>
        /\ \A other \in Sids \ {s} : TokenOf(rows[other]) # TokenOf(rows[s])
        /\ \A c \in Callers : sid[c] # s => TokenOf(rows[s]) \notin {sent[c], TokenOf(seen[c])}

\* A token a call has been given and not stored yet is honoured, and only that call has it.
RotationOf(c) ==
    Rotated(c) =>
        /\ rotated[c] \in honoured
        /\ \A s \in Sids : TokenOf(rows[s]) # rotated[c]
        /\ \A d \in Callers : rotated[c] \notin {sent[d], TokenOf(seen[d])}
        /\ \A d \in Callers \ {c} : rotated[d] # rotated[c]

RotationInv == \A c \in Callers : RotationOf(c)

\* By one clock a row is never ahead of its time.
Timely(row) ==
    row # NoRow => /\ row.created <= time /\ row.expires <= time + IdleSeconds
                   /\ row.expires - row.created <= AbsoluteMaxAgeSeconds

TimelyInv == (\A s \in Sids : Timely(rows[s])) /\ (\A c \in Callers : Timely(seen[c]))

\* A session that stands still stood when the issuer answered.
StoodOf(c) ==
    /\ pc[c] = "reload" /\ Stands(rows[sid[c]]) => stood[c]
    /\ pc[c] = "rejudge" /\ Stands(seen[c]) => stood[c]
    /\ pc[c] = "replace" => stood[c]

StoodInv == \A c \in Callers : StoodOf(c)

FreshInv ==
    /\ TypeOK /\ LocalsInv /\ EndedInv /\ MintedInv /\ BelongsInv /\ RotationInv
    /\ TimelyInv /\ StoodInv

-----------------------------------------------------------------------------
\* The rows.

LEMMA RenewedExpiryBounds ==
    ASSUME NEW now \in Nat, NEW created \in Nat, created <= now
    PROVE  /\ RenewedExpiry(now, created) \in Int
           /\ RenewedExpiry(now, created) <= now + IdleSeconds
           /\ RenewedExpiry(now, created) - created <= AbsoluteMaxAgeSeconds
<1>1. IdleSeconds \in Nat /\ AbsoluteMaxAgeSeconds \in Nat
  BY LifetimeAssumption DEF LifetimeAssumption
<1> QED
  BY <1>1 DEF RenewedExpiry, Lesser

\* Of a timely row the clock asks only whether it has expired.
LEMMA TimelyStands ==
    ASSUME time \in Nat, NEW row \in AnyRow, Timely(row)
    PROVE  Stands(row) <=> row # NoRow /\ time <= row.expires
<1>1. ExpiryTolerance \in Nat /\ IdleSeconds \in Nat /\ AbsoluteMaxAgeSeconds \in Nat
  BY LifetimeAssumption DEF LifetimeAssumption
<1>2. CASE row = NoRow
  BY <1>2 DEF Stands
<1>3. CASE row # NoRow
  <2>1. row.created \in Nat /\ row.expires \in Int
    BY <1>3 DEF AnyRow, Row
  <2>2. /\ row.created <= time /\ row.expires <= time + IdleSeconds
        /\ row.expires - row.created <= AbsoluteMaxAgeSeconds
    BY <1>3 DEF Timely
  <2>3. row.created <= time + ExpiryTolerance /\ row.expires - time <= IdleSeconds + ExpiryTolerance
    BY <1>1, <2>1, <2>2
  <2> QED
    BY <1>3, <2>2, <2>3 DEF Stands, IsAdmitted
<1> QED
  BY <1>2, <1>3

LEMMA RowWithToken ==
    ASSUME NEW row \in Row, NEW token \in AnyToken
    PROVE  /\ [row EXCEPT !.token = token] \in Row
           /\ [row EXCEPT !.token = token] # NoRow
           /\ [row EXCEPT !.token = token].token = token
           /\ [row EXCEPT !.token = token].created = row.created
           /\ [row EXCEPT !.token = token].expires = row.expires
<1>1. [row EXCEPT !.token = token] \in Row
  BY DEF Row, AnyToken
<1> QED
  BY <1>1, FreshTokenAssumption DEF FreshTokenAssumption, Row

LEMMA StoredRow ==
    ASSUME TypeOK, NEW s \in Sids, Stored(s)
    PROVE  rows[s] \in Row /\ TokenOf(rows[s]) = rows[s].token
  BY DEF TypeOK, AnyRow, Stored, TokenOf

-----------------------------------------------------------------------------
\* The calls: a step of one leaves the others where they are.

Others(c) ==
    \A d \in Callers \ {c} :
        /\ pc'[d] = pc[d] /\ sid'[d] = sid[d] /\ sent'[d] = sent[d] /\ rotated'[d] = rotated[d]
        /\ seen'[d] = seen[d] /\ stood'[d] = stood[d] /\ (Rotated(d)' <=> Rotated(d))

Returned(c) ==
    /\ pc'[c] = "idle" /\ sid'[c] = NoSid /\ sent'[c] = NoToken /\ rotated'[c] = NoToken
    /\ seen'[c] = NoRow /\ ~Rotated(c)'

LocalTypes ==
    /\ pc \in [Callers -> Steps] /\ op \in [Callers -> {"token", "groups"}]
    /\ sid \in [Callers -> Sids \cup {NoSid}]
    /\ sent \in [Callers -> AnyToken] /\ rotated \in [Callers -> AnyToken]
    /\ seen \in [Callers -> AnyRow]
    /\ groupsHold \in [Callers -> BOOLEAN] /\ stood \in [Callers -> BOOLEAN]
    /\ answer \in [Callers -> Answers]

LEMMA ReturnEffect ==
    ASSUME TypeOK, NEW c \in Callers, NEW outcome \in Answers, Return(c, outcome)
    PROVE  Others(c) /\ Returned(c) /\ LocalTypes'
<1>1. LocalTypes
  BY DEF TypeOK, LocalTypes
<1>2. /\ pc' = [pc EXCEPT ![c] = "idle"] /\ answer' = [answer EXCEPT ![c] = outcome]
      /\ sid' = [sid EXCEPT ![c] = NoSid] /\ sent' = [sent EXCEPT ![c] = NoToken]
      /\ rotated' = [rotated EXCEPT ![c] = NoToken] /\ seen' = [seen EXCEPT ![c] = NoRow]
      /\ groupsHold' = [groupsHold EXCEPT ![c] = TRUE] /\ stood' = [stood EXCEPT ![c] = FALSE]
      /\ op' = op
  BY DEF Return, Goto
<1>3. LocalTypes'
  BY <1>1, <1>2 DEF LocalTypes, Steps, AnyToken, AnyRow
<1>4. Others(c)
  BY <1>1, <1>2 DEF LocalTypes, Others, Rotated
<1>5. Returned(c)
  BY <1>1, <1>2 DEF LocalTypes, Returned, Rotated
<1> QED
  BY <1>3, <1>4, <1>5

LEMMA HandOutEffect ==
    ASSUME TypeOK, NEW c \in Callers, HandOut(c)
    PROVE  Others(c) /\ Returned(c) /\ LocalTypes'
<1>1. (IF groupsHold[c] THEN "handed-out" ELSE "issuer-unavailable") \in Answers
  BY DEF Answers
<1> QED
  BY <1>1, ReturnEffect DEF HandOut

\* A step of one call, with the store as it was: the others' part of the invariant
\* stays, its own is the step's to show.
LEMMA CallKeeps ==
    ASSUME FreshInv, NEW c \in Callers, Others(c), UNCHANGED <<time, rows, ended>>,
           minted \subseteq minted', \A t \in honoured : t \in honoured' \/ t = sent[c],
           LocalsOf(c)', MintedOf(c)', RotationOf(c)', Timely(seen[c])', StoodOf(c)',
           \A s \in Sids : sid'[c] # s /\ TokenOf(rows[s]) # NoToken =>
               TokenOf(rows[s]) \notin {sent'[c], TokenOf(seen'[c])},
           \A d \in Callers \ {c} : Rotated(d) =>
               rotated[d] \notin {sent'[c], TokenOf(seen'[c]), rotated'[c]}
    PROVE  /\ LocalsInv' /\ EndedInv' /\ MintedInv' /\ BelongsInv' /\ RotationInv'
           /\ TimelyInv' /\ StoodInv'
<1> USE DEF FreshInv
<1>1. ASSUME NEW d \in Callers, d # c
      PROVE  /\ LocalsOf(d)' /\ MintedOf(d)' /\ Timely(seen[d])' /\ StoodOf(d)'
  <2>1. /\ pc'[d] = pc[d] /\ sid'[d] = sid[d] /\ sent'[d] = sent[d] /\ rotated'[d] = rotated[d]
        /\ seen'[d] = seen[d] /\ stood'[d] = stood[d] /\ (Rotated(d)' <=> Rotated(d))
    BY <1>1 DEF Others
  <2>2. LocalsOf(d)'
    BY <2>1 DEF LocalsInv, LocalsOf, Stored
  <2>3. MintedOf(d)'
    BY <2>1 DEF MintedInv, MintedOf, TokenOf
  <2>4. Timely(seen[d])'
    BY <2>1 DEF TimelyInv, Timely
  <2>5. StoodOf(d)'
    BY <2>1 DEF StoodInv, StoodOf, Stands
  <2> QED
    BY <2>2, <2>3, <2>4, <2>5
<1>2. LocalsInv' /\ StoodInv'
  BY <1>1 DEF LocalsInv, StoodInv
<1>3. EndedInv'
  BY DEF EndedInv, Stored
<1>4. MintedInv'
  <2>1. \A s \in Sids : TokenOf(rows[s])' \in minted' \cup {NoToken}
    BY DEF MintedInv, TokenOf
  <2> QED
    BY <1>1, <2>1 DEF MintedInv
<1>5. TimelyInv'
  BY <1>1 DEF TimelyInv, Timely
<1>6. BelongsInv'
  <2> SUFFICES ASSUME NEW s \in Sids, TokenOf(rows[s]) # NoToken
               PROVE  /\ \A other \in Sids \ {s} : TokenOf(rows[other]) # TokenOf(rows[s])
                      /\ \A d \in Callers : sid'[d] # s =>
                            TokenOf(rows[s]) \notin {sent'[d], TokenOf(seen'[d])}
    BY DEF BelongsInv, TokenOf
  <2>1. \A other \in Sids \ {s} : TokenOf(rows[other]) # TokenOf(rows[s])
    BY DEF BelongsInv
  <2>2. ASSUME NEW d \in Callers, sid'[d] # s
        PROVE  TokenOf(rows[s]) \notin {sent'[d], TokenOf(seen'[d])}
    <3>1. CASE d = c
      BY <2>2, <3>1
    <3>2. CASE d # c
      BY <2>2, <3>2 DEF Others, BelongsInv
    <3> QED
      BY <3>1, <3>2
  <2> QED
    BY <2>1, <2>2
<1>7. RotationInv'
  <2> SUFFICES ASSUME NEW d \in Callers, d # c, Rotated(d)'
               PROVE  /\ rotated'[d] \in honoured'
                      /\ \A s \in Sids : TokenOf(rows[s]) # rotated'[d]
                      /\ \A e \in Callers : rotated'[d] \notin {sent'[e], TokenOf(seen'[e])}
                      /\ \A e \in Callers \ {d} : rotated'[e] # rotated'[d]
    BY DEF RotationInv, RotationOf, TokenOf
  <2>1. rotated'[d] = rotated[d] /\ Rotated(d)
    BY DEF Others
  <2>2. /\ rotated[d] \in honoured
        /\ \A s \in Sids : TokenOf(rows[s]) # rotated[d]
        /\ \A e \in Callers : rotated[d] \notin {sent[e], TokenOf(seen[e])}
        /\ \A e \in Callers \ {d} : rotated[e] # rotated[d]
    BY <2>1 DEF RotationInv, RotationOf
  <2>3. ASSUME NEW e \in Callers
        PROVE  /\ rotated[d] \notin {sent'[e], TokenOf(seen'[e])}
               /\ e # d => rotated'[e] # rotated[d]
    <3>1. CASE e = c
      BY <2>1, <3>1
    <3>2. CASE e # c
      BY <2>2, <3>2 DEF Others
    <3> QED
      BY <3>1, <3>2
  <2> QED
    BY <2>1, <2>2, <2>3
<1> QED
  BY <1>2, <1>3, <1>4, <1>5, <1>6, <1>7

\* A call that returns takes nothing with it: the store is as it was, and the issuer
\* may only have revoked the token the call had sent.
LEMMA ReturnKeeps ==
    ASSUME FreshInv, NEW c \in Callers, Others(c), Returned(c), UNCHANGED <<time, rows, ended>>,
           minted \subseteq minted', \A t \in honoured : t \in honoured' \/ t = sent[c]
    PROVE  /\ LocalsInv' /\ EndedInv' /\ MintedInv' /\ BelongsInv' /\ RotationInv'
           /\ TimelyInv' /\ StoodInv'
<1>1. LocalsOf(c)' /\ RotationOf(c)' /\ StoodOf(c)'
  BY DEF Returned, LocalsOf, RotationOf, StoodOf
<1>2. MintedOf(c)' /\ Timely(seen[c])' /\ TokenOf(seen'[c]) = NoToken
  BY DEF Returned, MintedOf, Timely, TokenOf
<1>3. \A d \in Callers : Rotated(d) => rotated[d] # NoToken
  BY DEF Rotated
<1> QED
  BY <1>1, <1>2, <1>3, CallKeeps DEF Returned

\* The call that was given a token stores it and returns: replace_refresh_token.
Stores(c) == Stored(sid[c]) /\ rows' = [rows EXCEPT ![sid[c]].token = rotated[c]]

LEMMA StoresEffect ==
    ASSUME TypeOK, NEW c \in Callers, sid[c] \in Sids, Stores(c)
    PROVE  /\ rows' \in [Sids -> AnyRow]
           /\ \A s \in Sids \ {sid[c]} : rows'[s] = rows[s]
           /\ rows'[sid[c]] # NoRow /\ rows'[sid[c]].token = rotated[c]
           /\ TokenOf(rows'[sid[c]]) = rotated[c]
           /\ \A s \in Sids :
                 /\ rows'[s] # NoRow <=> rows[s] # NoRow
                 /\ rows'[s] # NoRow => /\ rows'[s].created = rows[s].created
                                        /\ rows'[s].expires = rows[s].expires
<1>1. rows \in [Sids -> AnyRow] /\ rows[sid[c]] \in Row /\ rotated[c] \in AnyToken
  BY StoredRow DEF TypeOK, Stores
<1>2. rows' = [rows EXCEPT ![sid[c]] = [rows[sid[c]] EXCEPT !.token = rotated[c]]]
  BY DEF Stores
<1>3. /\ rows'[sid[c]] = [rows[sid[c]] EXCEPT !.token = rotated[c]]
      /\ \A s \in Sids \ {sid[c]} : rows'[s] = rows[s]
  BY <1>1, <1>2
<1>4. /\ rows'[sid[c]] \in Row /\ rows'[sid[c]] # NoRow
      /\ rows'[sid[c]].token = rotated[c]
      /\ rows'[sid[c]].created = rows[sid[c]].created
      /\ rows'[sid[c]].expires = rows[sid[c]].expires
  BY <1>1, <1>3, RowWithToken
<1>5. rows' \in [Sids -> AnyRow]
  BY <1>1, <1>2, <1>4 DEF AnyRow
<1>6. TokenOf(rows'[sid[c]]) = rotated[c]
  BY <1>4 DEF TokenOf
<1>7. rows[sid[c]] # NoRow
  BY DEF Stores, Stored
<1> QED
  BY <1>3, <1>4, <1>5, <1>6, <1>7

LEMMA StoresKeeps ==
    ASSUME FreshInv, NEW c \in Callers, Rotated(c), sid[c] \in Sids, Stores(c),
           Others(c), Returned(c), UNCHANGED <<time, ended, minted, honoured>>
    PROVE  /\ LocalsInv' /\ EndedInv' /\ MintedInv' /\ BelongsInv' /\ RotationInv'
           /\ TimelyInv' /\ StoodInv'
<1> USE DEF FreshInv
<1> DEFINE stored == sid[c]
           new == rotated[c]
<1>1. /\ \A s \in Sids \ {stored} : rows'[s] = rows[s]
      /\ TokenOf(rows'[stored]) = new
      /\ \A s \in Sids : /\ rows'[s] # NoRow <=> rows[s] # NoRow
                         /\ rows'[s] # NoRow => /\ rows'[s].created = rows[s].created
                                                /\ rows'[s].expires = rows[s].expires
  BY StoresEffect
<1>2. /\ new # NoToken /\ new \in honoured
      /\ \A s \in Sids : TokenOf(rows[s]) # new
      /\ \A d \in Callers : new \notin {sent[d], TokenOf(seen[d])}
      /\ \A d \in Callers \ {c} : rotated[d] # new
  BY DEF RotationInv, RotationOf, Rotated
<1>3. \A d \in Callers : /\ TokenOf(seen'[d]) = IF d = c THEN NoToken ELSE TokenOf(seen[d])
                         /\ TokenOf(seen[d])' = TokenOf(seen'[d])
  BY DEF Returned, Others, TokenOf
<1>4. \A s \in Sids : /\ Stored(s)' <=> Stored(s)
                      /\ TokenOf(rows[s])' = TokenOf(rows'[s])
  BY <1>1 DEF Stored, TokenOf
<1>5. LocalsInv' /\ EndedInv'
  <2>1. EndedInv'
    BY <1>4 DEF EndedInv, TypeOK
  <2>2. ASSUME NEW d \in Callers PROVE LocalsOf(d)'
    <3>1. CASE d = c
      BY <3>1 DEF Returned, LocalsOf
    <3>2. CASE d # c
      BY <1>1, <3>2 DEF Others, LocalsInv, LocalsOf, Stored
    <3> QED
      BY <3>1, <3>2
  <2> QED
    BY <2>1, <2>2 DEF LocalsInv
<1>6. MintedInv'
  <2>1. new \in minted
    BY <1>2 DEF TypeOK
  <2>2. \A s \in Sids : TokenOf(rows'[s]) \in minted \cup {NoToken}
    BY <1>1, <2>1 DEF MintedInv
  <2>3. \A d \in Callers : {sent'[d], rotated'[d], TokenOf(seen'[d])} \subseteq minted \cup {NoToken}
    BY <1>3 DEF MintedInv, MintedOf, Others, Returned
  <2> QED
    BY <1>3, <1>4, <2>2, <2>3 DEF MintedInv, MintedOf
<1>7. BelongsInv'
  <2> SUFFICES ASSUME NEW s \in Sids, TokenOf(rows'[s]) # NoToken
               PROVE  /\ \A other \in Sids \ {s} : TokenOf(rows'[other]) # TokenOf(rows'[s])
                      /\ \A d \in Callers : sid'[d] # s =>
                            TokenOf(rows'[s]) \notin {sent'[d], TokenOf(seen'[d])}
    BY <1>3, <1>4 DEF BelongsInv
  <2>1. \A other \in Sids \ {s} : TokenOf(rows'[other]) # TokenOf(rows'[s])
    BY <1>1, <1>2 DEF BelongsInv
  <2>2. ASSUME NEW d \in Callers, sid'[d] # s
        PROVE  TokenOf(rows'[s]) \notin {sent'[d], TokenOf(seen'[d])}
    <3>1. CASE d = c
      BY <1>3, <3>1 DEF Returned
    <3>2. CASE d # c /\ s = stored
      BY <1>1, <1>2, <1>3, <3>2 DEF Others
    <3>3. CASE d # c /\ s # stored
      BY <1>1, <1>3, <2>2, <3>3 DEF Others, BelongsInv
    <3> QED
      BY <3>1, <3>2, <3>3
  <2> QED
    BY <2>1, <2>2
<1>8. RotationInv'
  <2> SUFFICES ASSUME NEW d \in Callers, Rotated(d)'
               PROVE  /\ rotated'[d] \in honoured
                      /\ \A s \in Sids : TokenOf(rows'[s]) # rotated'[d]
                      /\ \A e \in Callers : rotated'[d] \notin {sent'[e], TokenOf(seen'[e])}
                      /\ \A e \in Callers \ {d} : rotated'[e] # rotated'[d]
    BY <1>3, <1>4 DEF RotationInv, RotationOf
  <2>1. d # c /\ rotated'[d] = rotated[d] /\ Rotated(d)
    BY DEF Returned, Others
  <2>2. /\ rotated[d] \in honoured /\ rotated[d] # NoToken
        /\ \A s \in Sids : TokenOf(rows[s]) # rotated[d]
        /\ \A e \in Callers : rotated[d] \notin {sent[e], TokenOf(seen[e])}
        /\ \A e \in Callers \ {d} : rotated[e] # rotated[d]
    BY <2>1 DEF RotationInv, RotationOf, Rotated
  <2>3. \A s \in Sids : TokenOf(rows'[s]) # rotated[d]
    BY <1>1, <2>1, <2>2
  <2>4. ASSUME NEW e \in Callers
        PROVE  /\ rotated[d] \notin {sent'[e], TokenOf(seen'[e])}
               /\ e # d => rotated'[e] # rotated[d]
    BY <1>3, <2>2 DEF Returned, Others
  <2> QED
    BY <2>1, <2>2, <2>3, <2>4
<1>9. TimelyInv'
  <2>1. \A s \in Sids : Timely(rows[s])'
    BY <1>1 DEF TimelyInv, Timely
  <2>2. ASSUME NEW d \in Callers PROVE Timely(seen[d])'
    <3>1. CASE d = c
      BY <3>1 DEF Returned, Timely
    <3>2. CASE d # c
      BY <3>2 DEF Others, TimelyInv, Timely
    <3> QED
      BY <3>1, <3>2
  <2> QED
    BY <2>1, <2>2 DEF TimelyInv
<1>10. StoodInv'
  <2>1. \A s \in Sids : Stands(rows[s])' <=> Stands(rows[s])
    BY <1>1 DEF Stands, IsAdmitted
  <2>2. ASSUME NEW d \in Callers PROVE StoodOf(d)'
    <3>1. CASE d = c
      BY <3>1 DEF Returned, StoodOf
    <3>2. CASE d # c
      <4>1. /\ pc'[d] = pc[d] /\ sid'[d] = sid[d] /\ seen'[d] = seen[d] /\ stood'[d] = stood[d]
        BY <3>2 DEF Others
      <4>2. pc[d] = "reload" => sid[d] \in Sids
        BY DEF LocalsInv, LocalsOf
      <4>3. Stands(seen[d])' <=> Stands(seen[d])
        BY <4>1 DEF Stands
      <4>4. pc[d] = "reload" => (Stands(rows[sid[d]])' <=> Stands(rows[sid[d]]))
        BY <2>1, <4>1, <4>2
      <4> QED
        BY <4>1, <4>3, <4>4 DEF StoodInv, StoodOf
    <3> QED
      BY <3>1, <3>2
  <2> QED
    BY <2>2 DEF StoodInv
<1> QED
  BY <1>5, <1>6, <1>7, <1>8, <1>9, <1>10

-----------------------------------------------------------------------------
\* The steps of a call.

\* The grant the issuer serves: it may revoke what it was sent, and what it mints is new.
LEMMA ServeEffect ==
    ASSUME TypeOK, NEW c \in Callers, sent[c] \in minted \cup {NoToken}, sent[c] # NoToken,
           NEW new \in AnyToken, Serve(c, new)
    PROVE  /\ minted \subseteq minted' /\ minted' \subseteq Tokens /\ honoured' \subseteq minted'
           /\ \A t \in honoured : t \in honoured' \/ t = sent[c]
           /\ new \in minted' \cup {NoToken}
           /\ new \notin {NoToken, sent[c]} => new \in honoured' /\ new \notin minted
<1>1. CASE new \in {NoToken, sent[c]} /\ UNCHANGED issuer
  BY <1>1 DEF TypeOK, issuer
<1>2. CASE /\ new \in Tokens \ minted
           /\ minted' = minted \cup {new}
           /\ \E revoked \in SUBSET {sent[c]} : honoured' = (honoured \cup {new}) \ revoked
  <2>1. PICK revoked \in SUBSET {sent[c]} : honoured' = (honoured \cup {new}) \ revoked
    BY <1>2
  <2> QED
    BY <1>2, <2>1 DEF TypeOK
<1> QED
  BY <1>1, <1>2 DEF Serve

LEMMA CallingKeeps ==
    ASSUME FreshInv, NEW c \in Callers, Call(c)
    PROVE  FreshInv'
<1> USE DEF FreshInv
<1>1. /\ pc[c] = "idle" /\ pc' = [pc EXCEPT ![c] = "load"]
      /\ answer' = [answer EXCEPT ![c] = "none"]
      /\ UNCHANGED <<time, rows, ended, minted, honoured, sent, rotated, seen, groupsHold, stood,
                     dropped>>
  BY DEF Call, Goto, session, issuer
<1>2. PICK s \in Sids : (Stored(s) \/ s \in ended) /\ sid' = [sid EXCEPT ![c] = s]
  BY DEF Call
<1>3. PICK wanted \in {"token", "groups"} : op' = [op EXCEPT ![c] = wanted]
  BY DEF Call
<1>4. TypeOK'
  BY <1>1, <1>2, <1>3 DEF TypeOK, Steps, Answers
<1>5. Others(c)
  BY <1>1, <1>2 DEF TypeOK, Others, Rotated
<1>6. /\ pc'[c] = "load" /\ sid'[c] = s /\ seen'[c] = NoRow
      /\ sent'[c] = NoToken /\ rotated'[c] = NoToken
  BY <1>1, <1>2 DEF TypeOK, LocalsInv, LocalsOf
<1>7. LocalsOf(c)' /\ RotationOf(c)' /\ StoodOf(c)'
  BY <1>1, <1>2, <1>6 DEF LocalsOf, RotationOf, StoodOf, Stored, Rotated
<1>8. MintedOf(c)' /\ Timely(seen[c])' /\ TokenOf(seen'[c]) = NoToken
  BY <1>6 DEF MintedOf, Timely, TokenOf
<1>9. \A d \in Callers : Rotated(d) => rotated[d] # NoToken
  BY DEF Rotated
<1> QED
  BY <1>1, <1>4, <1>5, <1>6, <1>7, <1>8, <1>9, CallKeeps

LEMMA LoadKeeps ==
    ASSUME FreshInv, NEW c \in Callers, Load(c)
    PROVE  FreshInv'
<1> USE DEF FreshInv
<1> DEFINE next == IF pc[c] = "load" THEN "judge" ELSE "rejudge"
<1>1. /\ pc[c] \in {"load", "reload"} /\ pc' = [pc EXCEPT ![c] = next]
      /\ seen' = [seen EXCEPT ![c] = rows[sid[c]]]
      /\ UNCHANGED <<time, rows, ended, minted, honoured, op, sid, sent, rotated, groupsHold, answer,
                     stood, dropped>>
  BY DEF Load, Goto, session, issuer
<1>2. sid[c] \in Sids /\ (Stored(sid[c]) \/ sid[c] \in ended)
  BY <1>1 DEF LocalsInv, LocalsOf
<1>3. rows[sid[c]] \in AnyRow
  BY <1>2 DEF TypeOK
<1>4. TypeOK'
  BY <1>1, <1>3 DEF TypeOK, Steps
<1>5. Others(c)
  BY <1>1 DEF TypeOK, Others, Rotated
<1>6. /\ pc'[c] = next /\ seen'[c] = rows[sid[c]]
      /\ sid'[c] = sid[c] /\ sent'[c] = sent[c] /\ rotated'[c] = rotated[c] /\ stood'[c] = stood[c]
      /\ Rotated(c)' <=> Rotated(c)
  BY <1>1 DEF TypeOK, Rotated
<1>7. LocalsOf(c)'
  BY <1>1, <1>2, <1>6 DEF LocalsInv, LocalsOf, Stored
<1>8. MintedOf(c)' /\ Timely(seen[c])'
  BY <1>1, <1>2, <1>6 DEF MintedInv, MintedOf, TimelyInv, Timely, TokenOf
<1>9. StoodOf(c)'
  BY <1>1, <1>6 DEF StoodInv, StoodOf, Stands
<1>10. TokenOf(seen'[c]) = TokenOf(rows[sid[c]]) /\ \A d \in Callers : TokenOf(seen[d])' = TokenOf(seen'[d])
  BY <1>6 DEF TokenOf
<1>11. \A s \in Sids : sid'[c] # s /\ TokenOf(rows[s]) # NoToken =>
               TokenOf(rows[s]) \notin {sent'[c], TokenOf(seen'[c])}
  BY <1>2, <1>6, <1>10 DEF BelongsInv
<1>12. \A d \in Callers : Rotated(d) =>
               /\ rotated[d] \notin {sent'[c], TokenOf(seen'[c])}
               /\ d # c => rotated[d] # rotated'[c]
  BY <1>2, <1>6, <1>10 DEF RotationInv, RotationOf
<1>13. RotationOf(c)'
  <2> SUFFICES ASSUME Rotated(c)
               PROVE  /\ rotated[c] \in honoured
                      /\ \A s \in Sids : TokenOf(rows[s]) # rotated[c]
                      /\ \A d \in Callers : rotated[c] \notin {sent'[d], TokenOf(seen'[d])}
                      /\ \A d \in Callers \ {c} : rotated'[d] # rotated[c]
    BY <1>1, <1>6, <1>10 DEF RotationOf, TokenOf
  <2>1. /\ rotated[c] \in honoured
        /\ \A s \in Sids : TokenOf(rows[s]) # rotated[c]
        /\ \A d \in Callers : rotated[c] \notin {sent[d], TokenOf(seen[d])}
        /\ \A d \in Callers \ {c} : rotated[d] # rotated[c]
    BY DEF RotationInv, RotationOf
  <2>2. \A d \in Callers : rotated[c] \notin {sent'[d], TokenOf(seen'[d])}
    BY <1>5, <1>12, <2>1 DEF Others
  <2> QED
    BY <1>1, <2>1, <2>2
<1>14. minted \subseteq minted' /\ \A t \in honoured : t \in honoured' \/ t = sent[c]
  BY <1>1
<1>15. UNCHANGED <<time, rows, ended>>
  BY <1>1
<1>16. \A d \in Callers \ {c} : Rotated(d) =>
               rotated[d] \notin {sent'[c], TokenOf(seen'[c]), rotated'[c]}
  BY <1>12
<1> QED
  BY <1>4, <1>5, <1>7, <1>8, <1>9, <1>11, <1>13, <1>14, <1>15, <1>16, CallKeeps

\* A return, in whatever step, with the store and the issuer as they were.
LEMMA QuietReturnKeeps ==
    ASSUME FreshInv, NEW c \in Callers, Others(c), Returned(c), LocalTypes',
           UNCHANGED <<time, rows, ended, minted, honoured>>, dropped' \subseteq Sids
    PROVE  FreshInv'
<1>1. TypeOK'
  BY DEF FreshInv, TypeOK, LocalTypes
<1> QED
  BY <1>1, ReturnKeeps DEF FreshInv

LEMMA DropEffect ==
    ASSUME FreshInv, NEW c \in Callers, pc[c] # "idle", NEW drops, Drop(c, drops)
    PROVE  dropped \subseteq dropped' /\ dropped' \subseteq Sids /\ (drops => sid[c] \in dropped')
  BY DEF FreshInv, TypeOK, LocalsInv, LocalsOf, Drop

LEMMA JudgeKeeps ==
    ASSUME FreshInv, NEW c \in Callers, Judge(c)
    PROVE  FreshInv'
<1> USE DEF FreshInv
<1>1. pc[c] = "judge" /\ UNCHANGED <<time, rows, ended, minted, honoured, dropped>>
  BY DEF Judge, session, issuer
<1>2. CASE Return(c, "session-ended") \/ Return(c, "sign-in-again")
  <2>1. Others(c) /\ Returned(c) /\ LocalTypes'
    BY <1>2, ReturnEffect DEF Answers
  <2> QED
    BY <1>1, <2>1, QuietReturnKeeps DEF TypeOK
<1>3. CASE /\ Stands(seen[c]) /\ seen[c].token # NoToken
           /\ sent' = [sent EXCEPT ![c] = seen[c].token]
           /\ Goto(c, "grant")
           /\ UNCHANGED <<op, sid, rotated, seen, groupsHold, answer, stood>>
  <2>1. seen[c] \in Row /\ TokenOf(seen[c]) = seen[c].token /\ seen[c].token \in AnyToken
    BY <1>3 DEF TypeOK, AnyRow, AnyToken, Stands, TokenOf, Row
  <2>2. pc' = [pc EXCEPT ![c] = "grant"]
    BY <1>3 DEF Goto
  <2>3. TypeOK'
    BY <1>1, <1>3, <2>1, <2>2 DEF TypeOK, Steps
  <2>4. /\ pc'[c] = "grant" /\ sent'[c] = TokenOf(seen[c]) /\ sent'[c] # NoToken
        /\ sid'[c] = sid[c] /\ seen'[c] = seen[c] /\ rotated'[c] = NoToken
    BY <1>1, <1>3, <2>1, <2>2 DEF TypeOK, LocalsInv, LocalsOf
  <2>5. Others(c)
    BY <1>3, <2>2 DEF TypeOK, Others, Rotated
  <2>6. LocalsOf(c)' /\ RotationOf(c)' /\ StoodOf(c)'
    BY <1>1, <2>4 DEF LocalsInv, LocalsOf, RotationOf, StoodOf, Stored, Rotated
  <2>7. MintedOf(c)' /\ Timely(seen[c])' /\ TokenOf(seen'[c]) = TokenOf(seen[c])
    BY <1>1, <2>4 DEF MintedInv, MintedOf, TimelyInv, Timely, TokenOf
  <2>8. \A s \in Sids : sid'[c] # s /\ TokenOf(rows[s]) # NoToken =>
               TokenOf(rows[s]) \notin {sent'[c], TokenOf(seen'[c])}
    BY <2>4 DEF BelongsInv
  <2>9. \A d \in Callers \ {c} : Rotated(d) =>
               rotated[d] \notin {sent'[c], TokenOf(seen'[c]), rotated'[c]}
    BY <2>4 DEF RotationInv, RotationOf, Rotated
  <2> QED
    BY <1>1, <2>3, <2>5, <2>6, <2>7, <2>8, <2>9, CallKeeps
<1> QED
  BY <1>2, <1>3 DEF Judge

\* The token that arrives is of this call alone until it is stored.
LEMMA GrantAnsweredKeeps ==
    ASSUME FreshInv, NEW c \in Callers, GrantAnswered(c)
    PROVE  FreshInv'
<1> USE DEF FreshInv
<1>1. /\ pc[c] = "grant" /\ pc' = [pc EXCEPT ![c] = "reload"]
      /\ stood' = [stood EXCEPT ![c] = Stands(rows[sid[c]])]
      /\ UNCHANGED <<time, rows, ended, op, sid, sent, seen, answer, dropped>>
  BY DEF GrantAnswered, Goto, session
<1>2. PICK new \in AnyToken, hold \in BOOLEAN :
          /\ Serve(c, new) /\ rotated' = [rotated EXCEPT ![c] = new]
          /\ groupsHold' = [groupsHold EXCEPT ![c] = hold]
  BY DEF GrantAnswered, AnyToken
<1>3. sent[c] # NoToken /\ sent[c] \in minted \cup {NoToken} /\ sid[c] \in Sids
  BY <1>1 DEF LocalsInv, LocalsOf, MintedInv, MintedOf
<1>4. /\ minted \subseteq minted' /\ minted' \subseteq Tokens /\ honoured' \subseteq minted'
      /\ \A t \in honoured : t \in honoured' \/ t = sent[c]
      /\ new \in minted' \cup {NoToken}
      /\ new \notin {NoToken, sent[c]} => new \in honoured' /\ new \notin minted
  BY <1>2, <1>3, ServeEffect
<1>5. Stands(rows[sid[c]]) \in BOOLEAN
  BY DEF Stands, IsAdmitted
<1>6. TypeOK'
  BY <1>1, <1>2, <1>4, <1>5 DEF TypeOK, Steps
<1>7. Others(c)
  BY <1>1, <1>2 DEF TypeOK, Others, Rotated
<1>8. /\ pc'[c] = "reload" /\ rotated'[c] = new /\ stood'[c] = Stands(rows[sid[c]])
      /\ sid'[c] = sid[c] /\ sent'[c] = sent[c] /\ seen'[c] = seen[c]
      /\ Rotated(c)' <=> new \notin {NoToken, sent[c]}
  BY <1>1, <1>2 DEF TypeOK, Rotated
<1>9. LocalsOf(c)' /\ StoodOf(c)'
  BY <1>1, <1>8 DEF LocalsInv, LocalsOf, StoodOf, Stored, Stands
<1>10. MintedOf(c)' /\ Timely(seen[c])' /\ \A d \in Callers : TokenOf(seen[d])' = TokenOf(seen[d])
  BY <1>1, <1>4, <1>8 DEF MintedInv, MintedOf, TimelyInv, Timely, TokenOf
<1>11. \A s \in Sids : sid'[c] # s /\ TokenOf(rows[s]) # NoToken =>
               TokenOf(rows[s]) \notin {sent'[c], TokenOf(seen'[c])}
  BY <1>1, <1>8 DEF BelongsInv
<1>12. \A d \in Callers \ {c} : Rotated(d) =>
               rotated[d] \notin {sent'[c], TokenOf(seen'[c]), rotated'[c]}
  <2> SUFFICES ASSUME NEW d \in Callers \ {c}, Rotated(d)
               PROVE  rotated[d] \notin {sent[c], TokenOf(seen[c]), new}
    BY <1>1, <1>8
  <2>1. /\ rotated[d] \notin {sent[c], TokenOf(seen[c])} /\ rotated[d] \in honoured
        /\ rotated[d] # NoToken
    BY DEF RotationInv, RotationOf, Rotated
  <2>2. rotated[d] \in minted
    BY <2>1 DEF TypeOK
  <2> QED
    BY <1>4, <2>1, <2>2
<1>13. RotationOf(c)'
  <2> SUFFICES ASSUME new \notin {NoToken, sent[c]}
               PROVE  /\ new \in honoured'
                      /\ \A s \in Sids : TokenOf(rows[s]) # new
                      /\ \A d \in Callers : new \notin {sent[d], TokenOf(seen[d])}
                      /\ \A d \in Callers \ {c} : rotated'[d] # new
    BY <1>1, <1>8, <1>10 DEF RotationOf, TokenOf
  <2>1. new \in honoured' /\ new \notin minted \cup {NoToken}
    BY <1>4
  <2>2. \A s \in Sids : TokenOf(rows[s]) # new
    BY <2>1 DEF MintedInv
  <2>3. \A d \in Callers : new \notin {sent[d], TokenOf(seen[d]), rotated[d]}
    BY <2>1 DEF MintedInv, MintedOf
  <2> QED
    BY <1>7, <2>1, <2>2, <2>3 DEF Others
<1>14. UNCHANGED <<time, rows, ended>>
  BY <1>1
<1> QED
  BY <1>4, <1>6, <1>7, <1>9, <1>10, <1>11, <1>12, <1>13, <1>14, CallKeeps

LEMMA GrantLostKeeps ==
    ASSUME FreshInv, NEW c \in Callers, GrantLost(c)
    PROVE  FreshInv'
<1> USE DEF FreshInv
<1>1. pc[c] = "grant" /\ UNCHANGED <<time, rows, ended>> /\ Return(c, "issuer-unavailable")
  BY DEF GrantLost, session
<1>2. PICK new \in AnyToken : Serve(c, new) /\ Drop(c, new \notin {NoToken, sent[c]})
  BY DEF GrantLost, AnyToken
<1>3. sent[c] # NoToken /\ sent[c] \in minted \cup {NoToken}
  BY <1>1 DEF LocalsInv, LocalsOf, MintedInv, MintedOf
<1>4. /\ minted \subseteq minted' /\ minted' \subseteq Tokens /\ honoured' \subseteq minted'
      /\ \A t \in honoured : t \in honoured' \/ t = sent[c]
  BY <1>2, <1>3, ServeEffect
<1>5. Others(c) /\ Returned(c) /\ LocalTypes'
  BY <1>1, ReturnEffect DEF Answers
<1>6. dropped' \subseteq Sids
  BY <1>1, <1>2, DropEffect
<1>7. TypeOK'
  BY <1>1, <1>4, <1>5, <1>6 DEF TypeOK, LocalTypes
<1> QED
  BY <1>1, <1>4, <1>5, <1>7, ReturnKeeps

LEMMA GrantRefusedKeeps ==
    ASSUME FreshInv, NEW c \in Callers, GrantRefused(c)
    PROVE  FreshInv'
<1>1. UNCHANGED <<time, rows, ended, minted, honoured, dropped>>
  BY DEF GrantRefused, session, issuer
<1>2. Others(c) /\ Returned(c) /\ LocalTypes'
  BY ReturnEffect DEF GrantRefused, Answers, FreshInv
<1> QED
  BY <1>1, <1>2, QuietReturnKeeps DEF FreshInv, TypeOK

\* What the second look at the session may come to.
LEMMA RejudgeEffect ==
    ASSUME FreshInv, NEW c \in Callers, Rejudge(c)
    PROVE  /\ pc[c] = "rejudge" /\ UNCHANGED <<time, rows, ended, minted, honoured>>
           /\ \/ Return(c, "session-ended") /\ Drop(c, Rotated(c))
              \/ Stands(seen[c]) /\ ~Rotated(c) /\ HandOut(c) /\ UNCHANGED dropped
              \/ /\ Stands(seen[c]) /\ Rotated(c) /\ pc' = [pc EXCEPT ![c] = "replace"]
                 /\ UNCHANGED <<op, sid, sent, rotated, seen, groupsHold, answer, stood, dropped>>
<1>1. pc[c] = "rejudge" /\ UNCHANGED <<time, rows, ended, minted, honoured>>
  BY DEF Rejudge, session, issuer
<1>2. CASE ~Stands(seen[c])
  BY <1>1, <1>2 DEF Rejudge
<1>3. CASE Stands(seen[c]) /\ ~Rotated(c)
  BY <1>1, <1>3 DEF Rejudge
<1>4. CASE Stands(seen[c]) /\ Rotated(c)
  BY <1>1, <1>4 DEF Rejudge, Goto, locals
<1> QED
  BY <1>1, <1>2, <1>3, <1>4

LEMMA RejudgeKeeps ==
    ASSUME FreshInv, NEW c \in Callers, Rejudge(c)
    PROVE  FreshInv'
<1> USE DEF FreshInv
<1>1. pc[c] = "rejudge" /\ UNCHANGED <<time, rows, ended, minted, honoured>>
  BY RejudgeEffect
<1>2. CASE Return(c, "session-ended") /\ Drop(c, Rotated(c))
  <2>1. Others(c) /\ Returned(c) /\ LocalTypes' /\ dropped' \subseteq Sids
    BY <1>1, <1>2, ReturnEffect, DropEffect DEF Answers
  <2> QED
    BY <1>1, <2>1, QuietReturnKeeps
<1>3. CASE HandOut(c) /\ UNCHANGED dropped
  <2>1. Others(c) /\ Returned(c) /\ LocalTypes' /\ dropped' \subseteq Sids
    BY <1>3, HandOutEffect DEF TypeOK
  <2> QED
    BY <1>1, <2>1, QuietReturnKeeps
<1>4. CASE /\ Stands(seen[c]) /\ Rotated(c) /\ pc' = [pc EXCEPT ![c] = "replace"]
           /\ UNCHANGED <<op, sid, sent, rotated, seen, groupsHold, answer, stood, dropped>>
  <2>1. TypeOK'
    BY <1>1, <1>4 DEF TypeOK, Steps
  <2>2. Others(c)
    BY <1>4 DEF TypeOK, Others, Rotated
  <2>3. pc'[c] = "replace" /\ (Rotated(c)' <=> Rotated(c))
    BY <1>4 DEF TypeOK, Rotated
  <2>4. LocalsOf(c)' /\ StoodOf(c)'
    BY <1>1, <1>4, <2>3 DEF LocalsInv, LocalsOf, StoodInv, StoodOf, Stored
  <2>5. RotationOf(c)' /\ MintedOf(c)' /\ Timely(seen[c])'
    BY <1>1, <1>4 DEF RotationInv, RotationOf, Rotated, MintedInv, MintedOf, TimelyInv, Timely, TokenOf
  <2>6. \A s \in Sids : sid'[c] # s /\ TokenOf(rows[s]) # NoToken =>
               TokenOf(rows[s]) \notin {sent'[c], TokenOf(seen'[c])}
    BY <1>4 DEF BelongsInv
  <2>7. \A d \in Callers \ {c} : Rotated(d) =>
               rotated[d] \notin {sent'[c], TokenOf(seen'[c]), rotated'[c]}
    BY <1>4 DEF RotationInv, RotationOf
  <2> QED
    BY <1>1, <2>1, <2>2, <2>4, <2>5, <2>6, <2>7, CallKeeps
<1> QED
  BY <1>2, <1>3, <1>4, RejudgeEffect

LEMMA StoreReturnKeeps ==
    ASSUME FreshInv, NEW c \in Callers, Rotated(c), sid[c] \in Sids, Stores(c),
           Others(c), Returned(c), LocalTypes',
           UNCHANGED <<time, ended, minted, honoured>>, dropped' \subseteq Sids
    PROVE  FreshInv'
<1>1. rows' \in [Sids -> AnyRow]
  BY StoresEffect DEF FreshInv
<1>2. TypeOK'
  BY <1>1 DEF FreshInv, TypeOK, LocalTypes
<1> QED
  BY <1>2, StoresKeeps DEF FreshInv

LEMMA ReplaceKeeps ==
    ASSUME FreshInv, NEW c \in Callers, Replace(c)
    PROVE  FreshInv'
<1>1. /\ pc[c] = "replace" /\ UNCHANGED <<time, ended, minted, honoured, dropped>>
      /\ \/ Stores(c) /\ HandOut(c)
         \/ UNCHANGED rows /\ Return(c, "session-ended")
  BY DEF Replace, Stores, issuer
<1>2. Rotated(c) /\ sid[c] \in Sids /\ dropped' \subseteq Sids
  BY <1>1 DEF FreshInv, LocalsInv, LocalsOf, TypeOK
<1>3. Others(c) /\ Returned(c) /\ LocalTypes'
  BY <1>1, ReturnEffect, HandOutEffect DEF FreshInv, Answers
<1> QED
  BY <1>1, <1>2, <1>3, StoreReturnKeeps, QuietReturnKeeps

LEMMA FailEffect ==
    ASSUME FreshInv, NEW c \in Callers, Fail(c)
    PROVE  /\ pc[c] # "idle" /\ UNCHANGED <<time, ended, minted, honoured>>
           /\ Return(c, "failed") /\ Drop(c, Rotated(c)) /\ sid[c] \in Sids
           /\ UNCHANGED rows \/ (Rotated(c) /\ Stores(c))
  BY DEF Fail, issuer, Stores, FreshInv, LocalsInv, LocalsOf

LEMMA FailKeeps ==
    ASSUME FreshInv, NEW c \in Callers, Fail(c)
    PROVE  FreshInv'
<1>1. /\ pc[c] # "idle" /\ UNCHANGED <<time, ended, minted, honoured>>
      /\ Return(c, "failed") /\ Drop(c, Rotated(c)) /\ sid[c] \in Sids
      /\ UNCHANGED rows \/ (Rotated(c) /\ Stores(c))
  BY FailEffect
<1>2. dropped' \subseteq Sids
  BY <1>1, DropEffect
<1>3. Others(c) /\ Returned(c) /\ LocalTypes'
  BY <1>1, ReturnEffect DEF FreshInv, Answers
<1> QED
  BY <1>1, <1>2, <1>3, StoreReturnKeeps, QuietReturnKeeps

-----------------------------------------------------------------------------
\* The steps beside the calls.

\* A step that touches one row: its token is new or what it was, or the row is gone.
LEMMA RowStepKeeps ==
    ASSUME FreshInv, NEW s \in Sids, NEW row \in AnyRow, rows' = [rows EXCEPT ![s] = row],
           UNCHANGED <<time, pc, locals, stood>>,
           minted \subseteq minted', honoured \subseteq honoured', ended \subseteq ended',
           TokenOf(row) \in {NoToken, TokenOf(rows[s])} \cup (minted' \ minted),
           Timely(row),
           \A e \in ended' : rows'[e] = NoRow,
           \A c \in Callers : sid[c] = s =>
               /\ row # NoRow \/ s \in ended'
               /\ pc[c] = "reload" /\ Stands(row) => stood[c]
    PROVE  /\ LocalsInv' /\ EndedInv' /\ MintedInv' /\ BelongsInv' /\ RotationInv'
           /\ TimelyInv' /\ StoodInv'
<1> USE DEF FreshInv
<1>1. /\ rows'[s] = row /\ \A r \in Sids \ {s} : rows'[r] = rows[r]
      /\ UNCHANGED <<time, pc, op, sid, sent, rotated, seen, groupsHold, stood>>
  BY DEF TypeOK, locals
<1>2. /\ \A r \in Sids : TokenOf(rows[r])' = IF r = s THEN TokenOf(row) ELSE TokenOf(rows[r])
      /\ \A c \in Callers : TokenOf(seen[c])' = TokenOf(seen[c]) /\ (Rotated(c)' <=> Rotated(c))
  BY <1>1 DEF TokenOf, Rotated
<1>3. EndedInv'
  BY DEF EndedInv, Stored
<1>4. LocalsInv'
  <2> SUFFICES ASSUME NEW c \in Callers PROVE LocalsOf(c)'
    BY DEF LocalsInv
  <2>1. LocalsOf(c)
    BY DEF LocalsInv
  <2>2. CASE sid[c] = s
    BY <1>1, <1>2, <2>1, <2>2 DEF LocalsOf, Stored
  <2>3. CASE sid[c] # s
    BY <1>1, <1>2, <2>1, <2>3 DEF LocalsOf, Stored
  <2> QED
    BY <2>2, <2>3
<1>5. MintedInv'
  BY <1>1, <1>2 DEF MintedInv, MintedOf
<1>6. BelongsInv'
  <2> SUFFICES ASSUME NEW r \in Sids, TokenOf(rows[r])' # NoToken
               PROVE  /\ \A other \in Sids \ {r} : TokenOf(rows[other])' # TokenOf(rows[r])'
                      /\ \A c \in Callers : sid[c] # r =>
                            TokenOf(rows[r])' \notin {sent[c], TokenOf(seen[c])}
    BY <1>1, <1>2 DEF BelongsInv
  <2>1. CASE TokenOf(row) \in {NoToken, TokenOf(rows[s])}
    BY <1>2, <2>1 DEF BelongsInv
  <2>2. CASE TokenOf(row) \in minted' \ minted /\ TokenOf(row) # NoToken
    BY <1>2, <2>2 DEF BelongsInv, MintedInv, MintedOf
  <2> QED
    BY <2>1, <2>2
<1>7. RotationInv'
  <2> SUFFICES ASSUME NEW c \in Callers, Rotated(c)
               PROVE  /\ rotated[c] \in honoured'
                      /\ \A r \in Sids : TokenOf(rows[r])' # rotated[c]
                      /\ \A d \in Callers : rotated[c] \notin {sent[d], TokenOf(seen[d])}
                      /\ \A d \in Callers \ {c} : rotated[d] # rotated[c]
    BY <1>1, <1>2 DEF RotationInv, RotationOf
  <2>1. /\ rotated[c] \in honoured /\ rotated[c] # NoToken
        /\ \A r \in Sids : TokenOf(rows[r]) # rotated[c]
        /\ \A d \in Callers : rotated[c] \notin {sent[d], TokenOf(seen[d])}
        /\ \A d \in Callers \ {c} : rotated[d] # rotated[c]
    BY DEF RotationInv, RotationOf, Rotated
  <2>2. rotated[c] \in minted
    BY <2>1 DEF TypeOK
  <2>3. TokenOf(row) # rotated[c]
    BY <2>1, <2>2
  <2> QED
    BY <1>2, <2>1, <2>3
<1>8. TimelyInv'
  BY <1>1 DEF TimelyInv, Timely
<1>9. StoodInv'
  <2> SUFFICES ASSUME NEW c \in Callers PROVE StoodOf(c)'
    BY DEF StoodInv
  <2>1. StoodOf(c) /\ (pc[c] = "reload" => sid[c] \in Sids)
    BY DEF StoodInv, LocalsInv, LocalsOf
  <2>2. Stands(seen[c])' <=> Stands(seen[c])
    BY <1>1 DEF Stands
  <2>3. pc[c] = "reload" /\ Stands(rows[sid[c]])' => stood[c]
    <3>1. CASE sid[c] = s
      BY <1>1, <3>1 DEF Stands
    <3>2. CASE sid[c] # s
      BY <1>1, <2>1, <3>2 DEF Stands, StoodOf
    <3> QED
      BY <3>1, <3>2
  <2> QED
    BY <1>1, <2>1, <2>2, <2>3 DEF StoodOf
<1> QED
  BY <1>3, <1>4, <1>5, <1>6, <1>7, <1>8, <1>9

LEMMA RowStepTyped ==
    ASSUME TypeOK, NEW s \in Sids, NEW row \in AnyRow, rows' = [rows EXCEPT ![s] = row],
           UNCHANGED <<time, pc, locals, answer, stood>>,
           minted' \subseteq Tokens, honoured' \subseteq minted', ended' \subseteq Sids,
           dropped' \subseteq Sids
    PROVE  TypeOK'
  BY DEF TypeOK, locals

LEMMA SignInKeeps ==
    ASSUME FreshInv, NEW s \in Sids, SignIn(s)
    PROVE  FreshInv'
<1> USE DEF FreshInv
<1>1. /\ ~Stored(s) /\ s \notin ended
      /\ UNCHANGED <<time, ended, pc, locals, answer, stood, dropped>>
  BY DEF SignIn
<1>2. PICK token \in (Tokens \ minted) \cup {NoToken} :
          /\ rows' = [rows EXCEPT ![s] = [created |-> time, expires |-> RenewedExpiry(time, time),
                                          token |-> token]]
          /\ minted' = minted \cup ({token} \ {NoToken})
          /\ honoured' = honoured \cup ({token} \ {NoToken})
  BY DEF SignIn
<1> DEFINE row == [created |-> time, expires |-> RenewedExpiry(time, time), token |-> token]
<1>3. /\ time \in Nat /\ RenewedExpiry(time, time) \in Int
      /\ RenewedExpiry(time, time) <= time + IdleSeconds
      /\ RenewedExpiry(time, time) - time <= AbsoluteMaxAgeSeconds
  BY RenewedExpiryBounds DEF TypeOK
<1>4. row \in Row /\ row # NoRow /\ row.token = token
  BY <1>3, FreshTokenAssumption DEF FreshTokenAssumption, Row
<1>5. Timely(row) /\ TokenOf(row) = token
  BY <1>3, <1>4 DEF Timely, TokenOf
<1>6. \A c \in Callers : sid[c] # s
  BY <1>1, FreshTokenAssumption DEF LocalsInv, LocalsOf, FreshTokenAssumption
<1>7. \A e \in ended' : rows'[e] = NoRow
  BY <1>1, <1>2 DEF EndedInv, Stored, TypeOK
<1>8. /\ minted \subseteq minted' /\ minted' \subseteq Tokens
      /\ honoured \subseteq honoured' /\ honoured' \subseteq minted'
      /\ token \in {NoToken} \cup (minted' \ minted)
  BY <1>2 DEF TypeOK
<1>9. row \in AnyRow /\ ended' \subseteq Sids /\ dropped' \subseteq Sids /\ ended \subseteq ended'
  BY <1>1, <1>4 DEF AnyRow, TypeOK
<1>10. rows' = [rows EXCEPT ![s] = row]
  BY <1>2
<1> HIDE DEF row
<1>11. TypeOK'
  BY <1>1, <1>8, <1>9, <1>10, RowStepTyped
<1> QED
  BY <1>1, <1>5, <1>6, <1>7, <1>8, <1>9, <1>10, <1>11, RowStepKeeps

LEMMA RenewKeeps ==
    ASSUME FreshInv, NEW s \in Sids, Renew(s)
    PROVE  FreshInv'
<1> USE DEF FreshInv
<1> DEFINE row == [rows[s] EXCEPT !.expires = RenewedExpiry(time, rows[s].created)]
<1>1. /\ Stored(s) /\ IsAdmitted(rows[s], time) /\ rows' = [rows EXCEPT ![s] = row]
      /\ UNCHANGED <<time, ended, minted, honoured, pc, locals, answer, stood, dropped>>
  BY DEF Renew, issuer
<1>2. rows[s] \in Row /\ TokenOf(rows[s]) = rows[s].token
  BY <1>1, StoredRow
<1>3. /\ time \in Nat /\ rows[s].created \in Nat /\ rows[s].created <= time
  BY <1>1, <1>2 DEF TypeOK, Row, TimelyInv, Timely, Stored
<1>4. /\ RenewedExpiry(time, rows[s].created) \in Int
      /\ RenewedExpiry(time, rows[s].created) <= time + IdleSeconds
      /\ RenewedExpiry(time, rows[s].created) - rows[s].created <= AbsoluteMaxAgeSeconds
  BY <1>3, RenewedExpiryBounds
<1>5. row \in Row
  BY <1>2, <1>4 DEF Row
<1>6. row # NoRow /\ row \in AnyRow
  BY <1>5, FreshTokenAssumption DEF FreshTokenAssumption, AnyRow
<1>7. /\ row.token = rows[s].token /\ row.created = rows[s].created
      /\ row.expires = RenewedExpiry(time, rows[s].created)
  BY <1>2 DEF Row
<1>8. Timely(row) /\ TokenOf(row) = TokenOf(rows[s])
  BY <1>2, <1>3, <1>4, <1>6, <1>7 DEF Timely, TokenOf
<1>9. \A c \in Callers : sid[c] = s => (pc[c] = "reload" => stood[c])
  BY <1>1 DEF StoodInv, StoodOf, Stands, Stored
<1>10. \A e \in ended' : rows'[e] = NoRow
  BY <1>1 DEF EndedInv, Stored, TypeOK
<1> HIDE DEF row
<1>11. TypeOK'
  BY <1>1, <1>6, RowStepTyped DEF TypeOK
<1> QED
  BY <1>1, <1>6, <1>8, <1>9, <1>10, <1>11, RowStepKeeps

LEMMA EndKeeps ==
    ASSUME FreshInv, NEW s \in Sids, End(s)
    PROVE  FreshInv'
<1> USE DEF FreshInv
<1>1. /\ rows' = [rows EXCEPT ![s] = NoRow] /\ ended' = ended \cup {s}
      /\ UNCHANGED <<time, minted, honoured, pc, locals, answer, stood, dropped>>
  BY DEF End, issuer
<1>2. NoRow \in AnyRow /\ TokenOf(NoRow) = NoToken /\ Timely(NoRow) /\ ~Stands(NoRow)
  BY DEF AnyRow, TokenOf, Timely, Stands
<1>3. \A e \in ended' : rows'[e] = NoRow
  BY <1>1 DEF EndedInv, Stored, TypeOK
<1>4. TypeOK'
  BY <1>1, <1>2, RowStepTyped DEF TypeOK
<1> QED
  BY <1>1, <1>2, <1>3, <1>4, RowStepKeeps

\* The issuer revokes the stored token, which no call has as its own new one.
LEMMA IssuerRevokesKeeps ==
    ASSUME FreshInv, NEW s \in Sids, IssuerRevokes(s)
    PROVE  FreshInv'
<1> USE DEF FreshInv
<1>1. /\ Stored(s) /\ honoured' = honoured \ {rows[s].token} /\ dropped' = dropped \cup {s}
      /\ UNCHANGED <<time, rows, ended, minted, pc, op, sid, sent, rotated, seen, groupsHold, answer,
                     stood>>
  BY DEF IssuerRevokes, session, locals
<1>2. TokenOf(rows[s]) = rows[s].token
  BY <1>1, StoredRow
<1>3. TypeOK'
  BY <1>1 DEF TypeOK
<1>4. LocalsInv' /\ EndedInv' /\ StoodInv' /\ TimelyInv'
  BY <1>1 DEF LocalsInv, LocalsOf, EndedInv, StoodInv, StoodOf, Stands, Stored, Rotated, TimelyInv,
              Timely
<1>5. MintedInv' /\ BelongsInv'
  BY <1>1 DEF MintedInv, MintedOf, BelongsInv, TokenOf
<1>6. RotationInv'
  BY <1>1, <1>2 DEF RotationInv, RotationOf, Rotated, TokenOf
<1> QED
  BY <1>3, <1>4, <1>5, <1>6

LEMMA TickKeeps ==
    ASSUME FreshInv, Tick
    PROVE  FreshInv'
<1> USE DEF FreshInv
<1>1. /\ time \in Nat /\ time' = time + 1
      /\ UNCHANGED <<rows, ended, minted, honoured, pc, op, sid, sent, rotated, seen, groupsHold,
                     answer, stood, dropped>>
  BY DEF Tick, TypeOK, session, issuer, locals
<1>2. TypeOK'
  BY <1>1 DEF TypeOK
<1>3. LocalsInv' /\ EndedInv' /\ MintedInv' /\ BelongsInv'
  BY <1>1 DEF LocalsInv, LocalsOf, EndedInv, Stored, Rotated, MintedInv, MintedOf, BelongsInv, TokenOf
<1>4. RotationInv'
  BY <1>1 DEF RotationInv, RotationOf, Rotated, TokenOf
<1>5. ASSUME NEW row \in AnyRow, Timely(row)
      PROVE  (row # NoRow => /\ row.created <= time' /\ row.expires <= time' + IdleSeconds
                             /\ row.expires - row.created <= AbsoluteMaxAgeSeconds)
             /\ (row # NoRow /\ IsAdmitted(row, time') => Stands(row))
  <2>1. CASE row = NoRow
    BY <2>1
  <2>2. CASE row # NoRow
    <3>1. row.created \in Nat /\ row.expires \in Int
      BY <2>2 DEF AnyRow, Row
    <3>2. IdleSeconds \in Nat
      BY LifetimeAssumption DEF LifetimeAssumption
    <3>3. /\ row.created <= time /\ row.expires <= time + IdleSeconds
          /\ row.expires - row.created <= AbsoluteMaxAgeSeconds
      BY <1>5, <2>2 DEF Timely
    <3>4. row.created <= time' /\ row.expires <= time' + IdleSeconds
      BY <1>1, <3>1, <3>2, <3>3
    <3>5. IsAdmitted(row, time') => time <= row.expires
      BY <1>1, <3>1 DEF IsAdmitted
    <3> QED
      BY <1>1, <1>5, <2>2, <3>3, <3>4, <3>5, TimelyStands
  <2> QED
    BY <2>1, <2>2
<1>6. \A s \in Sids : rows[s] \in AnyRow /\ Timely(rows[s])
  BY DEF TypeOK, TimelyInv
<1>7. \A c \in Callers : seen[c] \in AnyRow /\ Timely(seen[c])
  BY DEF TypeOK, TimelyInv
<1>8. TimelyInv'
  BY <1>1, <1>5, <1>6, <1>7 DEF TimelyInv, Timely
<1>9. StoodInv'
  <2> SUFFICES ASSUME NEW c \in Callers PROVE StoodOf(c)'
    BY DEF StoodInv
  <2>1. StoodOf(c) /\ (pc[c] = "reload" => sid[c] \in Sids)
    BY DEF StoodInv, LocalsInv, LocalsOf
  <2>2. Stands(seen[c])' => Stands(seen[c])
    BY <1>1, <1>5, <1>7 DEF Stands
  <2>3. pc[c] = "reload" /\ Stands(rows[sid[c]])' => Stands(rows[sid[c]])
    BY <1>1, <1>5, <1>6, <2>1 DEF Stands
  <2> QED
    BY <1>1, <2>1, <2>2, <2>3 DEF StoodOf
<1> QED
  BY <1>2, <1>3, <1>4, <1>8, <1>9


-----------------------------------------------------------------------------
\* The invariant holds at the start and through every step.

LEMMA InitFresh == Init => FreshInv
<1> SUFFICES ASSUME Init PROVE FreshInv
  OBVIOUS
<1>1. TypeOK
  BY DEF Init, TypeOK, AnyRow, AnyToken, Steps, Answers
<1>2. \A c \in Callers : ~Rotated(c) /\ TokenOf(seen[c]) = NoToken
  BY DEF Init, Rotated, TokenOf
<1>3. \A s \in Sids : TokenOf(rows[s]) = NoToken
  BY DEF Init, TokenOf
<1>4. LocalsInv /\ EndedInv /\ TimelyInv /\ StoodInv
  BY DEF Init, LocalsInv, LocalsOf, EndedInv, TimelyInv, Timely, StoodInv, StoodOf
<1>5. MintedInv /\ BelongsInv /\ RotationInv
  BY <1>2, <1>3 DEF Init, MintedInv, MintedOf, BelongsInv, RotationInv, RotationOf
<1> QED
  BY <1>1, <1>4, <1>5 DEF FreshInv

LEMMA CallerKeeps ==
    ASSUME FreshInv, NEW c \in Callers, CallStep(c)
    PROVE  FreshInv'
<1>1. CASE Call(c)
  BY <1>1, CallingKeeps
<1>2. CASE Load(c)
  BY <1>2, LoadKeeps
<1>3. CASE Judge(c)
  BY <1>3, JudgeKeeps
<1>4. CASE GrantAnswered(c)
  BY <1>4, GrantAnsweredKeeps
<1>5. CASE GrantLost(c)
  BY <1>5, GrantLostKeeps
<1>6. CASE GrantRefused(c)
  BY <1>6, GrantRefusedKeeps
<1>7. CASE Rejudge(c)
  BY <1>7, RejudgeKeeps
<1>8. CASE Replace(c)
  BY <1>8, ReplaceKeeps
<1>9. CASE Fail(c)
  BY <1>9, FailKeeps
<1> QED
  BY <1>1, <1>2, <1>3, <1>4, <1>5, <1>6, <1>7, <1>8, <1>9 DEF CallStep

LEMMA StutterKeeps ==
    ASSUME FreshInv, UNCHANGED vars
    PROVE  FreshInv'
<1>1. UNCHANGED <<time, rows, ended, minted, honoured, pc, op, sid, sent, rotated, seen, groupsHold,
                  answer, stood, dropped>>
  BY DEF vars, session, issuer, locals
<1>2. TypeOK' /\ LocalsInv' /\ EndedInv' /\ MintedInv'
  BY <1>1 DEF FreshInv, TypeOK, LocalsInv, LocalsOf, EndedInv, Stored, Rotated, MintedInv, MintedOf,
              TokenOf
<1>3. BelongsInv' /\ RotationInv' /\ TimelyInv' /\ StoodInv'
  BY <1>1 DEF FreshInv, BelongsInv, RotationInv, RotationOf, Rotated, TokenOf, TimelyInv, Timely,
              StoodInv, StoodOf, Stands
<1> QED
  BY <1>2, <1>3 DEF FreshInv

LEMMA StepKeepsFresh ==
    ASSUME FreshInv, [Next]_vars
    PROVE  FreshInv'
<1>1. CASE \E c \in Callers : CallStep(c)
  BY <1>1, CallerKeeps
<1>2. CASE \E s \in Sids : SignIn(s) \/ Renew(s) \/ End(s) \/ IssuerRevokes(s)
  BY <1>2, SignInKeeps, RenewKeeps, EndKeeps, IssuerRevokesKeeps
<1>3. CASE Tick
  BY <1>3, TickKeeps
<1>4. CASE UNCHANGED vars
  BY <1>4, StutterKeeps
<1> QED
  BY <1>1, <1>2, <1>3, <1>4 DEF Next

\* The inductive invariant of the calls of fresh_access_token and current_groups, of the
\* requests and logouts beside them and of the issuer, whatever overlaps.
THEOREM FreshToken_FreshInv == Spec => []FreshInv
  BY InitFresh, StepKeepsFresh, PTL DEF Spec

-----------------------------------------------------------------------------
\* What is handed out.

\* A call that is under way has not answered.
AnswerInv == \A c \in Callers : pc[c] # "idle" => answer[c] = "none"

\* A call that returns hands out only what HandedOutWhileStanding allows.
Vouched(c) == stood[c] /\ (pc[c] = "replace" => Stored(sid[c]))

Returns(c, outcome) ==
    Return(c, outcome) /\ (outcome = "handed-out" => Vouched(c))

LEMMA CallAnswers ==
    ASSUME FreshInv, NEW c \in Callers, CallStep(c)
    PROVE  \/ \E outcome \in Answers : Returns(c, outcome)
           \/ pc[c] # "idle" /\ UNCHANGED answer /\ (\E step : pc' = [pc EXCEPT ![c] = step])
           \/ /\ pc[c] = "idle" /\ pc' = [pc EXCEPT ![c] = "load"]
              /\ answer' = [answer EXCEPT ![c] = "none"]
<1> USE DEF Returns
<1>1. CASE Call(c)
  BY <1>1 DEF Call, Goto
<1>2. CASE Load(c)
  BY <1>2 DEF Load, Goto
<1>3. CASE Judge(c)
  <2>1. pc[c] # "idle"
    BY <1>3 DEF Judge
  <2>2. \/ Return(c, "session-ended") \/ Return(c, "sign-in-again")
        \/ Goto(c, "grant") /\ UNCHANGED answer
    BY <1>3 DEF Judge
  <2> QED
    BY <2>1, <2>2 DEF Goto, Answers
<1>4. CASE GrantAnswered(c)
  BY <1>4 DEF GrantAnswered, Goto
<1>5. CASE GrantLost(c)
  BY <1>5 DEF GrantLost, Answers
<1>6. CASE GrantRefused(c)
  BY <1>6 DEF GrantRefused, Answers
<1>7. CASE Rejudge(c)
  <2>1. CASE Return(c, "session-ended")
    BY <2>1 DEF Answers
  <2>2. CASE pc[c] = "rejudge" /\ Stands(seen[c]) /\ HandOut(c)
    <3>1. stood[c] /\ pc[c] # "replace"
      BY <2>2 DEF FreshInv, StoodInv, StoodOf
    <3> QED
      BY <2>2, <3>1 DEF HandOut, Vouched, Answers
  <2>3. CASE pc[c] = "rejudge" /\ pc' = [pc EXCEPT ![c] = "replace"] /\ UNCHANGED answer
    BY <2>3
  <2> QED
    BY <1>7, <2>1, <2>2, <2>3, RejudgeEffect
<1>8. CASE Replace(c)
  <2>1. stood[c]
    BY <1>8 DEF Replace, FreshInv, StoodInv, StoodOf
  <2>2. CASE Stored(sid[c]) /\ HandOut(c)
    BY <2>1, <2>2 DEF HandOut, Vouched, Answers
  <2>3. CASE Return(c, "session-ended")
    BY <2>3 DEF Answers
  <2> QED
    BY <1>8, <2>2, <2>3 DEF Replace
<1>9. CASE Fail(c)
  BY <1>9 DEF Fail, Answers
<1> QED
  BY <1>1, <1>2, <1>3, <1>4, <1>5, <1>6, <1>7, <1>8, <1>9 DEF CallStep

\* What one step does to the answer of any call.
LEMMA StepAnswers ==
    ASSUME FreshInv, AnswerInv, [Next]_vars, NEW d \in Callers
    PROVE  /\ pc'[d] # "idle" => answer'[d] = "none"
           /\ pc[d] # "idle" /\ answer'[d] = "handed-out" => Vouched(d)
<1>1. pc \in [Callers -> Steps] /\ answer \in [Callers -> Answers]
  BY DEF FreshInv, TypeOK
<1>2. pc[d] # "idle" => answer[d] = "none"
  BY DEF AnswerInv
<1>3. ASSUME NEW c \in Callers, CallStep(c)
      PROVE  /\ pc'[d] # "idle" => answer'[d] = "none"
             /\ pc[d] # "idle" /\ answer'[d] = "handed-out" => Vouched(d)
  <2>1. CASE \E outcome \in Answers : Returns(c, outcome)
    <3>1. PICK outcome \in Answers : Returns(c, outcome)
      BY <2>1
    <3>2. pc' = [pc EXCEPT ![c] = "idle"] /\ answer' = [answer EXCEPT ![c] = outcome]
      BY <3>1 DEF Returns, Return, Goto
    <3>3. CASE c = d
      BY <1>1, <3>1, <3>2, <3>3 DEF Returns
    <3>4. CASE c # d
      BY <1>1, <1>2, <3>2, <3>4
    <3> QED
      BY <3>3, <3>4
  <2>2. CASE pc[c] # "idle" /\ UNCHANGED answer /\ (\E step : pc' = [pc EXCEPT ![c] = step])
    BY <1>1, <1>2, <2>2
  <2>3. CASE /\ pc[c] = "idle" /\ pc' = [pc EXCEPT ![c] = "load"]
             /\ answer' = [answer EXCEPT ![c] = "none"]
    BY <1>1, <1>2, <2>3
  <2> QED
    BY <1>3, <2>1, <2>2, <2>3, CallAnswers
<1>4. CASE UNCHANGED <<pc, answer>>
  BY <1>2, <1>4
<1>5. CASE \E s \in Sids : SignIn(s) \/ Renew(s) \/ End(s) \/ IssuerRevokes(s)
  BY <1>4, <1>5 DEF SignIn, Renew, End, IssuerRevokes
<1>6. CASE Tick \/ UNCHANGED vars
  BY <1>4, <1>6 DEF Tick, vars
<1> QED
  BY <1>3, <1>5, <1>6 DEF Next

\* fresh_access_token and current_groups hand out a token or groups only for a session
\* that stood when the issuer answered, and only after the rotation was stored to it:
\* _kept_after_grant reads the row again, and a row only ever ages.
THEOREM FreshToken_HandedOutWhileStanding == Spec => HandedOutWhileStanding
<1>1. Init => AnswerInv
  BY DEF Init, AnswerInv
<1>2. ASSUME FreshInv, AnswerInv, [Next]_vars PROVE AnswerInv'
  BY <1>2, StepAnswers DEF AnswerInv
<1>3. ASSUME FreshInv, AnswerInv, [Next]_vars
      PROVE  [\A c \in Callers :
                 pc[c] # "idle" /\ answer'[c] = "handed-out" =>
                     stood[c] /\ (pc[c] = "replace" => Stored(sid[c]))]_vars
  BY <1>3, StepAnswers DEF Vouched
<1> QED
  BY <1>1, <1>2, <1>3, FreshToken_FreshInv, PTL DEF Spec, HandedOutWhileStanding

-----------------------------------------------------------------------------
\* What is stored.

\* The token of s is honoured, or a call brings it a new one: by RotationInv that
\* one is honoured.
Kept(s) ==
    TokenOf(rows[s]) # NoToken =>
        TokenOf(rows[s]) \in honoured \/ \E c \in Callers : sid[c] = s /\ Rotated(c)

KeptInv == \A s \in Sids \ dropped : Kept(s)

\* A step of a call with the rows as they were: what it revokes is its own session's
\* token, and that session is denied its new one, gone, brought one, or untouched.
LEMMA CallKept ==
    ASSUME FreshInv, KeptInv, NEW c \in Callers, Others(c), UNCHANGED rows,
           \A t \in honoured : t \in honoured' \/ t = sent[c], dropped \subseteq dropped',
           \/ sid[c] \notin Sids \/ sid[c] \in dropped' \/ ~Stored(sid[c])
           \/ sid'[c] = sid[c] /\ Rotated(c)'
           \/ UNCHANGED honoured /\ ~Rotated(c)
    PROVE  KeptInv'
<1> SUFFICES ASSUME NEW s \in Sids, s \notin dropped', TokenOf(rows[s]) # NoToken
             PROVE  TokenOf(rows[s]) \in honoured' \/ \E d \in Callers : sid'[d] = s /\ Rotated(d)'
  BY DEF KeptInv, Kept, TokenOf
<1>1. TokenOf(rows[s]) \in honoured \/ \E d \in Callers : sid[d] = s /\ Rotated(d)
  BY DEF KeptInv, Kept
<1>2. Stored(s)
  BY DEF TokenOf, Stored
<1>3. ASSUME NEW d \in Callers, d # c, sid[d] = s, Rotated(d)
      PROVE  sid'[d] = s /\ Rotated(d)'
  BY <1>3 DEF Others
<1>4. CASE sid[c] # s
  <2>1. TokenOf(rows[s]) # sent[c]
    BY <1>4 DEF FreshInv, BelongsInv
  <2> QED
    BY <1>1, <1>3, <1>4, <2>1
<1>5. CASE sid[c] = s /\ sid'[c] = sid[c] /\ Rotated(c)'
  BY <1>5
<1>6. CASE sid[c] = s /\ UNCHANGED honoured /\ ~Rotated(c)
  BY <1>1, <1>3, <1>6
<1> QED
  BY <1>2, <1>4, <1>5, <1>6

LEMMA StoresKept ==
    ASSUME FreshInv, KeptInv, NEW c \in Callers, Rotated(c), sid[c] \in Sids, Stores(c),
           Others(c), UNCHANGED honoured, dropped \subseteq dropped'
    PROVE  KeptInv'
<1>1. /\ \A s \in Sids \ {sid[c]} : rows'[s] = rows[s]
      /\ TokenOf(rows'[sid[c]]) = rotated[c]
  BY StoresEffect DEF FreshInv
<1>2. rotated[c] \in honoured
  BY DEF FreshInv, RotationInv, RotationOf
<1>3. \A s \in Sids : TokenOf(rows[s])' = TokenOf(rows'[s])
  BY DEF TokenOf
<1> SUFFICES ASSUME NEW s \in Sids, s \notin dropped', s # sid[c], TokenOf(rows[s]) # NoToken
             PROVE  TokenOf(rows[s]) \in honoured \/ \E d \in Callers : sid'[d] = s /\ Rotated(d)'
  BY <1>1, <1>2, <1>3 DEF KeptInv, Kept
<1>4. TokenOf(rows[s]) \in honoured \/ \E d \in Callers : sid[d] = s /\ Rotated(d)
  BY DEF KeptInv, Kept
<1> QED
  BY <1>4 DEF Others

\* A step beside the calls that touches one row: its token is honoured or what it was.
LEMMA RowKept ==
    ASSUME FreshInv, KeptInv, NEW s \in Sids, NEW row \in AnyRow, rows' = [rows EXCEPT ![s] = row],
           UNCHANGED <<locals, dropped>>, honoured \subseteq honoured',
           TokenOf(row) \in {NoToken, TokenOf(rows[s])} \cup honoured'
    PROVE  KeptInv'
<1>1. /\ \A r \in Sids : TokenOf(rows[r])' = IF r = s THEN TokenOf(row) ELSE TokenOf(rows[r])
      /\ UNCHANGED sid /\ \A d \in Callers : Rotated(d)' <=> Rotated(d)
  BY DEF FreshInv, TypeOK, TokenOf, Rotated, locals
<1> SUFFICES ASSUME NEW r \in Sids, r \notin dropped, TokenOf(rows[r])' # NoToken
             PROVE  \/ TokenOf(rows[r])' \in honoured'
                    \/ \E d \in Callers : sid[d] = r /\ Rotated(d)
  BY <1>1 DEF KeptInv, Kept
<1>2. CASE TokenOf(rows[r])' \in honoured'
  BY <1>2
<1>3. CASE TokenOf(rows[r])' = TokenOf(rows[r])
  <2>1. TokenOf(rows[r]) \in honoured \/ \E d \in Callers : sid[d] = r /\ Rotated(d)
    BY <1>3 DEF KeptInv, Kept
  <2> QED
    BY <1>3, <2>1
<1> QED
  BY <1>1, <1>2, <1>3

LEMMA ReturnKept ==
    ASSUME FreshInv, KeptInv, NEW c \in Callers, NEW outcome \in Answers, Return(c, outcome),
           UNCHANGED <<rows, honoured>>, dropped \subseteq dropped',
           sid[c] \in dropped' \/ ~Stored(sid[c]) \/ ~Rotated(c)
    PROVE  KeptInv'
<1>1. Others(c)
  BY ReturnEffect DEF FreshInv
<1> QED
  BY <1>1, CallKept

LEMMA GrantsKept ==
    ASSUME FreshInv, KeptInv, NEW c \in Callers, GrantAnswered(c) \/ GrantLost(c)
    PROVE  KeptInv'
<1>1. /\ pc[c] = "grant" /\ UNCHANGED rows /\ ~Rotated(c)
      /\ sent[c] # NoToken /\ sent[c] \in minted \cup {NoToken}
  BY DEF GrantAnswered, GrantLost, session, FreshInv, LocalsInv, LocalsOf, MintedInv, MintedOf, Rotated
<1>2. ASSUME NEW new \in AnyToken, Serve(c, new)
      PROVE  /\ \A t \in honoured : t \in honoured' \/ t = sent[c]
             /\ new \in {NoToken, sent[c]} => UNCHANGED honoured
  <2>1. \A t \in honoured : t \in honoured' \/ t = sent[c]
    BY <1>1, <1>2, ServeEffect DEF FreshInv
  <2>2. new \in {NoToken, sent[c]} => new \notin Tokens \ minted
    BY <1>1, FreshTokenAssumption DEF FreshTokenAssumption
  <2> QED
    BY <1>2, <2>1, <2>2 DEF Serve, issuer
<1>3. CASE GrantAnswered(c)
  <2>1. /\ pc' = [pc EXCEPT ![c] = "reload"] /\ UNCHANGED <<op, sid, sent, seen, dropped>>
        /\ stood' = [stood EXCEPT ![c] = Stands(rows[sid[c]])]
    BY <1>3 DEF GrantAnswered, Goto
  <2>2. PICK new \in AnyToken : Serve(c, new) /\ rotated' = [rotated EXCEPT ![c] = new]
    BY <1>3 DEF GrantAnswered, AnyToken
  <2>3. Others(c)
    BY <2>1, <2>2 DEF FreshInv, TypeOK, Others, Rotated
  <2>4. Rotated(c)' <=> new \notin {NoToken, sent[c]}
    BY <2>1, <2>2 DEF FreshInv, TypeOK, Rotated
  <2>5. /\ \A t \in honoured : t \in honoured' \/ t = sent[c]
        /\ new \in {NoToken, sent[c]} => UNCHANGED honoured
    BY <1>2, <2>2
  <2>6. \/ sid'[c] = sid[c] /\ Rotated(c)'
        \/ UNCHANGED honoured /\ ~Rotated(c)
    BY <1>1, <2>1, <2>4, <2>5
  <2>7. UNCHANGED rows /\ dropped \subseteq dropped'
    BY <1>1, <2>1
  <2> QED
    BY <2>3, <2>5, <2>6, <2>7, CallKept
<1>4. CASE GrantLost(c)
  <2>1. PICK new \in AnyToken : Serve(c, new) /\ Drop(c, new \notin {NoToken, sent[c]})
    BY <1>4 DEF GrantLost, AnyToken
  <2>2. Others(c)
    BY <1>4, ReturnEffect DEF GrantLost, Answers, FreshInv
  <2>3. dropped \subseteq dropped' /\ (new \notin {NoToken, sent[c]} => sid[c] \in dropped')
    BY <2>1 DEF Drop
  <2>4. /\ \A t \in honoured : t \in honoured' \/ t = sent[c]
        /\ new \in {NoToken, sent[c]} => UNCHANGED honoured
    BY <1>2, <2>1
  <2>5. \/ sid[c] \in dropped'
        \/ UNCHANGED honoured /\ ~Rotated(c)
    BY <1>1, <2>3, <2>4
  <2> QED
    BY <1>1, <2>2, <2>3, <2>4, <2>5, CallKept
<1> QED
  BY <1>3, <1>4

\* The steps of a call that leave the rows and the issuer alone and do not return.
LEMMA StridesKept ==
    ASSUME FreshInv, KeptInv, NEW c \in Callers, Call(c) \/ Load(c),
           UNCHANGED <<rows, honoured, dropped>>
    PROVE  KeptInv'
<1>1. CASE Call(c)
  <2>1. PICK s \in Sids : sid' = [sid EXCEPT ![c] = s]
    BY <1>1 DEF Call
  <2>2. pc' = [pc EXCEPT ![c] = "load"] /\ UNCHANGED <<sent, rotated, seen, stood>>
    BY <1>1 DEF Call, Goto
  <2>3. Others(c)
    BY <2>1, <2>2 DEF FreshInv, TypeOK, Others, Rotated
  <2>4. sid[c] \notin Sids
    BY <1>1, FreshTokenAssumption DEF Call, FreshInv, LocalsInv, LocalsOf, FreshTokenAssumption
  <2> QED
    BY <2>3, <2>4, CallKept
<1>2. CASE Load(c)
  <2>1. seen' = [seen EXCEPT ![c] = rows[sid[c]]] /\ UNCHANGED <<sid, sent, rotated, stood>>
    BY <1>2 DEF Load
  <2>2. pc' = [pc EXCEPT ![c] = IF pc[c] = "load" THEN "judge" ELSE "rejudge"]
    BY <1>2 DEF Load, Goto
  <2>3. Others(c) /\ sid'[c] = sid[c] /\ (Rotated(c)' <=> Rotated(c))
    BY <2>1, <2>2 DEF FreshInv, TypeOK, Others, Rotated
  <2> QED
    BY <2>3, CallKept
<1> QED
  BY <1>1, <1>2

LEMMA JudgeKept ==
    ASSUME FreshInv, KeptInv, NEW c \in Callers, Judge(c)
    PROVE  KeptInv'
<1>1. UNCHANGED <<rows, honoured, dropped>> /\ ~Rotated(c)
  BY DEF Judge, session, issuer, FreshInv, LocalsInv, LocalsOf, Rotated
<1>2. CASE Return(c, "session-ended") \/ Return(c, "sign-in-again")
  BY <1>1, <1>2, ReturnKept DEF Answers
<1>3. CASE /\ sent' = [sent EXCEPT ![c] = seen[c].token] /\ Goto(c, "grant")
           /\ UNCHANGED <<op, sid, rotated, seen, groupsHold, answer, stood>>
  <2>1. Others(c)
    BY <1>3 DEF FreshInv, TypeOK, Others, Rotated, Goto
  <2> QED
    BY <1>1, <2>1, CallKept
<1> QED
  BY <1>2, <1>3 DEF Judge

LEMMA RejudgeKept ==
    ASSUME FreshInv, KeptInv, NEW c \in Callers, Rejudge(c)
    PROVE  KeptInv'
<1>1. pc[c] # "idle" /\ UNCHANGED <<rows, honoured>>
  BY RejudgeEffect
<1>2. CASE Return(c, "session-ended") /\ Drop(c, Rotated(c))
  <2>1. dropped \subseteq dropped' /\ (Rotated(c) => sid[c] \in dropped')
    BY <1>2 DEF Drop
  <2> QED
    BY <1>1, <1>2, <2>1, ReturnKept DEF Answers
<1>3. CASE ~Rotated(c) /\ HandOut(c) /\ UNCHANGED dropped
  <2>1. (IF groupsHold[c] THEN "handed-out" ELSE "issuer-unavailable") \in Answers
    BY DEF Answers
  <2> QED
    BY <1>1, <1>3, <2>1, ReturnKept DEF HandOut
<1>4. CASE /\ Rotated(c) /\ pc' = [pc EXCEPT ![c] = "replace"]
           /\ UNCHANGED <<op, sid, sent, rotated, seen, groupsHold, answer, stood, dropped>>
  <2>1. Others(c) /\ sid'[c] = sid[c] /\ Rotated(c)'
    BY <1>4 DEF FreshInv, TypeOK, Others, Rotated
  <2> QED
    BY <1>1, <1>4, <2>1, CallKept
<1> QED
  BY <1>2, <1>3, <1>4, RejudgeEffect

LEMMA StoringKept ==
    ASSUME FreshInv, KeptInv, NEW c \in Callers, Replace(c) \/ Fail(c)
    PROVE  KeptInv'
<1>1. CASE Replace(c)
  <2>1. /\ Rotated(c) /\ sid[c] \in Sids /\ UNCHANGED <<honoured, dropped>>
        /\ \/ Stores(c) /\ HandOut(c)
           \/ ~Stored(sid[c]) /\ UNCHANGED rows /\ Return(c, "session-ended")
    BY <1>1 DEF Replace, Stores, issuer, FreshInv, LocalsInv, LocalsOf
  <2>2. CASE Stores(c) /\ HandOut(c)
    <3>1. Others(c)
      BY <2>2, HandOutEffect DEF FreshInv
    <3> QED
      BY <2>1, <2>2, <3>1, StoresKept
  <2>3. CASE ~Stored(sid[c]) /\ UNCHANGED rows /\ Return(c, "session-ended")
    BY <2>1, <2>3, ReturnKept DEF Answers
  <2> QED
    BY <2>1, <2>2, <2>3
<1>2. CASE Fail(c)
  <2>1. /\ UNCHANGED honoured /\ Return(c, "failed") /\ Drop(c, Rotated(c)) /\ sid[c] \in Sids
        /\ UNCHANGED rows \/ (Rotated(c) /\ Stores(c))
    BY <1>2, FailEffect
  <2>2. dropped \subseteq dropped' /\ (Rotated(c) => sid[c] \in dropped')
    BY <2>1 DEF Drop
  <2>3. Others(c)
    BY <2>1, ReturnEffect DEF FreshInv, Answers
  <2>4. CASE UNCHANGED rows
    BY <2>1, <2>2, <2>4, ReturnKept DEF Answers
  <2>5. CASE Rotated(c) /\ Stores(c)
    BY <2>1, <2>2, <2>3, <2>5, StoresKept
  <2> QED
    BY <2>1, <2>4, <2>5
<1> QED
  BY <1>1, <1>2

LEMMA CallerKept ==
    ASSUME FreshInv, KeptInv, NEW c \in Callers, CallStep(c)
    PROVE  KeptInv'
<1>1. CASE Call(c) \/ Load(c)
  <2>1. UNCHANGED <<rows, honoured, dropped>>
    BY <1>1 DEF Call, Load, session, issuer
  <2> QED
    BY <1>1, <2>1, StridesKept
<1>2. CASE Judge(c)
  BY <1>2, JudgeKept
<1>3. CASE GrantAnswered(c) \/ GrantLost(c)
  BY <1>3, GrantsKept
<1>4. CASE GrantRefused(c)
  <2>1. UNCHANGED <<rows, honoured, dropped>> /\ ~Rotated(c)
    BY <1>4 DEF GrantRefused, session, issuer, FreshInv, LocalsInv, LocalsOf, Rotated
  <2> QED
    BY <1>4, <2>1, ReturnKept DEF GrantRefused, Answers
<1>5. CASE Rejudge(c)
  BY <1>5, RejudgeKept
<1>6. CASE Replace(c) \/ Fail(c)
  BY <1>6, StoringKept
<1> QED
  BY <1>1, <1>2, <1>3, <1>4, <1>5, <1>6 DEF CallStep

LEMMA BesideKept ==
    ASSUME FreshInv, KeptInv, NEW s \in Sids, SignIn(s) \/ Renew(s) \/ End(s) \/ IssuerRevokes(s)
    PROVE  KeptInv'
<1>1. CASE SignIn(s)
  <2>1. PICK token \in (Tokens \ minted) \cup {NoToken} :
            /\ rows' = [rows EXCEPT ![s] = [created |-> time, expires |-> RenewedExpiry(time, time),
                                            token |-> token]]
            /\ honoured' = honoured \cup ({token} \ {NoToken})
    BY <1>1 DEF SignIn
  <2> DEFINE row == [created |-> time, expires |-> RenewedExpiry(time, time), token |-> token]
  <2>2. row \in Row /\ row # NoRow /\ row.token = token
    <3>1. time \in Nat /\ RenewedExpiry(time, time) \in Int
      BY RenewedExpiryBounds DEF FreshInv, TypeOK
    <3> QED
      BY <3>1, FreshTokenAssumption DEF FreshTokenAssumption, Row
  <2>3. row \in AnyRow /\ TokenOf(row) \in {NoToken} \cup honoured'
    BY <2>1, <2>2 DEF AnyRow, TokenOf
  <2>4. UNCHANGED <<locals, dropped>> /\ honoured \subseteq honoured' /\ rows' = [rows EXCEPT ![s] = row]
    BY <1>1, <2>1 DEF SignIn
  <2> HIDE DEF row
  <2> QED
    BY <2>3, <2>4, RowKept
<1>2. CASE Renew(s)
  <2> DEFINE row == [rows[s] EXCEPT !.expires = RenewedExpiry(time, rows[s].created)]
  <2>1. /\ Stored(s) /\ rows' = [rows EXCEPT ![s] = row]
        /\ UNCHANGED <<time, honoured, locals, dropped>>
    BY <1>2 DEF Renew, issuer
  <2>2. rows[s] \in Row /\ TokenOf(rows[s]) = rows[s].token
    BY <2>1, StoredRow DEF FreshInv
  <2>3. RenewedExpiry(time, rows[s].created) \in Int
    BY <2>1, <2>2, RenewedExpiryBounds DEF FreshInv, TypeOK, Row, TimelyInv, Timely, Stored
  <2>4. row \in Row /\ row.token = rows[s].token
    BY <2>2, <2>3 DEF Row
  <2>5. row \in AnyRow /\ TokenOf(row) = TokenOf(rows[s])
    BY <2>2, <2>4, FreshTokenAssumption DEF FreshTokenAssumption, AnyRow, TokenOf
  <2> HIDE DEF row
  <2> QED
    BY <2>1, <2>5, RowKept
<1>3. CASE End(s)
  <2>1. NoRow \in AnyRow /\ TokenOf(NoRow) = NoToken
    BY DEF AnyRow, TokenOf
  <2>2. rows' = [rows EXCEPT ![s] = NoRow] /\ UNCHANGED <<honoured, locals, dropped>>
    BY <1>3 DEF End, issuer
  <2> QED
    BY <2>1, <2>2, RowKept
<1>4. CASE IssuerRevokes(s)
  <2>1. /\ Stored(s) /\ honoured' = honoured \ {rows[s].token} /\ dropped' = dropped \cup {s}
        /\ rows[s].token \in honoured /\ UNCHANGED <<rows, sid, sent, rotated>>
    BY <1>4 DEF IssuerRevokes, session, locals
  <2>2. TokenOf(rows[s]) = rows[s].token /\ rows[s].token # NoToken
    BY <2>1, StoredRow, FreshTokenAssumption DEF FreshInv, TypeOK, FreshTokenAssumption
  <2>3. \A r \in Sids \ {s} : TokenOf(rows[r]) # rows[s].token
    BY <2>2 DEF FreshInv, BelongsInv
  <2> QED
    BY <2>1, <2>3 DEF KeptInv, Kept, Rotated, TokenOf
<1> QED
  BY <1>1, <1>2, <1>3, <1>4

LEMMA StepKept ==
    ASSUME FreshInv, KeptInv, [Next]_vars
    PROVE  KeptInv'
<1>1. CASE \E c \in Callers : CallStep(c)
  BY <1>1, CallerKept
<1>2. CASE \E s \in Sids : SignIn(s) \/ Renew(s) \/ End(s) \/ IssuerRevokes(s)
  BY <1>2, BesideKept
<1>3. CASE Tick \/ UNCHANGED vars
  <2>1. UNCHANGED <<rows, honoured, sid, sent, rotated, dropped>>
    BY <1>3 DEF Tick, vars, session, issuer, locals
  <2> QED
    BY <2>1 DEF KeptInv, Kept, Rotated, TokenOf
<1> QED
  BY <1>1, <1>2, <1>3 DEF Next

LEMMA KeptMeansHonoured ==
    ASSUME FreshInv, KeptInv
    PROVE  StoredTokenHonoured
<1> SUFFICES ASSUME NEW s \in Sids \ dropped, Stored(s), rows[s].token # NoToken
             PROVE  \/ rows[s].token \in honoured
                    \/ \E c \in Callers : sid[c] = s /\ Rotated(c) /\ rotated[c] \in honoured
  BY DEF StoredTokenHonoured
<1>1. TokenOf(rows[s]) = rows[s].token
  BY StoredRow DEF FreshInv
<1>2. rows[s].token \in honoured \/ \E c \in Callers : sid[c] = s /\ Rotated(c)
  BY <1>1 DEF KeptInv, Kept
<1>3. \A c \in Callers : Rotated(c) => rotated[c] \in honoured
  BY DEF FreshInv, RotationInv, RotationOf
<1> QED
  BY <1>2, <1>3

\* The refresh token in a row is honoured, or a call under way brings the one that is:
\* replace_refresh_token stores what renew_access was given and no other call has seen,
\* however many calls overlap, but for the losses StoredTokenHonoured names.
THEOREM FreshToken_StoredTokenHonoured == Spec => []StoredTokenHonoured
<1>1. Init => KeptInv
  BY DEF Init, KeptInv, Kept, TokenOf
<1> QED
  BY <1>1, StepKept, KeptMeansHonoured, FreshToken_FreshInv, PTL DEF Spec

=============================================================================
