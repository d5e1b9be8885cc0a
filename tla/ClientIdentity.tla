--------------------------- MODULE ClientIdentity ---------------------------
(***************************************************************************)
(* webauth.proxies: who the client of a request is, and which budget it    *)
(* spends from.  A request passes from sender to sender; a proxy writes    *)
(* the address it got the request from at the right end of                 *)
(* X-Forwarded-For, into the last field of that name or into one more.     *)
(* What the first sender wrote there itself is any sequence of entries.    *)
(***************************************************************************)
EXTENDS Naturals, Sequences, FiniteSets

CONSTANTS
    Addresses,       \* as a peer or an entry may spell them
    Garbage,         \* an entry that is no address
    Canonical,       \* the one form of an address; a mapped IPv4 address is its IPv4 form
    Pool,            \* whom an address shares a budget with: its IPv6 /64
    TrustedProxies,  \* canonical addresses inside the configured networks
    MaxHops,         \* _MAX_FORWARDED_FOR_HOPS
    Written,         \* what a first sender may have written, a set of sequences of fields
    MaxSenders       \* bound on the senders of a request

ASSUME ClientIdentityAssumption ==
    /\ Garbage \notin Addresses
    /\ Canonical \in [Addresses -> Addresses]
    /\ \A a \in Addresses : Canonical[Canonical[a]] = Canonical[a]
    /\ Pool \in [Addresses -> Addresses]
    /\ TrustedProxies \subseteq {Canonical[a] : a \in Addresses}
    /\ Written \subseteq Seq(Seq(Addresses \cup {Garbage}) \ {<<>>})
    /\ MaxHops \in Nat /\ MaxSenders \in Nat \ {0}

VARIABLES
    senders,  \* the addresses the request has come from, the client first
    fields    \* the values of its X-Forwarded-For fields, each a sequence of entries

identityVars == <<senders, fields>>

Trusts(entry) == entry # Garbage /\ Canonical[entry] \in TrustedProxies

\* Who speaks to the server.
Peer == senders[Len(senders)]

\* Mutant: only the last field is read.
LastFieldHops == IF fields = <<>> THEN {} ELSE {Len(fields)} \X DOMAIN fields[Len(fields)]

\* The hops the header tells of, each the field of its entry and its place there.
Hops == UNION {{f} \X DOMAIN fields[f] : f \in DOMAIN fields}

EntryAt(hop) == fields[hop[1]][hop[2]]

\* _forwarded_entries: the hops read before this one, right to left over all fields.
ReadBefore(hop) ==
    {h \in Hops : h[1] > hop[1] \/ (h[1] = hop[1] /\ h[2] > hop[2])}

\* The first hop that no trusted proxy vouches for, among those that are read.
Decides(hop) ==
    /\ ~Trusts(EntryAt(hop))
    /\ \A h \in ReadBefore(hop) : Trusts(EntryAt(h))
    /\ Cardinality(ReadBefore(hop)) < MaxHops

\* _client_from_chain; Garbage when that hop is no address, or there is none.
ClientFromChain ==
    LET named == {Canonical[EntryAt(hop)] : hop \in {h \in Hops : Decides(h) /\ EntryAt(h) # Garbage}}
    IN  IF named = {} THEN Garbage ELSE CHOOSE client \in named : TRUE

\* resolve_client_ip, _get_client_ip
ClientIp ==
    IF Trusts(Peer) /\ ClientFromChain # Garbage THEN ClientFromChain ELSE Canonical[Peer]

\* _budget_address
BudgetAddress == Pool[ClientIp]

IdentityInit ==
    /\ \E client \in Addresses : senders = <<client>>
    /\ fields \in Written

\* A proxy passes the request on.
Forward(proxy) ==
    /\ Len(senders) < MaxSenders
    /\ senders' = Append(senders, proxy)
    /\ \/ fields' = Append(fields, <<Peer>>)
       \/ /\ fields # <<>>
          /\ fields' = [fields EXCEPT ![Len(fields)] = Append(@, Peer)]

\* The last sender that is no trusted proxy: the one client whose address only
\* trusted proxies have passed on.
IsOutsider(i) ==
    /\ ~Trusts(senders[i])
    /\ \A j \in i + 1 .. Len(senders) : Trusts(senders[j])

=============================================================================
