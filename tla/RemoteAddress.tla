---------------------------- MODULE RemoteAddress ----------------------------
(***************************************************************************)
(* get_remote_address, and the way of a request through proxies to it.     *)
(***************************************************************************)
EXTENDS Naturals, Sequences, FiniteSetsExt

CONSTANTS
    Clients,     \* hosts that make requests
    Trusted,     \* TRUSTED_PROXIES
    Blank        \* an empty entry of X-Forwarded-For

\* What TRUSTED_PROXIES says of a host: it forwards, and asks nothing itself.
\* A host has an address; nothing in the header is taken for one.
ASSUME TrustAssumption == Clients \cap Trusted = {} /\ Blank \notin Clients
Hosts == Clients \cup Trusted \cup {Blank}

VARIABLES
    origin,      \* the host that made the request
    peer,        \* the host at the other end of the connection
    forwarded    \* X-Forwarded-For

addressVars == <<origin, peer, forwarded>>

\* Deviation: the loop runs from the left.
LeftmostAddress(connected, entries) ==
    IF entries = <<>> \/ connected \notin Trusted THEN connected
    ELSE LET claims == {i \in DOMAIN entries : entries[i] \notin Trusted \cup {Blank}}
         IN IF claims = {} THEN Head(entries) ELSE entries[Min(claims)]
\* A trusted peer is believed: from the right, the first entry that is not a
\* trusted proxy, or the leftmost entry when there is none.
GetRemoteAddress(connected, entries) ==
    IF entries = <<>> \/ connected \notin Trusted THEN connected
    ELSE LET claims == {i \in DOMAIN entries : entries[i] \notin Trusted \cup {Blank}}
         IN IF claims = {} THEN Head(entries) ELSE entries[Max(claims)]

\* A client writes into the header what it likes; a proxy appends its peer.
Send(client, claims) == origin' = client /\ peer' = client /\ forwarded' = claims
Hop(proxy) ==
    /\ peer' = proxy
    /\ forwarded' = Append(forwarded, peer)
    /\ UNCHANGED origin
=============================================================================
