--------------------------- MODULE RequestPipeline ---------------------------
(***************************************************************************)
(* A request on its way to a route: through proxies, the body middleware,  *)
(* the parsing of the body, the rate limiter, and the user dependencies.   *)
(* One request at a time; the accounts, the session and the API token of   *)
(* the two users change at any moment in between.                          *)
(***************************************************************************)
EXTENDS RemoteAddress, BodyCapture, AuthResolution, Bags

CONSTANTS
    Routes,       \* [limiter, body, asks]: the routes and what they depend on
    Emails,       \* e-mails in a body, lower case
    Texts,        \* first ten characters that a cookie may have
    Header,       \* those of every JWT
    NoToken,      \* the text "no_token", which also stands for no cookie
    Times,        \* requests the limiter lets through in a window
    AccountStates, Claims,                \* the states and headers that are tried
    MaxForwarded, MaxRequests, MaxChanges \* bounds

Limiters == {"none", "email", "logout", "refresh", "address"}
ASSUME RouteAssumption ==
    \A r \in Routes : r.limiter \in Limiters /\ r.body \in BOOLEAN /\ r.asks \in Seq(Dependency)
ASSUME TextAssumption == {Header, NoToken} \subseteq Texts
ASSUME TrialAssumption ==
    /\ Times \in Nat /\ AccountStates \subseteq Account /\ Claims \subseteq Seq(Hosts)
    /\ None \notin Clients \cup Trusted


VARIABLES
    phase,        \* "idle", "sent", "body", "limit", "auth", "done"
    route,
    email,        \* the e-mail the limiter finds in the body, or None
    text,         \* the first ten characters of the cookie the limiter reads
    todo,         \* dependencies still to resolve
    hits,         \* the limiter's counters
    made,         \* history: what each client asked for, as it wrote it
    limited,      \* history: the last request was turned away by the limiter
    requests, changes

ownVars == <<phase, route, email, text, todo, hits, made, limited, requests, changes>>
vars == <<addressVars, bodyVars, authVars, ownVars>>

Init ==
    /\ origin = None /\ peer = None /\ forwarded = <<>>
    /\ intake = "idle" /\ size = 0 /\ sent = 0 /\ body = 0 /\ gone = FALSE
    /\ accounts \in [Users -> AccountStates]
    /\ cookie = "absent" /\ text = NoToken /\ key = TRUE /\ owner \in Users
    /\ loaded = [u \in Users |-> None] /\ cache = [s \in Sources |-> None]
    /\ dep = None /\ at = "idle" /\ results = {} /\ seen = [u \in Users |-> {}]
    /\ phase = "idle" /\ route = None /\ email = None /\ todo = <<>>
    /\ hits = EmptyBag /\ made = EmptyBag /\ limited = FALSE
    /\ requests = 0 /\ changes = 0

\* Both cookies are the client's to write, for every request anew: /logout is
\* limited by the access token, /refresh by the refresh token, which may be any
\* text whatever the access token is.  Cookies that a route never reads are left out.
Writes(r, access, chars) ==
    /\ r.limiter \notin {"logout", "refresh"} => chars = NoToken
    /\ r.limiter = "logout" => /\ access = "absent" => chars = NoToken
                               /\ access \in {"good", "revoked"} => chars = Header
    /\ r.limiter # "logout" /\ r.asks = <<>> => access = "absent"

\* A request with a JSON body under a protected path passes the middleware; for
\* any other the middleware only steps aside.
Begin(r, client, claims) ==
    /\ phase \in {"idle", "done"} /\ requests < MaxRequests
    /\ Send(client, claims) /\ Start
    /\ IF r.body
       THEN \E n \in Sizes : Open(n)
       ELSE intake' = "idle" /\ size' = 0 /\ sent' = 0 /\ body' = 0 /\ gone' = FALSE
    /\ email' \in IF r.body /\ r.limiter = "email" THEN Emails \cup {None} ELSE {None}
    /\ cookie' \in {"good", "revoked", "expired", "absent"} /\ text' \in Texts
    /\ Writes(r, cookie', text')
    /\ phase' = "sent" /\ route' = r /\ todo' = r.asks
    /\ limited' = FALSE /\ requests' = requests + 1
    /\ UNCHANGED <<hits, made, changes>>
Forward(proxy) ==
    /\ phase = "sent" /\ Len(forwarded) < MaxForwarded
    /\ Hop(proxy)
    /\ UNCHANGED <<bodyVars, authVars, ownVars>>
Deliver ==
    /\ phase = "sent"
    /\ phase' = IF route.body THEN "body" ELSE "limit"
    /\ UNCHANGED <<addressVars, bodyVars, authVars, route, email, text, todo, hits, made, limited,
                   requests, changes>>

BodyMessage ==
    /\ phase = "body"
    /\ Disconnect \/ \E n \in 0..MaxChunk, more \in BOOLEAN : Receive(n, more)
    /\ phase' = IF intake' = "refused" THEN "done" ELSE phase
    /\ UNCHANGED <<addressVars, authVars, route, email, text, todo, hits, made, limited, requests, changes>>
\* The body is parsed before any dependency is looked at.
Parse ==
    /\ phase = "body"
    /\ Read
    /\ phase' = IF intake' = "read" THEN "limit" ELSE "done"
    /\ UNCHANGED <<addressVars, authVars, route, email, text, todo, hits, made, limited, requests, changes>>

\* What is limited beside the address: an e-mail, or the beginning of a cookie
\* that nobody has verified.
Subject(r, mail, chars) ==
    CASE r.limiter = "email" -> mail
      [] r.limiter \in {"logout", "refresh"} -> chars
      [] OTHER -> None
\* Deviation: the address is left out of the identifier.
IdentifierWithoutAddress(r, address, mail, chars) == <<r.limiter, Blank, Subject(r, mail, chars)>>
Identifier(r, address, mail, chars) == <<r.limiter, address, Subject(r, mail, chars)>>
Count(id, counters) == IF BagIn(id, counters) THEN counters[id] ELSE 0

\* A request that is turned away is not counted.
Limit ==
    /\ phase = "limit"
    /\ LET id == Identifier(route, GetRemoteAddress(peer, forwarded), email, text)
           full == Count(id, hits) >= Times
       IN IF route.limiter = "none"
          THEN phase' = "auth" /\ UNCHANGED <<hits, made, limited>>
          ELSE /\ phase' = IF full THEN "done" ELSE "auth"
               /\ limited' = full
               /\ hits' = IF full THEN hits ELSE hits (+) SetToBag({id})
               /\ made' = made (+) SetToBag({<<route.limiter, origin, email, text>>})
    /\ UNCHANGED <<addressVars, bodyVars, authVars, route, email, text, todo, requests, changes>>

Ask ==
    /\ phase = "auth" /\ todo # <<>>
    /\ Resolve(Head(todo)) /\ todo' = Tail(todo)
    /\ UNCHANGED <<addressVars, bodyVars, phase, route, email, text, hits, made, limited, requests, changes>>
Authenticate ==
    /\ phase = "auth"
    /\ Cached \/ NoCookieUser \/ LoadCookieUser \/ Validate
       \/ LookUpKey(GetRemoteAddress(peer, forwarded))
    /\ phase' = IF at' = "ended" THEN "done" ELSE phase
    /\ UNCHANGED <<addressVars, bodyVars, route, email, text, todo, hits, made, limited, requests, changes>>
Answer ==
    /\ phase = "auth" /\ at = "idle" /\ todo = <<>>
    /\ phase' = "done"
    /\ UNCHANGED <<addressVars, bodyVars, authVars, route, email, text, todo, hits, made, limited,
                   requests, changes>>

Meanwhile ==
    /\ phase = "auth" /\ changes < MaxChanges
    /\ \/ \E u \in Users, account \in AccountStates \cup {None} : ChangeAccount(u, account)
       \/ \E to \in {"revoked", "expired"} : LoseCookie(to)
       \/ LoseKey
    /\ changes' = changes + 1
    /\ UNCHANGED <<addressVars, bodyVars, phase, route, email, text, todo, hits, made, limited, requests>>

Serve == Deliver \/ Parse \/ Limit \/ Ask \/ Authenticate \/ Answer
Next ==
    \/ \E r \in Routes, client \in Clients, claims \in Claims : Begin(r, client, claims)
    \/ \E proxy \in Trusted : Forward(proxy)
    \/ BodyMessage
    \/ Serve
    \/ Meanwhile

\* The server goes on with a request it has; a client goes on with a body it
\* has begun, or its connection breaks.
Spec == Init /\ [][Next]_vars /\ WF_vars(Serve) /\ WF_vars(BodyMessage)
-----------------------------------------------------------------------------
\* Type: ids, rows and places are what they should be, and a dependency is being
\* resolved exactly when the resolution is somewhere (user.py).
TypeOK ==
    /\ origin \in Clients \cup {None} /\ peer \in Clients \cup Trusted \cup {None}
    /\ forwarded \in Seq(Hosts)
    /\ intake \in {"idle", "receiving", "captured", "refused", "read", "unreadable"}
    /\ size \in Nat /\ sent \in Nat /\ body \in Nat /\ requests \in Nat /\ changes \in Nat
    /\ gone \in BOOLEAN /\ key \in BOOLEAN /\ limited \in BOOLEAN
    /\ accounts \in [Users -> Account \cup {None}] /\ loaded \in [Users -> Account \cup {None}]
    /\ cookie \in {"good", "revoked", "expired", "absent"} /\ owner \in Users
    /\ cache \in [Sources -> Users \cup {None}]
    /\ at \in Sources \cup {"idle", "validating", "ended"} /\ (dep = None <=> at = "idle")
    /\ \A r \in results : r.user \in Users \cup {None}
    /\ phase \in {"idle", "sent", "body", "limit", "auth", "done"} /\ email \in Emails \cup {None}
    /\ text \in Texts

\* Whatever a client writes into X-Forwarded-For, an API token with an allowlist
\* admits only requests of a host on it (remote_address.py, api_token.py).
AllowlistHonoured ==
    \A r \in results : r.of.mode = "api_only" /\ r.user # None /\ Allowlist # {} => origin \in Allowlist

\* The limiter turns a client away exactly when that client has itself asked too
\* often with the e-mail, or with the cookie text, that it wrote: neither the
\* requests of others nor X-Forwarded-For count for it or hide it.  A new cookie
\* text is a new count, so /logout and /refresh bound each text and no client
\* (limiter_identifiers.py).
LimitedByOwnRequests ==
    phase \in {"auth", "done"} =>
    LET own == Count(<<route.limiter, origin, email, text>>, made)
    IN /\ limited => own > Times
       /\ phase = "auth" /\ route.limiter # "none" => own \in 1..Times

\* A body is refused only when more than the limit has come, and is unreadable
\* only when the client broke it off; what is read is what was sent
\* (save_request.py).
TurnedAwayForCause ==
    /\ intake = "refused" => sent > MaxBody
    /\ intake = "unreadable" => gone /\ sent < size
    /\ intake = "read" => sent = size /\ size <= MaxBody

\* However long a body is, the middleware holds no more of it than the limit and
\* one chunk (save_request.py).
BufferBounded == body <= MaxBody + MaxChunk

\* One request acts for one user: what its dependencies accept as the cookie's
\* user, or as anybody's, is one user, although the cookie may expire or its
\* user go between two of them (user.py, the cache).
OneIdentity ==
    \A r, s \in results :
        r.of.mode # "api_only" /\ s.of.mode # "api_only" /\ None \notin {r.user, s.user}
        => /\ r.user = s.user
           /\ r.of.mode = "access_only" => r.user = CookieUser

\* All that a request's dependencies let a user do rests on one state of the
\* account, and on one it had during the request (user.py, db.py).
OneSnapshot ==
    \A u \in Users :
        \E row \in seen[u] \cup {None} :
            \A r \in results : r.user = u => row # None /\ Admits(row, r.of)

\* A request that is sent is answered (save_request.py, user.py).
Answered == phase # "idle" ~> phase = "done"
=============================================================================
