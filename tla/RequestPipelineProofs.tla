------------------------ MODULE RequestPipelineProofs ------------------------
(***************************************************************************)
(* Theorems about RequestPipeline, for any clients, proxies, users, routes *)
(* and headers, any body limit, any rate limit and any bounds.             *)
(***************************************************************************)
EXTENDS RequestPipeline, TLAPS

-----------------------------------------------------------------------------
(* The body.                                                               *)

\* What the middleware holds is what has come, and no more than the limit
\* unless it refuses; after that, what became of the body says why.
BodyInv ==
    /\ size \in Nat /\ sent \in Nat /\ body \in Nat
    /\ intake \in {"idle", "receiving", "captured", "refused", "read", "unreadable"}
    /\ sent <= size
    /\ intake \in {"receiving", "captured"} => body = sent /\ body <= MaxBody
    /\ intake = "captured" => gone \/ sent = size
    /\ intake = "refused" => body = sent /\ MaxBody < body /\ body <= MaxBody + MaxChunk
    /\ intake \in {"idle", "read", "unreadable"} => body = 0
    /\ intake = "read" => sent = size /\ size <= MaxBody
    /\ intake = "unreadable" => gone /\ sent < size

\* A body that is opened keeps BodyInv.
LEMMA BodyOpen == \A n \in Sizes : Open(n) => BodyInv'
BY SizeAssumption DEF Open, BodyInv

\* A chunk that arrives is kept only while the body is within the limit.
LEMMA BodyReceive ==
    ASSUME BodyInv, NEW n \in 0..MaxChunk, NEW more \in BOOLEAN, Receive(n, more)
    PROVE  BodyInv'
<1>1. MaxBody \in Nat /\ MaxChunk \in Nat /\ n \in Nat /\ n <= MaxChunk
  BY SizeAssumption
<1>2. /\ intake = "receiving" /\ gone = FALSE /\ sent + n <= size
      /\ sent' = sent + n /\ body' = body + n /\ size' = size /\ gone' = gone
      /\ body = sent /\ body <= MaxBody
  BY DEF Receive, KeepChunk, BodyInv
<1>3. CASE body' > MaxBody
  BY <1>1, <1>2, <1>3 DEF Receive, KeepChunk, BodyInv
<1>4. CASE ~(body' > MaxBody) /\ more
  BY <1>1, <1>2, <1>4 DEF Receive, KeepChunk, BodyInv
<1>5. CASE ~(body' > MaxBody) /\ ~more
  BY <1>1, <1>2, <1>5 DEF Receive, KeepChunk, BodyInv
<1> QED BY <1>3, <1>4, <1>5

\* A body that breaks off or is read keeps BodyInv.
LEMMA BodyEnd == BodyInv /\ (Disconnect \/ Read) => BodyInv'
BY SizeAssumption DEF Disconnect, Read, BodyInv

\* Every step keeps BodyInv.
LEMMA BodyNext == BodyInv /\ [Next]_vars => BodyInv'
<1> SUFFICES ASSUME BodyInv, [Next]_vars PROVE BodyInv'
  OBVIOUS
<1>1. ASSUME NEW r \in Routes, NEW client \in Clients, NEW claims \in Claims,
             Begin(r, client, claims)
      PROVE  BodyInv'
  <2>1. CASE \E n \in Sizes : Open(n)
    BY <2>1, BodyOpen
  <2>2. CASE intake' = "idle" /\ size' = 0 /\ sent' = 0 /\ body' = 0 /\ gone' = FALSE
    BY <2>2 DEF BodyInv
  <2> QED BY <1>1, <2>1, <2>2 DEF Begin
<1>2. CASE BodyMessage
  BY <1>2, BodyEnd, BodyReceive DEF BodyMessage
<1>3. CASE Parse
  BY <1>3, BodyEnd DEF Parse
<1>4. CASE UNCHANGED bodyVars
  BY <1>4 DEF bodyVars, BodyInv
<1> QED BY <1>1, <1>2, <1>3, <1>4
        DEF Next, Serve, Forward, Deliver, Limit, Ask, Authenticate, Answer, Meanwhile, vars

\* However a body is cut into chunks, and whenever the client goes away: what is
\* held is bounded by the limit and one chunk (save_request.py).
THEOREM BufferCorrect == Spec => []BufferBounded
<1>1. Init => BodyInv
  BY DEF Init, BodyInv
<1>2. BodyInv => BufferBounded
  BY SizeAssumption DEF BodyInv, BufferBounded
<1> QED BY <1>1, <1>2, BodyNext, PTL DEF Spec

\* And a body is refused, unreadable or read only for the reason that there is
\* (save_request.py).
THEOREM TurnedAwayCorrect == Spec => []TurnedAwayForCause
<1>1. Init => BodyInv
  BY DEF Init, BodyInv
<1>2. BodyInv => TurnedAwayForCause
  BY DEF BodyInv, TurnedAwayForCause
<1> QED BY <1>1, <1>2, BodyNext, PTL DEF Spec

-----------------------------------------------------------------------------
(* Types.                                                                  *)

\* TypeOK says nothing of what a request still has to do, nor that a request
\* under way has a route and a peer.
Underway ==
    /\ todo \in Seq(Dependency) /\ dep \in Dependency \cup {None}
    /\ phase # "idle" =>
          route \in Routes /\ origin \in Clients /\ peer \in Clients \cup Trusted
    /\ at # "idle" => phase \in {"auth", "done"}
    /\ IsABag(hits) /\ IsABag(made)

TypeInv == TypeOK /\ Underway /\ BodyInv

\* A counter goes up by one where a request is counted, and nowhere else.
LEMMA CountAdd ==
    ASSUME NEW counters, IsABag(counters), NEW id
    PROVE  /\ IsABag(counters (+) SetToBag({id}))
           /\ \A x : Count(x, counters) \in Nat
           /\ \A x : Count(x, counters (+) SetToBag({id})) =
                        Count(x, counters) + (IF x = id THEN 1 ELSE 0)
<1>1. \A x : Count(x, counters) \in Nat
  BY DEF Count, BagIn, BagToSet, IsABag
<1>2. IsABag(counters (+) SetToBag({id}))
  BY DEF SetToBag, IsABag, (+)
<1>3. \A x : Count(x, counters (+) SetToBag({id})) =
                Count(x, counters) + (IF x = id THEN 1 ELSE 0)
  BY DEF Count, SetToBag, BagIn, BagToSet, IsABag, (+)
<1> QED BY <1>1, <1>2, <1>3

\* The part of it that the user dependencies work on.
AuthTypes ==
    /\ accounts \in [Users -> Account \cup {None}] /\ loaded \in [Users -> Account \cup {None}]
    /\ cookie \in {"good", "revoked", "expired", "absent"} /\ owner \in Users /\ key \in BOOLEAN
    /\ cache \in [Sources -> Users \cup {None}]
    /\ at \in Sources \cup {"idle", "validating", "ended"} /\ (dep = None <=> at = "idle")
    /\ dep \in Dependency \cup {None}
    /\ \A r \in results : r.user \in Users \cup {None}

\* The initial state has its types.
LEMMA TypeInit == Init => TypeInv
<1> SUFFICES ASSUME Init PROVE TypeInv
  OBVIOUS
<1>1. <<>> \in Seq(Hosts) /\ <<>> \in Seq(Dependency)
  OBVIOUS
<1>2. IsABag(EmptyBag)
  BY DEF EmptyBag, SetToBag, IsABag
<1>3. accounts \in [Users -> Account \cup {None}]
  BY TrialAssumption DEF Init
<1>4. AuthTypes /\ dep = None /\ at = "idle"
  BY <1>3 DEF Init, AuthTypes, Sources
<1>5. /\ size \in Nat /\ sent \in Nat /\ body \in Nat /\ requests \in Nat /\ changes \in Nat
      /\ gone \in BOOLEAN /\ key \in BOOLEAN /\ limited \in BOOLEAN
  BY DEF Init
<1>6. TypeOK
  BY <1>1, <1>4, <1>5, TextAssumption DEF Init, TypeOK, AuthTypes
<1>7. BodyInv
  BY DEF Init, BodyInv
<1> QED BY <1>1, <1>2, <1>4, <1>6, <1>7 DEF Init, TypeInv, Underway

\* Concluding a dependency, with a user or without, keeps the types.
LEMMA ConcludeTypes ==
    ASSUME AuthTypes, at # "idle", NEW u \in Users, NEW row, Conclude(u, row) \/ Raise
    PROVE  /\ at' \in {"idle", "ended"} /\ (dep' = None <=> at' = "idle")
           /\ dep' \in Dependency \cup {None}
           /\ \A r \in results' : r.user \in Users \cup {None}
BY DEF AuthTypes, Conclude, Raise

\* So does every step of a resolution.
LEMMA AuthenticateTypes ==
    ASSUME AuthTypes, NEW address,
           Cached \/ NoCookieUser \/ LoadCookieUser \/ Validate \/ LookUpKey(address)
    PROVE  AuthTypes'
<1>1. CASE Cached
  <2>1. at # "idle" /\ cache[at] \in Users
    BY <1>1 DEF Cached, AuthTypes, Sources
  <2> QED BY <1>1, <2>1, ConcludeTypes DEF Cached, AuthTypes, World
<1>2. CASE NoCookieUser
  <2>1. at = "access"
    BY <1>2 DEF NoCookieUser, Uncached
  <2>2. CASE Raise
    BY <1>2, <2>1, <2>2, UserAssumption, ConcludeTypes DEF NoCookieUser, AuthTypes, World
  <2>3. CASE at' = "api" /\ UNCHANGED <<dep, results>>
    BY <1>2, <2>1, <2>3 DEF NoCookieUser, AuthTypes, World, Sources
  <2> QED BY <1>2, <2>2, <2>3 DEF NoCookieUser
<1>3. CASE LoadCookieUser
  BY <1>3, UserAssumption DEF LoadCookieUser, Uncached, Load, AuthTypes, World, Sources
<1>4. CASE Validate
  <2>1. at = "validating" /\ (Raise \/ Conclude(CookieUser, loaded[CookieUser]))
    BY <1>4 DEF Validate
  <2>2. cache' \in [Sources -> Users \cup {None}]
    BY <1>4, UserAssumption DEF Validate, AuthTypes
  <2> QED BY <1>4, <2>1, <2>2, UserAssumption, ConcludeTypes DEF Validate, AuthTypes, World
<1>5. CASE LookUpKey(address)
  <2>1. at = "api" /\ (Raise \/ Conclude(owner, loaded'[owner]))
    BY <1>5 DEF LookUpKey, Uncached
  <2>2. /\ cache' \in [Sources -> Users \cup {None}]
        /\ loaded' \in [Users -> Account \cup {None}]
    BY <1>5 DEF LookUpKey, AuthTypes, Load
  <2>3. owner \in Users
    BY DEF AuthTypes
  <2> QED BY <1>5, <2>1, <2>2, <2>3, ConcludeTypes DEF LookUpKey, AuthTypes, World
<1> QED BY <1>1, <1>2, <1>3, <1>4, <1>5

\* Every step keeps the types.
LEMMA TypeNext == TypeInv /\ [Next]_vars => TypeInv'
<1> SUFFICES ASSUME TypeInv, [Next]_vars PROVE TypeOK' /\ Underway'
  BY BodyNext DEF TypeInv
<1> USE DEF TypeInv, TypeOK, Underway
<1>0. AuthTypes
  BY DEF AuthTypes
<1>b. BodyInv' /\ size' \in Nat /\ sent' \in Nat /\ body' \in Nat
      /\ intake' \in {"idle", "receiving", "captured", "refused", "read", "unreadable"}
  BY BodyNext DEF BodyInv
<1>1. ASSUME NEW r \in Routes, NEW client \in Clients, NEW claims \in Claims,
             Begin(r, client, claims)
      PROVE  TypeOK' /\ Underway'
  <2>1. claims \in Seq(Hosts) /\ r.asks \in Seq(Dependency)
    BY TrialAssumption, RouteAssumption
  <2>2. /\ email' \in Emails \cup {None} /\ text' \in Texts
        /\ cookie' \in {"good", "revoked", "expired", "absent"}
    BY <1>1 DEF Begin
  <2>3. gone' \in BOOLEAN /\ limited' \in BOOLEAN
    BY <1>1, Zenon DEF Begin, Open
  <2> QED BY <1>1, <1>b, <2>1, <2>2, <2>3 DEF Begin, Send, Start
<1>2. ASSUME NEW proxy \in Trusted, Forward(proxy)
      PROVE  TypeOK' /\ Underway'
  <2>1. forwarded' \in Seq(Hosts)
    BY <1>2 DEF Forward, Hop, Hosts
  <2> QED BY <1>2, <2>1 DEF Forward, Hop, bodyVars, authVars, ownVars
<1>3. CASE Deliver
  BY <1>3 DEF Deliver, addressVars, bodyVars, authVars
<1>4. CASE BodyMessage
  <2>1. gone' \in BOOLEAN
    BY <1>4, Zenon DEF BodyMessage, Disconnect, Receive
  <2> QED BY <1>4, <1>b, <2>1 DEF BodyMessage, addressVars, authVars
<1>5. CASE Parse
  <2>1. gone' \in BOOLEAN
    BY <1>5 DEF Parse, Read
  <2> QED BY <1>5, <1>b, <2>1 DEF Parse, addressVars, authVars
<1>6. CASE Limit
  <2>1. IsABag(hits') /\ IsABag(made') /\ limited' \in BOOLEAN /\ phase' \in {"auth", "done"}
    <3> DEFINE id == Identifier(route, GetRemoteAddress(peer, forwarded), email, text)
               full == Count(id, hits) >= Times
    <3>1. full \in BOOLEAN
      OBVIOUS
    <3>2. limited' = limited \/ limited' = full
      BY <1>6, Zenon DEF Limit
    <3>3. limited' \in BOOLEAN
      BY <3>1, <3>2, Zenon
    <3>4. phase' \in {"auth", "done"}
      BY <1>6, Zenon DEF Limit
    <3>5. /\ hits' = hits \/ \E x : hits' = hits (+) SetToBag({x})
          /\ made' = made \/ \E x : made' = made (+) SetToBag({x})
      BY <1>6, Zenon DEF Limit
    <3>6. \A x : IsABag(hits (+) SetToBag({x})) /\ IsABag(made (+) SetToBag({x}))
      BY CountAdd
    <3>7. IsABag(hits') /\ IsABag(made')
      BY <3>5, <3>6
    <3> QED BY <3>3, <3>4, <3>7
  <2> QED BY <1>6, <2>1 DEF Limit, addressVars, bodyVars, authVars
<1>7. CASE Ask
  <2>1. Head(todo) \in Dependency /\ Tail(todo) \in Seq(Dependency) /\ Head(todo) # None
    BY <1>7, UserAssumption DEF Ask
  <2> QED BY <1>7, <2>1 DEF Ask, Resolve, World, addressVars, bodyVars, Sources
<1>8. CASE Authenticate
  <2>1. AuthTypes'
    BY <1>0, <1>8, AuthenticateTypes DEF Authenticate
  <2> QED BY <1>8, <2>1 DEF Authenticate, AuthTypes, addressVars, bodyVars
<1>9. CASE Answer
  BY <1>9 DEF Answer, addressVars, bodyVars, authVars
<1>10. CASE Meanwhile
  <2>1. accounts' \in [Users -> Account \cup {None}]
        /\ cookie' \in {"good", "revoked", "expired", "absent"} /\ key' \in BOOLEAN
        /\ UNCHANGED <<owner, loaded, cache, dep, at, results>>
    <3>1. ASSUME NEW u \in Users, NEW account \in AccountStates \cup {None}, ChangeAccount(u, account)
          PROVE  accounts' \in [Users -> Account \cup {None}]
      BY <3>1, TrialAssumption DEF ChangeAccount
    <3> QED BY <1>10, <3>1 DEF Meanwhile, ChangeAccount, LoseCookie, LoseKey
  <2> QED BY <1>10, <2>1 DEF Meanwhile, addressVars, bodyVars
<1>11. CASE UNCHANGED vars
  BY <1>11 DEF vars, addressVars, bodyVars, authVars, ownVars
<1> QED BY <1>b, <1>1, <1>2, <1>3, <1>4, <1>5, <1>6, <1>7, <1>8, <1>9, <1>10, <1>11 DEF Next, Serve

\* TypeOK holds of every behaviour: what is resolved, counted and forwarded has
\* the types the code relies on (user.py, remote_address.py).
THEOREM TypeCorrect == Spec => []TypeOK
<1>1. TypeInv => TypeOK
  BY DEF TypeInv
<1> QED BY <1>1, TypeInit, TypeNext, PTL DEF Spec

-----------------------------------------------------------------------------
(* The address.                                                            *)

\* Either the client is still the peer, or what follows it in the header are
\* proxies only.
AddressInv ==
    phase # "idle" =>
        \/ peer = origin
        \/ /\ peer \in Trusted
           /\ \E i \in DOMAIN forwarded :
                 /\ forwarded[i] = origin
                 /\ \A j \in DOMAIN forwarded : j > i => forwarded[j] \in Trusted

\* AddressInv holds at the start.
LEMMA AddressInit == Init => AddressInv
BY DEF Init, AddressInv

\* Every step keeps AddressInv: proxies append what they saw, and nobody else writes.
LEMMA AddressNext == TypeInv /\ AddressInv /\ [Next]_vars => AddressInv'
<1> SUFFICES ASSUME TypeInv, AddressInv, [Next]_vars PROVE AddressInv'
  OBVIOUS
<1>1. ASSUME NEW r \in Routes, NEW client \in Clients, NEW claims \in Claims,
             Begin(r, client, claims)
      PROVE  AddressInv'
  BY <1>1 DEF Begin, Send, AddressInv
<1>2. ASSUME NEW proxy \in Trusted, Forward(proxy)
      PROVE  AddressInv'
  <2>1. /\ phase = "sent" /\ peer' = proxy /\ origin' = origin
        /\ forwarded \in Seq(Hosts) /\ peer \in Hosts /\ forwarded' = Append(forwarded, peer)
    BY <1>2 DEF Forward, Hop, TypeInv, TypeOK, Underway, Hosts
  <2>2. /\ Len(forwarded) \in Nat /\ DOMAIN forwarded = 1..Len(forwarded)
        /\ DOMAIN forwarded' = 1..(Len(forwarded) + 1)
        /\ forwarded'[Len(forwarded) + 1] = peer
        /\ \A j \in DOMAIN forwarded : forwarded'[j] = forwarded[j]
    BY <2>1
  <2>3. CASE peer = origin
    <3>1. Len(forwarded) + 1 \in DOMAIN forwarded'
      BY <2>2
    <3>2. \A j \in DOMAIN forwarded' : ~(j > Len(forwarded) + 1)
      BY <2>2
    <3> QED BY <2>1, <2>2, <2>3, <3>1, <3>2 DEF AddressInv
  <2>4. CASE peer # origin
    <3>1. PICK i \in DOMAIN forwarded :
             /\ peer \in Trusted /\ forwarded[i] = origin
             /\ \A j \in DOMAIN forwarded : j > i => forwarded[j] \in Trusted
      BY <2>1, <2>4 DEF AddressInv
    <3>2. i \in DOMAIN forwarded' /\ forwarded'[i] = origin'
      BY <2>1, <2>2, <3>1
    <3>3. \A j \in DOMAIN forwarded' : j > i => forwarded'[j] \in Trusted
      <4> SUFFICES ASSUME NEW j \in DOMAIN forwarded', j > i PROVE forwarded'[j] \in Trusted
        OBVIOUS
      <4>1. j \in DOMAIN forwarded \/ j = Len(forwarded) + 1
        BY <2>2
      <4> QED BY <2>2, <3>1, <4>1
    <3> QED BY <2>1, <3>2, <3>3 DEF AddressInv
  <2> QED BY <2>3, <2>4
<1>3. CASE UNCHANGED addressVars /\ phase # "idle"
  BY <1>3 DEF addressVars, AddressInv
<1>4. CASE UNCHANGED vars
  BY <1>4 DEF vars, addressVars, ownVars, AddressInv
<1> QED BY <1>1, <1>2, <1>3, <1>4
        DEF Next, Serve, BodyMessage, Parse, Deliver, Limit, Ask, Authenticate, Answer, Meanwhile

\* So the address that is looked for is the client's own, whatever it claims.
LEMMA AddressIsOrigin ==
    TypeInv /\ AddressInv /\ phase # "idle" => GetRemoteAddress(peer, forwarded) = origin
<1> SUFFICES ASSUME TypeInv, AddressInv, phase # "idle"
             PROVE  GetRemoteAddress(peer, forwarded) = origin
  OBVIOUS
<1>1. origin \in Clients /\ origin \notin Trusted \cup {Blank} /\ forwarded \in Seq(Hosts)
  BY TrustAssumption DEF TypeInv, TypeOK, Underway
<1>2. CASE peer = origin
  BY <1>1, <1>2 DEF GetRemoteAddress
<1>3. CASE peer # origin
  <2> DEFINE claims == {k \in DOMAIN forwarded : forwarded[k] \notin Trusted \cup {Blank}}
  <2>1. PICK i \in DOMAIN forwarded :
           /\ peer \in Trusted /\ forwarded[i] = origin
           /\ \A j \in DOMAIN forwarded : j > i => forwarded[j] \in Trusted
    BY <1>3 DEF AddressInv
  <2>2. DOMAIN forwarded \subseteq Nat /\ forwarded # <<>>
    BY <1>1, <2>1
  <2>3. i \in claims /\ \A k \in claims : i >= k
    BY <1>1, <2>1, <2>2
  <2>4. \A x \in claims : (\A y \in claims : x >= y) => x = i
    BY <2>2, <2>3
  <2>5. Max(claims) = i
    BY <2>3, <2>4 DEF Max
  <2> HIDE DEF claims
  <2>6. GetRemoteAddress(peer, forwarded) = forwarded[i]
    BY <2>1, <2>2, <2>3, <2>5 DEF GetRemoteAddress, claims
  <2> QED BY <2>1, <2>6
<1> QED BY <1>2, <1>3

-----------------------------------------------------------------------------
(* Who the request acts for.                                               *)

\* The cookie can name nobody any more, and has not.
NoCookie == cache["access"] = None /\ (cookie = "absent" \/ accounts[CookieUser] = None)
Accepted == {r \in results : r.of.mode # "api_only" /\ r.user # None}

\* Whom the cookie named once, it names for the whole request; the API token
\* has its turn in mode "any" only when the cookie names nobody for good.
IdentityInv ==
    /\ cache["access"] \in {None, CookieUser} /\ cache["api"] \in {None, owner}
    /\ \A r \in Accepted :
          \/ r.user = CookieUser /\ cache["access"] = CookieUser
          \/ r.user = owner /\ r.of.mode # "access_only" /\ NoCookie
    /\ at = "access" => dep.mode # "api_only"
    /\ at = "api" /\ dep.mode # "api_only" => dep.mode # "access_only" /\ NoCookie
    /\ at = "validating" => dep.mode # "api_only" /\ cache["access"] = None /\ Accepted = {}

\* A dependency that ends adds at most its own result.
LEMMA RaiseEnds ==
    Raise => at' \in {"idle", "ended"} /\ \A r \in results' : r \in results \/ r.user = None
BY DEF Raise

\* A dependency that concludes adds a refusal, or its user if the row admits it.
LEMMA ConcludeEnds ==
    ASSUME NEW u, NEW row, Conclude(u, row)
    PROVE  /\ at' \in {"idle", "ended"}
           /\ \A r \in results' :
                 r \in results \/ r.user = None \/ (r.user = u /\ r.of = dep /\ Admits(row, dep))
BY RaiseEnds DEF Conclude

\* Nothing but the resolution of a dependency and the world outside touches what
\* the user dependencies keep.
LEMMA AuthSteps ==
    ASSUME TypeInv, [Next]_vars
    PROVE  \/ Start /\ phase' = "sent"
           \/ Ask
           \/ Authenticate
           \/ Meanwhile
           \/ UNCHANGED <<authVars, origin>> /\ (phase' = "idle" <=> phase = "idle")
BY DEF Next, Serve, Begin, Forward, Hop, Deliver, BodyMessage, Parse, Limit, Answer, vars, ownVars,
       addressVars, TypeInv, TypeOK

\* Every step keeps IdentityInv.
LEMMA IdentityNext == TypeInv /\ IdentityInv /\ [Next]_vars => IdentityInv'
<1> SUFFICES ASSUME TypeInv, IdentityInv, [Next]_vars PROVE IdentityInv'
  OBVIOUS
<1>t. cache \in [Sources -> Users \cup {None}] /\ dep \in Dependency \cup {None} /\ owner \in Users
      /\ CookieUser # None /\ "access" \in Sources /\ "api" \in Sources
      /\ accounts \in [Users -> Account \cup {None}] /\ CookieUser \in Users
  BY UserAssumption DEF TypeInv, TypeOK, Underway, Sources
<1>1. CASE Start
  <2>1. cache' = [s \in Sources |-> None] /\ at' = "idle" /\ results' = {}
    BY <1>1 DEF Start
  <2> QED BY <2>1, <1>t DEF IdentityInv, Accepted
<1>2. CASE Ask
  <2>1. UNCHANGED <<World, cache, results>> /\ (at' = IF dep'.mode = "api_only" THEN "api" ELSE "access")
    BY <1>2 DEF Ask, Resolve
  <2> QED BY <2>1 DEF IdentityInv, Accepted, NoCookie, World
<1>3. CASE Cached
  <2>1. /\ at \in Sources /\ UNCHANGED <<cache, World>> /\ at' \in {"idle", "ended"}
        /\ cache[at] # None
        /\ \A r \in results' : r \in results \/ r.user = None \/ (r.user = cache[at] /\ r.of = dep)
    BY <1>3, ConcludeEnds DEF Cached
  <2> QED BY <1>t, <2>1 DEF IdentityInv, Accepted, NoCookie, World, Sources
<1>4. CASE NoCookieUser
  <2>1. at = "access" /\ cache["access"] = None /\ UNCHANGED <<World, cache>>
    BY <1>4 DEF NoCookieUser, Uncached
  <2>2. CASE Raise
    BY <2>1, <2>2, RaiseEnds DEF IdentityInv, Accepted, NoCookie, World
  <2>3. CASE /\ cookie = "absent" \/ accounts[CookieUser] = None
             /\ dep.mode = "any" /\ at' = "api" /\ UNCHANGED <<dep, results>>
    BY <2>1, <2>3 DEF IdentityInv, Accepted, NoCookie, World
  <2> QED BY <1>4, <2>2, <2>3 DEF NoCookieUser
<1>5. CASE LoadCookieUser
  <2>1. /\ at = "access" /\ cache["access"] = None /\ ~NoCookie /\ at' = "validating"
        /\ UNCHANGED <<World, cache, dep, results>>
    BY <1>5 DEF LoadCookieUser, Uncached, NoCookie
  <2>2. Accepted = {}
    BY <1>t, <2>1 DEF IdentityInv
  <2> QED BY <2>1, <2>2 DEF IdentityInv, Accepted, NoCookie, World
<1>6. CASE Validate
  <2>1. at = "validating" /\ UNCHANGED World /\ Accepted = {} /\ dep.mode # "api_only"
    BY <1>6 DEF Validate, IdentityInv
  <2>2. CASE Raise /\ UNCHANGED cache
    BY <2>1, <2>2, RaiseEnds DEF IdentityInv, Accepted, NoCookie, World
  <2>3. CASE /\ cache' = [cache EXCEPT !["access"] = CookieUser]
             /\ Conclude(CookieUser, loaded[CookieUser])
    <3>1. /\ at' \in {"idle", "ended"}
          /\ \A r \in Accepted' : r.user = CookieUser
      BY <2>1, <2>3, ConcludeEnds DEF Accepted
    <3>2. cache'["access"] = CookieUser /\ cache'["api"] = cache["api"]
      BY <1>t, <2>3
    <3> QED BY <2>1, <3>1, <3>2 DEF IdentityInv, World
  <2> QED BY <1>6, <2>2, <2>3 DEF Validate
<1>7. ASSUME NEW address, LookUpKey(address)
      PROVE  IdentityInv'
  <2>1. at = "api" /\ UNCHANGED World
    BY <1>7 DEF LookUpKey, Uncached
  <2>2. CASE Raise /\ UNCHANGED cache
    BY <2>1, <2>2, RaiseEnds DEF IdentityInv, Accepted, NoCookie, World
  <2>3. CASE cache' = [cache EXCEPT !["api"] = owner] /\ Conclude(owner, loaded'[owner])
    <3>1. /\ at' \in {"idle", "ended"}
          /\ \A r \in results' : r \in results \/ r.user = None \/ (r.user = owner /\ r.of = dep)
      BY <2>3, ConcludeEnds
    <3>2. cache'["access"] = cache["access"] /\ cache'["api"] = owner
      BY <1>t, <2>3
    <3> QED BY <2>1, <3>1, <3>2 DEF IdentityInv, World, Accepted, NoCookie
  <2> QED BY <1>7, <2>2, <2>3 DEF LookUpKey
<1>8. CASE Meanwhile
  <2>1. UNCHANGED <<owner, cache, dep, at, results>>
    BY <1>8 DEF Meanwhile, ChangeAccount, LoseCookie, LoseKey
  <2>2. cookie = "absent" => cookie' = "absent"
    BY <1>8 DEF Meanwhile, ChangeAccount, LoseCookie, LoseKey
  <2>3. accounts[CookieUser] = None => accounts'[CookieUser] = None
    <3>1. ASSUME NEW u \in Users, NEW account, ChangeAccount(u, account), accounts[CookieUser] = None
          PROVE  accounts'[CookieUser] = None
      BY <1>t, <3>1 DEF ChangeAccount
    <3> QED BY <1>8, <3>1 DEF Meanwhile, LoseCookie, LoseKey
  <2> QED BY <2>1, <2>2, <2>3 DEF IdentityInv, Accepted, NoCookie
<1>9. CASE UNCHANGED authVars
  BY <1>9 DEF authVars, IdentityInv, Accepted, NoCookie
<1> QED BY <1>1, <1>2, <1>3, <1>4, <1>5, <1>6, <1>7, <1>8, <1>9, AuthSteps DEF Authenticate

\* One request acts for one user, whatever becomes of the cookie and of its user
\* between two dependencies (user.py).
THEOREM IdentityCorrect == Spec => []OneIdentity
<1>1. Init => IdentityInv
  BY DEF Init, IdentityInv, Accepted, Sources
<1>2. TypeInv /\ IdentityInv => OneIdentity
  BY UserAssumption DEF IdentityInv, Accepted, NoCookie, OneIdentity
<1> QED BY <1>1, <1>2, TypeInit, TypeNext, IdentityNext, PTL DEF Spec

-----------------------------------------------------------------------------
(* What the request sees of an account.                                    *)

\* What the session has loaded stays as it was when it was loaded, and whatever
\* a dependency lets through it has judged by that.
SnapshotInv ==
    /\ seen \in [Users -> SUBSET Account]
    /\ phase # "idle" =>
          \A u \in Users : (accounts[u] # None => accounts[u] \in seen[u]) /\
                           (loaded[u] # None => loaded[u] \in seen[u])
    /\ \A r \in results : r.user # None => loaded[r.user] # None /\ Admits(loaded[r.user], r.of)
    /\ \A s \in Sources : cache[s] # None => loaded[cache[s]] # None
    /\ at = "validating" => loaded[CookieUser] # None
    /\ phase = "idle" => results = {}

\* A row that is there is loaded, or was already, and then is what it was.
LEMMA LoadKeeps ==
    ASSUME TypeInv, SnapshotInv, phase # "idle", UNCHANGED <<accounts, seen>>,
           NEW u \in Users, Load(u), accounts[u] # None
    PROVE  /\ \A v \in Users : loaded'[v] # None => loaded'[v] \in seen[v]
           /\ \A v \in Users : loaded[v] # None => loaded'[v] = loaded[v]
           /\ loaded'[u] # None
BY DEF TypeInv, TypeOK, SnapshotInv, Load

\* Every step keeps SnapshotInv.
LEMMA SnapshotNext == TypeInv /\ SnapshotInv /\ [Next]_vars => SnapshotInv'
<1> SUFFICES ASSUME TypeInv, SnapshotInv, [Next]_vars PROVE SnapshotInv'
  OBVIOUS
<1>t. /\ cache \in [Sources -> Users \cup {None}] /\ owner \in Users /\ CookieUser \in Users
      /\ None \notin Users /\ None \notin Account
      /\ accounts \in [Users -> Account \cup {None}] /\ loaded \in [Users -> Account \cup {None}]
      /\ "access" \in Sources /\ "api" \in Sources
      /\ \A r \in results : r.user \in Users \cup {None}
  BY UserAssumption DEF TypeInv, TypeOK, Sources
<1>1. CASE Start /\ phase' = "sent"
  <2>1. /\ loaded' = [u \in Users |-> None] /\ cache' = [s \in Sources |-> None]
        /\ at' = "idle" /\ results' = {} /\ accounts' = accounts
        /\ seen' = [u \in Users |-> {accounts[u]} \ {None}]
    BY <1>1 DEF Start, Rows
  <2> QED BY <2>1, <1>t DEF SnapshotInv
<1>2. CASE Ask
  BY <1>2 DEF Ask, Resolve, World, SnapshotInv
<1>3. CASE Authenticate /\ Cached
  <2>1. at \in Sources /\ cache[at] \in Users /\ loaded[cache[at]] # None
    BY <1>3, <1>t DEF Cached, SnapshotInv
  <2>2. UNCHANGED <<World, loaded, cache>> /\ at' # "validating"
        /\ \A r \in results' : r \in results \/ r.user = None
               \/ (r.user = cache[at] /\ Admits(loaded[cache[at]], r.of))
    BY <1>3, ConcludeEnds DEF Cached
  <2>3. phase # "idle" /\ phase' # "idle"
    BY <1>3 DEF Authenticate
  <2> QED BY <2>1, <2>2, <2>3 DEF SnapshotInv, World
<1>4. CASE Authenticate /\ NoCookieUser
  <2>1. UNCHANGED <<World, loaded, cache>> /\ at' # "validating"
        /\ \A r \in results' : r \in results \/ r.user = None
    BY <1>4, RaiseEnds DEF NoCookieUser
  <2>2. phase # "idle" /\ phase' # "idle"
    BY <1>4 DEF Authenticate
  <2> QED BY <2>1, <2>2 DEF SnapshotInv, World
<1>5. CASE Authenticate /\ LoadCookieUser
  <2>1. /\ Load(CookieUser) /\ accounts[CookieUser] # None /\ UNCHANGED <<World, cache, results>>
    BY <1>5 DEF LoadCookieUser
  <2>2. phase # "idle" /\ phase' # "idle"
    BY <1>5 DEF Authenticate
  <2>3. UNCHANGED <<accounts, seen>>
    BY <2>1 DEF World
  <2>4. /\ \A v \in Users : loaded'[v] # None => loaded'[v] \in seen[v]
        /\ \A v \in Users : loaded[v] # None => loaded'[v] = loaded[v]
        /\ loaded'[CookieUser] # None
    BY <1>t, <2>1, <2>2, <2>3, LoadKeeps
  <2> QED BY <1>t, <2>1, <2>2, <2>3, <2>4 DEF SnapshotInv
<1>6. CASE Authenticate /\ Validate
  <2>1. /\ at = "validating" /\ UNCHANGED <<World, loaded>> /\ loaded[CookieUser] # None
        /\ Raise \/ Conclude(CookieUser, loaded[CookieUser])
        /\ cache' = cache \/ cache' = [cache EXCEPT !["access"] = CookieUser]
    BY <1>6 DEF Validate, SnapshotInv
  <2>2. /\ at' # "validating"
        /\ \A r \in results' : r \in results \/ r.user = None
               \/ (r.user = CookieUser /\ Admits(loaded[CookieUser], r.of))
    BY <2>1, RaiseEnds, ConcludeEnds
  <2>3. \A s \in Sources : cache'[s] = cache[s] \/ cache'[s] = CookieUser
    BY <1>t, <2>1
  <2>4. phase # "idle" /\ phase' # "idle"
    BY <1>6 DEF Authenticate
  <2> QED BY <2>1, <2>2, <2>3, <2>4 DEF SnapshotInv, World
<1>7. ASSUME Authenticate, NEW address, LookUpKey(address)
      PROVE  SnapshotInv'
  <2>1. UNCHANGED <<accounts, seen>> /\ phase # "idle" /\ phase' # "idle"
    BY <1>7 DEF LookUpKey, World, Authenticate
  <2>2. CASE Raise /\ UNCHANGED <<loaded, cache>>
    BY <2>1, <2>2, RaiseEnds DEF SnapshotInv
  <2>3. CASE /\ accounts[owner] # None /\ Load(owner) /\ cache' = [cache EXCEPT !["api"] = owner]
             /\ Conclude(owner, loaded'[owner])
    <3>1. /\ \A v \in Users : loaded'[v] # None => loaded'[v] \in seen[v]
          /\ \A v \in Users : loaded[v] # None => loaded'[v] = loaded[v]
          /\ loaded'[owner] # None
      BY <1>t, <2>1, <2>3, LoadKeeps
    <3>2. /\ at' # "validating"
          /\ \A r \in results' : r \in results \/ r.user = None
                 \/ (r.user = owner /\ Admits(loaded'[owner], r.of))
      BY <2>3, ConcludeEnds
    <3>3. \A s \in Sources : cache'[s] = cache[s] \/ cache'[s] = owner
      BY <1>t, <2>3
    <3>4. \A r \in results' : r.user # None => loaded'[r.user] # None /\ Admits(loaded'[r.user], r.of)
      BY <1>t, <3>1, <3>2 DEF SnapshotInv
    <3>5. \A s \in Sources : cache'[s] # None => loaded'[cache'[s]] # None
      BY <1>t, <3>1, <3>3 DEF SnapshotInv
    <3> QED BY <2>1, <3>1, <3>2, <3>4, <3>5 DEF SnapshotInv
  <2> QED BY <1>7, <2>2, <2>3 DEF LookUpKey
<1>8. CASE Meanwhile
  <2>1. UNCHANGED <<loaded, cache, at, results, phase>>
    BY <1>8 DEF Meanwhile, ChangeAccount, LoseCookie, LoseKey
  <2>2. ASSUME NEW u \in Users, NEW account \in AccountStates \cup {None}, ChangeAccount(u, account)
        PROVE  SnapshotInv'
    <3>1. /\ account \in Account \cup {None}
          /\ accounts' = [accounts EXCEPT ![u] = account]
          /\ seen' = [seen EXCEPT ![u] = @ \cup ({account} \ {None})]
      BY <2>2, TrialAssumption DEF ChangeAccount
    <3>2. seen' \in [Users -> SUBSET Account] /\ \A v \in Users : seen[v] \subseteq seen'[v]
      BY <3>1 DEF SnapshotInv
    <3>3. \A v \in Users : accounts'[v] = accounts[v] \/ accounts'[v] = None \/ accounts'[v] \in seen'[v]
      BY <1>t, <3>1 DEF SnapshotInv
    <3> QED BY <2>1, <3>2, <3>3 DEF SnapshotInv
  <2>3. CASE UNCHANGED <<accounts, seen>>
    BY <2>1, <2>3 DEF SnapshotInv
  <2> QED BY <1>8, <2>2, <2>3 DEF Meanwhile, LoseCookie, LoseKey
<1>9. CASE UNCHANGED authVars /\ (phase' = "idle" <=> phase = "idle")
  BY <1>9 DEF authVars, SnapshotInv
<1> QED BY <1>1, <1>2, <1>3, <1>4, <1>5, <1>6, <1>7, <1>8, <1>9, AuthSteps DEF Authenticate

\* All that the dependencies let a user do rests on one state of the account,
\* and the account was in it during the request (user.py, db.py).
THEOREM SnapshotCorrect == Spec => []OneSnapshot
<1>1. Init => SnapshotInv
  BY DEF Init, SnapshotInv, Sources
<1>2. TypeInv /\ SnapshotInv => OneSnapshot
  <2> SUFFICES ASSUME TypeInv, SnapshotInv, NEW u \in Users
               PROVE  \E row \in seen[u] \cup {None} :
                          \A r \in results : r.user = u => row # None /\ Admits(row, r.of)
    BY DEF OneSnapshot
  <2>1. u # None
    BY UserAssumption
  <2>2. CASE phase = "idle"
    BY <2>2 DEF SnapshotInv
  <2>3. CASE phase # "idle" /\ loaded[u] # None
    BY <2>1, <2>3 DEF SnapshotInv
  <2>4. CASE loaded[u] = None
    BY <2>1, <2>4 DEF SnapshotInv
  <2> QED BY <2>2, <2>3, <2>4
<1> QED BY <1>1, <1>2, TypeInit, TypeNext, SnapshotNext, PTL DEF Spec

-----------------------------------------------------------------------------
(* The allowlist of an API token.                                          *)

OnAllowlist == Allowlist = {} \/ origin \in Allowlist

\* The cache holds the API token's owner only when the address was admitted.
AllowInv ==
    /\ cache["api"] # None => OnAllowlist
    /\ \A r \in results : r.of.mode = "api_only" /\ r.user # None => OnAllowlist
    /\ at \in {"access", "validating"} => dep.mode # "api_only"

\* Every step keeps AllowInv, the address being resolved as AddressInv says.
LEMMA AllowNext == TypeInv /\ AddressInv /\ AllowInv /\ [Next]_vars => AllowInv'
<1> SUFFICES ASSUME TypeInv, AddressInv, AllowInv, [Next]_vars PROVE AllowInv'
  OBVIOUS
<1>t. cache \in [Sources -> Users \cup {None}] /\ "access" \in Sources /\ "api" \in Sources
  BY DEF TypeInv, TypeOK, Sources
<1>1. CASE Start
  BY <1>1, <1>t DEF Start, AllowInv
<1>2. CASE Ask
  BY <1>2 DEF Ask, Resolve, addressVars, AllowInv, OnAllowlist
<1>3. CASE Authenticate
  <2>1. phase # "idle" /\ GetRemoteAddress(peer, forwarded) = origin /\ origin' = origin
    BY <1>3, AddressIsOrigin DEF Authenticate, addressVars
  <2>2. CASE Cached
    <3>1. /\ at' \in {"idle", "ended"} /\ cache' = cache /\ at \in Sources
          /\ \A r \in results' : r \in results \/ r.user = None \/ (r.of = dep /\ r.user = cache[at])
      BY <2>2, ConcludeEnds DEF Cached
    <3> QED BY <2>1, <3>1 DEF AllowInv, OnAllowlist, Sources
  <2>3. CASE NoCookieUser
    <3>1. /\ at' \in {"idle", "ended", "api"} /\ cache' = cache
          /\ \A r \in results' : r \in results \/ r.user = None
      BY <2>3, RaiseEnds DEF NoCookieUser
    <3> QED BY <2>1, <3>1 DEF AllowInv, OnAllowlist
  <2>4. CASE LoadCookieUser
    BY <2>1, <2>4 DEF LoadCookieUser, Uncached, AllowInv, OnAllowlist
  <2>5. CASE Validate
    <3>1. /\ at = "validating" /\ at' \in {"idle", "ended"} /\ cache'["api"] = cache["api"]
          /\ \A r \in results' : r \in results \/ r.user = None \/ r.of = dep
      BY <2>5, <1>t, RaiseEnds, ConcludeEnds DEF Validate
    <3> QED BY <2>1, <3>1 DEF AllowInv, OnAllowlist
  <2>6. CASE LookUpKey(GetRemoteAddress(peer, forwarded))
    <3>1. CASE Raise /\ UNCHANGED cache
      BY <2>1, <3>1, RaiseEnds DEF AllowInv, OnAllowlist
    <3>2. CASE OnAllowlist /\ Conclude(owner, loaded'[owner])
      <4>1. at' \in {"idle", "ended"} /\ OnAllowlist'
        BY <2>1, <3>2, ConcludeEnds DEF OnAllowlist
      <4> QED BY <4>1 DEF AllowInv
    <3> QED BY <2>1, <2>6, <3>1, <3>2 DEF LookUpKey, OnAllowlist
  <2> QED BY <1>3, <2>2, <2>3, <2>4, <2>5, <2>6 DEF Authenticate
<1>4. CASE Meanwhile
  BY <1>4 DEF Meanwhile, ChangeAccount, LoseCookie, LoseKey, addressVars, AllowInv, OnAllowlist
<1>5. CASE UNCHANGED <<authVars, origin>>
  BY <1>5 DEF authVars, AllowInv, OnAllowlist
<1> QED BY <1>1, <1>2, <1>3, <1>4, <1>5, AuthSteps

\* An API token with an allowlist admits only hosts on it, whatever the client
\* writes into X-Forwarded-For and however many proxies append to it
\* (remote_address.py, api_token.py).
THEOREM AllowlistCorrect == Spec => []AllowlistHonoured
<1>1. Init => AllowInv
  BY DEF Init, AllowInv, Sources
<1>2. AllowInv => AllowlistHonoured
  BY DEF AllowInv, AllowlistHonoured, OnAllowlist
<1> QED BY <1>1, <1>2, TypeInit, TypeNext, AddressInit, AddressNext, AllowNext, PTL DEF Spec

-----------------------------------------------------------------------------
(* The limiter.                                                            *)

\* What a request has of an e-mail and a cookie text, as far as its limiter reads
\* them, and what it is in the history: the identifier says the same.
Reads(r, mail, chars) ==
    /\ r.limiter # "email" => mail = None
    /\ r.limiter \notin {"logout", "refresh"} => chars = NoToken
Asked(r, address, mail, chars) == <<r.limiter, address, mail, chars>>

\* Two requests have one identifier exactly when they are one in the history.
LEMMA OneCounter ==
    ASSUME NEW r, NEW a, NEW m, NEW c, Reads(r, m, c), NEW s, NEW b, NEW n, NEW d, Reads(s, n, d)
    PROVE  Identifier(r, a, m, c) = Identifier(s, b, n, d) <=> Asked(r, a, m, c) = Asked(s, b, n, d)
<1>1. CASE r.limiter # s.limiter
  BY <1>1 DEF Identifier, Asked
<1>2. CASE r.limiter = s.limiter /\ r.limiter = "email"
  BY <1>2 DEF Identifier, Asked, Subject, Reads
<1>3. CASE r.limiter = s.limiter /\ r.limiter \in {"logout", "refresh"}
  BY <1>3 DEF Identifier, Asked, Subject, Reads
<1>4. CASE r.limiter = s.limiter /\ r.limiter \notin {"email", "logout", "refresh"}
  BY <1>4 DEF Identifier, Asked, Subject, Reads
<1> QED BY <1>1, <1>2, <1>3, <1>4

\* What is counted for an identifier never exceeds what was asked for under it, and
\* falls short of it only at the limit.
CountedFairly(id, asked) ==
    /\ Count(id, hits) <= Count(asked, made) /\ Count(id, hits) <= Times
    /\ Count(id, hits) < Count(asked, made) => Count(id, hits) = Times

Fairly ==
    \A r \in Routes : \A a, m, c :
        Reads(r, m, c) => CountedFairly(Identifier(r, a, m, c), Asked(r, a, m, c))

Own == Asked(route, origin, email, text)

LimiterInv ==
    /\ Fairly
    /\ phase # "idle" => Reads(route, email, text)
    /\ limited => phase = "done" /\ Count(Own, made) > Times
    /\ phase = "auth" /\ route.limiter # "none" => Count(Own, made) \in 1..Times

\* One request more under its own identifier, counted unless that is full, keeps
\* every count fair.
LEMMA CountFairly ==
    ASSUME TypeInv, LimiterInv, phase # "idle",
           made' = made (+) SetToBag({Own}),
           LET id == Identifier(route, origin, email, text)
           IN hits' = IF Count(id, hits) >= Times THEN hits ELSE hits (+) SetToBag({id})
    PROVE  /\ Fairly'
           /\ Count(Own, made') \in Nat
           /\ Count(Identifier(route, origin, email, text), hits) >= Times <=> Count(Own, made') > Times
           /\ Count(Own, made') >= 1
<1> DEFINE id == Identifier(route, origin, email, text)
<1>1. route \in Routes /\ Reads(route, email, text) /\ Times \in Nat /\ IsABag(hits) /\ IsABag(made)
  BY TrialAssumption DEF TypeInv, Underway, LimiterInv
<1>2. \A x : Count(x, hits) \in Nat /\ Count(x, made) \in Nat
  BY <1>1, CountAdd
<1>3. \A x : Count(x, made') = Count(x, made) + (IF x = Own THEN 1 ELSE 0)
  BY <1>1, CountAdd
<1>4. \A x : Count(x, hits') =
                Count(x, hits) + (IF x = id /\ ~(Count(id, hits) >= Times) THEN 1 ELSE 0)
  <2>1. CASE Count(id, hits) >= Times
    <3>1. \A x : Count(x, hits) + 0 = Count(x, hits)
      BY <1>2
    <3> QED BY <2>1, <3>1
  <2>2. CASE ~(Count(id, hits) >= Times)
    <3>1. hits' = hits (+) SetToBag({id})
      BY <2>2
    <3>2. \A x : Count(x, hits (+) SetToBag({id})) = Count(x, hits) + (IF x = id THEN 1 ELSE 0)
      BY <1>1, CountAdd
    <3> HIDE DEF id
    <3>3. \A x : x = id /\ ~(Count(id, hits) >= Times) <=> x = id
      BY <2>2
    <3> QED BY <3>1, <3>2, <3>3
  <2> QED BY <2>1, <2>2
<1>5. CountedFairly(id, Own)
  BY <1>1 DEF LimiterInv, Fairly, Own
<1> HIDE DEF id
<1>6. ASSUME NEW r \in Routes, NEW a, NEW m, NEW c, Reads(r, m, c)
      PROVE  CountedFairly(Identifier(r, a, m, c), Asked(r, a, m, c))'
  <2> DEFINE i == Identifier(r, a, m, c)
             k == Asked(r, a, m, c)
  <2>1. CountedFairly(i, k)
    BY <1>6 DEF LimiterInv, Fairly
  <2>2. i = id <=> k = Own
    BY <1>1, <1>6, OneCounter DEF id, Own
  <2> HIDE DEF i, k
  <2>3. /\ Count(i, hits') <= Count(k, made') /\ Count(i, hits') <= Times
        /\ Count(i, hits') < Count(k, made') => Count(i, hits') = Times
    BY <1>1, <1>2, <1>3, <1>4, <2>1, <2>2 DEF CountedFairly
  <2> QED BY <2>3 DEF CountedFairly, i, k, Identifier, Asked, Subject
<1>7. Fairly'
  BY <1>6 DEF Fairly, Reads
<1> QED BY <1>1, <1>2, <1>3, <1>5, <1>7 DEF CountedFairly, id

\* Every step keeps LimiterInv: a count rises only by a request of its client.
LEMMA LimiterNext == TypeInv /\ AddressInv /\ LimiterInv /\ [Next]_vars => LimiterInv'
<1> SUFFICES ASSUME TypeInv, AddressInv, LimiterInv, [Next]_vars PROVE LimiterInv'
  OBVIOUS
<1>0. UNCHANGED <<hits, made>> => Fairly'
  BY DEF LimiterInv, Fairly, CountedFairly, Identifier, Asked, Subject, Reads
<1>1. ASSUME NEW r \in Routes, NEW client \in Clients, NEW claims \in Claims,
             Begin(r, client, claims)
      PROVE  LimiterInv'
  <2>1. phase' = "sent" /\ ~limited' /\ Reads(route', email', text') /\ Fairly'
    BY <1>0, <1>1 DEF Begin, Writes, Reads
  <2> QED BY <2>1 DEF LimiterInv, Reads
<1>2. CASE Limit
  <2>1. GetRemoteAddress(peer, forwarded) = origin
    BY <1>2, AddressIsOrigin DEF Limit
  <2>2. UNCHANGED <<route, origin, email, text>> /\ Own' = Own /\ phase # "idle"
    BY <1>2 DEF Limit, addressVars, Own, Asked
  <2>3. Reads(route, email, text)'
    BY <2>2 DEF LimiterInv, Reads
  <2>4. CASE route.limiter = "none"
    <3>1. phase' = "auth" /\ UNCHANGED <<hits, made, limited>> /\ ~limited
      BY <1>2, <2>4 DEF Limit, LimiterInv
    <3> QED BY <1>0, <2>2, <2>3, <2>4, <3>1 DEF LimiterInv
  <2>5. CASE route.limiter # "none"
    <3> DEFINE full == Count(Identifier(route, origin, email, text), hits) >= Times
    <3>1. /\ phase' = IF full THEN "done" ELSE "auth"
          /\ hits' = IF full THEN hits ELSE hits (+) SetToBag({Identifier(route, origin, email, text)})
          /\ made' = made (+) SetToBag({Own})
      BY <1>2, <2>1, <2>5 DEF Limit, Own, Asked
    <3>2. limited' = full
      BY <1>2, <2>1, <2>5, Zenon DEF Limit
    <3>3. /\ Fairly' /\ Count(Own, made') \in Nat /\ Times \in Nat
          /\ full <=> Count(Own, made') > Times
          /\ Count(Own, made') >= 1
      BY <2>2, <3>1, CountFairly, TrialAssumption
    <3> HIDE DEF full
    <3>4. limited' => phase' = "done" /\ Count(Own, made') > Times
      BY <3>1, <3>2, <3>3, Zenon
    <3>5. phase' = "auth" => Count(Own, made') \in 1..Times
      BY <3>1, <3>3
    <3>6. Count(Own, made)' = Count(Own, made')
      BY <2>2
    <3> QED BY <2>2, <2>3, <3>3, <3>4, <3>5, <3>6 DEF LimiterInv
  <2> QED BY <2>4, <2>5
<1>3. CASE /\ UNCHANGED <<route, email, text, hits, made, limited, origin>>
           /\ phase \in {"sent", "body", "auth"}
           /\ phase' # "auth" \/ phase = "auth"
  <2>1. Own' = Own /\ ~limited /\ Reads(route, email, text)'
    BY <1>3 DEF Own, Asked, LimiterInv, Reads
  <2> QED BY <1>0, <1>3, <2>1 DEF LimiterInv
<1>4. CASE UNCHANGED vars
  BY <1>0, <1>4 DEF vars, ownVars, addressVars, LimiterInv, Own, Asked, Reads
<1> QED BY <1>1, <1>2, <1>3, <1>4
        DEF Next, Serve, Forward, Hop, Deliver, BodyMessage, Parse, Ask, Authenticate, Answer,
            Meanwhile, ownVars, addressVars

\* The limiter turns a client away for its own requests alone, with the e-mail or
\* the cookie text that it wrote, and lets none through beyond the limit, whatever
\* X-Forwarded-For says (limiter_identifiers.py).
THEOREM LimiterCorrect == Spec => []LimitedByOwnRequests
<1>1. Init => LimiterInv
  <2> SUFFICES ASSUME Init PROVE LimiterInv
    OBVIOUS
  <2>1. \A x : Count(x, hits) = 0 /\ Count(x, made) = 0
    BY DEF Init, Count, EmptyBag, SetToBag, BagIn, BagToSet
  <2>2. Fairly
    BY <2>1, TrialAssumption DEF Fairly, CountedFairly
  <2> QED BY <2>2 DEF Init, LimiterInv
<1>2. LimiterInv => LimitedByOwnRequests
  BY DEF LimiterInv, LimitedByOwnRequests, Own, Asked
<1> QED BY <1>1, <1>2, TypeInit, TypeNext, AddressInit, AddressNext, LimiterNext, PTL DEF Spec
=============================================================================
