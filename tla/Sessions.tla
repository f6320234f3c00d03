------------------------------ MODULE Sessions ------------------------------
(***************************************************************************)
(* Cookie sessions of usrak: sign-in, authenticated requests, refresh and  *)
(* logout, over the jti registry in the key-value store.                   *)
(*                                                                         *)
(* A session is a pair of signed tokens, access and refresh.  A token is   *)
(* honoured only while its jti is the one registered under                 *)
(* "jti:<type>:<user>", so a user has at most one honoured token of each   *)
(* type.  Every key-value operation runs in a worker thread                *)
(* (run_in_threadpool), so each is a step of its own and requests          *)
(* interleave between them.  The store is the default one, LMDB: hset      *)
(* keeps the deadline of a live key, and hget removes an expired key in a  *)
(* transaction later than the one that read it.                            *)
(*                                                                         *)
(* What a client keeps is its own affair: of all the pairs ever handed     *)
(* out, any two cookies may be shown together, at any time and any number  *)
(* of times, after a rotation or a logout too.  A missing cookie is        *)
(* answered like an expired token.                                         *)
(*                                                                         *)
(* Definitions headed "Deviation" are not the code: each is a plausible    *)
(* mistake in the definition it precedes, which some property must refute. *)
(***************************************************************************)
EXTENDS Integers

CONSTANTS
    Users,          \* accounts
    Requests,       \* slots for HTTP requests in flight at the same time
    Admins,         \* slots for password updates by administrators in flight
    None,           \* absent value: no entry, no token, SQL NULL
    AccessTTL,      \* ACCESS_TOKEN_EXPIRE_SEC
    RefreshTTL,     \* REFRESH_TOKEN_EXPIRE_SEC
    DefaultTTL,     \* LMDB_DEFAULT_TTL
    InitVersions,   \* password_version values a stored user may start with
    MayFail,        \* whether an operation may raise or a response be lost
    MaxTime,        \* bound on the clock
    MaxJti,         \* bound on the number of tokens minted
    MaxGeneration   \* bound on the number of passwords an account has had

Types == {"access", "refresh"}
Version == Nat \cup {None}
Kinds == {"login", "check", "refresh", "logout"}

\* jti is a uuid4 in the code; a counter keeps it fresh.  gen (which password
\* the session goes back to) and parent (the jti of the refresh token it was
\* rotated from, 0 for a sign-in) are history, read by properties only.
Token == [type : Types, user : Users, pv : Version, exp : Nat, jti : Nat,
          gen : Nat, parent : Nat]
Pair == [Types -> Token]
Entry == [jti : Nat, exp : Nat]

ASSUME NoneAssumption ==
    /\ None \notin Users /\ None \notin Kinds
    /\ None \notin Nat   /\ None \notin Types
    /\ None \notin Token /\ None \notin Pair /\ None \notin Entry
ASSUME TTLAssumption ==
    /\ AccessTTL \in Nat \ {0} /\ RefreshTTL \in Nat \ {0} /\ DefaultTTL \in Nat
ASSUME BoundsAssumption ==
    /\ InitVersions \subseteq Version /\ MayFail \in BOOLEAN
    /\ MaxTime \in Nat /\ MaxJti \in Nat /\ MaxGeneration \in Nat

VARIABLES
    db,       \* users table: password version, enabled (verified and active)
    store,    \* jti registry: store[u][type] is an Entry or None
    now,      \* clock, in the unit of the TTLs
    nextJti,  \* freshness of jtis
    req,      \* requests in flight
    adm,      \* password updates in flight: the row each has read
    granted,  \* pairs of tokens that reached a client, never forgotten
    ended     \* history: nextJti at the user's last completed termination

vars == <<db, store, now, nextJti, req, adm, granted, ended>>

TTL(ty) == IF ty = "access" THEN AccessTTL ELSE RefreshTTL
Other(ty) == IF ty = "access" THEN "refresh" ELSE "access"

-----------------------------------------------------------------------------
(* The hash commands of the key-value store, each one LMDB transaction.    *)

Live(e) == e # None /\ now <= e.exp

\* Deviation: a live registration wins over a new one.
HSetKeepsLive(u, ty, jti) ==
    IF Live(store[u][ty]) THEN store
    ELSE [store EXCEPT ![u][ty] = [jti |-> jti, exp |-> now + DefaultTTL]]

\* A live key keeps its deadline, an absent or expired one starts a new one.
HSet(u, ty, jti) ==
    [store EXCEPT ![u][ty] =
        [jti |-> jti,
         exp |-> IF Live(store[u][ty]) THEN store[u][ty].exp ELSE now + DefaultTTL]]

\* Deviation: the deadline is never extended past the store's default.
HExpireIgnored(u, ty) == store

HExpire(u, ty) ==
    IF store[u][ty] = None
    THEN store
    ELSE [store EXCEPT ![u][ty] = [jti |-> store[u][ty].jti, exp |-> now + TTL(ty)]]

\* Deviation: the removal is forgotten.
HDelIgnored(u, ty) == store

\* Field "0" is the only field of these keys: removing it removes the key.
HDel(u, ty) == [store EXCEPT ![u][ty] = None]

-----------------------------------------------------------------------------
(* Tokens.                                                                 *)

\* Deviation: a rotation keeps the jti of the token it replaces.
MintKeepingJti(ty, u, pv, gen, parent) ==
    [type |-> ty, user |-> u, pv |-> pv, exp |-> now + TTL(ty),
     jti |-> IF parent = 0 THEN nextJti ELSE parent, gen |-> gen, parent |-> parent]

Mint(ty, u, pv, gen, parent) ==
    [type |-> ty, user |-> u, pv |-> pv, exp |-> now + TTL(ty), jti |-> nextJti,
     gen |-> gen, parent |-> parent]

\* PyJWT refuses a token from the very second it expires.
Expired(t) == t.exp <= now

\* Deviation: the password version is not compared.
ContextIgnored(t, u, pv) == t.user = u

\* The payload must name this user, and a password version it carries must be
\* the user's; a NULL version is dropped from the payload and matches any.
ContextMatches(t, u, pv) == t.user = u /\ (t.pv = None \/ t.pv = pv)

Unversioned(pv) == pv = None \/ pv = 0

-----------------------------------------------------------------------------
(* Requests in flight.                                                     *)

NoTokens == [ty \in Types |-> None]

Idle == [pc |-> "idle", kind |-> None, user |-> None,
         pv |-> None, gen |-> 0, enabled |-> FALSE, tok |-> None, n |-> 0,
         shown |-> None, new |-> NoTokens]

Init ==
    /\ \E v \in [Users -> InitVersions] :
           db = [u \in Users |-> [pv |-> v[u], gen |-> 1, enabled |-> TRUE]]
    /\ store = [u \in Users |-> NoTokens]
    /\ now = 0
    /\ nextJti = 1
    /\ req = [r \in Requests |-> Idle]
    /\ adm = [a \in Admins |-> None]
    /\ granted = {}
    /\ ended = [u \in Users |-> 0]

\* How a request goes on when it has nothing to grant.  It is answered without
\* touching the cookies, except logout: its user dependency is optional and
\* the cookies are deleted either way.
Concluded(r) ==
    IF req[r].kind = "logout" THEN [req[r] EXCEPT !.pc = "respond"] ELSE Idle

\* The request q turns to the registration of the new token t.
Register(q, ty, t) ==
    [q EXCEPT !.pc = "mint", !.tok = ty, !.n = 1, !.new = [q.new EXCEPT ![ty] = t]]

\* Sign-in by e-mail and password of a user the database shows
\* verified and active.  The access token is signed before the first await.
StartLogin(r, u) ==
    /\ req[r].pc = "idle"
    /\ db[u].enabled
    /\ nextJti < MaxJti
    /\ nextJti' = nextJti + 1
    /\ req' = [req EXCEPT ![r] =
           [pc |-> "mint", kind |-> "login", user |-> u,
            pv |-> db[u].pv, gen |-> db[u].gen, enabled |-> TRUE,
            tok |-> "access", n |-> 1, shown |-> None,
            new |-> [NoTokens EXCEPT !["access"] =
                        Mint("access", u, db[u].pv, db[u].gen, 0)]]]
    /\ UNCHANGED <<db, store, now, adm, granted, ended>>

\* The cookies of a request: an access token and a refresh token, each taken
\* from a pair some client has received, not always from the same one.
Shown(p, q) == [access |-> p["access"], refresh |-> q["refresh"]]

\* A request that carries cookies: the access token is decoded and its user
\* read from the database.  An expired one is refused on the spot.
Present(r, kind, shown) ==
    /\ req[r].pc = "idle"
    /\ ~Expired(shown["access"]) \/ kind = "logout"
    /\ LET u == shown["access"].user IN
       req' = [req EXCEPT ![r] =
           [pc |-> IF Expired(shown["access"]) THEN "respond" ELSE "verify",
            kind |-> kind, user |-> u, pv |-> db[u].pv, gen |-> db[u].gen,
            enabled |-> db[u].enabled, tok |-> "access", n |-> 0,
            shown |-> shown, new |-> NoTokens]]
    /\ UNCHANGED <<db, store, now, nextJti, adm, granted, ended>>

-----------------------------------------------------------------------------
(* Registration of a new token: hset and hexpire, then both once more.     *)

RegisterJti(r) ==
    /\ req[r].pc = "mint" /\ req[r].n \in {1, 3}
    /\ store' = HSet(req[r].user, req[r].tok, req[r].new[req[r].tok].jti)
    /\ req' = [req EXCEPT ![r].n = @ + 1]
    /\ UNCHANGED <<db, now, nextJti, adm, granted, ended>>

ExtendJti(r) ==
    /\ req[r].pc = "mint" /\ req[r].n = 2
    /\ store' = HExpire(req[r].user, req[r].tok)
    /\ req' = [req EXCEPT ![r].n = 3]
    /\ UNCHANGED <<db, now, nextJti, adm, granted, ended>>

\* The last hexpire of the first token; the second one is signed at once.
MintSecond(r) ==
    LET q == req[r] IN
    /\ q.pc = "mint" /\ q.n = 4 /\ q.new[Other(q.tok)] = None
    /\ nextJti < MaxJti
    /\ nextJti' = nextJti + 1
    /\ store' = HExpire(q.user, q.tok)
    /\ req' = [req EXCEPT ![r] =
           Register(q, Other(q.tok),
                    Mint(Other(q.tok), q.user, q.pv,
                         q.new[q.tok].gen, q.new[q.tok].parent))]
    /\ UNCHANGED <<db, now, adm, granted, ended>>

\* Deviation: the request answers after its first token.
MintDoneEarly(r) ==
    /\ req[r].pc = "mint" /\ req[r].n = 4
    /\ store' = HExpire(req[r].user, req[r].tok)
    /\ req' = [req EXCEPT ![r].pc = "respond"]
    /\ UNCHANGED <<db, now, nextJti, adm, granted, ended>>

MintDone(r) ==
    /\ req[r].pc = "mint" /\ req[r].n = 4 /\ req[r].new[Other(req[r].tok)] # None
    /\ store' = HExpire(req[r].user, req[r].tok)
    /\ req' = [req EXCEPT ![r].pc = "respond"]
    /\ UNCHANGED <<db, now, nextJti, adm, granted, ended>>

-----------------------------------------------------------------------------
(* Validation of the access token, and in /refresh of the refresh token:   *)
(* one hget decides, and an hdel may follow.                               *)

Verifying(r, ty) == req[r].pc = "verify" /\ req[r].tok = ty
Registration(r) == store[req[r].user][req[r].tok]

\* Deviation: it is enough that the user has a token of this type registered.
RecognisedAnyJti(r) == Live(Registration(r))

Recognised(r) ==
    Live(Registration(r)) /\ Registration(r).jti = req[r].shown[req[r].tok].jti
InContext(r) == ContextMatches(req[r].shown[req[r].tok], req[r].user, req[r].pv)

\* hget returned nothing or another jti: the request is refused.
VerifyUnknown(r) ==
    /\ req[r].pc = "verify"
    /\ \/ Registration(r) = None
       \/ Live(Registration(r)) /\ Registration(r).jti # req[r].shown[req[r].tok].jti
    /\ req' = [req EXCEPT ![r] = Concluded(r)]
    /\ UNCHANGED <<db, store, now, nextJti, adm, granted, ended>>

\* hget read an expired key, or the context does not match: the request is
\* about to delete whatever the key holds by then.
VerifyFailed(r) ==
    /\ req[r].pc = "verify"
    /\ \/ Registration(r) # None /\ ~Live(Registration(r))
       \/ Recognised(r) /\ ~InContext(r)
    /\ req' = [req EXCEPT ![r].pc = "erase"]
    /\ UNCHANGED <<db, store, now, nextJti, adm, granted, ended>>

Erase(r) ==
    /\ req[r].pc = "erase"
    /\ store' = HDel(req[r].user, req[r].tok)
    /\ req' = [req EXCEPT ![r] = Concluded(r)]
    /\ UNCHANGED <<db, now, nextJti, adm, granted, ended>>

\* The access token is good; the filters on the row read earlier decide, and
\* /refresh goes on to decode the refresh token.
AdmitAccess(r) ==
    /\ Verifying(r, "access") /\ Recognised(r) /\ InContext(r)
    /\ req' = [req EXCEPT ![r] =
           CASE ~req[r].enabled -> Concluded(r)
             [] req[r].enabled /\ req[r].kind = "check" ->
                    [req[r] EXCEPT !.pc = "respond"]
             [] req[r].enabled /\ req[r].kind = "logout" ->
                    [req[r] EXCEPT !.pc = "endAccess"]
             [] req[r].enabled /\ req[r].kind = "refresh" ->
                    IF Expired(req[r].shown["refresh"])
                    THEN Idle ELSE [req[r] EXCEPT !.tok = "refresh"]]
    /\ UNCHANGED <<db, store, now, nextJti, adm, granted, ended>>

AdmitRefresh(r) ==
    /\ Verifying(r, "refresh") /\ Recognised(r) /\ InContext(r)
    /\ req' = [req EXCEPT ![r].pc = "dropRefresh"]
    /\ UNCHANGED <<db, store, now, nextJti, adm, granted, ended>>

-----------------------------------------------------------------------------
(* Rotation: both registrations are removed, then a new pair is minted.    *)

DropRefresh(r) ==
    /\ req[r].pc = "dropRefresh"
    /\ store' = HDel(req[r].user, "refresh")
    /\ req' = [req EXCEPT ![r].pc = "dropAccess"]
    /\ UNCHANGED <<db, now, nextJti, adm, granted, ended>>

DropAccess(r) ==
    LET q == req[r]
        old == q.shown["refresh"] IN
    /\ q.pc = "dropAccess"
    /\ ~Unversioned(old.pv)
    /\ nextJti < MaxJti
    /\ nextJti' = nextJti + 1
    /\ store' = HDel(q.user, "access")
    /\ req' = [req EXCEPT ![r] =
           Register(q, "refresh", Mint("refresh", q.user, old.pv, old.gen, old.jti))]
    /\ UNCHANGED <<db, now, adm, granted, ended>>

\* A session without a password version is not renewed: everything ends.
DropUnversioned(r) ==
    /\ req[r].pc = "dropAccess"
    /\ Unversioned(req[r].shown["refresh"].pv)
    /\ store' = HDel(req[r].user, "access")
    /\ req' = [req EXCEPT ![r].pc = "endAccess"]
    /\ UNCHANGED <<db, now, nextJti, adm, granted, ended>>

-----------------------------------------------------------------------------
(* terminate_all_user_sessions: access first, then refresh.                *)

EndAccess(r) ==
    /\ req[r].pc = "endAccess"
    /\ store' = HDel(req[r].user, "access")
    /\ req' = [req EXCEPT ![r].pc = "endRefresh"]
    /\ UNCHANGED <<db, now, nextJti, adm, granted, ended>>

EndRefresh(r) ==
    /\ req[r].pc = "endRefresh"
    /\ store' = HDel(req[r].user, "refresh")
    /\ ended' = [ended EXCEPT ![req[r].user] = nextJti]
    /\ req' = [req EXCEPT ![r] = Concluded(r)]
    /\ UNCHANGED <<db, now, nextJti, adm, granted>>

-----------------------------------------------------------------------------
(* Responses and failures.                                                 *)

RespondPair(r) ==
    /\ req[r].pc = "respond" /\ req[r].kind \in {"login", "refresh"}
    /\ granted' = granted \cup {req[r].new}
    /\ req' = [req EXCEPT ![r] = Idle]
    /\ UNCHANGED <<db, store, now, nextJti, adm, ended>>

\* Deleting a client's cookies does not make it forget them.
RespondOther(r) ==
    /\ req[r].pc = "respond" /\ req[r].kind \in {"check", "logout"}
    /\ req' = [req EXCEPT ![r] = Idle]
    /\ UNCHANGED <<db, store, now, nextJti, adm, granted, ended>>

\* Any await may raise (a full LMDB map, a broken store, a cancelled request,
\* a stopped worker) and any response may be lost: nothing is rolled back.
Fail(r) ==
    /\ MayFail
    /\ req[r].pc # "idle"
    /\ req' = [req EXCEPT ![r] = Idle]
    /\ UNCHANGED <<db, store, now, nextJti, adm, granted, ended>>

-----------------------------------------------------------------------------
(* The rest of the system: administrators, the watcher thread, time.       *)

\* update_user with a password reads the row, awaits the policy, and commits
\* a version computed from what it read.
AdminRead(a, u) ==
    /\ adm[a] = None
    /\ adm' = [adm EXCEPT ![a] = [user |-> u, pv |-> db[u].pv]]
    /\ UNCHANGED <<db, store, now, nextJti, req, granted, ended>>

NextVersion(pv) == IF pv = None THEN 1 ELSE pv + 1

AdminSetPassword(a) ==
    /\ adm[a] # None
    /\ db[adm[a].user].gen < MaxGeneration
    /\ db' = [db EXCEPT ![adm[a].user] =
           [pv |-> NextVersion(adm[a].pv), gen |-> @.gen + 1, enabled |-> @.enabled]]
    /\ adm' = [adm EXCEPT ![a] = None]
    /\ UNCHANGED <<store, now, nextJti, req, granted, ended>>

\* update_user with is_active or is_verified, or delete_user: the value written
\* does not depend on the row read, so only the commit matters.
AdminSetEnabled(a, u) ==
    /\ adm[a] = None
    /\ db' = [db EXCEPT ![u].enabled = ~@]
    /\ UNCHANGED <<store, now, nextJti, req, adm, granted, ended>>

\* One pass of the watcher is one write transaction.
Purge ==
    /\ \E u \in Users, ty \in Types : store[u][ty] # None /\ ~Live(store[u][ty])
    /\ store' = [u \in Users |-> [ty \in Types |->
                    IF Live(store[u][ty]) THEN store[u][ty] ELSE None]]
    /\ UNCHANGED <<db, now, nextJti, req, adm, granted, ended>>

Tick ==
    /\ now < MaxTime
    /\ now' = now + 1
    /\ UNCHANGED <<db, store, nextJti, req, adm, granted, ended>>

RequestStep(r) ==
    \/ RegisterJti(r) \/ ExtendJti(r) \/ MintSecond(r) \/ MintDone(r)
    \/ VerifyUnknown(r) \/ VerifyFailed(r) \/ Erase(r)
    \/ AdmitAccess(r) \/ AdmitRefresh(r)
    \/ DropRefresh(r) \/ DropAccess(r) \/ DropUnversioned(r)
    \/ EndAccess(r) \/ EndRefresh(r) \/ RespondPair(r) \/ RespondOther(r)

Next ==
    \/ \E r \in Requests :
           \/ \E u \in Users : StartLogin(r, u)
           \/ \E p, q \in granted, kind \in {"check", "refresh", "logout"} :
                  Present(r, kind, Shown(p, q))
    \/ \E r \in Requests : RequestStep(r) \/ Fail(r)
    \/ \E a \in Admins :
           \/ AdminSetPassword(a)
           \/ \E u \in Users : AdminRead(a, u) \/ AdminSetEnabled(a, u)
    \/ Purge
    \/ Tick

Spec == Init /\ [][Next]_vars

-----------------------------------------------------------------------------
(* Properties.                                                             *)

Delivered == {p[ty] : p \in granted, ty \in Types}

Registered(t) ==
    store[t.user][t.type] # None /\ store[t.user][t.type].jti = t.jti

RequestType ==
    [pc : {"idle", "mint", "verify", "erase", "dropRefresh", "dropAccess",
           "endAccess", "endRefresh", "respond"},
     kind : Kinds \cup {None}, user : Users \cup {None},
     pv : Version, gen : Nat, enabled : BOOLEAN, tok : Types \cup {None},
     n : 0..4, shown : Pair \cup {None},
     new : [Types -> Token \cup {None}]]

\* The shape of the state.
TypeOK ==
    /\ db \in [Users -> [pv : Version, gen : Nat, enabled : BOOLEAN]]
    /\ store \in [Users -> [Types -> Entry \cup {None}]]
    /\ now \in Nat /\ nextJti \in Nat \ {0}
    /\ req \in [Requests -> RequestType]
    /\ adm \in [Admins -> [user : Users, pv : Version] \cup {None}]
    /\ granted \subseteq Pair
    /\ ended \in [Users -> Nat]

\* A token a client has received and whose registration is gone (replaced by
\* another sign-in, rotated, logged out or purged) is never registered again,
\* whatever registrations other requests still have in flight: each token is
\* registered twice by create_*_token, but only before it is handed out.
RevocationIsFinal ==
    [][\A t \in Delivered : ~Registered(t) => ~Registered(t)']_vars

\* Once the pair a refresh produced has reached a client, the refresh token
\* it was rotated from is not honoured, under any interleaving of requests
\* that re-register the same key.
RotatedSessionIsDead ==
    \A new, old \in Delivered :
        new.parent = old.jti => ~Registered(old)

\* The registry never forgets a token before the token itself expires: with
\* hset keeping an older deadline and LMDB's default TTL in between, the
\* deadline of a delivered registered token still reaches its exp claim.
StoreOutlivesToken ==
    \A t \in Delivered :
        Registered(t) => store[t.user][t.type].exp >= t.exp

\* The request has passed the validation of the access token.
Admitted(r) ==
    \/ req[r].kind = "check" /\ req[r].pc = "respond"
    \/ req[r].kind = "refresh" /\ (req[r].tok = "refresh" \/ req[r].pc \in {"mint", "respond"})
    \/ req[r].pc \in {"dropRefresh", "dropAccess", "endAccess", "endRefresh"}

\* A request admitted on a versioned session descends from the password the
\* database showed when the request began: no chain of refreshes carries a
\* session over a password change that some request has already seen.
StalePasswordNeverAccepted ==
    \A r \in Requests : Admitted(r) =>
        LET t == req[r].shown["access"]
        IN  t.pv = None \/ t.gen >= req[r].gen

\* One refresh token yields one new session: presented again later, with its
\* own access token or with that of another session, it yields nothing.
RefreshSingleUse ==
    \A p, q \in granted :
        p["refresh"].parent # 0 /\ p["refresh"].parent = q["refresh"].parent => p = q

\* When logout has terminated a user's sessions, no token minted before that
\* is honoured.
LogoutEndsSessions ==
    \A t \in Delivered : t.jti < ended[t.user] => ~Registered(t)

Quiescent == \A r \in Requests : req[r].pc = "idle"

\* With no request in flight, if an access token and a refresh token of a user
\* are both honoured, they were handed out together: the client that holds the
\* one can refresh, and no two sessions can be mixed.
PairedWhenQuiescent ==
    Quiescent =>
        \A p, q \in granted :
            p["access"].user = q["access"].user
                /\ Registered(p["access"]) /\ Registered(q["refresh"]) => p = q

=============================================================================
