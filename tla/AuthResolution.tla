---------------------------- MODULE AuthResolution ----------------------------
(***************************************************************************)
(* The user dependencies: from the access cookie or the X-API-Key of a     *)
(* request to a user, through a cache and a database session that live as  *)
(* long as the request.  Accounts, sessions and keys change meanwhile.     *)
(***************************************************************************)
EXTENDS FiniteSets

CONSTANTS
    Users, Roles,
    None,
    CookieUser,     \* whom the access cookie of a request names
    Allowlist       \* whitelisted_ip_addresses of the client's API token

Sources == {"access", "api"}
Account == [active : BOOLEAN, verified : BOOLEAN, role : Roles]

\* get_user's parameters: the mode and the filters, the roles as they are listed.
Dependency == [mode : {"any", "access_only", "api_only"}, verified : BOOLEAN, active : BOOLEAN,
               roles : SUBSET (Roles \cup {"*"}), optional : BOOLEAN]

ASSUME UserAssumption ==
    CookieUser \in Users /\ None \notin Users /\ None \notin Account /\ None \notin Dependency

VARIABLES
    accounts,   \* the users table: None is a deleted row
    cookie,     \* the request's access_token: "good", "revoked", "absent", or "expired"
                \* for whatever does not decode
    key,        \* the API token is usable
    owner,      \* whose API token the client has
    loaded,     \* rows the request's session has loaded, for good
    cache,      \* request.state._usrak_user_cache
    dep,        \* the dependency being resolved, or None
    at,         \* where it is: a source, "validating", or "ended" by an exception
    results,    \* resolved dependencies, with the user or None
    seen        \* history: the states of an account since the request began

authVars == <<accounts, cookie, key, owner, loaded, cache, dep, at, results, seen>>
World == <<accounts, cookie, key, owner, seen>>

Rows(u) == {accounts[u]} \ {None}
\* A request starts with nothing loaded, whatever cookie it brings.
Start ==
    /\ loaded' = [u \in Users |-> None]
    /\ cache' = [s \in Sources |-> None]
    /\ dep' = None /\ at' = "idle" /\ results' = {}
    /\ seen' = [u \in Users |-> Rows(u)]
    /\ UNCHANGED <<accounts, key, owner>>

\* What a dependency's filters let through: no list of roles, and one with the
\* wildcard anywhere in it, asks for none.
Admits(account, d) ==
    /\ d.verified => account.verified
    /\ d.active => account.active
    /\ d.roles = {} \/ "*" \in d.roles \/ account.role \in d.roles

\* Deviation: a row is read again.
LoadAgain(u) == loaded' = [loaded EXCEPT ![u] = accounts[u]]
\* A row the session holds is not refreshed by another SELECT.
Load(u) == loaded' = [loaded EXCEPT ![u] = IF @ = None THEN accounts[u] ELSE @]

\* Deviation: the exception does not end the dependency.
RaiseUnfinished ==
    IF dep.optional
    THEN results' = results \cup {[of |-> dep, user |-> None]} /\ dep' = None /\ UNCHANGED at
    ELSE at' = "ended" /\ UNCHANGED <<dep, results>>
\* An optional dependency gives nobody; any other ends the request.
Raise ==
    IF dep.optional
    THEN results' = results \cup {[of |-> dep, user |-> None]} /\ dep' = None /\ at' = "idle"
    ELSE at' = "ended" /\ UNCHANGED <<dep, results>>
Conclude(u, row) ==
    IF Admits(row, dep)
    THEN results' = results \cup {[of |-> dep, user |-> u]} /\ dep' = None /\ at' = "idle"
    ELSE Raise

Resolve(d) ==
    /\ at = "idle"
    /\ dep' = d
    /\ at' = IF d.mode = "api_only" THEN "api" ELSE "access"
    /\ UNCHANGED <<World, loaded, cache, results>>

Cached ==
    /\ at \in Sources
    /\ cache[at] # None
    /\ Conclude(cache[at], loaded[cache[at]])
    /\ UNCHANGED <<World, loaded, cache>>
Uncached(s) == at = s /\ cache[s] = None

\* A token that decodes no more raises; one that names nobody gives nobody, and
\* so does no token: in mode "any" the API token has its turn.
NoCookieUser ==
    /\ Uncached("access")
    /\ \/ cookie = "expired" /\ Raise
       \/ /\ cookie # "expired"
          /\ cookie = "absent" \/ accounts[CookieUser] = None
          /\ IF dep.mode = "any" THEN at' = "api" /\ UNCHANGED <<dep, results>> ELSE Raise
    /\ UNCHANGED <<World, loaded, cache>>
\* The row is read before the token is validated against the store.
LoadCookieUser ==
    /\ Uncached("access") /\ cookie \in {"good", "revoked"} /\ accounts[CookieUser] # None
    /\ Load(CookieUser)
    /\ at' = "validating"
    /\ UNCHANGED <<World, cache, dep, results>>

\* Deviation: the user is not kept for the next dependency.
ValidateUncached ==
    /\ at = "validating"
    /\ IF cookie = "good" THEN Conclude(CookieUser, loaded[CookieUser]) ELSE Raise
    /\ UNCHANGED <<World, loaded, cache>>
Validate ==
    /\ at = "validating"
    /\ IF cookie = "good"
       THEN /\ cache' = [cache EXCEPT !["access"] = CookieUser]
            /\ Conclude(CookieUser, loaded[CookieUser])
       ELSE Raise /\ UNCHANGED cache
    /\ UNCHANGED <<World, loaded>>

\* The API token is looked up together with its owner.
LookUpKey(address) ==
    /\ Uncached("api")
    /\ IF key /\ accounts[owner] # None /\ (Allowlist = {} \/ address \in Allowlist)
       THEN /\ Load(owner)
            /\ cache' = [cache EXCEPT !["api"] = owner]
            /\ Conclude(owner, loaded'[owner])
       ELSE Raise /\ UNCHANGED <<loaded, cache>>
    /\ UNCHANGED World

\* Others: an account changes or is deleted, the cookie expires or is revoked,
\* the token is deleted or expires.
ChangeAccount(u, account) ==
    /\ accounts[u] \notin {None, account}
    /\ accounts' = [accounts EXCEPT ![u] = account]
    /\ seen' = [seen EXCEPT ![u] = @ \cup ({account} \ {None})]
    /\ UNCHANGED <<cookie, key, owner, loaded, cache, dep, at, results>>
LoseCookie(to) ==
    /\ <<cookie, to>> \in {<<"good", "revoked">>, <<"good", "expired">>, <<"revoked", "expired">>}
    /\ cookie' = to
    /\ UNCHANGED <<accounts, key, owner, loaded, cache, dep, at, results, seen>>
LoseKey ==
    /\ key /\ key' = FALSE
    /\ UNCHANGED <<accounts, cookie, owner, loaded, cache, dep, at, results, seen>>
=============================================================================
