--------------------------- MODULE SessionsProofs ---------------------------
(***************************************************************************)
(* Theorems about Sessions, for any number of accounts, requests           *)
(* and administrators, any deadlines and any bounds.                       *)
(***************************************************************************)
EXTENDS Sessions, TLAPS

WithCookies == {"check", "refresh", "logout"}

(* What a request in flight holds at each point of its program.            *)
Shape(q) ==
    /\ q.pc # "idle" => q.user \in Users /\ q.kind \in Kinds
    /\ q.pc = "mint" =>
         /\ q.kind \in {"login", "refresh"}
         /\ q.tok \in Types /\ q.n \in 1..4 /\ q.new[q.tok] # None
    /\ q.pc \in {"verify", "erase"} => q.tok \in Types
    /\ q.pc \in {"verify", "erase", "dropRefresh", "dropAccess", "endAccess", "endRefresh"} =>
         q.kind \in WithCookies /\ q.shown \in Pair
    /\ q.pc \in {"dropRefresh", "dropAccess"} => q.kind = "refresh"
    /\ q.pc \in {"verify", "erase"} /\ q.tok = "refresh" => q.kind = "refresh"
    /\ q.pc = "respond" /\ q.kind \in {"login", "refresh"} =>
         \A ty \in Types : q.new[ty] # None
    /\ \A ty \in Types : q.new[ty] # None => q.new[ty].type = ty /\ q.new[ty].user = q.user

Shapely == \A r \in Requests : Shape(req[r])

TypeInv == TypeOK /\ Shapely

USE DEF Types, Kinds, WithCookies

\* A minted token is a token, of the type and user asked for, with a new jti.
LEMMA MintType ==
    ASSUME TypeOK, NEW ty \in Types, NEW u \in Users, NEW pv \in Version,
           NEW gen \in Nat, NEW parent \in Nat
    PROVE  /\ Mint(ty, u, pv, gen, parent) \in Token
           /\ Mint(ty, u, pv, gen, parent) # None
           /\ Mint(ty, u, pv, gen, parent).type = ty
           /\ Mint(ty, u, pv, gen, parent).user = u
           /\ Mint(ty, u, pv, gen, parent).jti = nextJti
           /\ Mint(ty, u, pv, gen, parent).parent = parent
           /\ Mint(ty, u, pv, gen, parent).exp = now + TTL(ty)
<1>1. Mint(ty, u, pv, gen, parent) \in Token
  BY TTLAssumption DEF TypeOK, Mint, Token, TTL
<1> QED BY <1>1, NoneAssumption DEF Mint

\* The empty slot is well formed.
LEMMA IdleType == Idle \in RequestType /\ Shape(Idle)
BY NoneAssumption DEF Idle, RequestType, Shape, NoTokens, Version

\* A step that replaces one request by a well-formed one keeps all well-formed.
LEMMA OneRequest ==
    ASSUME req \in [Requests -> RequestType], Shapely, NEW r \in Requests,
           NEW q, q \in RequestType, Shape(q), req' = [req EXCEPT ![r] = q]
    PROVE  req' \in [Requests -> RequestType] /\ Shapely'
BY DEF Shapely

\* hset keeps the shape of the registry.
LEMMA HSetType ==
    ASSUME TypeOK, NEW u \in Users, NEW ty \in Types, NEW jti \in Nat
    PROVE  HSet(u, ty, jti) \in [Users -> [Types -> Entry \cup {None}]]
BY TTLAssumption, NoneAssumption DEF TypeOK, HSet, Live, Entry

\* hexpire keeps the shape of the registry.
LEMMA HExpireType ==
    ASSUME TypeOK, NEW u \in Users, NEW ty \in Types
    PROVE  HExpire(u, ty) \in [Users -> [Types -> Entry \cup {None}]]
BY TTLAssumption DEF TypeOK, HExpire, Entry, TTL

\* hdel keeps the shape of the registry.
LEMMA HDelType ==
    ASSUME TypeOK, NEW u \in Users, NEW ty \in Types
    PROVE  HDel(u, ty) \in [Users -> [Types -> Entry \cup {None}]]
BY DEF TypeOK, HDel

\* A request that concludes without granting anything stays well formed.
LEMMA ConcludedType ==
    ASSUME TypeOK, Shapely, NEW r \in Requests, req[r].pc # "idle",
           req[r].kind \in WithCookies
    PROVE  Concluded(r) \in RequestType /\ Shape(Concluded(r))
<1>1. CASE req[r].kind = "logout"
  <2>1. Concluded(r) = [req[r] EXCEPT !.pc = "respond"]
    BY <1>1 DEF Concluded
  <2>2. req[r] \in RequestType /\ Shape(req[r])
    BY DEF TypeOK, Shapely
  <2>3. Concluded(r) \in RequestType
    BY <2>1, <2>2 DEF RequestType
  <2>4. Shape(Concluded(r))
    BY <1>1, <2>1, <2>2 DEF RequestType, Shape
  <2> QED BY <2>3, <2>4
<1>2. CASE req[r].kind # "logout"
  BY <1>2, IdleType DEF Concluded
<1> QED BY <1>1, <1>2

\* A request that turns to registering a new token stays well formed.
LEMMA RegisterType ==
    ASSUME NEW q \in RequestType, Shape(q), q.pc # "idle", q.kind \in {"login", "refresh"},
           NEW ty \in Types, NEW t \in Token, t # None, t.type = ty, t.user = q.user
    PROVE  /\ Register(q, ty, t) \in RequestType
           /\ Shape(Register(q, ty, t))
<1> DEFINE new == [q.new EXCEPT ![ty] = t]
<1>1. new \in [Types -> Token \cup {None}] /\ new[ty] = t
  BY DEF RequestType
<1>2. \A ty2 \in Types : new[ty2] # None => new[ty2].type = ty2 /\ new[ty2].user = q.user
  BY DEF RequestType, Shape
<1>3. Register(q, ty, t) = [q EXCEPT !.pc = "mint", !.tok = ty, !.n = 1, !.new = new]
  BY DEF Register
<1> HIDE DEF new
<1>4. Register(q, ty, t) \in RequestType
  <2>1. Register(q, ty, t) =
          [pc |-> "mint", kind |-> q.kind, user |-> q.user,
           pv |-> q.pv, gen |-> q.gen, enabled |-> q.enabled, tok |-> ty, n |-> 1,
           shown |-> q.shown, new |-> new]
    BY <1>3 DEF RequestType
  <2> QED BY <1>1, <2>1 DEF RequestType
<1>5. Shape(Register(q, ty, t))
  BY <1>1, <1>2, <1>3 DEF RequestType, Shape
<1> QED BY <1>4, <1>5

\* The initial state is well formed.
LEMMA TypeInit == Init => TypeInv
<1> SUFFICES ASSUME Init PROVE TypeInv
  OBVIOUS
<1>1. db \in [Users -> [pv : Version, gen : Nat, enabled : BOOLEAN]]
  BY BoundsAssumption DEF Init
<1>2. store \in [Users -> [Types -> Entry \cup {None}]]
  BY DEF Init, NoTokens
<1>3. req \in [Requests -> RequestType] /\ Shapely
  BY IdleType DEF Init, Shapely
<1> QED BY <1>1, <1>2, <1>3 DEF Init, TypeInv, TypeOK

\* Requests only change their own slot, so each action is a question about the
\* record it stores there.
LEMMA TypeNext == TypeInv /\ [Next]_vars => TypeInv'
<1> SUFFICES ASSUME TypeOK, Shapely, [Next]_vars PROVE TypeOK' /\ Shapely'
  BY DEF TypeInv
<1>t. /\ req \in [Requests -> RequestType]
      /\ nextJti \in Nat \ {0} /\ now \in Nat
      /\ db \in [Users -> [pv : Version, gen : Nat, enabled : BOOLEAN]]
      /\ granted \subseteq Pair
      /\ adm \in [Admins -> [user : Users, pv : Version] \cup {None}]
  BY DEF TypeOK
<1>1. ASSUME NEW r \in Requests, NEW u \in Users, StartLogin(r, u)
      PROVE  TypeOK' /\ Shapely'
  <2> DEFINE m == Mint("access", u, db[u].pv, db[u].gen, 0)
             q == [pc |-> "mint", kind |-> "login", user |-> u,
                   pv |-> db[u].pv, gen |-> db[u].gen, enabled |-> TRUE,
                   tok |-> "access", n |-> 1, shown |-> None,
                   new |-> [NoTokens EXCEPT !["access"] = m]]
  <2>0. db[u].pv \in Version /\ db[u].gen \in Nat /\ 0 \in Nat
    BY <1>t
  <2>1. m \in Token /\ m # None /\ m.type = "access" /\ m.user = u
    BY <2>0, MintType
  <2> HIDE DEF m
  <2>2. q.new \in [Types -> Token \cup {None}]
    BY <2>1 DEF NoTokens
  <2>3. q \in RequestType /\ Shape(q)
    BY <2>1, <2>2, <1>t, NoneAssumption DEF RequestType, Shape, NoTokens
  <2>4. req' = [req EXCEPT ![r] = q]
    BY <1>1 DEF StartLogin, m
  <2>5. req' \in [Requests -> RequestType] /\ Shapely'
    BY <2>3, <2>4, OneRequest, <1>t
  <2> QED BY <2>5, <1>1 DEF StartLogin, TypeOK
<1>2. ASSUME NEW r \in Requests, NEW p \in granted, NEW p2 \in granted, NEW kind \in WithCookies,
             Present(r, kind, Shown(p, p2))
      PROVE  TypeOK' /\ Shapely'
  <2> DEFINE shown == Shown(p, p2)
             u == shown["access"].user
             q == [pc |-> IF Expired(shown["access"]) THEN "respond" ELSE "verify",
                   kind |-> kind, user |-> u, pv |-> db[u].pv, gen |-> db[u].gen,
                   enabled |-> db[u].enabled, tok |-> "access", n |-> 0,
                   shown |-> shown, new |-> NoTokens]
  <2>1. shown \in Pair /\ u \in Users
    BY <1>t DEF Shown, Pair, Token
  <2>2. Expired(shown["access"]) => kind = "logout"
    BY <1>2 DEF Present
  <2>5. req' = [req EXCEPT ![r] = q]
    BY <1>2 DEF Present
  <2> HIDE DEF shown
  <2>3. q \in RequestType
    BY <2>1, <1>t DEF RequestType, NoTokens
  <2>4. Shape(q)
    BY <2>1, <2>2 DEF Shape, NoTokens
  <2>6. req' \in [Requests -> RequestType] /\ Shapely'
    BY <2>3, <2>4, <2>5, OneRequest, <1>t
  <2> QED BY <2>6, <1>2 DEF Present, TypeOK
<1>3. ASSUME NEW r \in Requests, RegisterJti(r)
      PROVE  TypeOK' /\ Shapely'
  <2> DEFINE q == [req[r] EXCEPT !.n = @ + 1]
  <2>1. Shape(req[r]) /\ req[r] \in RequestType /\ req[r].pc = "mint" /\ req[r].n \in {1, 3}
    BY <1>3, <1>t DEF Shapely, RegisterJti
  <2>2. q \in RequestType /\ Shape(q)
    BY <2>1 DEF RequestType, Shape
  <2>3. req' = [req EXCEPT ![r] = q]
    BY <1>3, <1>t DEF RegisterJti, RequestType
  <2>4. req[r].new[req[r].tok].jti \in Nat /\ req[r].user \in Users /\ req[r].tok \in Types
    BY <2>1 DEF Shape, RequestType, Token
  <2>5. store' \in [Users -> [Types -> Entry \cup {None}]]
    BY <2>4, <1>3, HSetType DEF RegisterJti
  <2>6. req' \in [Requests -> RequestType] /\ Shapely'
    BY <2>2, <2>3, OneRequest, <1>t
  <2> QED BY <2>5, <2>6, <1>3 DEF RegisterJti, TypeOK
<1>4. ASSUME NEW r \in Requests, ExtendJti(r)
      PROVE  TypeOK' /\ Shapely'
  <2> DEFINE q == [req[r] EXCEPT !.n = 3]
  <2>1. Shape(req[r]) /\ req[r] \in RequestType /\ req[r].pc = "mint"
    BY <1>4, <1>t DEF Shapely, ExtendJti
  <2>2. q \in RequestType /\ Shape(q)
    BY <2>1 DEF RequestType, Shape
  <2>3. req' = [req EXCEPT ![r] = q]
    BY <1>4, <1>t DEF ExtendJti, RequestType
  <2>4. req[r].user \in Users /\ req[r].tok \in Types
    BY <2>1 DEF Shape
  <2>5. store' \in [Users -> [Types -> Entry \cup {None}]]
    BY <2>4, <1>4, HExpireType DEF ExtendJti
  <2>6. req' \in [Requests -> RequestType] /\ Shapely'
    BY <2>2, <2>3, OneRequest, <1>t
  <2> QED BY <2>5, <2>6, <1>4 DEF ExtendJti, TypeOK
<1>5. ASSUME NEW r \in Requests, MintSecond(r)
      PROVE  TypeOK' /\ Shapely'
  <2> DEFINE ty == Other(req[r].tok)
             old == req[r].new[req[r].tok]
             m == Mint(ty, req[r].user, req[r].pv, old.gen, old.parent)
  <2>1. Shape(req[r]) /\ req[r] \in RequestType /\ req[r].pc = "mint"
    BY <1>5, <1>t DEF Shapely, MintSecond
  <2>2. /\ req[r].user \in Users /\ req[r].tok \in Types /\ ty \in Types
        /\ req[r].kind \in {"login", "refresh"}
    BY <2>1 DEF Shape, Other
  <2>3. old.gen \in Nat /\ old.parent \in Nat /\ req[r].pv \in Version
    BY <2>1, <2>2 DEF Shape, RequestType, Token
  <2>4. m \in Token /\ m # None /\ m.type = ty /\ m.user = req[r].user
    BY <2>2, <2>3, MintType
  <2>5. req' = [req EXCEPT ![r] = Register(req[r], ty, m)]
    BY <1>5 DEF MintSecond
  <2> HIDE DEF m, ty
  <2>6. /\ Register(req[r], ty, m) \in RequestType
        /\ Shape(Register(req[r], ty, m))
    BY <2>1, <2>2, <2>4, RegisterType
  <2>7. store' \in [Users -> [Types -> Entry \cup {None}]]
    BY <2>2, <1>5, HExpireType DEF MintSecond
  <2>8. req' \in [Requests -> RequestType] /\ Shapely'
    BY <2>5, <2>6, OneRequest, <1>t
  <2> QED BY <2>7, <2>8, <1>5 DEF MintSecond, TypeOK
<1>6. ASSUME NEW r \in Requests, MintDone(r)
      PROVE  TypeOK' /\ Shapely'
  <2> DEFINE q == [req[r] EXCEPT !.pc = "respond"]
  <2>1. Shape(req[r]) /\ req[r] \in RequestType /\ req[r].pc = "mint"
    BY <1>6, <1>t DEF Shapely, MintDone
  <2>2. req[r].user \in Users /\ req[r].tok \in Types
    BY <2>1 DEF Shape
  <2>3. \A ty \in Types : req[r].new[ty] # None
    BY <2>1, <1>6 DEF Shape, MintDone, Other
  <2>4. q \in RequestType /\ Shape(q)
    BY <2>1, <2>3 DEF RequestType, Shape
  <2>5. req' = [req EXCEPT ![r] = q]
    BY <1>6, <1>t DEF MintDone, RequestType
  <2>6. store' \in [Users -> [Types -> Entry \cup {None}]]
    BY <2>2, <1>6, HExpireType DEF MintDone
  <2>7. req' \in [Requests -> RequestType] /\ Shapely'
    BY <2>4, <2>5, OneRequest, <1>t
  <2> QED BY <2>6, <2>7, <1>6 DEF MintDone, TypeOK
<1>7. ASSUME NEW r \in Requests, VerifyUnknown(r)
      PROVE  TypeOK' /\ Shapely'
  <2>1. Shape(req[r]) /\ req[r] \in RequestType /\ req[r].pc # "idle" /\ req[r].kind \in WithCookies
    BY <1>7, <1>t DEF Shapely, Shape, VerifyUnknown
  <2>2. Concluded(r) \in RequestType /\ Shape(Concluded(r))
    BY <2>1, ConcludedType
  <2>3. req' \in [Requests -> RequestType] /\ Shapely'
    BY <2>2, <1>7, OneRequest, <1>t DEF VerifyUnknown
  <2> QED BY <2>3, <1>7 DEF VerifyUnknown, TypeOK
<1>8. ASSUME NEW r \in Requests, VerifyFailed(r)
      PROVE  TypeOK' /\ Shapely'
  <2> DEFINE q == [req[r] EXCEPT !.pc = "erase"]
  <2>1. Shape(req[r]) /\ req[r] \in RequestType /\ req[r].pc = "verify"
    BY <1>8, <1>t DEF Shapely, VerifyFailed
  <2>2. q \in RequestType /\ Shape(q)
    BY <2>1 DEF RequestType, Shape
  <2>3. req' = [req EXCEPT ![r] = q]
    BY <1>8, <1>t DEF VerifyFailed, RequestType
  <2>4. req' \in [Requests -> RequestType] /\ Shapely'
    BY <2>2, <2>3, OneRequest, <1>t
  <2> QED BY <2>4, <1>8 DEF VerifyFailed, TypeOK
<1>9. ASSUME NEW r \in Requests, Erase(r)
      PROVE  TypeOK' /\ Shapely'
  <2>1. Shape(req[r]) /\ req[r] \in RequestType /\ req[r].pc # "idle" /\ req[r].kind \in WithCookies
    BY <1>9, <1>t DEF Shapely, Shape, Erase
  <2>2. Concluded(r) \in RequestType /\ Shape(Concluded(r))
    BY <2>1, ConcludedType
  <2>3. req' \in [Requests -> RequestType] /\ Shapely'
    BY <2>2, <1>9, OneRequest, <1>t DEF Erase
  <2>4. store' \in [Users -> [Types -> Entry \cup {None}]]
    BY <2>1, <1>9, HDelType DEF Erase, Shape
  <2> QED BY <2>4, <2>3, <1>9 DEF Erase, TypeOK
<1>10. ASSUME NEW r \in Requests, AdmitAccess(r)
       PROVE  TypeOK' /\ Shapely'
  <2>1. Shape(req[r]) /\ req[r] \in RequestType /\ req[r].pc = "verify" /\ req[r].kind \in WithCookies
    BY <1>10, <1>t DEF Shapely, Shape, AdmitAccess, Verifying
  <2>2. Concluded(r) \in RequestType /\ Shape(Concluded(r))
    BY <2>1, ConcludedType
  <2>3. CASE ~req[r].enabled
    <3>1. req' = [req EXCEPT ![r] = Concluded(r)]
      BY <2>1, <2>3, <1>10 DEF AdmitAccess, RequestType
    <3>2. req' \in [Requests -> RequestType] /\ Shapely'
      BY <3>1, <2>2, OneRequest, <1>t
    <3> QED BY <3>2, <1>10 DEF AdmitAccess, TypeOK
  <2>4. CASE req[r].enabled /\ req[r].kind = "check"
    <3> DEFINE q == [req[r] EXCEPT !.pc = "respond"]
    <3>1. req' = [req EXCEPT ![r] = q]
      BY <2>4, <1>10 DEF AdmitAccess
    <3>2. q \in RequestType /\ Shape(q)
      BY <2>1, <2>4 DEF RequestType, Shape
    <3>3. req' \in [Requests -> RequestType] /\ Shapely'
      BY <3>1, <3>2, OneRequest, <1>t
    <3> QED BY <3>3, <1>10 DEF AdmitAccess, TypeOK
  <2>5. CASE req[r].enabled /\ req[r].kind = "logout"
    <3> DEFINE q == [req[r] EXCEPT !.pc = "endAccess"]
    <3>1. req' = [req EXCEPT ![r] = q]
      BY <2>5, <1>10 DEF AdmitAccess
    <3>2. q \in RequestType /\ Shape(q)
      BY <2>1, <2>5 DEF RequestType, Shape
    <3>3. req' \in [Requests -> RequestType] /\ Shapely'
      BY <3>1, <3>2, OneRequest, <1>t
    <3> QED BY <3>3, <1>10 DEF AdmitAccess, TypeOK
  <2>6. CASE req[r].enabled /\ req[r].kind = "refresh"
    <3> DEFINE q == [req[r] EXCEPT !.tok = "refresh"]
    <3>1. \/ req' = [req EXCEPT ![r] = q]
          \/ req' = [req EXCEPT ![r] = Idle]
      BY <2>6, <1>10 DEF AdmitAccess
    <3>2. q \in RequestType /\ Shape(q)
      BY <2>1, <2>6 DEF RequestType, Shape
    <3>3. req' \in [Requests -> RequestType] /\ Shapely'
      BY <3>1, <3>2, IdleType, OneRequest, <1>t
    <3> QED BY <3>3, <1>10 DEF AdmitAccess, TypeOK
  <2> QED BY <2>1, <2>3, <2>4, <2>5, <2>6
<1>11. ASSUME NEW r \in Requests, AdmitRefresh(r)
      PROVE  TypeOK' /\ Shapely'
  <2> DEFINE q == [req[r] EXCEPT !.pc = "dropRefresh"]
  <2>1. Shape(req[r]) /\ req[r] \in RequestType /\ req[r].pc = "verify" /\ req[r].tok = "refresh"
    BY <1>11, <1>t DEF Shapely, AdmitRefresh, Verifying
  <2>2. q \in RequestType /\ Shape(q)
    BY <2>1 DEF RequestType, Shape
  <2>3. req' = [req EXCEPT ![r] = q]
    BY <1>11, <1>t DEF AdmitRefresh, RequestType
  <2>4. req' \in [Requests -> RequestType] /\ Shapely'
    BY <2>2, <2>3, OneRequest, <1>t
  <2> QED BY <2>4, <1>11 DEF AdmitRefresh, TypeOK
<1>12. ASSUME NEW r \in Requests, DropRefresh(r)
      PROVE  TypeOK' /\ Shapely'
  <2> DEFINE q == [req[r] EXCEPT !.pc = "dropAccess"]
  <2>1. Shape(req[r]) /\ req[r] \in RequestType /\ req[r].pc = "dropRefresh"
    BY <1>12, <1>t DEF Shapely, DropRefresh
  <2>2. q \in RequestType /\ Shape(q)
    BY <2>1 DEF RequestType, Shape
  <2>3. req' = [req EXCEPT ![r] = q]
    BY <1>12, <1>t DEF DropRefresh, RequestType
  <2>4. req[r].user \in Users
    BY <2>1 DEF Shape, RequestType
  <2>5. store' \in [Users -> [Types -> Entry \cup {None}]]
    BY <2>4, <1>12, HDelType DEF DropRefresh
  <2>6. req' \in [Requests -> RequestType] /\ Shapely'
    BY <2>2, <2>3, OneRequest, <1>t
  <2> QED BY <2>5, <2>6, <1>12 DEF DropRefresh, TypeOK
<1>13. ASSUME NEW r \in Requests, DropAccess(r)
       PROVE  TypeOK' /\ Shapely'
  <2> DEFINE old == req[r].shown["refresh"]
             m == Mint("refresh", req[r].user, old.pv, old.gen, old.jti)
  <2>1. Shape(req[r]) /\ req[r] \in RequestType /\ req[r].pc = "dropAccess"
    BY <1>13, <1>t DEF Shapely, DropAccess
  <2>2. old \in Token /\ req[r].user \in Users /\ req[r].kind = "refresh"
    BY <2>1 DEF Shape, Pair
  <2>3. old.pv \in Version /\ old.gen \in Nat /\ old.jti \in Nat
    BY <2>2 DEF Token
  <2>4. m \in Token /\ m # None /\ m.type = "refresh" /\ m.user = req[r].user
    BY <2>2, <2>3, MintType
  <2>5. req' = [req EXCEPT ![r] = Register(req[r], "refresh", m)]
    BY <1>13 DEF DropAccess
  <2> HIDE DEF m
  <2>6. /\ Register(req[r], "refresh", m) \in RequestType
        /\ Shape(Register(req[r], "refresh", m))
    BY <2>1, <2>2, <2>4, RegisterType
  <2>7. store' \in [Users -> [Types -> Entry \cup {None}]]
    BY <2>2, <1>13, HDelType DEF DropAccess
  <2>8. req' \in [Requests -> RequestType] /\ Shapely'
    BY <2>5, <2>6, OneRequest, <1>t
  <2> QED BY <2>7, <2>8, <1>13 DEF DropAccess, TypeOK
<1>14. ASSUME NEW r \in Requests, DropUnversioned(r)
      PROVE  TypeOK' /\ Shapely'
  <2> DEFINE q == [req[r] EXCEPT !.pc = "endAccess"]
  <2>1. Shape(req[r]) /\ req[r] \in RequestType /\ req[r].pc = "dropAccess"
    BY <1>14, <1>t DEF Shapely, DropUnversioned
  <2>2. q \in RequestType /\ Shape(q)
    BY <2>1 DEF RequestType, Shape
  <2>3. req' = [req EXCEPT ![r] = q]
    BY <1>14, <1>t DEF DropUnversioned, RequestType
  <2>4. req[r].user \in Users
    BY <2>1 DEF Shape, RequestType
  <2>5. store' \in [Users -> [Types -> Entry \cup {None}]]
    BY <2>4, <1>14, HDelType DEF DropUnversioned
  <2>6. req' \in [Requests -> RequestType] /\ Shapely'
    BY <2>2, <2>3, OneRequest, <1>t
  <2> QED BY <2>5, <2>6, <1>14 DEF DropUnversioned, TypeOK
<1>15. ASSUME NEW r \in Requests, EndAccess(r)
      PROVE  TypeOK' /\ Shapely'
  <2> DEFINE q == [req[r] EXCEPT !.pc = "endRefresh"]
  <2>1. Shape(req[r]) /\ req[r] \in RequestType /\ req[r].pc = "endAccess"
    BY <1>15, <1>t DEF Shapely, EndAccess
  <2>2. q \in RequestType /\ Shape(q)
    BY <2>1 DEF RequestType, Shape
  <2>3. req' = [req EXCEPT ![r] = q]
    BY <1>15, <1>t DEF EndAccess, RequestType
  <2>4. req[r].user \in Users
    BY <2>1 DEF Shape, RequestType
  <2>5. store' \in [Users -> [Types -> Entry \cup {None}]]
    BY <2>4, <1>15, HDelType DEF EndAccess
  <2>6. req' \in [Requests -> RequestType] /\ Shapely'
    BY <2>2, <2>3, OneRequest, <1>t
  <2> QED BY <2>5, <2>6, <1>15 DEF EndAccess, TypeOK
<1>16. ASSUME NEW r \in Requests, EndRefresh(r)
      PROVE  TypeOK' /\ Shapely'
  <2>1. Shape(req[r]) /\ req[r] \in RequestType /\ req[r].pc # "idle" /\ req[r].kind \in WithCookies
    BY <1>16, <1>t DEF Shapely, Shape, EndRefresh
  <2>2. Concluded(r) \in RequestType /\ Shape(Concluded(r))
    BY <2>1, ConcludedType
  <2>3. req' \in [Requests -> RequestType] /\ Shapely'
    BY <2>2, <1>16, OneRequest, <1>t DEF EndRefresh
  <2>4. store' \in [Users -> [Types -> Entry \cup {None}]]
    BY <2>1, <1>16, HDelType DEF EndRefresh, Shape
  <2>5. ended' \in [Users -> Nat]
    BY <2>1, <1>16 DEF EndRefresh, Shape, TypeOK
  <2> QED BY <2>3, <2>4, <2>5, <1>16 DEF EndRefresh, TypeOK
<1>17. ASSUME NEW r \in Requests, RespondPair(r)
       PROVE  TypeOK' /\ Shapely'
  <2>1. Shape(req[r]) /\ req[r] \in RequestType
    BY <1>17, <1>t DEF Shapely
  <2>2. req[r].new \in Pair
    BY <2>1, <1>17 DEF RespondPair, Shape, RequestType, Pair
  <2>3. req' \in [Requests -> RequestType] /\ Shapely'
    BY <1>17, IdleType, OneRequest, <1>t DEF RespondPair
  <2> QED BY <2>2, <2>3, <1>17 DEF RespondPair, TypeOK
<1>18. ASSUME NEW r \in Requests, RespondOther(r)
       PROVE  TypeOK' /\ Shapely'
  <2>1. req' \in [Requests -> RequestType] /\ Shapely'
    BY <1>18, IdleType, OneRequest, <1>t DEF RespondOther
  <2> QED BY <2>1, <1>18 DEF RespondOther, TypeOK
<1>19. ASSUME NEW r \in Requests, Fail(r)
       PROVE  TypeOK' /\ Shapely'
  <2>1. req' \in [Requests -> RequestType] /\ Shapely'
    BY <1>19, IdleType, OneRequest, <1>t DEF Fail
  <2> QED BY <2>1, <1>19 DEF Fail, TypeOK
<1>20. ASSUME NEW a \in Admins, NEW u \in Users, AdminRead(a, u) \/ AdminSetEnabled(a, u)
       PROVE  TypeOK' /\ Shapely'
  <2>1. [user |-> u, pv |-> db[u].pv] \in [user : Users, pv : Version]
    BY <1>t
  <2>2. adm' \in [Admins -> [user : Users, pv : Version] \cup {None}]
    BY <2>1, <1>20, <1>t DEF AdminRead, AdminSetEnabled
  <2>3. db' \in [Users -> [pv : Version, gen : Nat, enabled : BOOLEAN]]
    BY <1>20, <1>t DEF AdminRead, AdminSetEnabled
  <2> QED BY <2>2, <2>3, <1>20 DEF AdminRead, AdminSetEnabled, TypeOK, Shapely
<1>21. ASSUME NEW a \in Admins, AdminSetPassword(a)
       PROVE  TypeOK' /\ Shapely'
  <2>1. adm[a].user \in Users /\ NextVersion(adm[a].pv) \in Version
    BY <1>21, <1>t DEF AdminSetPassword, NextVersion, Version
  <2>2. db' \in [Users -> [pv : Version, gen : Nat, enabled : BOOLEAN]]
    BY <2>1, <1>21, <1>t DEF AdminSetPassword
  <2> QED BY <2>2, <1>21 DEF AdminSetPassword, TypeOK, Shapely
<1>22. CASE Purge
  <2>1. store' \in [Users -> [Types -> Entry \cup {None}]]
    BY <1>22 DEF Purge, TypeOK
  <2> QED BY <2>1, <1>22 DEF Purge, TypeOK, Shapely
<1>23. CASE Tick
  BY <1>23 DEF Tick, TypeOK, Shapely
<1>24. CASE UNCHANGED vars
  BY <1>24 DEF vars, TypeOK, Shapely
<1> QED
  BY <1>1, <1>2, <1>3, <1>4, <1>5, <1>6, <1>7, <1>8, <1>9, <1>10, <1>11, <1>12, <1>13,
     <1>14, <1>15, <1>16, <1>17, <1>18, <1>19, <1>20, <1>21, <1>22, <1>23, <1>24
  DEF Next, RequestStep

\* Every reachable state has the declared shape.
THEOREM TypeCorrect == Spec => []TypeOK
<1>1. TypeInv => TypeOK
  BY DEF TypeInv
<1> QED BY <1>1, TypeInit, TypeNext, PTL DEF Spec

-----------------------------------------------------------------------------
(* jtis: a minted token has one of its own, and it is not a delivered one. *)

Minted(r, ty) == req[r].new[ty] # None

FreshInv ==
    /\ \A t \in Delivered : 0 < t.jti /\ t.jti < nextJti
    /\ \A r \in Requests, ty \in Types : Minted(r, ty) =>
          /\ 0 < req[r].new[ty].jti /\ req[r].new[ty].jti < nextJti
          /\ \A t \in Delivered : t.jti # req[r].new[ty].jti
    /\ \A r1, r2 \in Requests, ty1, ty2 \in Types :
          /\ Minted(r1, ty1) /\ Minted(r2, ty2)
          /\ req[r1].new[ty1].jti = req[r2].new[ty2].jti
          => r1 = r2 /\ ty1 = ty2

\* No token is minted and none delivered; requests may drop theirs.
Quiet ==
    /\ nextJti' = nextJti /\ granted' = granted
    /\ \A r \in Requests, ty \in Types : req'[r].new[ty] \in {req[r].new[ty], None}

\* One token is minted, with the next jti.
Mints ==
    /\ nextJti' = nextJti + 1 /\ granted' = granted
    /\ \E r \in Requests, ty \in Types :
          /\ req'[r].new[ty].jti = nextJti
          /\ \A r2 \in Requests, ty2 \in Types : <<r2, ty2>> # <<r, ty>> =>
                 req'[r2].new[ty2] \in {req[r2].new[ty2], None}

\* A step that neither mints nor delivers keeps jtis apart.
LEMMA FreshQuiet == TypeInv /\ FreshInv /\ Quiet => FreshInv'
<1> SUFFICES ASSUME FreshInv, Quiet PROVE FreshInv'
  OBVIOUS
<1>1. nextJti' = nextJti /\ Delivered' = Delivered
  BY DEF Quiet, Delivered
<1>2. \A r \in Requests, ty \in Types :
         Minted(r, ty)' => Minted(r, ty) /\ req'[r].new[ty] = req[r].new[ty]
  BY DEF Quiet, Minted
<1>3. ASSUME NEW r1 \in Requests, NEW r2 \in Requests, NEW ty1 \in Types, NEW ty2 \in Types,
             Minted(r1, ty1)', Minted(r2, ty2)',
             req'[r1].new[ty1].jti = req'[r2].new[ty2].jti
      PROVE  r1 = r2 /\ ty1 = ty2
  <2>1. /\ Minted(r1, ty1) /\ Minted(r2, ty2)
        /\ req[r1].new[ty1].jti = req[r2].new[ty2].jti
    BY <1>2, <1>3
  <2> QED BY <2>1 DEF FreshInv
<1> QED BY <1>1, <1>2, <1>3 DEF FreshInv

\* A step that mints one token draws a jti nobody has.
LEMMA FreshMints == TypeInv /\ FreshInv /\ Mints => FreshInv'
<1> SUFFICES ASSUME TypeOK, FreshInv, Mints PROVE FreshInv'
  BY DEF TypeInv
<1>1. PICK r \in Requests, ty \in Types :
        /\ req'[r].new[ty].jti = nextJti
        /\ \A r2 \in Requests, ty2 \in Types : <<r2, ty2>> # <<r, ty>> =>
               req'[r2].new[ty2] \in {req[r2].new[ty2], None}
  BY DEF Mints
<1>2. nextJti \in Nat \ {0} /\ nextJti' = nextJti + 1 /\ Delivered' = Delivered
  BY DEF Mints, TypeOK, Delivered
<1>3. \A t \in Delivered : t.jti \in Nat
  BY DEF TypeOK, Delivered, Pair, Token
<1>4. \A r2 \in Requests, ty2 \in Types : Minted(r2, ty2) => req[r2].new[ty2].jti \in Nat
  BY DEF TypeOK, RequestType, Minted, Token
<1>5. \A t \in Delivered' : 0 < t.jti /\ t.jti < nextJti'
  BY <1>2, <1>3 DEF FreshInv
<1>6. ASSUME NEW r2 \in Requests, NEW ty2 \in Types, Minted(r2, ty2)'
      PROVE  /\ 0 < req'[r2].new[ty2].jti /\ req'[r2].new[ty2].jti < nextJti'
             /\ \A t \in Delivered' : t.jti # req'[r2].new[ty2].jti
  <2>1. CASE <<r2, ty2>> = <<r, ty>>
    BY <2>1, <1>1, <1>2, <1>3 DEF FreshInv
  <2>2. CASE <<r2, ty2>> # <<r, ty>>
    <3>1. Minted(r2, ty2) /\ req'[r2].new[ty2] = req[r2].new[ty2]
      BY <2>2, <1>1, <1>6 DEF Minted
    <3> QED BY <3>1, <1>2, <1>3, <1>4 DEF FreshInv
  <2> QED BY <2>1, <2>2
<1>7. ASSUME NEW r1 \in Requests, NEW r2 \in Requests, NEW ty1 \in Types, NEW ty2 \in Types,
             Minted(r1, ty1)', Minted(r2, ty2)',
             req'[r1].new[ty1].jti = req'[r2].new[ty2].jti
      PROVE  r1 = r2 /\ ty1 = ty2
  <2>1. \A r3 \in Requests, ty3 \in Types :
           Minted(r3, ty3)' /\ <<r3, ty3>> # <<r, ty>> =>
              /\ Minted(r3, ty3) /\ req'[r3].new[ty3] = req[r3].new[ty3]
              /\ req'[r3].new[ty3].jti # nextJti
    BY <1>1, <1>2, <1>4 DEF Minted, FreshInv
  <2>2. CASE <<r1, ty1>> = <<r, ty>> \/ <<r2, ty2>> = <<r, ty>>
    BY <2>1, <2>2, <1>1, <1>7
  <2>3. CASE <<r1, ty1>> # <<r, ty>> /\ <<r2, ty2>> # <<r, ty>>
    BY <2>1, <2>3, <1>7 DEF FreshInv
  <2> QED BY <2>2, <2>3
<1> QED BY <1>5, <1>6, <1>7 DEF FreshInv

\* A delivery turns the two jtis of one request into delivered ones.
LEMMA FreshDelivers ==
    ASSUME TypeInv, FreshInv, NEW r \in Requests, RespondPair(r)
    PROVE  FreshInv'
<1>1. \A ty \in Types : Minted(r, ty)
  BY DEF TypeInv, Shapely, Shape, RespondPair, Minted
<1>2. \A t \in Delivered' : t \in Delivered \/ \E ty \in Types : t = req[r].new[ty]
  BY DEF RespondPair, Delivered
<1>3. nextJti' = nextJti
  BY DEF RespondPair
<1>4. \A r2 \in Requests, ty \in Types : Minted(r2, ty)' =>
         r2 # r /\ Minted(r2, ty) /\ req'[r2].new[ty] = req[r2].new[ty]
  BY DEF RespondPair, Minted, TypeInv, TypeOK, Idle, NoTokens
<1>5. \A t \in Delivered' : 0 < t.jti /\ t.jti < nextJti'
  BY <1>1, <1>2, <1>3 DEF FreshInv
<1>6. ASSUME NEW r2 \in Requests, NEW ty \in Types, Minted(r2, ty)'
      PROVE  /\ 0 < req'[r2].new[ty].jti /\ req'[r2].new[ty].jti < nextJti'
             /\ \A t \in Delivered' : t.jti # req'[r2].new[ty].jti
  BY <1>1, <1>2, <1>3, <1>4, <1>6 DEF FreshInv
<1>7. ASSUME NEW r1 \in Requests, NEW r2 \in Requests, NEW ty1 \in Types, NEW ty2 \in Types,
             Minted(r1, ty1)', Minted(r2, ty2)',
             req'[r1].new[ty1].jti = req'[r2].new[ty2].jti
      PROVE  r1 = r2 /\ ty1 = ty2
  <2>1. /\ Minted(r1, ty1) /\ Minted(r2, ty2)
        /\ req[r1].new[ty1].jti = req[r2].new[ty2].jti
    BY <1>4, <1>7
  <2> QED BY <2>1 DEF FreshInv
<1> QED BY <1>5, <1>6, <1>7 DEF FreshInv

\* Every step is one of three: it mints one token, it delivers a pair, or it
\* does neither.
LEMMA StepKinds ==
    ASSUME TypeInv, [Next]_vars
    PROVE  Quiet \/ Mints \/ \E r \in Requests : RespondPair(r)
<1>t. req \in [Requests -> RequestType] /\ nextJti \in Nat
  BY DEF TypeInv, TypeOK
<1>c. ASSUME NEW r \in Requests
      PROVE  \A ty \in Types : Concluded(r).new[ty] \in {req[r].new[ty], None}
  BY <1>t DEF Concluded, RequestType, Idle, NoTokens
<1>q. ASSUME NEW r \in Requests, NEW q, req' = [req EXCEPT ![r] = q],
             \A ty \in Types : q.new[ty] \in {req[r].new[ty], None},
             UNCHANGED <<nextJti, granted>>
      PROVE  Quiet
  BY <1>q, <1>t DEF Quiet
<1>i. \A ty \in Types : Idle.new[ty] = None
  BY DEF Idle, NoTokens
<1>m. ASSUME NEW r \in Requests, NEW ty \in Types, NEW q, NEW t,
             q = Register(req[r], ty, t), t.jti = nextJti,
             req' = [req EXCEPT ![r] = q], nextJti' = nextJti + 1, granted' = granted
      PROVE  Mints
  <2>1. q.new = [req[r].new EXCEPT ![ty] = t]
    BY <1>m, <1>t DEF Register, RequestType
  <2>2. req'[r].new[ty].jti = nextJti
    BY <2>1, <1>m, <1>t DEF RequestType
  <2>3. \A r2 \in Requests, ty2 \in Types : <<r2, ty2>> # <<r, ty>> =>
           req'[r2].new[ty2] = req[r2].new[ty2]
    BY <2>1, <1>m, <1>t DEF RequestType
  <2> QED BY <2>2, <2>3, <1>m DEF Mints
<1>1. ASSUME NEW r \in Requests, NEW u \in Users, StartLogin(r, u)
      PROVE  Mints
  <2> DEFINE t == Mint("access", u, db[u].pv, db[u].gen, 0)
  <2>1. t.jti = nextJti
    BY DEF Mint
  <2> HIDE DEF t
  <2>2. req'[r].new = [NoTokens EXCEPT !["access"] = t]
    BY <1>1, <1>t DEF StartLogin, t
  <2>3. req'[r].new["access"].jti = nextJti /\ req'[r].new["refresh"] = None
    BY <2>1, <2>2 DEF NoTokens
  <2>4. \A r2 \in Requests : r2 # r => req'[r2] = req[r2]
    BY <1>1, <1>t DEF StartLogin
  <2>5. \A r2 \in Requests, ty2 \in Types : <<r2, ty2>> # <<r, "access">> =>
           req'[r2].new[ty2] \in {req[r2].new[ty2], None}
    BY <2>3, <2>4
  <2> QED BY <2>3, <2>5, <1>1 DEF StartLogin, Mints
<1>2. ASSUME NEW r \in Requests, NEW kind \in WithCookies, NEW shown, Present(r, kind, shown)
      PROVE  Quiet
  <2>1. \A ty \in Types : req'[r].new[ty] = None
    BY <1>2, <1>t DEF Present, NoTokens
  <2>2. \A r2 \in Requests : r2 # r => req'[r2] = req[r2]
    BY <1>2, <1>t DEF Present
  <2> QED BY <2>1, <2>2, <1>2 DEF Present, Quiet
<1>3. ASSUME NEW r \in Requests, RegisterJti(r)
      PROVE  Quiet
  BY <1>3, <1>t DEF RegisterJti, Quiet, RequestType
<1>4. ASSUME NEW r \in Requests, ExtendJti(r)
      PROVE  Quiet
  BY <1>4, <1>t DEF ExtendJti, Quiet, RequestType
<1>5. ASSUME NEW r \in Requests, MintDone(r)
      PROVE  Quiet
  BY <1>5, <1>t DEF MintDone, Quiet, RequestType
<1>6. ASSUME NEW r \in Requests, VerifyFailed(r)
      PROVE  Quiet
  BY <1>6, <1>t DEF VerifyFailed, Quiet, RequestType
<1>7. ASSUME NEW r \in Requests, AdmitRefresh(r)
      PROVE  Quiet
  BY <1>7, <1>t DEF AdmitRefresh, Quiet, RequestType
<1>8. ASSUME NEW r \in Requests, DropRefresh(r)
      PROVE  Quiet
  BY <1>8, <1>t DEF DropRefresh, Quiet, RequestType
<1>9. ASSUME NEW r \in Requests, DropUnversioned(r)
      PROVE  Quiet
  BY <1>9, <1>t DEF DropUnversioned, Quiet, RequestType
<1>10. ASSUME NEW r \in Requests, EndAccess(r)
      PROVE  Quiet
  BY <1>10, <1>t DEF EndAccess, Quiet, RequestType
<1>11. ASSUME NEW r \in Requests, VerifyUnknown(r)
      PROVE  Quiet
  BY <1>11, <1>c, <1>q DEF VerifyUnknown
<1>12. ASSUME NEW r \in Requests, Erase(r)
      PROVE  Quiet
  BY <1>12, <1>c, <1>q DEF Erase
<1>13. ASSUME NEW r \in Requests, EndRefresh(r)
      PROVE  Quiet
  BY <1>13, <1>c, <1>q DEF EndRefresh
<1>14. ASSUME NEW r \in Requests, AdmitAccess(r)
      PROVE  Quiet
  <2>1. PICK q : req' = [req EXCEPT ![r] = q] /\ q.new \in {Concluded(r).new, req[r].new, Idle.new}
    <3>1. req[r].kind \in {"check", "refresh", "logout"} /\ req[r].enabled \in BOOLEAN
      BY <1>14, <1>t DEF AdmitAccess, Verifying, TypeInv, Shapely, Shape, RequestType
    <3>2. \A pc : [req[r] EXCEPT !.pc = pc].new = req[r].new
      BY <1>t DEF RequestType
    <3>3. \A tok : [req[r] EXCEPT !.tok = tok].new = req[r].new
      BY <1>t DEF RequestType
    <3> QED BY <3>1, <3>2, <3>3, <1>14 DEF AdmitAccess
  <2>2. \A ty \in Types : q.new[ty] \in {req[r].new[ty], None}
    BY <2>1, <1>c, <1>i
  <2> QED BY <2>1, <2>2, <1>14, <1>q DEF AdmitAccess
<1>15. ASSUME NEW r \in Requests, MintSecond(r)
      PROVE  Mints
  <2> DEFINE ty == Other(req[r].tok)
             t == Mint(ty, req[r].user, req[r].pv,
                       req[r].new[req[r].tok].gen, req[r].new[req[r].tok].parent)
  <2>1. ty \in Types /\ t.jti = nextJti
    BY DEF Other, Mint
  <2>2. req' = [req EXCEPT ![r] = Register(req[r], ty, t)] /\ nextJti' = nextJti + 1 /\ granted' = granted
    BY <1>15 DEF MintSecond
  <2> HIDE DEF ty, t
  <2> QED BY <2>1, <2>2, <1>m
<1>16. ASSUME NEW r \in Requests, DropAccess(r)
      PROVE  Mints
  <2> DEFINE old == req[r].shown["refresh"]
             t == Mint("refresh", req[r].user, old.pv, old.gen, old.jti)
  <2>1. t.jti = nextJti
    BY DEF Mint
  <2>2. req' = [req EXCEPT ![r] = Register(req[r], "refresh", t)] /\ nextJti' = nextJti + 1 /\ granted' = granted
    BY <1>16 DEF DropAccess
  <2> HIDE DEF t
  <2> QED BY <2>1, <2>2, <1>m
<1>17. ASSUME NEW r \in Requests, RespondOther(r) \/ Fail(r)
      PROVE  Quiet
  BY <1>17, <1>i, <1>q DEF RespondOther, Fail
<1>18. ASSUME \/ \E a \in Admins : \/ AdminSetPassword(a)
                            \/ \E u \in Users : AdminRead(a, u) \/ AdminSetEnabled(a, u)
             \/ Purge \/ Tick \/ UNCHANGED vars
      PROVE  Quiet
  BY <1>18 DEF AdminSetPassword, AdminRead, AdminSetEnabled, Purge, Tick, vars, Quiet
<1> QED
  BY <1>1, <1>2, <1>3, <1>4, <1>5, <1>6, <1>7, <1>8, <1>9, <1>10, <1>11, <1>12, <1>13, <1>14, <1>15, <1>16, <1>17, <1>18 DEF Next, RequestStep

\* In every reachable state the jtis of tokens in the making and of tokens
\* handed out are all different and already drawn.
THEOREM FreshCorrect == Spec => [](TypeInv /\ FreshInv)
<1>1. Init => FreshInv
  BY DEF Init, FreshInv, Delivered, Minted, Idle, NoTokens
<1>2. TypeInv /\ FreshInv /\ [Next]_vars => FreshInv'
  BY StepKinds, FreshQuiet, FreshMints, FreshDelivers
<1> QED BY <1>1, <1>2, TypeInit, TypeNext, PTL DEF Spec

-----------------------------------------------------------------------------
(* Registrations.                                                          *)

\* A step registers nothing but a token that is minted and not yet delivered.
StoreMoves ==
    \A u \in Users, ty \in Types : store'[u][ty] # None =>
        \/ store[u][ty] # None /\ store'[u][ty].jti = store[u][ty].jti
        \/ \E r \in Requests : Minted(r, ty) /\ store'[u][ty].jti = req[r].new[ty].jti

\* A registration only appears for a token some request is minting.
LEMMA StepStore ==
    ASSUME TypeInv, [Next]_vars
    PROVE  StoreMoves
<1>t. store \in [Users -> [Types -> Entry \cup {None}]]
  BY DEF TypeInv, TypeOK
<1>d. ASSUME NEW u \in Users, NEW ty \in Types, store' = HDel(u, ty)
      PROVE  StoreMoves
  BY <1>d, <1>t DEF StoreMoves, HDel
<1>e. ASSUME NEW u \in Users, NEW ty \in Types, store' = HExpire(u, ty)
      PROVE  StoreMoves
  BY <1>e, <1>t DEF StoreMoves, HExpire
<1>u. ASSUME store' = store
      PROVE  StoreMoves
  BY <1>u DEF StoreMoves
<1>s. \A r \in Requests : req[r].pc # "idle" => req[r].user \in Users
  BY DEF TypeInv, Shapely, Shape
<1>k. \A r \in Requests : req[r].pc \in {"mint", "verify", "erase"} => req[r].tok \in Types
  BY DEF TypeInv, Shapely, Shape
<1>1. ASSUME NEW r \in Requests, RegisterJti(r)
      PROVE  StoreMoves
  <2>1. req[r].user \in Users /\ req[r].tok \in Types /\ Minted(r, req[r].tok)
    BY <1>1, <1>s, <1>k DEF RegisterJti, TypeInv, Shapely, Shape, Minted
  <2>2. \A u \in Users, ty \in Types :
           \/ store'[u][ty] = store[u][ty]
           \/ ty = req[r].tok /\ store'[u][ty].jti = req[r].new[ty].jti
    BY <1>1, <2>1, <1>t DEF RegisterJti, HSet
  <2> QED BY <2>1, <2>2 DEF StoreMoves
<1>2. ASSUME NEW r \in Requests, ExtendJti(r) \/ MintSecond(r) \/ MintDone(r)
      PROVE  StoreMoves
  BY <1>2, <1>e, <1>s, <1>k DEF ExtendJti, MintSecond, MintDone
<1>3. ASSUME NEW r \in Requests,
             \/ Erase(r) \/ DropRefresh(r) \/ DropAccess(r) \/ DropUnversioned(r)
             \/ EndAccess(r) \/ EndRefresh(r)
      PROVE  StoreMoves
  BY <1>3, <1>d, <1>s, <1>k DEF Erase, DropRefresh, DropAccess, DropUnversioned, EndAccess, EndRefresh
<1>4. ASSUME Purge
      PROVE  StoreMoves
  BY <1>4, <1>t DEF Purge, StoreMoves
<1>5. ASSUME \/ \E r \in Requests :
                  \/ \E u \in Users : StartLogin(r, u)
                  \/ \E p, q \in granted, kind \in WithCookies : Present(r, kind, Shown(p, q))
             \/ \E r \in Requests :
                  \/ VerifyUnknown(r) \/ VerifyFailed(r) \/ AdmitAccess(r) \/ AdmitRefresh(r)
                  \/ RespondPair(r) \/ RespondOther(r) \/ Fail(r)
             \/ \E a \in Admins : \/ AdminSetPassword(a)
                               \/ \E u \in Users : AdminRead(a, u) \/ AdminSetEnabled(a, u)
             \/ Tick \/ UNCHANGED vars
      PROVE  StoreMoves
  <2>1. store' = store
    BY <1>5 DEF StartLogin, Present, VerifyUnknown, VerifyFailed, AdmitAccess, AdmitRefresh,
                RespondPair, RespondOther, Fail, AdminSetPassword, AdminRead, AdminSetEnabled,
                Tick, vars
  <2> QED BY <2>1, <1>u
<1> QED BY <1>1, <1>2, <1>3, <1>4, <1>5 DEF Next, RequestStep

\* No single step gives a delivered token its registration back.
LEMMA RevocationStep ==
    ASSUME TypeInv, FreshInv, [Next]_vars, NEW t \in Delivered, ~Registered(t)
    PROVE  ~Registered(t)'
<1>1. t.user \in Users /\ t.type \in Types
  BY DEF TypeInv, TypeOK, Delivered, Pair, Token
<1>2. SUFFICES ASSUME Registered(t)' PROVE FALSE
  OBVIOUS
<1>3. store'[t.user][t.type] # None /\ store'[t.user][t.type].jti = t.jti
  BY <1>2 DEF Registered
<1>4. \A r \in Requests, ty \in Types : Minted(r, ty) => t.jti # req[r].new[ty].jti
  BY DEF FreshInv
<1> QED BY <1>1, <1>3, <1>4, StepStore DEF StoreMoves, Registered

\* A delivered token that has lost its registration never gets it back.
THEOREM RevocationCorrect == Spec => RevocationIsFinal
<1>1. TypeInv /\ FreshInv /\ [Next]_vars =>
         [\A t \in Delivered : ~Registered(t) => ~Registered(t)']_vars
  BY RevocationStep
<1> QED BY <1>1, FreshCorrect, PTL DEF Spec, RevocationIsFinal

-----------------------------------------------------------------------------
(* Lineage: which token a session was rotated from, and that it is spent.  *)

Known(j) == j = 0 \/ \E t \in Delivered : t.jti = j
Dead(j) == \A t \in Delivered : t.jti = j => ~Registered(t)
Spent(j) == Known(j) /\ Dead(j)

CookiePcs == {"verify", "erase", "dropRefresh", "dropAccess", "endAccess", "endRefresh"}

\* Where the tokens a request holds come from: the two it shows were handed
\* out, but not always together, so only a validated one is the user's.
Provenance ==
    /\ \A r \in Requests, ty \in Types : req[r].shown # None =>
          req[r].shown[ty] \in Delivered /\ req[r].shown[ty].type = ty
    /\ \A p \in granted, ty \in Types : p[ty].type = ty /\ p[ty].user = p["access"].user
    /\ \A t1, t2 \in Delivered : t1.jti = t2.jti => t1 = t2
    /\ \A r \in Requests :
          /\ req[r].pc \in CookiePcs => req[r].user = req[r].shown["access"].user
          /\ req[r].pc \in {"dropRefresh", "dropAccess"} =>
                req[r].user = req[r].shown["refresh"].user

\* The parent of a token is spent before the token exists.
Succession ==
    /\ \A r \in Requests, ty \in Types : Minted(r, ty) => Spent(req[r].new[ty].parent)
    /\ \A r \in Requests :
          req[r].pc = "dropAccess" => Spent(req[r].shown["refresh"].jti)
    /\ \A t \in Delivered : Spent(t.parent)

\* What a step may do to a request: start it from cookies, start a sign-in, or
\* carry it on.
Carries(r) ==
    /\ req'[r].shown \in {req[r].shown, None}
    /\ req'[r].pc \in CookiePcs =>
          /\ req[r].pc \in CookiePcs
          /\ req'[r].shown = req[r].shown /\ req'[r].user = req[r].user
          /\ req'[r].pc = "dropRefresh" => req[r].pc = "dropRefresh" \/ AdmitRefresh(r)
    /\ req'[r].pc = "dropAccess" =>
          req'[r].shown = req[r].shown /\ (req[r].pc = "dropAccess" \/ DropRefresh(r))
    /\ \A ty \in Types :
          \/ req'[r].new[ty] \in {req[r].new[ty], None}
          \/ \E ty2 \in Types : Minted(r, ty2) /\ req'[r].new[ty].parent = req[r].new[ty2].parent
          \/ req[r].pc = "dropAccess" /\ req'[r].new[ty].parent = req[r].shown["refresh"].jti

\* A slot starts a sign-in, starts a request with cookies, or carries on with
\* what it already holds.
LEMMA StepRequest ==
    ASSUME TypeInv, [Next]_vars, NEW r \in Requests
    PROVE  \/ \E u \in Users : StartLogin(r, u)
           \/ \E p, q \in granted, kind \in WithCookies : Present(r, kind, Shown(p, q))
           \/ Carries(r)
<1>t. req \in [Requests -> RequestType]
  BY DEF TypeInv, TypeOK
<1>i. \A r2 \in Requests : req' = [req EXCEPT ![r2] = Idle] => Carries(r)
  BY <1>t DEF Carries, Idle, NoTokens, CookiePcs
<1>f. req'[r] = req[r] => Carries(r)
  BY DEF Carries
<1>c. \A r2 \in Requests : req' = [req EXCEPT ![r2] = Concluded(r2)] => Carries(r)
  <2> SUFFICES ASSUME NEW r2 \in Requests, req' = [req EXCEPT ![r2] = Concluded(r2)]
               PROVE  Carries(r)
    OBVIOUS
  <2>1. CASE req[r2].kind = "logout"
    BY <2>1, <1>t DEF Concluded, Carries, CookiePcs, RequestType
  <2>2. CASE req[r2].kind # "logout"
    BY <2>2, <1>i DEF Concluded
  <2> QED BY <2>1, <2>2
<1>1. ASSUME NEW r2 \in Requests, RegisterJti(r2)
      PROVE  Carries(r)
  BY <1>1, <1>t DEF RegisterJti, Carries, CookiePcs, RequestType
<1>2. ASSUME NEW r2 \in Requests, ExtendJti(r2)
      PROVE  Carries(r)
  BY <1>2, <1>t DEF ExtendJti, Carries, CookiePcs, RequestType
<1>3. ASSUME NEW r2 \in Requests, MintDone(r2)
      PROVE  Carries(r)
  BY <1>3, <1>t DEF MintDone, Carries, CookiePcs, RequestType
<1>4. ASSUME NEW r2 \in Requests, VerifyFailed(r2)
      PROVE  Carries(r)
  BY <1>4, <1>t DEF VerifyFailed, Carries, CookiePcs, RequestType
<1>5. ASSUME NEW r2 \in Requests, AdmitRefresh(r2)
      PROVE  Carries(r)
  <2>1. CASE r2 = r
    <3>1. req'[r] = [req[r] EXCEPT !.pc = "dropRefresh"] /\ req[r].pc = "verify"
      BY <2>1, <1>5, <1>t DEF AdmitRefresh, RequestType, Verifying
    <3> QED BY <3>1, <2>1, <1>5, <1>t DEF Carries, CookiePcs, RequestType
  <2>2. CASE r2 # r
    BY <2>2, <1>5, <1>f, <1>t DEF AdmitRefresh
  <2> QED BY <2>1, <2>2
<1>6. ASSUME NEW r2 \in Requests, DropUnversioned(r2)
      PROVE  Carries(r)
  BY <1>6, <1>t DEF DropUnversioned, Carries, CookiePcs, RequestType
<1>7. ASSUME NEW r2 \in Requests, EndAccess(r2)
      PROVE  Carries(r)
  BY <1>7, <1>t DEF EndAccess, Carries, CookiePcs, RequestType
<1>8. ASSUME NEW r2 \in Requests, DropRefresh(r2)
      PROVE  Carries(r)
  <2>1. CASE r2 = r
    <3>1. req'[r] = [req[r] EXCEPT !.pc = "dropAccess"] /\ req[r].pc = "dropRefresh"
      BY <2>1, <1>8, <1>t DEF DropRefresh, RequestType
    <3> QED BY <3>1, <2>1, <1>8, <1>t DEF Carries, CookiePcs, RequestType
  <2>2. CASE r2 # r
    BY <2>2, <1>8, <1>f, <1>t DEF DropRefresh
  <2> QED BY <2>1, <2>2
<1>9. ASSUME NEW r2 \in Requests, \/ VerifyUnknown(r2) \/ Erase(r2) \/ EndRefresh(r2)
      PROVE  Carries(r)
  BY <1>9, <1>c DEF VerifyUnknown, Erase, EndRefresh
<1>10. ASSUME NEW r2 \in Requests, AdmitAccess(r2)
      PROVE  Carries(r)
  <2>1. req[r2].kind \in {"check", "refresh", "logout"} /\ req[r2].enabled \in BOOLEAN
    BY <1>10, <1>t DEF AdmitAccess, Verifying, TypeInv, Shapely, Shape, RequestType
  <2>2. \/ req' = [req EXCEPT ![r2] = Concluded(r2)]
        \/ req' = [req EXCEPT ![r2] = Idle]
        \/ req' = [req EXCEPT ![r2] = [req[r2] EXCEPT !.tok = "refresh"]]
        \/ req' = [req EXCEPT ![r2] = [req[r2] EXCEPT !.pc = "respond"]]
        \/ req' = [req EXCEPT ![r2] = [req[r2] EXCEPT !.pc = "endAccess"]]
    BY <2>1, <1>10 DEF AdmitAccess
  <2>3. req[r2].pc = "verify"
    BY <1>10 DEF AdmitAccess, Verifying
  <2>4. ASSUME req' = [req EXCEPT ![r2] = [req[r2] EXCEPT !.tok = "refresh"]]
        PROVE  Carries(r)
    BY <2>3, <2>4, <1>t DEF Carries, CookiePcs, RequestType
  <2>5. ASSUME NEW pc \in {"respond", "endAccess"}, req' = [req EXCEPT ![r2] = [req[r2] EXCEPT !.pc = pc]]
        PROVE  Carries(r)
    BY <2>3, <2>5, <1>t DEF Carries, CookiePcs, RequestType
  <2> QED BY <2>2, <2>4, <2>5, <1>c, <1>i
<1>11. ASSUME NEW r2 \in Requests, MintSecond(r2)
      PROVE  Carries(r)
  <2> DEFINE ty == Other(req[r].tok)
             t == Mint(ty, req[r].user, req[r].pv,
                       req[r].new[req[r].tok].gen, req[r].new[req[r].tok].parent)
  <2>1. CASE r2 # r
    BY <2>1, <1>11, <1>f, <1>t DEF MintSecond
  <2>2. CASE r2 = r
    <3>1. t.parent = req[r].new[req[r].tok].parent /\ ty \in Types
      BY DEF Mint, Other
    <3>2. req' = [req EXCEPT ![r] = Register(req[r], ty, t)]
      BY <2>2, <1>11 DEF MintSecond
    <3>3. req[r].tok \in Types /\ Minted(r, req[r].tok)
      BY <2>2, <1>11 DEF MintSecond, TypeInv, Shapely, Shape, Minted
    <3> HIDE DEF t, ty
    <3>4. /\ req'[r].new = [req[r].new EXCEPT ![ty] = t]
          /\ req'[r].pc = "mint" /\ req'[r].shown = req[r].shown
      BY <3>2, <1>t DEF Register, RequestType
    <3>5. \A ty2 \in Types : ty2 # ty => req'[r].new[ty2] = req[r].new[ty2]
      BY <3>4, <1>t DEF RequestType
    <3>6. req'[r].new[ty].parent = req[r].new[req[r].tok].parent
      BY <3>1, <3>4, <1>t DEF RequestType
    <3> QED BY <3>3, <3>4, <3>5, <3>6 DEF Carries, CookiePcs
  <2> QED BY <2>1, <2>2
<1>12. ASSUME NEW r2 \in Requests, DropAccess(r2)
      PROVE  Carries(r)
  <2> DEFINE old == req[r].shown["refresh"]
             t == Mint("refresh", req[r].user, old.pv, old.gen, old.jti)
  <2>1. CASE r2 # r
    BY <2>1, <1>12, <1>f, <1>t DEF DropAccess
  <2>2. CASE r2 = r
    <3>1. t.parent = old.jti
      BY DEF Mint
    <3>2. req' = [req EXCEPT ![r] = Register(req[r], "refresh", t)] /\ req[r].pc = "dropAccess"
      BY <2>2, <1>12 DEF DropAccess
    <3> HIDE DEF t
    <3>3. /\ req'[r].new = [req[r].new EXCEPT !["refresh"] = t]
          /\ req'[r].pc = "mint" /\ req'[r].shown = req[r].shown
      BY <3>2, <1>t DEF Register, RequestType
    <3>4. req'[r].new["refresh"] = t /\ req'[r].new["access"] = req[r].new["access"]
      BY <3>3, <1>t DEF RequestType
    <3> QED BY <3>1, <3>2, <3>3, <3>4 DEF Carries, CookiePcs
  <2> QED BY <2>1, <2>2
<1>13. ASSUME NEW r2 \in Requests, RespondPair(r2) \/ RespondOther(r2) \/ Fail(r2)
      PROVE  Carries(r)
  BY <1>13, <1>i DEF RespondPair, RespondOther, Fail
<1>14. ASSUME \/ \E a \in Admins : \/ AdminSetPassword(a)
                            \/ \E u \in Users : AdminRead(a, u) \/ AdminSetEnabled(a, u)
             \/ Purge \/ Tick \/ UNCHANGED vars
      PROVE  Carries(r)
  BY <1>14, <1>f DEF AdminSetPassword, AdminRead, AdminSetEnabled, Purge, Tick, vars
<1>15. ASSUME NEW r2 \in Requests, r2 # r,
             \/ \E u \in Users : StartLogin(r2, u)
             \/ \E p, q \in granted, kind \in WithCookies : Present(r2, kind, Shown(p, q))
      PROVE  Carries(r)
  BY <1>15, <1>f, <1>t DEF StartLogin, Present
<1> QED
  BY <1>1, <1>2, <1>3, <1>4, <1>5, <1>6, <1>7, <1>8, <1>9, <1>10, <1>11, <1>12, <1>13, <1>14, <1>15 DEF Next, RequestStep

\* Only a response adds to the pairs handed out.
LEMMA GrantedGrows ==
    ASSUME TypeInv, [Next]_vars
    PROVE  granted' = granted \/ \E r \in Requests : RespondPair(r)
BY StepKinds DEF Quiet, Mints

\* A spent jti stays spent: it is not registered again, and it is not the jti
\* of a token about to be delivered.
LEMMA SpentStays ==
    ASSUME TypeInv, FreshInv, [Next]_vars, NEW j, Spent(j)
    PROVE  Spent(j)'
<1>1. CASE granted' = granted
  <2>1. Delivered' = Delivered
    BY <1>1 DEF Delivered
  <2>2. Known(j)'
    BY <2>1 DEF Spent, Known
  <2>3. Dead(j)'
    BY <2>1, RevocationStep DEF Spent, Dead
  <2> QED BY <2>2, <2>3 DEF Spent
<1>2. ASSUME NEW r \in Requests, RespondPair(r)
      PROVE  Spent(j)'
  <2>1. /\ \A ty \in Types : Minted(r, ty)
        /\ \A t \in Delivered' : t \in Delivered \/ \E ty \in Types : t = req[r].new[ty]
        /\ Delivered \subseteq Delivered'
    BY <1>2 DEF RespondPair, Delivered, TypeInv, Shapely, Shape, Minted
  <2>2. \A ty \in Types : req[r].new[ty].jti # j
    BY <2>1 DEF FreshInv, Spent, Known
  <2>3. \A t \in Delivered : Registered(t)' = Registered(t)
    BY <1>2 DEF RespondPair, Registered
  <2>4. Known(j)'
    BY <2>1 DEF Spent, Known
  <2>5. Dead(j)'
    BY <2>1, <2>2, <2>3 DEF Spent, Dead
  <2> QED BY <2>4, <2>5 DEF Spent
<1> QED BY <1>1, <1>2, GrantedGrows

\* Every step keeps the cookies shown by requests among those handed out.
LEMMA ProvenanceNext ==
    ASSUME TypeInv, FreshInv, Provenance, [Next]_vars
    PROVE  Provenance'
<1>t. req \in [Requests -> RequestType]
  BY DEF TypeInv, TypeOK
<1>g. Delivered \subseteq Delivered'
  BY GrantedGrows DEF RespondPair, Delivered
<1>1. \A r \in Requests, ty \in Types : req'[r].shown # None =>
         req'[r].shown[ty] \in Delivered' /\ req'[r].shown[ty].type = ty
  <2> SUFFICES ASSUME NEW r \in Requests, NEW ty \in Types, req'[r].shown # None
               PROVE  req'[r].shown[ty] \in Delivered' /\ req'[r].shown[ty].type = ty
    OBVIOUS
  <2>1. ASSUME NEW p \in granted, NEW q \in granted, NEW kind \in WithCookies,
               Present(r, kind, Shown(p, q))
        PROVE  req'[r].shown[ty] \in Delivered /\ req'[r].shown[ty].type = ty
    <3>1. req'[r].shown = Shown(p, q)
      BY <2>1, <1>t DEF Present
    <3>2. req'[r].shown[ty] \in {p[ty], q[ty]}
      BY <3>1 DEF Shown
    <3> QED BY <3>2 DEF Delivered, Provenance
  <2>2. ASSUME NEW u \in Users, StartLogin(r, u)
        PROVE  req'[r].shown = None
    BY <2>2, <1>t DEF StartLogin
  <2> QED BY <2>1, <2>2, <1>g, StepRequest DEF Provenance, Carries
<1>3. /\ \A p \in granted', ty \in Types : p[ty].type = ty /\ p[ty].user = p["access"].user
      /\ \A t1, t2 \in Delivered' : t1.jti = t2.jti => t1 = t2
  <2>1. CASE granted' = granted
    BY <2>1 DEF Provenance, Delivered
  <2>2. ASSUME NEW r \in Requests, RespondPair(r)
        PROVE  <1>3!1 /\ <1>3!2
    <3>1. granted' = granted \cup {req[r].new}
      BY <2>2 DEF RespondPair
    <3>2. \A ty \in Types : /\ Minted(r, ty)
                           /\ req[r].new[ty].type = ty /\ req[r].new[ty].user = req[r].user
      BY <2>2 DEF RespondPair, TypeInv, Shapely, Shape, Minted
    <3>3. \A p \in granted', ty \in Types : p[ty].type = ty /\ p[ty].user = p["access"].user
      BY <3>1, <3>2 DEF Provenance
    <3>4. \A t \in Delivered' : t \in Delivered \/ \E ty \in Types : t = req[r].new[ty]
      BY <3>1 DEF Delivered
    <3>5. \A t1, t2 \in Delivered' : t1.jti = t2.jti => t1 = t2
      BY <3>2, <3>4 DEF Provenance, FreshInv
    <3> QED BY <3>3, <3>5
  <2> QED BY <2>1, <2>2, GrantedGrows
<1>4. ASSUME NEW r \in Requests, req'[r].pc \in CookiePcs
      PROVE  /\ req'[r].user = req'[r].shown["access"].user
             /\ req'[r].pc \in {"dropRefresh", "dropAccess"} =>
                   req'[r].user = req'[r].shown["refresh"].user
  <2>1. ASSUME NEW shown, NEW kind \in WithCookies, Present(r, kind, shown)
        PROVE  /\ req'[r].user = req'[r].shown["access"].user
               /\ req'[r].pc \notin {"dropRefresh", "dropAccess"}
    BY <2>1, <1>t DEF Present
  <2>2. ASSUME NEW u \in Users, StartLogin(r, u)
        PROVE  FALSE
    BY <2>2, <1>4, <1>t DEF StartLogin, CookiePcs
  <2>3. ASSUME Carries(r)
        PROVE  /\ req'[r].user = req'[r].shown["access"].user
               /\ req'[r].pc \in {"dropRefresh", "dropAccess"} =>
                     req'[r].user = req'[r].shown["refresh"].user
    <3>1. /\ req[r].pc \in CookiePcs
          /\ req'[r].shown = req[r].shown /\ req'[r].user = req[r].user
          /\ req'[r].pc = "dropRefresh" => req[r].pc = "dropRefresh" \/ AdmitRefresh(r)
          /\ req'[r].pc = "dropAccess" => req[r].pc = "dropAccess" \/ DropRefresh(r)
      BY <2>3, <1>4 DEF Carries
    <3>2. AdmitRefresh(r) => req[r].shown["refresh"].user = req[r].user
      BY DEF AdmitRefresh, Verifying, InContext, ContextMatches
    <3>3. DropRefresh(r) => req[r].pc = "dropRefresh"
      BY DEF DropRefresh
    <3> QED BY <3>1, <3>2, <3>3 DEF Provenance
  <2> QED BY <2>1, <2>2, <2>3, StepRequest
<1> QED BY <1>1, <1>3, <1>4 DEF Provenance, CookiePcs

\* Every step keeps the parent of each token, in the making or handed out, spent.
LEMMA SuccessionNext ==
    ASSUME TypeInv, FreshInv, Provenance, Succession, [Next]_vars
    PROVE  Succession'
<1>t. /\ req \in [Requests -> RequestType]
      /\ store \in [Users -> [Types -> Entry \cup {None}]]
  BY DEF TypeInv, TypeOK
<1>s. \A j : Spent(j) => Spent(j)'
  BY SpentStays
<1>1. ASSUME NEW r \in Requests, NEW ty \in Types, Minted(r, ty)'
      PROVE  Spent(req[r].new[ty].parent)'
  <2>1. ASSUME NEW shown, NEW kind \in WithCookies, Present(r, kind, shown)
        PROVE  FALSE
    BY <2>1, <1>1, <1>t DEF Present, NoTokens, Minted
  <2>2. ASSUME NEW u \in Users, StartLogin(r, u)
        PROVE  Spent(req[r].new[ty].parent)'
    <3>1. req'[r].new[ty].parent = 0
      BY <2>2, <1>1, <1>t DEF StartLogin, NoTokens, Minted, Mint
    <3>2. Spent(0)
      BY DEF Spent, Known, Dead, FreshInv
    <3> QED BY <3>1, <3>2, <1>s
  <2>3. ASSUME Carries(r)
        PROVE  Spent(req[r].new[ty].parent)'
    <3>1. \/ Minted(r, ty) /\ req'[r].new[ty] = req[r].new[ty]
          \/ \E ty2 \in Types : Minted(r, ty2) /\ req'[r].new[ty].parent = req[r].new[ty2].parent
          \/ req[r].pc = "dropAccess" /\ req'[r].new[ty].parent = req[r].shown["refresh"].jti
      BY <2>3, <1>1 DEF Carries, Minted
    <3>2. \E j : Spent(j) /\ req'[r].new[ty].parent = j
      BY <3>1 DEF Succession
    <3> QED BY <3>2, <1>s
  <2> QED BY <2>1, <2>2, <2>3, StepRequest
<1>2. ASSUME NEW r \in Requests, req'[r].pc = "dropAccess"
      PROVE  Spent(req[r].shown["refresh"].jti)'
  <2>1. req'[r].shown = req[r].shown /\ (req[r].pc = "dropAccess" \/ DropRefresh(r))
    <3>1. ASSUME NEW shown, NEW kind \in WithCookies, Present(r, kind, shown)
          PROVE  FALSE
      BY <3>1, <1>2, <1>t DEF Present
    <3>2. ASSUME NEW u \in Users, StartLogin(r, u)
          PROVE  FALSE
      BY <3>2, <1>2, <1>t DEF StartLogin
    <3> QED BY <3>1, <3>2, <1>2, StepRequest DEF Carries
  <2>2. CASE req[r].pc = "dropAccess"
    BY <2>1, <2>2, <1>s DEF Succession
  <2>3. CASE DropRefresh(r)
    <3> DEFINE old == req[r].shown["refresh"]
    <3>1. /\ req[r].pc = "dropRefresh" /\ store' = HDel(req[r].user, "refresh")
          /\ granted' = granted
      BY <2>3 DEF DropRefresh
    <3>2. req[r].shown # None /\ req[r].user \in Users
      BY <3>1, NoneAssumption DEF TypeInv, Shapely, Shape
    <3>3. old \in Delivered /\ old.type = "refresh" /\ old.user = req[r].user
      BY <3>1, <3>2 DEF Provenance
    <3>4. Delivered' = Delivered
      BY <3>1 DEF Delivered
    <3>5. \A t \in Delivered : t.jti = old.jti => t = old
      BY <3>3 DEF Provenance
    <3>6. store'[req[r].user]["refresh"] = None
      BY <3>1, <3>2, <1>t DEF HDel
    <3>7. ~Registered(old)'
      BY <3>3, <3>6, <2>1 DEF Registered
    <3>8. Spent(old.jti)'
      BY <3>3, <3>4, <3>5, <3>6, <2>1 DEF Spent, Known, Dead, Registered
    <3> QED BY <3>8, <2>1
  <2> QED BY <2>1, <2>2, <2>3
<1>3. ASSUME NEW t \in Delivered'
      PROVE  Spent(t.parent)'
  <2>1. CASE t \in Delivered
    BY <2>1, <1>s DEF Succession
  <2>2. CASE t \notin Delivered
    <3>1. PICK r \in Requests : RespondPair(r)
      BY <2>2, GrantedGrows DEF Delivered
    <3>2. PICK ty \in Types : t = req[r].new[ty] /\ Minted(r, ty)
      BY <3>1, <2>2 DEF RespondPair, Delivered, TypeInv, Shapely, Shape, Minted
    <3> QED BY <3>2, <1>s DEF Succession
  <2> QED BY <2>1, <2>2
<1> QED BY <1>1, <1>2, <1>3 DEF Succession

\* In every reachable state the tokens in use come from those handed out, and
\* the parent of each token is spent.
THEOREM LineageCorrect == Spec => [](TypeInv /\ FreshInv /\ Provenance /\ Succession)
<1>1. Init => Provenance /\ Succession
  BY DEF Init, Provenance, Succession, Delivered, Minted, Idle, NoTokens, CookiePcs
<1>2. TypeInv /\ FreshInv /\ Provenance /\ Succession /\ [Next]_vars
         => Provenance' /\ Succession'
  BY ProvenanceNext, SuccessionNext
<1> QED BY <1>1, <1>2, FreshCorrect, PTL DEF Spec

\* A delivered session's parent refresh token is not honoured.
THEOREM RotationCorrect == Spec => []RotatedSessionIsDead
<1>1. Succession => RotatedSessionIsDead
  BY DEF Succession, RotatedSessionIsDead, Spent, Dead
<1> QED BY <1>1, LineageCorrect, PTL

=============================================================================
