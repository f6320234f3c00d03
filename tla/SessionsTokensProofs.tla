------------------------- MODULE SessionsTokensProofs -------------------------
(***************************************************************************)
(* Which tokens Sessions honours: for how long, after a password change,   *)
(* and what one request at a time adds.                                    *)
(***************************************************************************)
EXTENDS SessionsProofs

USE DEF Types, Kinds, WithCookies

-----------------------------------------------------------------------------
(* Steps, seen from one request and from the tokens.                       *)

\* A request moves by an action of its own or stays as it is.
LEMMA OwnStep ==
    ASSUME TypeInv, [Next]_vars, NEW r \in Requests
    PROVE  \/ req'[r] = req[r]
           \/ \E u \in Users : StartLogin(r, u)
           \/ \E p, q \in granted, kind \in WithCookies : Present(r, kind, Shown(p, q))
           \/ RequestStep(r) \/ Fail(r)
<1>t. req \in [Requests -> RequestType]
  BY DEF TypeInv, TypeOK
<1>1. ASSUME NEW s \in Requests, NEW q, req' = [req EXCEPT ![s] = q], s # r
      PROVE  req'[r] = req[r]
  BY <1>1, <1>t
<1>2. ASSUME NEW s \in Requests, s # r, RequestStep(s)
      PROVE  req'[r] = req[r]
  BY <1>1, <1>2, <1>t
     DEF RequestStep, RegisterJti, ExtendJti, MintSecond, MintDone, VerifyUnknown, VerifyFailed, Erase,
         AdmitAccess, AdmitRefresh, DropRefresh, DropAccess, DropUnversioned, EndAccess, EndRefresh,
         RespondPair, RespondOther
<1>3. ASSUME NEW s \in Requests, s # r,
             \/ \E u \in Users : StartLogin(s, u)
             \/ \E p, q \in granted, kind \in WithCookies : Present(s, kind, Shown(p, q))
      PROVE  req'[r] = req[r]
  BY <1>3, <1>t DEF StartLogin, Present
<1>4. ASSUME NEW s \in Requests, s # r, Fail(s)
      PROVE  req'[r] = req[r]
  BY <1>4, <1>t DEF Fail
<1>5. ASSUME \/ \E a \in Admins : \/ AdminSetPassword(a)
                               \/ \E u \in Users : AdminRead(a, u) \/ AdminSetEnabled(a, u)
             \/ Purge \/ Tick \/ UNCHANGED vars
      PROVE  req'[r] = req[r]
  BY <1>5 DEF AdminSetPassword, AdminRead, AdminSetEnabled, Purge, Tick, vars
<1>6. CASE \E s \in Requests : RequestStep(s) \/ Fail(s)
  BY <1>2, <1>4, <1>6
<1>7. CASE \E s \in Requests :
              \/ \E u \in Users : StartLogin(s, u)
              \/ \E p, q \in granted, kind \in WithCookies : Present(s, kind, Shown(p, q))
  BY <1>3, <1>7
<1> QED BY <1>5, <1>6, <1>7 DEF Next

\* The three places where a token is signed.
Born(r, ty, t) ==
    \/ \E u \in Users :
          StartLogin(r, u) /\ ty = "access" /\ t = Mint("access", u, db[u].pv, db[u].gen, 0)
    \/ /\ MintSecond(r) /\ ty = Other(req[r].tok)
       /\ t = Mint(ty, req[r].user, req[r].pv,
                   req[r].new[req[r].tok].gen, req[r].new[req[r].tok].parent)
    \/ LET old == req[r].shown["refresh"] IN
       DropAccess(r) /\ ty = "refresh" /\ t = Mint("refresh", req[r].user, old.pv, old.gen, old.jti)

\* The token is being registered.
Open(r, ty) == req[r].pc = "mint" /\ req[r].tok = ty

\* A minted token was signed in this step, and is open; or it was there before,
\* and open unless its last hexpire has been made.
LEMMA SlotTokens ==
    ASSUME TypeInv, [Next]_vars, NEW r \in Requests, NEW ty \in Types, Minted(r, ty)'
    PROVE  \/ Born(r, ty, req'[r].new[ty]) /\ Open(r, ty)'
           \/ /\ Minted(r, ty) /\ req'[r].new[ty] = req[r].new[ty]
              /\ Open(r, ty) => Open(r, ty)' \/ MintSecond(r) \/ MintDone(r)
<1>t. req \in [Requests -> RequestType]
  BY DEF TypeInv, TypeOK
<1>s. Shape(req[r])
  BY DEF TypeInv, Shapely
<1>1. CASE req'[r] = req[r]
  BY <1>1 DEF Open, Minted
<1>2. ASSUME NEW u \in Users, StartLogin(r, u)
      PROVE  Born(r, ty, req'[r].new[ty]) /\ Open(r, ty)'
  <2> DEFINE t == Mint("access", u, db[u].pv, db[u].gen, 0)
  <2>1. StartLogin(r, u) /\ req'[r].new = [NoTokens EXCEPT !["access"] = t]
        /\ req'[r].pc = "mint" /\ req'[r].tok = "access"
    BY <1>2, <1>t DEF StartLogin
  <2> HIDE DEF t
  <2>2. ty = "access" /\ req'[r].new[ty] = t
    BY <2>1 DEF NoTokens, Minted
  <2> QED BY <2>1, <2>2 DEF Born, Open, t
<1>3. ASSUME NEW shown, NEW kind \in WithCookies, Present(r, kind, shown)
      PROVE  FALSE
  BY <1>3, <1>t DEF Present, NoTokens, Minted
<1>4. ASSUME MintSecond(r)
      PROVE  \/ Born(r, ty, req'[r].new[ty]) /\ Open(r, ty)'
             \/ Minted(r, ty) /\ req'[r].new[ty] = req[r].new[ty]
  <2> DEFINE ty2 == Other(req[r].tok)
             t == Mint(ty2, req[r].user, req[r].pv,
                       req[r].new[req[r].tok].gen, req[r].new[req[r].tok].parent)
  <2>0. ty2 \in Types
    BY DEF Other
  <2>1. req' = [req EXCEPT ![r] = Register(req[r], ty2, t)]
    BY <1>4 DEF MintSecond
  <2>2. ty = ty2 => (Born(r, ty, t) <=> MintSecond(r))
    BY <1>4 DEF Born
  <2> HIDE DEF t, ty2
  <2>3. /\ req'[r].new = [req[r].new EXCEPT ![ty2] = t]
        /\ req'[r].pc = "mint" /\ req'[r].tok = ty2
    BY <2>1, <1>t DEF Register, RequestType
  <2>4. req'[r].new[ty] = IF ty = ty2 THEN t ELSE req[r].new[ty]
    BY <2>0, <2>1, <2>3, <1>t DEF RequestType
  <2> QED BY <1>4, <2>2, <2>3, <2>4 DEF Open, Minted
<1>5. ASSUME DropAccess(r)
      PROVE  \/ Born(r, ty, req'[r].new[ty]) /\ Open(r, ty)'
             \/ Minted(r, ty) /\ req'[r].new[ty] = req[r].new[ty] /\ ~Open(r, ty)
  <2> DEFINE old == req[r].shown["refresh"]
             t == Mint("refresh", req[r].user, old.pv, old.gen, old.jti)
  <2>1. req' = [req EXCEPT ![r] = Register(req[r], "refresh", t)] /\ req[r].pc = "dropAccess"
    BY <1>5 DEF DropAccess
  <2>2. ty = "refresh" => Born(r, ty, t)
    BY <1>5 DEF Born
  <2> HIDE DEF t
  <2>3. /\ req'[r].new = [req[r].new EXCEPT !["refresh"] = t]
        /\ req'[r].pc = "mint" /\ req'[r].tok = "refresh"
    BY <2>1, <1>t DEF Register, RequestType
  <2>4. req'[r].new[ty] = IF ty = "refresh" THEN t ELSE req[r].new[ty]
    BY <2>3, <1>t DEF RequestType
  <2> QED BY <2>1, <2>2, <2>3, <2>4 DEF Open, Minted
<1>6. ASSUME RegisterJti(r) \/ ExtendJti(r)
      PROVE  Minted(r, ty) /\ req'[r].new[ty] = req[r].new[ty] /\ (Open(r, ty) => Open(r, ty)')
  BY <1>6, <1>t DEF RegisterJti, ExtendJti, Open, Minted, RequestType
<1>7. ASSUME MintDone(r)
      PROVE  Minted(r, ty) /\ req'[r].new[ty] = req[r].new[ty]
  BY <1>7, <1>t DEF MintDone, Minted, RequestType
<1>8. ASSUME NEW q, req' = [req EXCEPT ![r] = q], q.new = req[r].new, req[r].pc # "mint"
      PROVE  Minted(r, ty) /\ req'[r].new[ty] = req[r].new[ty] /\ ~Open(r, ty)
  BY <1>8, <1>t DEF Open, Minted
<1>9. ASSUME req' = [req EXCEPT ![r] = Idle]
      PROVE  FALSE
  BY <1>9, <1>t DEF Idle, NoTokens, Minted
<1>10. ASSUME req' = [req EXCEPT ![r] = Concluded(r)], req[r].pc # "mint"
       PROVE  Minted(r, ty) /\ req'[r].new[ty] = req[r].new[ty] /\ ~Open(r, ty)
  <2>1. [req[r] EXCEPT !.pc = "respond"].new = req[r].new
    BY <1>t DEF RequestType
  <2> QED BY <1>8, <1>9, <1>10, <2>1 DEF Concluded
<1>11. ASSUME \/ VerifyFailed(r) \/ AdmitRefresh(r) \/ DropRefresh(r) \/ DropUnversioned(r)
              \/ EndAccess(r)
       PROVE  Minted(r, ty) /\ req'[r].new[ty] = req[r].new[ty] /\ ~Open(r, ty)
  <2>1. \E pc : req' = [req EXCEPT ![r] = [req[r] EXCEPT !.pc = pc]] /\ req[r].pc # "mint"
    BY <1>11, <1>t DEF VerifyFailed, AdmitRefresh, Verifying, DropRefresh, DropUnversioned, EndAccess,
                       RequestType
  <2>2. \A pc : [req[r] EXCEPT !.pc = pc].new = req[r].new
    BY <1>t DEF RequestType
  <2> QED BY <1>8, <2>1, <2>2
<1>12. ASSUME VerifyUnknown(r) \/ Erase(r) \/ EndRefresh(r)
       PROVE  Minted(r, ty) /\ req'[r].new[ty] = req[r].new[ty] /\ ~Open(r, ty)
  BY <1>10, <1>12 DEF VerifyUnknown, Erase, EndRefresh
<1>13. ASSUME AdmitAccess(r)
       PROVE  Minted(r, ty) /\ req'[r].new[ty] = req[r].new[ty] /\ ~Open(r, ty)
  <2>0. req[r].pc = "verify"
    BY <1>13 DEF AdmitAccess, Verifying
  <2>1. req[r].kind \in {"check", "refresh", "logout"} /\ req[r].enabled \in BOOLEAN
    BY <2>0, <1>s, <1>t DEF Shape, RequestType
  <2>2. \/ req' = [req EXCEPT ![r] = Concluded(r)]
        \/ req' = [req EXCEPT ![r] = Idle]
        \/ req' = [req EXCEPT ![r] = [req[r] EXCEPT !.tok = "refresh"]]
        \/ req' = [req EXCEPT ![r] = [req[r] EXCEPT !.pc = "respond"]]
        \/ req' = [req EXCEPT ![r] = [req[r] EXCEPT !.pc = "endAccess"]]
    BY <2>1, <1>13 DEF AdmitAccess
  <2>3. /\ [req[r] EXCEPT !.tok = "refresh"].new = req[r].new
        /\ \A pc : [req[r] EXCEPT !.pc = pc].new = req[r].new
    BY <1>t DEF RequestType
  <2> QED BY <1>8, <1>9, <1>10, <2>0, <2>2, <2>3
<1>14. ASSUME RespondPair(r) \/ RespondOther(r) \/ Fail(r)
       PROVE  FALSE
  BY <1>9, <1>14 DEF RespondPair, RespondOther, Fail
<1> QED
  BY <1>1, <1>2, <1>3, <1>4, <1>5, <1>6, <1>7, <1>11, <1>12, <1>13, <1>14, OwnStep DEF RequestStep

-----------------------------------------------------------------------------
(* The registry outlives the tokens it honours.                            *)

\* A token expires no later than one of its type signed now would.
Timely(t) == t.exp <= now + TTL(t.type)

\* While the token is the registered one, the registration lasts as long.
Kept(t) == Registered(t) => store[t.user][t.type].exp >= t.exp

\* A token that is still being registered may lack its deadline: hset keeps
\* that of the live entry it overwrites, until hexpire moves it.
LifeInv ==
    /\ \A t \in Delivered : Timely(t) /\ Kept(t)
    /\ \A r \in Requests, ty \in Types : Minted(r, ty) =>
          Timely(req[r].new[ty]) /\ (~Open(r, ty) => Kept(req[r].new[ty]))

\* What a step does to one registration: nothing, remove it, give it the
\* deadline of a token signed now, or hand it to a token being registered.
LEMMA EntryStep ==
    ASSUME TypeInv, [Next]_vars, NEW u \in Users, NEW ty \in Types
    PROVE  \/ store'[u][ty] = store[u][ty]
           \/ store'[u][ty] = None
           \/ /\ store'[u][ty].jti = store[u][ty].jti /\ store[u][ty] # None
              /\ store'[u][ty].exp = now + TTL(ty)
           \/ \E r \in Requests : /\ Open(r, ty) /\ Minted(r, ty) /\ req[r].user = u
                                  /\ store'[u][ty].jti = req[r].new[ty].jti
<1>t. store \in [Users -> [Types -> Entry \cup {None}]]
  BY DEF TypeInv, TypeOK
<1>s. \A r \in Requests : /\ req[r].pc # "idle" => req[r].user \in Users
                          /\ req[r].pc \in {"mint", "verify", "erase"} => req[r].tok \in Types
                          /\ req[r].pc = "mint" => Minted(r, req[r].tok)
  BY DEF TypeInv, Shapely, Shape, Minted
<1> DEFINE G == \/ store'[u][ty] = store[u][ty]
                \/ store'[u][ty] = None
                \/ /\ store'[u][ty].jti = store[u][ty].jti /\ store[u][ty] # None
                   /\ store'[u][ty].exp = now + TTL(ty)
<1>1. ASSUME NEW u2 \in Users, NEW ty2 \in Types,
             store' = HDel(u2, ty2) \/ store' = HExpire(u2, ty2)
      PROVE  G
  BY <1>1, <1>t DEF HDel, HExpire
<1>2. ASSUME NEW r \in Requests, RegisterJti(r), store'[u][ty] # store[u][ty]
      PROVE  /\ Open(r, ty) /\ Minted(r, ty) /\ req[r].user = u
             /\ store'[u][ty].jti = req[r].new[ty].jti
  BY <1>2, <1>s, <1>t DEF RegisterJti, HSet, Open
<1>3. ASSUME NEW r \in Requests,
             \/ ExtendJti(r) \/ MintSecond(r) \/ MintDone(r) \/ Erase(r) \/ DropRefresh(r)
             \/ DropAccess(r) \/ DropUnversioned(r) \/ EndAccess(r) \/ EndRefresh(r)
      PROVE  G
  <2>1. \E u2 \in Users, ty2 \in Types : store' = HDel(u2, ty2) \/ store' = HExpire(u2, ty2)
    BY <1>3, <1>s DEF ExtendJti, MintSecond, MintDone, Erase, DropRefresh, DropAccess,
                      DropUnversioned, EndAccess, EndRefresh
  <2> HIDE DEF G
  <2> QED BY <1>1, <2>1
<1>4. ASSUME Purge
      PROVE  G
  BY <1>4, <1>t DEF Purge
<1>5. ASSUME \/ \E r \in Requests :
                  \/ \E u2 \in Users : StartLogin(r, u2)
                  \/ \E p, q \in granted, kind \in WithCookies : Present(r, kind, Shown(p, q))
             \/ \E r \in Requests :
                  \/ VerifyUnknown(r) \/ VerifyFailed(r) \/ AdmitAccess(r) \/ AdmitRefresh(r)
                  \/ RespondPair(r) \/ RespondOther(r) \/ Fail(r)
             \/ \E a \in Admins : \/ AdminSetPassword(a)
                               \/ \E u2 \in Users : AdminRead(a, u2) \/ AdminSetEnabled(a, u2)
             \/ Tick \/ UNCHANGED vars
      PROVE  store' = store
  BY <1>5 DEF StartLogin, Present, VerifyUnknown, VerifyFailed, AdmitAccess, AdmitRefresh,
              RespondPair, RespondOther, Fail, AdminSetPassword, AdminRead, AdminSetEnabled,
              Tick, vars
<1>6. G \/ \E r \in Requests : RegisterJti(r) /\ store'[u][ty] # store[u][ty]
  <2>1. store' = store => G
    OBVIOUS
  <2>2. store'[u][ty] = store[u][ty] => G
    OBVIOUS
  <2> HIDE DEF G
  <2> QED BY <1>3, <1>4, <1>5, <2>1, <2>2 DEF Next, RequestStep
<1> QED BY <1>2, <1>6

\* Time only goes on.
LEMMA TimelyStep ==
    ASSUME TypeInv, [Next]_vars, NEW t \in Token, Timely(t)
    PROVE  Timely(t)'
<1>1. now \in Nat /\ now' \in Nat
  BY TypeNext DEF TypeInv, TypeOK
<1>2. now' >= now
  <2>1. now' = now \/ Tick
    BY DEF Next, RequestStep, StartLogin, Present, RegisterJti, ExtendJti, MintSecond, MintDone,
           VerifyUnknown, VerifyFailed, Erase, AdmitAccess, AdmitRefresh, DropRefresh, DropAccess,
           DropUnversioned, EndAccess, EndRefresh, RespondPair, RespondOther, Fail,
           AdminSetPassword, AdminRead, AdminSetEnabled, Purge, vars
  <2> QED BY <1>1, <2>1 DEF Tick
<1>3. TTL(t.type) \in Nat /\ t.exp \in Nat
  BY TTLAssumption DEF TTL, Token
<1> QED BY <1>1, <1>2, <1>3 DEF Timely, TTL

\* A kept token stays kept as long as no request is registering it.
LEMMA KeptStep ==
    ASSUME TypeInv, [Next]_vars, NEW t \in Token, Timely(t), Kept(t),
           \A r \in Requests : Open(r, t.type) /\ Minted(r, t.type)
                                  => req[r].new[t.type].jti # t.jti
    PROVE  Kept(t)'
<1>1. t.user \in Users /\ t.type \in Types /\ t.exp \in Nat
  BY DEF Token
<1>2. SUFFICES ASSUME Registered(t)' PROVE store'[t.user][t.type].exp >= t.exp
  BY DEF Kept
<1>3. store'[t.user][t.type] # None /\ store'[t.user][t.type].jti = t.jti
  BY <1>2 DEF Registered
<1>4. \/ store'[t.user][t.type] = store[t.user][t.type]
      \/ /\ store'[t.user][t.type].jti = store[t.user][t.type].jti
         /\ store'[t.user][t.type].exp = now + TTL(t.type)
  BY <1>1, <1>3, EntryStep
<1>5. now + TTL(t.type) >= t.exp
  BY <1>1, TTLAssumption DEF Timely, TTL, TypeInv, TypeOK
<1>6. CASE store'[t.user][t.type] = store[t.user][t.type]
  BY <1>3, <1>6 DEF Kept, Registered
<1> QED BY <1>4, <1>5, <1>6

\* Every step keeps LifeInv.
LEMMA LifeNext ==
    ASSUME TypeInv, FreshInv, LifeInv, [Next]_vars
    PROVE  LifeInv'
<1>t. /\ now \in Nat /\ nextJti \in Nat \ {0}
      /\ store \in [Users -> [Types -> Entry \cup {None}]]
      /\ \A r \in Requests, ty \in Types : Minted(r, ty) => req[r].new[ty] \in Token
      /\ \A t \in Delivered : t \in Token
  BY DEF TypeInv, TypeOK, RequestType, Minted, Delivered, Pair
<1>1. ASSUME NEW t \in Delivered
      PROVE  Timely(t)' /\ Kept(t)'
  <2>1. t \in Token /\ t.type \in Types /\ Timely(t) /\ Kept(t)
    BY <1>1, <1>t DEF LifeInv, Token
  <2>2. \A r \in Requests : Minted(r, t.type) => req[r].new[t.type].jti # t.jti
    BY <1>1, <2>1 DEF FreshInv
  <2> QED BY <2>1, <2>2, TimelyStep, KeptStep
<1>2. ASSUME NEW r \in Requests, NEW ty \in Types, Minted(r, ty), NEW t, t = req[r].new[ty]
      PROVE  Timely(t)' /\ (~Open(r, ty) => Kept(t)')
  <2>1. t \in Token /\ t.type = ty
    BY <1>2, <1>t DEF TypeInv, Shapely, Shape, Minted
  <2>2. Timely(t) /\ (~Open(r, ty) => Kept(t))
    BY <1>2 DEF LifeInv
  <2>3. ASSUME ~Open(r, ty), NEW s \in Requests, Open(s, ty), Minted(s, ty)
        PROVE  req[s].new[ty].jti # t.jti
    BY <1>2, <2>3 DEF FreshInv
  <2> QED BY <2>1, <2>2, <2>3, TimelyStep, KeptStep
<1>3. ASSUME NEW r \in Requests, NEW ty \in Types, MintSecond(r) \/ MintDone(r),
             Open(r, ty), Minted(r, ty), NEW t, t = req[r].new[ty]
      PROVE  Kept(t)'
  <2>1. /\ t \in Token /\ t.type = ty /\ t.user = req[r].user /\ Timely(t)
        /\ req[r].user \in Users
    BY <1>3, <1>t DEF TypeInv, Shapely, Shape, Minted, Open, LifeInv
  <2>2. store' = HExpire(t.user, ty)
    BY <1>3, <2>1 DEF MintSecond, MintDone, Open
  <2>3. store'[t.user][ty] # None => store'[t.user][ty].exp = now + TTL(ty)
    BY <2>1, <2>2, <1>t DEF HExpire
  <2>4. t.exp \in Nat /\ TTL(ty) \in Nat
    BY <2>1, TTLAssumption DEF Token, TTL
  <2> QED BY <2>1, <2>3, <2>4, <1>t DEF Kept, Registered, Timely
<1>4. ASSUME NEW r \in Requests, NEW ty \in Types, NEW t, Born(r, ty, t)
      PROVE  t.type = ty /\ t.exp = now + TTL(ty) /\ now' = now
  BY <1>4 DEF Born, Mint, StartLogin, MintSecond, DropAccess
<1>5. ASSUME NEW r \in Requests, NEW ty \in Types, Minted(r, ty)'
      PROVE  Timely(req[r].new[ty])' /\ (~Open(r, ty)' => Kept(req[r].new[ty])')
  <2>1. CASE Born(r, ty, req'[r].new[ty]) /\ Open(r, ty)'
    <3>1. now + TTL(ty) \in Nat
      BY <1>t, TTLAssumption DEF TTL
    <3> QED BY <1>4, <2>1, <3>1 DEF Timely, TTL
  <2>2. CASE /\ Minted(r, ty) /\ req'[r].new[ty] = req[r].new[ty]
             /\ Open(r, ty) => Open(r, ty)' \/ MintSecond(r) \/ MintDone(r)
    <3>1. PICK t : t = req[r].new[ty]
      OBVIOUS
    <3>2. Timely(t)' /\ (~Open(r, ty)' => Kept(t)')
      BY <1>2, <1>3, <2>2, <3>1
    <3> QED BY <2>2, <3>1, <3>2 DEF Timely, Kept, Registered
  <2> QED BY <1>5, <2>1, <2>2, SlotTokens
<1>6. ASSUME NEW r \in Requests, RespondPair(r)
      PROVE  \A t \in Delivered' : Timely(t)' /\ Kept(t)'
  <2>1. \A ty \in Types : Minted(r, ty) /\ ~Open(r, ty)
    BY <1>6 DEF RespondPair, TypeInv, Shapely, Shape, Minted, Open
  <2>2. \A t \in Delivered' : t \in Delivered \/ \E ty \in Types : t = req[r].new[ty]
    BY <1>6 DEF RespondPair, Delivered
  <2>3. \A ty \in Types : Timely(req[r].new[ty]) /\ Kept(req[r].new[ty])
    BY <2>1 DEF LifeInv
  <2>4. now' = now /\ store' = store
    BY <1>6 DEF RespondPair
  <2>5. \A t : (Timely(t) => Timely(t)') /\ (Kept(t) => Kept(t)')
    BY <2>4 DEF Timely, Kept, Registered
  <2> QED BY <2>2, <2>3, <2>5 DEF LifeInv
<1>7. \A t \in Delivered' : Timely(t)' /\ Kept(t)'
  BY <1>1, <1>6, GrantedGrows DEF Delivered
<1> QED BY <1>5, <1>7 DEF LifeInv

\* The registry never forgets a delivered token before the token expires.
THEOREM OutlivesCorrect == Spec => []StoreOutlivesToken
<1>1. Init => LifeInv
  BY DEF Init, LifeInv, Delivered, Minted, Idle, NoTokens
<1>2. TypeInv /\ FreshInv /\ LifeInv /\ [Next]_vars => LifeInv'
  BY LifeNext
<1>3. LifeInv => StoreOutlivesToken
  BY DEF LifeInv, Kept, StoreOutlivesToken
<1> QED BY <1>1, <1>2, <1>3, FreshCorrect, PTL DEF Spec

-----------------------------------------------------------------------------
(* Password changes.                                                       *)

\* No two password updates of one account are in flight at the same time.
UpdatesExclusive ==
    \A a, b \in Admins :
        adm[a] # None /\ adm[b] # None /\ adm[a].user = adm[b].user => a = b

\* A version goes with one password: the distance between the two is the one
\* the account's row shows.
Aligned(u, pv, gen) ==
    pv # None => db[u].pv # None /\ gen - pv = db[u].gen - db[u].pv

\* An update in flight has read the current version; what requests read and
\* tokens carry is aligned with the row; a request past a validation holds the
\* cookies that matched the row it had read.
PasswordInv ==
    /\ \A a \in Admins : adm[a] # None => adm[a].pv = db[adm[a].user].pv
    /\ \A t \in Delivered : Aligned(t.user, t.pv, t.gen)
    /\ \A r \in Requests :
          /\ req[r].pv # None => req[r].user \in Users
          /\ Aligned(req[r].user, req[r].pv, req[r].gen)
          /\ \A ty \in Types : Minted(r, ty) =>
                /\ Aligned(req[r].user, req[r].new[ty].pv, req[r].new[ty].gen)
                /\ Aligned(req[r].user, req[r].pv, req[r].new[ty].gen)
          /\ Admitted(r) => /\ req[r].shown \in Pair
                            /\ ContextMatches(req[r].shown["access"], req[r].user, req[r].pv)
          /\ req[r].pc \in {"dropRefresh", "dropAccess"} =>
                ContextMatches(req[r].shown["refresh"], req[r].user, req[r].pv)

\* Once a version is set, the version and the password move together.
LEMMA AlignedStep ==
    ASSUME TypeInv, PasswordInv, [Next]_vars, NEW u \in Users,
           NEW pv \in Version, NEW gen \in Nat, Aligned(u, pv, gen)
    PROVE  Aligned(u, pv, gen)'
<1>t. /\ db \in [Users -> [pv : Version, gen : Nat, enabled : BOOLEAN]]
      /\ adm \in [Admins -> [user : Users, pv : Version] \cup {None}]
  BY DEF TypeInv, TypeOK
<1>1. ASSUME NEW a \in Admins, AdminSetPassword(a)
      PROVE  Aligned(u, pv, gen)'
  <2>1. /\ adm[a].user \in Users /\ adm[a].pv = db[adm[a].user].pv
        /\ db' = [db EXCEPT ![adm[a].user] =
                     [pv |-> NextVersion(adm[a].pv), gen |-> @.gen + 1, enabled |-> @.enabled]]
    BY <1>1, <1>t DEF AdminSetPassword, PasswordInv
  <2>2. CASE u # adm[a].user
    BY <2>1, <2>2, <1>t DEF Aligned
  <2>3. CASE u = adm[a].user
    <3>1. db'[u].pv = NextVersion(db[u].pv) /\ db'[u].gen = db[u].gen + 1
      BY <2>1, <2>3, <1>t
    <3>2. db[u].pv \in Version /\ db[u].gen \in Nat
      BY <1>t
    <3> QED BY <3>1, <3>2, NoneAssumption DEF Aligned, NextVersion, Version
  <2> QED BY <2>2, <2>3
<1>2. ASSUME NEW a \in Admins, NEW u2 \in Users, AdminSetEnabled(a, u2)
      PROVE  Aligned(u, pv, gen)'
  <2>1. db'[u].pv = db[u].pv /\ db'[u].gen = db[u].gen
    BY <1>2, <1>t DEF AdminSetEnabled
  <2> QED BY <2>1 DEF Aligned
<1>3. CASE db' = db
  BY <1>3 DEF Aligned
<1>4. \/ db' = db
      \/ \E a \in Admins : AdminSetPassword(a) \/ \E u2 \in Users : AdminSetEnabled(a, u2)
  BY DEF Next, RequestStep, StartLogin, Present, RegisterJti, ExtendJti, MintSecond, MintDone,
         VerifyUnknown, VerifyFailed, Erase, AdmitAccess, AdmitRefresh, DropRefresh, DropAccess,
         DropUnversioned, EndAccess, EndRefresh, RespondPair, RespondOther, Fail, AdminRead,
         Purge, Tick, vars
<1> QED BY <1>1, <1>2, <1>3, <1>4

\* With exclusive updates, what an update has read stays current.
LEMMA UpdateStep ==
    ASSUME TypeInv, PasswordInv, UpdatesExclusive, [Next]_vars, NEW a \in Admins, adm'[a] # None
    PROVE  adm'[a].pv = db'[adm'[a].user].pv
<1>t. /\ db \in [Users -> [pv : Version, gen : Nat, enabled : BOOLEAN]]
      /\ adm \in [Admins -> [user : Users, pv : Version] \cup {None}]
  BY DEF TypeInv, TypeOK
<1>1. ASSUME NEW b \in Admins, AdminSetPassword(b)
      PROVE  adm'[a].pv = db'[adm'[a].user].pv
  <2>1. a # b /\ adm'[a] = adm[a] /\ adm[b] # None
    BY <1>1, <1>t DEF AdminSetPassword
  <2>2. adm[a].user # adm[b].user /\ adm[a].user \in Users /\ adm[a].pv = db[adm[a].user].pv
    BY <2>1, <1>t DEF UpdatesExclusive, PasswordInv
  <2>3. db'[adm[a].user] = db[adm[a].user]
    BY <1>1, <2>2, <1>t DEF AdminSetPassword
  <2> QED BY <2>1, <2>2, <2>3
<1>2. ASSUME NEW b \in Admins, NEW u \in Users, AdminSetEnabled(b, u)
      PROVE  adm'[a].pv = db'[adm'[a].user].pv
  <2>1. adm' = adm /\ \A u2 \in Users : db'[u2].pv = db[u2].pv
    BY <1>2, <1>t DEF AdminSetEnabled
  <2> QED BY <2>1, <1>t DEF PasswordInv
<1>3. ASSUME NEW b \in Admins, NEW u \in Users, AdminRead(b, u)
      PROVE  adm'[a].pv = db'[adm'[a].user].pv
  BY <1>3, <1>t DEF AdminRead, PasswordInv
<1>4. CASE db' = db /\ adm' = adm
  BY <1>4 DEF PasswordInv
<1>5. \/ db' = db /\ adm' = adm
      \/ \E b \in Admins : \/ AdminSetPassword(b)
                           \/ \E u \in Users : AdminRead(b, u) \/ AdminSetEnabled(b, u)
  BY DEF Next, RequestStep, StartLogin, Present, RegisterJti, ExtendJti, MintSecond, MintDone,
         VerifyUnknown, VerifyFailed, Erase, AdmitAccess, AdmitRefresh, DropRefresh, DropAccess,
         DropUnversioned, EndAccess, EndRefresh, RespondPair, RespondOther, Fail,
         Purge, Tick, vars
<1> QED BY <1>1, <1>2, <1>3, <1>4, <1>5

\* A request under way keeps what it began with until it is over, and passes a
\* validation only by an action that checks.
GoesOn(r) ==
    /\ \A f \in {"kind", "user", "pv", "gen", "shown"} : req'[r][f] = req[r][f]
    /\ Admitted(r)' => Admitted(r) \/ AdmitAccess(r)
    /\ req'[r].pc \in {"dropRefresh", "dropAccess"} =>
          req[r].pc \in {"dropRefresh", "dropAccess"} \/ AdmitRefresh(r)

\* A step begins a request, ends it, or lets it go on.
LEMMA StepGoesOn ==
    ASSUME TypeInv, [Next]_vars, NEW r \in Requests
    PROVE  \/ \E u \in Users : StartLogin(r, u)
           \/ \E p, q \in granted, kind \in WithCookies : Present(r, kind, Shown(p, q))
           \/ req'[r] = Idle
           \/ GoesOn(r)
<1>t. req \in [Requests -> RequestType]
  BY DEF TypeInv, TypeOK
<1>s. Shape(req[r])
  BY DEF TypeInv, Shapely
<1>1. CASE req'[r] = req[r]
  BY <1>1 DEF GoesOn, Admitted
<1>2. ASSUME \/ VerifyUnknown(r) \/ Erase(r) \/ EndRefresh(r)
      PROVE  req'[r] = Idle \/ GoesOn(r)
  <2>1. req'[r] = Concluded(r)
    BY <1>2, <1>t DEF VerifyUnknown, Erase, EndRefresh
  <2>2. CASE req[r].kind = "logout"
    BY <2>1, <2>2, <1>t DEF Concluded, GoesOn, Admitted, RequestType
  <2> QED BY <2>1, <2>2 DEF Concluded
<1>3. ASSUME RespondPair(r) \/ RespondOther(r) \/ Fail(r)
      PROVE  req'[r] = Idle
  BY <1>3, <1>t DEF RespondPair, RespondOther, Fail
<1>4. ASSUME RegisterJti(r)
      PROVE  GoesOn(r)
  BY <1>4, <1>t DEF RegisterJti, GoesOn, Admitted, RequestType
<1>5. ASSUME ExtendJti(r)
      PROVE  GoesOn(r)
  BY <1>5, <1>t DEF ExtendJti, GoesOn, Admitted, RequestType
<1>6. ASSUME MintSecond(r) \/ DropAccess(r)
      PROVE  GoesOn(r)
  <2>1. \E ty, t : req' = [req EXCEPT ![r] = Register(req[r], ty, t)]
    BY <1>6 DEF MintSecond, DropAccess
  <2>2. /\ \A f \in {"kind", "user", "pv", "gen", "shown"} : req'[r][f] = req[r][f]
        /\ req'[r].pc = "mint"
    BY <2>1, <1>t DEF Register, RequestType
  <2>3. req[r].pc \in {"mint", "dropAccess"}
    BY <1>6 DEF MintSecond, DropAccess
  <2> QED BY <2>2, <2>3 DEF GoesOn, Admitted
<1>7. ASSUME MintDone(r)
      PROVE  GoesOn(r)
  <2>1. req[r].kind \in {"login", "refresh"}
    BY <1>7, <1>s DEF MintDone, Shape
  <2> QED BY <1>7, <2>1, <1>t DEF MintDone, GoesOn, Admitted, RequestType
<1>8. ASSUME VerifyFailed(r)
      PROVE  GoesOn(r)
  BY <1>8, <1>t DEF VerifyFailed, GoesOn, Admitted, RequestType
<1>9. ASSUME AdmitRefresh(r)
      PROVE  GoesOn(r)
  <2>1. req[r].kind = "refresh" /\ req[r].tok = "refresh"
    BY <1>9, <1>s DEF AdmitRefresh, Verifying, Shape
  <2> QED BY <1>9, <2>1, <1>t DEF AdmitRefresh, GoesOn, Admitted, RequestType
<1>10. ASSUME DropRefresh(r)
       PROVE  GoesOn(r)
  BY <1>10, <1>t DEF DropRefresh, GoesOn, Admitted, RequestType
<1>11. ASSUME DropUnversioned(r) \/ EndAccess(r)
       PROVE  GoesOn(r)
  BY <1>11, <1>t DEF DropUnversioned, EndAccess, GoesOn, Admitted, RequestType
<1>12. ASSUME AdmitAccess(r)
       PROVE  req'[r] = Idle \/ GoesOn(r)
  <2>1. /\ req[r].pc = "verify" /\ req[r].kind \in WithCookies /\ req[r].enabled \in BOOLEAN
    BY <1>12, <1>s, <1>t DEF AdmitAccess, Verifying, Shape, RequestType
  <2>2. \/ req'[r] = Idle
        \/ req'[r] = [req[r] EXCEPT !.tok = "refresh"]
        \/ \E pc \in {"respond", "endAccess"} : req'[r] = [req[r] EXCEPT !.pc = pc]
    BY <2>1, <1>12, <1>t DEF AdmitAccess, Concluded
  <2>3. ASSUME req'[r] = [req[r] EXCEPT !.tok = "refresh"]
        PROVE  GoesOn(r)
    BY <1>12, <2>1, <2>3, <1>t DEF GoesOn, RequestType
  <2>4. ASSUME NEW pc \in {"respond", "endAccess"}, req'[r] = [req[r] EXCEPT !.pc = pc]
        PROVE  GoesOn(r)
    BY <1>12, <2>1, <2>4, <1>t DEF GoesOn, RequestType
  <2> QED BY <2>2, <2>3, <2>4
<1> QED
  BY <1>1, <1>2, <1>3, <1>4, <1>5, <1>6, <1>7, <1>8, <1>9, <1>10, <1>11, <1>12, OwnStep
  DEF RequestStep

\* A new token is aligned with the row, and with the version its request read.
LEMMA BornAligned ==
    ASSUME TypeInv, Provenance, PasswordInv, NEW r \in Requests, NEW ty \in Types, NEW t,
           Born(r, ty, t), MintSecond(r) \/ DropAccess(r)
    PROVE  Aligned(req[r].user, t.pv, t.gen) /\ Aligned(req[r].user, req[r].pv, t.gen)
<1>1. CASE MintSecond(r)
  <2>1. t.pv = req[r].pv /\ t.gen = req[r].new[req[r].tok].gen
    BY <1>1 DEF Born, Mint, MintSecond, StartLogin, DropAccess
  <2>2. req[r].tok \in Types /\ Minted(r, req[r].tok)
    BY <1>1 DEF MintSecond, TypeInv, Shapely, Shape, Minted
  <2> QED BY <2>1, <2>2 DEF PasswordInv
<1>2. CASE DropAccess(r)
  <2> DEFINE old == req[r].shown["refresh"]
  <2>1. t.pv = old.pv /\ t.gen = old.gen /\ ~Unversioned(old.pv)
    BY <1>2 DEF Born, Mint, MintSecond, StartLogin, DropAccess
  <2>2. req[r].pc = "dropAccess" /\ req[r].shown \in Pair
    BY <1>2 DEF DropAccess, TypeInv, Shapely, Shape
  <2>3. old \in Delivered
    BY <2>2, NoneAssumption DEF Provenance
  <2>4. old.user = req[r].user /\ old.pv = req[r].pv
    BY <2>1, <2>2 DEF PasswordInv, ContextMatches, Unversioned
  <2>5. Aligned(old.user, old.pv, old.gen)
    BY <2>3 DEF PasswordInv
  <2> QED BY <2>1, <2>4, <2>5
<1> QED BY <1>1, <1>2

\* With exclusive updates, every step keeps PasswordInv.
LEMMA PasswordNext ==
    ASSUME TypeInv, Provenance, PasswordInv, UpdatesExclusive, [Next]_vars
    PROVE  PasswordInv'
<1>t. /\ req \in [Requests -> RequestType]
      /\ db \in [Users -> [pv : Version, gen : Nat, enabled : BOOLEAN]]
      /\ granted \subseteq Pair
      /\ \A r \in Requests, ty \in Types : Minted(r, ty) =>
            /\ req[r].new[ty] \in Token /\ req[r].new[ty].user = req[r].user
            /\ req[r].user \in Users
      /\ \A t \in Delivered : t.user \in Users /\ t.pv \in Version /\ t.gen \in Nat
  BY DEF TypeInv, TypeOK, Shapely, Shape, Minted, RequestType, Delivered, Pair, Token
<1>d. \A t \in Delivered' : Aligned(t.user, t.pv, t.gen)'
  <2>1. ASSUME NEW t \in Delivered
        PROVE  Aligned(t.user, t.pv, t.gen)'
    BY <2>1, <1>t, AlignedStep DEF PasswordInv
  <2>2. ASSUME NEW r \in Requests, RespondPair(r), NEW t \in Delivered', t \notin Delivered
        PROVE  Aligned(t.user, t.pv, t.gen)'
    <3>1. PICK ty \in Types : t = req[r].new[ty] /\ Minted(r, ty)
      BY <2>2 DEF RespondPair, Delivered, TypeInv, Shapely, Shape, Minted
    <3>2. Aligned(t.user, t.pv, t.gen)
      BY <3>1, <1>t DEF PasswordInv
    <3>3. db' = db
      BY <2>2 DEF RespondPair
    <3> QED BY <3>2, <3>3 DEF Aligned
  <2> QED BY <2>1, <2>2, GrantedGrows DEF Delivered
<1> DEFINE Good(r) ==
      /\ req[r].pv # None => req[r].user \in Users
      /\ Aligned(req[r].user, req[r].pv, req[r].gen)
      /\ \A ty \in Types : Minted(r, ty) =>
            /\ Aligned(req[r].user, req[r].new[ty].pv, req[r].new[ty].gen)
            /\ Aligned(req[r].user, req[r].pv, req[r].new[ty].gen)
      /\ Admitted(r) => /\ req[r].shown \in Pair
                        /\ ContextMatches(req[r].shown["access"], req[r].user, req[r].pv)
      /\ req[r].pc \in {"dropRefresh", "dropAccess"} =>
            ContextMatches(req[r].shown["refresh"], req[r].user, req[r].pv)
<1>1. ASSUME NEW r \in Requests, NEW u \in Users, StartLogin(r, u)
      PROVE  Good(r)'
  <2> DEFINE t == Mint("access", u, db[u].pv, db[u].gen, 0)
  <2>1. t.pv = db[u].pv /\ t.gen = db[u].gen
    BY DEF Mint
  <2>2. /\ req'[r].kind = "login" /\ req'[r].pc = "mint" /\ req'[r].tok = "access"
        /\ req'[r].user = u /\ req'[r].pv = db[u].pv /\ req'[r].gen = db[u].gen
        /\ req'[r].new = [NoTokens EXCEPT !["access"] = t] /\ db' = db
    BY <1>1, <1>t DEF StartLogin
  <2> HIDE DEF t
  <2>3. \A ty \in Types : Minted(r, ty)' => req'[r].new[ty] = t
    BY <2>2 DEF Minted, NoTokens
  <2>4. Aligned(u, db[u].pv, db[u].gen)'
    BY <2>2 DEF Aligned
  <2>5. ~Admitted(r)'
    BY <2>2 DEF Admitted
  <2>6. Aligned(req[r].user, req[r].pv, req[r].gen)'
    BY <2>2 DEF Aligned
  <2>7. ASSUME NEW ty \in Types, Minted(r, ty)'
        PROVE  /\ Aligned(req[r].user, req[r].new[ty].pv, req[r].new[ty].gen)'
               /\ Aligned(req[r].user, req[r].pv, req[r].new[ty].gen)'
    BY <2>1, <2>2, <2>3, <2>7 DEF Aligned
  <2> QED BY <2>2, <2>5, <2>6, <2>7
<1>2. ASSUME NEW r \in Requests, NEW p \in granted, NEW q \in granted, NEW kind \in WithCookies,
             Present(r, kind, Shown(p, q))
      PROVE  Good(r)'
  <2> DEFINE u == p["access"].user
  <2>0. Shown(p, q)["access"] = p["access"]
    BY DEF Shown
  <2>1. /\ req'[r].kind = kind /\ req'[r].tok = "access"
        /\ req'[r].pc = "verify" \/ (req'[r].pc = "respond" /\ kind = "logout")
        /\ req'[r].user = u /\ req'[r].pv = db[u].pv /\ req'[r].gen = db[u].gen
        /\ req'[r].new = NoTokens /\ db' = db
    <3> DEFINE expired == Expired(p["access"])
    <3>1. /\ ~expired \/ kind = "logout"
          /\ req' = [req EXCEPT ![r] =
                 [pc |-> IF expired THEN "respond" ELSE "verify",
                  kind |-> kind, user |-> u, pv |-> db[u].pv, gen |-> db[u].gen,
                  enabled |-> db[u].enabled, tok |-> "access", n |-> 0,
                  shown |-> Shown(p, q), new |-> NoTokens]]
          /\ db' = db
      BY <1>2, <2>0 DEF Present
    <3> HIDE DEF expired, u
    <3> QED BY <3>1, <1>t
  <2>2. u \in Users
    BY <1>t DEF Pair, Token
  <2>3. \A ty \in Types : ~Minted(r, ty)'
    BY <2>1 DEF Minted, NoTokens
  <2>4. Aligned(req[r].user, req[r].pv, req[r].gen)'
    BY <2>1 DEF Aligned
  <2>5. ~Admitted(r)'
    BY <2>1 DEF Admitted
  <2> HIDE DEF u
  <2> QED BY <2>1, <2>2, <2>3, <2>4, <2>5
<1>3. ASSUME NEW r \in Requests, req'[r] = Idle
      PROVE  Good(r)'
  BY <1>3, NoneAssumption DEF Idle, NoTokens, Minted, Aligned, Admitted
<1>4. ASSUME NEW r \in Requests, GoesOn(r),
             ~\E u \in Users : StartLogin(r, u)
      PROVE  Good(r)'
  <2>1. /\ req'[r].user = req[r].user /\ req'[r].pv = req[r].pv /\ req'[r].gen = req[r].gen
        /\ req'[r].shown = req[r].shown
    BY <1>4 DEF GoesOn
  <2>2. /\ req[r].pv # None => req[r].user \in Users
        /\ req[r].pv \in Version /\ req[r].gen \in Nat
    BY <1>t DEF PasswordInv, RequestType
  <2>3. Aligned(req[r].user, req[r].pv, req[r].gen)'
    <3>1. CASE req[r].pv = None
      BY <2>1, <3>1 DEF Aligned
    <3>2. CASE req[r].pv # None
      <4>1. \A u \in Users, pv \in Version, gen \in Nat : Aligned(u, pv, gen) => Aligned(u, pv, gen)'
        BY AlignedStep
      <4> DEFINE u == req[r].user
                 pv == req[r].pv
                 gen == req[r].gen
      <4>2. PICK u1, pv1, gen1 : u1 = u /\ pv1 = pv /\ gen1 = gen
        OBVIOUS
      <4>3. Aligned(u1, pv1, gen1)'
        BY <2>2, <3>2, <4>1, <4>2 DEF PasswordInv
      <4> QED BY <2>1, <4>2, <4>3 DEF Aligned
    <3> QED BY <3>1, <3>2
  <2>4. ASSUME NEW ty \in Types, Minted(r, ty)'
        PROVE  /\ Aligned(req[r].user, req[r].new[ty].pv, req[r].new[ty].gen)'
               /\ Aligned(req[r].user, req[r].pv, req[r].new[ty].gen)'
    <3>1. PICK t, u1, pv1 : t = req'[r].new[ty] /\ u1 = req[r].user /\ pv1 = req[r].pv
      OBVIOUS
    <3>2. u1 \in Users /\ t.pv \in Version /\ t.gen \in Nat
          /\ Aligned(u1, t.pv, t.gen) /\ Aligned(u1, pv1, t.gen)
      <4>1. t \in Token /\ u1 \in Users
        BY <2>1, <2>4, <3>1, TypeNext DEF TypeInv, TypeOK, Shapely, Shape, Minted, RequestType, Token
      <4>2. CASE Born(r, ty, t)
        BY <1>4, <3>1, <4>1, <4>2, BornAligned DEF Born, Token
      <4>3. CASE Minted(r, ty) /\ req'[r].new[ty] = req[r].new[ty]
        BY <3>1, <4>1, <4>3 DEF PasswordInv, Token
      <4> QED BY <2>4, <3>1, <4>2, <4>3, SlotTokens
    <3>3. Aligned(u1, t.pv, t.gen)' /\ Aligned(u1, pv1, t.gen)'
      BY <2>2, <3>1, <3>2, AlignedStep
    <3> QED BY <2>1, <3>1, <3>3 DEF Aligned
  <2>5. ASSUME Admitted(r)'
        PROVE  /\ req[r].shown \in Pair
               /\ ContextMatches(req[r].shown["access"], req[r].user, req[r].pv)
    <3>1. CASE Admitted(r)
      BY <3>1 DEF PasswordInv
    <3>2. CASE AdmitAccess(r)
      BY <3>2 DEF AdmitAccess, Verifying, InContext, TypeInv, Shapely, Shape
    <3> QED BY <2>5, <3>1, <3>2, <1>4 DEF GoesOn
  <2>6. ASSUME req'[r].pc \in {"dropRefresh", "dropAccess"}
        PROVE  ContextMatches(req[r].shown["refresh"], req[r].user, req[r].pv)
    <3>1. CASE AdmitRefresh(r)
      BY <3>1 DEF AdmitRefresh, Verifying, InContext
    <3> QED BY <2>6, <3>1, <1>4 DEF GoesOn, PasswordInv
  <2> QED BY <2>1, <2>2, <2>3, <2>4, <2>5, <2>6 DEF ContextMatches
<1>5. \A r \in Requests : Good(r)'
  <2> HIDE DEF Good
  <2> QED BY <1>1, <1>2, <1>3, <1>4, StepGoesOn
<1>6. \A a \in Admins : adm'[a] # None => adm'[a].pv = db'[adm'[a].user].pv
  BY UpdateStep
<1> QED BY <1>d, <1>5, <1>6 DEF PasswordInv

\* If password updates of one account never overlap, no request is admitted on a
\* session older than the password its own look at the database showed.
THEOREM PasswordCorrect == Spec /\ []UpdatesExclusive => []StalePasswordNeverAccepted
<1>1. Init => PasswordInv
  <2> SUFFICES ASSUME Init PROVE PasswordInv
    OBVIOUS
  <2>1. Delivered = {} /\ \A a \in Admins : adm[a] = None
    BY DEF Init, Delivered
  <2>2. \A r \in Requests : req[r].pv = None /\ req[r].pc = "idle" /\ ~Admitted(r)
    BY NoneAssumption DEF Init, Idle, Admitted
  <2>3. \A r \in Requests, ty \in Types : ~Minted(r, ty)
    BY DEF Init, Idle, NoTokens, Minted
  <2> QED BY <2>1, <2>2, <2>3 DEF PasswordInv, Aligned
<1>2. TypeInv /\ Provenance /\ PasswordInv /\ UpdatesExclusive /\ [Next]_vars => PasswordInv'
  BY PasswordNext
<1>3. TypeInv /\ Provenance /\ PasswordInv => StalePasswordNeverAccepted
  <2> SUFFICES ASSUME TypeInv, Provenance, PasswordInv, NEW r \in Requests, Admitted(r),
                      req[r].shown["access"].pv # None
               PROVE  req[r].shown["access"].gen >= req[r].gen
    BY DEF StalePasswordNeverAccepted
  <2> DEFINE t == req[r].shown["access"]
  <2>1. req[r].shown \in Pair /\ ContextMatches(t, req[r].user, req[r].pv)
    BY DEF PasswordInv
  <2>2. t \in Delivered /\ t \in Token
    BY <2>1, NoneAssumption DEF Provenance, Pair
  <2>3. t.user = req[r].user /\ t.pv = req[r].pv
    BY <2>1 DEF ContextMatches
  <2>4. Aligned(t.user, t.pv, t.gen) /\ Aligned(t.user, t.pv, req[r].gen)
    BY <2>2, <2>3 DEF PasswordInv
  <2>5. t.pv # None /\ t.pv \in Nat /\ t.gen \in Nat /\ req[r].gen \in Nat /\ t.user \in Users
    BY <2>2 DEF Token, Version, TypeInv, TypeOK, RequestType
  <2> HIDE DEF t
  <2>6. db[t.user].pv # None => db[t.user].pv \in Nat
    BY <2>5 DEF TypeInv, TypeOK, Version
  <2>7. db[t.user].gen \in Nat
    BY <2>5 DEF TypeInv, TypeOK
  <2>8. t.gen = req[r].gen
    <3>1. \A g, h, p, d \in Int : g - p = d /\ h - p = d => g = h
      OBVIOUS
    <3>2. db[t.user].gen - db[t.user].pv \in Int
      BY <2>4, <2>5, <2>6, <2>7 DEF Aligned
    <3>3. /\ t.gen - t.pv = db[t.user].gen - db[t.user].pv
          /\ req[r].gen - t.pv = db[t.user].gen - db[t.user].pv
      BY <2>4, <2>5 DEF Aligned
    <3> QED BY <2>5, <3>1, <3>2, <3>3
  <2>9. t.gen >= req[r].gen
    BY <2>5, <2>8
  <2> QED BY <2>9 DEF t
<1> QED BY <1>1, <1>2, <1>3, LineageCorrect, PTL DEF Spec

\* In particular, when administrators' updates go through one slot.
COROLLARY OneAdministrator ==
    ASSUME \A a, b \in Admins : a = b
    PROVE  Spec => []StalePasswordNeverAccepted
<1>1. UpdatesExclusive
  BY DEF UpdatesExclusive
<1> QED BY <1>1, PasswordCorrect, PTL

-----------------------------------------------------------------------------
(* What holds when the requests of one account do not overlap.             *)

\* No two requests of one account are in flight at the same time.
Serial ==
    \A r, s \in Requests :
        req[r].pc # "idle" /\ req[s].pc # "idle" /\ req[r].user = req[s].user => r = s

\* The token comes from a sign-in or from a delivered token of its user.
Lineal(t) == t.parent = 0 \/ \E d \in Delivered : d.jti = t.parent /\ d.user = t.user

\* No delivered token was rotated from jti j.
Unused(j) == \A d \in Delivered : d.parent # j

\* No delivered token of this user and type is the registered one.
Displaced(u, ty) == \A d \in Delivered : d.user = u /\ d.type = ty => ~Registered(d)

Registering(r, ty) == Open(r, ty) /\ req[r].n = 1

\* A token in the making is the only successor of its parent, is later than the
\* last logout and, once registered, has displaced its predecessors.
MakingInv ==
    \A r \in Requests, ty \in Types : Minted(r, ty) =>
        LET t == req[r].new[ty] IN
        /\ req[r].pc \in {"mint", "respond"}
        /\ Lineal(t)
        /\ t.parent # 0 => Unused(t.parent)
        /\ t.jti >= ended[t.user]
        /\ ~Registering(r, ty) => Displaced(t.user, ty)

\* What a rotation and a logout under way have already achieved.
UnderWayInv ==
    \A r \in Requests :
        /\ req[r].pc \in {"dropRefresh", "dropAccess"} => Unused(req[r].shown["refresh"].jti)
        /\ req[r].pc = "endRefresh" => store[req[r].user]["access"] = None

\* The honoured tokens of a user belong to one session, in flight or not.
Paired ==
    \A p, q \in granted :
        p["access"].user = q["access"].user
            /\ Registered(p["access"]) /\ Registered(q["refresh"]) => p = q

SerialInv ==
    /\ MakingInv /\ UnderWayInv /\ Paired /\ RefreshSingleUse /\ LogoutEndsSessions
    /\ \A u \in Users : ended[u] <= nextJti

\* Only the end of a logout moves the mark of an account.
LEMMA EndedStep ==
    ASSUME TypeInv, [Next]_vars
    PROVE  /\ nextJti' \in Nat /\ nextJti' >= nextJti
           /\ \/ ended' = ended
              \/ \E r \in Requests : EndRefresh(r)
<1>1. nextJti \in Nat /\ nextJti' \in Nat
  BY TypeNext DEF TypeInv, TypeOK
<1>2. nextJti' >= nextJti
  BY <1>1, StepKinds DEF Quiet, Mints, RespondPair
<1>3. \/ ended' = ended
      \/ \E r \in Requests : EndRefresh(r)
  BY DEF Next, RequestStep, StartLogin, Present, RegisterJti, ExtendJti, MintSecond, MintDone,
         VerifyUnknown, VerifyFailed, Erase, AdmitAccess, AdmitRefresh, DropRefresh, DropAccess,
         DropUnversioned, EndAccess, RespondPair, RespondOther, Fail,
         AdminSetPassword, AdminRead, AdminSetEnabled, Purge, Tick, vars
<1> QED BY <1>1, <1>2, <1>3

\* A token that was there before comes from a request that went on minting; it
\* leaves its first registration only by making it.
LEMMA SlotKept ==
    ASSUME TypeInv, [Next]_vars, NEW r \in Requests, NEW ty \in Types,
           Minted(r, ty), Minted(r, ty)', req[r].pc \in {"mint", "respond"}
    PROVE  /\ req'[r].pc \in {"mint", "respond"}
           /\ Registering(r, ty) => Registering(r, ty)' \/ RegisterJti(r)
<1>t. req \in [Requests -> RequestType]
  BY DEF TypeInv, TypeOK
<1>1. CASE req'[r] = req[r]
  BY <1>1 DEF Registering, Open
<1>2. ASSUME RespondPair(r) \/ RespondOther(r) \/ Fail(r)
      PROVE  FALSE
  BY <1>2, <1>t DEF RespondPair, RespondOther, Fail, Minted, Idle, NoTokens
<1>3. ASSUME RegisterJti(r) \/ ExtendJti(r)
      PROVE  /\ req'[r].pc \in {"mint", "respond"}
             /\ Registering(r, ty) => RegisterJti(r)
  BY <1>3, <1>t DEF RegisterJti, ExtendJti, Registering, RequestType
<1>4. ASSUME MintSecond(r)
      PROVE  req'[r].pc \in {"mint", "respond"} /\ ~Registering(r, ty)
  <2>1. \E ty2, t : req' = [req EXCEPT ![r] = Register(req[r], ty2, t)]
    BY <1>4 DEF MintSecond
  <2>2. req'[r].pc = "mint"
    BY <2>1, <1>t DEF Register, RequestType
  <2>3. req[r].n = 4
    BY <1>4 DEF MintSecond
  <2> QED BY <2>2, <2>3 DEF Registering
<1>5. ASSUME MintDone(r)
      PROVE  req'[r].pc \in {"mint", "respond"} /\ ~Registering(r, ty)
  BY <1>5, <1>t DEF MintDone, Registering, RequestType
<1>6. ASSUME \/ \E u \in Users : StartLogin(r, u)
             \/ \E p, q \in granted, kind \in WithCookies : Present(r, kind, Shown(p, q))
             \/ VerifyUnknown(r) \/ VerifyFailed(r) \/ Erase(r) \/ AdmitAccess(r)
             \/ AdmitRefresh(r) \/ DropRefresh(r) \/ DropAccess(r) \/ DropUnversioned(r)
             \/ EndAccess(r) \/ EndRefresh(r)
      PROVE  FALSE
  BY <1>6 DEF StartLogin, Present, VerifyUnknown, VerifyFailed, Erase, AdmitAccess, AdmitRefresh,
              Verifying, DropRefresh, DropAccess, DropUnversioned, EndAccess, EndRefresh
<1> QED BY <1>1, <1>2, <1>3, <1>4, <1>5, <1>6, OwnStep DEF RequestStep

\* A new token is of its request's user, has the next jti, and its registration
\* is still to be made.
LEMMA BornFresh ==
    ASSUME TypeInv, [Next]_vars, NEW r \in Requests, NEW ty \in Types, NEW t, Born(r, ty, t)
    PROVE  /\ t.jti = nextJti
           /\ ended' = ended /\ granted' = granted
           /\ \/ t.parent = 0
              \/ /\ MintSecond(r) /\ t.user = req[r].user
                 /\ t.parent = req[r].new[req[r].tok].parent
              \/ /\ DropAccess(r) /\ t.user = req[r].user
                 /\ t.parent = req[r].shown["refresh"].jti
           /\ req'[r].n = 1
<1>t. req \in [Requests -> RequestType]
  BY DEF TypeInv, TypeOK
<1>1. ASSUME NEW u \in Users, StartLogin(r, u),
             t = Mint("access", u, db[u].pv, db[u].gen, 0)
      PROVE  /\ t.jti = nextJti /\ ended' = ended /\ granted' = granted
             /\ t.parent = 0 /\ req'[r].n = 1
  <2>1. t.jti = nextJti /\ t.parent = 0
    BY <1>1 DEF Mint
  <2> QED BY <1>1, <2>1, <1>t DEF StartLogin
<1>2. ASSUME MintSecond(r), ty = Other(req[r].tok),
             t = Mint(ty, req[r].user, req[r].pv,
                      req[r].new[req[r].tok].gen, req[r].new[req[r].tok].parent)
      PROVE  /\ t.jti = nextJti /\ ended' = ended /\ granted' = granted
             /\ t.user = req[r].user /\ t.parent = req[r].new[req[r].tok].parent
             /\ req'[r].n = 1
  <2>1. t.jti = nextJti /\ t.user = req[r].user /\ t.parent = req[r].new[req[r].tok].parent
    BY <1>2 DEF Mint
  <2>2. req' = [req EXCEPT ![r] = Register(req[r], ty, t)] /\ ended' = ended /\ granted' = granted
    BY <1>2 DEF MintSecond
  <2> QED BY <2>1, <2>2, <1>t DEF Register, RequestType
<1>3. ASSUME DropAccess(r), ty = "refresh", NEW old, old = req[r].shown["refresh"],
             t = Mint("refresh", req[r].user, old.pv, old.gen, old.jti)
      PROVE  /\ t.jti = nextJti /\ ended' = ended /\ granted' = granted
             /\ t.user = req[r].user /\ t.parent = old.jti
             /\ req'[r].n = 1
  <2>1. t.jti = nextJti /\ t.user = req[r].user /\ t.parent = old.jti
    BY <1>3 DEF Mint
  <2>2. req' = [req EXCEPT ![r] = Register(req[r], "refresh", t)] /\ ended' = ended /\ granted' = granted
    BY <1>3 DEF DropAccess
  <2> QED BY <2>1, <2>2, <1>t DEF Register, RequestType
<1> QED BY <1>1, <1>2, <1>3 DEF Born

\* What a delivery hands out: the two tokens of a request that is over.
LEMMA DeliveredBy ==
    ASSUME TypeInv, NEW s \in Requests, RespondPair(s)
    PROVE  /\ req[s].pc = "respond" /\ req'[s] = Idle /\ req[s].user \in Users
           /\ granted' = granted \cup {req[s].new}
           /\ \A ty \in Types : /\ Minted(s, ty) /\ ~Open(s, ty)
                                /\ req[s].new[ty].user = req[s].user
                                /\ req[s].new[ty].type = ty
           /\ Delivered \subseteq Delivered'
           /\ \A d \in Delivered' : d \in Delivered \/ \E ty \in Types : d = req[s].new[ty]
           /\ store' = store /\ ended' = ended
BY DEF RespondPair, TypeInv, TypeOK, Shapely, Shape, Minted, Open, Delivered

\* Without overlap, every step keeps MakingInv.
LEMMA MakingNext ==
    ASSUME TypeInv, FreshInv, Provenance, Serial, SerialInv, [Next]_vars
    PROVE  MakingInv'
<1> SUFFICES ASSUME NEW r \in Requests, NEW ty \in Types, Minted(r, ty)',
                    NEW t, t = req'[r].new[ty]
             PROVE  /\ req'[r].pc \in {"mint", "respond"}
                    /\ Lineal(t)'
                    /\ t.parent # 0 => Unused(t.parent)'
                    /\ t.jti >= ended'[t.user]
                    /\ ~Registering(r, ty)' => Displaced(t.user, ty)'
  <2>1. \A r \in Requests, ty \in Types : Minted(r, ty)' => \E t :
           /\ t = req'[r].new[ty]
           /\ req'[r].pc \in {"mint", "respond"}
           /\ Lineal(t)'
           /\ t.parent # 0 => Unused(t.parent)'
           /\ t.jti >= ended'[t.user]
           /\ ~Registering(r, ty)' => Displaced(t.user, ty)'
    OBVIOUS
  <2>2. ASSUME NEW r \in Requests, NEW ty \in Types, Minted(r, ty)'
        PROVE  /\ req'[r].pc \in {"mint", "respond"}
               /\ Lineal(req[r].new[ty])'
               /\ req'[r].new[ty].parent # 0 => Unused(req[r].new[ty].parent)'
               /\ req'[r].new[ty].jti >= ended'[req'[r].new[ty].user]
               /\ ~Registering(r, ty)' => Displaced(req[r].new[ty].user, ty)'
    BY <2>1, <2>2 DEF Lineal, Unused, Displaced
  <2> QED BY <2>2 DEF MakingInv
<1>t. /\ req \in [Requests -> RequestType]
      /\ store \in [Users -> [Types -> Entry \cup {None}]]
      /\ ended \in [Users -> Nat]
  BY DEF TypeInv, TypeOK
<1>k. /\ t \in Token /\ t.type = ty /\ t.user = req'[r].user
      /\ t.user \in Users /\ t.jti \in Nat
  BY TypeNext DEF TypeInv, TypeOK, Shapely, Shape, Minted, RequestType, Token
<1>1. CASE Born(r, ty, t) /\ Open(r, ty)'
  <2>1. Delivered' = Delivered
    BY <1>1, BornFresh DEF Delivered
  <2>2. /\ req'[r].pc = "mint" /\ Registering(r, ty)'
        /\ t.jti = nextJti /\ ended' = ended
    BY <1>1, BornFresh DEF Open, Registering
  <2>3. Lineal(t) /\ (t.parent # 0 => Unused(t.parent))
    <3>1. CASE t.parent = 0
      BY <3>1 DEF Lineal
    <3>2. CASE MintSecond(r) /\ t.user = req[r].user /\ t.parent = req[r].new[req[r].tok].parent
      <4>1. /\ req[r].tok \in Types /\ Minted(r, req[r].tok)
            /\ req[r].new[req[r].tok].user = req[r].user
        BY <3>2 DEF MintSecond, TypeInv, Shapely, Shape, Minted
      <4> QED BY <3>2, <4>1 DEF SerialInv, MakingInv, Lineal
    <3>3. CASE DropAccess(r) /\ t.user = req[r].user /\ t.parent = req[r].shown["refresh"].jti
      <4>1. req[r].pc = "dropAccess" /\ req[r].shown # None
        BY <3>3, NoneAssumption DEF DropAccess, TypeInv, Shapely, Shape
      <4>2. /\ req[r].shown["refresh"] \in Delivered
            /\ req[r].shown["refresh"].user = req[r].user
        BY <4>1 DEF Provenance
      <4> QED BY <3>3, <4>1, <4>2 DEF Lineal, SerialInv, UnderWayInv
    <3> QED BY <1>1, <3>1, <3>2, <3>3, BornFresh
  <2>4. Lineal(t)' /\ (t.parent # 0 => Unused(t.parent)')
    BY <2>1, <2>3 DEF Lineal, Unused
  <2> QED BY <2>2, <2>4, <1>k DEF SerialInv
<1>2. CASE Minted(r, ty) /\ req'[r].new[ty] = req[r].new[ty]
  <2>1. /\ req[r].pc \in {"mint", "respond"} /\ Lineal(t) /\ (t.parent # 0 => Unused(t.parent))
        /\ t.jti >= ended[t.user]
        /\ ~Registering(r, ty) => Displaced(t.user, ty)
    BY <1>2 DEF SerialInv, MakingInv
  <2>2. /\ req'[r].pc \in {"mint", "respond"}
        /\ Registering(r, ty) => Registering(r, ty)' \/ RegisterJti(r)
    BY <1>2, <2>1, SlotKept
  <2>3. t.user = req[r].user
    BY <1>2 DEF TypeInv, Shapely, Shape, Minted
  <2>4. ASSUME NEW s \in Requests, s # r, req[s].pc # "idle"
        PROVE  req[s].user # t.user
    BY <2>1, <2>3, <2>4 DEF Serial
  <2>5. ASSUME NEW d \in Delivered', d \notin Delivered
        PROVE  d.user # t.user /\ (t.parent # 0 => d.parent # t.parent)
    <3>1. PICK s \in Requests : RespondPair(s)
      BY <2>5, GrantedGrows DEF Delivered
    <3>2. PICK ty2 \in Types : d = req[s].new[ty2]
      BY <2>5, <3>1, DeliveredBy
    <3>3. s # r
      BY <3>1, DeliveredBy DEF Idle, NoTokens, Minted
    <3>4. d.user # t.user
      BY <2>4, <3>1, <3>2, <3>3, DeliveredBy
    <3>5. Lineal(d)
      BY <3>1, <3>2, DeliveredBy DEF SerialInv, MakingInv
    <3>6. t.parent # 0 => d.parent # t.parent
      BY <2>1, <3>4, <3>5 DEF Lineal, Provenance
    <3> QED BY <3>4, <3>6
  <2>6. Delivered \subseteq Delivered'
    BY GrantedGrows, DeliveredBy DEF Delivered
  <2>7. Lineal(t)' /\ (t.parent # 0 => Unused(t.parent)')
    BY <2>1, <2>5, <2>6 DEF Lineal, Unused
  <2>8. ended'[t.user] = ended[t.user]
    <3>1. ASSUME NEW s \in Requests, EndRefresh(s)
          PROVE  ended'[t.user] = ended[t.user]
      <4>1. s # r /\ req[s].pc # "idle"
        BY <2>1, <3>1 DEF EndRefresh
      <4> QED BY <2>4, <3>1, <4>1, <1>k, <1>t DEF EndRefresh
    <3> QED BY <3>1, EndedStep
  <2>9. ASSUME ~Registering(r, ty)'
        PROVE  Displaced(t.user, ty)'
    <3> SUFFICES ASSUME NEW d \in Delivered, d.user = t.user, d.type = ty PROVE ~Registered(d)'
      BY <2>5 DEF Displaced
    <3>1. CASE ~Registering(r, ty)
      BY <2>1, <3>1, RevocationStep DEF Displaced
    <3>2. CASE Registering(r, ty) /\ RegisterJti(r)
      <4>1. store' = HSet(t.user, ty, t.jti)
        BY <1>2, <2>3, <3>2 DEF RegisterJti, Registering, Open
      <4>2. store'[t.user][ty].jti = t.jti
        BY <4>1, <1>k, <1>t DEF HSet
      <4>3. d.jti # t.jti
        BY <1>2 DEF FreshInv
      <4> QED BY <4>2, <4>3 DEF Registered
    <3> QED BY <2>2, <2>9, <3>1, <3>2
  <2> QED BY <2>1, <2>2, <2>7, <2>8, <2>9
<1> QED BY <1>1, <1>2, SlotTokens

\* Without overlap, every step keeps UnderWayInv.
LEMMA UnderWayNext ==
    ASSUME TypeInv, FreshInv, Provenance, Succession, Serial, SerialInv, [Next]_vars
    PROVE  UnderWayInv'
<1>t. /\ req \in [Requests -> RequestType]
      /\ store \in [Users -> [Types -> Entry \cup {None}]]
  BY DEF TypeInv, TypeOK
<1>1. ASSUME NEW r \in Requests, req'[r].pc \in {"dropRefresh", "dropAccess"}
      PROVE  Unused(req[r].shown["refresh"].jti)'
  <2>1. GoesOn(r)
    <3>1. ASSUME NEW u \in Users, StartLogin(r, u)
          PROVE  FALSE
      BY <1>1, <3>1, <1>t DEF StartLogin
    <3>2. ASSUME NEW shown, NEW kind \in WithCookies, Present(r, kind, shown)
          PROVE  FALSE
      BY <1>1, <3>2, <1>t DEF Present
    <3> QED BY <1>1, <3>1, <3>2, StepGoesOn DEF Idle
  <2>2. PICK old : old = req[r].shown["refresh"] /\ old = req'[r].shown["refresh"]
    BY <2>1 DEF GoesOn
  <2>3. req[r].pc \in {"dropRefresh", "dropAccess"} \/ AdmitRefresh(r)
    BY <1>1, <2>1 DEF GoesOn
  <2>4. req[r].pc \in CookiePcs /\ req[r].shown # None
    BY <2>3, NoneAssumption DEF CookiePcs, AdmitRefresh, Verifying, TypeInv, Shapely, Shape
  <2>5. old \in Delivered /\ old.user = req[r].user /\ old.type = "refresh" /\ old.jti # 0
    <3>1. AdmitRefresh(r) => old.user = req[r].user
      BY <2>2 DEF AdmitRefresh, Verifying, InContext, ContextMatches
    <3>2. old \in Delivered /\ old.type = "refresh"
      BY <2>2, <2>4 DEF Provenance
    <3>3. old.user = req[r].user
      BY <2>2, <2>3, <3>1 DEF Provenance
    <3>4. 0 < old.jti
      BY <3>2 DEF FreshInv
    <3> QED BY <3>2, <3>3, <3>4
  <2>6. Unused(old.jti)
    <3>1. CASE AdmitRefresh(r)
      <4>1. Registered(old)
        BY <2>2, <2>5, <3>1 DEF AdmitRefresh, Verifying, Recognised, Registration, Live, Registered
      <4> QED BY <2>5, <4>1 DEF Unused, Succession, Spent, Dead
    <3> QED BY <2>2, <2>3, <3>1 DEF SerialInv, UnderWayInv
  <2>7. ASSUME NEW d \in Delivered', d \notin Delivered
        PROVE  d.parent # old.jti
    <3>1. PICK s \in Requests : RespondPair(s)
      BY <2>7, GrantedGrows DEF Delivered
    <3>2. PICK ty \in Types : d = req[s].new[ty]
      BY <2>7, <3>1, DeliveredBy
    <3>3. s # r /\ req[s].pc # "idle" /\ req[r].pc # "idle"
      BY <2>4, <3>1, DeliveredBy DEF CookiePcs
    <3>4. d.user # old.user
      BY <2>5, <3>1, <3>2, <3>3, DeliveredBy DEF Serial
    <3>5. Lineal(d)
      BY <3>1, <3>2, DeliveredBy DEF SerialInv, MakingInv
    <3> QED BY <2>5, <3>4, <3>5 DEF Lineal, Provenance
  <2>8. Unused(old.jti)'
    BY <2>6, <2>7 DEF Unused
  <2> QED BY <2>2, <2>8 DEF Unused
<1>2. ASSUME NEW r \in Requests, req'[r].pc = "endRefresh"
      PROVE  store'[req'[r].user]["access"] = None
  <2>1. /\ req'[r].user = req[r].user /\ req[r].user \in Users
        /\ EndAccess(r) \/ req[r].pc = "endRefresh"
    <3>1. CASE req'[r] = req[r]
      BY <1>2, <3>1 DEF TypeInv, Shapely, Shape
    <3>2. CASE EndAccess(r)
      BY <3>2, <1>t DEF EndAccess, TypeInv, Shapely, Shape, RequestType
    <3>3. ASSUME NEW u \in Users, StartLogin(r, u)
          PROVE  FALSE
      BY <1>2, <3>3, <1>t DEF StartLogin
    <3>4. ASSUME NEW shown, NEW kind \in WithCookies, Present(r, kind, shown)
          PROVE  FALSE
      BY <1>2, <3>4, <1>t DEF Present
    <3>5. CASE RegisterJti(r) \/ ExtendJti(r) \/ MintDone(r) \/ VerifyFailed(r)
               \/ AdmitRefresh(r) \/ DropRefresh(r) \/ DropUnversioned(r)
      BY <1>2, <3>5, <1>t DEF RegisterJti, ExtendJti, MintDone, VerifyFailed,
                              AdmitRefresh, DropRefresh, DropUnversioned, RequestType
    <3>6. CASE MintSecond(r) \/ DropAccess(r)
      <4>1. \E ty, t : req' = [req EXCEPT ![r] = Register(req[r], ty, t)]
        BY <3>6 DEF MintSecond, DropAccess
      <4> QED BY <1>2, <4>1, <1>t DEF Register, RequestType
    <3>7. CASE VerifyUnknown(r) \/ Erase(r) \/ EndRefresh(r)
      BY <1>2, <3>7, <1>t DEF VerifyUnknown, Erase, EndRefresh, Concluded, Idle, RequestType
    <3>8. CASE RespondPair(r) \/ RespondOther(r) \/ Fail(r)
      BY <1>2, <3>8, <1>t DEF RespondPair, RespondOther, Fail, Idle
    <3>9. CASE AdmitAccess(r)
      <4>1. /\ req[r].pc = "verify" /\ req[r].kind \in WithCookies /\ req[r].enabled \in BOOLEAN
        BY <3>9, <1>t DEF AdmitAccess, Verifying, TypeInv, Shapely, Shape, RequestType
      <4>2. \/ req'[r] = Idle
            \/ req'[r] = [req[r] EXCEPT !.tok = "refresh"]
            \/ \E pc \in {"respond", "endAccess"} : req'[r] = [req[r] EXCEPT !.pc = pc]
        BY <4>1, <3>9, <1>t DEF AdmitAccess, Concluded
      <4> QED BY <1>2, <4>1, <4>2, <1>t DEF Idle, RequestType
    <3> QED BY <3>1, <3>2, <3>3, <3>4, <3>5, <3>6, <3>7, <3>8, <3>9, OwnStep DEF RequestStep
  <2>2. CASE EndAccess(r)
    BY <2>1, <2>2, <1>t DEF EndAccess, HDel
  <2>3. CASE req[r].pc = "endRefresh"
    <3>1. store[req[r].user]["access"] = None
      BY <2>3 DEF SerialInv, UnderWayInv
    <3>2. \A s \in Requests : Open(s, "access") => req[s].user # req[r].user
      BY <2>3 DEF Serial, Open
    <3>3. store'[req[r].user]["access"] = None
      BY <2>1, <3>1, <3>2, EntryStep
    <3> QED BY <2>1, <3>3
  <2> QED BY <2>1, <2>2, <2>3
<1> QED BY <1>1, <1>2 DEF UnderWayInv

\* Without overlap, every step keeps the honoured tokens of a user paired.
LEMMA PairedNext ==
    ASSUME TypeInv, FreshInv, Provenance, SerialInv, [Next]_vars
    PROVE  Paired'
<1> SUFFICES ASSUME NEW p \in granted', NEW q \in granted',
                    p["access"].user = q["access"].user,
                    Registered(p["access"])', Registered(q["refresh"])'
             PROVE  p = q
  BY DEF Paired
<1>1. ASSUME NEW g \in granted, NEW ty \in Types, Registered(g[ty])'
      PROVE  Registered(g[ty])
  <2>1. g[ty] \in Delivered
    BY DEF Delivered
  <2> QED BY <1>1, <2>1, RevocationStep
<1>2. CASE p \in granted /\ q \in granted
  BY <1>1, <1>2 DEF SerialInv, Paired
<1>3. CASE p \notin granted \/ q \notin granted
  <2>1. PICK s \in Requests : RespondPair(s)
    BY <1>3, GrantedGrows
  <2> DEFINE new == req[s].new
  <2>2. /\ granted' = granted \cup {new} /\ store' = store
        /\ \A ty \in Types : Minted(s, ty) /\ ~Registering(s, ty)
                             /\ new[ty].user = req[s].user
    BY <2>1, DeliveredBy DEF Registering
  <2>3. \A ty \in Types : Displaced(req[s].user, ty)
    BY <2>2 DEF SerialInv, MakingInv
  <2>4. \A g \in granted, ty \in Types : g["access"].user = req[s].user => ~Registered(g[ty])
    BY <2>3 DEF Displaced, Provenance, Delivered
  <2>5. p["access"].user = req[s].user
    BY <1>3, <2>2
  <2>6. p \notin granted /\ q \notin granted
    BY <1>1, <2>4, <2>5
  <2> QED BY <2>2, <2>6
<1> QED BY <1>2, <1>3

\* Without overlap, every step keeps one session to a refresh token.
LEMMA SingleUseNext ==
    ASSUME TypeInv, SerialInv, [Next]_vars
    PROVE  RefreshSingleUse'
<1>1. CASE granted' = granted
  BY <1>1 DEF SerialInv, RefreshSingleUse
<1>2. ASSUME NEW s \in Requests, RespondPair(s)
      PROVE  RefreshSingleUse'
  <2> DEFINE new == req[s].new
  <2>1. granted' = granted \cup {new} /\ Minted(s, "refresh")
    BY <1>2, DeliveredBy
  <2>2. new["refresh"].parent # 0 => Unused(new["refresh"].parent)
    BY <2>1 DEF SerialInv, MakingInv
  <2>3. \A g \in granted : new["refresh"].parent # 0 => g["refresh"].parent # new["refresh"].parent
    BY <2>2 DEF Unused, Delivered
  <2> HIDE DEF new
  <2> QED BY <2>1, <2>3 DEF SerialInv, RefreshSingleUse
<1> QED BY <1>1, <1>2, GrantedGrows

\* Without overlap, every step keeps what was ended by a logout ended.
LEMMA LogoutNext ==
    ASSUME TypeInv, FreshInv, SerialInv, [Next]_vars
    PROVE  LogoutEndsSessions' /\ \A u \in Users : ended'[u] <= nextJti'
<1>t. /\ store \in [Users -> [Types -> Entry \cup {None}]]
      /\ ended \in [Users -> Nat] /\ nextJti \in Nat
      /\ \A t \in Delivered : t.user \in Users /\ t.type \in Types
  BY DEF TypeInv, TypeOK, Delivered, Pair, Token
<1>1. CASE ended' = ended
  <2>1. ASSUME NEW t \in Delivered', t.jti < ended'[t.user]
        PROVE  ~Registered(t)'
    <3>1. CASE t \in Delivered
      BY <1>1, <2>1, <3>1, RevocationStep DEF SerialInv, LogoutEndsSessions
    <3>2. CASE t \notin Delivered
      <4>1. PICK s \in Requests : RespondPair(s)
        BY <3>2, GrantedGrows DEF Delivered
      <4>2. PICK ty \in Types : t = req[s].new[ty] /\ Minted(s, ty)
        BY <3>2, <4>1, DeliveredBy
      <4>3. t.jti >= ended[t.user] /\ t.jti \in Nat /\ t.user \in Users
        BY <4>2 DEF SerialInv, MakingInv, TypeInv, TypeOK, RequestType, Minted, Token
      <4>4. FALSE
        BY <1>1, <2>1, <4>3, <1>t
      <4> QED BY <4>4
    <3> QED BY <3>1, <3>2
  <2>2. \A u \in Users : ended'[u] <= nextJti'
    BY <1>1, <1>t, EndedStep DEF SerialInv
  <2> QED BY <2>1, <2>2 DEF LogoutEndsSessions
<1>2. ASSUME NEW r \in Requests, EndRefresh(r)
      PROVE  LogoutEndsSessions' /\ \A u \in Users : ended'[u] <= nextJti'
  <2>1. /\ req[r].pc = "endRefresh" /\ req[r].user \in Users
        /\ store' = HDel(req[r].user, "refresh")
        /\ ended' = [ended EXCEPT ![req[r].user] = nextJti]
        /\ Delivered' = Delivered /\ nextJti' = nextJti
    BY <1>2 DEF EndRefresh, Delivered, TypeInv, Shapely, Shape
  <2>2. store'[req[r].user]["access"] = None /\ store'[req[r].user]["refresh"] = None
    BY <2>1, <1>t DEF SerialInv, UnderWayInv, HDel
  <2>3. ASSUME NEW t \in Delivered, t.jti < ended'[t.user]
        PROVE  ~Registered(t)'
    <3>1. CASE t.user = req[r].user
      BY <2>2, <3>1, <1>t DEF Registered
    <3>2. CASE t.user # req[r].user
      BY <2>1, <2>3, <3>2, <1>t, RevocationStep DEF SerialInv, LogoutEndsSessions
    <3> QED BY <3>1, <3>2
  <2> QED BY <2>1, <2>3, <1>t DEF LogoutEndsSessions, SerialInv
<1> QED BY <1>1, <1>2, EndedStep

\* In every behaviour without overlap, SerialInv holds.
LEMMA SerialCorrect == Spec /\ []Serial => []SerialInv
<1>1. Init => SerialInv
  <2> SUFFICES ASSUME Init PROVE SerialInv
    OBVIOUS
  <2>1. Delivered = {} /\ granted = {}
    BY DEF Init, Delivered
  <2>2. \A r \in Requests : req[r].pc = "idle" /\ \A ty \in Types : ~Minted(r, ty)
    BY DEF Init, Idle, NoTokens, Minted
  <2>3. \A u \in Users : ended[u] <= nextJti
    <3>1. ended = [u \in Users |-> 0] /\ nextJti = 1
      BY DEF Init
    <3>2. \A u \in Users : ended[u] \in Nat /\ ended[u] = 0
      BY <3>1
    <3>3. 0 <= 1
      OBVIOUS
    <3> QED BY <3>1, <3>2, <3>3
  <2> QED BY <2>1, <2>2, <2>3
          DEF SerialInv, MakingInv, UnderWayInv, Paired, RefreshSingleUse, LogoutEndsSessions
<1>2. TypeInv /\ FreshInv /\ Provenance /\ Succession /\ Serial /\ SerialInv /\ [Next]_vars
         => SerialInv'
  <2> SUFFICES ASSUME TypeInv, FreshInv, Provenance, Succession, Serial, SerialInv, [Next]_vars
               PROVE  SerialInv'
    OBVIOUS
  <2>1. MakingInv'
    BY MakingNext
  <2>2. UnderWayInv'
    BY UnderWayNext
  <2>3. Paired' /\ RefreshSingleUse'
    BY PairedNext, SingleUseNext
  <2>4. LogoutEndsSessions' /\ \A u \in Users : ended'[u] <= nextJti'
    BY LogoutNext
  <2> QED BY <2>1, <2>2, <2>3, <2>4 DEF SerialInv
<1> QED BY <1>1, <1>2, LineageCorrect, PTL DEF Spec

\* If the requests of one account never overlap, one refresh token yields one
\* new session, however often it is presented, with whichever access token,
\* before and after its rotation, and whatever the requests of others do.
THEOREM SingleUseCorrect == Spec /\ []Serial => []RefreshSingleUse
<1>1. SerialInv => RefreshSingleUse
  BY DEF SerialInv
<1> QED BY <1>1, SerialCorrect, PTL

\* If they never overlap, no token minted before a logout is honoured after it.
THEOREM LogoutCorrect == Spec /\ []Serial => []LogoutEndsSessions
<1>1. SerialInv => LogoutEndsSessions
  BY DEF SerialInv
<1> QED BY <1>1, SerialCorrect, PTL

\* If they never overlap, the honoured tokens of a user belong to one session,
\* at rest and while a request is under way.
THEOREM PairedCorrect == Spec /\ []Serial => []Paired /\ []PairedWhenQuiescent
<1>1. SerialInv => Paired /\ PairedWhenQuiescent
  BY DEF SerialInv, Paired, PairedWhenQuiescent
<1> QED BY <1>1, SerialCorrect, PTL

\* With one request slot nothing overlaps: what the serial run checks on a small
\* instance holds for any number of accounts, and with failures.
COROLLARY OneRequestSlot ==
    ASSUME \A r, s \in Requests : r = s
    PROVE  Spec => [](RefreshSingleUse /\ LogoutEndsSessions /\ PairedWhenQuiescent)
<1>1. Serial
  BY DEF Serial
<1> QED BY <1>1, SingleUseCorrect, LogoutCorrect, PairedCorrect, PTL

=============================================================================
