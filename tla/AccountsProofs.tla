---------------------------- MODULE AccountsProofs ----------------------------
(***************************************************************************)
(* Theorems about Accounts, for any rows, addresses, roles, rules and      *)
(* payloads, and any number of requests at a time.                         *)
(***************************************************************************)
EXTENDS Accounts, TLAPS

\* A session refers to a row that is there, which is what the administrators'
\* requests rely on.
TypeInv == TypeOK /\ GrantedToOwner

\* The row after a commit: the columns that are set, and the rest as it was.
Written(row, set) == [c \in DOMAIN row |-> IF c \in DOMAIN set THEN set[c] ELSE row[c]]

\* Writing some columns of a row leaves a row, with the same provider.
LEMMA WrittenType ==
    ASSUME NEW row \in Row, NEW set \in Changes
    PROVE  /\ Written(row, set) \in Row
           /\ Written(row, set).provider = row.provider
           /\ "role" \notin DOMAIN set => Written(row, set).role = row.role
           /\ "role" \in DOMAIN set => Written(row, set).role = set.role /\ set.role \in Roles \cup {Null}
<1>1. PICK cs \in SUBSET Columns, w \in Row : set = [c \in cs |-> w[c]]
  BY DEF Changes
<1>2. Written(row, set) =
        [email |-> IF "email" \in cs THEN w.email ELSE row.email,
         ext |-> IF "ext" \in cs THEN w.ext ELSE row.ext,
         provider |-> row.provider,
         role |-> IF "role" \in cs THEN w.role ELSE row.role,
         active |-> IF "active" \in cs THEN w.active ELSE row.active,
         verified |-> IF "verified" \in cs THEN w.verified ELSE row.verified]
  BY <1>1 DEF Written, Row, Columns
<1> QED BY <1>1, <1>2 DEF Row

\* Any part of a row is a change a commit may hold.
LEMMA SomeOf == \A cs \in SUBSET Columns, w \in Row : [c \in cs |-> w[c]] \in Changes
BY DEF Changes

\* What differs from a row is still something to ask of it.
LEMMA ChangedType ==
    ASSUME NEW set \in Changes, NEW cs \in SUBSET (DOMAIN set)
    PROVE  [c \in cs |-> set[c]] \in Changes
<1>1. PICK ds \in SUBSET Columns, w \in Row : set = [c \in ds |-> w[c]]
  BY DEF Changes
<1>2. [c \in cs |-> set[c]] = [c \in cs |-> w[c]] /\ cs \in SUBSET Columns
  BY <1>1
<1> QED BY <1>2 DEF Changes

\* So is deactivation.
LEMMA DeactivationType ==
    ASSUME NEW row \in Row
    PROVE  [active |-> FALSE] \in Changes
<1>1. PICK w \in Row : w.active = FALSE
  <2>1. [row EXCEPT !.active = FALSE] \in Row /\ [row EXCEPT !.active = FALSE].active = FALSE
    BY DEF Row
  <2> QED BY <2>1
<1>2. DOMAIN [active |-> FALSE] = {"active"} /\ [active |-> FALSE]["active"] = w["active"]
  BY <1>1
<1>3. [active |-> FALSE] = [c \in {"active"} |-> w[c]]
  BY <1>2, Zenon
<1>4. {"active"} \in SUBSET Columns
  BY DEF Columns
<1>5. [c \in {"active"} |-> w[c]] \in Changes
  BY <1>4, SomeOf, Zenon
<1> QED BY <1>3, <1>5, Zenon

\* A new row is a row, and has the columns it was given.
LEMMA NewRowType ==
    ASSUME NEW email \in Emails, NEW ext \in ExternalIds \cup {None}, NEW provider \in Providers,
           NEW role \in Roles \cup {Null}, NEW enabled \in BOOLEAN
    PROVE  /\ NewRow(email, ext, provider, role, enabled) \in Row
           /\ NewRow(email, ext, provider, role, enabled).provider = provider
           /\ NewRow(email, ext, provider, role, enabled).role = role
           /\ NewRow(email, ext, provider, role, enabled).active = enabled
           /\ NewRow(email, ext, provider, role, enabled).verified = enabled
BY DEF NewRow, Row

-----------------------------------------------------------------------------
(* Types, and whose sessions there are.                                    *)

\* TypeInv holds at the start.
LEMMA TypeInit == Init => TypeInv
<1> SUFFICES ASSUME Init PROVE TypeInv
  OBVIOUS
<1>1. rows \in [Ids -> Row \cup {None}] /\ made \in [Ids -> {"host", "signup", "admin", "google", None}]
  BY HostAssumption DEF Init
<1>2. \A i \in Ids : rows[i] = None <=> made[i] = None
  BY HostAssumption, AbsenceAssumption DEF Init
<1> QED BY <1>1, <1>2 DEF Init, TypeInv, TypeOK, GrantedToOwner

\* A request that has something to do holds it in one of three forms.
LEMMA RequestForms ==
    ASSUME TypeInv, NEW r \in Requests, req[r] # None
    PROVE  /\ req[r].pc \in {"acting", "insert", "commit"}
           /\ req[r].pc = "acting" => req[r] \in Actors
           /\ req[r].pc = "insert" => req[r] \in Inserts
           /\ req[r].pc = "commit" => req[r] \in Commits
BY DEF TypeInv, TypeOK, Actors, Inserts, Commits

\* A request that goes on to a form it may hold leaves the types alone.
LEMMA GotoType ==
    ASSUME TypeInv, UNCHANGED <<rows, made, sessions>>, NEW r \in Requests, NEW rec, Goto(r, rec),
           \/ rec = None
           \/ rec \in Inserts
           \/ rec \in Actors /\ rows[rec.actor] # None
           \/ rec \in Commits /\ rows[rec.target] # None
    PROVE  TypeInv'
<1>1. req' \in [Requests -> Actors \cup Inserts \cup Commits \cup {None}] /\ req'[r] = rec
      /\ \A s \in Requests : s # r => req'[s] = req[s]
  BY DEF TypeInv, TypeOK, Goto
<1>2. \A s \in Requests : req'[s] # None =>
          /\ req'[s].pc = "acting" => rows[req'[s].actor] # None
          /\ req'[s].pc = "commit" => rows[req'[s].target] # None
  BY <1>1 DEF TypeInv, TypeOK, Actors, Inserts, Commits
<1> QED BY <1>1, <1>2 DEF TypeInv, TypeOK, GrantedToOwner

\* What an administrator is about to write has the form that Commit relies on.
LEMMA ManageType ==
    ASSUME TypeInv, NEW r \in Requests, NEW action \in {"update", "delete"}, NEW target \in Ids,
           NEW set \in Changes, Manage(r, action, target, set)
    PROVE  \E cs \in SUBSET (DOMAIN set) :
              LET rec == [pc |-> "commit", actor |-> req[r].actor, target |-> target,
                          action |-> action, set |-> [c \in cs |-> set[c]]]
              IN  Goto(r, rec) /\ rec \in Commits /\ rows[target] # None
<1> DEFINE cs == {c \in DOMAIN set : set[c] # Loaded(r, target)[c]}
           rec == [pc |-> "commit", actor |-> req[r].actor, target |-> target,
                   action |-> action, set |-> [c \in cs |-> set[c]]]
<1>1. Goto(r, rec) /\ rows[target] # None /\ req[r] \in Actors
  BY RequestForms DEF Manage, Acting
<1>2. cs \in SUBSET (DOMAIN set) /\ [c \in cs |-> set[c]] \in Changes
  BY ChangedType
<1>3. rec \in Commits
  <2> HIDE DEF cs
  <2> QED BY <1>1, <1>2 DEF Commits, Actors
<1> QED BY <1>1, <1>2, <1>3

\* Every step keeps TypeInv.
LEMMA TypeNext == TypeInv /\ [Next]_vars => TypeInv'
<1> SUFFICES ASSUME TypeInv, [Next]_vars PROVE TypeInv'
  OBVIOUS
<1>0. /\ rows \in [Ids -> Row \cup {None}] /\ sessions \subseteq Ids \X Providers
      /\ None \notin Row /\ None \notin {"host", "signup", "admin", "google"}
      /\ \A s \in sessions : rows[s[1]] # None /\ rows[s[1]].provider = s[2]
  BY AbsenceAssumption DEF TypeInv, TypeOK, GrantedToOwner
<1>1. ASSUME NEW r \in Requests, NEW row \in Row, NEW by \in {"signup", "admin", "google"},
             Propose(r, row, by)
      PROVE  TypeInv'
  BY <1>1, GotoType DEF Propose, Inserts
<1>2. ASSUME NEW r \in Requests, NEW email \in Emails, NEW ext \in ExternalIds \cup {None},
             SignUp(r, email, ext)
      PROVE  TypeInv'
  BY <1>1, <1>2, NewRowType DEF SignUp, Providers
<1>3. ASSUME NEW i \in Ids, NEW provider \in Providers, rows[i] # None, rows[i].provider = provider,
             Grant(i, provider), UNCHANGED <<rows, made, req>>
      PROVE  TypeInv'
  BY <1>3 DEF Grant, TypeInv, TypeOK, GrantedToOwner
<1>4. ASSUME NEW r \in Requests, NEW email \in Emails, NEW canonical \in BOOLEAN,
             Google(r, email, canonical)
      PROVE  TypeInv'
  <2>1. CASE /\ Goto(r, [pc |-> "insert", row |-> NewRow(email, None, "google", UserRole, TRUE),
                         by |-> "google"])
             /\ UNCHANGED <<rows, made, sessions>>
    <3>1. NewRow(email, None, "google", UserRole, TRUE) \in Row
      BY HostAssumption, NewRowType DEF Providers
    <3> QED BY <2>1, <3>1, GotoType DEF Inserts
  <2>2. CASE \E i \in With(email) : rows[i].provider = "google" /\ Grant(i, "google")
                                    /\ UNCHANGED <<rows, made, req>>
    BY <1>3, <2>2 DEF With, Providers
  <2> QED BY <1>4, <2>1, <2>2 DEF Google
<1>5. ASSUME NEW r \in Requests, NEW i \in Ids, Act(r, i)
      PROVE  TypeInv'
  <2>1. rows[i] \in Row
    BY <1>0, <1>5 DEF Act
  <2>2. [pc |-> "acting", actor |-> i, role |-> rows[i].role] \in Actors
    BY <2>1 DEF Row, Actors
  <2> QED BY <1>0, <1>5, <2>1, <2>2, GotoType DEF Act
<1>6. ASSUME NEW r \in Requests, NEW email \in Emails, NEW ext \in ExternalIds \cup {None},
             NEW role \in Roles, AdminCreate(r, email, ext, role)
      PROVE  TypeInv'
  BY <1>1, <1>6, NewRowType DEF AdminCreate, Providers
<1>7. ASSUME NEW r \in Requests, NEW action \in {"update", "delete"}, NEW i \in Ids,
             NEW set \in Changes, Manage(r, action, i, set)
      PROVE  TypeInv'
  <2>1. UNCHANGED <<rows, made, sessions>>
    BY <1>7 DEF Manage
  <2> QED BY <1>7, <2>1, ManageType, GotoType
<1>8. ASSUME NEW r \in Requests, NEW i \in Ids, NEW set \in Payloads, AdminUpdate(r, i, set)
      PROVE  TypeInv'
  BY <1>7, <1>8, HostAssumption DEF AdminUpdate
<1>9. ASSUME NEW r \in Requests, NEW i \in Ids, AdminDelete(r, i)
      PROVE  TypeInv'
  <2>1. [active |-> FALSE] \in Changes
    BY <1>0, <1>9, DeactivationType DEF AdminDelete, Manage
  <2> QED BY <1>7, <1>9, <2>1 DEF AdminDelete
<1>10. ASSUME NEW r \in Requests, Insert(r)
       PROVE  TypeInv'
  <2>1. req[r] \in Inserts /\ Goto(r, None)
    BY <1>10, RequestForms DEF Insert
  <2>2. CASE UNCHANGED <<rows, made, sessions>>
    BY <2>1, <2>2, GotoType
  <2>3. ASSUME NEW i \in Ids, rows[i] = None,
               rows' = [rows EXCEPT ![i] = req[r].row], made' = [made EXCEPT ![i] = req[r].by],
               IF req[r].row.provider = "google" THEN Grant(i, "google") ELSE UNCHANGED sessions
        PROVE  TypeInv'
    <3>1. req[r].row \in Row /\ req[r].by \in {"signup", "admin", "google"}
      BY <2>1 DEF Inserts
    <3>2. req' = [req EXCEPT ![r] = None]
      BY <2>1 DEF Goto
    <3>3. TypeOK'
      BY <1>0, <2>3, <3>1, <3>2 DEF TypeInv, TypeOK, Grant, Providers
    <3>4. GrantedToOwner'
      BY <1>0, <2>3, <3>1 DEF TypeInv, Grant, GrantedToOwner
    <3> QED BY <3>3, <3>4 DEF TypeInv
  <2> QED BY <1>10, <2>2, <2>3 DEF Insert
<1>11. ASSUME NEW r \in Requests, Commit(r)
       PROVE  TypeInv'
  <2>1. /\ req[r] \in Commits /\ Goto(r, None) /\ rows[req[r].target] # None
        /\ UNCHANGED <<made, sessions>>
    BY <1>11, RequestForms DEF Commit, TypeInv, TypeOK
  <2>2. CASE UNCHANGED rows
    BY <2>1, <2>2, GotoType
  <2>3. CASE rows' = [rows EXCEPT ![req[r].target] = Written(rows[req[r].target], req[r].set)]
    <3>1. /\ Written(rows[req[r].target], req[r].set) \in Row
          /\ Written(rows[req[r].target], req[r].set).provider = rows[req[r].target].provider
      BY <1>0, <2>1, WrittenType DEF Commits
    <3>2. req' = [req EXCEPT ![r] = None]
      BY <2>1 DEF Goto
    <3>3. TypeOK'
      <4>1. req[r].target \in Ids
        BY <2>1 DEF Commits
      <4>2. rows' \in [Ids -> Row \cup {None}] /\ \A i \in Ids : rows'[i] = None <=> rows[i] = None
        <5> HIDE DEF Written
        <5> QED BY <1>0, <2>1, <2>3, <3>1, <4>1
      <4>3. req' \in [Requests -> Actors \cup Inserts \cup Commits \cup {None}]
        BY <3>2 DEF TypeInv, TypeOK
      <4>4. \A s \in Requests : req'[s] # None =>
                /\ req'[s] = req[s]
                /\ req[s].pc = "acting" => req[s].actor \in Ids /\ rows[req[s].actor] # None
                /\ req[s].pc = "commit" => req[s].target \in Ids /\ rows[req[s].target] # None
        BY <3>2 DEF TypeInv, TypeOK, Actors, Inserts, Commits
      <4> QED BY <2>1, <4>2, <4>3, <4>4 DEF TypeInv, TypeOK
    <3>4. GrantedToOwner'
      BY <1>0, <2>1, <2>3, <3>1 DEF TypeInv, GrantedToOwner
    <3> QED BY <3>3, <3>4 DEF TypeInv
  <2> QED BY <1>11, <2>2, <2>3 DEF Commit, Written
<1>12. ASSUME NEW r \in Requests, Abandon(r)
       PROVE  TypeInv'
  BY <1>12, GotoType DEF Abandon
<1>13. ASSUME NEW email \in Emails, Login(email)
       PROVE  TypeInv'
  BY <1>3, <1>13 DEF Login, With, Providers
<1>14. ASSUME NEW x \in ExternalIds, Telegram(x)
       PROVE  TypeInv'
  BY <1>3, <1>14 DEF Telegram, Providers
<1>15. CASE UNCHANGED vars
  BY <1>15 DEF vars, TypeInv, TypeOK, GrantedToOwner
<1> QED BY <1>2, <1>4, <1>5, <1>6, <1>8, <1>9, <1>10, <1>11, <1>12, <1>13, <1>14, <1>15
        DEF Next, VerifyLink

\* Rows, sessions and requests have the types the routes rely on: what a request
\* read is still there when it commits (routes/admin/register.py).
THEOREM TypeCorrect == Spec => []TypeOK
<1>1. TypeInv => TypeOK
  BY DEF TypeInv
<1> QED BY <1>1, TypeInit, TypeNext, PTL DEF Spec

\* Every session was granted through the provider its account belongs to, and
\* still is (routes/google.py, routes/telegram.py, tokens/auth.py).
THEOREM GrantedCorrect == Spec => []GrantedToOwner
<1>1. TypeInv => GrantedToOwner
  BY DEF TypeInv
<1> QED BY <1>1, TypeInit, TypeNext, PTL DEF Spec

-----------------------------------------------------------------------------
(* The administrators' routes.  Under uniform rules a decision stays right  *)
(* from the read to the commit: a role changes only from one managed role   *)
(* to another, so the roles that manage keep their accounts, and whatever   *)
(* else a target becomes meanwhile is managed by the same roles.            *)

\* What a request has established, in the table tab.
Entitled(Managed, tab, rec) ==
    /\ rec.pc = "acting" /\ Rules(rec.role) # None => tab[rec.actor].role = rec.role
    /\ rec.pc = "commit" =>
          /\ tab[rec.actor] # None
          /\ Rules(tab[rec.actor].role) # None /\ Known(tab[rec.actor].role)
          /\ tab[rec.target].role \in Managed /\ Known(tab[rec.target].role)
          /\ "role" \in DOMAIN rec.set => rec.set.role \in Managed /\ Known(rec.set.role)
EntitledInv(Managed) == \A r \in Requests : req[r] # None => Entitled(Managed, rows, req[r])

\* Rows stay, and so do their roles unless they are managed.
RolesKept(Managed) ==
    \A i \in Ids : rows[i] # None =>
        /\ rows'[i] # None
        /\ \/ rows'[i].role = rows[i].role
           \/ rows[i].role \in Managed /\ rows'[i].role \in Managed /\ Known(rows'[i].role)

\* Such a step takes nothing from the requests under way.
LEMMA EntitledKept ==
    ASSUME NEW Managed, Uniform(Managed), TypeInv, EntitledInv(Managed), RolesKept(Managed),
           NEW r \in Requests, req[r] # None
    PROVE  Entitled(Managed, rows', req[r])
<1>0. Entitled(Managed, rows, req[r])
  BY DEF EntitledInv
<1>1. ASSUME NEW i \in Ids, rows[i] # None, Rules(rows[i].role) # None
      PROVE  rows'[i] # None /\ rows'[i].role = rows[i].role
  <2>1. rows[i].role \in Roles \cup {Null}
    BY <1>1 DEF TypeInv, TypeOK, Row
  <2> QED BY <1>1, <2>1 DEF Uniform, RolesKept
<1>2. CASE req[r].pc = "acting"
  <2>1. req[r].actor \in Ids /\ rows[req[r].actor] # None
    BY <1>2, RequestForms DEF Actors, TypeInv, TypeOK
  <2> QED BY <1>0, <1>1, <1>2, <2>1 DEF Entitled
<1>3. CASE req[r].pc = "commit"
  <2>1. req[r].actor \in Ids /\ req[r].target \in Ids /\ rows[req[r].target] # None
    BY <1>3, RequestForms DEF Commits, TypeInv, TypeOK
  <2>2. rows[req[r].actor] # None /\ Rules(rows[req[r].actor].role) # None
        /\ Known(rows[req[r].actor].role)
    BY <1>0, <1>3 DEF Entitled
  <2>3. rows'[req[r].actor] # None /\ rows'[req[r].actor].role = rows[req[r].actor].role
    BY <1>1, <2>1, <2>2
  <2>4. rows'[req[r].target].role \in Managed /\ Known(rows'[req[r].target].role)
    BY <1>0, <1>3, <2>1 DEF Entitled, RolesKept
  <2> QED BY <1>0, <1>3, <2>2, <2>3, <2>4 DEF Entitled
<1> QED BY <1>2, <1>3 DEF Entitled

\* So a step that is one request's, and keeps the roles, keeps the invariant.
LEMMA GotoEntitled ==
    ASSUME NEW Managed, Uniform(Managed), TypeInv, EntitledInv(Managed), RolesKept(Managed),
           NEW r \in Requests, NEW rec, Goto(r, rec), rec = None \/ Entitled(Managed, rows', rec)
    PROVE  EntitledInv(Managed)'
<1>1. req'[r] = rec /\ \A s \in Requests : s # r => req'[s] = req[s]
  BY DEF TypeInv, TypeOK, Goto
<1>2. \A s \in Requests : req'[s] # None => Entitled(Managed, rows', req'[s])
  BY <1>1, EntitledKept
<1> QED BY <1>2 DEF EntitledInv

\* What the policy lets pass.
LEMMA ManageEntitled ==
    ASSUME NEW Managed \in SUBSET Roles, Uniform(Managed), TypeInv, EntitledInv(Managed),
           NEW r \in Requests, NEW action \in {"update", "delete"}, NEW target \in Ids,
           NEW set \in Changes, "role" \in DOMAIN set => set.role # Null /\ action = "update",
           Manage(r, action, target, set)
    PROVE  EntitledInv(Managed)'
<1> DEFINE cs == {c \in DOMAIN set : set[c] # Loaded(r, target)[c]}
           rec == [pc |-> "commit", actor |-> req[r].actor, target |-> target,
                   action |-> action, set |-> [c \in cs |-> set[c]]]
           current == Loaded(r, target).role
           new == IF "role" \in DOMAIN set THEN set.role ELSE Null
<1>1. /\ req[r] # None /\ req[r].pc = "acting" /\ req[r] \in Actors /\ rows[req[r].actor] # None
      /\ rows[target] # None /\ UNCHANGED rows
  BY RequestForms DEF Manage, Acting, TypeInv, TypeOK
<1>2. Goto(r, rec) /\ Authorized(action, req[r].role, current, new)
  BY Zenon DEF Manage
<1>3. Rules(req[r].role) # None /\ Known(req[r].role) /\ req[r].role \in Roles \cup {Null}
  BY <1>1, <1>2 DEF Authorized, Reaches, Actors
<1>4. Rules(req[r].role)[action] = Managed /\ Managed # {"*"} /\ req[r].role \notin Managed
  BY <1>3 DEF Uniform
<1>5. current \in Managed /\ Known(current)
  BY <1>2, <1>4 DEF Authorized, Reaches
<1>6. rows[req[r].actor].role = req[r].role
  BY <1>1, <1>3 DEF EntitledInv, Entitled
<1>7. target # req[r].actor /\ Loaded(r, target) = rows[target]
  <2>1. target = req[r].actor => current = req[r].role
    BY <1>1 DEF Loaded, TypeInv, TypeOK, Row
  <2> QED BY <1>4, <1>5, <2>1 DEF Loaded
<1>8. "role" \in cs => set["role"] \in Managed /\ Known(set["role"])
  <2>1. SUFFICES ASSUME "role" \in cs PROVE set["role"] \in Managed /\ Known(set["role"])
    OBVIOUS
  <2>2. new = set["role"] /\ new # Null /\ new # current /\ action = "update"
    BY <2>1
  <2> QED BY <1>2, <1>4, <2>2 DEF Authorized, Reaches
<1>9. Entitled(Managed, rows, rec)
  <2> HIDE DEF cs
  <2> QED BY <1>1, <1>3, <1>5, <1>6, <1>7, <1>8 DEF Entitled
<1>10. RolesKept(Managed) /\ Entitled(Managed, rows', rec)
  BY <1>1, <1>9 DEF RolesKept, Entitled
<1> QED BY <1>2, <1>10, GotoEntitled

\* A commit moves its target from one managed role to another, or leaves it.
LEMMA CommitKept ==
    ASSUME NEW Managed, TypeInv, EntitledInv(Managed), NEW r \in Requests, Commit(r)
    PROVE  /\ RolesKept(Managed) /\ Goto(r, None) /\ req[r] \in Commits /\ Entitled(Managed, rows, req[r])
           /\ rows' = rows \/ rows' = [rows EXCEPT ![req[r].target] =
                                           Written(rows[req[r].target], req[r].set)]
<1>1. /\ req[r] # None /\ req[r].pc = "commit" /\ req[r] \in Commits /\ Goto(r, None)
      /\ rows[req[r].target] # None /\ rows \in [Ids -> Row \cup {None}]
  BY RequestForms DEF Commit, TypeInv, TypeOK
<1>2. Entitled(Managed, rows, req[r])
  BY <1>1 DEF EntitledInv
<1>3. rows' = rows \/ rows' = [rows EXCEPT ![req[r].target] =
                                  Written(rows[req[r].target], req[r].set)]
  BY DEF Commit, Written
<1>4. ASSUME rows' = [rows EXCEPT ![req[r].target] = Written(rows[req[r].target], req[r].set)]
      PROVE  RolesKept(Managed)
  <2> DEFINE row == rows[req[r].target]
             new == Written(row, req[r].set)
  <2>1. row \in Row /\ req[r].set \in Changes /\ req[r].target \in Ids
    BY <1>1 DEF Commits
  <2>2. /\ new \in Row
        /\ "role" \notin DOMAIN req[r].set => new.role = row.role
        /\ "role" \in DOMAIN req[r].set => new.role = req[r].set.role
    BY <2>1, WrittenType
  <2>3. /\ new # None
        /\ \/ new.role = row.role
           \/ row.role \in Managed /\ new.role \in Managed /\ Known(new.role)
    BY <1>1, <1>2, <2>2, AbsenceAssumption DEF Entitled
  <2>4. rows'[req[r].target] = new /\ \A i \in Ids : i # req[r].target => rows'[i] = rows[i]
    BY <1>1, <1>4, <2>1
  <2> HIDE DEF new
  <2> QED BY <2>3, <2>4 DEF RolesKept
<1>5. rows' = rows => RolesKept(Managed)
  BY DEF RolesKept
<1> QED BY <1>1, <1>2, <1>3, <1>4, <1>5

\* No request is under way at the start, whatever roles are managed.
LEMMA EntitledInit == \A Managed : Init => EntitledInv(Managed)
BY DEF Init, EntitledInv

\* Under uniform rules no step of anybody takes a request's entitlement away.
LEMMA EntitledNext ==
    ASSUME NEW Managed \in SUBSET Roles, Uniform(Managed), TypeInv, EntitledInv(Managed), [Next]_vars
    PROVE  EntitledInv(Managed)'
<1>0. rows \in [Ids -> Row \cup {None}] /\ None \notin Row
  BY AbsenceAssumption DEF TypeInv, TypeOK
<1>1. ASSUME UNCHANGED rows PROVE RolesKept(Managed)
  BY <1>1 DEF RolesKept
<1>2. ASSUME NEW r \in Requests, NEW rec, Goto(r, rec), UNCHANGED rows,
             rec = None \/ rec.pc = "insert"
      PROVE  EntitledInv(Managed)'
  BY <1>1, <1>2, GotoEntitled DEF Entitled
<1>3. ASSUME UNCHANGED <<rows, req>>
      PROVE  EntitledInv(Managed)'
  BY <1>3 DEF EntitledInv
<1>4. ASSUME NEW r \in Requests, NEW email \in Emails, NEW ext \in ExternalIds \cup {None},
             SignUp(r, email, ext)
      PROVE  EntitledInv(Managed)'
  BY <1>2, <1>4 DEF SignUp, Propose
<1>5. ASSUME NEW r \in Requests, NEW email \in Emails, NEW canonical \in BOOLEAN,
             Google(r, email, canonical)
      PROVE  EntitledInv(Managed)'
  BY <1>2, <1>3, <1>5 DEF Google
<1>6. ASSUME NEW r \in Requests, NEW i \in Ids, Act(r, i)
      PROVE  EntitledInv(Managed)'
  <2>1. Entitled(Managed, rows', [pc |-> "acting", actor |-> i, role |-> rows[i].role])
    BY <1>6 DEF Act, Entitled
  <2> QED BY <1>1, <1>6, <2>1, GotoEntitled DEF Act
<1>7. ASSUME NEW r \in Requests, NEW email \in Emails, NEW ext \in ExternalIds \cup {None},
             NEW role \in Roles, AdminCreate(r, email, ext, role)
      PROVE  EntitledInv(Managed)'
  BY <1>2, <1>7 DEF AdminCreate, Propose
<1>8. ASSUME NEW r \in Requests, NEW i \in Ids, NEW set \in Payloads, AdminUpdate(r, i, set)
      PROVE  EntitledInv(Managed)'
  BY <1>8, ManageEntitled, HostAssumption DEF AdminUpdate
<1>9. ASSUME NEW r \in Requests, NEW i \in Ids, AdminDelete(r, i)
      PROVE  EntitledInv(Managed)'
  <2>1. [active |-> FALSE] \in Changes /\ "role" \notin DOMAIN [active |-> FALSE]
    BY <1>0, <1>9, DeactivationType DEF AdminDelete, Manage
  <2> QED BY <1>9, <2>1, ManageEntitled DEF AdminDelete
<1>10. ASSUME NEW r \in Requests, Insert(r)
       PROVE  EntitledInv(Managed)'
  <2>1. req[r] \in Inserts /\ Goto(r, None)
    BY <1>10, RequestForms DEF Insert
  <2>2. CASE UNCHANGED rows
    BY <1>2, <2>1, <2>2
  <2>3. CASE \E i \in Ids : rows[i] = None /\ rows' = [rows EXCEPT ![i] = req[r].row]
    <3>1. RolesKept(Managed)
      BY <1>0, <2>3 DEF RolesKept
    <3> QED BY <2>1, <3>1, GotoEntitled
  <2> QED BY <1>10, <2>2, <2>3 DEF Insert
<1>11. ASSUME NEW r \in Requests, Commit(r)
       PROVE  EntitledInv(Managed)'
  BY <1>11, CommitKept, GotoEntitled
<1>12. ASSUME NEW r \in Requests, Abandon(r)
       PROVE  EntitledInv(Managed)'
  BY <1>2, <1>12 DEF Abandon
<1>13. ASSUME NEW email \in Emails, Login(email)
       PROVE  EntitledInv(Managed)'
  BY <1>3, <1>13 DEF Login
<1>14. ASSUME NEW x \in ExternalIds, Telegram(x)
       PROVE  EntitledInv(Managed)'
  BY <1>3, <1>14 DEF Telegram
<1>15. CASE UNCHANGED vars
  BY <1>3, <1>15 DEF vars
<1> QED BY <1>4, <1>5, <1>6, <1>7, <1>8, <1>9, <1>10, <1>11, <1>12, <1>13, <1>14, <1>15
        DEF Next, VerifyLink

\* The step the property is about is a commit.
LEMMA CommitsAlone ==
    ASSUME TypeInv, [Next]_vars, NEW r \in Requests,
           req[r] # None, req[r].pc = "commit", rows' # rows, req'[r] = None
    PROVE  Commit(r)
<1>1. ASSUME NEW s \in Requests, s # r, NEW rec, Goto(s, rec)
      PROVE  FALSE
  BY <1>1 DEF TypeInv, TypeOK, Goto
<1>2. ASSUME NEW s \in Requests, Insert(s)
      PROVE  FALSE
  <2>1. s # r /\ Goto(s, None)
    BY <1>2 DEF Insert
  <2> QED BY <1>1, <2>1
<1>3. ASSUME NEW s \in Requests, Commit(s), s # r
      PROVE  FALSE
  BY <1>1, <1>3 DEF Commit
<1> QED BY <1>2, <1>3 DEF Next, vars, SignUp, Propose, Google, Act, AdminCreate, AdminUpdate, AdminDelete,
                     Manage, Abandon, Login, VerifyLink, Telegram

\* The commit does what the policy allows there and then.
LEMMA CommitAuthorized ==
    ASSUME NEW Managed \in SUBSET Roles, Uniform(Managed), TypeInv, EntitledInv(Managed),
           NEW r \in Requests, Commit(r), rows' # rows
    PROVE  LET i == req[r].target IN
           Authorized(req[r].action, rows[req[r].actor].role, rows[i].role, rows'[i].role)
<1> DEFINE actor == rows[req[r].actor].role
           current == rows[req[r].target].role
           new == rows'[req[r].target].role
<1>1. /\ req[r] \in Commits /\ req[r].pc = "commit" /\ req[r].action \in {"update", "delete"}
      /\ req[r].actor \in Ids /\ req[r].target \in Ids /\ rows[req[r].target] # None
      /\ RolesKept(Managed) /\ Entitled(Managed, rows, req[r])
  BY CommitKept, RequestForms DEF Commit, Commits, TypeInv, TypeOK
<1>2. /\ Rules(actor) # None /\ Known(actor) /\ actor \in Roles \cup {Null}
      /\ current \in Managed /\ Known(current)
  BY <1>1 DEF Entitled, TypeInv, TypeOK, Row
<1>3. new \in Managed /\ Known(new)
  BY <1>1, <1>2 DEF RolesKept
<1>4. Rules(actor)[req[r].action] = Managed
  BY <1>1, <1>2 DEF Uniform
<1>5. Reaches(actor, req[r].action, current) /\ Reaches(actor, req[r].action, new)
  BY <1>2, <1>3, <1>4 DEF Reaches
<1>6. current # Null /\ req[r].action # "create"
  BY <1>1, <1>2, AbsenceAssumption
<1> HIDE DEF actor, current, new
<1>7. Authorized(req[r].action, actor, current, new)
  BY <1>2, <1>3, <1>5, <1>6 DEF Authorized
<1> QED BY <1>7 DEF actor, current, new

\* Under uniform rules nobody changes an account but someone who, at the moment
\* of the commit, manages both the role the account has and the one it gets,
\* however long ago the route read them (routes/admin/register.py,
\* policies/user_management.py).
THEOREM AuthorisedCorrect ==
    ASSUME UniformRules
    PROVE  Spec => AuthorisedAtCommit
<1> DEFINE Managed == CHOOSE M \in SUBSET Roles : Uniform(M)
<1>1. Managed \in SUBSET Roles /\ Uniform(Managed)
  BY DEF UniformRules
<1> HIDE DEF Managed
<1> DEFINE Inv == TypeInv /\ EntitledInv(Managed)
           Step == \A r \in Requests :
                     req[r] # None /\ req[r].pc = "commit" /\ rows' # rows /\ req'[r] = None =>
                        LET i == req[r].target IN
                        Authorized(req[r].action, rows[req[r].actor].role, rows[i].role, rows'[i].role)
<1>2. Init => Inv
  BY TypeInit, EntitledInit
<1>3. Inv /\ [Next]_vars => Inv'
  BY <1>1, TypeNext, EntitledNext
<1>4. Inv /\ [Next]_vars => Step
  BY <1>1, CommitsAlone, CommitAuthorized
<1>5. Inv /\ [Next]_vars => [Step]_vars
  BY <1>4
<1> QED BY <1>2, <1>3, <1>5, PTL DEF Spec, AuthorisedAtCommit

\* The rules of a configuration that gives none, and whose roles in the table
\* have none of their own, are uniform (config_schemas.py).
THEOREM DefaultRulesUniform ==
    ASSUME NEW AdminRole, AdminRole # UserRole, UserRole # "*",
           DefaultRules = [role \in {AdminRole} |->
                             [create |-> {UserRole}, update |-> {UserRole}, delete |-> {UserRole}]],
           \A role \in DOMAIN RoleTable : RoleTable[role] = None
    PROVE  UniformRules
<1>1. \A role : Rules(role) # None => role = AdminRole /\ Rules(role) = DefaultRules[AdminRole]
  BY DEF Rules
<1>2. {UserRole} \in SUBSET Roles /\ {UserRole} # {"*"} /\ AdminRole \notin {UserRole}
  BY HostAssumption
<1>3. DefaultRules[AdminRole]["update"] = {UserRole} /\ DefaultRules[AdminRole]["delete"] = {UserRole}
  OBVIOUS
<1> QED BY <1>1, <1>2, <1>3 DEF UniformRules, Uniform

=============================================================================
