------------------------------- MODULE Accounts -------------------------------
(***************************************************************************)
(* Where accounts come from and who may change them: sign-up by e-mail,    *)
(* Google and Telegram, sign-in, and the administrator's routes with the   *)
(* policy they consult.                                                    *)
(*                                                                         *)
(* A request reads, decides, and commits later; others go on in between.   *)
(* What a route refuses changes nothing and is no step.  Tokens and        *)
(* passwords are the subject of Sessions.                                  *)
(***************************************************************************)
EXTENDS Integers, FiniteSets

CONSTANTS
    Ids, Emails,       \* row identifiers, canonical (lower case) addresses
    ExternalIds,       \* Telegram identities
    None, Null,        \* nothing; the role column holding NULL
    Roles,             \* role names that may be asked for
    DefaultRoles,      \* values of DEFAULT_ROLES_ENUM
    UserRole,          \* its USER member
    RoleTable,         \* rows of ROLE_MODEL: name -> rules or None
    DefaultRules,      \* DEFAULT_USER_MANAGEMENT_RULES: name -> rules
    HostRows,          \* rows the host application made: id -> row
    Payloads,          \* bodies of PATCH: functions of the columns they set
    AutoVerify,        \* AUTO_VERIFY_USER_ON_SIGNUP_IF_CODES_DISABLED, and links off
    Requests           \* requests at a time

\* RouterConfig's validators: the default roles have a member USER,
\* and the default rules are of default roles and reach default roles only.
\* The rules of RoleTable are nobody's to check.
ValidRules(rules) ==
    /\ DOMAIN rules \subseteq DefaultRoles
    /\ \A role \in DOMAIN rules, action \in {"create", "update", "delete"} :
          rules[role][action] = {"*"} \/ rules[role][action] \subseteq DefaultRoles

ASSUME ConfigAssumption ==
    /\ UserRole \in DefaultRoles
    /\ ValidRules(DefaultRules)

Providers == {"email", "google", "telegram"}
Columns == {"email", "ext", "role", "active", "verified"}
Row == [email : Emails, ext : ExternalIds \cup {None}, provider : Providers,
        role : Roles \cup {Null}, active : BOOLEAN, verified : BOOLEAN]

\* What a request may ask of a row: values for some of its columns.
Changes == {[c \in cs |-> row[c]] : cs \in SUBSET Columns, row \in Row}

\* What a request under way holds: the actor as loaded, the row to insert, or
\* the columns to write.
Actors == [pc : {"acting"}, actor : Ids, role : Roles \cup {Null}]
Inserts == [pc : {"insert"}, row : Row, by : {"signup", "admin", "google"}]
Commits == [pc : {"commit"}, actor : Ids, target : Ids, action : {"update", "delete"}, set : Changes]

ASSUME AbsenceAssumption ==
    /\ None \notin Row /\ None \notin Actors /\ None \notin Inserts /\ None \notin Commits
    /\ None \notin {"host", "signup", "admin", "google"} /\ Null \notin Roles
\* AdminUserUpdate refuses a role that is null.
ASSUME HostAssumption ==
    /\ AutoVerify \in BOOLEAN
    /\ DOMAIN HostRows \subseteq Ids /\ \A i \in DOMAIN HostRows : HostRows[i] \in Row
    /\ Payloads \subseteq Changes /\ UserRole \in Roles
    /\ \A set \in Payloads : "role" \in DOMAIN set => set.role # Null

VARIABLES
    rows,      \* the users table
    made,      \* history: who made a row
    sessions,  \* <<row, provider>>: sessions that were granted
    req        \* requests between their reads and their commit

vars == <<rows, made, sessions, req>>

TypeOK ==
    /\ rows \in [Ids -> Row \cup {None}]
    /\ made \in [Ids -> {"host", "signup", "admin", "google", None}]
    /\ \A i \in Ids : rows[i] = None <=> made[i] = None
    /\ sessions \subseteq Ids \X Providers
    /\ req \in [Requests -> Actors \cup Inserts \cup Commits \cup {None}]
    /\ \A r \in Requests : req[r] # None =>
          /\ req[r].pc = "acting" => rows[req[r].actor] # None
          /\ req[r].pc = "commit" => rows[req[r].target] # None

Init ==
    /\ rows = [i \in Ids |-> IF i \in DOMAIN HostRows THEN HostRows[i] ELSE None]
    /\ made = [i \in Ids |-> IF i \in DOMAIN HostRows THEN "host" ELSE None]
    /\ sessions = {}
    /\ req = [r \in Requests |-> None]

Goto(r, rec) == req' = [req EXCEPT ![r] = rec]
Grant(i, provider) == sessions' = sessions \cup {<<i, provider>>}
With(email) == {i \in Ids : rows[i] # None /\ rows[i].email = email}

-----------------------------------------------------------------------------
\* The policy.
Known(role) == role \in DefaultRoles \cup DOMAIN RoleTable

\* The role's own rules come before the defaults; without either, none.
Rules(role) ==
    IF role \in DOMAIN RoleTable /\ RoleTable[role] # None THEN RoleTable[role]
    ELSE IF role \in DOMAIN DefaultRules THEN DefaultRules[role] ELSE None

\* Targets are a set of role names, or the wildcard.
\* Deviation: a role without rules is not restricted.
ReachesUnruled(actorRole, action, role) ==
    Rules(actorRole) # None =>
        LET targets == Rules(actorRole)[action] IN targets = {"*"} \/ role \in targets
Reaches(actorRole, action, role) ==
    /\ Rules(actorRole) # None
    /\ LET targets == Rules(actorRole)[action] IN targets = {"*"} \/ role \in targets

\* current and new are the target's roles, or Null.
Authorized(action, actorRole, current, new) ==
    /\ Known(actorRole)
    /\ current # Null => Known(current)
    /\ new # Null => Known(new)
    /\ IF action = "create" THEN new # Null /\ Reaches(actorRole, action, new)
       ELSE /\ current # Null
            /\ Reaches(actorRole, action, current)
            /\ action = "update" /\ new \notin {Null, current} => Reaches(actorRole, action, new)

-----------------------------------------------------------------------------
\* Sign-up by e-mail, by the user or by an administrator: the address must be
\* new.  The row is inserted later.
NewRow(email, ext, provider, role, enabled) ==
    [email |-> email, ext |-> ext, provider |-> provider, role |-> role,
     active |-> enabled, verified |-> enabled]
Propose(r, row, by) ==
    /\ With(row.email) = {}
    /\ Goto(r, [pc |-> "insert", row |-> row, by |-> by])
    /\ UNCHANGED <<rows, made, sessions>>

\* The route leaves the role to the manager's default, which is NULL, and so is
\* is_active to FALSE, whatever AutoVerify says.
SignUp(r, email, ext) ==
    req[r] = None /\ Propose(r, NewRow(email, ext, "email", Null, FALSE), "signup")

\* /signup/send_link and /signup/verify build their manager without its other
\* managers; the first reads a field its input lacks, the second does not await
\* its lookup.  Both fail before they touch a row.
VerifyLink(email) == With(email) # {} /\ UNCHANGED vars

\* The unique index on the address decides.  Google goes on to a session.
Insert(r) ==
    /\ req[r] # None /\ req[r].pc = "insert"
    /\ LET row == req[r].row IN
       \/ With(row.email) # {} /\ UNCHANGED <<rows, made, sessions>>
       \/ /\ With(row.email) = {}
          /\ \E i \in Ids :
                /\ rows[i] = None
                /\ rows' = [rows EXCEPT ![i] = row]
                /\ made' = [made EXCEPT ![i] = req[r].by]
                /\ IF row.provider = "google" THEN Grant(i, "google") ELSE UNCHANGED sessions
    /\ Goto(r, None)

-----------------------------------------------------------------------------
\* The other ways in.  Google is looked up by the address as Google spells it,
\* while the row keeps the canonical one.
Google(r, email, canonical) ==
    /\ req[r] = None
    /\ LET found == IF canonical THEN With(email) ELSE {} IN
       \/ /\ found = {}
          /\ Goto(r, [pc |-> "insert", row |-> NewRow(email, None, "google", UserRole, TRUE),
                     by |-> "google"])
          /\ UNCHANGED <<rows, made, sessions>>
       \/ /\ \E i \in found : rows[i].active /\ rows[i].provider = "google" /\ Grant(i, "google")
          /\ UNCHANGED <<rows, made, req>>

\* A Telegram identity without a row gets none: the new row is built from the
\* lookup's empty result, which fails.
Telegram(x) ==
    /\ \E i \in Ids :
          /\ rows[i] # None /\ rows[i].ext = x
          /\ rows[i].provider = "telegram" /\ rows[i].active
          /\ Grant(i, "telegram")
    /\ UNCHANGED <<rows, made, req>>

\* Deviation: any account signs in by address and password.
LoginAnyProvider(email) ==
    /\ \E i \in With(email) : rows[i].verified /\ rows[i].active /\ Grant(i, "email")
    /\ UNCHANGED <<rows, made, req>>
\* With the right password.
Login(email) ==
    /\ \E i \in With(email) :
          /\ rows[i].provider = "email" /\ rows[i].verified /\ rows[i].active
          /\ Grant(i, "email")
    /\ UNCHANGED <<rows, made, req>>

-----------------------------------------------------------------------------
\* The administrator's routes.  Whoever has a session may try: the dependency
\* asks for no role, and for no active account.
Act(r, i) ==
    /\ req[r] = None
    /\ \E provider \in Providers : <<i, provider>> \in sessions
    /\ Goto(r, [pc |-> "acting", actor |-> i, role |-> rows[i].role])
    /\ UNCHANGED <<rows, made, sessions>>

Acting(r) == req[r] # None /\ req[r].pc = "acting"

\* A body without a role asks for the USER member of the enum.
AdminCreate(r, email, ext, role) ==
    /\ Acting(r)
    /\ Authorized("create", req[r].role, Null, role)
    /\ Propose(r, NewRow(email, ext, "email", role, TRUE), "admin")

\* A session loads a row once: whoever acts on themselves is judged by the role
\* they had when the request began.
Loaded(r, target) ==
    IF target = req[r].actor THEN [rows[target] EXCEPT !.role = req[r].role] ELSE rows[target]

\* The commit will write the columns that differ from what was loaded.
Manage(r, action, target, set) ==
    /\ Acting(r) /\ rows[target] # None
    /\ LET row == Loaded(r, target)
           new == IF "role" \in DOMAIN set THEN set.role ELSE Null
           changed == {c \in DOMAIN set : set[c] # row[c]}
       IN /\ Authorized(action, req[r].role, row.role, new)
          /\ Goto(r, [pc |-> "commit", actor |-> req[r].actor, target |-> target,
                     action |-> action, set |-> [c \in changed |-> set[c]]])
    /\ UNCHANGED <<rows, made, sessions>>

AdminUpdate(r, target, set) == Manage(r, "update", target, set)
\* Deviation: the row is deleted.
AdminDeleteRow(r, target) ==
    /\ Acting(r) /\ rows[target] # None
    /\ Authorized("delete", req[r].role, Loaded(r, target).role, Null)
    /\ rows' = [rows EXCEPT ![target] = None]
    /\ Goto(r, None) /\ UNCHANGED <<made, sessions>>
AdminDelete(r, target) == Manage(r, "delete", target, [active |-> FALSE])

Commit(r) ==
    /\ req[r] # None /\ req[r].pc = "commit"
    /\ LET i == req[r].target
           set == req[r].set
           row == [c \in DOMAIN rows[i] |-> IF c \in DOMAIN set THEN set[c] ELSE rows[i][c]]
       IN \/ With(row.email) \ {i} # {} /\ UNCHANGED rows
          \/ With(row.email) \subseteq {i} /\ rows' = [rows EXCEPT ![i] = row]
    /\ Goto(r, None)
    /\ UNCHANGED <<made, sessions>>

\* A request that fails or is cancelled before its commit.
Abandon(r) == req[r] # None /\ Goto(r, None) /\ UNCHANGED <<rows, made, sessions>>

Next ==
    \/ \E r \in Requests :
          \/ \E email \in Emails, ext \in ExternalIds \cup {None} : SignUp(r, email, ext)
          \/ \E email \in Emails, canonical \in BOOLEAN : Google(r, email, canonical)
          \/ \E i \in Ids : Act(r, i)
          \/ \E email \in Emails, ext \in ExternalIds \cup {None}, role \in Roles :
                AdminCreate(r, email, ext, role)
          \/ \E i \in Ids, set \in Payloads : AdminUpdate(r, i, set)
          \/ \E i \in Ids : AdminDelete(r, i)
          \/ Insert(r) \/ Commit(r) \/ Abandon(r)
    \/ \E email \in Emails : Login(email) \/ VerifyLink(email)
    \/ \E x \in ExternalIds : Telegram(x)

\* A request under way goes on, and who has a link uses it.
Fairness ==
    /\ \A r \in Requests : WF_vars(Insert(r)) /\ WF_vars(Commit(r))
    /\ \A email \in Emails : WF_vars(VerifyLink(email))

Spec == Init /\ [][Next]_vars /\ Fairness

-----------------------------------------------------------------------------
\* Every role that manages others manages the same ones, and none of those does.
\* The rules a configuration gets without asking for any are of this kind.
Uniform(Managed) ==
    /\ Managed # {"*"}
    /\ \A role \in Roles \cup {Null} : Rules(role) # None =>
          /\ role \notin Managed
          /\ Rules(role)["update"] = Managed /\ Rules(role)["delete"] = Managed
UniformRules == \E Managed \in SUBSET Roles : Uniform(Managed)

\* Nobody changes an account but someone whom the rules, at the moment of the
\* change, let manage both the role the account has and the one it gets.  The
\* routes read both roles long before they commit; that this does no harm needs
\* rules like UniformRules.
AuthorisedAtCommit ==
    [][\A r \in Requests :
          req[r] # None /\ req[r].pc = "commit" /\ rows' # rows /\ req'[r] = None =>
             LET i == req[r].target IN
             Authorized(req[r].action, rows[req[r].actor].role, rows[i].role, rows'[i].role)]_vars

\* Whoever holds a session came through the provider the account belongs to,
\* although addresses and external identities change hands between accounts.
GrantedToOwner == \A s \in sessions : rows[s[1]] # None /\ rows[s[1]].provider = s[2]

\* With the flag, whoever signs up is active at once.
AutoVerified ==
    [][\A i \in Ids :
          AutoVerify /\ made[i] = None /\ made'[i] = "signup" => rows'[i].active]_vars

\* The link verifies: an account its user registered is verified in the end.
LinkVerifies == \A i \in Ids : made[i] = "signup" ~> made[i] = "signup" /\ rows[i].verified
=============================================================================
