----------------------------- MODULE ApiTokens ------------------------------
(***************************************************************************)
(* Opaque API tokens: rows of a table that usrak shares with the           *)
(* application.  Creation counts, then inserts; deletion reads, then       *)
(* commits; a request that presents a token is decided by one select made  *)
(* some time after it arrived.  Between two awaits the other requests, the *)
(* application and the clock move on.                                      *)
(*                                                                         *)
(* A key stands for a secret and the row that holds its hash.              *)
(* Definitions headed "Deviation" are not the code: each is a plausible    *)
(* mistake in the definition it precedes, which some property must refute. *)
(***************************************************************************)
EXTENDS Integers, FiniteSets

CONSTANTS
    Users,        \* owners
    Keys,         \* secrets that may be drawn, one per row (bounds the table)
    Addresses,    \* remote addresses
    Workers,      \* requests handled at the same time
    None,         \* no row, NULL expiry
    MaxTokens,    \* MAX_API_TOKENS_PER_USER
    Lifetimes,    \* expires_at values a client may ask for (past ones included)
    MaxTime       \* bound on the clock

KeyTypes == {"usrak", "application"}
Expiry == Nat \cup {None}
Row == [owner : Users, type : KeyTypes, deleted : BOOLEAN, expires : Expiry,
        allowed : SUBSET Addresses]

ASSUME NoneAssumption == None \notin Nat /\ None \notin Row /\ None \notin Users /\ None \notin Keys
ASSUME BoundsAssumption == MaxTokens \in Nat /\ MaxTime \in Nat /\ Lifetimes \subseteq Expiry
ASSUME FiniteAssumption == IsFiniteSet(Keys) /\ IsFiniteSet(Workers) /\ Workers # {}

VARIABLES
    rows,   \* the tokens table
    op,     \* requests in flight
    now     \* clock, in whole seconds

vars == <<rows, op, now>>

Idle == [pc |-> "idle", user |-> None, key |-> None, addr |-> {}, sound |-> FALSE]

-----------------------------------------------------------------------------
(* What the queries select.                                                *)

LiveKeys(u) ==
    {k \in Keys : rows[k] # None /\ rows[k].owner = u /\ rows[k].type = "usrak"
                                 /\ ~rows[k].deleted}

\* resolve_api_token_record: filters of the select, then expiry, then the
\* allowlist, an empty or NULL one admitting every address.
Valid(k, addr) ==
    /\ rows[k] # None /\ rows[k].type = "usrak" /\ ~rows[k].deleted
    /\ rows[k].expires = None \/ now < rows[k].expires
    /\ rows[k].allowed = {} \/ addr \cap rows[k].allowed # {}

-----------------------------------------------------------------------------
Init ==
    /\ rows = [k \in Keys |-> None]
    /\ op = [w \in Workers |-> Idle]
    /\ now = 0

\* Deviation: one key too many passes the count.
CreateCountOneMore(w, u) ==
    /\ op[w].pc = "idle"
    /\ Cardinality(LiveKeys(u)) <= MaxTokens
    /\ op' = [op EXCEPT ![w] = [Idle EXCEPT !.pc = "insert", !.user = u]]
    /\ UNCHANGED <<rows, now>>

\* POST /api-tokens counts first; at the limit the request is refused.  Keys
\* that have expired but were not deleted still count.
CreateCount(w, u) ==
    /\ op[w].pc = "idle"
    /\ Cardinality(LiveKeys(u)) < MaxTokens
    /\ op' = [op EXCEPT ![w] = [Idle EXCEPT !.pc = "insert", !.user = u]]
    /\ UNCHANGED <<rows, now>>

\* Deviation: the row is added under no owner.
CreateInsertOwnerless(w, k, expires, allowed) ==
    /\ op[w].pc = "insert"
    /\ rows[k] = None
    /\ rows' = [rows EXCEPT ![k] =
           [owner |-> None, type |-> "usrak", deleted |-> FALSE,
            expires |-> expires, allowed |-> allowed]]
    /\ op' = [op EXCEPT ![w] = Idle]
    /\ UNCHANGED now

\* Then a fresh secret is drawn and its row committed.
CreateInsert(w, k, expires, allowed) ==
    /\ op[w].pc = "insert"
    /\ rows[k] = None
    /\ rows' = [rows EXCEPT ![k] =
           [owner |-> op[w].user, type |-> "usrak", deleted |-> FALSE,
            expires |-> expires, allowed |-> allowed]]
    /\ op' = [op EXCEPT ![w] = Idle]
    /\ UNCHANGED now

\* Deviation: the row is looked up by its identifier alone.
DeleteReadAnyOwner(w, u, k) ==
    /\ op[w].pc = "idle"
    /\ rows[k] # None /\ rows[k].type = "usrak" /\ ~rows[k].deleted
    /\ op' = [op EXCEPT ![w] = [Idle EXCEPT !.pc = "delete", !.user = u, !.key = k]]
    /\ UNCHANGED <<rows, now>>

\* DELETE /api-tokens/{id} of user u selects the row among u's live keys.
DeleteRead(w, u, k) ==
    /\ op[w].pc = "idle"
    /\ k \in LiveKeys(u)
    /\ op' = [op EXCEPT ![w] = [Idle EXCEPT !.pc = "delete", !.user = u, !.key = k]]
    /\ UNCHANGED <<rows, now>>

DeleteCommit(w) ==
    /\ op[w].pc = "delete"
    /\ rows' = [rows EXCEPT ![op[w].key].deleted = TRUE]
    /\ op' = [op EXCEPT ![w] = Idle]
    /\ UNCHANGED now

\* A request arrives with a key in X-API-Key, from an address.  sound is
\* history: whether the key was good for that address at this moment.
Arrive(w, k, addr) ==
    /\ op[w].pc = "idle"
    /\ rows[k] # None
    /\ op' = [op EXCEPT ![w] =
           [pc |-> "lookup", user |-> None, key |-> k, addr |-> addr,
            sound |-> Valid(k, addr)]]
    /\ UNCHANGED <<rows, now>>

\* Deviation: the lookup admits a key in the very second it expires.
LookUpLate(w) ==
    LET k == op[w].key IN
    /\ op[w].pc = "lookup"
    /\ op' = [op EXCEPT ![w] =
           IF Valid(k, op[w].addr) \/ (~rows[k].deleted /\ rows[k].expires = now)
           THEN [@ EXCEPT !.pc = "admitted", !.user = rows[k].owner]
           ELSE Idle]
    /\ UNCHANGED <<rows, now>>

\* The select, and the checks on the row it returned, with no await between.
LookUp(w) ==
    /\ op[w].pc = "lookup"
    /\ op' = [op EXCEPT ![w] =
           IF Valid(op[w].key, op[w].addr)
           THEN [@ EXCEPT !.pc = "admitted", !.user = rows[op[w].key].owner]
           ELSE Idle]
    /\ UNCHANGED <<rows, now>>

\* The handler of the admitted request answers.
Answer(w) ==
    /\ op[w].pc = "admitted"
    /\ op' = [op EXCEPT ![w] = Idle]
    /\ UNCHANGED <<rows, now>>

\* A commit or a query that raises: the transaction is rolled back.  A lookup
\* that ends here also stands for an owner whose own row is refused.
Fail(w) ==
    /\ op[w].pc \in {"insert", "delete", "lookup"}
    /\ op' = [op EXCEPT ![w] = Idle]
    /\ UNCHANGED <<rows, now>>

-----------------------------------------------------------------------------
(* The application keeps tokens of its own types in the same table.        *)

AppInsert(k, u) ==
    /\ rows[k] = None
    /\ rows' = [rows EXCEPT ![k] =
           [owner |-> u, type |-> "application", deleted |-> FALSE,
            expires |-> None, allowed |-> {}]]
    /\ UNCHANGED <<op, now>>

AppRevoke(k) ==
    /\ rows[k] # None /\ rows[k].type = "application" /\ ~rows[k].deleted
    /\ rows' = [rows EXCEPT ![k].deleted = TRUE]
    /\ UNCHANGED <<op, now>>

Tick ==
    /\ now < MaxTime
    /\ now' = now + 1
    /\ UNCHANGED <<rows, op>>

Next ==
    \/ \E w \in Workers :
           \/ \E u \in Users : CreateCount(w, u) \/ \E k \in Keys : DeleteRead(w, u, k)
           \/ \E k \in Keys, expires \in Lifetimes, allowed \in SUBSET Addresses :
                  CreateInsert(w, k, expires, allowed)
           \/ \E k \in Keys, a \in Addresses : Arrive(w, k, {a})
           \/ DeleteCommit(w) \/ LookUp(w) \/ Answer(w) \/ Fail(w)
    \/ \E k \in Keys : AppRevoke(k) \/ \E u \in Users : AppInsert(k, u)
    \/ Tick

Spec == Init /\ [][Next]_vars

-----------------------------------------------------------------------------
(* Properties.                                                             *)

RequestType ==
    [pc : {"idle", "insert", "delete", "lookup", "admitted"},
     user : Users \cup {None}, key : Keys \cup {None},
     addr : SUBSET Addresses, sound : BOOLEAN]

\* The shape of the state.
TypeOK ==
    /\ rows \in [Keys -> Row \cup {None}]
    /\ op \in [Workers -> RequestType]
    /\ now \in Nat

\* Requests that have passed the count for u and not inserted yet.
Inserting(u) == {w \in Workers : op[w].pc = "insert" /\ op[w].user = u}

\* The limit on keys per user can be passed only by creations in flight at the
\* same time: an owner never has more than one key over it per other worker,
\* in any order of creations, deletions and failures.
QuotaOvershootBounded ==
    \A u \in Users : Cardinality(LiveKeys(u)) + 1 <= MaxTokens + Cardinality(Workers)

\* An owner never has more live keys than the limit.
QuotaKept == \A u \in Users : Cardinality(LiveKeys(u)) <= MaxTokens

\* A request is admitted only if its key was good for its address already when
\* the request arrived: a revocation or an expiry that precedes the request is
\* never missed, however late the select runs.
AdmittedOnlyIfUsable == \A w \in Workers : op[w].pc = "admitted" => op[w].sound

\* A row only ever changes by being soft-deleted: a usrak key by a request
\* that its owner made, an application token by no request of usrak.
OnlyOwnerRevokes ==
    [][\A k \in Keys : rows[k] # None /\ rows'[k] # rows[k] =>
           /\ rows'[k] = [rows[k] EXCEPT !.deleted = TRUE]
           /\ IF rows[k].type = "usrak"
              THEN \E w \in Workers : /\ op[w].pc = "delete" /\ op[w].key = k
                                      /\ op[w].user = rows[k].owner /\ op'[w] = Idle
              ELSE op' = op]_vars

=============================================================================
