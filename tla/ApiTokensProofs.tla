-------------------------- MODULE ApiTokensProofs ---------------------------
(***************************************************************************)
(* Proofs about ApiTokens: every safety property the model-checking runs   *)
(* check, for any number of users, keys, addresses and workers.            *)
(*                                                                         *)
(* Pending says what a request in flight may rely on: the row it refers to *)
(* is there and, for a deletion, is a usrak key of the requesting user.    *)
(* That is inductive because rows are never removed, and a row never       *)
(* changes hands: every other argument below starts from it.               *)
(***************************************************************************)
EXTENDS ApiTokens, FiniteSetTheorems, TLAPS

\* What each request in flight has established before its last await.
Pending ==
    \A w \in Workers :
        /\ op[w].pc = "insert" => op[w].user \in Users
        /\ op[w].pc \in {"delete", "lookup"} =>
               op[w].key \in Keys /\ rows[op[w].key] # None
        /\ op[w].pc = "delete" =>
               /\ rows[op[w].key].owner = op[w].user
               /\ rows[op[w].key].type = "usrak"

TypeInv == TypeOK /\ Pending

\* One step of one worker, by action.
WorkerStep(w) ==
    \/ \E u \in Users : CreateCount(w, u)
    \/ \E u \in Users, k \in Keys : DeleteRead(w, u, k)
    \/ \E k \in Keys, expires \in Lifetimes, allowed \in SUBSET Addresses :
           CreateInsert(w, k, expires, allowed)
    \/ \E k \in Keys, a \in Addresses : Arrive(w, k, {a})
    \/ DeleteCommit(w) \/ LookUp(w) \/ Answer(w) \/ Fail(w)

\* A step is one of a worker, of the application or of the clock.
LEMMA StepKinds ==
    Next <=> \/ \E w \in Workers : WorkerStep(w)
             \/ \E k \in Keys : AppRevoke(k) \/ \E u \in Users : AppInsert(k, u)
             \/ Tick
  BY DEF Next, WorkerStep

\* The idle request is well formed.
LEMMA IdleType == Idle \in RequestType
  BY NoneAssumption DEF Idle, RequestType

\* No key and no request exist at first.
LEMMA TypeInit == Init => TypeInv
  BY IdleType DEF Init, TypeInv, TypeOK, Pending, Idle

\* Every step keeps the types and what the requests in flight rely on.
LEMMA TypeNext == TypeInv /\ [Next]_vars => TypeInv'
<1> SUFFICES ASSUME TypeInv, [Next]_vars PROVE TypeInv'
  OBVIOUS
<1> USE DEF TypeInv, TypeOK
<1>0. Idle \in RequestType /\ Idle.pc = "idle"
  BY IdleType DEF Idle
<1>1. CASE UNCHANGED vars
  BY <1>1 DEF vars, Pending
<1>2. ASSUME NEW w \in Workers, NEW u \in Users, CreateCount(w, u) PROVE TypeInv'
  <2>1. [Idle EXCEPT !.pc = "insert", !.user = u] \in RequestType
    BY NoneAssumption DEF Idle, RequestType
  <2> QED
    BY <1>2, <2>1 DEF CreateCount, Pending, Idle
<1>3. ASSUME NEW w \in Workers, NEW u \in Users, NEW k \in Keys, DeleteRead(w, u, k)
      PROVE TypeInv'
  <2>1. [Idle EXCEPT !.pc = "delete", !.user = u, !.key = k] \in RequestType
    BY NoneAssumption DEF Idle, RequestType
  <2> QED
    BY <1>3, <2>1 DEF DeleteRead, LiveKeys, Pending, Idle
<1>4. ASSUME NEW w \in Workers, NEW k \in Keys, NEW expires \in Lifetimes,
             NEW allowed \in SUBSET Addresses, CreateInsert(w, k, expires, allowed)
      PROVE TypeInv'
  <2> DEFINE row == [owner |-> op[w].user, type |-> "usrak", deleted |-> FALSE,
                     expires |-> expires, allowed |-> allowed]
  <2>1. op[w].user \in Users /\ rows[k] = None
    BY <1>4 DEF CreateInsert, Pending
  <2>2. row \in Row
    BY <2>1, BoundsAssumption DEF Row, KeyTypes
  <2> HIDE DEF row
  <2>3. rows' = [rows EXCEPT ![k] = row] /\ op' = [op EXCEPT ![w] = Idle] /\ now' = now
    BY <1>4 DEF CreateInsert, row
  <2>4. TypeOK'
    BY <1>0, <2>2, <2>3
  <2>5. Pending'
    BY <1>0, <2>1, <2>2, <2>3, NoneAssumption DEF Pending
  <2> QED
    BY <2>4, <2>5
<1>5. ASSUME NEW w \in Workers, NEW k \in Keys, NEW a \in Addresses, Arrive(w, k, {a})
      PROVE TypeInv'
  <2> DEFINE q == [pc |-> "lookup", user |-> None, key |-> k, addr |-> {a},
                   sound |-> Valid(k, {a})]
  <2>0. Valid(k, {a}) \in BOOLEAN
    BY DEF Valid
  <2>1. q \in RequestType /\ q.pc = "lookup" /\ q.key = k
    BY <2>0 DEF RequestType
  <2> HIDE DEF q
  <2>2. op' = [op EXCEPT ![w] = q] /\ rows' = rows /\ now' = now /\ rows[k] # None
    BY <1>5 DEF Arrive, q
  <2> QED
    BY <2>1, <2>2 DEF Pending
<1>6. ASSUME NEW w \in Workers, DeleteCommit(w) PROVE TypeInv'
  <2> DEFINE k == op[w].key
  <2>1. k \in Keys /\ rows[k] \in Row
    BY <1>6 DEF DeleteCommit, Pending
  <2>2. [rows[k] EXCEPT !.deleted = TRUE] \in Row
    BY <2>1 DEF Row
  <2>3. rows' = [rows EXCEPT ![k] = [rows[k] EXCEPT !.deleted = TRUE]]
        /\ op' = [op EXCEPT ![w] = Idle] /\ now' = now
    BY <1>6, <2>1 DEF DeleteCommit
  <2>4. TypeOK'
    BY <1>0, <2>1, <2>2, <2>3
  <2>5. Pending'
    BY <1>0, <2>1, <2>2, <2>3, NoneAssumption DEF Pending, Row
  <2> QED
    BY <2>4, <2>5
<1>7. ASSUME NEW w \in Workers, LookUp(w) PROVE TypeInv'
  <2>1. rows[op[w].key] \in Row
    BY <1>7 DEF LookUp, Pending
  <2>2. [op[w] EXCEPT !.pc = "admitted", !.user = rows[op[w].key].owner] \in RequestType
    BY <2>1 DEF Row, RequestType
  <2> QED
    BY <1>0, <1>7, <2>2 DEF LookUp, Pending
<1>8. ASSUME NEW w \in Workers, Answer(w) \/ Fail(w) PROVE TypeInv'
  BY <1>0, <1>8 DEF Answer, Fail, Pending
<1>9. ASSUME NEW k \in Keys, NEW u \in Users, AppInsert(k, u) PROVE TypeInv'
  <2> DEFINE row == [owner |-> u, type |-> "application", deleted |-> FALSE,
                     expires |-> None, allowed |-> {}]
  <2>1. row \in Row
    BY DEF Row, KeyTypes, Expiry
  <2> HIDE DEF row
  <2>2. rows[k] = None /\ rows' = [rows EXCEPT ![k] = row] /\ op' = op /\ now' = now
    BY <1>9 DEF AppInsert, row
  <2> QED
    BY <2>1, <2>2, NoneAssumption DEF Pending
<1>10. ASSUME NEW k \in Keys, AppRevoke(k) PROVE TypeInv'
  <2>1. rows[k] \in Row /\ [rows[k] EXCEPT !.deleted = TRUE] \in Row
    BY <1>10 DEF AppRevoke, Row
  <2>2. rows' = [rows EXCEPT ![k] = [rows[k] EXCEPT !.deleted = TRUE]]
        /\ op' = op /\ now' = now
    BY <1>10 DEF AppRevoke
  <2> QED
    BY <2>1, <2>2, NoneAssumption DEF Pending, Row
<1>11. CASE Tick
  BY <1>11 DEF Tick, Pending
<1> QED
  BY <1>1, <1>2, <1>3, <1>4, <1>5, <1>6, <1>7, <1>8, <1>9, <1>10, <1>11, StepKinds
     DEF WorkerStep

\* The state always has its shape, and requests in flight rely on what holds.
THEOREM TypeCorrect == Spec => []TypeOK
<1>1. TypeInv => TypeOK
  BY DEF TypeInv
<1> QED
  BY TypeInit, TypeNext, <1>1, PTL DEF Spec

-----------------------------------------------------------------------------
(* Rows: a row appears once, and then only its deleted flag changes.       *)

\* What a step may do to the table, and who does it.
LEMMA RowStep ==
  ASSUME TypeInv, [Next]_vars, NEW k \in Keys, rows[k] # None
  PROVE  \/ rows'[k] = rows[k]
         \/ /\ rows'[k] = [rows[k] EXCEPT !.deleted = TRUE]
            /\ IF rows[k].type = "usrak"
               THEN \E w \in Workers : /\ op[w].pc = "delete" /\ op[w].key = k
                                       /\ op[w].user = rows[k].owner /\ op'[w] = Idle
               ELSE op' = op
<1> USE DEF TypeInv, TypeOK
<1>1. CASE UNCHANGED vars
  BY <1>1 DEF vars
<1>2. ASSUME NEW w \in Workers, WorkerStep(w), ~DeleteCommit(w) PROVE rows'[k] = rows[k]
  BY <1>2 DEF WorkerStep, CreateCount, DeleteRead, CreateInsert, Arrive, LookUp,
              Answer, Fail
<1>3. ASSUME NEW w \in Workers, DeleteCommit(w), rows'[k] # rows[k]
      PROVE  /\ rows'[k] = [rows[k] EXCEPT !.deleted = TRUE]
             /\ rows[k].type = "usrak"
             /\ op[w].pc = "delete" /\ op[w].key = k
             /\ op[w].user = rows[k].owner /\ op'[w] = Idle
  BY <1>3 DEF DeleteCommit, Pending
<1>4. ASSUME NEW j \in Keys, AppRevoke(j), rows'[k] # rows[k]
      PROVE  /\ rows'[k] = [rows[k] EXCEPT !.deleted = TRUE]
             /\ rows[k].type # "usrak" /\ op' = op
  BY <1>4 DEF AppRevoke
<1>5. ASSUME NEW j \in Keys, NEW u \in Users, AppInsert(j, u) PROVE rows'[k] = rows[k]
  BY <1>5 DEF AppInsert
<1>6. CASE Tick
  BY <1>6 DEF Tick
<1> QED
  BY <1>1, <1>2, <1>3, <1>4, <1>5, <1>6, StepKinds

\* Nobody but its owner revokes a usrak key, no request of usrak touches the
\* application's tokens, and no row changes otherwise.
THEOREM OwnershipCorrect == Spec => OnlyOwnerRevokes
<1>1. TypeInv /\ [Next]_vars =>
        [\A k \in Keys : rows[k] # None /\ rows'[k] # rows[k] =>
           /\ rows'[k] = [rows[k] EXCEPT !.deleted = TRUE]
           /\ IF rows[k].type = "usrak"
              THEN \E w \in Workers : /\ op[w].pc = "delete" /\ op[w].key = k
                                      /\ op[w].user = rows[k].owner /\ op'[w] = Idle
              ELSE op' = op]_vars
  BY RowStep
<1> QED
  BY TypeInit, TypeNext, <1>1, PTL DEF Spec, OnlyOwnerRevokes

-----------------------------------------------------------------------------
(* Admission.                                                              *)

\* A request whose key is still good when the select runs had a good key when
\* it arrived: a key that is not good never becomes good again.
Soundness ==
    \A w \in Workers :
        /\ op[w].pc = "lookup" /\ Valid(op[w].key, op[w].addr) => op[w].sound
        /\ op[w].pc = "admitted" => op[w].sound

\* Once a row exists, a key that is good after a step was good before it.
LEMMA ValidOnlyFades ==
  ASSUME TypeInv, [Next]_vars, NEW k \in Keys, NEW addr, rows[k] # None,
         rows'[k].type = "usrak", ~rows'[k].deleted,
         rows'[k].expires = None \/ now' < rows'[k].expires,
         rows'[k].allowed = {} \/ addr \cap rows'[k].allowed # {}
  PROVE  Valid(k, addr)
<1>1. now' \in Nat /\ now \in Nat /\ now <= now'
  <2>1. now' = now \/ now' = now + 1
    BY DEF Next, vars, CreateCount, DeleteRead, CreateInsert, Arrive, DeleteCommit,
           LookUp, Answer, Fail, AppInsert, AppRevoke, Tick
  <2> QED
    BY <2>1 DEF TypeInv, TypeOK
<1>2. rows[k] \in Row
  BY DEF TypeInv, TypeOK
<1>3. CASE rows'[k] = rows[k]
  <2>1. rows[k].expires = None \/ now < rows[k].expires
    <3>1. rows[k].expires \in Nat \/ rows[k].expires = None
      BY <1>2 DEF Row, Expiry
    <3>2. rows[k].expires = None \/ now' < rows[k].expires
      BY <1>3
    <3> QED
      BY <1>1, <3>1, <3>2
  <2> QED
    BY <1>3, <2>1 DEF Valid
<1>4. CASE rows'[k] = [rows[k] EXCEPT !.deleted = TRUE]
  BY <1>2, <1>4 DEF Row
<1> QED
  BY <1>3, <1>4, RowStep

\* Every step keeps the requests sound.
LEMMA SoundnessNext == TypeInv /\ Soundness /\ [Next]_vars => Soundness'
<1> SUFFICES ASSUME TypeInv, Soundness, [Next]_vars, NEW v \in Workers
             PROVE  /\ op'[v].pc = "lookup" /\ Valid(op[v].key, op[v].addr)'
                           => op'[v].sound
                    /\ op'[v].pc = "admitted" => op'[v].sound
  BY DEF Soundness
<1> USE DEF TypeInv, TypeOK
<1>0. Idle.pc = "idle"
  BY DEF Idle
<1>1. CASE op'[v] = op[v]
  <2>1. ASSUME op[v].pc = "lookup" PROVE op[v].key \in Keys /\ rows[op[v].key] # None
    BY <2>1 DEF Pending
  <2> QED
    BY <1>1, <2>1, ValidOnlyFades DEF Soundness, Valid
<1>2. CASE op'[v].pc \notin {"lookup", "admitted"}
  BY <1>2
<1>3. ASSUME NEW k \in Keys, NEW a \in Addresses, Arrive(v, k, {a})
      PROVE op'[v].pc = "lookup" /\ (Valid(op[v].key, op[v].addr)' => op'[v].sound)
  <2>1. /\ op'[v].pc = "lookup" /\ op'[v].key = k /\ op'[v].addr = {a}
        /\ op'[v].sound = Valid(k, {a}) /\ rows[k] # None
    BY <1>3 DEF Arrive
  <2> QED
    BY <2>1, ValidOnlyFades DEF Valid
<1>4. ASSUME LookUp(v) PROVE \/ op'[v] = Idle
                             \/ op'[v].pc = "admitted" /\ op'[v].sound
  <2>1. op[v] \in RequestType
    OBVIOUS
  <2>2. CASE Valid(op[v].key, op[v].addr)
    <3>1. op[v].sound
      BY <1>4, <2>2 DEF LookUp, Soundness
    <3> QED
      BY <1>4, <2>1, <2>2, <3>1 DEF LookUp, RequestType
  <2>3. CASE ~Valid(op[v].key, op[v].addr)
    BY <1>4, <2>3 DEF LookUp
  <2> QED
    BY <2>2, <2>3
<1>5. ASSUME NEW w \in Workers, WorkerStep(w), w # v PROVE op'[v] = op[v]
  BY <1>5 DEF WorkerStep, CreateCount, DeleteRead, CreateInsert, Arrive, LookUp,
              DeleteCommit, Answer, Fail
<1>6. ASSUME WorkerStep(v), ~LookUp(v),
             ~\E k \in Keys, a \in Addresses : Arrive(v, k, {a})
      PROVE op'[v].pc \in {"insert", "delete", "idle"}
  BY <1>0, <1>6 DEF WorkerStep, CreateCount, DeleteRead, CreateInsert, DeleteCommit,
                    Answer, Fail, Idle
<1>7. ASSUME \/ \E k \in Keys : AppRevoke(k) \/ \E u \in Users : AppInsert(k, u)
             \/ Tick \/ UNCHANGED vars
      PROVE op'[v] = op[v]
  BY <1>7 DEF AppRevoke, AppInsert, Tick, vars
<1> QED
  BY <1>0, <1>1, <1>2, <1>3, <1>4, <1>5, <1>6, <1>7, StepKinds

\* No request is admitted with a key that was not good for its address when
\* the request arrived.
THEOREM AdmissionCorrect == Spec => []AdmittedOnlyIfUsable
<1>1. Init => Soundness
  BY DEF Init, Idle, Soundness
<1>2. Soundness => AdmittedOnlyIfUsable
  BY DEF Soundness, AdmittedOnlyIfUsable
<1> QED
  BY TypeInit, TypeNext, SoundnessNext, <1>1, <1>2, PTL DEF Spec

-----------------------------------------------------------------------------
(* The limit on keys.                                                      *)

\* A creation in flight has claimed a place the count does not show; the
\* worker about to count is not among those in flight.
Quota(u) ==
    Cardinality(LiveKeys(u)) + Cardinality(Inserting(u)) + 1
        <= MaxTokens + Cardinality(Workers)

\* Both sets are finite, so their sizes are numbers.
LEMMA QuotaSets ==
  ASSUME NEW u \in Users
  PROVE  /\ IsFiniteSet(LiveKeys(u)) /\ Cardinality(LiveKeys(u)) \in Nat
         /\ IsFiniteSet(Inserting(u)) /\ Cardinality(Inserting(u)) \in Nat
         /\ IsFiniteSet(LiveKeys(u)') /\ Cardinality(LiveKeys(u)') \in Nat
         /\ IsFiniteSet(Inserting(u)') /\ Cardinality(Inserting(u)') \in Nat
         /\ Cardinality(Workers) \in Nat /\ MaxTokens \in Nat
<1>1. /\ LiveKeys(u) \in SUBSET Keys /\ LiveKeys(u)' \in SUBSET Keys
      /\ Inserting(u) \in SUBSET Workers /\ Inserting(u)' \in SUBSET Workers
  BY DEF LiveKeys, Inserting
<1> QED
  BY <1>1, FS_Subset, FS_CardinalityType, FiniteAssumption, BoundsAssumption

\* A step that adds neither a key nor a creation of u keeps the bound.
LEMMA QuotaShrinks ==
  ASSUME NEW u \in Users, Quota(u),
         LiveKeys(u)' \subseteq LiveKeys(u), Inserting(u)' \subseteq Inserting(u)
  PROVE  Quota(u)'
<1>1. /\ Cardinality(LiveKeys(u)') <= Cardinality(LiveKeys(u))
      /\ Cardinality(Inserting(u)') <= Cardinality(Inserting(u))
  BY QuotaSets, FS_Subset
<1> QED
  BY <1>1, QuotaSets DEF Quota

\* The count passed below the limit, and the worker was in no creation.
LEMMA QuotaCount ==
  ASSUME TypeInv, NEW u \in Users, NEW w \in Workers, CreateCount(w, u)
  PROVE  Quota(u)'
<1> USE DEF TypeInv, TypeOK
<1>1. LiveKeys(u)' = LiveKeys(u) /\ Cardinality(LiveKeys(u)) + 1 <= MaxTokens
  <2>1. LiveKeys(u)' = LiveKeys(u) /\ Cardinality(LiveKeys(u)) < MaxTokens
    BY DEF CreateCount, LiveKeys
  <2> QED
    BY <2>1, QuotaSets
<1>2. Cardinality(Inserting(u)') <= Cardinality(Workers)
  <2>1. Inserting(u)' \subseteq Workers
    BY DEF Inserting
  <2> QED
    BY <2>1, FS_Subset, FiniteAssumption
<1> QED
  BY <1>1, <1>2, QuotaSets DEF Quota

\* A creation turns its claim into a key.
LEMMA QuotaInsert ==
  ASSUME TypeInv, NEW u \in Users, Quota(u), NEW w \in Workers, NEW k \in Keys,
         NEW expires \in Lifetimes, NEW allowed \in SUBSET Addresses,
         CreateInsert(w, k, expires, allowed)
  PROVE  Quota(u)'
<1> USE DEF TypeInv, TypeOK
<1>0. Idle.pc = "idle"
  BY DEF Idle
<1>1. CASE op[w].user # u
  <2>1. LiveKeys(u)' \subseteq LiveKeys(u) /\ Inserting(u)' \subseteq Inserting(u)
    BY <1>0, <1>1 DEF CreateInsert, LiveKeys, Inserting
  <2> QED
    BY <2>1, QuotaShrinks
<1>2. CASE op[w].user = u
  <2>1. LiveKeys(u)' \subseteq LiveKeys(u) \cup {k}
    BY DEF CreateInsert, LiveKeys
  <2>2. w \in Inserting(u) /\ Inserting(u)' = Inserting(u) \ {w}
    BY <1>0, <1>2 DEF CreateInsert, Inserting
  <2>3. Cardinality(Inserting(u)') = Cardinality(Inserting(u)) - 1
    BY <2>2, QuotaSets, FS_RemoveElement
  <2>4. Cardinality(LiveKeys(u)') <= Cardinality(LiveKeys(u)) + 1
    <3>1. /\ IsFiniteSet(LiveKeys(u) \cup {k})
          /\ Cardinality(LiveKeys(u) \cup {k}) <= Cardinality(LiveKeys(u)) + 1
          /\ Cardinality(LiveKeys(u) \cup {k}) \in Nat
      <4>1. /\ IsFiniteSet(LiveKeys(u) \cup {k})
            /\ Cardinality(LiveKeys(u) \cup {k}) =
                 IF k \in LiveKeys(u) THEN Cardinality(LiveKeys(u))
                 ELSE Cardinality(LiveKeys(u)) + 1
        BY QuotaSets, FS_AddElement
      <4> QED
        BY <4>1, QuotaSets
    <3>2. Cardinality(LiveKeys(u)') <= Cardinality(LiveKeys(u) \cup {k})
      BY <2>1, <3>1, FS_Subset
    <3> QED
      BY <3>1, <3>2, QuotaSets
  <2> QED
    BY <2>3, <2>4, QuotaSets DEF Quota
<1> QED
  BY <1>1, <1>2

\* Every step keeps the bound of every owner.
LEMMA QuotaNext ==
  ASSUME TypeInv, NEW u \in Users, Quota(u), [Next]_vars
  PROVE  Quota(u)'
<1> USE DEF TypeInv, TypeOK
<1>0. Idle.pc = "idle"
  BY DEF Idle
<1>1. ASSUME NEW w \in Workers, NEW v \in Users, CreateCount(w, v), v # u
      PROVE  Quota(u)'
  <2>1. LiveKeys(u)' = LiveKeys(u)
    BY <1>1 DEF CreateCount, LiveKeys
  <2>2. op'[w].user = v /\ \A x \in Workers : x # w => op'[x] = op[x]
    BY <1>1 DEF CreateCount, Idle
  <2>3. Inserting(u)' \subseteq Inserting(u)
    BY <1>1, <2>2 DEF Inserting
  <2> QED
    BY <2>1, <2>3, QuotaShrinks
<1>2. ASSUME NEW w \in Workers, WorkerStep(w),
             ~\E v \in Users : CreateCount(w, v),
             ~\E k \in Keys, expires \in Lifetimes, allowed \in SUBSET Addresses :
                 CreateInsert(w, k, expires, allowed)
      PROVE  Quota(u)'
  <2>1. op'[w].pc # "insert" /\ \A x \in Workers : x # w => op'[x] = op[x]
    <3>1. CASE LookUp(w)
      <4>1. op[w] \in RequestType
        OBVIOUS
      <4>2. \/ op' = [op EXCEPT ![w] = Idle]
            \/ op' = [op EXCEPT ![w] = [op[w] EXCEPT !.pc = "admitted",
                                                    !.user = rows[op[w].key].owner]]
        BY <3>1 DEF LookUp
      <4>3. [op[w] EXCEPT !.pc = "admitted", !.user = rows[op[w].key].owner].pc = "admitted"
        BY <4>1 DEF RequestType
      <4> QED
        BY <1>0, <4>2, <4>3
    <3>2. CASE DeleteCommit(w) \/ Answer(w) \/ Fail(w)
      BY <1>0, <3>2 DEF DeleteCommit, Answer, Fail
    <3>3. ASSUME NEW v \in Users, NEW k \in Keys, DeleteRead(w, v, k)
          PROVE  op'[w].pc # "insert" /\ \A x \in Workers : x # w => op'[x] = op[x]
      BY <3>3 DEF DeleteRead, Idle
    <3>4. ASSUME NEW k \in Keys, NEW a \in Addresses, Arrive(w, k, {a})
          PROVE  op'[w].pc # "insert" /\ \A x \in Workers : x # w => op'[x] = op[x]
      BY <3>4 DEF Arrive
    <3> QED
      BY <1>2, <3>1, <3>2, <3>3, <3>4 DEF WorkerStep
  <2>2. Inserting(u)' \subseteq Inserting(u)
    BY <2>1 DEF Inserting
  <2>3. CASE DeleteCommit(w)
    <3>1. rows' = [rows EXCEPT ![op[w].key] = [rows[op[w].key] EXCEPT !.deleted = TRUE]]
          /\ op[w].key \in Keys /\ rows[op[w].key] \in Row
      BY <2>3 DEF DeleteCommit, Pending
    <3>2. LiveKeys(u)' \subseteq LiveKeys(u)
      BY <3>1 DEF LiveKeys, Row
    <3> QED
      BY <2>2, <3>2, QuotaShrinks
  <2>4. CASE rows' = rows
    BY <2>2, <2>4, QuotaShrinks DEF LiveKeys
  <2> QED
    BY <1>2, <2>3, <2>4 DEF WorkerStep, DeleteRead, Arrive, LookUp, Answer, Fail
<1>3. ASSUME NEW k \in Keys, AppRevoke(k) PROVE Quota(u)'
  <2>1. rows' = [rows EXCEPT ![k] = [rows[k] EXCEPT !.deleted = TRUE]]
        /\ rows[k] \in Row /\ op' = op
    BY <1>3 DEF AppRevoke
  <2>2. LiveKeys(u)' \subseteq LiveKeys(u) /\ Inserting(u)' \subseteq Inserting(u)
    BY <2>1 DEF LiveKeys, Inserting, Row
  <2> QED
    BY <2>2, QuotaShrinks
<1>4. ASSUME NEW k \in Keys, NEW v \in Users, AppInsert(k, v) PROVE Quota(u)'
  <2>1. /\ rows'[k].type = "application" /\ op' = op
        /\ \A j \in Keys : j # k => rows'[j] = rows[j]
    BY <1>4 DEF AppInsert
  <2>2. LiveKeys(u)' \subseteq LiveKeys(u) /\ Inserting(u)' \subseteq Inserting(u)
    BY <2>1 DEF LiveKeys, Inserting
  <2> QED
    BY <2>2, QuotaShrinks
<1>5. CASE Tick \/ UNCHANGED vars
  BY <1>5, QuotaShrinks DEF Tick, vars, LiveKeys, Inserting
<1> QED
  BY <1>1, <1>2, <1>3, <1>4, <1>5, QuotaCount, QuotaInsert, StepKinds

\* The limit on keys is passed by at most one key per other worker.
THEOREM QuotaCorrect == Spec => []QuotaOvershootBounded
<1> DEFINE QuotaInv == \A u \in Users : Quota(u)
<1>1. Init => QuotaInv
  <2> SUFFICES ASSUME Init, NEW u \in Users PROVE Quota(u)
    OBVIOUS
  <2>1. LiveKeys(u) = {} /\ Inserting(u) = {}
    BY DEF Init, LiveKeys, Inserting, Idle
  <2>2. Cardinality(Workers) # 0
    BY FiniteAssumption, FS_EmptySet
  <2> QED
    BY <2>1, <2>2, FS_EmptySet, QuotaSets DEF Quota
<1>2. TypeInv /\ QuotaInv /\ [Next]_vars => QuotaInv'
  BY QuotaNext
<1>3. QuotaInv => QuotaOvershootBounded
  <2> SUFFICES ASSUME NEW u \in Users, Quota(u)
               PROVE  Cardinality(LiveKeys(u)) + 1 <= MaxTokens + Cardinality(Workers)
    BY DEF QuotaOvershootBounded
  <2> QED
    BY QuotaSets DEF Quota
<1> HIDE DEF QuotaInv
<1> QED
  BY TypeInit, TypeNext, <1>1, <1>2, <1>3, PTL DEF Spec

=============================================================================
