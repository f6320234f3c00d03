--------------------------- MODULE LMDBStoreProofs ---------------------------
(***************************************************************************)
(* LMDBStore keeps its types and implements the contract KeyValueStore,    *)
(* for any names, fields, values, lifetimes and threads.                   *)
(***************************************************************************)
EXTENDS LMDBStore, KeyValuesProofs

\* A read under way saw a deadline, so its key has had one; and what it may
\* erase is something the contract lets a read of that kind erase.
ReadsInv ==
    \A t \in Threads : req[t] # None =>
        /\ req[t] \in [op : Reads, key : Keys, exp : Nat]
        /\ req[t].key \in timed
        /\ req[t].op = "get" => req[t].key \in PlainKeys
        /\ req[t].op # "get" => req[t].key \in HashKeys
        /\ req[t].op = "hget" => Fields # {}

\* Hashes always get a deadline.
EntriesInv ==
    /\ db = [k \in Keys |-> db[k]]
    /\ \A k \in Keys : db[k] # None /\ db[k].exp # None => k \in timed
    /\ \A k \in HashKeys : db[k] # None => db[k].exp # None

StoreInv == TypeOK /\ ReadsInv /\ EntriesInv

-----------------------------------------------------------------------------
(* The inductive invariant.                                                *)

\* StoreInv holds at the start.
LEMMA StoreInit == Init => StoreInv
BY KeyForms, TimeAssumption DEF Init, StoreInv, TypeOK, ReadsInv, EntriesInv

\* What StoreInv says of an entry.
LEMMA EntryAt ==
    ASSUME StoreInv, NEW k \in Keys, db[k] # None
    PROVE  /\ db[k].exp \in Nat \cup {None}
           /\ db[k].exp # None => k \in timed
           /\ k \in PlainKeys => db[k].val \in Values
           /\ k \in HashKeys => db[k].val \in Hashes /\ db[k].exp # None
BY EntryThere, KeyForms DEF StoreInv, TypeOK, EntriesInv

\* Steps that write no entry: the reads under way go on, or end.
LEMMA RestKeeps ==
    ASSUME StoreInv, Keep \/ \E ks : Erase(ks), watcher' \in {"scanning", "sleeping"},
           now' \in 0 .. MaxTime,
           req' = req \/ \E ts : req' = [t \in Threads |-> IF t \in ts THEN None ELSE req[t]]
    PROVE  StoreInv'
<1>1. timed' = timed /\ \A k \in Keys : db'[k] = db[k] \/ db'[k] = None
  BY DEF Keep, Erase
<1>2. db' = [k \in Keys |-> db'[k]]
  BY DEF Keep, Erase, StoreInv, EntriesInv
<1>3. /\ req' \in [Threads -> [op : Reads, key : Keys, exp : Nat] \cup {None}]
      /\ \A t \in Threads : req'[t] # None => req'[t] = req[t]
  BY DEF StoreInv, TypeOK
<1>4. TypeOK'
  BY <1>1, <1>3, KeyForms DEF StoreInv, TypeOK
<1>5. ReadsInv' /\ EntriesInv'
  BY <1>1, <1>2, <1>3, KeyForms DEF StoreInv, ReadsInv, EntriesInv
<1> QED BY <1>4, <1>5 DEF StoreInv

\* Writing an entry.
LEMMA PutKeeps ==
    ASSUME StoreInv, NEW k \in Keys, NEW val, NEW exp \in Nat \cup {None},
           k \in PlainKeys => val \in Values, k \in HashKeys => val \in Hashes /\ exp # None,
           Put(k, val, exp), UNCHANGED <<req, watcher, now>>
    PROVE  StoreInv'
<1>1. /\ db' = [j \in Keys |-> db'[j]]
      /\ db'[k] = [val |-> val, exp |-> exp] /\ \A j \in Keys : j # k => db'[j] = db[j]
  BY DEF Put, StoreInv, EntriesInv
<1>2. timed \subseteq timed' /\ timed' \subseteq Keys /\ (exp # None => k \in timed')
  BY DEF Put, StoreInv, TypeOK
<1>3. (\A j \in PlainKeys : db'[j] \in PlainEntry \cup {None})
      /\ (\A j \in HashKeys : db'[j] \in HashEntry \cup {None})
  BY <1>1, EntryType, KeyForms DEF StoreInv, TypeOK
<1>4. TypeOK'
  BY <1>2, <1>3 DEF StoreInv, TypeOK
<1>5. ReadsInv'
  BY <1>2 DEF StoreInv, ReadsInv
<1>6. EntriesInv'
  <2>1. db'[k].exp = exp
    BY <1>1
  <2>2. \A j \in Keys : db'[j] # None /\ db'[j].exp # None => j \in timed'
    BY <1>1, <1>2, <2>1 DEF StoreInv, EntriesInv
  <2>3. \A j \in HashKeys : db'[j] # None => db'[j].exp # None
    BY <1>1, <2>1, KeyForms DEF StoreInv, EntriesInv
  <2> QED BY <1>1, <2>2, <2>3 DEF EntriesInv
<1> QED BY <1>4, <1>5, <1>6 DEF StoreInv

\* A read, up to the check of its deadline.
LEMMA ReadKeeps ==
    ASSUME StoreInv, NEW t \in Threads, NEW op \in Reads, NEW k \in Keys, NEW result,
           op = "get" => k \in PlainKeys, op # "get" => k \in HashKeys,
           op = "hget" => Fields # {}, Read(t, op, k, result)
    PROVE  StoreInv'
<1>0. watcher \in {"scanning", "sleeping"} /\ now \in 0 .. MaxTime
  BY DEF StoreInv, TypeOK
<1>1. CASE Keep /\ UNCHANGED <<req, watcher, now>>
  BY <1>0, <1>1, RestKeeps
<1>2. CASE /\ ~Absent(k) /\ db[k].exp # None
           /\ req' = [req EXCEPT ![t] = [op |-> op, key |-> k, exp |-> db[k].exp]]
           /\ UNCHANGED <<db, watcher, timed, reply, now>>
  <2>1. db[k].exp \in Nat /\ k \in timed
    BY <1>2, EntryAt DEF Absent
  <2>2. /\ req' \in [Threads -> [op : Reads, key : Keys, exp : Nat] \cup {None}]
        /\ req'[t] = [op |-> op, key |-> k, exp |-> db[k].exp]
        /\ \A s \in Threads : s # t => req'[s] = req[s]
    BY <1>2, <2>1 DEF StoreInv, TypeOK
  <2>3. ReadsInv'
    BY <1>2, <2>1, <2>2 DEF StoreInv, ReadsInv
  <2> QED BY <1>2, <2>2, <2>3 DEF StoreInv, TypeOK, EntriesInv
<1> QED BY <1>1, <1>2 DEF Read, Return

\* Every step keeps StoreInv.
LEMMA StoreNext == StoreInv /\ [Next]_vars => StoreInv'
<1> SUFFICES ASSUME StoreInv, [Next]_vars PROVE StoreInv'
  OBVIOUS
<1>0. /\ watcher \in {"scanning", "sleeping"} /\ now \in 0 .. MaxTime /\ now \in Nat
      /\ \A ttl \in TTLs : ttl \in Nat
      /\ DefaultTTL \in Nat /\ None \notin Nat
      /\ \A ttl \in Nat : now + ttl \in Nat
  BY TimeAssumption, DefaultAssumption, EntryThere DEF StoreInv, TypeOK
<1>1. ASSUME NEW k \in PlainKeys, NEW v \in Values, NEW ttl \in TTLs \cup {None}, Set(k, v, ttl)
      PROVE  StoreInv'
  BY <1>0, <1>1, PutKeeps, KeyForms DEF Set, Return
<1>2. ASSUME NEW k \in Keys, NEW op, NEW ttl \in TTLs, Expire(op, k, ttl)
      PROVE  StoreInv'
  <2>1. CASE Keep /\ UNCHANGED <<req, watcher, now>>
    BY <1>0, <2>1, RestKeeps
  <2>2. CASE db[k] # None /\ Put(k, db[k].val, now + ttl) /\ UNCHANGED <<req, watcher, now>>
    BY <1>0, <2>2, PutKeeps, EntryAt
  <2> QED BY <1>2, <2>1, <2>2 DEF Expire, Return, Absent
<1>3. ASSUME NEW k, NEW op, TimeToLive(op, k)
      PROVE  StoreInv'
  BY <1>0, <1>3, RestKeeps DEF TimeToLive, Return
<1>4. ASSUME NEW t \in Threads, NEW k \in PlainKeys, PlainCall(t, k)
      PROVE  StoreInv'
  <2>1. CASE Get(t, k)
    BY <2>1, ReadKeeps, KeyForms DEF Get, Reads
  <2>2. CASE DeleteK(k)
    BY <1>0, <2>2, RestKeeps DEF DeleteK, Return
  <2> QED BY <1>1, <1>2, <1>3, <1>4, <2>1, <2>2, KeyForms DEF PlainCall, ExpireK, TtlK
<1>5. ASSUME NEW k \in HashKeys, NEW f \in Fields, NEW v \in Values, HSet(k, f, v)
      PROVE  StoreInv'
  <2>1. k \in Keys /\ k \notin PlainKeys
    BY KeyForms
  <2>2. CASE Put(k, Stored(<<>>, f, v), now + DefaultTTL) /\ Return("hset", k, 1)
    BY <1>0, <2>1, <2>2, PutKeeps, StoredType DEF Return
  <2>3. CASE /\ db[k] # None
             /\ Put(k, Stored(db[k].val, f, v), IF db[k].exp = None THEN now + DefaultTTL ELSE db[k].exp)
             /\ UNCHANGED <<req, watcher, now>>
    <3>1. db[k].val \in Hashes /\ db[k].exp \in Nat
      BY <1>0, <2>1, <2>3, EntryAt
    <3> QED BY <1>0, <2>1, <2>3, <3>1, PutKeeps, StoredType
  <2> QED BY <1>5, <2>2, <2>3 DEF HSet, Return, Absent
<1>6. ASSUME NEW k \in HashKeys, NEW fs \in SUBSET Fields, HDel(k, fs)
      PROVE  StoreInv'
  <2>1. k \in Keys /\ k \notin PlainKeys
    BY KeyForms
  <2>2. CASE (Keep \/ Erase({k})) /\ UNCHANGED <<req, watcher, now>>
    BY <1>0, <2>2, RestKeeps
  <2>3. CASE /\ db[k] # None /\ ~(DOMAIN db[k].val \subseteq fs)
             /\ Put(k, Without(db[k].val, fs), db[k].exp) /\ UNCHANGED <<req, watcher, now>>
    <3>1. db[k].val \in Hashes /\ db[k].exp \in Nat
      BY <1>0, <2>1, <2>3, EntryAt
    <3> QED BY <1>0, <2>1, <2>3, <3>1, PutKeeps, WithoutType
  <2> QED BY <1>6, <2>2, <2>3 DEF HDel, Return, Absent
<1>7. ASSUME NEW t \in Threads, NEW k \in HashKeys, HashCall(t, k)
      PROVE  StoreInv'
  <2>1. CASE \E f \in Fields : HGet(t, k, f)
    BY <2>1, ReadKeeps, KeyForms DEF HGet, Reads
  <2>2. CASE HGetAll(t, k)
    BY <2>2, ReadKeeps, KeyForms DEF HGetAll, Reads
  <2> QED BY <1>2, <1>3, <1>5, <1>6, <1>7, <2>1, <2>2, KeyForms DEF HashCall, ExpireH, TtlH
<1>8. ASSUME NEW t \in Threads, EraseLate(t)
      PROVE  StoreInv'
  <2>1. req' = [s \in Threads |-> IF s \in {t} THEN None ELSE req[s]]
    BY <1>8 DEF EraseLate, StoreInv, TypeOK
  <2> QED BY <1>0, <1>8, <2>1, RestKeeps DEF EraseLate
<1>9. CASE WatcherPass \/ WatcherFault \/ WatcherWakes
  BY <1>0, <1>9, RestKeeps DEF WatcherPass, WatcherFault, WatcherWakes, Keep
<1>10. CASE Restart
  <2>1. req' = [t \in Threads |-> IF t \in Threads THEN None ELSE req[t]]
    BY <1>10 DEF Restart
  <2> QED BY <1>0, <1>10, <2>1, RestKeeps DEF Restart, Keep
<1>11. CASE Tick
  <2>1. now' \in 0 .. MaxTime
    BY <1>0, <1>11, TimeAssumption DEF Tick
  <2> QED BY <1>0, <1>11, <2>1, RestKeeps DEF Tick, Keep
<1>12. CASE UNCHANGED vars
  BY <1>0, <1>12, RestKeeps DEF vars, Keep
<1> QED BY <1>4, <1>7, <1>8, <1>9, <1>10, <1>11, <1>12 DEF Next

\* The environment holds entries of the right kind under each key, and no hash
\* without fields (lmdb_store.py).
THEOREM TypeCorrect == Spec => []TypeOK
<1>1. StoreInv => TypeOK
  BY DEF StoreInv
<1> QED BY <1>1, StoreInit, StoreNext, PTL DEF Spec

-----------------------------------------------------------------------------
(* The contract.                                                           *)

\* The contract's copies of what KeyValues defines.
LEMMA Shared ==
    /\ Contract!Keys = Keys /\ Contract!PlainKeys = PlainKeys /\ Contract!HashKeys = HashKeys
    /\ \A h, f, x : Contract!Stored(h, f, x) = Stored(h, f, x)
    /\ \A h, f : Contract!Fresh(h, f) = Fresh(h, f)
    /\ \A h, f, x : Contract!FieldOr(h, f, x) = FieldOr(h, f, x)
    /\ \A h, fs : Contract!Without(h, fs) = Without(h, fs)
    /\ \A S : Contract!Cardinality(S) = Cardinality(S)
<1>1. Contract!Keys = Keys /\ Contract!PlainKeys = PlainKeys /\ Contract!HashKeys = HashKeys
  BY DEF Contract!Keys, Keys, Contract!PlainKeys, PlainKeys, Contract!HashKeys, HashKeys
<1>2. \A S : Contract!Cardinality(S) = Cardinality(S)
  BY Zenon DEF Cardinality, Contract!Cardinality
<1>3. /\ \A h, f, x : Contract!Stored(h, f, x) = Stored(h, f, x)
      /\ \A h, f : Contract!Fresh(h, f) = Fresh(h, f)
      /\ \A h, f, x : Contract!FieldOr(h, f, x) = FieldOr(h, f, x)
      /\ \A h, fs : Contract!Without(h, fs) = Without(h, fs)
  BY DEF Stored, Contract!Stored, Fresh, Contract!Fresh, FieldOr, Contract!FieldOr,
         Without, Contract!Without, Restrict, Contract!Restrict
<1> QED BY <1>1, <1>2, <1>3

\* Under the mapping both modules mean the same by expired, put, erase and answer.
LEMMA SharedState ==
    /\ \A k : Contract!Expired(k) <=> Expired(k)
    /\ \A k : Contract!Live(k) <=> ~Absent(k) /\ ~Expired(k)
    /\ \A k, val, exp : Contract!Put(k, val, exp) <=> Put(k, val, exp)
    /\ \A ks : Contract!Remove(ks) <=> Erase(ks)
    /\ Contract!Keep <=> Keep
    /\ \A op, k, result : Return(op, k, result) => Contract!Answer(op, k, result)
<1>1. /\ \A k : Contract!Expired(k) <=> Expired(k)
      /\ \A k : Contract!Live(k) <=> ~Absent(k) /\ ~Expired(k)
  BY DEF Contract!Expired, Contract!Live, Expired, Absent
<1>2. /\ \A k, val, exp : Contract!Put(k, val, exp) <=> Put(k, val, exp)
      /\ \A ks : Contract!Remove(ks) <=> Erase(ks)
      /\ Contract!Keep <=> Keep
      /\ \A op, k, result : Return(op, k, result) => Contract!Answer(op, k, result)
  BY Shared DEF Contract!Put, Contract!Remove, Contract!Keep, Contract!Answer, Put, Erase, Keep, Return
<1> QED BY <1>1, <1>2

\* A read answers as the contract's does, or has not answered yet.
LEMMA ReadRefines ==
    ASSUME NEW t, NEW op, NEW k, NEW result, Read(t, op, k, result)
    PROVE  Contract!Read(op, k, result, Missing(op)) \/ UNCHANGED Contract!vars
BY SharedState DEF Read, Return, Contract!Read, Contract!vars

\* A read that erases late does what the contract lets a read do to a key that
\* has had a deadline.
LEMMA EraseLateRefines ==
    ASSUME StoreInv, NEW t \in Threads, EraseLate(t)
    PROVE  Contract!Next
<1> DEFINE op == req[t].op
           k == req[t].key
<1>1. /\ op \in Reads /\ k \in Keys /\ k \in timed
      /\ op = "get" => k \in PlainKeys
      /\ op # "get" => k \in HashKeys
      /\ op = "hget" => Fields # {}
  BY DEF EraseLate, StoreInv, ReadsInv
<1>2. \A result : Contract!Read(op, k, result, Missing(op))
  BY <1>1, SharedState DEF EraseLate, Contract!Read, Contract!Answer
<1> HIDE DEF op, k
<1>3. CASE op = "get"
  <2>1. Contract!Get(k)
    BY <1>2, <1>3 DEF Contract!Get, Missing
  <2> QED BY <1>1, <1>3, <2>1, Shared DEF Contract!Next
<1>4. CASE op = "hget"
  <2>1. PICK f \in Fields : TRUE
    BY <1>1, <1>4
  <2>2. Contract!HGet(k, f)
    BY <1>2, <1>4 DEF Contract!HGet, Missing
  <2> QED BY <1>1, <1>4, <2>2, Shared DEF Contract!Next
<1>5. CASE op = "hgetall"
  <2>1. Contract!HGetAll(k)
    BY <1>2, <1>5 DEF Contract!HGetAll, Missing
  <2> QED BY <1>1, <1>5, <2>1, Shared DEF Contract!Next
<1> QED BY <1>1, <1>3, <1>4, <1>5 DEF Reads

\* Each call on a plain key is a step of the contract, or a read held up.
LEMMA PlainRefines ==
    ASSUME StoreInv, NEW t \in Threads, NEW k \in PlainKeys, PlainCall(t, k)
    PROVE  [Contract!Next]_(Contract!vars)
<1>1. ASSUME NEW v \in Values, NEW ttl \in TTLs \cup {None}, Set(k, v, ttl)
      PROVE  Contract!Set(k, v, ttl)
  BY <1>1, SharedState DEF Set, Contract!Set, Contract!Deadline
<1>2. ASSUME Get(t, k)
      PROVE  Contract!Get(k) \/ UNCHANGED Contract!vars
  BY <1>2, ReadRefines DEF Get, Contract!Get, Missing
<1>3. DeleteK(k) => Contract!Delete(k)
  BY SharedState DEF DeleteK, Contract!Delete
<1>4. ASSUME TtlK(k)
      PROVE  Contract!TimeToLive("ttl", k)
  BY <1>4, SharedState DEF TtlK, TimeToLive, Contract!TimeToLive, Expired, Absent
<1>5. ASSUME NEW ttl \in TTLs, ExpireK(k, ttl)
      PROVE  Contract!Expire("expire", k, ttl)
  BY <1>5, SharedState DEF ExpireK, Expire, Contract!Expire, Absent
<1> QED BY <1>1, <1>2, <1>3, <1>4, <1>5, Shared DEF PlainCall, Contract!Next

\* Each call on a hash is a step of the contract, or a read held up.
LEMMA HashRefines ==
    ASSUME StoreInv, NEW t \in Threads, NEW k \in HashKeys, HashCall(t, k)
    PROVE  [Contract!Next]_(Contract!vars)
<1>0. k \in Keys
  BY KeyForms
<1>1. ASSUME NEW f \in Fields, HGet(t, k, f)
      PROVE  Contract!HGet(k, f) \/ UNCHANGED Contract!vars
  BY <1>1, ReadRefines, Shared DEF HGet, Contract!HGet, Missing
<1>2. ASSUME HGetAll(t, k)
      PROVE  Contract!HGetAll(k) \/ UNCHANGED Contract!vars
  BY <1>2, ReadRefines DEF HGetAll, Contract!HGetAll, Missing
<1>3. ASSUME NEW f \in Fields, NEW v \in Values, HSet(k, f, v)
      PROVE  Contract!HSet(k, f, v)
  <2>1. ~Absent(k) => db[k].exp # None
    BY <1>0, EntryAt DEF Absent
  <2>2. DefaultTTL # None
    BY DefaultAssumption, EntryThere
  <2> QED BY <1>3, <2>1, <2>2, Shared, SharedState DEF HSet, Contract!HSet, Contract!Deadline
<1>4. ASSUME NEW fs \in SUBSET Fields, HDel(k, fs)
      PROVE  Contract!HDel(k, fs)
  BY <1>4, Shared, SharedState DEF HDel, Contract!HDel
<1>5. ASSUME TtlH(k)
      PROVE  Contract!TimeToLive("httl", k)
  BY <1>5, SharedState DEF TtlH, TimeToLive, Contract!TimeToLive, Expired, Absent
<1>6. ASSUME NEW ttl \in TTLs, ExpireH(k, ttl)
      PROVE  Contract!Expire("hexpire", k, ttl)
  BY <1>6, SharedState DEF ExpireH, Expire, Contract!Expire, Absent
<1> QED BY <1>1, <1>2, <1>3, <1>4, <1>5, <1>6, Shared DEF HashCall, Contract!Next

\* The empty environment is the contract's initial state.
LEMMA ContractInit == Init => Contract!Init
BY Shared DEF Init, Contract!Init

\* Each step is one of the contract's or leaves its variables alone.
LEMMA ContractNext == StoreInv /\ [Next]_vars => [Contract!Next]_(Contract!vars)
<1> SUFFICES ASSUME StoreInv, [Next]_vars PROVE [Contract!Next]_(Contract!vars)
  OBVIOUS
<1>1. CASE WatcherPass
  <2>1. Contract!Purge({k \in Keys : Expired(k)})
    BY <1>1, SharedState DEF WatcherPass, Contract!Purge
  <2> QED BY <2>1, Shared DEF Contract!Next
<1>2. CASE WatcherFault \/ WatcherWakes \/ Restart \/ UNCHANGED vars
  BY <1>2 DEF WatcherFault, WatcherWakes, Restart, vars, Contract!vars
<1>3. CASE Tick
  BY <1>3 DEF Tick, Contract!Tick, Contract!Next
<1> QED BY <1>1, <1>2, <1>3, PlainRefines, HashRefines, EraseLateRefines DEF Next

\* Every step of the store is one the contract allows, or none: a command, a
\* late erase, the watcher's pass, a fault and a restart (lmdb_store.py,
\* key_value_store/base.py).
THEOREM ImplementsContract == Spec => Implements
<1> QED BY StoreInit, StoreNext, ContractInit, ContractNext, PTL DEF Spec, Implements, Contract!Spec

=============================================================================
