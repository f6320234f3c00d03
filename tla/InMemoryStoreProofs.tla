------------------------- MODULE InMemoryStoreProofs -------------------------
(***************************************************************************)
(* InMemoryStore keeps its types and implements the contract               *)
(* KeyValueStore, for any names, fields, values and lifetimes.             *)
(***************************************************************************)
EXTENDS InMemoryStore, KeyValuesProofs

\* Whoever has a deadline has had one: the history the contract keeps.
TimedInv ==
    /\ \A n \in Names : dict[n] # None /\ dict[n].exp # None => <<"k", n>> \in timed
    /\ \A n \in Names : hashes[n] # None /\ hashes[n].exp # None => <<"h", n>> \in timed

StoreInv == TypeOK /\ TimedInv

-----------------------------------------------------------------------------
(* The inductive invariant.                                                *)

\* StoreInv holds at the start.
LEMMA StoreInit == Init => StoreInv
BY TimeAssumption DEF Init, StoreInv, TypeOK, TimedInv

\* A command leaves an entry of the right kind, or none.
LEMMA PlainKeeps ==
    ASSUME StoreInv, NEW n \in Names, NEW item \in PlainEntry \cup {None}, NEW op, NEW result,
           Plain(n, item, op, result)
    PROVE  StoreInv'
<1>1. /\ dict' \in [Names -> PlainEntry \cup {None}]
      /\ dict'[n] = item /\ \A m \in Names : m # n => dict'[m] = dict[m]
      /\ UNCHANGED <<hashes, watcher, now>>
  BY DEF Plain, StoreInv, TypeOK
<1>2. /\ timed \subseteq timed' /\ timed' \subseteq Keys
      /\ item # None /\ item.exp # None => <<"k", n>> \in timed'
  BY KeyForms DEF Plain, StoreInv, TypeOK
<1>3. TypeOK'
  BY <1>1, <1>2 DEF StoreInv, TypeOK
<1>4. TimedInv'
  BY <1>1, <1>2 DEF StoreInv, TimedInv
<1> QED BY <1>3, <1>4 DEF StoreInv

\* A command on a hash that leaves a well-formed entry, or none, keeps StoreInv.
LEMMA HashKeeps ==
    ASSUME StoreInv, NEW n \in Names, NEW item \in HashEntry \cup {None}, NEW op, NEW result,
           Hash(n, item, op, result)
    PROVE  StoreInv'
<1>1. /\ hashes' \in [Names -> HashEntry \cup {None}]
      /\ hashes'[n] = item /\ \A m \in Names : m # n => hashes'[m] = hashes[m]
      /\ UNCHANGED <<dict, watcher, now>>
  BY DEF Hash, StoreInv, TypeOK
<1>2. /\ timed \subseteq timed' /\ timed' \subseteq Keys
      /\ item # None /\ item.exp # None => <<"h", n>> \in timed'
  BY KeyForms DEF Hash, StoreInv, TypeOK
<1>3. TypeOK'
  BY <1>1, <1>2 DEF StoreInv, TypeOK
<1>4. TimedInv'
  BY <1>1, <1>2 DEF StoreInv, TimedInv
<1> QED BY <1>3, <1>4 DEF StoreInv

\* Entries that go, or stay, as the watcher and a restart have it.
LEMMA RestKeeps ==
    ASSUME StoreInv, timed' = timed, watcher' \in {"scanning", "sleeping"}, now' \in 0 .. MaxTime,
           dict' = dict \/ \E ns : dict' = [n \in Names |-> IF n \in ns THEN None ELSE dict[n]],
           hashes' = hashes \/ \E ns : hashes' = [n \in Names |-> IF n \in ns THEN None ELSE hashes[n]]
    PROVE  StoreInv'
<1>1. /\ dict' \in [Names -> PlainEntry \cup {None}]
      /\ \A n \in Names : dict'[n] = dict[n] \/ dict'[n] = None
  BY DEF StoreInv, TypeOK
<1>2. /\ hashes' \in [Names -> HashEntry \cup {None}]
      /\ \A n \in Names : hashes'[n] = hashes[n] \/ hashes'[n] = None
  BY DEF StoreInv, TypeOK
<1> QED BY <1>1, <1>2 DEF StoreInv, TypeOK, TimedInv

\* The entry a command leaves, for each kind of it.
LEMMA ItemType ==
    ASSUME NEW val, NEW exp \in Nat \cup {None}
    PROVE  /\ val \in Values => Item(val, exp) \in PlainEntry \cup {None} /\ Item(val, exp) # None
           /\ val \in Hashes => Item(val, exp) \in HashEntry \cup {None} /\ Item(val, exp) # None
BY EntryType, EntryThere DEF Item

\* What an entry that is there holds, by StoreInv.
LEMMA EntryAt ==
    ASSUME StoreInv, NEW n \in Names
    PROVE  /\ dict[n] \in PlainEntry \cup {None} /\ hashes[n] \in HashEntry \cup {None}
           /\ dict[n] # None => dict[n].val \in Values /\ dict[n].exp \in Nat \cup {None}
           /\ hashes[n] # None => hashes[n].val \in Hashes /\ hashes[n].exp \in Nat \cup {None}
BY EntryThere DEF StoreInv, TypeOK

\* Deadlines that commands compute are instants, and none of them is None.
LEMMA ClockType ==
    ASSUME StoreInv
    PROVE  /\ now \in Nat /\ now \in 0 .. MaxTime /\ watcher \in {"scanning", "sleeping"}
           /\ None \notin Nat /\ \A ttl \in TTLs : ttl \in Nat /\ now + ttl \in Nat
BY TimeAssumption, EntryThere DEF StoreInv, TypeOK

\* Commands on plain keys.
PlainCommand(n) ==
    \/ \E v \in Values, ttl \in TTLs \cup {None} : Set(n, v, ttl)
    \/ Get(n) \/ Delete(n) \/ Ttl(n)
    \/ \E ttl \in TTLs : Expire(n, ttl)
HashCommand(n) ==
    \/ \E f \in Fields : HGet(n, f) \/ \E v \in Values : HSet(n, f, v)
    \/ \E fs \in SUBSET Fields : HDel(n, fs)
    \/ HGetAll(n) \/ HTtl(n)
    \/ \E ttl \in TTLs : HExpire(n, ttl)

\* Every command on a plain key keeps StoreInv.
LEMMA PlainCommandKeeps ==
    ASSUME StoreInv, NEW n \in Names, PlainCommand(n)
    PROVE  StoreInv'
<1>1. ASSUME NEW v \in Values, NEW ttl \in TTLs \cup {None}, Set(n, v, ttl)
      PROVE  StoreInv'
  <2>1. (IF ttl = None THEN None ELSE now + ttl) \in Nat \cup {None}
    BY ClockType
  <2> QED BY <1>1, <2>1, ItemType, PlainKeeps DEF Set
<1>2. ASSUME Get(n) \/ Delete(n) \/ Ttl(n)
      PROVE  StoreInv'
  BY <1>2, EntryAt, PlainKeeps DEF Get, Delete, Ttl
<1>3. ASSUME NEW ttl \in TTLs, Expire(n, ttl)
      PROVE  StoreInv'
  <2>1. now + ttl \in Nat \cup {None}
    BY ClockType
  <2> QED BY <1>3, <2>1, EntryAt, ItemType, PlainKeeps DEF Expire
<1> QED BY <1>1, <1>2, <1>3 DEF PlainCommand

\* Every command on a hash keeps StoreInv.
LEMMA HashCommandKeeps ==
    ASSUME StoreInv, NEW n \in Names, HashCommand(n)
    PROVE  StoreInv'
<1>1. ASSUME NEW f \in Fields, NEW v \in Values, HSet(n, f, v)
      PROVE  StoreInv'
  <2>1. CASE hashes[n] = None
    <3>1. Item(Stored(<<>>, f, v), None) \in HashEntry \cup {None}
      BY StoredType, ItemType
    <3> QED BY <1>1, <2>1, <3>1, HashKeeps DEF HSet
  <2>2. CASE hashes[n] # None
    <3>1. Item(Stored(hashes[n].val, f, v), hashes[n].exp) \in HashEntry \cup {None}
      BY <2>2, EntryAt, StoredType, ItemType
    <3> QED BY <1>1, <2>2, <3>1, HashKeeps DEF HSet
  <2> QED BY <2>1, <2>2
<1>2. ASSUME HGetAll(n) \/ HTtl(n) \/ \E f \in Fields : HGet(n, f)
      PROVE  StoreInv'
  BY <1>2, EntryAt, HashKeeps DEF HGet, HGetAll, HTtl
<1>3. ASSUME NEW fs \in SUBSET Fields, HDel(n, fs)
      PROVE  StoreInv'
  <2>1. CASE hashes[n] = None
    BY <1>3, <2>1, HashKeeps DEF HDel
  <2>2. CASE hashes[n] # None
    <3>1. ~(DOMAIN hashes[n].val \subseteq fs) =>
             Item(Without(hashes[n].val, fs), hashes[n].exp) \in HashEntry \cup {None}
      BY <2>2, EntryAt, WithoutType, ItemType
    <3> QED BY <1>3, <2>2, <3>1, HashKeeps DEF HDel
  <2> QED BY <2>1, <2>2
<1>4. ASSUME NEW ttl \in TTLs, HExpire(n, ttl)
      PROVE  StoreInv'
  <2>1. now + ttl \in Nat \cup {None}
    BY ClockType
  <2> QED BY <1>4, <2>1, EntryAt, ItemType, HashKeeps DEF HExpire
<1> QED BY <1>1, <1>2, <1>3, <1>4 DEF HashCommand

\* Every step keeps StoreInv.
LEMMA StoreNext == StoreInv /\ [Next]_vars => StoreInv'
<1> SUFFICES ASSUME StoreInv, [Next]_vars PROVE StoreInv'
  OBVIOUS
<1>1. CASE WatcherPass
  <2>1. /\ dict' = [n \in Names |-> IF n \in {m \in Names : Dead(dict[m])} THEN None ELSE dict[n]]
        /\ hashes' = [n \in Names |-> IF n \in {m \in Names : Dead(hashes[m])} THEN None ELSE hashes[n]]
    BY <1>1 DEF WatcherPass, Purged
  <2> QED BY <1>1, <2>1, ClockType, RestKeeps DEF WatcherPass
<1>2. CASE Restart
  <2>1. /\ dict' = [n \in Names |-> IF n \in Names THEN None ELSE dict[n]]
        /\ hashes' = [n \in Names |-> IF n \in Names THEN None ELSE hashes[n]]
    BY <1>2 DEF Restart
  <2> QED BY <1>2, <2>1, ClockType, RestKeeps DEF Restart
<1>3. CASE WatcherWakes \/ UNCHANGED vars
  BY <1>3, ClockType, RestKeeps DEF WatcherWakes, vars
<1>4. CASE Tick
  <2>1. now' \in 0 .. MaxTime
    BY <1>4, ClockType, TimeAssumption DEF Tick
  <2> QED BY <1>4, <2>1, ClockType, RestKeeps DEF Tick
<1> QED BY <1>1, <1>2, <1>3, <1>4, PlainCommandKeeps, HashCommandKeeps
        DEF Next, PlainCommand, HashCommand

\* The dictionaries hold entries of the right kind, and no hash without fields
\* (in_memory.py).
THEOREM TypeCorrect == Spec => []TypeOK
<1>1. StoreInv => TypeOK
  BY DEF StoreInv
<1> QED BY <1>1, StoreInit, StoreNext, PTL DEF Spec

-----------------------------------------------------------------------------
(* The contract.                                                           *)

\* The contract's copies of what KeyValues defines.
LEMMA Shared ==
    /\ Contract!Keys = Keys /\ Contract!PlainKeys = PlainKeys /\ Contract!HashKeys = HashKeys
    /\ \A h, f, x : Contract!Stored(h, f, x) = Stored(h, f, x)
    /\ \A h, f : Contract!Fresh(h, f) = Fresh(h, f)
    /\ \A h, f, x : Contract!FieldOr(h, f, x) = FieldOr(h, f, x)
    /\ \A h, fs : Contract!Without(h, fs) = Without(h, fs)
    /\ \A S : Contract!Cardinality(S) = Cardinality(S)
<1>1. Contract!Keys = Keys /\ Contract!PlainKeys = PlainKeys /\ Contract!HashKeys = HashKeys
  BY DEF Contract!Keys, Keys, Contract!PlainKeys, PlainKeys, Contract!HashKeys, HashKeys
<1>2. \A S : Contract!Cardinality(S) = Cardinality(S)
  BY Zenon DEF Cardinality, Contract!Cardinality
<1>3. /\ \A h, f, x : Contract!Stored(h, f, x) = Stored(h, f, x)
      /\ \A h, f : Contract!Fresh(h, f) = Fresh(h, f)
      /\ \A h, f, x : Contract!FieldOr(h, f, x) = FieldOr(h, f, x)
      /\ \A h, fs : Contract!Without(h, fs) = Without(h, fs)
  BY DEF Stored, Contract!Stored, Fresh, Contract!Fresh, FieldOr, Contract!FieldOr,
         Without, Contract!Without, Restrict, Contract!Restrict
<1> QED BY <1>1, <1>2, <1>3

\* What the contract sees under a name's two keys.
LEMMA ItemsAt ==
    ASSUME NEW n \in Names
    PROVE  Items[<<"k", n>>] = dict[n] /\ Items[<<"h", n>>] = hashes[n]
BY KeyForms DEF Items

\* The contract's expired and live keys are those whose entry is dead or held.
LEMMA SharedState ==
    /\ \A k : Contract!Expired(k) <=> Dead(Items[k])
    /\ \A k : Contract!Live(k) <=> Held(Items[k])
BY DEF Contract!Expired, Contract!Live, Dead, Held

\* A command on one name changes one key.
LEMMA PlainEffect ==
    ASSUME NEW n \in Names, NEW item, NEW op, NEW result, StoreInv, Plain(n, item, op, result)
    PROVE  /\ Items' = [k \in Keys |-> IF k = <<"k", n>> THEN item ELSE Items[k]]
           /\ timed' = IF item # None /\ item.exp # None THEN timed \cup {<<"k", n>>} ELSE timed
           /\ Contract!Answer(op, <<"k", n>>, result)
<1>1. \A m \in Names : dict'[m] = IF m = n THEN item ELSE dict[m]
  BY DEF Plain, StoreInv, TypeOK
<1>2. hashes' = hashes
  BY DEF Plain
<1>3. Items' = [k \in Keys |-> IF k = <<"k", n>> THEN item ELSE Items[k]]
  <2>1. \A k \in Keys : (IF k[1] = "k" THEN dict'[k[2]] ELSE hashes'[k[2]]) =
                        IF k = <<"k", n>> THEN item ELSE Items[k]
    BY <1>1, <1>2 DEF Items, Keys, PlainKeys, HashKeys
  <2> QED BY <2>1 DEF Items
<1> QED BY <1>3 DEF Plain, Contract!Answer

\* What a command on a hash does, in the contract's variables.
LEMMA HashEffect ==
    ASSUME NEW n \in Names, NEW item, NEW op, NEW result, StoreInv, Hash(n, item, op, result)
    PROVE  /\ Items' = [k \in Keys |-> IF k = <<"h", n>> THEN item ELSE Items[k]]
           /\ timed' = IF item # None /\ item.exp # None THEN timed \cup {<<"h", n>>} ELSE timed
           /\ Contract!Answer(op, <<"h", n>>, result)
<1>1. \A m \in Names : hashes'[m] = IF m = n THEN item ELSE hashes[m]
  BY DEF Hash, StoreInv, TypeOK
<1>2. dict' = dict
  BY DEF Hash
<1>3. Items' = [k \in Keys |-> IF k = <<"h", n>> THEN item ELSE Items[k]]
  <2>1. \A k \in Keys : (IF k[1] = "k" THEN dict'[k[2]] ELSE hashes'[k[2]]) =
                        IF k = <<"h", n>> THEN item ELSE Items[k]
    BY <1>1, <1>2 DEF Items, Keys, PlainKeys, HashKeys
  <2> QED BY <2>1 DEF Items
<1> QED BY <1>3 DEF Hash, Contract!Answer

\* Leaving an entry as it is, removing it, and writing one, in the contract's
\* terms.
LEMMA Effects ==
    ASSUME StoreInv, NEW k \in Keys, NEW item,
           Items' = [j \in Keys |-> IF j = k THEN item ELSE Items[j]],
           timed' = IF item # None /\ item.exp # None THEN timed \cup {k} ELSE timed
    PROVE  /\ item = Items[k] => Contract!Keep
           /\ item = None => Contract!Remove({k})
           /\ \A val, exp : item = Item(val, exp) /\ item # None => Contract!Put(k, val, exp)
<1>1. Items[k] # None /\ Items[k].exp # None => k \in timed
  BY DEF StoreInv, TimedInv, Items, Keys, PlainKeys, HashKeys
<1>2. Items = [j \in Keys |-> Items[j]]
  BY DEF Items
<1>3. item = Items[k] => Contract!Keep
  BY <1>1, <1>2 DEF Contract!Keep
<1>4. item = None => Contract!Remove({k})
  BY Shared DEF Contract!Remove
<1>5. ASSUME NEW val, NEW exp, item = Item(val, exp), item # None
      PROVE  Contract!Put(k, val, exp)
  <2>1. item.exp = exp
    BY <1>5 DEF Item
  <2>2. [Items EXCEPT ![k] = [val |-> val, exp |-> exp]] = Items'
    BY <1>2, <1>5 DEF Item
  <2> QED BY <1>5, <2>1, <2>2 DEF Contract!Put
<1> QED BY <1>3, <1>4, <1>5

\* The same, for each of the two dictionaries.
LEMMA PlainSteps ==
    ASSUME StoreInv, NEW n \in Names, NEW item, NEW op, NEW result, Plain(n, item, op, result)
    PROVE  /\ Contract!Answer(op, <<"k", n>>, result)
           /\ item = dict[n] => Contract!Keep
           /\ item = None => Contract!Remove({<<"k", n>>})
           /\ \A val, exp : item = Item(val, exp) /\ item # None => Contract!Put(<<"k", n>>, val, exp)
<1>1. <<"k", n>> \in Keys /\ Items[<<"k", n>>] = dict[n]
  BY KeyForms, ItemsAt
<1> QED BY <1>1, PlainEffect, Effects

\* A command on a hash answers as the contract does, and keeps, removes or puts.
LEMMA HashSteps ==
    ASSUME StoreInv, NEW n \in Names, NEW item, NEW op, NEW result, Hash(n, item, op, result)
    PROVE  /\ Contract!Answer(op, <<"h", n>>, result)
           /\ item = hashes[n] => Contract!Keep
           /\ item = None => Contract!Remove({<<"h", n>>})
           /\ \A val, exp : item = Item(val, exp) /\ item # None => Contract!Put(<<"h", n>>, val, exp)
<1>1. <<"h", n>> \in Keys /\ Items[<<"h", n>>] = hashes[n]
  BY KeyForms, ItemsAt
<1> QED BY <1>1, HashEffect, Effects

\* The three answers of ttl: no deadline, time left, none left.
LEMMA RemainingIs ==
    ASSUME StoreInv, NEW item, item = None \/ item.exp \in Nat \cup {None}
    PROVE  /\ item = None \/ item.exp = None => Remaining(item) = None
           /\ Held(item) /\ item.exp # None => Remaining(item) = item.exp - now
           /\ Dead(item) => Remaining(item) = 0
<1>1. now \in Nat /\ None \notin Nat
  BY ClockType
<1> QED BY <1>1 DEF Remaining, Held, Dead

\* Each command on a plain key is a step of the contract.
LEMMA PlainRefines ==
    ASSUME StoreInv, NEW n \in Names, PlainCommand(n)
    PROVE  Contract!Next
<1> DEFINE k == <<"k", n>>
<1>0. /\ k \in Contract!PlainKeys /\ Items[k] = dict[n]
      /\ Contract!Live(k) <=> Held(dict[n])
      /\ Contract!Expired(k) <=> Dead(dict[n])
  BY Shared, KeyForms, ItemsAt, SharedState
<1> HIDE DEF k
<1>1. ASSUME NEW v \in Values, NEW ttl \in TTLs \cup {None}, Set(n, v, ttl)
      PROVE  Contract!Set(k, v, ttl)
  <2> DEFINE exp == IF ttl = None THEN None ELSE now + ttl
  <2>1. Plain(n, Item(v, exp), "set", None) /\ Item(v, exp) # None
    <3>1. exp \in Nat \cup {None}
      BY ClockType
    <3> QED BY <1>1, <3>1, ItemType DEF Set
  <2>2. Contract!Put(k, v, exp) /\ Contract!Answer("set", k, None)
    <3> HIDE DEF exp
    <3>1. \A item : Plain(n, item, "set", None) /\ item = Item(v, exp) /\ item # None =>
              Contract!Put(k, v, exp) /\ Contract!Answer("set", k, None)
      BY PlainSteps DEF k
    <3> QED BY <2>1, <3>1
  <2> QED BY <2>2 DEF Contract!Set, Contract!Deadline
<1>2. ASSUME Get(n)
      PROVE  Contract!Get(k)
  <2>1. CASE Held(dict[n]) /\ Plain(n, dict[n], "get", dict[n].val)
    <3>1. Contract!Keep /\ Contract!Answer("get", k, dict[n].val)
      BY <2>1, PlainSteps DEF k
    <3> QED BY <1>0, <2>1, <3>1 DEF Contract!Get, Contract!Read
  <2>2. CASE ~Held(dict[n]) /\ Plain(n, None, "get", None)
    <3>1. /\ Contract!Answer("get", k, None) /\ Contract!Remove({k})
          /\ dict[n] = None => Contract!Keep
      BY <2>2, PlainSteps DEF k
    <3> QED BY <1>0, <2>2, <3>1 DEF Contract!Get, Contract!Read, Held
  <2> QED BY <1>2, <2>1, <2>2 DEF Get
<1>3. ASSUME Delete(n)
      PROVE  Contract!Delete(k)
  BY <1>3, PlainSteps DEF Delete, Contract!Delete, k
<1>4. ASSUME Ttl(n)
      PROVE  Contract!TimeToLive("ttl", k)
  <2>1. Contract!Keep /\ Contract!Answer("ttl", k, Remaining(dict[n]))
    BY <1>4, PlainSteps DEF Ttl, k
  <2>2. dict[n] = None \/ dict[n].exp \in Nat \cup {None}
    BY EntryAt
  <2> QED BY <1>0, <2>1, <2>2, RemainingIs DEF Contract!TimeToLive, Held, Dead
<1>5. ASSUME NEW ttl \in TTLs, Expire(n, ttl)
      PROVE  Contract!Expire("expire", k, ttl)
  <2>1. CASE dict[n] = None /\ Plain(n, None, "expire", 0)
    BY <1>0, <2>1, PlainSteps DEF Contract!Expire, k
  <2>2. CASE dict[n] # None /\ Plain(n, Item(dict[n].val, now + ttl), "expire", 1)
    <3>1. Item(dict[n].val, now + ttl) # None
      BY <2>2, ClockType, EntryAt, ItemType
    <3>2. Contract!Put(k, dict[n].val, now + ttl) /\ Contract!Answer("expire", k, 1)
      BY <2>2, <3>1, PlainSteps DEF k
    <3> QED BY <1>0, <2>2, <3>2 DEF Contract!Expire
  <2> QED BY <1>5, <2>1, <2>2 DEF Expire
<1> QED BY <1>0, <1>1, <1>2, <1>3, <1>4, <1>5 DEF PlainCommand, Contract!Next

\* Each command on a hash is a step of the contract.
LEMMA HashRefines ==
    ASSUME StoreInv, NEW n \in Names, HashCommand(n)
    PROVE  Contract!Next
<1> DEFINE k == <<"h", n>>
<1>0. /\ k \in Contract!HashKeys /\ Items[k] = hashes[n]
      /\ Contract!Live(k) <=> Held(hashes[n])
      /\ Contract!Expired(k) <=> Dead(hashes[n])
  BY Shared, KeyForms, ItemsAt, SharedState
<1> HIDE DEF k
<1>1. ASSUME NEW f \in Fields, NEW v \in Values, HSet(n, f, v)
      PROVE  Contract!HSet(k, f, v)
  <2>1. CASE hashes[n] = None /\ Hash(n, Item(Stored(<<>>, f, v), None), "hset", 1)
    <3>1. Item(Stored(<<>>, f, v), None) # None
      <4>1. Stored(<<>>, f, v) \in Hashes
        BY StoredType
      <4>2. \A val \in Hashes : Item(val, None) # None
        BY EntryThere DEF Item, HashEntry
      <4> QED BY <4>1, <4>2
    <3>2. Contract!Put(k, Stored(<<>>, f, v), None) /\ Contract!Answer("hset", k, 1)
      BY <2>1, <3>1, HashSteps DEF k
    <3> QED BY <1>0, <2>1, <3>2, Shared DEF Contract!HSet, Contract!Deadline, Held
  <2>2. CASE /\ hashes[n] # None
             /\ Hash(n, Item(Stored(hashes[n].val, f, v), hashes[n].exp), "hset", Fresh(hashes[n].val, f))
    <3>1. Item(Stored(hashes[n].val, f, v), hashes[n].exp) # None
      BY <2>2, EntryAt, StoredType, ItemType
    <3>2. /\ Contract!Put(k, Stored(hashes[n].val, f, v), hashes[n].exp)
          /\ Contract!Answer("hset", k, Fresh(hashes[n].val, f))
      BY <2>2, <3>1, HashSteps DEF k
    <3> QED BY <1>0, <2>2, <3>2, Shared DEF Contract!HSet, Held
  <2> QED BY <1>1, <2>1, <2>2 DEF HSet
<1>2. ASSUME NEW f \in Fields, HGet(n, f)
      PROVE  Contract!HGet(k, f)
  <2>1. CASE Held(hashes[n]) /\ Hash(n, hashes[n], "hget", FieldOr(hashes[n].val, f, None))
    <3>1. Contract!Keep /\ Contract!Answer("hget", k, FieldOr(hashes[n].val, f, None))
      BY <2>1, HashSteps DEF k
    <3> QED BY <1>0, <2>1, <3>1, Shared DEF Contract!HGet, Contract!Read
  <2>2. CASE ~Held(hashes[n]) /\ Hash(n, None, "hget", None)
    <3>1. /\ Contract!Answer("hget", k, None) /\ Contract!Remove({k})
          /\ hashes[n] = None => Contract!Keep
      BY <2>2, HashSteps DEF k
    <3> QED BY <1>0, <2>2, <3>1 DEF Contract!HGet, Contract!Read, Held
  <2> QED BY <1>2, <2>1, <2>2 DEF HGet
<1>3. ASSUME HGetAll(n)
      PROVE  Contract!HGetAll(k)
  <2>1. CASE Held(hashes[n]) /\ Hash(n, hashes[n], "hgetall", hashes[n].val)
    <3>1. Contract!Keep /\ Contract!Answer("hgetall", k, hashes[n].val)
      BY <2>1, HashSteps DEF k
    <3> QED BY <1>0, <2>1, <3>1 DEF Contract!HGetAll, Contract!Read
  <2>2. CASE ~Held(hashes[n]) /\ Hash(n, None, "hgetall", <<>>)
    <3>1. /\ Contract!Answer("hgetall", k, <<>>) /\ Contract!Remove({k})
          /\ hashes[n] = None => Contract!Keep
      BY <2>2, HashSteps DEF k
    <3> QED BY <1>0, <2>2, <3>1 DEF Contract!HGetAll, Contract!Read, Held
  <2> QED BY <1>3, <2>1, <2>2 DEF HGetAll
<1>4. ASSUME NEW fs \in SUBSET Fields, HDel(n, fs)
      PROVE  Contract!HDel(k, fs)
  <2>1. CASE hashes[n] = None /\ Hash(n, None, "hdel", 0)
    <3>1. Contract!Keep /\ Contract!Answer("hdel", k, 0)
      BY <2>1, HashSteps DEF k
    <3> QED BY <1>0, <2>1, <3>1 DEF Contract!HDel, Held
  <2>2. ASSUME hashes[n] # None, DOMAIN hashes[n].val \subseteq fs,
               Hash(n, None, "hdel", Cardinality(DOMAIN hashes[n].val \cap fs))
        PROVE  Contract!HDel(k, fs)
    <3>1. /\ Contract!Remove({k})
          /\ Contract!Answer("hdel", k, Cardinality(DOMAIN hashes[n].val \cap fs))
      BY <2>2, HashSteps DEF k
    <3> QED BY <1>0, <2>2, <3>1, Shared DEF Contract!HDel, Held
  <2>3. ASSUME hashes[n] # None, ~(DOMAIN hashes[n].val \subseteq fs),
               Hash(n, Item(Without(hashes[n].val, fs), hashes[n].exp), "hdel",
                    Cardinality(DOMAIN hashes[n].val \cap fs))
        PROVE  Contract!HDel(k, fs)
    <3>1. Item(Without(hashes[n].val, fs), hashes[n].exp) # None
      BY <2>3, EntryAt, WithoutType, ItemType
    <3>2. /\ Contract!Put(k, Without(hashes[n].val, fs), hashes[n].exp)
          /\ Contract!Answer("hdel", k, Cardinality(DOMAIN hashes[n].val \cap fs))
      BY <2>3, <3>1, HashSteps DEF k
    <3> QED BY <1>0, <2>3, <3>2, Shared DEF Contract!HDel, Held
  <2> QED BY <1>4, <2>1, <2>2, <2>3 DEF HDel
<1>5. ASSUME NEW ttl \in TTLs, HExpire(n, ttl)
      PROVE  Contract!Expire("hexpire", k, ttl)
  <2>1. CASE hashes[n] = None /\ Hash(n, None, "hexpire", 0)
    BY <1>0, <2>1, HashSteps DEF Contract!Expire, k
  <2>2. CASE hashes[n] # None /\ Hash(n, Item(hashes[n].val, now + ttl), "hexpire", 1)
    <3>1. Item(hashes[n].val, now + ttl) # None
      BY <2>2, ClockType, EntryAt, ItemType
    <3>2. Contract!Put(k, hashes[n].val, now + ttl) /\ Contract!Answer("hexpire", k, 1)
      BY <2>2, <3>1, HashSteps DEF k
    <3> QED BY <1>0, <2>2, <3>2 DEF Contract!Expire
  <2> QED BY <1>5, <2>1, <2>2 DEF HExpire
<1>6. ASSUME HTtl(n)
      PROVE  Contract!TimeToLive("httl", k)
  <2>1. Contract!Keep /\ Contract!Answer("httl", k, Remaining(hashes[n]))
    BY <1>6, HashSteps DEF HTtl, k
  <2>2. hashes[n] = None \/ hashes[n].exp \in Nat \cup {None}
    BY EntryAt
  <2> QED BY <1>0, <2>1, <2>2, RemainingIs DEF Contract!TimeToLive, Held, Dead
<1> QED BY <1>0, <1>1, <1>2, <1>3, <1>4, <1>5, <1>6 DEF HashCommand, Contract!Next

\* The empty dictionaries are the contract's initial state.
LEMMA ContractInit == Init => Contract!Init
BY Shared DEF Init, Contract!Init, Items, Keys, PlainKeys, HashKeys

\* Each step is one of the contract's or leaves its variables alone.
LEMMA ContractNext == StoreInv /\ [Next]_vars => [Contract!Next]_(Contract!vars)
<1> SUFFICES ASSUME StoreInv, [Next]_vars PROVE [Contract!Next]_(Contract!vars)
  OBVIOUS
<1>1. CASE WatcherPass
  <2> DEFINE ks == {k \in Keys : Dead(Items[k])}
  <2>1. Items' = [k \in Keys |-> IF k \in ks THEN None ELSE Items[k]]
    BY <1>1 DEF WatcherPass, Purged, Items, Keys, PlainKeys, HashKeys
  <2>2. Contract!Purge(ks)
    BY <1>1, <2>1, Shared, SharedState DEF WatcherPass, Contract!Purge, Contract!Remove
  <2> QED BY <2>2, Shared DEF Contract!Next
<1>2. CASE Restart
  <2>1. Items' = [k \in Keys |-> IF k \in Keys THEN None ELSE Items[k]]
    BY <1>2 DEF Restart, Items, Keys, PlainKeys, HashKeys
  <2>2. Contract!Restart
    BY <1>2, <2>1, Shared DEF Restart, Contract!Restart, Contract!Remove
  <2> QED BY <2>2 DEF Contract!Next
<1>3. CASE WatcherWakes \/ UNCHANGED vars
  BY <1>3 DEF WatcherWakes, vars, Contract!vars, Items
<1>4. CASE Tick
  BY <1>4 DEF Tick, Contract!Tick, Contract!Next, Items
<1> QED BY <1>1, <1>2, <1>3, <1>4, PlainRefines, HashRefines DEF Next, PlainCommand, HashCommand

\* Every step of the store is one the contract allows, or none (in_memory.py,
\* key_value_store/base.py).
THEOREM ImplementsContract == Spec => Implements
<1> QED BY StoreInit, StoreNext, ContractInit, ContractNext, PTL DEF Spec, Implements, Contract!Spec

=============================================================================
