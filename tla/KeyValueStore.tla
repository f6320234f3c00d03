---------------------------- MODULE KeyValueStore ----------------------------
(***************************************************************************)
(* The contract of KeyValueStoreABS: keys that hold one value and keys     *)
(* that hold fields, each with an optional deadline.  A key is readable    *)
(* until its deadline has passed; what has expired may linger unread until *)
(* somebody removes it.                                                    *)
(*                                                                         *)
(* Three constants name the ways in which a store may fall short of this.  *)
(* Each store is shown to implement the contract with the ones it needs.   *)
(***************************************************************************)
EXTENDS KeyValues

CONSTANTS
    DefaultTTL,       \* lifetime of a hash that got none (None: no deadline)
    LosesTimedKeys,   \* a read may erase a live key that ever had a deadline
    KeepsDeadFields,  \* commands on an expired hash still find its fields
    Durable           \* the contents survive the process

VARIABLES
    entries,   \* what is stored
    timed,     \* history: keys that have had a deadline
    reply,     \* the last answer: operation, key, result
    now

vars == <<entries, timed, reply, now>>

Expired(k) == entries[k] # None /\ entries[k].exp # None /\ now > entries[k].exp
Live(k) == entries[k] # None /\ ~Expired(k)
Deadline(ttl) == IF ttl = None THEN None ELSE now + ttl

\* Writing an entry, and answering, leave the rest alone.
Put(k, val, exp) ==
    /\ entries' = [entries EXCEPT ![k] = [val |-> val, exp |-> exp]]
    /\ timed' = IF exp = None THEN timed ELSE timed \cup {k}
Remove(ks) == entries' = [k \in Keys |-> IF k \in ks THEN None ELSE entries[k]] /\ UNCHANGED timed
Keep == UNCHANGED <<entries, timed>>
Answer(op, k, result) == reply' = <<op, k, result>> /\ UNCHANGED now

Init ==
    /\ entries = [k \in Keys |-> None]
    /\ timed = {}
    /\ reply = <<"none", None, None>>
    /\ now = 0

-----------------------------------------------------------------------------
Set(k, v, ttl) == Answer("set", k, None) /\ Put(k, v, Deadline(ttl))

Delete(k) == Answer("delete", k, None) /\ Remove({k})

\* Reading: result is what a live key answers, missing what any other does.
\* An expired key may be cleared on the way.
Read(op, k, result, missing) ==
    \/ Live(k) /\ Answer(op, k, result) /\ Keep
    \/ ~Live(k) /\ Answer(op, k, missing) /\ Keep
    \/ Expired(k) /\ Answer(op, k, missing) /\ Remove({k})
    \/ LosesTimedKeys /\ k \in timed /\ Answer(op, k, missing) /\ Remove({k})

Get(k) == Read("get", k, entries[k].val, None)

HGet(k, f) == Read("hget", k, FieldOr(entries[k].val, f, None), None)
HGetAll(k) == Read("hgetall", k, entries[k].val, <<>>)

\* A deadline can be given to any key that is still there, expired or not.
Expire(op, k, ttl) ==
    \/ entries[k] = None /\ Answer(op, k, 0) /\ Keep
    \/ entries[k] # None /\ Answer(op, k, 1) /\ Put(k, entries[k].val, now + ttl)

\* Nothing is left of an expired key; how much below nothing is not promised.
TimeToLive(op, k) ==
    /\ Keep
    /\ \/ Live(k) /\ entries[k].exp # None /\ Answer(op, k, entries[k].exp - now)
       \/ Expired(k) /\ \E left \in {0, entries[k].exp - now} : Answer(op, k, left)
       \/ (entries[k] = None \/ entries[k].exp = None) /\ Answer(op, k, None)

\* A field joins those that are readable; the deadline of a live key stays.
HSet(k, f, v) ==
    \/ /\ ~Live(k)
       /\ Answer("hset", k, 1) /\ Put(k, Stored(<<>>, f, v), Deadline(DefaultTTL))
    \/ /\ Live(k) \/ (KeepsDeadFields /\ Expired(k))
       /\ Answer("hset", k, Fresh(entries[k].val, f))
       /\ Put(k, Stored(entries[k].val, f, v), entries[k].exp)

\* The last field takes the key with it.
HDel(k, fs) ==
    \/ ~Live(k) /\ Keep /\ Answer("hdel", k, 0)
    \/ Expired(k) /\ Remove({k}) /\ Answer("hdel", k, 0)
    \/ /\ Live(k) \/ (KeepsDeadFields /\ Expired(k))
       /\ LET h == entries[k].val IN
          /\ IF DOMAIN h \subseteq fs THEN Remove({k})
                                      ELSE Put(k, Without(h, fs), entries[k].exp)
          /\ Answer("hdel", k, Cardinality(DOMAIN h \cap fs))

\* What has expired may go at any time.
Purge(ks) == (\A k \in ks : Expired(k)) /\ Remove(ks) /\ UNCHANGED <<reply, now>>

Restart ==
    /\ ~Durable
    /\ Remove(Keys)
    /\ UNCHANGED <<reply, now>>

Tick == now < MaxTime /\ now' = now + 1 /\ UNCHANGED <<entries, timed, reply>>

Next ==
    \/ \E k \in PlainKeys :
          \/ \E v \in Values, ttl \in TTLs \cup {None} : Set(k, v, ttl)
          \/ Get(k) \/ Delete(k) \/ TimeToLive("ttl", k)
          \/ \E ttl \in TTLs : Expire("expire", k, ttl)
    \/ \E k \in HashKeys :
          \/ \E f \in Fields : HGet(k, f) \/ \E v \in Values : HSet(k, f, v)
          \/ \E fs \in SUBSET Fields : HDel(k, fs)
          \/ HGetAll(k) \/ TimeToLive("httl", k)
          \/ \E ttl \in TTLs : Expire("hexpire", k, ttl)
    \/ \E ks \in SUBSET Keys : Purge(ks)
    \/ Restart
    \/ Tick

Spec == Init /\ [][Next]_vars
=============================================================================
