---------------------------- MODULE InMemoryStore ----------------------------
(***************************************************************************)
(* InMemoryKeyValueStore: two dictionaries behind one lock, shared by the  *)
(* event loop and a watcher thread that purges once a second.  A command   *)
(* holds the lock throughout and is one step.                              *)
(***************************************************************************)
EXTENDS KeyValues

VARIABLES
    dict,      \* _dict, by name
    hashes,    \* _hashes, by name
    watcher,   \* "scanning" or "sleeping"
    timed, reply, now

vars == <<dict, hashes, watcher, timed, reply, now>>

TypeOK ==
    /\ dict \in [Names -> PlainEntry \cup {None}]
    /\ hashes \in [Names -> HashEntry \cup {None}]
    /\ watcher \in {"scanning", "sleeping"}
    /\ timed \subseteq Keys
    /\ now \in 0 .. MaxTime

Init ==
    /\ dict = [n \in Names |-> None]
    /\ hashes = [n \in Names |-> None]
    /\ watcher = "scanning"
    /\ timed = {}
    /\ reply = <<"none", None, None>>
    /\ now = 0

-----------------------------------------------------------------------------
Dead(item) == item # None /\ item.exp # None /\ now > item.exp
Held(item) == item # None /\ ~Dead(item)

\* What a command does to one name, what it answers, and which key it timed.
Plain(n, item, op, result) ==
    /\ dict' = [dict EXCEPT ![n] = item]
    /\ reply' = <<op, <<"k", n>>, result>>
    /\ timed' = IF item # None /\ item.exp # None THEN timed \cup {<<"k", n>>} ELSE timed
    /\ UNCHANGED <<hashes, watcher, now>>
Hash(n, item, op, result) ==
    /\ hashes' = [hashes EXCEPT ![n] = item]
    /\ reply' = <<op, <<"h", n>>, result>>
    /\ timed' = IF item # None /\ item.exp # None THEN timed \cup {<<"h", n>>} ELSE timed
    /\ UNCHANGED <<dict, watcher, now>>

Item(val, exp) == [val |-> val, exp |-> exp]
Remaining(item) ==
    CASE item = None -> None
      [] item # None /\ item.exp = None -> None
      [] OTHER -> IF item.exp > now THEN item.exp - now ELSE 0

\* Plain keys.
Set(n, v, ttl) == Plain(n, Item(v, IF ttl = None THEN None ELSE now + ttl), "set", None)
Get(n) ==
    \/ Held(dict[n]) /\ Plain(n, dict[n], "get", dict[n].val)
    \/ ~Held(dict[n]) /\ Plain(n, None, "get", None)
Delete(n) == Plain(n, None, "delete", None)
Expire(n, ttl) ==
    \/ dict[n] = None /\ Plain(n, None, "expire", 0)
    \/ dict[n] # None /\ Plain(n, Item(dict[n].val, now + ttl), "expire", 1)
Ttl(n) == Plain(n, dict[n], "ttl", Remaining(dict[n]))

\* Hashes.  Writing and deleting fields pays no heed to the deadline.
HSet(n, f, v) ==
    \/ hashes[n] = None /\ Hash(n, Item(Stored(<<>>, f, v), None), "hset", 1)
    \/ /\ hashes[n] # None
       /\ LET h == hashes[n].val IN
          Hash(n, Item(Stored(h, f, v), hashes[n].exp), "hset", Fresh(h, f))
HGet(n, f) ==
    \/ Held(hashes[n]) /\ Hash(n, hashes[n], "hget", FieldOr(hashes[n].val, f, None))
    \/ ~Held(hashes[n]) /\ Hash(n, None, "hget", None)
\* Deviation: hgetall without its look at the deadline.
HGetAllUnchecked(n) ==
    \/ hashes[n] # None /\ Hash(n, hashes[n], "hgetall", hashes[n].val)
    \/ hashes[n] = None /\ Hash(n, None, "hgetall", <<>>)
HGetAll(n) ==
    \/ Held(hashes[n]) /\ Hash(n, hashes[n], "hgetall", hashes[n].val)
    \/ ~Held(hashes[n]) /\ Hash(n, None, "hgetall", <<>>)
\* Deviation: a hash that lost its last field stays.
HDelKeepsEmpty(n, fs) ==
    \/ hashes[n] = None /\ Hash(n, None, "hdel", 0)
    \/ /\ hashes[n] # None
       /\ LET h == hashes[n].val IN
          Hash(n, Item(Without(h, fs), hashes[n].exp), "hdel", Cardinality(DOMAIN h \cap fs))
HDel(n, fs) ==
    \/ hashes[n] = None /\ Hash(n, None, "hdel", 0)
    \/ /\ hashes[n] # None
       /\ LET h == hashes[n].val IN
          Hash(n, IF DOMAIN h \subseteq fs THEN None ELSE Item(Without(h, fs), hashes[n].exp),
               "hdel", Cardinality(DOMAIN h \cap fs))
HExpire(n, ttl) ==
    \/ hashes[n] = None /\ Hash(n, None, "hexpire", 0)
    \/ hashes[n] # None /\ Hash(n, Item(hashes[n].val, now + ttl), "hexpire", 1)
HTtl(n) == Hash(n, hashes[n], "httl", Remaining(hashes[n]))

-----------------------------------------------------------------------------
Purged(items) == [n \in Names |-> IF Dead(items[n]) THEN None ELSE items[n]]
\* Deviation: the watcher forgets the hashes.
WatcherPassPlainOnly ==
    /\ watcher = "scanning" /\ watcher' = "sleeping"
    /\ dict' = Purged(dict)
    /\ UNCHANGED <<hashes, timed, reply, now>>
WatcherPass ==
    /\ watcher = "scanning" /\ watcher' = "sleeping"
    /\ dict' = Purged(dict) /\ hashes' = Purged(hashes)
    /\ UNCHANGED <<timed, reply, now>>
WatcherWakes ==
    /\ watcher = "sleeping" /\ watcher' = "scanning"
    /\ UNCHANGED <<dict, hashes, timed, reply, now>>

\* Another process starts empty.
Restart ==
    /\ dict' = [n \in Names |-> None] /\ hashes' = [n \in Names |-> None]
    /\ watcher' = "scanning"
    /\ UNCHANGED <<timed, reply, now>>

Tick == now < MaxTime /\ now' = now + 1 /\ UNCHANGED <<dict, hashes, watcher, timed, reply>>

Next ==
    \/ \E n \in Names :
          \/ \E v \in Values, ttl \in TTLs \cup {None} : Set(n, v, ttl)
          \/ Get(n) \/ Delete(n) \/ Ttl(n)
          \/ \E ttl \in TTLs : Expire(n, ttl)
          \/ \E f \in Fields : HGet(n, f) \/ \E v \in Values : HSet(n, f, v)
          \/ \E fs \in SUBSET Fields : HDel(n, fs)
          \/ HGetAll(n) \/ HTtl(n)
          \/ \E ttl \in TTLs : HExpire(n, ttl)
    \/ WatcherPass \/ WatcherWakes
    \/ Restart
    \/ Tick

\* The thread loops forever; its pass waits only for a lock that every command
\* gives back.
Fairness == WF_vars(WatcherWakes) /\ WF_vars(WatcherPass)

Spec == Init /\ [][Next]_vars /\ Fairness

-----------------------------------------------------------------------------
\* in_memory.py keeps the contract of the stores but for three things: a hash
\* gets no deadline of its own, a command on an expired hash that nobody purged
\* yet finds its fields, and nothing survives the process.
Items == [k \in Keys |-> IF k[1] = "k" THEN dict[k[2]] ELSE hashes[k[2]]]
Contract == INSTANCE KeyValueStore WITH entries <- Items, DefaultTTL <- None,
                LosesTimedKeys <- FALSE, KeepsDeadFields <- TRUE, Durable <- FALSE
Implements == Contract!Spec

\* Whatever has expired is in the end purged or given a new life, read or not.
Expired(k) == Dead(Items[k])
EventuallyPurged == \A k \in Keys : Expired(k) ~> ~Expired(k)
=============================================================================
