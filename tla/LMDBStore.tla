------------------------------ MODULE LMDBStore ------------------------------
(***************************************************************************)
(* LMDBKeyValueStore: one durable environment, one transaction per command *)
(* on a thread of the pool, and a watcher thread that purges what expired. *)
(*                                                                         *)
(* A write transaction is one step.  The three reads check the deadline    *)
(* after their transaction has ended and delete in a second one: between   *)
(* the two the key may have been written again.                            *)
(***************************************************************************)
EXTENDS KeyValues

CONSTANTS
    Threads,       \* of the pool, that can be held up in the middle of a read
    DefaultTTL     \* LMDB_DEFAULT_TTL

ASSUME DefaultAssumption == DefaultTTL \in Nat

VARIABLES
    db,        \* the committed environment
    req,       \* per thread, a read whose deadline check is still to come
    watcher,   \* "scanning" or "sleeping"
    timed, reply, now

vars == <<db, req, watcher, timed, reply, now>>

Reads == {"get", "hget", "hgetall"}
TypeOK ==
    /\ \A k \in PlainKeys : db[k] \in PlainEntry \cup {None}
    /\ \A k \in HashKeys : db[k] \in HashEntry \cup {None}
    /\ req \in [Threads -> [op : Reads, key : Keys, exp : Nat] \cup {None}]
    /\ watcher \in {"scanning", "sleeping"}
    /\ timed \subseteq Keys
    /\ now \in 0 .. MaxTime

Init ==
    /\ db = [k \in Keys |-> None]
    /\ req = [t \in Threads |-> None]
    /\ watcher = "scanning"
    /\ timed = {}
    /\ reply = <<"none", None, None>>
    /\ now = 0

-----------------------------------------------------------------------------
Absent(k) == db[k] = None
Expired(k) == ~Absent(k) /\ db[k].exp # None /\ now > db[k].exp

Put(k, val, exp) ==
    /\ db' = [db EXCEPT ![k] = [val |-> val, exp |-> exp]]
    /\ timed' = IF exp = None THEN timed ELSE timed \cup {k}
Erase(ks) == db' = [k \in Keys |-> IF k \in ks THEN None ELSE db[k]] /\ UNCHANGED timed
Keep == UNCHANGED <<db, timed>>
Return(op, k, result) == reply' = <<op, k, result>> /\ UNCHANGED <<req, watcher, now>>

\* A read answers from its transaction, unless the deadline it saw in there
\* has passed by the time it looks at the clock.
Missing(op) == IF op = "hgetall" THEN <<>> ELSE None
Read(t, op, k, result) ==
    \/ Absent(k) /\ Keep /\ Return(op, k, Missing(op))
    \/ ~Absent(k) /\ ~Expired(k) /\ Keep /\ Return(op, k, result)
    \/ /\ req[t] = None /\ ~Absent(k) /\ db[k].exp # None
       /\ req' = [req EXCEPT ![t] = [op |-> op, key |-> k, exp |-> db[k].exp]]
       /\ UNCHANGED <<db, watcher, timed, reply, now>>

EraseLate(t) ==
    /\ req[t] # None /\ now > req[t].exp
    /\ Erase({req[t].key})
    /\ reply' = <<req[t].op, req[t].key, Missing(req[t].op)>>
    /\ req' = [req EXCEPT ![t] = None]
    /\ UNCHANGED <<watcher, now>>

Expire(op, k, ttl) ==
    \/ Absent(k) /\ Keep /\ Return(op, k, 0)
    \/ ~Absent(k) /\ Put(k, db[k].val, now + ttl) /\ Return(op, k, 1)

TimeToLive(op, k) ==
    /\ Keep
    /\ \/ Absent(k) /\ Return(op, k, None)
       \/ ~Absent(k) /\ Return(op, k, IF db[k].exp = None THEN None ELSE db[k].exp - now)

-----------------------------------------------------------------------------
\* Plain keys.
Set(k, v, ttl) == Put(k, v, IF ttl = None THEN None ELSE now + ttl) /\ Return("set", k, None)
Get(t, k) == Read(t, "get", k, db[k].val)
DeleteK(k) == Erase({k}) /\ Return("delete", k, None)
ExpireK(k, ttl) == Expire("expire", k, ttl)
TtlK(k) == TimeToLive("ttl", k)

\* Deviation: hset without its look at the deadline.
HSetUnchecked(k, f, v) ==
    \/ /\ Absent(k)
       /\ Put(k, Stored(<<>>, f, v), now + DefaultTTL) /\ Return("hset", k, 1)
    \/ /\ ~Absent(k)
       /\ Put(k, Stored(db[k].val, f, v), db[k].exp)
       /\ Return("hset", k, Fresh(db[k].val, f))
\* Hashes.  What is written to an expired hash starts a new one.
HSet(k, f, v) ==
    \/ /\ Absent(k) \/ Expired(k)
       /\ Put(k, Stored(<<>>, f, v), now + DefaultTTL) /\ Return("hset", k, 1)
    \/ /\ ~Absent(k) /\ ~Expired(k)
       /\ Put(k, Stored(db[k].val, f, v),
              IF db[k].exp = None THEN now + DefaultTTL ELSE db[k].exp)
       /\ Return("hset", k, Fresh(db[k].val, f))

HGet(t, k, f) == Read(t, "hget", k, FieldOr(db[k].val, f, None))
HGetAll(t, k) == Read(t, "hgetall", k, db[k].val)

\* Deviation: a hash that lost its last field is written back empty.
HDelKeepsEmpty(k, fs) ==
    \/ Absent(k) /\ Keep /\ Return("hdel", k, 0)
    \/ /\ ~Absent(k)
       /\ Put(k, Without(db[k].val, fs), db[k].exp)
       /\ Return("hdel", k, Cardinality(DOMAIN db[k].val \cap fs))
HDel(k, fs) ==
    \/ Absent(k) /\ Keep /\ Return("hdel", k, 0)
    \/ Expired(k) /\ Erase({k}) /\ Return("hdel", k, 0)
    \/ /\ ~Absent(k) /\ ~Expired(k)
       /\ IF DOMAIN db[k].val \subseteq fs THEN Erase({k})
                                           ELSE Put(k, Without(db[k].val, fs), db[k].exp)
       /\ Return("hdel", k, Cardinality(DOMAIN db[k].val \cap fs))

ExpireH(k, ttl) == Expire("hexpire", k, ttl)
TtlH(k) == TimeToLive("httl", k)

-----------------------------------------------------------------------------
PlainCall(t, k) ==
    \/ \E v \in Values, ttl \in TTLs \cup {None} : Set(k, v, ttl)
    \/ Get(t, k) \/ DeleteK(k) \/ TtlK(k)
    \/ \E ttl \in TTLs : ExpireK(k, ttl)

HashCall(t, k) ==
    \/ \E f \in Fields : HGet(t, k, f) \/ \E v \in Values : HSet(k, f, v)
    \/ \E fs \in SUBSET Fields : HDel(k, fs)
    \/ HGetAll(t, k) \/ TtlH(k)
    \/ \E ttl \in TTLs : ExpireH(k, ttl)

\* The watcher.  A pass is one transaction; an exception loses the pass.
WatcherPass ==
    /\ watcher = "scanning"
    /\ Erase({k \in Keys : Expired(k)})
    /\ watcher' = "sleeping" /\ UNCHANGED <<req, reply, now>>
\* Deviation: an exception ends the thread.
WatcherFaultFatal == watcher = "scanning" /\ watcher' = "ended" /\ UNCHANGED <<db, req, timed, reply, now>>
WatcherFault == watcher = "scanning" /\ watcher' = "sleeping" /\ UNCHANGED <<db, req, timed, reply, now>>
WatcherWakes == watcher = "sleeping" /\ watcher' = "scanning" /\ UNCHANGED <<db, req, timed, reply, now>>

\* The process dies and starts again over the same environment.
Restart ==
    /\ req' = [t \in Threads |-> None]
    /\ watcher' = "scanning"
    /\ UNCHANGED <<db, timed, reply, now>>

Tick == now < MaxTime /\ now' = now + 1 /\ UNCHANGED <<db, req, watcher, timed, reply>>

Next ==
    \/ \E t \in Threads :
          \/ \E k \in PlainKeys : PlainCall(t, k)
          \/ \E k \in HashKeys : HashCall(t, k)
          \/ EraseLate(t)
    \/ WatcherPass \/ WatcherFault \/ WatcherWakes
    \/ Restart
    \/ Tick

\* The watcher never stops for good, and not every pass meets an exception.
Fairness == WF_vars(WatcherWakes) /\ SF_vars(WatcherPass)

Spec == Init /\ [][Next]_vars /\ Fairness

-----------------------------------------------------------------------------
\* lmdb_store.py keeps the contract of the stores, with one exception: a read
\* that saw an expired key may erase what was written there since.  Only keys
\* that have had a deadline are ever lost that way.
Contract == INSTANCE KeyValueStore WITH entries <- db,
                LosesTimedKeys <- TRUE, KeepsDeadFields <- FALSE, Durable <- TRUE
Implements == Contract!Spec

\* Whatever has expired is in the end purged or given a new life, read or not,
\* although the watcher sleeps between passes, loses some to exceptions and
\* starts over with the process.
EventuallyPurged == \A k \in Keys : Expired(k) ~> ~Expired(k)
=============================================================================
