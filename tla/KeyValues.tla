------------------------------ MODULE KeyValues ------------------------------
(***************************************************************************)
(* What the key-value stores hold: the data that the contract              *)
(* (KeyValueStore) and the stores (LMDBStore, InMemoryStore) share.        *)
(***************************************************************************)
EXTENDS Integers, FiniteSets, Functions

CONSTANTS
    Names,            \* names the callers use, in both namespaces
    Fields, Values,
    None,             \* absent, and "no deadline"
    TTLs,             \* lifetimes the callers ask for
    MaxTime           \* bound on the clock

\* A name stands for two keys, told apart by a prefix.
PlainKeys == {"k"} \X Names
HashKeys == {"h"} \X Names
Keys == PlainKeys \cup HashKeys

\* An entry: a value or the fields of a hash, and when it expires.
Hashes == UNION {[fs -> Values] : fs \in (SUBSET Fields) \ {{}}}
PlainEntry == [val : Values, exp : Nat \cup {None}]
HashEntry == [val : Hashes, exp : Nat \cup {None}]

ASSUME NoneAssumption == None \notin Nat \cup Values \cup PlainEntry \cup HashEntry
ASSUME TimeAssumption == TTLs \subseteq Nat /\ MaxTime \in Nat

\* Hashes as functions of their fields.
FieldOr(h, f, missing) == IF f \in DOMAIN h THEN h[f] ELSE missing
Stored(h, f, v) == [g \in DOMAIN h \cup {f} |-> IF g = f THEN v ELSE h[g]]
Fresh(h, f) == IF f \in DOMAIN h THEN 0 ELSE 1
Without(h, fs) == Restrict(h, DOMAIN h \ fs)
=============================================================================
