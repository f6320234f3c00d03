--------------------------- MODULE KeyValuesProofs ---------------------------
(***************************************************************************)
(* Lemmas about the data of the key-value stores, for the proofs about     *)
(* LMDBStore and InMemoryStore.                                            *)
(***************************************************************************)
EXTENDS KeyValues, TLAPS

\* A hash is a function from some of the fields, at least one, to values.
LEMMA HashDomain ==
    ASSUME NEW h \in Hashes
    PROVE  DOMAIN h \in (SUBSET Fields) \ {{}} /\ h \in [DOMAIN h -> Values]
BY DEF Hashes

\* And every such function is a hash.
LEMMA HashIntro ==
    ASSUME NEW fs \in (SUBSET Fields) \ {{}}, NEW h \in [fs -> Values]
    PROVE  h \in Hashes
BY DEF Hashes

\* Storing a field in a hash, or in none, leaves a hash.
LEMMA StoredType ==
    ASSUME NEW h, h = <<>> \/ h \in Hashes, NEW f \in Fields, NEW v \in Values
    PROVE  Stored(h, f, v) \in Hashes
<1>1. DOMAIN h \in SUBSET Fields /\ \A g \in DOMAIN h : h[g] \in Values
  BY HashDomain
<1>2. DOMAIN h \cup {f} \in (SUBSET Fields) \ {{}}
  BY <1>1
<1>3. Stored(h, f, v) \in [DOMAIN h \cup {f} -> Values]
  BY <1>1 DEF Stored
<1> QED BY <1>2, <1>3, HashIntro

\* So does deleting fields, while one is left.
LEMMA WithoutType ==
    ASSUME NEW h \in Hashes, NEW fs, ~(DOMAIN h \subseteq fs)
    PROVE  Without(h, fs) \in Hashes
<1>1. DOMAIN h \ fs \in (SUBSET Fields) \ {{}} /\ \A g \in DOMAIN h \ fs : h[g] \in Values
  BY HashDomain
<1>2. Without(h, fs) \in [DOMAIN h \ fs -> Values]
  BY <1>1 DEF Without, Restrict
<1> QED BY <1>1, <1>2, HashIntro

\* An entry with a deadline or without one.
LEMMA EntryType ==
    ASSUME NEW val, NEW exp \in Nat \cup {None}
    PROVE  /\ val \in Values => [val |-> val, exp |-> exp] \in PlainEntry
           /\ val \in Hashes => [val |-> val, exp |-> exp] \in HashEntry
           /\ [val |-> val, exp |-> exp].val = val /\ [val |-> val, exp |-> exp].exp = exp
BY DEF PlainEntry, HashEntry

\* Entries are there, and the two kinds of keys are different.
LEMMA EntryThere ==
    /\ None \notin PlainEntry /\ None \notin HashEntry /\ None \notin Nat
    /\ \A e \in PlainEntry : e.val \in Values /\ e.exp \in Nat \cup {None}
    /\ \A e \in HashEntry : e.val \in Hashes /\ e.exp \in Nat \cup {None}
BY NoneAssumption DEF PlainEntry, HashEntry

\* A key is plain or a hash, never both, and is its namespace with its name.
LEMMA KeyForms ==
    /\ PlainKeys \subseteq Keys /\ HashKeys \subseteq Keys
    /\ \A k \in Keys : (k \in PlainKeys) # (k \in HashKeys)
    /\ \A n \in Names : <<"k", n>> \in PlainKeys /\ <<"h", n>> \in HashKeys
    /\ \A k \in PlainKeys : k[1] = "k" /\ k[2] \in Names /\ k = <<"k", k[2]>>
    /\ \A k \in HashKeys : k[1] = "h" /\ k[2] \in Names /\ k = <<"h", k[2]>>
BY DEF Keys, PlainKeys, HashKeys
=============================================================================
