--------------------------- MODULE MCInMemoryStore ---------------------------
(***************************************************************************)
(* Model checking of InMemoryStore against KeyValueStore.                  *)
(***************************************************************************)
EXTENDS InMemoryStore
=============================================================================
