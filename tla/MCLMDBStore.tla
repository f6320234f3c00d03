----------------------------- MODULE MCLMDBStore -----------------------------
(***************************************************************************)
(* Model checking of LMDBStore against KeyValueStore.                      *)
(***************************************************************************)
EXTENDS LMDBStore
=============================================================================
