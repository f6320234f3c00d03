----------------------------- MODULE MCApiTokens ----------------------------
(***************************************************************************)
(* Model checking of ApiTokens.                                            *)
(***************************************************************************)
EXTENDS ApiTokens, TLC

\* No expiry, one already past at creation, one that passes during the run.
MCLifetimes == {None, 0, 1}

Symmetry ==
    Permutations(Users) \cup Permutations(Keys) \cup Permutations(Addresses)
        \cup Permutations(Workers)

=============================================================================
