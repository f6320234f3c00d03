----------------------------- MODULE MCSessions -----------------------------
(***************************************************************************)
(* Model checking of Sessions: request slots and administrators are        *)
(* interchangeable.                                                        *)
(***************************************************************************)
EXTENDS Sessions, TLC

\* Accounts start on version 1, the model default, or on NULL.
MCInitVersions == {1, None}
MCVersionOne == {1}

Symmetry ==
    Permutations(Requests) \cup Permutations(Admins)

=============================================================================
