------------------------------ MODULE MCAccounts ------------------------------
(***************************************************************************)
(* Model checking of Accounts: the default roles, and a role of the host's *)
(* own that manages two others.  Between a read and its commit both the    *)
(* role an account has and the one it gets may have changed.               *)
(***************************************************************************)
EXTENDS Accounts, TLC

CONSTANTS i1, i2, i3, i4, e1, e2, e3, e4, x1

Managed == {"user", "support"}
ManagesUsers == [create |-> Managed, update |-> Managed, delete |-> Managed]
MCRoles == {"admin", "manager", "user", "support", "stranger"}
MCDefaultRoles == {"admin", "user", "support"}
MCRoleTable == ("manager" :> ManagesUsers) @@ ("user" :> None)
MCDefaultRules == "admin" :> ManagesUsers

\* An administrator, and a manager who signs in by Telegram.
MCHostRows ==
    (i1 :> [email |-> e1, ext |-> None, provider |-> "email", role |-> "admin",
            active |-> TRUE, verified |-> TRUE]) @@
    (i2 :> [email |-> e2, ext |-> x1, provider |-> "telegram", role |-> "manager",
            active |-> TRUE, verified |-> TRUE])

MCPayloads ==
    {[role |-> role] : role \in MCRoles} \cup
    {[email |-> e3, ext |-> x1, active |-> TRUE]}

\* What AuthorisedAtCommit needs.
ASSUME MCRulesUniform == UniformRules

Symmetry == Permutations(Requests) \cup Permutations({i3, i4})
=============================================================================
