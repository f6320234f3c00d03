-------------------------- MODULE MCRequestPipeline --------------------------
EXTENDS RequestPipeline

CONSTANTS u1, u2, USER, ADMIN, client, other, proxy, mail, forged

Asks(mode, verified, active, roles, optional) ==
    [mode |-> mode, verified |-> verified, active |-> active, roles |-> roles, optional |-> optional]

\* /sign-in, /logout, /refresh, /api-tokens, and a route of the host application
\* that asks three times, once for a role or for any.
MCRoutes ==
    { [limiter |-> "email", body |-> TRUE, asks |-> <<>>],
      [limiter |-> "logout", body |-> FALSE, asks |-> <<Asks("any", TRUE, TRUE, {}, TRUE)>>],
      [limiter |-> "refresh", body |-> FALSE, asks |-> <<Asks("any", TRUE, TRUE, {}, FALSE)>>],
      [limiter |-> "address", body |-> FALSE, asks |-> <<Asks("access_only", FALSE, FALSE, {}, FALSE)>>],
      [limiter |-> "none", body |-> FALSE,
       asks |-> <<Asks("any", TRUE, FALSE, {USER, "*"}, TRUE), Asks("api_only", FALSE, TRUE, {}, TRUE),
                  Asks("any", FALSE, FALSE, {ADMIN}, FALSE)>>] }

\* A deactivated administrator, and a user who has not verified the e-mail.
MCAccountStates ==
    { [active |-> FALSE, verified |-> TRUE, role |-> ADMIN],
      [active |-> TRUE, verified |-> FALSE, role |-> USER] }

\* An address of the allowlist, which the client makes up, and an empty entry.
MCClaims == { <<client, Blank>> }
=============================================================================
