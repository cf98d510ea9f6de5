----------------------------- MODULE MCAwaitRetry -----------------------------
EXTENDS AwaitRetry

\* Deadline before, between and after the attempts, a policy with a single
\* attempt, and the values the loader refuses but a hand-built case may hold.
MCPolicies ==
    [timeout : {0, 2, 4}, interval : {0, 1, 2}, maxAttempts : {0, 1, 2, 3}]

\* A timeout beyond backoff's limit on elapsed time.
MCLongPolicies == {[timeout |-> 5, interval |-> 2, maxAttempts |-> 4]}
=============================================================================
