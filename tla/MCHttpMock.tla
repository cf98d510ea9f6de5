------------------------------ MODULE MCHttpMock ------------------------------
EXTENDS HttpMock

CONSTANTS a, b

MCRequests == {a, b}

\* Calls for one request and for both, with every count up to two and both count
\* modes, and one for the other request so that plans may be disjoint.
MCCalls ==
    [matches : {{a}, {a, b}}, count : 0 .. 2, mode : {"exact", "at_least"}]
        \cup [matches : {{b}}, count : {1}, mode : {"exact", "at_least"}]

MCPlans ==
    [calls : {<<>>} \cup {<<c>> : c \in MCCalls} \cup (MCCalls \X MCCalls),
     ordering : {"strict", "any"}]
=============================================================================
