-------------------------------- MODULE Probe --------------------------------
(***************************************************************************)
(* queue/probe: the checks made over the messages observed on a topic.     *)
(*                                                                         *)
(* A message is what matchesExpectation makes of it: it matches, it does   *)
(* not, or its key and headers match and its payload is not JSON.          *)
(***************************************************************************)
EXTENDS Integers, Sequences, FiniteSets

Kinds == {"match", "other", "garbage"}
Orderings == {"strict", "any"}

\* An expectation after NormalizeExpectation.
Expectation == [count : Nat, ordering : Orderings]

\* With expected_count=0 a payload is forbidden in the plan, none is decoded,
\* and key and headers alone decide.
matchesExpectation(expectation, message) ==
    \/ message = "match"
    \/ message = "garbage" /\ expectation.count = 0

\* The whole check fails on the first payload that cannot be decoded.
DecodeError(expectation, observed) ==
    expectation.count > 0 /\ \E i \in DOMAIN observed : observed[i] = "garbage"

MatchedAt(expectation, observed) ==
    {i \in DOMAIN observed : matchesExpectation(expectation, observed[i])}

MatchedCount(expectation, observed) == Cardinality(MatchedAt(expectation, observed))

EvaluateAwait(expectation, observed, windowExpired) ==
    /\ ~DecodeError(expectation, observed)
    /\ IF expectation.count > 0
       THEN MatchedCount(expectation, observed) >= expectation.count
       ELSE MatchedCount(expectation, observed) = 0 /\ windowExpired

\* Fault: messages behind the expected ones are not looked at.
evaluateStrictPrefix(expectation, observed) ==
    /\ Len(observed) >= expectation.count
    /\ \A i \in 1 .. expectation.count : matchesExpectation(expectation, observed[i])

\* Every one of the first expected_count messages matches, and there are no others.
evaluateStrictOrdering(expectation, observed) ==
    /\ Len(observed) >= expectation.count
    /\ \A i \in 1 .. expectation.count : matchesExpectation(expectation, observed[i])
    /\ Len(observed) <= expectation.count

EvaluateVerify(expectation, observed) ==
    /\ ~DecodeError(expectation, observed)
    /\ IF expectation.count = 0 THEN MatchedCount(expectation, observed) = 0
       ELSE IF expectation.ordering = "strict"
            THEN evaluateStrictOrdering(expectation, observed)
            ELSE MatchedCount(expectation, observed) = expectation.count
=============================================================================
