------------------------------- MODULE HttpMock -------------------------------
(***************************************************************************)
(* The mock HTTP server of httpmock: a plan of expected calls, the         *)
(* requests observed since it was set, the response each of them got when  *)
(* it arrived, and the Await and Verify checks made over them later.       *)
(*                                                                         *)
(* matchesCall is abstracted to the set of requests a call matches.  The   *)
(* lock makes recording a request, and copying plan and requests, one step.*)
(***************************************************************************)
EXTENDS Integers, Sequences, FiniteSets

CONSTANTS
    Requests,     \* the requests clients send
    Plans,        \* the plans PlanHTTPCalls is given, after normalizePlan
    MaxObserved,  \* bound on the requests followed after a plan
    MaxPlans      \* bound on the plans followed

Call == [matches : SUBSET Requests, count : Nat, mode : {"exact", "at_least"}]
Plan == [calls : Seq(Call), ordering : {"strict", "any", ""}]

ASSUME PlansAssumption == \A p \in Plans : p \in Plan
ASSUME BoundsAssumption == MaxObserved \in Nat /\ MaxPlans \in Nat

VARIABLES
    plan,      \* server.plan
    observed,  \* server.observed
    served,    \* for each observed request, the call that answered it, or Unexpected
    planned    \* how often a plan was set

vars == <<plan, observed, served, planned>>

Unexpected == 0

-----------------------------------------------------------------------------
(* matcher.go *)

matchesCall(call, request) == request \in call.matches

\* expectedTotal of the first k calls.
expectedTotal(calls) ==
    LET upTo[k \in 0 .. Len(calls)] ==
            IF k = 0 THEN 0 ELSE upTo[k - 1] + calls[k].count
    IN  upTo

\* expandCalls: for each slot of the strict order, the call it belongs to.
expandCalls(calls) ==
    LET upTo == expectedTotal(calls)
    IN  [slot \in 1 .. upTo[Len(calls)] |->
            CHOOSE k \in 1 .. Len(calls) : upTo[k - 1] < slot /\ slot <= upTo[k]]

\* The call the strict order has for the i-th request: its slot, and behind the
\* last slot the last call if that one is at_least.
StrictSlot(p, i) ==
    LET expected == expandCalls(p.calls)
    IN  IF i <= Len(expected) THEN expected[i]
        ELSE IF Len(expected) > 0 /\ p.calls[expected[Len(expected)]].mode = "at_least"
             THEN expected[Len(expected)]
             ELSE Unexpected

\* The first n members of a set of indices.
FirstN(indices, n) == {i \in indices : Cardinality({j \in indices : j < i}) < n}

\* Fault: the search for a call's requests ends at the first that does not match.
TakenBreaks(call, obs, used) ==
    LET candidates == {i \in DOMAIN obs \ used :
                          \A j \in DOMAIN obs \ used : j <= i => matchesCall(call, obs[j])}
    IN  IF call.count = 0 THEN {}
        ELSE IF call.mode = "exact" THEN FirstN(candidates, call.count) ELSE candidates

\* The requests evaluateAny counts for one call: unused ones in order of arrival,
\* an exact call stops at its count, a call with count 0 is passed over.
Taken(call, obs, used) ==
    LET candidates == {i \in DOMAIN obs \ used : matchesCall(call, obs[i])}
    IN  IF call.count = 0 THEN {}
        ELSE IF call.mode = "exact" THEN FirstN(candidates, call.count) ELSE candidates

\* The requests used up by the first k calls.
UsedBy(calls, obs) ==
    LET used[k \in 0 .. Len(calls)] ==
            IF k = 0 THEN {}
            ELSE used[k - 1] \cup Taken(calls[k], obs, used[k - 1])
    IN  used

\* Fault: more requests than expected are a failure at any time.
evaluateAnyEqual(p, obs, final) ==
    LET used == UsedBy(p.calls, obs)
    IN  /\ \A k \in 1 .. Len(p.calls) :
              Cardinality(Taken(p.calls[k], obs, used[k - 1])) = p.calls[k].count
        /\ final => used[Len(p.calls)] = DOMAIN obs

\* Fault: the final check looks for unexpected requests only.
evaluateAnyFinalOnlyExtra(p, obs, final) ==
    LET used == UsedBy(p.calls, obs)
    IN  IF final THEN used[Len(p.calls)] = DOMAIN obs
        ELSE \A k \in 1 .. Len(p.calls) :
               Cardinality(Taken(p.calls[k], obs, used[k - 1])) >= p.calls[k].count

evaluateAny(p, obs, final) ==
    LET used == UsedBy(p.calls, obs)
    IN  /\ \A k \in 1 .. Len(p.calls) :
              Cardinality(Taken(p.calls[k], obs, used[k - 1])) >= p.calls[k].count
        /\ final => used[Len(p.calls)] = DOMAIN obs

\* Fault: the requests are not compared slot by slot.
evaluateStrictCounts(p, obs, final) ==
    Len(obs) >= Len(expandCalls(p.calls))

\* A mismatch in a slot fails at once.  A request behind the last slot fails an
\* empty plan, an exact last call only in the final check, and an at_least last
\* call when it does not match.
evaluateStrict(p, obs, final) ==
    LET expected == expandCalls(p.calls)
        mismatch(i) == ~matchesCall(p.calls[StrictSlot(p, i)], obs[i])
    IN  /\ \A i \in DOMAIN obs :
              \/ StrictSlot(p, i) # Unexpected /\ ~mismatch(i)
              \/ StrictSlot(p, i) = Unexpected /\ ~final /\ Len(expected) > 0
        /\ Len(obs) >= Len(expected)

evaluate(p, obs, final) ==
    IF p.ordering = "strict" THEN evaluateStrict(p, obs, final)
    ELSE evaluateAny(p, obs, final)

\* The calls that may answer the last request of obs: each call counts every
\* request that matches it, whichever call answered that.
anyCandidates(p, obs) ==
    {k \in 1 .. Len(p.calls) :
        /\ matchesCall(p.calls[k], obs[Len(obs)])
        /\ \/ p.calls[k].mode = "at_least"
           \/ Cardinality({i \in DOMAIN obs : matchesCall(p.calls[k], obs[i])})
                 <= p.calls[k].count}

anyResponseForRequest(p, obs) ==
    LET ks == anyCandidates(p, obs)
    IN  IF ks = {} THEN Unexpected ELSE CHOOSE k \in ks : \A j \in ks : k <= j

strictResponseForRequest(p, obs) ==
    LET slot == StrictSlot(p, Len(obs))
    IN  IF slot # Unexpected /\ matchesCall(p.calls[slot], obs[Len(obs)])
        THEN slot ELSE Unexpected

responseForRequest(p, obs) ==
    IF p.ordering = "strict" THEN strictResponseForRequest(p, obs)
    ELSE anyResponseForRequest(p, obs)

-----------------------------------------------------------------------------
(* server.go *)

Init ==
    /\ plan = [calls |-> <<>>, ordering |-> ""]
    /\ observed = <<>>
    /\ served = <<>>
    /\ planned = 0

\* Plan: a done context and an invalid plan change nothing.
SetPlan(p) ==
    /\ planned < MaxPlans
    /\ planned' = planned + 1
    /\ plan' = p
    /\ observed' = <<>>
    /\ served' = <<>>

\* A body over the limit is answered 413 before anything is recorded: that request
\* leaves the state as it is.
ServeHTTP(request) ==
    /\ Len(observed) < MaxObserved
    /\ observed' = Append(observed, request)
    /\ served' = Append(served, responseForRequest(plan, observed'))
    /\ UNCHANGED <<plan, planned>>

Await == evaluate(plan, observed, FALSE)
Verify == evaluate(plan, observed, TRUE)

Next ==
    \/ \E p \in Plans : SetPlan(p)
    \/ \E request \in Requests : ServeHTTP(request)

Spec == Init /\ [][Next]_vars

-----------------------------------------------------------------------------
(* Properties. *)

\* The server's state has its shape, and one answer is kept per recorded request.
TypeOK ==
    /\ plan \in Plans \cup {[calls |-> <<>>, ordering |-> ""]}
    /\ observed \in Seq(Requests)
    /\ Len(served) = Len(observed)
    /\ \A i \in DOMAIN served : served[i] \in 0 .. Len(plan.calls)
    /\ planned \in 0 .. MaxPlans

\* No request matches two calls of the plan.
Disjoint(p) ==
    \A j, k \in 1 .. Len(p.calls) :
        j # k => p.calls[j].matches \cap p.calls[k].matches = {}

\* A case that awaits and then verifies is consistent: Verify never accepts what
\* Await is still waiting for.
VerifyImpliesAwait == Verify => Await

\* Once Await has passed, later requests cannot make it fail, so what an await
\* step saw still holds when the next step begins: in any order, and in strict
\* order if the plan has a slot and its calls are exact.
AwaitStable ==
    [][ /\ planned' = planned
        /\ Await
        /\ plan.ordering = "strict" =>
              /\ Len(expandCalls(plan.calls)) > 0
              /\ \A k \in 1 .. Len(plan.calls) : plan.calls[k].mode = "exact"
        => Await' ]_vars

\* What Verify accepts, the clients were served: no request of an accepted run was
\* answered 500, in strict order and for plans whose calls do not overlap, and in
\* strict order the answers come from the calls in plan order.
AcceptedMeansServed ==
    Verify /\ (plan.ordering = "strict" \/ Disjoint(plan)) =>
        /\ \A i \in DOMAIN served : served[i] # Unexpected
        /\ plan.ordering = "strict" =>
              \A i, j \in DOMAIN served : i <= j => served[i] <= served[j]

\* The requests of obs in the order given by a permutation of their indices.
Reorder(obs, perm) == [i \in DOMAIN obs |-> obs[perm[i]]]

Orders(obs) == {f \in [DOMAIN obs -> DOMAIN obs] :
                    \A i, j \in DOMAIN obs : i # j => f[i] # f[j]}

OrderIgnored ==
    \A perm \in Orders(observed) : evaluate(plan, Reorder(observed, perm), TRUE) = Verify

\* models.go: OrderingAny "ignores observed request order during verification".
AnyIgnoresOrder == plan.ordering # "strict" => OrderIgnored

\* A client is answered 500 only if the calls for its request have answered their
\* whole count: anyResponseForRequest "returns a response for any matching expectation
\* with remaining expected count".
CountServed ==
    \A i \in DOMAIN served : served[i] = Unexpected =>
        \A k \in 1 .. Len(plan.calls) :
            matchesCall(plan.calls[k], observed[i]) =>
                Cardinality({j \in 1 .. i - 1 : served[j] = k}) >= plan.calls[k].count

\* Where no request matches two calls, ordering any is what the comments promise: the
\* verdict of evaluateAny does not depend on the order of arrival, and every client is
\* served until the count of its call is used up.
DisjointIsFair ==
    plan.ordering # "strict" /\ Disjoint(plan) => OrderIgnored /\ CountServed
=============================================================================
