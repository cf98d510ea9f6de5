---------------------------- MODULE HttpMockProofs ----------------------------
(* Proofs about HttpMock, for every set of requests, every set of plans and both bounds. *)
EXTENDS HttpMock, SetInduction, FiniteSetTheorems, TLAPS

-----------------------------------------------------------------------------
(* expandCalls: the slots of a plan in strict order. *)

\* The types of a call.
LEMMA CallTypes ==
    ASSUME NEW calls \in Seq(Call), NEW k \in 1 .. Len(calls)
    PROVE  /\ calls[k].count \in Nat
           /\ calls[k].mode \in {"exact", "at_least"}
           /\ calls[k].matches \in SUBSET Requests
  <1>1. calls[k] \in Call
    OBVIOUS
  <1> QED
    BY <1>1 DEF Call

\* What expectedTotal computes: the sums of the counts.
LEMMA TotalsAreSums ==
    ASSUME NEW calls \in Seq(Call)
    PROVE  /\ expectedTotal(calls) \in [0 .. Len(calls) -> Nat]
           /\ expectedTotal(calls)[0] = 0
           /\ \A k \in 1 .. Len(calls) :
                 expectedTotal(calls)[k] = expectedTotal(calls)[k - 1] + calls[k].count
  <1> DEFINE N == Len(calls)
             Sums(f) == [k \in 0 .. N |-> IF k = 0 THEN 0 ELSE f[k - 1] + calls[k].count]
             step == [k \in 1 .. N |-> [n \in Nat |-> n + calls[k].count]]
  <1>1. step \in StepMaps(N, Nat)
    BY CallTypes DEF StepMaps
  <1>2. N \in Nat
    OBVIOUS
  <1>3. PICK f : MadeBySteps(f, N, Nat, 0, step)
    <2> HIDE DEF step, N
    <2> QED
      BY <1>1, <1>2, StepwiseFunction
  <1>4. f \in [0 .. N -> Nat] /\ f[0] = 0 /\ \A k \in 1 .. N : f[k] = f[k - 1] + calls[k].count
    <2>1. /\ f \in [0 .. N -> Nat] /\ f[0] = 0
          /\ \A k \in 1 .. N : f[k] = step[k][f[k - 1]]
      BY <1>3 DEF MadeBySteps
    <2>2. ASSUME NEW k \in 1 .. N PROVE step[k][f[k - 1]] = f[k - 1] + calls[k].count
      <3>1. k - 1 \in 0 .. N
        BY <1>2
      <3>2. f \in [0 .. N -> Nat]
        BY <2>1
      <3>3. f[k - 1] \in Nat
        <4> HIDE DEF N
        <4> QED
          BY <3>1, <3>2
      <3> QED
        BY <3>3
    <2> QED
      BY <2>1, <2>2
  <1>5. f = Sums(f)
    BY <1>4
  <1>6. expectedTotal(calls) = CHOOSE g : g = Sums(g)
    BY DEF expectedTotal
  <1>7. expectedTotal(calls) = Sums(expectedTotal(calls))
    <2> HIDE DEF Sums
    <2> QED
      BY <1>5, <1>6, Zenon
  <1> DEFINE upTo == expectedTotal(calls)
             S == {k \in 0 .. N : upTo[k] \in Nat}
  <1> HIDE DEF upTo
  <1>8. DOMAIN upTo = 0 .. N /\ upTo[0] = 0 /\ \A k \in 1 .. N : upTo[k] = upTo[k - 1] + calls[k].count
    BY <1>7 DEF upTo
  <1>9. \A k \in 0 .. N : k \in S
    <2>1. 0 \in S
      BY <1>8
    <2>2. \A k \in 0 .. N : k < N /\ k \in S => k + 1 \in S
      BY <1>8, CallTypes
    <2> HIDE DEF S, N
    <2> QED
      BY <1>2, <2>1, <2>2, InductionUpTo
  <1>10. upTo = [k \in 0 .. N |-> upTo[k]]
    BY <1>7 DEF upTo
  <1>11. upTo \in [0 .. N -> Nat]
    BY <1>9, <1>10
  <1> QED
    BY <1>8, <1>11 DEF upTo

\* The sums do not fall.
LEMMA TotalsAreMonotone ==
    ASSUME NEW calls \in Seq(Call), NEW j \in 0 .. Len(calls), NEW k \in 0 .. Len(calls), j <= k
    PROVE  expectedTotal(calls)[j] <= expectedTotal(calls)[k]
  <1> DEFINE N == Len(calls)
             upTo == expectedTotal(calls)
             S == {n \in 0 .. N : \A i \in 0 .. n : upTo[i] <= upTo[n]}
  <1>1. /\ upTo \in [0 .. N -> Nat] /\ upTo[0] = 0
        /\ \A n \in 1 .. N : upTo[n] = upTo[n - 1] + calls[n].count
    BY TotalsAreSums
  <1> HIDE DEF upTo
  <1>2. 0 \in S
    BY <1>1
  <1>3. ASSUME NEW n \in 0 .. N, n < N, n \in S PROVE n + 1 \in S
    <2>1. upTo[n + 1] = upTo[n] + calls[n + 1].count /\ calls[n + 1].count \in Nat
      BY <1>1, <1>3, CallTypes
    <2>2. ASSUME NEW i \in 0 .. n + 1 PROVE upTo[i] <= upTo[n + 1]
      <3>0. i \in 0 .. N /\ n \in 0 .. N /\ n + 1 \in 0 .. N
        BY <1>3
      <3>1. upTo[i] \in Nat /\ upTo[n] \in Nat /\ upTo[n + 1] \in Nat
        BY <1>1, <3>0
      <3>2. \A x \in 0 .. n : upTo[x] <= upTo[n]
        BY <1>3
      <3>3. CASE i = n + 1
        BY <3>1, <3>3
      <3>4. CASE i # n + 1
        <4>1. i \in 0 .. n
          BY <3>0, <3>4
        <4>2. upTo[i] <= upTo[n]
          BY <3>2, <4>1
        <4> QED
          BY <2>1, <3>1, <4>2
      <3> QED
        BY <3>3, <3>4
    <2> QED
      BY <1>3, <2>2
  <1>4. N \in Nat
    OBVIOUS
  <1>5. \A n \in 0 .. N : n \in S
    <2> HIDE DEF S, N
    <2>1. \A n \in 0 .. N : n < N /\ n \in S => n + 1 \in S
      BY <1>3
    <2> QED
      BY <1>2, <1>4, <2>1, InductionUpTo
  <1> QED
    BY <1>5 DEF upTo

\* Each slot belongs to a call, and the slots of a call lie between the sums before and
\* behind it.
LEMMA SlotsOfCalls ==
    ASSUME NEW calls \in Seq(Call)
    PROVE  /\ expandCalls(calls) \in Seq(1 .. Len(calls))
           /\ \A slot \in 1 .. Len(expandCalls(calls)) :
                 /\ expandCalls(calls)[slot] \in 1 .. Len(calls)
                 /\ expectedTotal(calls)[expandCalls(calls)[slot] - 1] < slot
                 /\ slot <= expectedTotal(calls)[expandCalls(calls)[slot]]
  <1> DEFINE N == Len(calls)
             upTo == expectedTotal(calls)
             Holds(k, slot) == upTo[k - 1] < slot /\ slot <= upTo[k]
             Of(slot) == CHOOSE k \in 1 .. N : Holds(k, slot)
  <1>1. /\ upTo \in [0 .. N -> Nat] /\ upTo[0] = 0 /\ N \in Nat
        /\ \A n \in 1 .. N : upTo[n] = upTo[n - 1] + calls[n].count
    BY TotalsAreSums
  <1> HIDE DEF upTo
  <1>2. ASSUME NEW slot \in 1 .. upTo[N]
        PROVE  \E k \in 1 .. N : Holds(k, slot)
    <2> DEFINE T == {k \in 1 .. N : slot <= upTo[k]}
    <2>1. T \in SUBSET Nat
      OBVIOUS
    <2>2. N \in T
      BY <1>1
    <2>3. PICK k \in T : \A m \in T : k <= m
      <3> HIDE DEF T
      <3> QED
        BY <2>1, <2>2, LeastMember
    <2>4. upTo[k - 1] < slot
      BY <1>1, <2>3
    <2> QED
      BY <2>3, <2>4
  <1>3. ASSUME NEW slot \in 1 .. upTo[N]
        PROVE  Of(slot) \in 1 .. N /\ Holds(Of(slot), slot)
    <2> HIDE DEF Holds
    <2> QED
      BY <1>2
  <1>4. expandCalls(calls) = [slot \in 1 .. upTo[N] |-> Of(slot)]
    BY DEF expandCalls, upTo
  <1>5. expandCalls(calls) \in Seq(1 .. N) /\ Len(expandCalls(calls)) = upTo[N]
    <2> HIDE DEF Of
    <2>1. upTo[N] \in Nat
      BY <1>1
    <2>2. \A slot \in 1 .. upTo[N] : Of(slot) \in 1 .. N
      BY <1>3
    <2>3. expandCalls(calls) \in [1 .. upTo[N] -> 1 .. N]
      BY <1>4, <2>2
    <2> QED
      BY <2>1, <2>3
  <1>6. \A slot \in 1 .. upTo[N] : expandCalls(calls)[slot] = Of(slot)
    <2> HIDE DEF Of
    <2> QED
      BY <1>4
  <1> HIDE DEF Of
  <1> QED
    BY <1>3, <1>5, <1>6 DEF upTo

\* The strict order goes through the calls in plan order.
LEMMA SlotsAreOrdered ==
    ASSUME NEW calls \in Seq(Call), NEW i \in 1 .. Len(expandCalls(calls)),
           NEW j \in 1 .. Len(expandCalls(calls)), i <= j
    PROVE  expandCalls(calls)[i] <= expandCalls(calls)[j]
  <1> DEFINE upTo == expectedTotal(calls)
             a == expandCalls(calls)[i]
             b == expandCalls(calls)[j]
  <1>1. /\ a \in 1 .. Len(calls) /\ b \in 1 .. Len(calls)
        /\ upTo[a - 1] < i /\ j <= upTo[b]
    BY SlotsOfCalls
  <1>2. upTo \in [0 .. Len(calls) -> Nat]
    BY TotalsAreSums
  <1>3. ASSUME b < a PROVE FALSE
    <2> HIDE DEF a, b
    <2>1. b \in 0 .. Len(calls) /\ a - 1 \in 0 .. Len(calls) /\ b <= a - 1
      BY <1>1, <1>3
    <2>2. upTo[b] <= upTo[a - 1]
      BY <2>1, TotalsAreMonotone
    <2>3. upTo[b] \in Nat /\ upTo[a - 1] \in Nat
      <3> HIDE DEF upTo
      <3> QED
        BY <1>2, <2>1
    <2>4. Len(expandCalls(calls)) \in Nat
      BY SlotsOfCalls
    <2> HIDE DEF upTo
    <2> QED
      BY <1>1, <2>2, <2>3, <2>4
  <1> QED
    BY <1>1, <1>3

\* The call the strict order has for the i-th request is a call of the plan or none.
LEMMA StrictSlotTypes ==
    ASSUME NEW p \in Plan, NEW i \in Nat \ {0}
    PROVE  StrictSlot(p, i) \in 0 .. Len(p.calls)
  <1>1. p.calls \in Seq(Call)
    BY DEF Plan
  <1>2. /\ expandCalls(p.calls) \in Seq(1 .. Len(p.calls))
        /\ \A slot \in 1 .. Len(expandCalls(p.calls)) : expandCalls(p.calls)[slot] \in 1 .. Len(p.calls)
    BY <1>1, SlotsOfCalls
  <1> QED
    BY <1>1, <1>2 DEF StrictSlot, Unexpected

\* A later request never belongs to an earlier call.
LEMMA StrictSlotOrdered ==
    ASSUME NEW p \in Plan, NEW i \in Nat \ {0}, NEW j \in Nat \ {0}, i <= j,
           StrictSlot(p, j) # Unexpected
    PROVE  StrictSlot(p, i) <= StrictSlot(p, j)
  <1> DEFINE e == expandCalls(p.calls)
  <1>1. p.calls \in Seq(Call)
    BY DEF Plan
  <1>2. /\ e \in Seq(1 .. Len(p.calls)) /\ Len(e) \in Nat
        /\ \A slot \in 1 .. Len(e) : e[slot] \in 1 .. Len(p.calls)
        /\ \A x, y \in 1 .. Len(e) : x <= y => e[x] <= e[y]
    BY <1>1, SlotsOfCalls, SlotsAreOrdered
  <1> HIDE DEF e
  <1>3. CASE j <= Len(e)
    <2>1. StrictSlot(p, i) = e[i] /\ StrictSlot(p, j) = e[j]
      BY <1>3, <1>2 DEF StrictSlot, e
    <2> QED
      BY <1>2, <1>3, <2>1
  <1>4. CASE j > Len(e)
    <2>1. Len(e) > 0 /\ StrictSlot(p, j) = e[Len(e)]
      BY <1>2, <1>4 DEF StrictSlot, e
    <2>2. StrictSlot(p, i) = e[i] \/ StrictSlot(p, i) = e[Len(e)]
      BY <1>2, <2>1, <1>4 DEF StrictSlot, e
    <2>3. i <= Len(e) => StrictSlot(p, i) = e[i]
      BY DEF StrictSlot, e
    <2>4. i > Len(e) => StrictSlot(p, i) = e[Len(e)]
      BY <1>2, <1>4, <2>1 DEF StrictSlot, e
    <2> QED
      BY <1>2, <2>1, <2>3, <2>4
  <1> QED
    BY <1>2, <1>3, <1>4

-----------------------------------------------------------------------------
(* evaluateAny: the requests each call of a plan uses up. *)

\* A call takes requests that arrived, match it and are not used.
LEMMA TakenTypes ==
    ASSUME NEW call, NEW obs, NEW used
    PROVE  /\ Taken(call, obs, used) \subseteq DOMAIN obs \ used
           /\ \A i \in Taken(call, obs, used) : matchesCall(call, obs[i]) /\ call.count # 0
  BY DEF Taken, FirstN

\* What UsedBy computes: each call adds what it takes of the requests left.
LEMMA UsedAccumulates ==
    ASSUME NEW calls \in Seq(Call), NEW obs \in Seq(Requests)
    PROVE  /\ UsedBy(calls, obs) \in [0 .. Len(calls) -> SUBSET DOMAIN obs]
           /\ UsedBy(calls, obs)[0] = {}
           /\ \A k \in 1 .. Len(calls) :
                 UsedBy(calls, obs)[k] =
                    UsedBy(calls, obs)[k - 1] \cup Taken(calls[k], obs, UsedBy(calls, obs)[k - 1])
  <1> DEFINE N == Len(calls)
             T == SUBSET DOMAIN obs
             Sums(f) == [k \in 0 .. N |-> IF k = 0 THEN {}
                                           ELSE f[k - 1] \cup Taken(calls[k], obs, f[k - 1])]
             step == [k \in 1 .. N |-> [u \in T |-> u \cup Taken(calls[k], obs, u)]]
  <1>1. step \in StepMaps(N, T)
    <2>1. \A k \in 1 .. N, u \in T : u \cup Taken(calls[k], obs, u) \in T
      BY TakenTypes
    <2> QED
      BY <2>1 DEF StepMaps
  <1>2. N \in Nat /\ {} \in T
    OBVIOUS
  <1>3. PICK f : MadeBySteps(f, N, T, {}, step)
    <2> HIDE DEF step, N, T
    <2> QED
      BY <1>1, <1>2, StepwiseFunction
  <1>4. /\ f \in [0 .. N -> T] /\ f[0] = {}
        /\ \A k \in 1 .. N : f[k] = f[k - 1] \cup Taken(calls[k], obs, f[k - 1])
    <2>1. /\ f \in [0 .. N -> T] /\ f[0] = {}
          /\ \A k \in 1 .. N : f[k] = step[k][f[k - 1]]
      BY <1>3 DEF MadeBySteps
    <2>2. ASSUME NEW k \in 1 .. N
          PROVE  step[k][f[k - 1]] = f[k - 1] \cup Taken(calls[k], obs, f[k - 1])
      <3>1. k - 1 \in 0 .. N
        OBVIOUS
      <3> HIDE DEF T
      <3>2. f[k - 1] \in T
        BY <2>1, <3>1
      <3> QED
        BY <3>2
    <2> QED
      BY <2>1, <2>2
  <1>5. f = Sums(f)
    BY <1>4
  <1>6. UsedBy(calls, obs) = CHOOSE g : g = Sums(g)
    BY DEF UsedBy
  <1>7. UsedBy(calls, obs) = Sums(UsedBy(calls, obs))
    <2> HIDE DEF Sums
    <2> QED
      BY <1>5, <1>6, Zenon
  <1> DEFINE used == UsedBy(calls, obs)
             S == {k \in 0 .. N : used[k] \in T}
  <1> HIDE DEF used
  <1>8. /\ used[0] = {}
        /\ \A k \in 1 .. N : used[k] = used[k - 1] \cup Taken(calls[k], obs, used[k - 1])
    <2>1. used = [k \in 0 .. N |-> IF k = 0 THEN {}
                                   ELSE used[k - 1] \cup Taken(calls[k], obs, used[k - 1])]
      BY <1>7 DEF used
    <2>2. 0 \in 0 .. N /\ \A k \in 1 .. N : k \in 0 .. N /\ k # 0
      OBVIOUS
    <2> HIDE DEF N
    <2> QED
      BY <2>1, <2>2
  <1>9. \A k \in 0 .. N : k \in S
    <2>1. 0 \in S
      BY <1>8
    <2>2. ASSUME NEW k \in 0 .. N, k < N, k \in S PROVE k + 1 \in S
      <3>1. k + 1 \in 1 .. N /\ k + 1 \in 0 .. N /\ (k + 1) - 1 = k
        BY <2>2
      <3>2. used[k + 1] = used[k] \cup Taken(calls[k + 1], obs, used[k])
        BY <1>8, <3>1
      <3>3. Taken(calls[k + 1], obs, used[k]) \subseteq DOMAIN obs
        BY TakenTypes
      <3> QED
        BY <2>2, <3>1, <3>2, <3>3
    <2> HIDE DEF S, N
    <2>3. \A k \in 0 .. N : k < N /\ k \in S => k + 1 \in S
      BY <2>2
    <2> QED
      BY <1>2, <2>1, <2>3, InductionUpTo
  <1>10. used = [k \in 0 .. N |-> used[k]]
    BY <1>7 DEF used
  <1>11. used \in [0 .. N -> T]
    BY <1>9, <1>10
  <1> QED
    BY <1>8, <1>11 DEF used

\* One more request does not change which of the earlier ones a call takes.
LEMMA TakenGrows ==
    ASSUME NEW call, NEW obs \in Seq(Requests), NEW request \in Requests,
           NEW used, NEW used2, used2 \cap DOMAIN obs = used
    PROVE  Taken(call, Append(obs, request), used2) \cap DOMAIN obs = Taken(call, obs, used)
  <1> DEFINE D == DOMAIN obs
             obs2 == Append(obs, request)
             cand == {i \in D \ used : matchesCall(call, obs[i])}
             cand2 == {i \in DOMAIN obs2 \ used2 : matchesCall(call, obs2[i])}
  <1>1. /\ D = 1 .. Len(obs) /\ Len(obs) \in Nat /\ DOMAIN obs2 = 1 .. Len(obs) + 1
        /\ \A i \in D : obs2[i] = obs[i]
    OBVIOUS
  <1>2. cand2 \cap D = cand /\ cand \subseteq D /\ cand2 \subseteq 1 .. Len(obs) + 1
    BY <1>1
  <1> HIDE DEF cand, cand2, obs2, D
  <1>3. \A n : FirstN(cand2, n) \cap D = FirstN(cand, n)
    <2>1. ASSUME NEW i \in D PROVE {j \in cand2 : j < i} = {j \in cand : j < i}
      <3>1. \A j \in cand2 : j < i => j \in D
        BY <1>1, <1>2
      <3> QED
        BY <1>2, <3>1
    <2> QED
      BY <1>2, <2>1 DEF FirstN
  <1>4. /\ Taken(call, obs2, used2) = IF call.count = 0 THEN {}
               ELSE IF call.mode = "exact" THEN FirstN(cand2, call.count) ELSE cand2
        /\ Taken(call, obs, used) = IF call.count = 0 THEN {}
               ELSE IF call.mode = "exact" THEN FirstN(cand, call.count) ELSE cand
    BY DEF Taken, cand, cand2, D
  <1> QED
    BY <1>2, <1>3, <1>4 DEF D, obs2

-----------------------------------------------------------------------------
(* What each request was answered. *)

\* In any order the first call that may answer does, and it is one that may.
LEMMA AnyResponse ==
    ASSUME NEW p \in Plan, NEW obs
    PROVE  /\ anyCandidates(p, obs) = {} => anyResponseForRequest(p, obs) = Unexpected
           /\ anyCandidates(p, obs) # {} =>
                 /\ anyResponseForRequest(p, obs) \in anyCandidates(p, obs)
                 /\ anyResponseForRequest(p, obs) \in 1 .. Len(p.calls)
  <1> DEFINE ks == anyCandidates(p, obs)
  <1>1. ks \subseteq 1 .. Len(p.calls) /\ ks \in SUBSET Nat
    BY DEF anyCandidates
  <1> HIDE DEF ks
  <1>2. ks # {} => \E k \in ks : \A j \in ks : k <= j
    BY <1>1, LeastMember
  <1>3. anyResponseForRequest(p, obs) =
            IF ks = {} THEN Unexpected ELSE CHOOSE k \in ks : \A j \in ks : k <= j
    BY DEF anyResponseForRequest, ks
  <1>4. ks # {} => anyResponseForRequest(p, obs) \in ks
    BY <1>2, <1>3
  <1> QED
    BY <1>1, <1>3, <1>4 DEF ks

\* A request is answered by a call of the plan or as unexpected.
LEMMA ResponseTypes ==
    ASSUME NEW p \in Plan, NEW obs \in Seq(Requests), Len(obs) > 0
    PROVE  responseForRequest(p, obs) \in 0 .. Len(p.calls)
  <1>0. Len(p.calls) \in Nat
    <2>1. p.calls \in Seq(Call)
      BY DEF Plan
    <2> QED
      BY <2>1
  <1>1. CASE p.ordering = "strict"
    <2>1. Len(obs) \in Nat \ {0}
      OBVIOUS
    <2>2. StrictSlot(p, Len(obs)) \in 0 .. Len(p.calls)
      BY <2>1, StrictSlotTypes
    <2> QED
      BY <1>0, <1>1, <2>2 DEF responseForRequest, strictResponseForRequest, Unexpected
  <1>2. CASE p.ordering # "strict"
    BY <1>0, <1>2, AnyResponse DEF responseForRequest, Unexpected
  <1> QED
    BY <1>1, <1>2

\* Each answer is the one for the requests that had arrived by then.
ServedInv == \A i \in DOMAIN served : served[i] = responseForRequest(plan, SubSeq(observed, 1, i))

ServerInv == TypeOK /\ served \in Seq(Nat) /\ ServedInv

\* The plan of a server is a plan.
LEMMA PlanTypes ==
    ASSUME TypeOK
    PROVE  plan \in Plan /\ plan.calls \in Seq(Call)
  <1>1. [calls |-> <<>>, ordering |-> ""] \in Plan
    BY DEF Plan
  <1>2. plan \in Plan
    BY <1>1, PlansAssumption DEF TypeOK
  <1> QED
    BY <1>2 DEF Plan

\* Every step of the server keeps it: Plan forgets the requests, ServeHTTP adds one with
\* its answer.
LEMMA ServerInductive == ServerInv /\ [Next]_vars => ServerInv'
  <1> SUFFICES ASSUME ServerInv, [Next]_vars PROVE ServerInv'
    OBVIOUS
  <1> USE BoundsAssumption DEF ServerInv
  <1>1. ASSUME NEW p \in Plans, SetPlan(p) PROVE ServerInv'
    <2>1. /\ plan' = p /\ observed' = <<>> /\ served' = <<>>
          /\ planned' = planned + 1 /\ planned < MaxPlans
      BY <1>1 DEF SetPlan
    <2>2. planned \in 0 .. MaxPlans
      BY DEF TypeOK
    <2>3. planned' \in 0 .. MaxPlans
      BY <2>1, <2>2
    <2>4. /\ observed' \in Seq(Requests) /\ served' \in Seq(Nat)
          /\ Len(served') = Len(observed') /\ DOMAIN served' = {}
      BY <2>1
    <2>5. plan' \in Plans \cup {[calls |-> <<>>, ordering |-> ""]}
      BY <2>1
    <2>6. TypeOK'
      BY <2>3, <2>4, <2>5 DEF TypeOK
    <2> QED
      BY <2>4, <2>6 DEF ServedInv
  <1>2. ASSUME NEW request \in Requests, ServeHTTP(request) PROVE ServerInv'
    <2> DEFINE answer == responseForRequest(plan, Append(observed, request))
    <2>1. /\ observed' = Append(observed, request)
          /\ served' = Append(served, answer)
          /\ plan' = plan /\ planned' = planned
      BY <1>2 DEF ServeHTTP
    <2>2. /\ observed \in Seq(Requests) /\ served \in Seq(Nat) /\ Len(served) = Len(observed)
          /\ planned \in 0 .. MaxPlans /\ \A i \in DOMAIN served : served[i] \in 0 .. Len(plan.calls)
      BY DEF TypeOK
    <2>3. observed' \in Seq(Requests) /\ Len(observed') = Len(observed) + 1 /\ Len(observed') > 0
      BY <2>1, <2>2
    <2>4. answer \in 0 .. Len(plan.calls) /\ answer \in Nat
      <3>1. answer \in 0 .. Len(plan.calls)
        BY <2>1, <2>3, PlanTypes, ResponseTypes
      <3> QED
        BY <3>1, PlanTypes
    <2>5. ServedInv'
      <3> SUFFICES ASSUME NEW i \in DOMAIN served'
                   PROVE  served'[i] = responseForRequest(plan, SubSeq(observed', 1, i))
        BY <2>1 DEF ServedInv
      <3> HIDE DEF answer
      <3>1. CASE i \in DOMAIN served
        <4>1. SubSeq(observed', 1, i) = SubSeq(observed, 1, i) /\ served'[i] = served[i]
          BY <2>1, <2>2, <2>4, <3>1
        <4> QED
          BY <3>1, <4>1 DEF ServedInv
      <3>2. CASE i = Len(served) + 1
        <4>1. SubSeq(observed', 1, i) = Append(observed, request) /\ served'[i] = answer
          BY <2>1, <2>2, <2>4, <3>2
        <4> QED
          BY <4>1 DEF answer
      <3> QED
        BY <2>1, <2>2, <2>4, <3>1, <3>2
    <2> HIDE DEF answer
    <2>6. /\ served' \in Seq(Nat) /\ Len(served') = Len(observed')
          /\ \A i \in DOMAIN served' : served'[i] \in 0 .. Len(plan.calls)
      BY <2>1, <2>2, <2>3, <2>4
    <2>7. TypeOK'
      BY <2>1, <2>2, <2>3, <2>6 DEF TypeOK
    <2> QED
      BY <2>5, <2>6, <2>7
  <1>3. CASE UNCHANGED vars
    BY <1>3 DEF vars, TypeOK, ServedInv
  <1> QED
    BY <1>1, <1>2, <1>3 DEF Next

\* So it holds throughout.
LEMMA ServerInvariant == Spec => []ServerInv
  <1>1. ASSUME Init PROVE ServerInv
    <2>0. planned = 0 /\ observed = <<>> /\ served = <<>>
      BY <1>1 DEF Init
    <2>1. planned \in 0 .. MaxPlans
      BY <2>0, BoundsAssumption
    <2>2. /\ observed \in Seq(Requests) /\ served \in Seq(Nat)
          /\ Len(served) = Len(observed) /\ DOMAIN served = {}
      BY <2>0
    <2>3. plan \in Plans \cup {[calls |-> <<>>, ordering |-> ""]}
      BY <1>1 DEF Init
    <2>4. TypeOK
      BY <2>1, <2>2, <2>3 DEF TypeOK
    <2> QED
      BY <2>2, <2>4 DEF ServerInv, ServedInv
  <1> QED
    BY <1>1, ServerInductive, PTL DEF Spec

-----------------------------------------------------------------------------

\* The state of the mock server has its types, and each recorded request one answer.
THEOREM TypeCorrect == Spec => []TypeOK
  BY ServerInvariant, PTL DEF ServerInv

\* Verify accepts nothing that Await would still wait for, for any plan and any requests.
THEOREM VerifyIsStronger == Spec => []VerifyImpliesAwait
  <1>1. VerifyImpliesAwait
    BY DEF VerifyImpliesAwait, Verify, Await, evaluate, evaluateStrict, evaluateAny
  <1> QED
    BY <1>1, PTL

\* One more request does not take back what evaluateAny counted.
LEMMA AnyAwaitStable ==
    ASSUME NEW p \in Plan, NEW obs \in Seq(Requests), NEW request \in Requests,
           evaluateAny(p, obs, FALSE)
    PROVE  evaluateAny(p, Append(obs, request), FALSE)
  <1> DEFINE calls == p.calls
             N == Len(calls)
             obs2 == Append(obs, request)
             used == UsedBy(calls, obs)
             used2 == UsedBy(calls, obs2)
             S == {k \in 0 .. N : used2[k] \cap DOMAIN obs = used[k]}
  <1>1. calls \in Seq(Call) /\ obs2 \in Seq(Requests)
    <2>1. calls \in Seq(Call)
      BY DEF Plan
    <2> QED
      BY <2>1
  <1>2. /\ used[0] = {} /\ used2[0] = {}
        /\ \A k \in 1 .. N : used[k] = used[k - 1] \cup Taken(calls[k], obs, used[k - 1])
        /\ \A k \in 1 .. N : used2[k] = used2[k - 1] \cup Taken(calls[k], obs2, used2[k - 1])
    <2> HIDE DEF calls, obs2
    <2> QED
      BY <1>1, UsedAccumulates
  <1> HIDE DEF used, used2
  <1>3. \A k \in 0 .. N : k \in S
    <2>1. 0 \in S
      BY <1>1, <1>2
    <2>2. ASSUME NEW k \in 0 .. N, k < N, k \in S PROVE k + 1 \in S
      <3>1. k + 1 \in 1 .. N /\ k + 1 \in 0 .. N /\ (k + 1) - 1 = k
        BY <1>1, <2>2
      <3>2. /\ used[k + 1] = used[k] \cup Taken(calls[k + 1], obs, used[k])
            /\ used2[k + 1] = used2[k] \cup Taken(calls[k + 1], obs2, used2[k])
        BY <1>2, <3>1
      <3>3. Taken(calls[k + 1], obs2, used2[k]) \cap DOMAIN obs = Taken(calls[k + 1], obs, used[k])
        BY <2>2, TakenGrows
      <3> QED
        BY <2>2, <3>1, <3>2, <3>3
    <2>3. N \in Nat
      BY <1>1
    <2> HIDE DEF S, N
    <2>4. \A k \in 0 .. N : k < N /\ k \in S => k + 1 \in S
      BY <2>2
    <2> QED
      BY <2>1, <2>3, <2>4, InductionUpTo
  <1>4. ASSUME NEW k \in 1 .. N
        PROVE  Cardinality(Taken(calls[k], obs2, used2[k - 1])) >= calls[k].count
    <2> DEFINE A == Taken(calls[k], obs, used[k - 1])
               B == Taken(calls[k], obs2, used2[k - 1])
    <2>1. k - 1 \in 0 .. N
      BY <1>1
    <2>2. B \cap DOMAIN obs = A
      BY <1>3, <2>1, TakenGrows
    <2>3. B \subseteq DOMAIN obs2
      <3>1. B \subseteq DOMAIN obs2 \ used2[k - 1]
        <4> HIDE DEF obs2, calls
        <4> QED
          BY TakenTypes
      <3> QED
        BY <3>1
    <2>4. IsFiniteSet(DOMAIN obs2)
      BY <1>1, FS_Interval
    <2> HIDE DEF A, B
    <2>5. IsFiniteSet(B) /\ A \subseteq B
      BY <2>2, <2>3, <2>4, FS_Subset
    <2>6. Cardinality(A) \in Nat /\ Cardinality(B) \in Nat /\ Cardinality(A) <= Cardinality(B)
      BY <2>5, FS_Subset, FS_CardinalityType
    <2>7. Cardinality(A) >= calls[k].count
      BY DEF evaluateAny, A, used
    <2>8. calls[k].count \in Nat
      BY <1>1, CallTypes
    <2> QED
      BY <2>6, <2>7, <2>8 DEF B
  <1> QED
    BY <1>4 DEF evaluateAny, used2

\* Nor does it in strict order, once every slot is filled and the last call is exact.
LEMMA StrictAwaitStable ==
    ASSUME NEW p \in Plan, NEW obs \in Seq(Requests), NEW request \in Requests,
           evaluateStrict(p, obs, FALSE), Len(expandCalls(p.calls)) > 0,
           \A k \in 1 .. Len(p.calls) : p.calls[k].mode = "exact"
    PROVE  evaluateStrict(p, Append(obs, request), FALSE)
  <1> DEFINE e == expandCalls(p.calls)
             obs2 == Append(obs, request)
             Fine(o, i) == \/ StrictSlot(p, i) # Unexpected /\ matchesCall(p.calls[StrictSlot(p, i)], o[i])
                           \/ StrictSlot(p, i) = Unexpected
  <1>1. /\ e \in Seq(1 .. Len(p.calls)) /\ Len(e) \in Nat
        /\ e[Len(e)] \in 1 .. Len(p.calls)
    <2>1. p.calls \in Seq(Call)
      BY DEF Plan
    <2>2. e \in Seq(1 .. Len(p.calls)) /\ \A x \in 1 .. Len(e) : e[x] \in 1 .. Len(p.calls)
      BY <2>1, SlotsOfCalls
    <2> QED
      BY <2>2
  <1>2. /\ \A i \in DOMAIN obs : Fine(obs, i)
        /\ Len(obs) >= Len(e)
    BY DEF evaluateStrict
  <1>3. /\ Len(obs) \in Nat /\ Len(obs2) = Len(obs) + 1 /\ DOMAIN obs2 = DOMAIN obs \cup {Len(obs) + 1}
        /\ \A i \in DOMAIN obs : obs2[i] = obs[i]
    OBVIOUS
  <1>4. StrictSlot(p, Len(obs) + 1) = Unexpected
    BY <1>1, <1>2, <1>3 DEF StrictSlot
  <1>5. \A i \in DOMAIN obs2 : Fine(obs2, i)
    BY <1>2, <1>3, <1>4
  <1>6. Len(obs2) >= Len(e)
    BY <1>1, <1>2, <1>3
  <1> QED
    BY <1>5, <1>6 DEF evaluateStrict

\* Once Await has passed it stays so for every further request of the same plan: in any
\* order for every plan, in strict order for plans with a slot and exact calls.
THEOREM AwaitIsStable == Spec => AwaitStable
  <1> DEFINE Keeps ==
        /\ planned' = planned
        /\ Await
        /\ plan.ordering = "strict" =>
              /\ Len(expandCalls(plan.calls)) > 0
              /\ \A k \in 1 .. Len(plan.calls) : plan.calls[k].mode = "exact"
        => Await'
  <1>1. ServerInv /\ [Next]_vars => [Keeps]_vars
    <2> SUFFICES ASSUME ServerInv, Next, planned' = planned, Await,
                        plan.ordering = "strict" =>
                            /\ Len(expandCalls(plan.calls)) > 0
                            /\ \A k \in 1 .. Len(plan.calls) : plan.calls[k].mode = "exact"
                 PROVE  Await'
      OBVIOUS
    <2>0. planned \in 0 .. MaxPlans /\ observed \in Seq(Requests)
      BY DEF ServerInv, TypeOK
    <2>1. planned \in Nat /\ observed \in Seq(Requests)
      BY <2>0, BoundsAssumption
    <2>2. PICK request \in Requests : ServeHTTP(request)
      BY <2>1 DEF Next, SetPlan
    <2>3. plan' = plan /\ observed' = Append(observed, request)
      BY <2>2 DEF ServeHTTP
    <2>4. plan \in Plan
      BY PlanTypes DEF ServerInv
    <2>5. CASE plan.ordering = "strict"
      <3>1. evaluateStrict(plan, observed, FALSE)
        BY <2>5 DEF Await, evaluate
      <3>2. evaluateStrict(plan, Append(observed, request), FALSE)
        BY <2>1, <2>4, <2>5, <3>1, StrictAwaitStable
      <3> QED
        BY <2>3, <2>5, <3>2 DEF Await, evaluate
    <2>6. CASE plan.ordering # "strict"
      <3>1. evaluateAny(plan, observed, FALSE)
        BY <2>6 DEF Await, evaluate
      <3>2. evaluateAny(plan, Append(observed, request), FALSE)
        BY <2>1, <2>4, <3>1, AnyAwaitStable
      <3> QED
        BY <2>3, <2>6, <3>2 DEF Await, evaluate
    <2> QED
      BY <2>5, <2>6
  <1> QED
    BY <1>1, ServerInvariant, PTL DEF Spec, AwaitStable
-----------------------------------------------------------------------------
(* evaluateAny for plans whose calls do not overlap. *)

\* The requests of obs that match a call.
MatchedBy(call, obs) == {i \in DOMAIN obs : matchesCall(call, obs[i])}

\* Whatever is used up was taken by one of the calls so far.
LEMMA UsedWasTaken ==
    ASSUME NEW calls \in Seq(Call), NEW obs \in Seq(Requests),
           NEW k \in 0 .. Len(calls), NEW i \in UsedBy(calls, obs)[k]
    PROVE  \E j \in 1 .. k : i \in Taken(calls[j], obs, UsedBy(calls, obs)[j - 1])
  <1> DEFINE N == Len(calls)
             used == UsedBy(calls, obs)
             By(n) == \E j \in 1 .. n : i \in Taken(calls[j], obs, used[j - 1])
             S == {n \in 0 .. N : i \in used[n] => By(n)}
  <1>1. /\ used[0] = {} /\ N \in Nat
        /\ \A n \in 1 .. N : used[n] = used[n - 1] \cup Taken(calls[n], obs, used[n - 1])
    BY UsedAccumulates
  <1> HIDE DEF used
  <1>2. 0 \in S
    BY <1>1
  <1>3. ASSUME NEW n \in 0 .. N, n < N, n \in S PROVE n + 1 \in S
    <2>1. n + 1 \in 1 .. N /\ n + 1 \in 0 .. N /\ (n + 1) - 1 = n
      BY <1>1, <1>3
    <2>2. used[n + 1] = used[n] \cup Taken(calls[n + 1], obs, used[n])
      BY <1>1, <2>1
    <2>3. By(n) => By(n + 1)
      <3>1. \A j \in 1 .. n : j \in 1 .. n + 1
        BY <2>1
      <3> QED
        BY <3>1
    <2>4. i \in Taken(calls[n + 1], obs, used[n]) => By(n + 1)
      BY <2>1
    <2> HIDE DEF By
    <2> QED
      BY <1>3, <2>1, <2>2, <2>3, <2>4
  <1>4. \A n \in 0 .. N : n < N /\ n \in S => n + 1 \in S
    BY <1>3
  <1>5. \A n \in 0 .. N : n \in S
    <2> HIDE DEF S, N
    <2> QED
      BY <1>1, <1>2, <1>4, InductionUpTo
  <1> QED
    BY <1>5 DEF used

\* Nothing that a call took is given back.
LEMMA TakenIsUsed ==
    ASSUME NEW calls \in Seq(Call), NEW obs \in Seq(Requests), NEW k \in 1 .. Len(calls)
    PROVE  Taken(calls[k], obs, UsedBy(calls, obs)[k - 1]) \subseteq UsedBy(calls, obs)[Len(calls)]
  <1> DEFINE N == Len(calls)
             used == UsedBy(calls, obs)
             A == Taken(calls[k], obs, used[k - 1])
             S == {n \in 0 .. N : k <= n => A \subseteq used[n]}
  <1>1. /\ used[0] = {} /\ N \in Nat
        /\ \A n \in 1 .. N : used[n] = used[n - 1] \cup Taken(calls[n], obs, used[n - 1])
    BY UsedAccumulates
  <1> HIDE DEF used
  <1>2. A \subseteq used[k]
    BY <1>1
  <1> HIDE DEF A
  <1>3. 0 \in S
    BY <1>1
  <1>4. ASSUME NEW n \in 0 .. N, n < N, n \in S PROVE n + 1 \in S
    <2>1. n + 1 \in 1 .. N /\ n + 1 \in 0 .. N /\ (n + 1) - 1 = n
      BY <1>1, <1>4
    <2>2. used[n + 1] = used[n] \cup Taken(calls[n + 1], obs, used[n])
      BY <1>1, <2>1
    <2>3. k <= n + 1 => k <= n \/ k = n + 1
      BY <2>1
    <2> QED
      BY <1>2, <1>4, <2>1, <2>2, <2>3
  <1>5. \A n \in 0 .. N : n < N /\ n \in S => n + 1 \in S
    BY <1>4
  <1>6. \A n \in 0 .. N : n \in S
    <2> HIDE DEF S, N
    <2> QED
      BY <1>1, <1>3, <1>5, InductionUpTo
  <1>7. N \in S /\ k <= N
    BY <1>1, <1>6
  <1> QED
    BY <1>7 DEF used, A

\* Without overlap the calls before take nothing from a call: it takes from all the
\* requests that match it.
LEMMA DisjointTaken ==
    ASSUME NEW p \in Plan, Disjoint(p), NEW obs \in Seq(Requests), NEW k \in 1 .. Len(p.calls)
    PROVE  Taken(p.calls[k], obs, UsedBy(p.calls, obs)[k - 1]) =
               IF p.calls[k].count = 0 THEN {}
               ELSE IF p.calls[k].mode = "exact"
                    THEN FirstN(MatchedBy(p.calls[k], obs), p.calls[k].count)
                    ELSE MatchedBy(p.calls[k], obs)
  <1> DEFINE calls == p.calls
             used == UsedBy(calls, obs)
             cand == {i \in DOMAIN obs \ used[k - 1] : matchesCall(calls[k], obs[i])}
  <1>1. calls \in Seq(Call)
    BY DEF Plan
  <1>2. k - 1 \in 0 .. Len(calls)
    BY <1>1
  <1>3. ASSUME NEW i \in used[k - 1], matchesCall(calls[k], obs[i]) PROVE FALSE
    <2>1. PICK j \in 1 .. k - 1 : i \in Taken(calls[j], obs, used[j - 1])
      <3> HIDE DEF calls
      <3> QED
        BY <1>1, <1>2, UsedWasTaken
    <2>2. matchesCall(calls[j], obs[i])
      BY <2>1, TakenTypes
    <2>3. j \in 1 .. Len(p.calls) /\ j # k
      BY <1>1
    <2> QED
      BY <1>3, <2>2, <2>3 DEF Disjoint, matchesCall
  <1>4. cand = MatchedBy(calls[k], obs)
    BY <1>3 DEF MatchedBy
  <1>5. Taken(calls[k], obs, used[k - 1]) =
            IF calls[k].count = 0 THEN {}
            ELSE IF calls[k].mode = "exact" THEN FirstN(cand, calls[k].count) ELSE cand
    BY DEF Taken
  <1> QED
    BY <1>4, <1>5

\* The requests that match a call, and those among them before a place, are finitely many.
LEMMA MatchedFinite ==
    ASSUME NEW call, NEW obs \in Seq(Requests), NEW T \in SUBSET MatchedBy(call, obs)
    PROVE  /\ IsFiniteSet(MatchedBy(call, obs)) /\ Cardinality(MatchedBy(call, obs)) \in Nat
           /\ IsFiniteSet(T) /\ Cardinality(T) \in Nat
           /\ Cardinality(T) <= Cardinality(MatchedBy(call, obs))
           /\ T # MatchedBy(call, obs) => Cardinality(T) < Cardinality(MatchedBy(call, obs))
           /\ MatchedBy(call, obs) \in SUBSET Nat
  <1>1. DOMAIN obs = 1 .. Len(obs) /\ Len(obs) \in Int /\ 1 \in Int
    OBVIOUS
  <1>2. IsFiniteSet(DOMAIN obs)
    <2>1. IsFiniteSet(1 .. Len(obs))
      BY <1>1, FS_Interval
    <2> QED
      BY <1>1, <2>1
  <1>3. MatchedBy(call, obs) \in SUBSET DOMAIN obs /\ MatchedBy(call, obs) \in SUBSET Nat
    BY <1>1 DEF MatchedBy
  <1> DEFINE M == MatchedBy(call, obs)
  <1> HIDE DEF M
  <1>4. IsFiniteSet(M) /\ T \in SUBSET M
    BY <1>2, <1>3, FS_Subset DEF M
  <1>5. /\ IsFiniteSet(T) /\ Cardinality(T) <= Cardinality(M)
        /\ (Cardinality(M) = Cardinality(T) => M = T)
    BY <1>4, FS_Subset
  <1>6. Cardinality(M) \in Nat /\ Cardinality(T) \in Nat
    BY <1>4, <1>5, FS_CardinalityType
  <1> QED
    BY <1>3, <1>4, <1>5, <1>6 DEF M
\* The first n of a finite set of indices are n, if there are that many.
LEMMA FirstNCounts ==
    ASSUME NEW M \in SUBSET Nat, IsFiniteSet(M), NEW n \in Nat, n <= Cardinality(M)
    PROVE  Cardinality(FirstN(M, n)) = n
  <1> DEFINE C == Cardinality(M)
             Before(i) == {j \in M : j < i}
             S == {c \in 0 .. C : Cardinality(FirstN(M, c)) = c}
  <1>1. C \in Nat
    BY FS_CardinalityType
  <1>2. \A T \in SUBSET M : IsFiniteSet(T) /\ Cardinality(T) \in Nat
    BY FS_Subset, FS_CardinalityType
  <1>3. \A i : Before(i) \in SUBSET M
    OBVIOUS
  <1>4. \A c : FirstN(M, c) = {i \in M : Cardinality(Before(i)) < c}
    BY DEF FirstN
  <1>5. 0 \in S
    <2>1. FirstN(M, 0) = {}
      <3> HIDE DEF Before
      <3>1. \A i : Cardinality(Before(i)) \in Nat
        BY <1>2, <1>3
      <3> QED
        BY <1>4, <3>1
    <2> QED
      BY <1>1, <2>1, FS_EmptySet
  <1>6. ASSUME NEW c \in 0 .. C, c < C, c \in S PROVE c + 1 \in S
    <2> DEFINE F == FirstN(M, c)
               Rest == M \ F
    <2>1. F \in SUBSET M /\ Cardinality(F) = c /\ Rest \in SUBSET Nat
      BY <1>4, <1>6
    <2>2. Rest # {}
      <3>1. F # M
        BY <1>6, <2>1
      <3> QED
        BY <2>1, <3>1
    <2>3. PICK x \in Rest : \A y \in Rest : x <= y
      <3> HIDE DEF Rest
      <3> QED
        BY <2>1, <2>2, LeastMember
    <2>4. \A i \in M : i \in F <=> Cardinality(Before(i)) < c
      BY <1>4
    <2> HIDE DEF F
    <2>5. ASSUME NEW i \in M, NEW j \in M, i <= j
          PROVE  /\ Before(i) \in SUBSET Before(j)
                 /\ Cardinality(Before(i)) <= Cardinality(Before(j))
      <3>1. Before(i) \in SUBSET Before(j)
        <4>1. i \in Nat /\ j \in Nat /\ \A m \in M : m \in Nat
          OBVIOUS
        <4>2. \A m \in M : m < i => m < j
          BY <2>5, <4>1
        <4> QED
          BY <4>2
      <3>2. IsFiniteSet(Before(j))
        BY <1>2, <1>3
      <3> HIDE DEF Before
      <3> QED
        BY <3>1, <3>2, FS_Subset
    <2>6. Before(x) = F
      <3>1. ASSUME NEW j \in Before(x) PROVE j \in F
        BY <2>1, <2>3, <3>1
      <3>2. ASSUME NEW j \in F PROVE j \in Before(x)
        <4>1. j \in M /\ x \in M /\ x # j /\ x \in Nat /\ j \in Nat
          BY <2>1, <2>3
        <4>2. Cardinality(Before(j)) < c /\ ~(Cardinality(Before(x)) < c)
          BY <2>3, <2>4, <4>1
        <4>3. Cardinality(Before(j)) \in Nat /\ Cardinality(Before(x)) \in Nat
          BY <1>2, <1>3
        <4>4. ~(x <= j)
          BY <2>5, <4>1, <4>2, <4>3
        <4> QED
          BY <4>1, <4>4
      <3> QED
        BY <3>1, <3>2
    <2>7. FirstN(M, c + 1) = F \cup {x}
      <3> SUFFICES ASSUME NEW y \in M PROVE Cardinality(Before(y)) < c + 1 <=> y \in F \cup {x}
        BY <1>4, <2>1, <2>3
      <3>1. Cardinality(Before(y)) \in Nat /\ c \in Nat
        BY <1>2, <1>3
      <3>2. CASE y \in F
        BY <2>4, <3>1, <3>2
      <3>3. CASE y = x
        <4>1. Cardinality(Before(y)) = c
          BY <2>1, <2>6, <3>3
        <4> HIDE DEF Before
        <4> QED
          BY <3>1, <3>3, <4>1
      <3>4. CASE y \notin F /\ y # x
        <4>1. y \in Nat /\ x \in Nat /\ x <= y /\ x \in M /\ x \notin F
          BY <2>3, <3>4
        <4>2. F \cup {x} \in SUBSET Before(y)
          <5>1. Before(x) \in SUBSET Before(y)
            BY <2>5, <4>1
          <5>2. x \in Before(y)
            BY <3>4, <4>1
          <5> QED
            BY <2>6, <5>1, <5>2
        <4>3. IsFiniteSet(F) /\ IsFiniteSet(Before(y))
          BY <1>2, <1>3, <2>1
        <4>4. Cardinality(F \cup {x}) = c + 1
          BY <2>1, <4>1, <4>3, FS_AddElement
        <4>5. Cardinality(F \cup {x}) <= Cardinality(Before(y))
          <5> HIDE DEF Before
          <5> QED
            BY <4>2, <4>3, FS_Subset
        <4> QED
          BY <3>1, <3>4, <4>4, <4>5
      <3> QED
        BY <3>2, <3>3, <3>4
    <2>8. Cardinality(F \cup {x}) = c + 1
      BY <1>2, <2>1, <2>3, FS_AddElement
    <2> QED
      BY <1>1, <1>6, <2>7, <2>8
  <1>7. \A c \in 0 .. C : c < C /\ c \in S => c + 1 \in S
    BY <1>6
  <1>8. \A c \in 0 .. C : c \in S
    <2> HIDE DEF S, C
    <2> QED
      BY <1>1, <1>5, <1>7, InductionUpTo
  <1> QED
    BY <1>1, <1>8

\* The requests that had arrived with the i-th one.
LEMMA Arrived ==
    ASSUME NEW obs \in Seq(Requests), NEW i \in DOMAIN obs
    PROVE  /\ SubSeq(obs, 1, i) \in Seq(Requests)
           /\ Len(SubSeq(obs, 1, i)) = i
           /\ DOMAIN SubSeq(obs, 1, i) = 1 .. i
           /\ \A j \in 1 .. i : SubSeq(obs, 1, i)[j] = obs[j]
           /\ i \in Nat \ {0}
  OBVIOUS

\* A request that evaluateAny counts for a call can be answered by it, if no request matches
\* two calls: at the time it arrived its call had fewer than its count.
LEMMA TakenCanAnswer ==
    ASSUME NEW p \in Plan, Disjoint(p), NEW obs \in Seq(Requests), NEW k \in 1 .. Len(p.calls),
           NEW i \in Taken(p.calls[k], obs, UsedBy(p.calls, obs)[k - 1])
    PROVE  k \in anyCandidates(p, SubSeq(obs, 1, i))
  <1> DEFINE call == p.calls[k]
             now == SubSeq(obs, 1, i)
             M == MatchedBy(call, obs)
             before == {j \in M : j < i}
             upTo == {j \in DOMAIN now : matchesCall(call, now[j])}
  <1>1. /\ i \in DOMAIN obs /\ matchesCall(call, obs[i])
    BY TakenTypes
  <1>2. /\ Len(now) = i /\ DOMAIN now = 1 .. i /\ (\A j \in 1 .. i : now[j] = obs[j]) /\ i \in Nat \ {0}
    BY <1>1, Arrived
  <1>3. p.calls \in Seq(Call)
    BY DEF Plan
  <1>4. call.count \in Nat /\ call.mode \in {"exact", "at_least"}
    BY <1>3, CallTypes
  <1> HIDE DEF now
  <1>5. ASSUME call.mode = "exact" PROVE Cardinality(upTo) <= call.count
    <2>1. i \in FirstN(M, call.count)
      BY <1>5, DisjointTaken
    <2>2. Cardinality(before) < call.count
      BY <2>1 DEF FirstN
    <2>3. upTo = before \cup {i}
      <3>1. DOMAIN obs = 1 .. Len(obs) /\ Len(obs) \in Nat
        OBVIOUS
      <3> QED
        BY <1>1, <1>2, <3>1 DEF MatchedBy
    <2>4. IsFiniteSet(before) /\ Cardinality(before) \in Nat
      <3>1. before \in SUBSET MatchedBy(call, obs)
        OBVIOUS
      <3> HIDE DEF before, call
      <3> QED
        BY <3>1, MatchedFinite
    <2>5. i \notin before
      BY <1>2
    <2>6. Cardinality(before \cup {i}) = Cardinality(before) + 1
      <3> HIDE DEF before
      <3> QED
        BY <2>4, <2>5, FS_AddElement
    <2> HIDE DEF before, upTo
    <2> QED
      BY <1>4, <2>2, <2>3, <2>4, <2>6
  <1>6. matchesCall(call, now[Len(now)])
    BY <1>1, <1>2
  <1>7. call.mode = "at_least" \/ Cardinality(upTo) <= call.count
    BY <1>4, <1>5
  <1> QED
    BY <1>6, <1>7 DEF anyCandidates, now

\* What Verify accepts was served: in strict order, and in any order for plans whose calls
\* do not overlap, no request of an accepted run was answered 500, and in strict order
\* the answers follow the plan.
THEOREM AcceptedWasServed == Spec => []AcceptedMeansServed
  <1>1. ServerInv => AcceptedMeansServed
    <2> SUFFICES ASSUME ServerInv, Verify, plan.ordering = "strict" \/ Disjoint(plan)
                 PROVE  /\ \A i \in DOMAIN served : served[i] # Unexpected
                        /\ plan.ordering = "strict" =>
                              \A i, j \in DOMAIN served : i <= j => served[i] <= served[j]
      BY DEF AcceptedMeansServed
    <2>1. /\ observed \in Seq(Requests) /\ served \in Seq(Nat) /\ Len(served) = Len(observed)
      BY DEF ServerInv, TypeOK
    <2>2. plan \in Plan /\ plan.calls \in Seq(Call)
      BY PlanTypes DEF ServerInv
    <2>3. DOMAIN served = DOMAIN observed
      BY <2>1
    <2>4. \A i \in DOMAIN served : served[i] = responseForRequest(plan, SubSeq(observed, 1, i))
      BY DEF ServerInv, ServedInv
    <2>5. CASE plan.ordering = "strict"
      <3>1. \A i \in DOMAIN observed :
               StrictSlot(plan, i) # Unexpected /\ matchesCall(plan.calls[StrictSlot(plan, i)], observed[i])
        BY <2>5 DEF Verify, evaluate, evaluateStrict
      <3>2. ASSUME NEW i \in DOMAIN served PROVE served[i] = StrictSlot(plan, i) /\ i \in Nat \ {0}
        <4> DEFINE now == SubSeq(observed, 1, i)
        <4>1. Len(now) = i /\ now[i] = observed[i] /\ i \in Nat \ {0}
          BY <2>1, <2>3, Arrived
        <4>2. served[i] = strictResponseForRequest(plan, now)
          BY <2>4, <2>5 DEF responseForRequest
        <4> HIDE DEF now
        <4> QED
          BY <2>3, <3>1, <4>1, <4>2 DEF strictResponseForRequest
      <3>3. ASSUME NEW i \in DOMAIN served, NEW j \in DOMAIN served, i <= j
            PROVE  served[i] <= served[j]
        <4>1. StrictSlot(plan, j) # Unexpected
          BY <2>3, <3>1
        <4>2. StrictSlot(plan, i) <= StrictSlot(plan, j)
          BY <2>2, <3>2, <3>3, <4>1, StrictSlotOrdered
        <4> QED
          BY <3>2, <4>2
      <3> QED
        BY <2>3, <3>1, <3>2, <3>3
    <2>6. CASE plan.ordering # "strict"
      <3> DEFINE N == Len(plan.calls)
                 used == UsedBy(plan.calls, observed)
      <3>1. used[N] = DOMAIN observed
        BY <2>6 DEF Verify, evaluate, evaluateAny
      <3>2. ASSUME NEW i \in DOMAIN served PROVE served[i] # Unexpected
        <4>1. i \in used[N] /\ N \in 0 .. N
          BY <2>2, <2>3, <3>1
        <4>2. PICK k \in 1 .. N : i \in Taken(plan.calls[k], observed, used[k - 1])
          BY <2>1, <2>2, <4>1, UsedWasTaken
        <4>3. k \in anyCandidates(plan, SubSeq(observed, 1, i))
          BY <2>1, <2>2, <2>6, <4>2, TakenCanAnswer
        <4>4. anyResponseForRequest(plan, SubSeq(observed, 1, i)) \in 1 .. N
          BY <2>2, <4>3, AnyResponse
        <4>5. served[i] = anyResponseForRequest(plan, SubSeq(observed, 1, i))
          BY <2>4, <2>6 DEF responseForRequest
        <4> QED
          BY <2>2, <4>4, <4>5 DEF Unexpected
      <3> QED
        BY <2>6, <3>2
    <2> QED
      BY <2>5, <2>6
  <1> QED
    BY <1>1, ServerInvariant, PTL
-----------------------------------------------------------------------------
(* Ordering any is fair where no request matches two calls. *)

\* What evaluateAny accepts, said without the order of arrival: each call has its count,
\* and each request matches a call that may take all the requests that match it.
Accepts(p, obs) ==
    /\ \A k \in 1 .. Len(p.calls) : Cardinality(MatchedBy(p.calls[k], obs)) >= p.calls[k].count
    /\ \A i \in DOMAIN obs : \E k \in 1 .. Len(p.calls) :
          /\ matchesCall(p.calls[k], obs[i])
          /\ p.calls[k].count # 0
          /\ p.calls[k].mode = "exact" => Cardinality(MatchedBy(p.calls[k], obs)) <= p.calls[k].count

\* How many requests a call takes, and that an exact call which has enough takes its count.
LEMMA TakenCounts ==
    ASSUME NEW p \in Plan, Disjoint(p), NEW obs \in Seq(Requests), NEW k \in 1 .. Len(p.calls)
    PROVE  LET call == p.calls[k]
               T == Taken(call, obs, UsedBy(p.calls, obs)[k - 1])
               M == MatchedBy(call, obs)
           IN  /\ Cardinality(T) \in Nat /\ Cardinality(M) \in Nat /\ call.count \in Nat
               /\ Cardinality(T) <= Cardinality(M)
               /\ Cardinality(M) >= call.count => Cardinality(T) >= call.count
               /\ Cardinality(M) >= call.count /\ call.mode = "exact" => Cardinality(T) = call.count
  <1> DEFINE call == p.calls[k]
             T == Taken(call, obs, UsedBy(p.calls, obs)[k - 1])
             M == MatchedBy(call, obs)
  <1>1. p.calls \in Seq(Call)
    BY DEF Plan
  <1>2. call.count \in Nat
    BY <1>1, CallTypes
  <1>3. T = IF call.count = 0 THEN {} ELSE IF call.mode = "exact" THEN FirstN(M, call.count) ELSE M
    BY DisjointTaken
  <1> HIDE DEF T
  <1>4. T \in SUBSET M
    BY <1>3 DEF FirstN
  <1>5. /\ IsFiniteSet(M) /\ Cardinality(M) \in Nat /\ Cardinality(T) \in Nat
        /\ Cardinality(T) <= Cardinality(M) /\ M \in SUBSET Nat
    <2> HIDE DEF call
    <2> QED
      BY <1>4, MatchedFinite
  <1> HIDE DEF M, call
  <1>6. call.count = 0 => Cardinality(T) = 0
    BY <1>3, FS_EmptySet
  <1>7. call.count # 0 /\ call.mode = "exact" /\ Cardinality(M) >= call.count =>
            Cardinality(T) = call.count
    <2> SUFFICES ASSUME call.count # 0, call.mode = "exact", Cardinality(M) >= call.count
                 PROVE  Cardinality(T) = call.count
      OBVIOUS
    <2>1. T = FirstN(M, call.count)
      BY <1>3
    <2>2. call.count <= Cardinality(M)
      BY <1>2, <1>5
    <2> QED
      BY <1>2, <1>5, <2>1, <2>2, FirstNCounts
  <1>8. call.count # 0 /\ call.mode # "exact" => T = M
    BY <1>3
  <1> QED
    BY <1>2, <1>5, <1>6, <1>7, <1>8 DEF M, T, call

\* A call that took a request takes all that match it once Verify accepts.
LEMMA AcceptedIsCounted ==
    ASSUME NEW p \in Plan, Disjoint(p), NEW obs \in Seq(Requests), evaluateAny(p, obs, TRUE)
    PROVE  Accepts(p, obs)
  <1> DEFINE N == Len(p.calls)
             used == UsedBy(p.calls, obs)
             T(k) == Taken(p.calls[k], obs, used[k - 1])
             M(k) == MatchedBy(p.calls[k], obs)
  <1>1. p.calls \in Seq(Call)
    BY DEF Plan
  <1>2. N \in Nat /\ N \in 0 .. N
    BY <1>1
  <1>3. (\A k \in 1 .. N : Cardinality(T(k)) >= p.calls[k].count) /\ used[N] = DOMAIN obs
    BY DEF evaluateAny
  <1>4. ASSUME NEW k \in 1 .. N
        PROVE  /\ Cardinality(T(k)) \in Nat /\ Cardinality(M(k)) \in Nat /\ p.calls[k].count \in Nat
               /\ Cardinality(T(k)) <= Cardinality(M(k))
               /\ Cardinality(M(k)) >= p.calls[k].count /\ p.calls[k].mode = "exact" =>
                     Cardinality(T(k)) = p.calls[k].count
    BY TakenCounts
  <1>5. ASSUME NEW i \in DOMAIN obs
        PROVE  \E k \in 1 .. N : i \in T(k)
    BY <1>1, <1>2, <1>3, UsedWasTaken
  <1>6. ASSUME NEW k \in 1 .. N PROVE T(k) = M(k)
    <2>1. T(k) \subseteq DOMAIN obs /\ \A i \in T(k) : matchesCall(p.calls[k], obs[i])
      BY TakenTypes
    <2>2. ASSUME NEW i \in M(k) PROVE i \in T(k)
      <3>1. i \in DOMAIN obs /\ matchesCall(p.calls[k], obs[i])
        BY DEF MatchedBy
      <3>2. PICK j \in 1 .. N : i \in T(j)
        BY <1>5, <3>1
      <3>3. matchesCall(p.calls[j], obs[i])
        BY <3>2, TakenTypes
      <3>4. j = k
        BY <3>1, <3>3 DEF Disjoint, matchesCall
      <3> QED
        BY <3>2, <3>4
    <2> HIDE DEF T
    <2> QED
      BY <2>1, <2>2 DEF MatchedBy
  <1> HIDE DEF T, used
  <1>7. ASSUME NEW k \in 1 .. N PROVE Cardinality(M(k)) >= p.calls[k].count
    BY <1>3, <1>6
  <1>8. ASSUME NEW i \in DOMAIN obs
        PROVE  \E k \in 1 .. N :
                  /\ matchesCall(p.calls[k], obs[i])
                  /\ p.calls[k].count # 0
                  /\ p.calls[k].mode = "exact" => Cardinality(M(k)) <= p.calls[k].count
    <2>1. PICK k \in 1 .. N : i \in T(k)
      BY <1>5
    <2>2. matchesCall(p.calls[k], obs[i]) /\ p.calls[k].count # 0
      BY <2>1, TakenTypes DEF T
    <2>3. p.calls[k].mode = "exact" => Cardinality(M(k)) <= p.calls[k].count
      BY <1>4, <1>6, <1>7
    <2> QED
      BY <2>2, <2>3
  <1> QED
    BY <1>7, <1>8 DEF Accepts

\* And the other way round.
LEMMA CountedIsAccepted ==
    ASSUME NEW p \in Plan, Disjoint(p), NEW obs \in Seq(Requests), Accepts(p, obs)
    PROVE  evaluateAny(p, obs, TRUE)
  <1> DEFINE N == Len(p.calls)
             used == UsedBy(p.calls, obs)
             T(k) == Taken(p.calls[k], obs, used[k - 1])
             M(k) == MatchedBy(p.calls[k], obs)
  <1>1. p.calls \in Seq(Call)
    BY DEF Plan
  <1>2. ASSUME NEW k \in 1 .. N PROVE Cardinality(T(k)) >= p.calls[k].count
    <2>1. Cardinality(M(k)) >= p.calls[k].count
      BY DEF Accepts
    <2> QED
      BY <2>1, TakenCounts
  <1>3. ASSUME NEW i \in DOMAIN obs PROVE i \in used[N]
    <2>1. PICK k \in 1 .. N : /\ matchesCall(p.calls[k], obs[i])
                              /\ p.calls[k].count # 0
                              /\ p.calls[k].mode = "exact" => Cardinality(M(k)) <= p.calls[k].count
      BY DEF Accepts
    <2>2. i \in M(k)
      BY <2>1 DEF MatchedBy
    <2> DEFINE before == {j \in M(k) : j < i}
    <2>3. before \in SUBSET MatchedBy(p.calls[k], obs) /\ before # MatchedBy(p.calls[k], obs)
      <3>1. i \in Nat
        OBVIOUS
      <3> QED
        BY <2>2, <3>1
    <2>4. Cardinality(before) < Cardinality(M(k)) /\ Cardinality(before) \in Nat /\ Cardinality(M(k)) \in Nat
      <3> HIDE DEF before
      <3> QED
        BY <2>3, MatchedFinite
    <2>5. p.calls[k].count \in Nat
      BY <1>1, CallTypes
    <2>6. p.calls[k].mode = "exact" => i \in FirstN(M(k), p.calls[k].count)
      BY <2>1, <2>2, <2>4, <2>5 DEF FirstN
    <2>7. i \in T(k)
      <3>1. T(k) = IF p.calls[k].count = 0 THEN {}
                   ELSE IF p.calls[k].mode = "exact" THEN FirstN(M(k), p.calls[k].count) ELSE M(k)
        BY DisjointTaken
      <3> QED
        BY <2>1, <2>2, <2>6, <3>1
    <2>8. T(k) \subseteq used[N]
      BY <1>1, TakenIsUsed
    <2> QED
      BY <2>7, <2>8
  <1>4. used[N] \subseteq DOMAIN obs
    <2>1. used \in [0 .. N -> SUBSET DOMAIN obs] /\ N \in 0 .. N
      BY <1>1, UsedAccumulates
    <2> HIDE DEF used
    <2> QED
      BY <2>1
  <1>5. used[N] = DOMAIN obs
    BY <1>3, <1>4
  <1> QED
    BY <1>2, <1>5 DEF evaluateAny
\* The requests in another order: the same number of them matches each call.
LEMMA ReorderKeepsCounts ==
    ASSUME NEW obs \in Seq(Requests), NEW perm \in Orders(obs)
    PROVE  /\ Reorder(obs, perm) \in Seq(Requests)
           /\ DOMAIN Reorder(obs, perm) = DOMAIN obs
           /\ \A i \in DOMAIN obs : perm[i] \in DOMAIN obs /\ Reorder(obs, perm)[i] = obs[perm[i]]
           /\ \A j \in DOMAIN obs : \E i \in DOMAIN obs : perm[i] = j
           /\ \A call : Cardinality(MatchedBy(call, Reorder(obs, perm))) = Cardinality(MatchedBy(call, obs))
  <1> DEFINE D == DOMAIN obs
             obs2 == Reorder(obs, perm)
  <1>1. /\ D = 1 .. Len(obs) /\ Len(obs) \in Nat /\ 1 \in Int /\ Len(obs) \in Int
        /\ \A i \in D : obs[i] \in Requests
    OBVIOUS
  <1>2. perm \in [D -> D] /\ \A i, j \in D : perm[i] = perm[j] => i = j
    BY DEF Orders
  <1>3. IsFiniteSet(D)
    <2>1. IsFiniteSet(1 .. Len(obs))
      BY <1>1, FS_Interval
    <2> QED
      BY <1>1, <2>1
  <1>4. DOMAIN obs2 = D /\ \A i \in D : perm[i] \in D /\ obs2[i] = obs[perm[i]]
    BY <1>2 DEF Reorder
  <1> HIDE DEF obs2, D
  <1>5. obs2 \in Seq(Requests)
    <2>1. obs2 \in [D -> Requests]
      <3>1. obs2 = [i \in D |-> obs[perm[i]]]
        BY DEF obs2, Reorder, D
      <3> QED
        BY <1>1, <1>4, <3>1
    <2>2. obs2 \in [1 .. Len(obs) -> Requests]
      BY <1>1, <2>1
    <2> QED
      BY <1>1, <2>2
  <1>6. \A j \in D : \E i \in D : perm[i] = j
    <2>1. perm \in Injection(D, D)
      BY <1>2 DEF Injection, IsInjective
    <2>2. perm \in Surjection(D, D)
      BY <1>3, <2>1, FS_Injection
    <2> QED
      BY <2>2 DEF Surjection
  <1>7. ASSUME NEW call PROVE Cardinality(MatchedBy(call, obs2)) = Cardinality(MatchedBy(call, obs))
    <2> DEFINE M == MatchedBy(call, obs)
               M2 == MatchedBy(call, obs2)
               f == [i \in M2 |-> perm[i]]
    <2>1. /\ M = {i \in D : matchesCall(call, obs[i])}
          /\ M2 = {i \in D : matchesCall(call, obs[perm[i]])}
      BY <1>4 DEF MatchedBy, D
    <2> HIDE DEF M, M2
    <2>2. f \in [M2 -> M]
      BY <1>4, <2>1
    <2>3. \A i, j \in M2 : f[i] = f[j] => i = j
      BY <1>2, <2>1
    <2>4. \A j \in M : \E i \in M2 : f[i] = j
      BY <1>6, <2>1
    <2> HIDE DEF f
    <2>5. f \in Bijection(M2, M)
      BY <2>2, <2>3, <2>4 DEF Bijection, Injection, Surjection, IsInjective
    <2>6. IsFiniteSet(M2)
      BY <1>3, <2>1, FS_Subset
    <2>7. Cardinality(M) = Cardinality(M2)
      BY <2>5, <2>6, FS_Bijection DEF ExistsBijection
    <2> QED
      BY <2>7 DEF M, M2
  <1> QED
    BY <1>4, <1>5, <1>6, <1>7 DEF obs2, D

\* So the order does not matter to Accepts.
LEMMA ReorderKeepsAccepts ==
    ASSUME NEW p \in Plan, NEW obs \in Seq(Requests), NEW perm \in Orders(obs)
    PROVE  Accepts(p, Reorder(obs, perm)) <=> Accepts(p, obs)
  <1> DEFINE obs2 == Reorder(obs, perm)
             D == DOMAIN obs
             Covers(k, r) == /\ matchesCall(p.calls[k], r)
                             /\ p.calls[k].count # 0
                             /\ p.calls[k].mode = "exact" =>
                                   Cardinality(MatchedBy(p.calls[k], obs)) <= p.calls[k].count
             Enough == \A k \in 1 .. Len(p.calls) :
                          Cardinality(MatchedBy(p.calls[k], obs)) >= p.calls[k].count
  <1>1. /\ DOMAIN obs2 = D
        /\ \A i \in D : perm[i] \in D /\ obs2[i] = obs[perm[i]]
        /\ \A j \in D : \E i \in D : perm[i] = j
        /\ \A call : Cardinality(MatchedBy(call, obs2)) = Cardinality(MatchedBy(call, obs))
    BY ReorderKeepsCounts
  <1>2. Accepts(p, obs) <=>
            Enough /\ \A i \in D : \E k \in 1 .. Len(p.calls) : Covers(k, obs[i])
    BY DEF Accepts
  <1> HIDE DEF obs2
  <1>3. Accepts(p, obs2) <=>
            Enough /\ \A i \in D : \E k \in 1 .. Len(p.calls) : Covers(k, obs[perm[i]])
    <2>1. Accepts(p, obs2) <=>
              /\ \A k \in 1 .. Len(p.calls) :
                    Cardinality(MatchedBy(p.calls[k], obs2)) >= p.calls[k].count
              /\ \A i \in DOMAIN obs2 : \E k \in 1 .. Len(p.calls) :
                    /\ matchesCall(p.calls[k], obs2[i])
                    /\ p.calls[k].count # 0
                    /\ p.calls[k].mode = "exact" =>
                          Cardinality(MatchedBy(p.calls[k], obs2)) <= p.calls[k].count
      BY DEF Accepts
    <2>2. \A k \in 1 .. Len(p.calls) :
             Cardinality(MatchedBy(p.calls[k], obs2)) = Cardinality(MatchedBy(p.calls[k], obs))
      BY <1>1
    <2>3. \A i \in DOMAIN obs2 : i \in D /\ obs2[i] = obs[perm[i]]
      BY <1>1
    <2>4. \A i \in D : i \in DOMAIN obs2
      BY <1>1
    <2> HIDE DEF D
    <2> QED
      BY <2>1, <2>2, <2>3, <2>4
  <1> HIDE DEF Enough, Covers
  <1> QED
    BY <1>1, <1>2, <1>3 DEF obs2

\* A client is served until the count of its call is used up, where no request matches two
\* calls: the first requests that match a call are answered by it.
LEMMA ServedUpToCount ==
    ASSUME ServerInv, plan.ordering # "strict", Disjoint(plan)
    PROVE  CountServed
  <1> DEFINE N == Len(plan.calls)
  <1>1. observed \in Seq(Requests) /\ served \in Seq(Nat) /\ Len(served) = Len(observed)
    BY DEF ServerInv, TypeOK
  <1>2. plan \in Plan /\ plan.calls \in Seq(Call)
    BY PlanTypes DEF ServerInv
  <1>3. DOMAIN served = DOMAIN observed /\ DOMAIN observed = 1 .. Len(observed) /\ Len(observed) \in Nat
    BY <1>1
  <1>4. ASSUME NEW i \in DOMAIN observed
        PROVE  served[i] = anyResponseForRequest(plan, SubSeq(observed, 1, i))
    BY <1>3 DEF ServerInv, ServedInv, responseForRequest
  <1>5. ASSUME NEW i \in DOMAIN observed, NEW k \in 1 .. N
        PROVE  k \in anyCandidates(plan, SubSeq(observed, 1, i)) <=>
                  /\ matchesCall(plan.calls[k], observed[i])
                  /\ \/ plan.calls[k].mode = "at_least"
                     \/ Cardinality({j \in 1 .. i : matchesCall(plan.calls[k], observed[j])})
                           <= plan.calls[k].count
    <2> DEFINE now == SubSeq(observed, 1, i)
    <2>1. Len(now) = i /\ DOMAIN now = 1 .. i /\ (\A j \in 1 .. i : now[j] = observed[j]) /\ i \in 1 .. i
      BY <1>1, Arrived
    <2> HIDE DEF now
    <2>2. {j \in DOMAIN now : matchesCall(plan.calls[k], now[j])}
             = {j \in 1 .. i : matchesCall(plan.calls[k], observed[j])}
      BY <2>1
    <2>3. k \in anyCandidates(plan, now) <=>
                  /\ matchesCall(plan.calls[k], now[Len(now)])
                  /\ \/ plan.calls[k].mode = "at_least"
                     \/ Cardinality({j \in DOMAIN now : matchesCall(plan.calls[k], now[j])})
                           <= plan.calls[k].count
      BY DEF anyCandidates
    <2> QED
      BY <2>1, <2>2, <2>3 DEF now
  <1> SUFFICES ASSUME NEW i \in DOMAIN served, served[i] = Unexpected,
                      NEW k \in 1 .. N, matchesCall(plan.calls[k], observed[i])
               PROVE  Cardinality({j \in 1 .. i - 1 : served[j] = k}) >= plan.calls[k].count
    BY DEF CountServed
  <1> DEFINE call == plan.calls[k]
             M == {j \in 1 .. i - 1 : matchesCall(call, observed[j])}
             upTo(j) == {m \in 1 .. j : matchesCall(call, observed[m])}
             answered == {j \in 1 .. i - 1 : served[j] = k}
  <1>6. call.count \in Nat /\ call.mode \in {"exact", "at_least"}
    BY <1>2, CallTypes
  <1>7. i \in 1 .. Len(observed) /\ i \in Nat \ {0}
    BY <1>3
  <1>8. \A j \in 0 .. i : IsFiniteSet(1 .. j)
    BY <1>7, FS_Interval
  <1>9. call.mode = "exact" /\ ~(Cardinality(upTo(i)) <= call.count)
    <2>1. anyCandidates(plan, SubSeq(observed, 1, i)) = {}
      <3>1. anyResponseForRequest(plan, SubSeq(observed, 1, i)) = 0
        BY <1>3, <1>4 DEF Unexpected
      <3> QED
        BY <1>2, <3>1, AnyResponse
    <2>2. k \notin anyCandidates(plan, SubSeq(observed, 1, i))
      BY <2>1
    <2> QED
      BY <1>3, <1>5, <1>6, <2>2
  <1>10. M \in SUBSET Nat /\ IsFiniteSet(M) /\ Cardinality(M) \in Nat
    <2>1. i - 1 \in 0 .. i /\ M \in SUBSET (1 .. i - 1) /\ M \in SUBSET Nat
      BY <1>7
    <2>2. IsFiniteSet(1 .. i - 1)
      BY <1>8, <2>1
    <2>3. IsFiniteSet(M)
      <3> HIDE DEF M
      <3> QED
        BY <2>1, <2>2, FS_Subset
    <2> QED
      BY <2>1, <2>3, FS_CardinalityType
  <1>11. call.count <= Cardinality(M)
    <2>1. upTo(i) = M \cup {i} /\ i \notin M
      BY <1>7
    <2> HIDE DEF M
    <2>2. Cardinality(M \cup {i}) = Cardinality(M) + 1
      BY <1>10, <2>1, FS_AddElement
    <2> HIDE DEF upTo
    <2> QED
      BY <1>6, <1>9, <1>10, <2>1, <2>2
  <1>12. ASSUME NEW j \in FirstN(M, call.count) PROVE j \in answered
    <2>1. j \in M /\ Cardinality({m \in M : m < j}) < call.count
      BY DEF FirstN
    <2>2. j \in 1 .. i - 1 /\ matchesCall(call, observed[j]) /\ j \in DOMAIN observed
      BY <1>3, <1>7, <2>1
    <2>3. upTo(j) = {m \in M : m < j} \cup {j} /\ {m \in M : m < j} \in SUBSET M
      BY <1>7, <2>2
    <2>4. Cardinality(upTo(j)) <= call.count
      <3> DEFINE before == {m \in M : m < j}
      <3>1. j \notin before
        BY <2>2
      <3>2. IsFiniteSet(before) /\ Cardinality(before) \in Nat
        <4>1. before \in SUBSET M
          BY <2>3
        <4> HIDE DEF before, M
        <4> QED
          BY <1>10, <4>1, FS_Subset, FS_CardinalityType
      <3>3. Cardinality(before) < call.count /\ upTo(j) = before \cup {j}
        BY <2>1, <2>3
      <3> HIDE DEF before, upTo
      <3>4. Cardinality(before \cup {j}) = Cardinality(before) + 1
        BY <3>1, <3>2, FS_AddElement
      <3> QED
        BY <1>6, <3>2, <3>3, <3>4
    <2>5. k \in anyCandidates(plan, SubSeq(observed, 1, j))
      BY <1>5, <2>2, <2>4
    <2>6. \A n \in 1 .. N : n \in anyCandidates(plan, SubSeq(observed, 1, j)) => n = k
      BY <1>5, <2>2 DEF Disjoint, matchesCall
    <2>7. served[j] \in anyCandidates(plan, SubSeq(observed, 1, j)) /\ served[j] \in 1 .. N
      BY <1>2, <1>4, <2>2, <2>5, AnyResponse
    <2>8. served[j] = k
      BY <2>6, <2>7
    <2> QED
      BY <2>2, <2>8
  <1>13. Cardinality(FirstN(M, call.count)) = call.count
    <2> HIDE DEF M, call
    <2> QED
      BY <1>6, <1>10, <1>11, FirstNCounts
  <1>14. /\ IsFiniteSet(answered) /\ Cardinality(answered) \in Nat
         /\ Cardinality(FirstN(M, call.count)) <= Cardinality(answered)
    <2>1. i - 1 \in 0 .. i /\ answered \in SUBSET (1 .. i - 1)
      BY <1>7
    <2>2. FirstN(M, call.count) \in SUBSET answered
      BY <1>12
    <2>3. IsFiniteSet(1 .. i - 1)
      BY <1>8, <2>1
    <2> HIDE DEF answered, M, call
    <2>4. IsFiniteSet(answered)
      BY <2>1, <2>3, FS_Subset
    <2> QED
      BY <2>2, <2>4, FS_Subset, FS_CardinalityType
  <1> HIDE DEF M, call
  <1> QED
    BY <1>6, <1>13, <1>14 DEF call

\* Where no request matches two calls, ordering any is what its comments say: the verdict
\* of evaluateAny is the same for every order of arrival, and a client is answered 500 only
\* if the call for its request has answered its whole count.
THEOREM DisjointPlansAreFair == Spec => []DisjointIsFair
  <1>1. ServerInv => DisjointIsFair
    <2> SUFFICES ASSUME ServerInv, plan.ordering # "strict", Disjoint(plan)
                 PROVE  OrderIgnored /\ CountServed
      BY DEF DisjointIsFair
    <2>1. observed \in Seq(Requests) /\ plan \in Plan
      BY PlanTypes DEF ServerInv, TypeOK
    <2>2. ASSUME NEW perm \in Orders(observed)
          PROVE  evaluate(plan, Reorder(observed, perm), TRUE) = Verify
      <3> DEFINE obs2 == Reorder(observed, perm)
      <3>1. obs2 \in Seq(Requests)
        BY <2>1, ReorderKeepsCounts
      <3>2. evaluateAny(plan, observed, TRUE) <=> Accepts(plan, observed)
        BY <2>1, AcceptedIsCounted, CountedIsAccepted
      <3>3. Accepts(plan, obs2) <=> Accepts(plan, observed)
        BY <2>1, ReorderKeepsAccepts
      <3> HIDE DEF obs2
      <3>4. evaluateAny(plan, obs2, TRUE) <=> Accepts(plan, obs2)
        BY <2>1, <3>1, AcceptedIsCounted, CountedIsAccepted
      <3>5. evaluateAny(plan, obs2, TRUE) \in BOOLEAN /\ evaluateAny(plan, observed, TRUE) \in BOOLEAN
        BY DEF evaluateAny
      <3>6. evaluateAny(plan, obs2, TRUE) = evaluateAny(plan, observed, TRUE)
        <4>1. evaluateAny(plan, obs2, TRUE) <=> evaluateAny(plan, observed, TRUE)
          BY <3>2, <3>3, <3>4
        <4>2. CASE evaluateAny(plan, observed, TRUE)
          <5>1. evaluateAny(plan, observed, TRUE) = TRUE /\ evaluateAny(plan, obs2, TRUE) = TRUE
            BY <3>5, <4>1, <4>2
          <5> QED
            BY <5>1
        <4>3. CASE ~evaluateAny(plan, observed, TRUE)
          <5>1. evaluateAny(plan, observed, TRUE) = FALSE /\ evaluateAny(plan, obs2, TRUE) = FALSE
            BY <3>5, <4>1, <4>3
          <5> QED
            BY <5>1
        <4> QED
          BY <4>2, <4>3
      <3> QED
        BY <3>6 DEF Verify, evaluate, obs2
    <2>3. OrderIgnored
      BY <2>2 DEF OrderIgnored
    <2> QED
      BY <2>3, ServedUpToCount
  <1> QED
    BY <1>1, ServerInvariant, PTL
=============================================================================
