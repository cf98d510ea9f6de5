---------------------------- MODULE LoaderProofs ----------------------------
(* Proofs about Loader, for every set of case sources and every registry. *)
EXTENDS Loader, SetInduction, FiniteSetTheorems, TLAPS

-----------------------------------------------------------------------------
(* What holds of the parts of a case while it is mapped. *)

\* The elements of a sequence with one more.
LEMMA AppendedRange ==
    ASSUME NEW S, NEW s \in Seq(S), NEW e
    PROVE  Range(Append(s, e)) = Range(s) \cup {e}
  <1>1. /\ \A i \in 1 .. Len(s) : Append(s, e)[i] = s[i]
        /\ Append(s, e)[Len(s) + 1] = e
    OBVIOUS
  <1>2. DOMAIN Append(s, e) = 1 .. Len(s) + 1 /\ DOMAIN s = 1 .. Len(s) /\ Len(s) \in Nat
    OBVIOUS
  <1>3. 1 .. Len(s) + 1 = 1 .. Len(s) \cup {Len(s) + 1}
    BY <1>2
  <1> QED
    BY <1>1, <1>2, <1>3 DEF Range

IdsOf(steps) == {s.id : s \in Range(steps)}

\* A step that runCase can run.
StepRunnable(s) ==
    /\ s.kind \in StepKinds /\ s.handler \in Handlers
    /\ (s.kind = "await") = (s.retry # {})
    /\ \A r \in s.retry : r.timeout_ms > 0 /\ r.interval_ms > 0 /\ r.max_attempts > 0

\* Steps that runCase can run, with ids of their own.
StepsRunnable(steps) ==
    /\ IsFiniteSet(IdsOf(steps)) /\ Cardinality(IdsOf(steps)) = Len(steps)
    /\ "" \notin IdsOf(steps)
    /\ \A s \in Range(steps) : StepRunnable(s)

\* The assert block of a case with these steps.
AssertRunnable(assert, steps) ==
    /\ assert.from \in IdsOf(steps) \cup {""}
    /\ assert.code = Success =>
          /\ assert.response \in {"raw", "typed", "nil"}
          /\ assert.from = "" => \E s \in Range(steps) : s.kind = "action"
    /\ assert.code # Success => assert.mode = "exact" /\ assert.response = "nil"

\* A success assert without a response is one whose file gives null.
ResponseGiven(assert, path, s) ==
    assert.code = Success /\ assert.response = "nil" =>
        s.files[path].doc.assert.response = "null"

\* A case loaded from the source s that runCase can run.
CaseRunnable(c, s) ==
    /\ c.name # "" /\ c.steps # <<>>
    /\ StepsRunnable(c.steps)
    /\ AssertRunnable(c.assert, c.steps)
    /\ ResponseGiven(c.assert, c.path, s)

\* A step that mapStep accepts can be run.
LEMMA MappedStepRuns ==
    ASSUME NEW step \in StepDoc, ~mapStepFails(step)
    PROVE  StepRunnable(mapStep(step)) /\ mapStep(step).id # "" /\ mapStep(step).id = TrimSpace(step.id)
  <1> DEFINE m == mapStep(step)
  <1>1. /\ m.id = TrimSpace(step.id) /\ m.kind = TrimSpace(step.kind)
        /\ m.handler = TrimSpace(step.handler) /\ m.retry = step.retry
    BY DEF mapStep
  <1> HIDE DEF m
  <1>2. /\ TrimSpace(step.id) # "" /\ TrimSpace(step.kind) \in StepKinds
        /\ TrimSpace(step.handler) \in Handlers
        /\ ~mapAwaitRetryFails(TrimSpace(step.kind), step.retry)
    BY DEF mapStepFails, Resolve
  <1>3. \A r \in step.retry : r.timeout_ms \in Int /\ r.interval_ms \in Int /\ r.max_attempts \in Int
    BY DEF StepDoc
  <1>4. (m.kind = "await") <=> (m.retry # {})
    BY <1>1, <1>2 DEF mapAwaitRetryFails
  <1>5. ASSUME NEW r \in m.retry
        PROVE  r.timeout_ms > 0 /\ r.interval_ms > 0 /\ r.max_attempts > 0
    <2>1. r \in step.retry /\ TrimSpace(step.kind) = "await"
      BY <1>1, <1>4
    <2>2. ~(r.timeout_ms <= 0) /\ ~(r.interval_ms <= 0) /\ ~(r.max_attempts <= 0)
      BY <1>2, <2>1 DEF mapAwaitRetryFails
    <2> QED
      BY <1>3, <2>1, <2>2
  <1> QED
    BY <1>1, <1>2, <1>4, <1>5 DEF StepRunnable, m

\* An assert block that mapAssertSection accepts fits the steps.
LEMMA MappedAssertRuns ==
    ASSUME NEW assert \in AssertDoc, ~mapAssertSectionFails(assert)
    PROVE  /\ AssertRunnable(mapAssertSection(assert), loadedSteps)
           /\ LET m == mapAssertSection(assert)
              IN  m.code = Success /\ m.response = "nil" => assert.response = "null"
  <1> DEFINE m == mapAssertSection(assert)
             from == TrimSpace(assert.from)
  <1>1. /\ m.code = assert.code /\ m.from = from
        /\ m.mode = IF assert.mode = "" THEN "exact" ELSE assert.mode
        /\ m.response = IF assert.code # Success THEN "nil"
                        ELSE IF assert.response = "null" THEN "nil"
                        ELSE IF assert.mode = "partial" \/ assert.response = "matcher" THEN "raw"
                        ELSE "typed"
    BY DEF mapAssertSection, mapSuccessAssertResponse
  <1> HIDE DEF m
  <1>2. /\ from # "" => from \in stepsByID
        /\ assert.code # Success => assert.mode = ""
        /\ assert.code = Success => HasTarget(assert)
    BY DEF mapAssertSectionFails, mapSuccessAssertResponseFails
  <1>3. from \in IdsOf(loadedSteps) \cup {""}
    BY <1>2 DEF stepsByID, IdsOf
  <1>4. assert.code = Success /\ from = "" => \E s \in Range(loadedSteps) : s.kind = "action"
    BY <1>2 DEF HasTarget, HasAction
  <1> QED
    BY <1>1, <1>2, <1>3, <1>4 DEF AssertRunnable, m

\* One more step with an id that the others do not have.
LEMMA OneMoreStep ==
    ASSUME NEW steps, StepsRunnable(steps),
           NEW s, StepRunnable(s), s.id # "", s.id \notin IdsOf(steps),
           NEW more, Range(more) = Range(steps) \cup {s}, Len(more) = Len(steps) + 1
    PROVE  StepsRunnable(more)
  <1>1. IdsOf(more) = IdsOf(steps) \cup {s.id}
    BY DEF IdsOf
  <1> DEFINE ids == IdsOf(steps)
             id == s.id
  <1>2. IsFiniteSet(ids) /\ id \notin ids /\ IdsOf(more) = ids \cup {id}
    BY <1>1 DEF StepsRunnable
  <1>3. IsFiniteSet(IdsOf(more)) /\ Cardinality(IdsOf(more)) = Cardinality(ids) + 1
    <2> HIDE DEF ids, id
    <2> QED
      BY <1>2, FS_AddElement
  <1> QED
    BY <1>1, <1>3 DEF StepsRunnable

-----------------------------------------------------------------------------
(* The tokens of a text. *)

\* What starts a token that is longer than one byte.
At(text, j, byte) == j <= Len(text) /\ text[j] = byte
StartsString(text, i) == At(text, i, Quote)
StartsLine(text, i) == At(text, i, Slash) /\ At(text, i + 1, Slash)
StartsBlock(text, i) == At(text, i, Slash) /\ At(text, i + 1, Star)

\* How many backslashes stand directly before j, and where the token that starts at i
\* may end.
Escapes(text, i, j) == Cardinality({k \in i .. j - 1 : \A m \in k .. j - 1 : text[m] = Backslash})
Closes(text, i, j) == text[j] = Quote /\ Escapes(text, i, j) % 2 = 0
StringEnds(text, i) == {j \in i + 1 .. Len(text) : Closes(text, i, j)}
LineEnds(text, i) == {j \in i + 1 .. Len(text) - 1 : text[j + 1] = Newline}
BlockEnds(text, i) == {j \in i + 3 .. Len(text) : text[j] = Slash /\ text[j - 1] = Star}

FirstOr(ends, otherwise) == IF ends = {} THEN otherwise ELSE Min(ends)

\* The least of a set, or the other value.
LEMMA FirstOrIs ==
    ASSUME NEW ends \in SUBSET Nat, NEW otherwise \in Nat
    PROVE  /\ FirstOr(ends, otherwise) \in ends \cup {otherwise}
           /\ ends = {} => FirstOr(ends, otherwise) = otherwise
           /\ \A j \in ends : (\A m \in ends : j <= m) => FirstOr(ends, otherwise) = j
           /\ \A p \in Nat : p <= otherwise /\ (\A m \in ends : p <= m) => p <= FirstOr(ends, otherwise)
  <1>1. CASE ends = {}
    BY <1>1 DEF FirstOr
  <1>2. CASE ends # {}
    <2>1. PICK n \in ends : \A m \in ends : n <= m
      BY <1>2, LeastMember
    <2>2. Min(ends) \in ends /\ \A m \in ends : Min(ends) <= m
      BY <2>1 DEF Min
    <2>3. FirstOr(ends, otherwise) = Min(ends)
      BY <1>2 DEF FirstOr
    <2>4. ASSUME NEW j \in ends, \A m \in ends : j <= m PROVE Min(ends) = j
      <3>1. j <= Min(ends) /\ Min(ends) <= j /\ j \in Nat /\ Min(ends) \in Nat
        BY <2>2, <2>4
      <3> QED
        BY <3>1
    <2> QED
      BY <1>2, <2>2, <2>3, <2>4
  <1> QED
    BY <1>1, <1>2

\* The end of a token, by its kind.
LEMMA TokenEndIs ==
    ASSUME NEW text, NEW i
    PROVE  /\ StartsString(text, i) => TokenEnd(text, i) = FirstOr(StringEnds(text, i), Len(text))
           /\ StartsLine(text, i) => TokenEnd(text, i) = FirstOr(LineEnds(text, i), Len(text))
           /\ StartsBlock(text, i) => TokenEnd(text, i) = FirstOr(BlockEnds(text, i), Len(text) + 1)
           /\ ~StartsString(text, i) /\ ~StartsLine(text, i) /\ ~StartsBlock(text, i) =>
                 TokenEnd(text, i) = i
  <1> DEFINE n == Len(text)
             stringEnd == FirstOr(StringEnds(text, i), n)
             lineEnd == FirstOr(LineEnds(text, i), n)
             blockEnd == FirstOr(BlockEnds(text, i), n + 1)
  <1>1. TokenEnd(text, i) =
           CASE StartsString(text, i) -> stringEnd
             [] StartsLine(text, i) -> lineEnd
             [] StartsBlock(text, i) -> blockEnd
             [] OTHER -> i
    BY Zenon DEF TokenEnd, StartsString, StartsLine, StartsBlock, At, StringEnds, LineEnds, BlockEnds,
           Closes, Escapes, FirstOr
  <1>2. /\ ~(StartsString(text, i) /\ StartsLine(text, i))
        /\ ~(StartsString(text, i) /\ StartsBlock(text, i))
        /\ ~(StartsLine(text, i) /\ StartsBlock(text, i))
    BY DEF StartsString, StartsLine, StartsBlock, At, Quote, Slash, Star
  <1> HIDE DEF stringEnd, lineEnd, blockEnd
  <1>3. /\ StartsString(text, i) => TokenEnd(text, i) = stringEnd
        /\ StartsLine(text, i) => TokenEnd(text, i) = lineEnd
        /\ StartsBlock(text, i) => TokenEnd(text, i) = blockEnd
        /\ ~StartsString(text, i) /\ ~StartsLine(text, i) /\ ~StartsBlock(text, i) =>
              TokenEnd(text, i) = i
    BY <1>1, <1>2
  <1> QED
    BY <1>3 DEF stringEnd, lineEnd, blockEnd

\* The candidates for an end lie behind the start.
LEMMA EndsTypes ==
    ASSUME NEW S, NEW text \in Seq(S), NEW i \in 1 .. Len(text)
    PROVE  /\ Len(text) \in Nat
           /\ StringEnds(text, i) \in SUBSET Nat /\ \A j \in StringEnds(text, i) : i < j /\ j <= Len(text)
           /\ LineEnds(text, i) \in SUBSET Nat /\ \A j \in LineEnds(text, i) : i < j /\ j <= Len(text)
           /\ BlockEnds(text, i) \in SUBSET Nat /\ \A j \in BlockEnds(text, i) : i < j /\ j <= Len(text)
  BY DEF StringEnds, LineEnds, BlockEnds

\* A token ends in the text, or one byte behind it.
LEMMA TokenEndTypes ==
    ASSUME NEW S, NEW text \in Seq(S), NEW i \in 1 .. Len(text)
    PROVE  TokenEnd(text, i) \in i .. Len(text) + 1
  <1> DEFINE n == Len(text)
  <1>1. n \in Nat /\ n + 1 \in Nat
    BY EndsTypes
  <1>2. CASE StartsString(text, i)
    <2>1. FirstOr(StringEnds(text, i), n) \in StringEnds(text, i) \cup {n}
      BY <1>1, EndsTypes, FirstOrIs
    <2> QED
      BY <1>1, <1>2, <2>1, EndsTypes, TokenEndIs
  <1>3. CASE StartsLine(text, i)
    <2>1. FirstOr(LineEnds(text, i), n) \in LineEnds(text, i) \cup {n}
      BY <1>1, EndsTypes, FirstOrIs
    <2> QED
      BY <1>1, <1>3, <2>1, EndsTypes, TokenEndIs
  <1>4. CASE StartsBlock(text, i)
    <2>1. FirstOr(BlockEnds(text, i), n + 1) \in BlockEnds(text, i) \cup {n + 1}
      BY <1>1, EndsTypes, FirstOrIs
    <2> QED
      BY <1>1, <1>4, <2>1, EndsTypes, TokenEndIs
  <1> QED
    BY <1>1, <1>2, <1>3, <1>4, TokenEndIs

\* The first byte, and each byte behind a token.
Boundaries(text) == {1} \cup {TokenEnd(text, k) + 1 : k \in TokenStarts(text)}

\* The loop of TokenStarts, iteration by iteration.
StartsLoop(text, upTo) ==
    /\ upTo \in [0 .. Len(text) -> SUBSET Nat]
    /\ upTo[0] = {1}
    /\ \A k \in 1 .. Len(text) :
          upTo[k] = IF k \in upTo[k - 1] THEN upTo[k - 1] \cup {TokenEnd(text, k) + 1} ELSE upTo[k - 1]
    /\ TokenStarts(text) = upTo[Len(text)] \cap 1 .. Len(text)

\* What TokenStarts is made of.
LEMMA StartsIterate ==
    ASSUME NEW S, NEW text \in Seq(S)
    PROVE  \E upTo : StartsLoop(text, upTo)
  <1> DEFINE N == Len(text)
             T == SUBSET Nat
             Grow(u, k) == IF k \in u THEN u \cup {TokenEnd(text, k) + 1} ELSE u
             Loop(f) == [k \in 0 .. N |-> IF k = 0 THEN {1} ELSE Grow(f[k - 1], k)]
             step == [k \in 1 .. N |-> [u \in T |-> Grow(u, k)]]
  <1>1. step \in StepMaps(N, T)
    <2>1. ASSUME NEW k \in 1 .. N, NEW u \in T PROVE Grow(u, k) \in T
      <3>1. TokenEnd(text, k) + 1 \in Nat
        BY TokenEndTypes
      <3> QED
        BY <3>1
    <2> HIDE DEF T, Grow
    <2> QED
      BY <2>1 DEF StepMaps
  <1>2. N \in Nat /\ {1} \in T
    OBVIOUS
  <1>3. PICK f : MadeBySteps(f, N, T, {1}, step)
    <2> HIDE DEF step, N, T
    <2> QED
      BY <1>1, <1>2, StepwiseFunction
  <1> HIDE DEF Grow
  <1>4. /\ f \in [0 .. N -> T] /\ f[0] = {1}
        /\ \A k \in 1 .. N : f[k] = Grow(f[k - 1], k)
    <2>1. /\ f \in [0 .. N -> T] /\ f[0] = {1}
          /\ \A k \in 1 .. N : f[k] = step[k][f[k - 1]]
      BY <1>3 DEF MadeBySteps
    <2>2. ASSUME NEW k \in 1 .. N
          PROVE  step[k][f[k - 1]] = Grow(f[k - 1], k)
      <3>1. k - 1 \in 0 .. N
        OBVIOUS
      <3> HIDE DEF T
      <3>2. f[k - 1] \in T
        BY <2>1, <3>1
      <3> QED
        BY <3>2
    <2> QED
      BY <2>1, <2>2
  <1>5. f = Loop(f)
    BY <1>4
  <1> DEFINE upTo == CHOOSE g : g = Loop(g)
  <1>6. TokenStarts(text) = upTo[N] \cap 1 .. N
    <2>1. DOMAIN text = 1 .. N
      OBVIOUS
    <2>2. TokenStarts(text) = upTo[N] \cap DOMAIN text
      BY DEF TokenStarts, Grow
    <2> QED
      BY <2>1, <2>2
  <1>7. upTo = Loop(upTo)
    <2> HIDE DEF Loop
    <2> QED
      BY <1>5, Zenon
  <1> HIDE DEF upTo
  <1> DEFINE I == {k \in 0 .. N : upTo[k] = f[k]}
  <1>8. /\ upTo[0] = {1}
        /\ \A k \in 1 .. N : upTo[k] = Grow(upTo[k - 1], k)
    <2>1. 0 \in 0 .. N /\ \A k \in 1 .. N : k \in 0 .. N /\ k # 0
      OBVIOUS
    <2> HIDE DEF N
    <2> QED
      BY <1>7, <2>1
  <1>9. \A k \in 0 .. N : k \in I
    <2>1. 0 \in I
      <3>1. 0 \in 0 .. N
        BY <1>2
      <3>2. upTo[0] = f[0]
        BY <1>4, <1>8
      <3> QED
        BY <3>1, <3>2
    <2>2. ASSUME NEW k \in 0 .. N, k < N, k \in I PROVE k + 1 \in I
      <3>1. k + 1 \in 1 .. N /\ k + 1 \in 0 .. N /\ (k + 1) - 1 = k
        BY <2>2
      <3>2. upTo[k + 1] = Grow(upTo[k], k + 1) /\ f[k + 1] = Grow(f[k], k + 1)
        BY <1>4, <1>8, <3>1
      <3> QED
        BY <2>2, <3>1, <3>2
    <2> HIDE DEF I, N
    <2>3. \A k \in 0 .. N : k < N /\ k \in I => k + 1 \in I
      BY <2>2
    <2> QED
      BY <1>2, <2>1, <2>3, InductionUpTo
  <1>10. f[N] = upTo[N]
    BY <1>2, <1>9
  <1> QED
    BY <1>4, <1>6, <1>10 DEF StartsLoop, Grow

\* Up to k, the tokens begin at the first byte or behind one another.
ChainUpTo(text, u, k) ==
    /\ 1 \in u
    /\ \A j \in 1 .. k : j \in u => TokenEnd(text, j) + 1 \in u
    /\ \A s \in u : s = 1 \/ \E j \in 1 .. k : j \in u /\ s = TokenEnd(text, j) + 1

\* The tokens start at the boundaries.
LEMMA StartsAreBoundaries ==
    ASSUME NEW S, NEW text \in Seq(S)
    PROVE  TokenStarts(text) = Boundaries(text) \cap 1 .. Len(text)
  <1> DEFINE N == Len(text)
  <1>1. PICK upTo : StartsLoop(text, upTo)
    BY StartsIterate
  <1>2. /\ upTo \in [0 .. N -> SUBSET Nat]
        /\ upTo[0] = {1}
        /\ \A k \in 1 .. N :
              upTo[k] = IF k \in upTo[k - 1] THEN upTo[k - 1] \cup {TokenEnd(text, k) + 1} ELSE upTo[k - 1]
        /\ TokenStarts(text) = upTo[N] \cap 1 .. N
    BY <1>1, Zenon DEF StartsLoop
  <1>N. N \in Nat
    OBVIOUS
  <1> DEFINE I == {k \in 0 .. N : ChainUpTo(text, upTo[k], k)}
  <1>3. 0 \in I
    <2>1. ChainUpTo(text, {1}, 0)
      BY DEF ChainUpTo
    <2>2. 0 \in 0 .. N
      BY <1>N
    <2>3. ChainUpTo(text, upTo[0], 0)
      BY <1>2, <2>1
    <2> QED
      BY <2>2, <2>3
  <1>4. ASSUME NEW k \in 0 .. N, k < N, k \in I PROVE k + 1 \in I
    <2> DEFINE u == upTo[k]
               e == TokenEnd(text, k + 1)
               v == upTo[k + 1]
    <2>1. k \in Nat /\ k + 1 \in 1 .. N /\ k + 1 \in 0 .. N /\ (k + 1) - 1 = k
      BY <1>N, <1>4
    <2>2. v = IF k + 1 \in u THEN u \cup {e + 1} ELSE u
      BY <1>2, <2>1
    <2>3. e \in Nat /\ e >= k + 1
      BY <2>1, TokenEndTypes
    <2>4. ChainUpTo(text, u, k)
      BY <1>4
    <2>5. \A j \in 1 .. k + 1 : j \in 1 .. k \/ j = k + 1
      BY <2>1
    <2>6. \A j \in 1 .. k : j \in 1 .. k + 1 /\ j # e + 1
      BY <2>1, <2>3
    <2> HIDE DEF u, v
    <2>7. CASE k + 1 \in u
      <3>1. v = u \cup {e + 1}
        BY <2>2, <2>7
      <3>2. \A j \in 1 .. k + 1 : j \in v => TokenEnd(text, j) + 1 \in v
        BY <2>4, <2>5, <2>6, <3>1 DEF ChainUpTo
      <3>3. k + 1 \in 1 .. k + 1
        BY <2>1
      <3>4. \A s \in v : s = 1 \/ \E j \in 1 .. k + 1 : j \in v /\ s = TokenEnd(text, j) + 1
        BY <2>4, <2>6, <2>7, <3>1, <3>3 DEF ChainUpTo
      <3>5. ChainUpTo(text, v, k + 1)
        BY <2>4, <3>1, <3>2, <3>4 DEF ChainUpTo
      <3> QED
        BY <2>1, <3>5 DEF v
    <2>8. CASE k + 1 \notin u
      <3>1. v = u
        BY <2>2, <2>8
      <3>2. ChainUpTo(text, v, k + 1)
        BY <2>4, <2>5, <2>6, <2>8, <3>1 DEF ChainUpTo
      <3> QED
        BY <2>1, <3>2 DEF v
    <2> QED
      BY <2>7, <2>8
  <1>5. \A k \in 0 .. N : k < N /\ k \in I => k + 1 \in I
    BY <1>4
  <1>6. \A k \in 0 .. N : k \in I
    <2> HIDE DEF I, N
    <2> QED
      BY <1>N, <1>3, <1>5, InductionUpTo
  <1>7. ChainUpTo(text, upTo[N], N)
    BY <1>N, <1>6
  <1> DEFINE u == upTo[N]
  <1>8. ASSUME NEW s \in 1 .. N PROVE s \in u <=> s \in Boundaries(text)
    <2>1. ASSUME s \in u PROVE s \in Boundaries(text)
      <3>1. CASE s = 1
        BY <3>1 DEF Boundaries
      <3>2. CASE s # 1
        <4>1. PICK j \in 1 .. N : j \in u /\ s = TokenEnd(text, j) + 1
          BY <1>7, <2>1, <3>2 DEF ChainUpTo
        <4>2. j \in TokenStarts(text)
          BY <1>2, <4>1
        <4> QED
          BY <4>1, <4>2 DEF Boundaries
      <3> QED
        BY <3>1, <3>2
    <2>2. ASSUME s \in Boundaries(text) PROVE s \in u
      <3>1. CASE s = 1
        BY <1>7, <3>1 DEF ChainUpTo
      <3>2. CASE s # 1
        <4>1. PICK k \in TokenStarts(text) : s = TokenEnd(text, k) + 1
          BY <2>2, <3>2 DEF Boundaries
        <4>2. k \in 1 .. N /\ k \in u
          BY <1>2, <4>1
        <4> QED
          BY <1>7, <4>1, <4>2 DEF ChainUpTo
      <3> QED
        BY <3>1, <3>2
    <2> QED
      BY <2>1, <2>2
  <1>9. TokenStarts(text) = u \cap 1 .. N
    BY <1>2
  <1> HIDE DEF u, N
  <1>10. TokenStarts(text) = Boundaries(text) \cap 1 .. N
    BY <1>8, <1>9
  <1> QED
    BY <1>10 DEF N

\* Where tokens start, and the byte behind one.
LEMMA StartsTypes ==
    ASSUME NEW S, NEW text \in Seq(S)
    PROVE  /\ Len(text) \in Nat
           /\ TokenStarts(text) \in SUBSET (1 .. Len(text))
           /\ Boundaries(text) \in SUBSET Nat
           /\ 1 \in Boundaries(text)
           /\ \A i \in TokenStarts(text) :
                 /\ i \in Boundaries(text)
                 /\ TokenEnd(text, i) \in i .. Len(text) + 1
                 /\ TokenEnd(text, i) + 1 \in Boundaries(text)
  <1>1. TokenStarts(text) = Boundaries(text) \cap 1 .. Len(text)
    BY StartsAreBoundaries
  <1>2. \A i \in TokenStarts(text) : i \in 1 .. Len(text) /\ TokenEnd(text, i) \in i .. Len(text) + 1
    BY <1>1, TokenEndTypes
  <1>3. Len(text) \in Nat
    OBVIOUS
  <1>4. \A i \in TokenStarts(text) : TokenEnd(text, i) + 1 \in Nat
    BY <1>2, <1>3
  <1>5. /\ 1 \in Boundaries(text)
        /\ \A i \in TokenStarts(text) : TokenEnd(text, i) + 1 \in Boundaries(text)
        /\ \A s \in Boundaries(text) : s = 1 \/ \E i \in TokenStarts(text) : s = TokenEnd(text, i) + 1
    BY DEF Boundaries
  <1>6. Boundaries(text) \in SUBSET Nat
    BY <1>4, <1>5
  <1> QED
    BY <1>1, <1>2, <1>3, <1>5, <1>6

\* No token starts inside another.
LEMMA TokensDisjoint ==
    ASSUME NEW S, NEW text \in Seq(S), NEW i \in TokenStarts(text), NEW s \in Boundaries(text), s > i
    PROVE  s > TokenEnd(text, i)
  <1> DEFINE Inside == {t \in Boundaries(text) :
                           \E k \in TokenStarts(text) : k < t /\ t <= TokenEnd(text, k)}
  <1>1. /\ TokenStarts(text) \in SUBSET (1 .. Len(text)) /\ Len(text) \in Nat
        /\ Boundaries(text) \in SUBSET Nat
        /\ \A k \in TokenStarts(text) : k \in Boundaries(text) /\ k \in Nat /\ k >= 1
        /\ \A k \in TokenStarts(text) : TokenEnd(text, k) \in Nat /\ TokenEnd(text, k) >= k
    BY StartsTypes
  <1>2. Inside = {}
    <2> SUFFICES ASSUME Inside # {} PROVE FALSE
      OBVIOUS
    <2>1. Inside \in SUBSET Nat
      BY <1>1
    <2>2. PICK t \in Inside : \A x \in Inside : t <= x
      <3> HIDE DEF Inside
      <3> QED
        BY <2>1, LeastMember
    <2>3. PICK k \in TokenStarts(text) : k < t /\ t <= TokenEnd(text, k)
      BY <2>2
    <2>4. t \in Boundaries(text) /\ t \in Nat /\ t # 1
      BY <1>1, <2>2, <2>3
    <2>5. PICK b \in TokenStarts(text) : t = TokenEnd(text, b) + 1
      BY <2>4 DEF Boundaries
    <2> DEFINE eb == TokenEnd(text, b)
               ek == TokenEnd(text, k)
    <2>6. /\ b \in Nat /\ b \in Boundaries(text) /\ eb \in Nat /\ eb >= b /\ t = eb + 1
          /\ k \in Nat /\ k \in Boundaries(text) /\ k < t /\ t <= ek
      BY <1>1, <2>3, <2>5
    <2>10. b < t
      <3> HIDE DEF eb, ek
      <3> QED
        BY <2>6
    <2>7. CASE b = k
      <3>1. eb = ek
        BY <2>7
      <3> HIDE DEF eb, ek
      <3> QED
        BY <2>6, <3>1
    <2>8. CASE b > k
      <3>1. b <= ek
        <4> HIDE DEF eb, ek
        <4>1. ek \in Nat
          BY <1>1 DEF ek
        <4> QED
          BY <2>4, <2>6, <2>10, <4>1
      <3>2. b \in Inside
        BY <2>6, <2>8, <3>1
      <3> HIDE DEF Inside, eb, ek
      <3> QED
        BY <2>2, <2>4, <2>6, <2>10, <3>2
    <2>9. CASE b < k
      <3>1. k <= eb
        <4> HIDE DEF eb, ek
        <4> QED
          BY <2>4, <2>6
      <3>2. k \in Inside
        BY <2>6, <2>9, <3>1
      <3> HIDE DEF Inside, eb, ek
      <3> QED
        BY <2>2, <2>3, <2>4, <2>6, <3>2
    <2> QED
      BY <2>6, <2>7, <2>8, <2>9
  <1>3. ~(s <= TokenEnd(text, i))
    BY <1>2
  <1> QED
    BY <1>1, <1>3

\* The start of the token that a byte is in, as Uncommented finds it.
StartOf(text, j) == Max({i \in TokenStarts(text) : i <= j})

\* The bytes of a token have its start.
LEMMA StartOfIs ==
    ASSUME NEW S, NEW text \in Seq(S), NEW i \in TokenStarts(text), NEW j \in i .. TokenEnd(text, i)
    PROVE  StartOf(text, j) = i
  <1> DEFINE before == {k \in TokenStarts(text) : k <= j}
  <1>1. /\ \A k \in TokenStarts(text) : k \in Boundaries(text) /\ k \in Nat
        /\ TokenEnd(text, i) \in Nat
    BY StartsTypes
  <1>2. i \in before
    BY <1>1
  <1>3. ASSUME NEW k \in before PROVE i >= k
    <2>1. k \in Nat /\ k <= j /\ k \in Boundaries(text)
      BY <1>1
    <2>2. CASE k > i
      <3>1. k > TokenEnd(text, i)
        BY <2>1, <2>2, TokensDisjoint
      <3> QED
        BY <1>1, <2>1, <3>1
    <2> QED
      BY <1>1, <2>1, <2>2
  <1> DEFINE m == Max(before)
  <1>4. m \in before /\ \A k \in before : m >= k
    <2> HIDE DEF before
    <2> QED
      BY <1>2, <1>3 DEF Max
  <1>5. m >= i /\ i >= m /\ m \in Nat /\ i \in Nat
    <2> HIDE DEF m
    <2> QED
      BY <1>1, <1>2, <1>3, <1>4
  <1> HIDE DEF m
  <1>6. m = i
    BY <1>5
  <1> QED
    BY <1>6 DEF StartOf, m

-----------------------------------------------------------------------------
(* What is kept of a text. *)

Kept(text) == {j \in DOMAIN text : IsComment(text, StartOf(text, j)) => text[j] = Newline}
KeptBefore(text, p) == {j \in Kept(text) : j < p}
Rank(text, j) == Cardinality({i \in Kept(text) : i <= j})

\* The kept bytes before p, in their order.
Stripped(text, p) ==
    [k \in 1 .. Cardinality(KeptBefore(text, p)) |-> text[CHOOSE j \in Kept(text) : Rank(text, j) = k]]

\* At the end of the text that is the whole of it.
LEMMA StrippedAtEnd ==
    ASSUME NEW S, NEW text \in Seq(S)
    PROVE  Stripped(text, Len(text) + 1) = Uncommented(text)
  <1>1. KeptBefore(text, Len(text) + 1) = Kept(text)
    <2>1. \A j \in Kept(text) : j < Len(text) + 1
      BY DEF Kept
    <2> QED
      BY <2>1 DEF KeptBefore
  <1>2. Uncommented(text) =
           [k \in 1 .. Cardinality(Kept(text)) |-> text[CHOOSE j \in Kept(text) : Rank(text, j) = k]]
    BY Zenon DEF Uncommented, Kept, StartOf, Rank
  <1> QED
    BY <1>1, <1>2 DEF Stripped

\* At its beginning it is nothing.
LEMMA StrippedAtStart ==
    ASSUME NEW S, NEW text \in Seq(S)
    PROVE  Stripped(text, 1) = <<>>
  <1>1. KeptBefore(text, 1) = {}
    BY DEF KeptBefore, Kept
  <1>2. Cardinality(KeptBefore(text, 1)) = 0
    BY <1>1, FS_EmptySet
  <1> QED
    BY <1>2 DEF Stripped

\* A byte that is not kept adds nothing.
LEMMA StrippedDrops ==
    ASSUME NEW S, NEW text \in Seq(S), NEW p \in 1 .. Len(text), p \notin Kept(text)
    PROVE  Stripped(text, p + 1) = Stripped(text, p)
  <1>1. \A j \in Kept(text) : j < p + 1 <=> j < p
    BY DEF Kept
  <1>2. KeptBefore(text, p + 1) = KeptBefore(text, p)
    BY <1>1 DEF KeptBefore
  <1> QED
    BY <1>2 DEF Stripped

\* A byte that is kept comes behind the others.
LEMMA StrippedKeeps ==
    ASSUME NEW S, NEW text \in Seq(S), NEW p \in 1 .. Len(text), p \in Kept(text)
    PROVE  Stripped(text, p + 1) = Append(Stripped(text, p), text[p])
  <1> DEFINE K == Kept(text)
             B == KeptBefore(text, p)
             c == Cardinality(B)
  <1>1. K \in SUBSET (1 .. Len(text)) /\ Len(text) \in Nat
    BY DEF Kept
  <1>2. IsFiniteSet(K)
    <2>1. IsFiniteSet(1 .. Len(text))
      BY <1>1, FS_Interval
    <2> QED
      BY <1>1, <2>1, FS_Subset
  <1>3. \A x : IsFiniteSet({i \in K : i <= x}) /\ Cardinality({i \in K : i <= x}) \in Nat
    <2> TAKE x
    <2>1. {i \in K : i <= x} \in SUBSET K
      OBVIOUS
    <2> HIDE DEF K
    <2> QED
      BY <1>2, <2>1, FS_Subset, FS_CardinalityType
  <1>4. IsFiniteSet(B) /\ c \in Nat
    <2>1. B \in SUBSET K
      BY DEF KeptBefore
    <2> HIDE DEF K, B
    <2> QED
      BY <1>2, <2>1, FS_Subset, FS_CardinalityType
  <1>5. KeptBefore(text, p + 1) = B \cup {p} /\ {i \in K : i <= p} = B \cup {p} /\ p \notin B
    <2>1. \A j \in K : (j < p + 1 <=> j < p \/ j = p) /\ (j <= p <=> j < p \/ j = p)
      BY <1>1
    <2>2. p \in K /\ ~(p < p)
      OBVIOUS
    <2>3. /\ \A j : j \in KeptBefore(text, p + 1) <=> j \in K /\ j < p + 1
          /\ \A j : j \in B <=> j \in K /\ j < p
      BY DEF KeptBefore
    <2> HIDE DEF K, B
    <2>4. KeptBefore(text, p + 1) = B \cup {p}
      BY <2>1, <2>2, <2>3
    <2>5. {i \in K : i <= p} = B \cup {p}
      BY <2>1, <2>2, <2>3
    <2> QED
      BY <2>2, <2>3, <2>4, <2>5
  <1>6. Cardinality(B \cup {p}) = c + 1
    <2> HIDE DEF B
    <2> QED
      BY <1>4, <1>5, FS_AddElement
  <1>7. Rank(text, p) = c + 1
    BY <1>5, <1>6 DEF Rank
  <1>8. ASSUME NEW j \in K, Rank(text, j) = c + 1 PROVE j = p
    <2>1. CASE j < p
      <3>1. {i \in K : i <= j} \in SUBSET B
        BY <1>1, <2>1 DEF KeptBefore
      <3>2. Rank(text, j) <= c
        <4> HIDE DEF B
        <4> QED
          BY <1>4, <3>1, FS_Subset DEF Rank
      <3> QED
        BY <1>4, <1>8, <3>2
    <2>2. CASE j > p
      <3> DEFINE J == {i \in K : i <= j}
                 P == {i \in K : i <= p}
      <3>1. P \in SUBSET J /\ j \in J /\ j \notin P
        BY <1>1, <2>2
      <3>2. IsFiniteSet(J) /\ Cardinality(J) = c + 1 /\ Cardinality(P) = c + 1
        BY <1>3, <1>7, <1>8 DEF Rank
      <3>3. J = P
        <4> HIDE DEF J, P
        <4> QED
          BY <3>1, <3>2, FS_Subset
      <3> QED
        BY <3>1, <3>3
    <2> QED
      BY <1>1, <2>1, <2>2
  <1>9. (CHOOSE j \in K : Rank(text, j) = c + 1) = p
    BY <1>7, <1>8
  <1> DEFINE pick(k) == text[CHOOSE j \in K : Rank(text, j) = k]
  <1>10. pick(c + 1) = text[p]
    BY <1>9
  <1>11. /\ Stripped(text, p) = [k \in 1 .. c |-> pick(k)]
         /\ Stripped(text, p + 1) = [k \in 1 .. c + 1 |-> pick(k)]
    BY <1>5, <1>6 DEF Stripped
  <1> HIDE DEF pick, c
  <1>12. Append([k \in 1 .. c |-> pick(k)], pick(c + 1)) = [k \in 1 .. c + 1 |-> pick(k)]
    <2> DEFINE s == [k \in 1 .. c |-> pick(k)]
               V == {pick(k) : k \in 1 .. c}
    <2>1. s \in Seq(V)
      <3>1. s \in [1 .. c -> V]
        OBVIOUS
      <3> HIDE DEF s, V
      <3> QED
        BY <1>4, <3>1
    <2>2. Len(s) = c
      BY <1>4
    <2>3. Append(s, pick(c + 1)) = [k \in 1 .. Len(s) + 1 |-> IF k = Len(s) + 1 THEN pick(c + 1) ELSE s[k]]
      <3> HIDE DEF s, V
      <3> QED
        BY <2>1
    <2>4. ASSUME NEW k \in 1 .. c + 1
          PROVE  (IF k = c + 1 THEN pick(c + 1) ELSE s[k]) = pick(k)
      BY <1>4
    <2> QED
      BY <2>2, <2>3, <2>4
  <1> QED
    BY <1>10, <1>11, <1>12

-----------------------------------------------------------------------------
(* The automaton. *)

\* Where stripJSONCComments is in the token that starts at i, before it looks at p.
InString(text, i, p, escaped) ==
    /\ StartsString(text, i) /\ i < p
    /\ \A j \in i + 1 .. p - 1 : ~Closes(text, i, j)
    /\ escaped <=> Escapes(text, i, p) % 2 = 1
InLine(text, i, p) ==
    /\ StartsLine(text, i) /\ i + 2 <= p
    /\ \A j \in i + 2 .. p - 1 : text[j] # Newline
InBlock(text, i, p) ==
    /\ StartsBlock(text, i) /\ i + 2 <= p
    /\ \A j \in BlockEnds(text, i) : j > p

\* The backslashes before the next byte.
LEMMA EscapesNext ==
    ASSUME NEW text, NEW i \in Nat, NEW p \in Nat, i <= p
    PROVE  /\ Escapes(text, i, p) \in Nat
           /\ Escapes(text, i, p + 1) = IF text[p] = Backslash THEN Escapes(text, i, p) + 1 ELSE 0
  <1> DEFINE A(x) == {k \in i .. x - 1 : \A m \in k .. x - 1 : text[m] = Backslash}
  <1>1. IsFiniteSet(A(p)) /\ Cardinality(A(p)) \in Nat /\ p \notin A(p)
    <2>1. IsFiniteSet(i .. p - 1) /\ A(p) \in SUBSET (i .. p - 1) /\ p \notin A(p)
      BY FS_Interval
    <2> HIDE DEF A
    <2> QED
      BY <2>1, FS_Subset, FS_CardinalityType
  <1>2. CASE text[p] = Backslash
    <2>1. A(p + 1) = A(p) \cup {p}
      <3>1. ASSUME NEW k, k \in A(p + 1) PROVE k \in A(p) \cup {p}
        <4>1. k \in i .. p /\ \A m \in k .. p : text[m] = Backslash
          BY <3>1
        <4>2. CASE k = p
          BY <4>2
        <4>3. CASE k # p
          <5>1. k \in i .. p - 1 /\ \A m \in k .. p - 1 : m \in k .. p
            BY <4>1, <4>3
          <5> QED
            BY <4>1, <5>1
        <4> QED
          BY <4>2, <4>3
      <3>2. ASSUME NEW k, k \in A(p) \cup {p} PROVE k \in A(p + 1)
        <4>1. k \in i .. p /\ \A m \in k .. p - 1 : text[m] = Backslash
          BY <3>2
        <4>2. \A m \in k .. p : m = p \/ m \in k .. p - 1
          BY <4>1
        <4>3. \A m \in k .. p : text[m] = Backslash
          BY <1>2, <4>1, <4>2
        <4>4. (p + 1) - 1 = p
          OBVIOUS
        <4> QED
          BY <4>1, <4>3, <4>4
      <3> HIDE DEF A
      <3> QED
        BY <3>1, <3>2
    <2>2. Cardinality(A(p + 1)) = Cardinality(A(p)) + 1
      <3> HIDE DEF A
      <3> QED
        BY <1>1, <2>1, FS_AddElement
    <2> QED
      BY <1>1, <1>2, <2>2 DEF Escapes
  <1>3. CASE text[p] # Backslash
    <2>1. A(p + 1) = {}
      <3> SUFFICES ASSUME NEW k \in A(p + 1) PROVE FALSE
        OBVIOUS
      <3>1. k \in i .. p /\ p \in k .. p /\ (p + 1) - 1 = p
        OBVIOUS
      <3> QED
        BY <1>3, <3>1
    <2>2. Cardinality(A(p + 1)) = 0
      <3> HIDE DEF A
      <3> QED
        BY <2>1, FS_EmptySet
    <2> QED
      BY <1>1, <1>3, <2>2 DEF Escapes
  <1> QED
    BY <1>2, <1>3

\* Odd and even.
LEMMA Parity == \A x \in Nat : /\ (x + 1) % 2 = 1 <=> ~(x % 2 = 1)
                               /\ x % 2 = 0 <=> ~(x % 2 = 1)
  OBVIOUS

\* One byte of a string is kept, and the string ends with a quote that is not escaped.
LEMMA StringStep ==
    ASSUME NEW S, NEW text \in Seq(S), NEW p \in 1 .. Len(text), NEW i \in TokenStarts(text),
           NEW escaped \in BOOLEAN, InString(text, i, p, escaped)
    PROVE  /\ p \in Kept(text)
           /\ ~escaped /\ text[p] = Quote => p + 1 \in Boundaries(text)
           /\ ~(~escaped /\ text[p] = Quote) =>
                 InString(text, i, p + 1, ~escaped /\ text[p] = Backslash)
  <1> DEFINE n == Len(text)
             ends == StringEnds(text, i)
  <1>1. n \in Nat /\ i \in 1 .. n /\ i \in Nat /\ p \in Nat /\ i < p
    BY StartsTypes DEF InString
  <1>2. ends \in SUBSET Nat /\ TokenEnd(text, i) = FirstOr(ends, n)
    BY <1>1, EndsTypes, TokenEndIs DEF InString
  <1>3. ASSUME NEW j \in ends PROVE p <= j
    <2>1. j \in i + 1 .. n /\ Closes(text, i, j)
      BY DEF StringEnds
    <2>2. j \notin i + 1 .. p - 1
      BY <2>1 DEF InString
    <2> QED
      BY <1>1, <2>1, <2>2
  <1>4. p <= TokenEnd(text, i)
    <2>1. p <= n
      OBVIOUS
    <2> HIDE DEF ends, n
    <2> QED
      BY <1>1, <1>2, <1>3, <2>1, FirstOrIs
  <1>5. p \in Kept(text)
    <2>1. p \in i .. TokenEnd(text, i)
      BY <1>1, <1>4, StartsTypes
    <2>2. StartOf(text, p) = i
      BY <2>1, StartOfIs
    <2>3. text[i] = Quote
      BY DEF InString, StartsString, At
    <2>4. ~IsComment(text, i)
      BY <2>3 DEF IsComment, Quote, Slash
    <2> QED
      BY <2>2, <2>4 DEF Kept
  <1>6. /\ Escapes(text, i, p) \in Nat
        /\ Escapes(text, i, p + 1) = IF text[p] = Backslash THEN Escapes(text, i, p) + 1 ELSE 0
    BY <1>1, EscapesNext
  <1>7. escaped <=> Escapes(text, i, p) % 2 = 1
    BY DEF InString
  <1>8. Closes(text, i, p) <=> ~escaped /\ text[p] = Quote
    BY <1>6, <1>7, Parity DEF Closes
  <1>9. ASSUME ~escaped /\ text[p] = Quote PROVE p + 1 \in Boundaries(text)
    <2>1. p \in ends
      BY <1>1, <1>8, <1>9 DEF StringEnds
    <2>2. TokenEnd(text, i) = p
      <3> HIDE DEF ends, n
      <3> QED
        BY <1>1, <1>2, <1>3, <2>1, FirstOrIs
    <2> QED
      BY <2>2, StartsTypes
  <1>10. ASSUME ~(~escaped /\ text[p] = Quote)
         PROVE  InString(text, i, p + 1, ~escaped /\ text[p] = Backslash)
    <2>1. \A j \in i + 1 .. (p + 1) - 1 : j \in i + 1 .. p - 1 \/ j = p
      BY <1>1
    <2>2. \A j \in i + 1 .. (p + 1) - 1 : ~Closes(text, i, j)
      BY <1>8, <1>10, <2>1 DEF InString
    <2>3. (~escaped /\ text[p] = Backslash) <=> Escapes(text, i, p + 1) % 2 = 1
      <3>1. CASE text[p] = Backslash
        BY <1>6, <1>7, <3>1, Parity
      <3>2. CASE text[p] # Backslash
        BY <1>6, <3>2
      <3> QED
        BY <3>1, <3>2
    <2>4. StartsString(text, i) /\ i < p + 1
      BY <1>1 DEF InString
    <2> QED
      BY <2>2, <2>3, <2>4 DEF InString
  <1> QED
    BY <1>5, <1>9, <1>10

\* A byte of a comment is kept if it is a line break.
LEMMA CommentKeeps ==
    ASSUME NEW S, NEW text \in Seq(S), NEW p \in 1 .. Len(text), NEW i \in TokenStarts(text),
           StartsLine(text, i) \/ StartsBlock(text, i), i <= p, p <= TokenEnd(text, i)
    PROVE  p \in Kept(text) <=> text[p] = Newline
  <1>1. i \in Nat /\ Len(text) \in Nat /\ i \in 1 .. Len(text) /\ TokenEnd(text, i) \in Nat
    BY StartsTypes
  <1>2. StartOf(text, p) = i
    <2>1. p \in i .. TokenEnd(text, i)
      BY <1>1
    <2> QED
      BY <2>1, StartOfIs
  <1>3. IsComment(text, i)
    BY <1>1 DEF StartsLine, StartsBlock, At, IsComment
  <1> QED
    BY <1>2, <1>3 DEF Kept

\* One byte of a line comment; the line break behind it is a token of its own.
LEMMA LineStep ==
    ASSUME NEW S, NEW text \in Seq(S), NEW p \in 1 .. Len(text), NEW i \in TokenStarts(text),
           InLine(text, i, p)
    PROVE  /\ text[p] = Newline => p \in Kept(text) /\ p + 1 \in Boundaries(text)
           /\ text[p] # Newline => p \notin Kept(text) /\ InLine(text, i, p + 1)
  <1> DEFINE n == Len(text)
             ends == LineEnds(text, i)
  <1>1. n \in Nat /\ i \in 1 .. n /\ i \in Nat /\ p \in Nat /\ i + 2 <= p /\ p <= n
    BY StartsTypes DEF InLine
  <1>2. ends \in SUBSET Nat /\ TokenEnd(text, i) = FirstOr(ends, n)
    BY <1>1, EndsTypes, TokenEndIs DEF InLine
  <1>3. ASSUME NEW j \in ends PROVE p - 1 <= j /\ (j = p - 1 => text[p] = Newline)
    <2>1. j \in i + 1 .. n - 1 /\ text[j + 1] = Newline
      BY DEF LineEnds
    <2>2. j + 1 \notin i + 2 .. p - 1
      BY <2>1 DEF InLine
    <2> QED
      BY <1>1, <2>1, <2>2
  <1>4. ASSUME text[p] = Newline PROVE p \in Kept(text) /\ p + 1 \in Boundaries(text)
    <2>1. p - 1 \in ends
      <3>1. p - 1 \in i + 1 .. n - 1 /\ (p - 1) + 1 = p
        BY <1>1
      <3> QED
        BY <1>4, <3>1 DEF LineEnds
    <2>2. TokenEnd(text, i) = p - 1
      <3> HIDE DEF ends, n
      <3> QED
        BY <1>1, <1>2, <1>3, <2>1, FirstOrIs
    <2>3. p \in Boundaries(text)
      <3>1. TokenEnd(text, i) + 1 = p
        BY <1>1, <2>2
      <3> QED
        BY <3>1, StartsTypes
    <2>4. p \in TokenStarts(text)
      BY <2>3, StartsAreBoundaries
    <2>5. ~StartsString(text, p) /\ ~StartsLine(text, p) /\ ~StartsBlock(text, p) /\ ~IsComment(text, p)
      BY <1>4 DEF StartsString, StartsLine, StartsBlock, At, IsComment, Newline, Quote, Slash
    <2>6. TokenEnd(text, p) = p
      BY <2>5, TokenEndIs
    <2>7. p + 1 \in Boundaries(text)
      BY <2>4, <2>6, StartsTypes
    <2>8. StartOf(text, p) = p
      <3>1. p \in p .. TokenEnd(text, p)
        BY <1>1, <2>6
      <3> QED
        BY <2>4, <3>1, StartOfIs
    <2> QED
      BY <2>5, <2>7, <2>8 DEF Kept
  <1>5. ASSUME text[p] # Newline PROVE p \notin Kept(text) /\ InLine(text, i, p + 1)
    <2>1. \A j \in ends : p <= j
      <3>1. ASSUME NEW j \in ends PROVE p <= j
        <4>1. p - 1 <= j /\ j # p - 1 /\ j \in Nat
          BY <1>2, <1>3, <1>5
        <4> QED
          BY <1>1, <4>1
      <3> QED
        BY <3>1
    <2>2. p <= TokenEnd(text, i)
      <3> HIDE DEF ends, n
      <3> QED
        BY <1>1, <1>2, <2>1, FirstOrIs
    <2>3. p \notin Kept(text)
      BY <1>1, <1>5, <2>2, CommentKeeps DEF InLine
    <2>4. \A j \in i + 2 .. (p + 1) - 1 : j \in i + 2 .. p - 1 \/ j = p
      BY <1>1
    <2>5. i + 2 <= p + 1
      BY <1>1
    <2> QED
      BY <1>5, <2>3, <2>4, <2>5 DEF InLine
  <1> QED
    BY <1>4, <1>5

\* One byte of a block comment, or the two that end it.
LEMMA BlockStep ==
    ASSUME NEW S, NEW text \in Seq(S), NEW p \in 1 .. Len(text), NEW i \in TokenStarts(text),
           InBlock(text, i, p)
    PROVE  /\ p \in Kept(text) <=> text[p] = Newline
           /\ text[p] = Star /\ At(text, p + 1, Slash) =>
                 p + 1 \notin Kept(text) /\ p + 2 \in Boundaries(text)
           /\ ~(text[p] = Star /\ At(text, p + 1, Slash)) => InBlock(text, i, p + 1)
  <1> DEFINE n == Len(text)
             ends == BlockEnds(text, i)
  <1>1. n \in Nat /\ i \in 1 .. n /\ i \in Nat /\ p \in Nat /\ i + 2 <= p /\ p <= n
    BY StartsTypes DEF InBlock
  <1>2. ends \in SUBSET Nat /\ TokenEnd(text, i) = FirstOr(ends, n + 1)
    BY <1>1, EndsTypes, TokenEndIs DEF InBlock
  <1>3. \A j \in ends : p + 1 <= j
    BY <1>1, <1>2 DEF InBlock
  <1>4. p + 1 <= TokenEnd(text, i) /\ TokenEnd(text, i) \in Nat
    <2>1. p + 1 <= n + 1 /\ p + 1 \in Nat /\ n + 1 \in Nat
      BY <1>1
    <2>2. TokenEnd(text, i) \in Nat
      BY <1>1, StartsTypes
    <2> HIDE DEF ends, n
    <2>3. p + 1 <= FirstOr(ends, n + 1)
      BY <1>2, <1>3, <2>1, FirstOrIs
    <2> QED
      BY <1>2, <2>2, <2>3
  <1>5. p \in Kept(text) <=> text[p] = Newline
    BY <1>1, <1>4, CommentKeeps DEF InBlock
  <1>6. ASSUME text[p] = Star, At(text, p + 1, Slash)
        PROVE  p + 1 \notin Kept(text) /\ p + 2 \in Boundaries(text)
    <2>1. p + 1 \in 1 .. n /\ text[p + 1] = Slash
      BY <1>1, <1>6 DEF At
    <2>2. p + 1 \notin Kept(text)
      <3>1. text[p + 1] # Newline
        BY <2>1 DEF Newline, Slash
      <3> QED
        BY <1>1, <1>4, <2>1, <3>1, CommentKeeps DEF InBlock
    <2>3. p + 1 \in ends
      <3>1. p + 1 \in i + 3 .. n /\ (p + 1) - 1 = p
        BY <1>1, <2>1
      <3> QED
        BY <1>6, <2>1, <3>1 DEF BlockEnds
    <2>4. TokenEnd(text, i) = p + 1
      <3>1. n + 1 \in Nat
        BY <1>1
      <3> HIDE DEF ends, n
      <3> QED
        BY <1>2, <1>3, <2>3, <3>1, FirstOrIs
    <2>5. TokenEnd(text, i) + 1 = p + 2
      BY <1>1, <2>4
    <2> QED
      BY <2>2, <2>5, StartsTypes
  <1>7. ASSUME ~(text[p] = Star /\ At(text, p + 1, Slash)) PROVE InBlock(text, i, p + 1)
    <2>1. ASSUME NEW j \in ends PROVE j > p + 1
      <3>1. j \in i + 3 .. n /\ text[j] = Slash /\ text[j - 1] = Star
        BY DEF BlockEnds
      <3>2. j # p + 1
        <4> SUFFICES ASSUME j = p + 1 PROVE FALSE
          OBVIOUS
        <4>1. j - 1 = p
          BY <1>1
        <4> QED
          BY <1>7, <3>1, <4>1 DEF At
      <3> QED
        BY <1>1, <1>3, <3>1, <3>2
    <2>2. StartsBlock(text, i) /\ i + 2 <= p + 1
      BY <1>1 DEF InBlock
    <2> QED
      BY <2>1, <2>2 DEF InBlock
  <1> QED
    BY <1>5, <1>6, <1>7

\* A byte outside of strings and comments.
LEMMA CodeStep ==
    ASSUME NEW S, NEW text \in Seq(S), NEW p \in 1 .. Len(text), p \in Boundaries(text)
    PROVE  /\ p \in TokenStarts(text)
           /\ StartsLine(text, p) =>
                 p \notin Kept(text) /\ p + 1 \notin Kept(text) /\ InLine(text, p, p + 2)
           /\ StartsBlock(text, p) =>
                 p \notin Kept(text) /\ p + 1 \notin Kept(text) /\ InBlock(text, p, p + 2)
           /\ ~StartsLine(text, p) /\ ~StartsBlock(text, p) =>
                 /\ p \in Kept(text)
                 /\ text[p] = Quote => InString(text, p, p + 1, FALSE)
                 /\ text[p] # Quote => p + 1 \in Boundaries(text)
  <1> DEFINE n == Len(text)
  <1>1. p \in TokenStarts(text) /\ n \in Nat /\ p \in Nat /\ p <= n
    BY StartsAreBoundaries
  <1>2. ASSUME StartsLine(text, p)
        PROVE  p \notin Kept(text) /\ p + 1 \notin Kept(text) /\ InLine(text, p, p + 2)
    <2>1. p + 1 \in 1 .. n /\ text[p] = Slash /\ text[p + 1] = Slash
      BY <1>1, <1>2 DEF StartsLine, At
    <2>2. p + 1 <= TokenEnd(text, p)
      <3>1. LineEnds(text, p) \in SUBSET Nat /\ \A j \in LineEnds(text, p) : p + 1 <= j
        BY <1>1 DEF LineEnds
      <3>2. p + 1 <= n /\ p + 1 \in Nat
        BY <1>1, <2>1
      <3> QED
        BY <1>1, <1>2, <3>1, <3>2, TokenEndIs, FirstOrIs
    <2>3. TokenEnd(text, p) \in Nat /\ p <= TokenEnd(text, p) /\ p <= p + 1 /\ p <= p
      BY <1>1, StartsTypes
    <2>4. p \notin Kept(text) /\ p + 1 \notin Kept(text)
      <3>1. Slash # Newline
        BY DEF Slash, Newline
      <3> QED
        BY <1>1, <1>2, <2>1, <2>2, <2>3, <3>1, CommentKeeps
    <2>5. p + 2 .. (p + 2) - 1 = {} /\ p + 2 <= p + 2
      BY <1>1
    <2> QED
      BY <1>2, <2>4, <2>5 DEF InLine
  <1>3. ASSUME StartsBlock(text, p)
        PROVE  p \notin Kept(text) /\ p + 1 \notin Kept(text) /\ InBlock(text, p, p + 2)
    <2>1. p + 1 \in 1 .. n /\ text[p] = Slash /\ text[p + 1] = Star
      BY <1>1, <1>3 DEF StartsBlock, At
    <2>2. BlockEnds(text, p) \in SUBSET Nat /\ \A j \in BlockEnds(text, p) : p + 2 < j /\ p + 1 <= j
      BY <1>1 DEF BlockEnds
    <2>3. p + 1 <= TokenEnd(text, p)
      <3>1. p + 1 <= n + 1 /\ p + 1 \in Nat /\ n + 1 \in Nat
        BY <1>1, <2>1
      <3> QED
        BY <1>3, <2>2, <3>1, TokenEndIs, FirstOrIs
    <2>4. TokenEnd(text, p) \in Nat /\ p <= TokenEnd(text, p) /\ p <= p + 1 /\ p <= p
      BY <1>1, StartsTypes
    <2>5. p \notin Kept(text) /\ p + 1 \notin Kept(text)
      <3>1. Slash # Newline /\ Star # Newline
        BY DEF Slash, Star, Newline
      <3> QED
        BY <1>1, <1>3, <2>1, <2>3, <2>4, <3>1, CommentKeeps
    <2>6. p + 2 <= p + 2 /\ \A j \in BlockEnds(text, p) : j > p + 2
      BY <1>1, <2>2
    <2> QED
      BY <1>3, <2>5, <2>6 DEF InBlock
  <1>4. ASSUME ~StartsLine(text, p), ~StartsBlock(text, p)
        PROVE  /\ p \in Kept(text)
               /\ text[p] = Quote => InString(text, p, p + 1, FALSE)
               /\ text[p] # Quote => p + 1 \in Boundaries(text)
    <2>1. ~IsComment(text, p)
      <3>1. p < n <=> p + 1 <= n
        BY <1>1
      <3> QED
        BY <1>1, <1>4, <3>1 DEF IsComment, StartsLine, StartsBlock, At
    <2>2. StartOf(text, p) = p
      <3>1. p \in p .. TokenEnd(text, p)
        BY <1>1, StartsTypes
      <3> QED
        BY <1>1, <3>1, StartOfIs
    <2>3. p \in Kept(text)
      BY <2>1, <2>2 DEF Kept
    <2>4. ASSUME text[p] = Quote PROVE InString(text, p, p + 1, FALSE)
      <3>1. Escapes(text, p, p + 1) = 0
        <4>1. text[p] # Backslash
          BY <2>4 DEF Quote, Backslash
        <4>2. p <= p
          BY <1>1
        <4> QED
          BY <1>1, <4>1, <4>2, EscapesNext
      <3>2. p + 1 .. (p + 1) - 1 = {} /\ p < p + 1
        BY <1>1
      <3>3. ~(Escapes(text, p, p + 1) % 2 = 1)
        BY <3>1
      <3>4. StartsString(text, p)
        BY <1>1, <2>4 DEF StartsString, At
      <3> QED
        BY <3>2, <3>3, <3>4 DEF InString
    <2>5. ASSUME text[p] # Quote PROVE p + 1 \in Boundaries(text)
      <3>1. TokenEnd(text, p) = p
        BY <1>4, <2>5, TokenEndIs DEF StartsString, At
      <3> QED
        BY <1>1, <3>1, StartsTypes
    <2> QED
      BY <2>3, <2>4, <2>5
  <1> QED
    BY <1>1, <1>2, <1>3, <1>4

\* The local variables of stripJSONCComments in the middle of a text: what is kept of the
\* bytes before the index is in the result, and state and escaped tell the token the index
\* is in.
ParserStates == {"code", "string", "line", "block"}
Parsers(S) == [state : ParserStates, escaped : BOOLEAN, index : Nat, result : Seq(S)]

Stripping(S, text, q) ==
    /\ text \in Seq(S) /\ q \in Parsers(S)
    /\ q.index \in 1 .. Len(text) + 1
    /\ q.result = Stripped(text, q.index)
    /\ q.state # "string" => ~q.escaped
    /\ q.state = "code" => q.index \in Boundaries(text)
    /\ q.state = "string" => \E i \in TokenStarts(text) : InString(text, i, q.index, q.escaped)
    /\ q.state = "line" => \E i \in TokenStarts(text) : InLine(text, i, q.index)
    /\ q.state = "block" => \E i \in TokenStarts(text) : InBlock(text, i, q.index)

\* It holds where the loop begins.
LEMMA StrippingStarts ==
    ASSUME NEW S, NEW text \in Seq(S)
    PROVE  Stripping(S, text, NewParser)
  <1>1. /\ NewParser.state = "code" /\ NewParser.escaped = FALSE /\ NewParser.index = 1
        /\ NewParser.result = <<>>
    BY DEF NewParser
  <1>2. <<>> \in Seq(S) /\ 1 \in Nat
    OBVIOUS
  <1>3. NewParser \in Parsers(S)
    BY <1>2 DEF NewParser, Parsers, ParserStates
  <1>4. 1 \in 1 .. Len(text) + 1
    OBVIOUS
  <1>5. 1 \in Boundaries(text) /\ Stripped(text, 1) = <<>>
    BY StartsTypes, StrippedAtStart
  <1> QED
    BY <1>1, <1>3, <1>4, <1>5 DEF Stripping

\* One iteration in a string.
LEMMA StringIteration ==
    ASSUME NEW S, NEW text, NEW q, Stripping(S, text, q), q.index <= Len(text), q.state = "string"
    PROVE  Stripping(S, text, handleStringState(q, text[q.index]))
  <1> DEFINE p == q.index
             b == text[p]
             r == handleStringState(q, b)
  <1>1. /\ text \in Seq(S) /\ q \in Parsers(S) /\ p \in 1 .. Len(text) + 1 /\ p <= Len(text)
        /\ q.result = Stripped(text, p)
    BY DEF Stripping
  <1>2. Len(text) \in Nat /\ p \in Nat /\ p \in 1 .. Len(text) /\ p + 1 \in 1 .. Len(text) + 1 /\ b \in S
    BY <1>1
  <1>3. q.result \in Seq(S) /\ q.escaped \in BOOLEAN
    BY <1>1 DEF Parsers
  <1>4. /\ r.result = Append(q.result, b) /\ r.index = p + 1
        /\ r.escaped = (~q.escaped /\ b = Backslash)
        /\ r.state = IF ~q.escaped /\ b = Quote THEN "code" ELSE "string"
    BY <1>1 DEF handleStringState, Keep, Parsers
  <1>5. r \in Parsers(S)
    <2>1. Append(q.result, b) \in Seq(S) /\ p + 1 \in Nat
      BY <1>2, <1>3
    <2>2. (~q.escaped /\ b = Backslash) \in BOOLEAN
      OBVIOUS
    <2>3. (IF ~q.escaped /\ b = Quote THEN "code" ELSE "string") \in ParserStates
      BY DEF ParserStates
    <2> QED
      BY <1>1, <2>1, <2>2, <2>3 DEF handleStringState, Keep, Parsers
  <1>6. PICK i \in TokenStarts(text) : InString(text, i, p, q.escaped)
    BY DEF Stripping
  <1> DEFINE escaped == q.escaped
  <1>7. /\ p \in Kept(text)
        /\ ~escaped /\ b = Quote => p + 1 \in Boundaries(text)
        /\ ~(~escaped /\ b = Quote) => InString(text, i, p + 1, ~escaped /\ b = Backslash)
    BY <1>1, <1>2, <1>3, <1>6, StringStep
  <1>8. r.result = Stripped(text, r.index)
    BY <1>1, <1>2, <1>4, <1>7, StrippedKeeps
  <1> HIDE DEF p, b, r
  <1>9. CASE ~escaped /\ b = Quote
    <2>1. r.state = "code" /\ r.escaped = FALSE /\ r.index \in Boundaries(text)
      BY <1>4, <1>7, <1>9 DEF Quote, Backslash
    <2> QED
      BY <1>1, <1>2, <1>4, <1>5, <1>8, <2>1 DEF Stripping, r, b, p
  <1>10. CASE ~(~escaped /\ b = Quote)
    <2>1. r.state = "string" /\ InString(text, i, r.index, r.escaped)
      <3>1. r.state = "string"
        BY <1>4, <1>10
      <3>2. r.escaped = (~escaped /\ b = Backslash)
        BY <1>4
      <3> HIDE DEF escaped
      <3> QED
        BY <1>4, <1>7, <1>10, <3>1, <3>2
    <2> QED
      BY <1>1, <1>2, <1>4, <1>5, <1>8, <2>1 DEF Stripping, r, b, p
  <1> QED
    BY <1>9, <1>10

\* One iteration in a line comment.
LEMMA LineIteration ==
    ASSUME NEW S, NEW text, NEW q, Stripping(S, text, q), q.index <= Len(text), q.state = "line"
    PROVE  Stripping(S, text, handleLineCommentState(q, text[q.index]))
  <1> DEFINE p == q.index
             b == text[p]
             r == handleLineCommentState(q, b)
  <1>1. /\ text \in Seq(S) /\ q \in Parsers(S) /\ p \in 1 .. Len(text) + 1 /\ p <= Len(text)
        /\ q.result = Stripped(text, p) /\ ~q.escaped
    BY DEF Stripping
  <1>2. Len(text) \in Nat /\ p \in Nat /\ p \in 1 .. Len(text) /\ p + 1 \in 1 .. Len(text) + 1 /\ b \in S
    BY <1>1
  <1>3. q.result \in Seq(S) /\ q.escaped \in BOOLEAN /\ p + 1 \in Nat
    BY <1>1, <1>2 DEF Parsers
  <1>4. PICK i \in TokenStarts(text) : InLine(text, i, p)
    BY DEF Stripping
  <1>5. /\ b = Newline => p \in Kept(text) /\ p + 1 \in Boundaries(text)
        /\ b # Newline => p \notin Kept(text) /\ InLine(text, i, p + 1)
    BY <1>1, <1>2, <1>4, LineStep
  <1>6. CASE b = Newline
    <2>1. r = [q EXCEPT !.result = Append(q.result, b), !.state = "code", !.index = @ + 1]
      BY <1>6 DEF handleLineCommentState, Keep
    <2>2. Append(q.result, b) \in Seq(S) /\ "code" \in ParserStates
      BY <1>2, <1>3 DEF ParserStates
    <2> HIDE DEF b, r
    <2>3. /\ r \in Parsers(S) /\ r.result = Append(q.result, b) /\ r.index = p + 1
          /\ r.escaped = q.escaped /\ r.state = "code"
      BY <1>1, <1>3, <2>1, <2>2 DEF Parsers
    <2>4. r.result = Stripped(text, r.index)
      BY <1>1, <1>2, <1>5, <1>6, <2>3, StrippedKeeps DEF b
    <2> HIDE DEF p
    <2> QED
      BY <1>1, <1>2, <1>5, <1>6, <2>3, <2>4 DEF Stripping, r, b, p
  <1>7. CASE b # Newline
    <2>1. r = [q EXCEPT !.index = @ + 1]
      BY <1>7 DEF handleLineCommentState
    <2> HIDE DEF b, r
    <2>2. /\ r \in Parsers(S) /\ r.result = q.result /\ r.index = p + 1
          /\ r.escaped = q.escaped /\ r.state = "line"
      BY <1>1, <1>3, <2>1 DEF Parsers
    <2>3. r.result = Stripped(text, r.index)
      BY <1>1, <1>2, <1>5, <1>7, <2>2, StrippedDrops DEF b
    <2> HIDE DEF p
    <2> QED
      BY <1>1, <1>2, <1>4, <1>5, <1>7, <2>2, <2>3 DEF Stripping, r, b, p
  <1> QED
    BY <1>6, <1>7

\* One iteration in a block comment.
LEMMA BlockIteration ==
    ASSUME NEW S, NEW text, NEW q, Stripping(S, text, q), q.index <= Len(text), q.state = "block"
    PROVE  Stripping(S, text, handleBlockCommentState(q, text[q.index], text))
  <1> DEFINE p == q.index
             b == text[p]
             r == handleBlockCommentState(q, b, text)
  <1>1. /\ text \in Seq(S) /\ q \in Parsers(S) /\ p \in 1 .. Len(text) + 1 /\ p <= Len(text)
        /\ q.result = Stripped(text, p) /\ ~q.escaped
    BY DEF Stripping
  <1>2. Len(text) \in Nat /\ p \in Nat /\ p \in 1 .. Len(text) /\ p + 1 \in 1 .. Len(text) + 1 /\ b \in S
    BY <1>1
  <1>3. q.result \in Seq(S) /\ q.escaped \in BOOLEAN /\ p + 1 \in Nat /\ p + 2 \in Nat
    BY <1>1, <1>2 DEF Parsers
  <1>4. PICK i \in TokenStarts(text) : InBlock(text, i, p)
    BY DEF Stripping
  <1> DEFINE ends == b = Star /\ At(text, p + 1, Slash)
  <1>5. /\ p \in Kept(text) <=> b = Newline
        /\ ends => p + 1 \notin Kept(text) /\ p + 2 \in Boundaries(text)
        /\ ~ends => InBlock(text, i, p + 1)
    BY <1>1, <1>2, <1>4, BlockStep
  <1>6. ends <=> b = Star /\ NextIs(text, q, Slash)
    BY DEF NextIs, At
  <1>7. CASE b = Newline
    <2>1. r = [q EXCEPT !.result = Append(q.result, b), !.index = @ + 1]
      BY <1>7 DEF handleBlockCommentState, Keep
    <2>2. Append(q.result, b) \in Seq(S)
      BY <1>2, <1>3
    <2>3. ~ends
      BY <1>7 DEF Newline, Star
    <2> HIDE DEF b, r
    <2>4. /\ r \in Parsers(S) /\ r.result = Append(q.result, b) /\ r.index = p + 1
          /\ r.escaped = q.escaped /\ r.state = "block"
      BY <1>1, <1>3, <2>1, <2>2 DEF Parsers
    <2>5. r.result = Stripped(text, r.index)
      BY <1>1, <1>2, <1>5, <1>7, <2>4, StrippedKeeps DEF b
    <2> HIDE DEF p, ends
    <2> QED
      BY <1>1, <1>2, <1>4, <1>5, <2>3, <2>4, <2>5 DEF Stripping, r, b, p
  <1>8. CASE b # Newline /\ ends
    <2>1. r = [q EXCEPT !.state = "code", !.index = @ + 2]
      BY <1>6, <1>8 DEF handleBlockCommentState
    <2>2. "code" \in ParserStates
      BY DEF ParserStates
    <2>3. p + 1 \in 1 .. Len(text) /\ (p + 1) + 1 = p + 2 /\ p + 2 \in 1 .. Len(text) + 1
      BY <1>2, <1>8 DEF At
    <2> HIDE DEF b, r, ends
    <2>4. /\ r \in Parsers(S) /\ r.result = q.result /\ r.index = p + 2
          /\ r.escaped = q.escaped /\ r.state = "code"
      BY <1>1, <1>3, <2>1, <2>2 DEF Parsers
    <2>5. Stripped(text, p + 1) = Stripped(text, p)
      BY <1>1, <1>2, <1>5, <1>8, StrippedDrops
    <2>6. Stripped(text, p + 2) = Stripped(text, p + 1)
      BY <1>1, <1>5, <1>8, <2>3, StrippedDrops
    <2> HIDE DEF p
    <2> QED
      BY <1>1, <1>5, <1>8, <2>3, <2>4, <2>5, <2>6 DEF Stripping, r, b, p
  <1>9. CASE b # Newline /\ ~ends
    <2>1. r = [q EXCEPT !.index = @ + 1]
      BY <1>6, <1>9 DEF handleBlockCommentState
    <2> HIDE DEF b, r, ends
    <2>2. /\ r \in Parsers(S) /\ r.result = q.result /\ r.index = p + 1
          /\ r.escaped = q.escaped /\ r.state = "block"
      BY <1>1, <1>3, <2>1 DEF Parsers
    <2>3. r.result = Stripped(text, r.index)
      BY <1>1, <1>2, <1>5, <1>9, <2>2, StrippedDrops
    <2> HIDE DEF p
    <2> QED
      BY <1>1, <1>2, <1>4, <1>5, <1>9, <2>2, <2>3 DEF Stripping, r, b, p
  <1> QED
    BY <1>7, <1>8, <1>9

\* One iteration outside of strings and comments.
LEMMA CodeIteration ==
    ASSUME NEW S, NEW text, NEW q, Stripping(S, text, q), q.index <= Len(text), q.state = "code"
    PROVE  Stripping(S, text, handleCodeState(q, text[q.index], text))
  <1> DEFINE p == q.index
             b == text[p]
             r == handleCodeState(q, b, text)
  <1>1. /\ text \in Seq(S) /\ q \in Parsers(S) /\ p \in 1 .. Len(text) + 1 /\ p <= Len(text)
        /\ q.result = Stripped(text, p) /\ ~q.escaped /\ p \in Boundaries(text)
    BY DEF Stripping
  <1>2. Len(text) \in Nat /\ p \in Nat /\ p \in 1 .. Len(text) /\ p + 1 \in 1 .. Len(text) + 1 /\ b \in S
    BY <1>1
  <1>3. q.result \in Seq(S) /\ q.escaped \in BOOLEAN /\ p + 1 \in Nat /\ p + 2 \in Nat
    BY <1>1, <1>2 DEF Parsers
  <1> DEFINE line == StartsLine(text, p)
             block == StartsBlock(text, p)
  <1>4. /\ p \in TokenStarts(text)
        /\ line => p \notin Kept(text) /\ p + 1 \notin Kept(text) /\ InLine(text, p, p + 2)
        /\ block => p \notin Kept(text) /\ p + 1 \notin Kept(text) /\ InBlock(text, p, p + 2)
        /\ ~line /\ ~block =>
              /\ p \in Kept(text)
              /\ b = Quote => InString(text, p, p + 1, FALSE)
              /\ b # Quote => p + 1 \in Boundaries(text)
    BY <1>1, <1>2, CodeStep
  <1>5. /\ line <=> b = Slash /\ NextIs(text, q, Slash)
        /\ block <=> b = Slash /\ NextIs(text, q, Star)
    BY <1>1 DEF NextIs, At, StartsLine, StartsBlock
  <1>6. ASSUME line \/ block
        PROVE  /\ p + 2 \in 1 .. Len(text) + 1
               /\ q.result = Stripped(text, p + 2)
    <2>1. p + 1 \in 1 .. Len(text) /\ (p + 1) + 1 = p + 2 /\ p + 2 \in 1 .. Len(text) + 1
      BY <1>2, <1>6 DEF StartsLine, StartsBlock, At
    <2> HIDE DEF line, block
    <2>2. Stripped(text, p + 1) = Stripped(text, p)
      BY <1>1, <1>2, <1>4, <1>6, StrippedDrops
    <2>3. Stripped(text, p + 2) = Stripped(text, p + 1)
      BY <1>1, <1>4, <1>6, <2>1, StrippedDrops
    <2> QED
      BY <1>1, <2>1, <2>2, <2>3
  <1>7. CASE line
    <2>1. r = [q EXCEPT !.state = "line", !.index = @ + 2]
      BY <1>5, <1>7 DEF handleCodeState
    <2>2. "line" \in ParserStates
      BY DEF ParserStates
    <2> HIDE DEF b, r, line, block
    <2>3. /\ r \in Parsers(S) /\ r.result = q.result /\ r.index = p + 2
          /\ r.escaped = q.escaped /\ r.state = "line"
      BY <1>1, <1>3, <2>1, <2>2 DEF Parsers
    <2> HIDE DEF p
    <2> QED
      BY <1>1, <1>4, <1>6, <1>7, <2>3 DEF Stripping, r, b, p
  <1>8. CASE ~line /\ block
    <2>1. r = [q EXCEPT !.state = "block", !.index = @ + 2]
      BY <1>5, <1>8 DEF handleCodeState
    <2>2. "block" \in ParserStates
      BY DEF ParserStates
    <2> HIDE DEF b, r, line, block
    <2>3. /\ r \in Parsers(S) /\ r.result = q.result /\ r.index = p + 2
          /\ r.escaped = q.escaped /\ r.state = "block"
      BY <1>1, <1>3, <2>1, <2>2 DEF Parsers
    <2> HIDE DEF p
    <2> QED
      BY <1>1, <1>4, <1>6, <1>8, <2>3 DEF Stripping, r, b, p
  <1>9. CASE ~line /\ ~block
    <2>1. r = [q EXCEPT !.result = Append(q.result, b),
                        !.state = IF b = Quote THEN "string" ELSE "code", !.index = @ + 1]
      BY <1>5, <1>9 DEF handleCodeState, Keep
    <2>2. Append(q.result, b) \in Seq(S) /\ (IF b = Quote THEN "string" ELSE "code") \in ParserStates
      BY <1>2, <1>3 DEF ParserStates
    <2> HIDE DEF b, r, line, block
    <2>3. /\ r \in Parsers(S) /\ r.result = Append(q.result, b) /\ r.index = p + 1
          /\ r.escaped = q.escaped /\ r.state = IF b = Quote THEN "string" ELSE "code"
      BY <1>1, <1>3, <2>1, <2>2 DEF Parsers
    <2>4. r.result = Stripped(text, r.index)
      BY <1>1, <1>2, <1>4, <1>9, <2>3, StrippedKeeps DEF b
    <2> HIDE DEF p
    <2>5. CASE b = Quote
      <3>1. r.state = "string" /\ r.escaped = FALSE /\ InString(text, p, r.index, FALSE)
        BY <1>1, <1>3, <1>4, <1>9, <2>3, <2>5
      <3>2. InString(text, p, r.index, r.escaped)
        BY <3>1
      <3> QED
        BY <1>1, <1>2, <1>4, <2>3, <2>4, <3>1, <3>2 DEF Stripping, r, b, p
    <2>6. CASE b # Quote
      <3>1. r.state = "code" /\ r.index \in Boundaries(text)
        BY <1>4, <1>9, <2>3, <2>6
      <3> QED
        BY <1>1, <1>2, <2>3, <2>4, <3>1 DEF Stripping, r, b, p
    <2> QED
      BY <2>5, <2>6
  <1> QED
    BY <1>7, <1>8, <1>9

\* Every iteration of the loop keeps it.
LEMMA StrippingGoesOn ==
    ASSUME NEW S, NEW text, NEW q, Stripping(S, text, q), ~Done(text, q)
    PROVE  Stripping(S, text, stripJSONCComments(text, q))
  <1>1. /\ text \in Seq(S) /\ q \in Parsers(S) /\ q.index \in 1 .. Len(text) + 1
    BY DEF Stripping
  <1>2. q.index <= Len(text)
    BY <1>1 DEF Done
  <1>3. q.state \in ParserStates
    BY <1>1 DEF Parsers
  <1>4. CASE q.state = "string"
    <2>1. stripJSONCComments(text, q) = handleStringState(q, text[q.index])
      BY <1>4 DEF stripJSONCComments
    <2> QED
      BY <1>2, <1>4, <2>1, StringIteration
  <1>5. CASE q.state = "line"
    <2>1. stripJSONCComments(text, q) = handleLineCommentState(q, text[q.index])
      BY <1>5 DEF stripJSONCComments
    <2> QED
      BY <1>2, <1>5, <2>1, LineIteration
  <1>6. CASE q.state = "block"
    <2>1. stripJSONCComments(text, q) = handleBlockCommentState(q, text[q.index], text)
      BY <1>6 DEF stripJSONCComments
    <2> QED
      BY <1>2, <1>6, <2>1, BlockIteration
  <1>7. CASE q.state = "code"
    <2>1. stripJSONCComments(text, q) = handleCodeState(q, text[q.index], text)
      BY <1>7 DEF stripJSONCComments
    <2> QED
      BY <1>2, <1>7, <2>1, CodeIteration
  <1> QED
    BY <1>3, <1>4, <1>5, <1>6, <1>7 DEF ParserStates

\* At the end of the text the result is the text without comments, and the automaton is in
\* a block comment exactly if one is not terminated.
LEMMA StrippingEnds ==
    ASSUME NEW S, NEW text, NEW q, Stripping(S, text, q), Done(text, q)
    PROVE  /\ q.result = Uncommented(text)
           /\ q.state = "block" <=> Unterminated(text)
  <1> DEFINE n == Len(text)
  <1>1. text \in Seq(S) /\ q \in Parsers(S) /\ q.index \in 1 .. n + 1 /\ n \in Nat
    BY DEF Stripping
  <1>2. q.index = n + 1
    BY <1>1 DEF Done
  <1>3. q.result = Uncommented(text)
    BY <1>1, <1>2, StrippedAtEnd DEF Stripping
  <1>4. /\ \A k \in TokenStarts(text) : k \in Boundaries(text) /\ k \in 1 .. n
        /\ \A k \in TokenStarts(text) : TokenEnd(text, k) \in Nat /\ TokenEnd(text, k) <= n + 1
    BY <1>1, StartsTypes
  <1>5. CASE q.state = "block"
    <2>1. PICK i \in TokenStarts(text) : InBlock(text, i, n + 1)
      BY <1>2, <1>5 DEF Stripping
    <2>2. i \in 1 .. n
      BY <1>4
    <2>3. BlockEnds(text, i) \in SUBSET Nat /\ \A j \in BlockEnds(text, i) : i < j /\ j <= n
      BY <1>1, <2>2, EndsTypes
    <2>4. BlockEnds(text, i) = {}
      <3> SUFFICES ASSUME NEW j \in BlockEnds(text, i) PROVE FALSE
        OBVIOUS
      <3>1. j > n + 1 /\ j <= n /\ j \in Nat
        BY <2>1, <2>3 DEF InBlock
      <3> QED
        BY <1>1, <3>1
    <2>5. TokenEnd(text, i) = n + 1
      <3>1. n + 1 \in Nat
        BY <1>1
      <3> QED
        BY <2>1, <2>3, <2>4, <3>1, FirstOrIs, TokenEndIs DEF InBlock
    <2>6. TokenEnd(text, i) > n
      BY <1>1, <2>5
    <2> QED
      BY <1>3, <1>5, <2>6 DEF Unterminated
  <1>6. CASE q.state # "block"
    <2> SUFFICES ASSUME NEW k \in TokenStarts(text), TokenEnd(text, k) > n PROVE FALSE
      BY <1>3, <1>6 DEF Unterminated
    <2>1. ASSUME NEW i \in TokenStarts(text), TokenEnd(text, i) = n PROVE FALSE
      <3>1. CASE i = k
        BY <1>1, <2>1, <3>1
      <3>2. CASE i < k
        <4>1. k > TokenEnd(text, i)
          BY <1>1, <1>4, <3>2, TokensDisjoint
        <4> QED
          BY <1>1, <1>4, <2>1, <4>1
      <3>3. CASE i > k
        <4>1. i > TokenEnd(text, k)
          BY <1>1, <1>4, <3>3, TokensDisjoint
        <4> QED
          BY <1>1, <1>4, <4>1
      <3> QED
        BY <1>4, <3>1, <3>2, <3>3
    <2>2. CASE q.state = "code"
      <3>1. n + 1 \in Boundaries(text) /\ n + 1 > k
        BY <1>1, <1>2, <1>4, <2>2 DEF Stripping
      <3>2. n + 1 > TokenEnd(text, k)
        BY <1>1, <3>1, TokensDisjoint
      <3> QED
        BY <1>1, <1>4, <3>2
    <2>3. CASE q.state = "string"
      <3>1. PICK i \in TokenStarts(text) : InString(text, i, n + 1, q.escaped)
        BY <1>2, <2>3 DEF Stripping
      <3>2. StringEnds(text, i) = {}
        <4>1. (n + 1) - 1 = n
          BY <1>1
        <4> QED
          BY <3>1, <4>1 DEF InString, StringEnds
      <3>3. TokenEnd(text, i) = n
        BY <1>1, <3>1, <3>2, FirstOrIs, TokenEndIs DEF InString
      <3> QED
        BY <2>1, <3>3
    <2>4. CASE q.state = "line"
      <3>1. PICK i \in TokenStarts(text) : InLine(text, i, n + 1)
        BY <1>2, <2>4 DEF Stripping
      <3>2. LineEnds(text, i) = {}
        <4> SUFFICES ASSUME NEW j \in LineEnds(text, i) PROVE FALSE
          OBVIOUS
        <4>1. i \in 1 .. n
          BY <1>4
        <4>2. j \in i + 1 .. n - 1 /\ text[j + 1] = Newline
          BY DEF LineEnds
        <4>3. j + 1 \in i + 2 .. (n + 1) - 1
          BY <1>1, <4>1, <4>2
        <4> QED
          BY <3>1, <4>2, <4>3 DEF InLine
      <3>3. TokenEnd(text, i) = n
        BY <1>1, <3>1, <3>2, FirstOrIs, TokenEndIs DEF InLine
      <3> QED
        BY <2>1, <3>3
    <2>5. q.state \in ParserStates
      BY <1>1 DEF Parsers
    <2> QED
      BY <1>6, <2>2, <2>3, <2>4, <2>5 DEF ParserStates
  <1> QED
    BY <1>3, <1>5, <1>6

-----------------------------------------------------------------------------
(* Durations. *)

\* Numbers that a Duration does not tell apart.
Alike(a, b) == \E k \in Int : a = b + k * (2 * DurationRange)

InDuration(a) == a \in Int /\ -DurationRange <= a /\ a < DurationRange

\* Alike is what it should be.
LEMMA AlikeRules ==
    /\ \A a \in Int : Alike(a, a)
    /\ \A a, b \in Int : Alike(a, b) => Alike(b, a)
    /\ \A a, b, c \in Int : Alike(a, b) /\ Alike(b, c) => Alike(a, c)
    /\ \A a, b, c, d \in Int : Alike(a, b) /\ Alike(c, d) => Alike(a + c, b + d)
    /\ \A a, b \in Int : Alike(a, b) => Alike(-a, -b)
  <1> DEFINE M == 2 * DurationRange
  <1>1. M \in Int
    BY DurationRangeAssumption
  <1>2. \A k, l \in Int : (k + l) * M = k * M + l * M /\ (-k) * M = -(k * M) /\ 0 * M = 0 /\ k * M \in Int
    BY <1>1
  <1>3. \A a, b : Alike(a, b) <=> \E k \in Int : a = b + k * M
    BY DEF Alike
  <1> HIDE DEF M
  <1>4. ASSUME NEW a \in Int PROVE Alike(a, a)
    <2>1. a = a + 0 * M
      BY <1>2
    <2> QED
      BY <1>3, <2>1
  <1>5. ASSUME NEW a \in Int, NEW b \in Int, Alike(a, b) PROVE Alike(b, a) /\ Alike(-a, -b)
    <2>1. PICK k \in Int : a = b + k * M
      BY <1>3, <1>5
    <2>2. -k \in Int /\ b = a + (-k) * M /\ -a = -b + (-k) * M
      <3> DEFINE x == k * M
                 y == (-k) * M
      <3>1. x \in Int /\ y = -x
        BY <1>2
      <3>2. a = b + x
        BY <2>1
      <3> HIDE DEF x, y
      <3>3. b = a + y /\ -a = -b + y
        BY <3>1, <3>2
      <3> QED
        BY <3>3 DEF y
    <2> QED
      BY <1>3, <2>2
  <1>6. ASSUME NEW a \in Int, NEW b \in Int, NEW c \in Int, Alike(a, b), Alike(b, c) PROVE Alike(a, c)
    <2>1. PICK k \in Int : a = b + k * M
      BY <1>3, <1>6
    <2>2. PICK l \in Int : b = c + l * M
      BY <1>3, <1>6
    <2>3. k + l \in Int /\ a = c + (k + l) * M
      <3> DEFINE x == k * M
                 y == l * M
                 z == (k + l) * M
      <3>1. x \in Int /\ y \in Int /\ z = x + y
        BY <1>2
      <3>2. a = b + x /\ b = c + y
        BY <2>1, <2>2
      <3> HIDE DEF x, y, z
      <3>3. a = c + z
        BY <3>1, <3>2
      <3> QED
        BY <3>3 DEF z
    <2> QED
      BY <1>3, <2>3
  <1>7. ASSUME NEW a \in Int, NEW b \in Int, NEW c \in Int, NEW d \in Int, Alike(a, b), Alike(c, d)
        PROVE  Alike(a + c, b + d)
    <2>1. PICK k \in Int : a = b + k * M
      BY <1>3, <1>7
    <2>2. PICK l \in Int : c = d + l * M
      BY <1>3, <1>7
    <2>3. k + l \in Int /\ a + c = (b + d) + (k + l) * M
      <3> DEFINE x == k * M
                 y == l * M
                 z == (k + l) * M
      <3>1. x \in Int /\ y \in Int /\ z = x + y
        BY <1>2
      <3>2. a = b + x /\ c = d + y
        BY <2>1, <2>2
      <3> HIDE DEF x, y, z
      <3>3. a + c = (b + d) + z
        BY <3>1, <3>2
      <3> QED
        BY <3>3 DEF z
    <2> QED
      BY <1>3, <2>3
  <1> QED
    BY <1>4, <1>5, <1>6, <1>7

\* A Duration is the only one of the numbers like it.
LEMMA AlikeUnique ==
    ASSUME NEW a, NEW b, InDuration(a), InDuration(b), Alike(a, b)
    PROVE  a = b
  <1> DEFINE M == 2 * DurationRange
  <1>1. M \in Int /\ M > 0 /\ a \in Int /\ b \in Int /\ a - b < M /\ b - a < M
    BY DurationRangeAssumption DEF InDuration
  <1>2. PICK k \in Int : a = b + k * M
    BY DEF Alike
  <1> HIDE DEF M
  <1>3. CASE k = 0
    <2>1. k * M = 0
      BY <1>1, <1>3
    <2> QED
      BY <1>1, <1>2, <2>1
  <1>4. CASE k >= 1
    <2>1. k * M >= M /\ k * M \in Int
      BY <1>1, <1>4
    <2> QED
      BY <1>1, <1>2, <2>1
  <1>5. CASE k <= -1
    <2>1. k * M <= -M /\ k * M \in Int
      BY <1>1, <1>5
    <2> QED
      BY <1>1, <1>2, <2>1
  <1> QED
    BY <1>3, <1>4, <1>5

\* int64 arithmetic: the Duration like a number.
LEMMA WrappedIs ==
    ASSUME NEW a \in Int
    PROVE  InDuration(Wrapped(a)) /\ Alike(Wrapped(a), a)
  <1> DEFINE D == DurationRange
             M == 2 * D
             x == a + D
             r == x % M
             k == x \div M
  <1>1. D \in Nat /\ D > 0 /\ M \in Nat /\ M > 0 /\ x \in Int
    BY DurationRangeAssumption
  <1> HIDE DEF D, M
  <1>2. r \in 0 .. M - 1 /\ k \in Int /\ x = M * k + r
    <2> HIDE DEF x
    <2> QED
      BY <1>1
  <1> HIDE DEF x, r, k
  <1>3. M = D + D
    BY <1>1 DEF M
  <1>4. Wrapped(a) = r - D
    BY DEF Wrapped, r, x, M, D
  <1>5. InDuration(r - D)
    BY <1>1, <1>2, <1>3 DEF InDuration, D
  <1>6. r - D = a + (-k) * M
    <2>1. (-k) * M = -(M * k) /\ M * k \in Int
      BY <1>1, <1>2
    <2>2. x = a + D
      BY DEF x
    <2> QED
      BY <1>1, <1>2, <2>1, <2>2
  <1>7. -k \in Int
    BY <1>2
  <1> QED
    BY <1>4, <1>5, <1>6, <1>7 DEF Alike, M, D

\* A Duration is not wrapped, and numbers that are alike are wrapped alike.
LEMMA WrappedSame ==
    /\ \A a : InDuration(a) => Wrapped(a) = a
    /\ \A a, b \in Int : Alike(a, b) => Wrapped(a) = Wrapped(b)
  <1>1. ASSUME NEW a, InDuration(a) PROVE Wrapped(a) = a
    <2>1. a \in Int
      BY <1>1 DEF InDuration
    <2> QED
      BY <1>1, <2>1, WrappedIs, AlikeUnique
  <1>2. ASSUME NEW a \in Int, NEW b \in Int, Alike(a, b) PROVE Wrapped(a) = Wrapped(b)
    <2> DEFINE u == Wrapped(a)
               v == Wrapped(b)
    <2>1. InDuration(u) /\ InDuration(v) /\ Alike(u, a) /\ Alike(v, b)
      BY WrappedIs
    <2>2. u \in Int /\ v \in Int
      BY <2>1 DEF InDuration
    <2> HIDE DEF u, v
    <2>3. Alike(u, v)
      BY <1>2, <2>1, <2>2, AlikeRules
    <2>4. u = v
      BY <2>1, <2>3, AlikeUnique
    <2> QED
      BY <2>4 DEF u, v
  <1> QED
    BY <1>1, <1>2

\* The parts of an offset with units that are known.
Timed(parts) == \A i \in 1 .. Len(parts) : partDuration(parts[i]) \in Int

\* The loop of totalDuration, iteration by iteration.
TotalLoop(parts, total) ==
    /\ total \in [0 .. Len(parts) -> Int]
    /\ total[0] = 0
    /\ \A n \in 1 .. Len(parts) : total[n] = Wrapped(total[n - 1] + Wrapped(partDuration(parts[n])))
    /\ totalDuration(parts) = total[Len(parts)]

\* What totalDuration computes.
LEMMA TotalIterates ==
    ASSUME NEW S, NEW parts \in Seq(S), Timed(parts)
    PROVE  \E total : TotalLoop(parts, total)
  <1> DEFINE N == Len(parts)
             Add(sum, n) == Wrapped(sum + Wrapped(partDuration(parts[n])))
             Loop(f) == [n \in 0 .. N |-> IF n = 0 THEN 0 ELSE Add(f[n - 1], n)]
             step == [n \in 1 .. N |-> [sum \in Int |-> Add(sum, n)]]
  <1>1. step \in StepMaps(N, Int)
    <2>1. ASSUME NEW n \in 1 .. N, NEW sum \in Int PROVE Add(sum, n) \in Int
      <3>1. partDuration(parts[n]) \in Int
        BY DEF Timed
      <3>2. Wrapped(partDuration(parts[n])) \in Int
        BY <3>1, WrappedIs DEF InDuration
      <3>3. sum + Wrapped(partDuration(parts[n])) \in Int
        BY <3>2
      <3> QED
        BY <3>3, WrappedIs DEF InDuration
    <2> HIDE DEF Add
    <2> QED
      BY <2>1 DEF StepMaps
  <1>2. N \in Nat /\ 0 \in Int
    OBVIOUS
  <1>3. PICK f : MadeBySteps(f, N, Int, 0, step)
    <2> HIDE DEF step, N
    <2> QED
      BY <1>1, <1>2, StepwiseFunction
  <1> HIDE DEF Add
  <1>4. /\ f \in [0 .. N -> Int] /\ f[0] = 0
        /\ \A n \in 1 .. N : f[n] = Add(f[n - 1], n)
    <2>1. /\ f \in [0 .. N -> Int] /\ f[0] = 0
          /\ \A n \in 1 .. N : f[n] = step[n][f[n - 1]]
      BY <1>3 DEF MadeBySteps
    <2>2. ASSUME NEW n \in 1 .. N PROVE step[n][f[n - 1]] = Add(f[n - 1], n)
      <3>1. n - 1 \in 0 .. N
        OBVIOUS
      <3>2. f[n - 1] \in Int
        BY <2>1, <3>1
      <3> QED
        BY <3>2
    <2> QED
      BY <2>1, <2>2
  <1>5. f = Loop(f)
    BY <1>4
  <1> DEFINE total == CHOOSE g : g = Loop(g)
  <1>6. totalDuration(parts) = total[N]
    BY DEF totalDuration, Add
  <1>7. total = Loop(total)
    <2> HIDE DEF Loop
    <2> QED
      BY <1>5, Zenon
  <1> HIDE DEF total
  <1> DEFINE I == {n \in 0 .. N : total[n] = f[n]}
  <1>8. /\ total[0] = 0
        /\ \A n \in 1 .. N : total[n] = Add(total[n - 1], n)
    <2>1. 0 \in 0 .. N /\ \A n \in 1 .. N : n \in 0 .. N /\ n # 0
      OBVIOUS
    <2> HIDE DEF N
    <2> QED
      BY <1>7, <2>1
  <1>9. \A n \in 0 .. N : n \in I
    <2>1. 0 \in I
      BY <1>2, <1>4, <1>8
    <2>2. ASSUME NEW n \in 0 .. N, n < N, n \in I PROVE n + 1 \in I
      <3>1. n + 1 \in 1 .. N /\ n + 1 \in 0 .. N /\ (n + 1) - 1 = n
        BY <2>2
      <3>2. total[n + 1] = Add(total[n], n + 1) /\ f[n + 1] = Add(f[n], n + 1)
        BY <1>4, <1>8, <3>1
      <3> QED
        BY <2>2, <3>1, <3>2
    <2> HIDE DEF I, N
    <2>3. \A n \in 0 .. N : n < N /\ n \in I => n + 1 \in I
      BY <2>2
    <2> QED
      BY <1>2, <2>1, <2>3, InductionUpTo
  <1>10. total[N] = f[N]
    BY <1>2, <1>9
  <1> QED
    BY <1>4, <1>6, <1>10 DEF TotalLoop, Add

\* The exact length of an offset, sum by sum.
ExactLoop(macro, exact) ==
    /\ exact \in [0 .. Len(macro.parts) -> Int]
    /\ exact[0] = 0
    /\ \A n \in 1 .. Len(macro.parts) : exact[n] = exact[n - 1] + partDuration(macro.parts[n])
    /\ ExactOffset(macro) = exact[Len(macro.parts)]

\* What ExactOffset is made of.
LEMMA ExactIterates ==
    ASSUME NEW macro, NEW S, macro.parts \in Seq(S), Timed(macro.parts)
    PROVE  \E exact : ExactLoop(macro, exact)
  <1> DEFINE N == Len(macro.parts)
             Add(sum, n) == sum + partDuration(macro.parts[n])
             Loop(f) == [n \in 0 .. N |-> IF n = 0 THEN 0 ELSE Add(f[n - 1], n)]
             step == [n \in 1 .. N |-> [sum \in Int |-> Add(sum, n)]]
  <1>1. step \in StepMaps(N, Int)
    <2>1. ASSUME NEW n \in 1 .. N, NEW sum \in Int PROVE Add(sum, n) \in Int
      <3>1. partDuration(macro.parts[n]) \in Int
        BY DEF Timed
      <3> QED
        BY <3>1
    <2> HIDE DEF Add
    <2> QED
      BY <2>1 DEF StepMaps
  <1>2. N \in Nat /\ 0 \in Int
    OBVIOUS
  <1>3. PICK f : MadeBySteps(f, N, Int, 0, step)
    <2> HIDE DEF step, N
    <2> QED
      BY <1>1, <1>2, StepwiseFunction
  <1> HIDE DEF Add
  <1>4. /\ f \in [0 .. N -> Int] /\ f[0] = 0
        /\ \A n \in 1 .. N : f[n] = Add(f[n - 1], n)
    <2>1. /\ f \in [0 .. N -> Int] /\ f[0] = 0
          /\ \A n \in 1 .. N : f[n] = step[n][f[n - 1]]
      BY <1>3 DEF MadeBySteps
    <2>2. ASSUME NEW n \in 1 .. N PROVE step[n][f[n - 1]] = Add(f[n - 1], n)
      <3>1. n - 1 \in 0 .. N
        OBVIOUS
      <3>2. f[n - 1] \in Int
        BY <2>1, <3>1
      <3> QED
        BY <3>2
    <2> QED
      BY <2>1, <2>2
  <1>5. f = Loop(f)
    BY <1>4
  <1> DEFINE exact == CHOOSE g : g = Loop(g)
  <1>6. ExactOffset(macro) = exact[N]
    BY DEF ExactOffset, Add
  <1>7. exact = Loop(exact)
    <2> HIDE DEF Loop
    <2> QED
      BY <1>5, Zenon
  <1> HIDE DEF exact
  <1> DEFINE I == {n \in 0 .. N : exact[n] = f[n]}
  <1>8. /\ exact[0] = 0
        /\ \A n \in 1 .. N : exact[n] = Add(exact[n - 1], n)
    <2>1. 0 \in 0 .. N /\ \A n \in 1 .. N : n \in 0 .. N /\ n # 0
      OBVIOUS
    <2> HIDE DEF N
    <2> QED
      BY <1>7, <2>1
  <1>9. \A n \in 0 .. N : n \in I
    <2>1. 0 \in I
      BY <1>2, <1>4, <1>8
    <2>2. ASSUME NEW n \in 0 .. N, n < N, n \in I PROVE n + 1 \in I
      <3>1. n + 1 \in 1 .. N /\ n + 1 \in 0 .. N /\ (n + 1) - 1 = n
        BY <2>2
      <3>2. exact[n + 1] = Add(exact[n], n + 1) /\ f[n + 1] = Add(f[n], n + 1)
        BY <1>4, <1>8, <3>1
      <3> QED
        BY <2>2, <3>1, <3>2
    <2> HIDE DEF I, N
    <2>3. \A n \in 0 .. N : n < N /\ n \in I => n + 1 \in I
      BY <2>2
    <2> QED
      BY <1>2, <2>1, <2>3, InductionUpTo
  <1>10. exact[N] = f[N]
    BY <1>2, <1>9
  <1> QED
    BY <1>4, <1>6, <1>10 DEF ExactLoop, Add

\* The sum is a Duration, and the exact length up to overflow.
LEMMA TotalIsExact ==
    ASSUME NEW macro, NEW S, macro.parts \in Seq(S), Timed(macro.parts)
    PROVE  /\ InDuration(totalDuration(macro.parts))
           /\ ExactOffset(macro) \in Int
           /\ Alike(totalDuration(macro.parts), ExactOffset(macro))
  <1> DEFINE parts == macro.parts
             N == Len(parts)
  <1>1. PICK total : TotalLoop(parts, total)
    BY TotalIterates
  <1>2. PICK exact : ExactLoop(macro, exact)
    BY ExactIterates
  <1>3. /\ total \in [0 .. N -> Int] /\ total[0] = 0 /\ totalDuration(parts) = total[N]
        /\ \A n \in 1 .. N : total[n] = Wrapped(total[n - 1] + Wrapped(partDuration(parts[n])))
    BY <1>1 DEF TotalLoop
  <1>4. /\ exact \in [0 .. N -> Int] /\ exact[0] = 0 /\ ExactOffset(macro) = exact[N]
        /\ \A n \in 1 .. N : exact[n] = exact[n - 1] + partDuration(parts[n])
    BY <1>2 DEF ExactLoop
  <1>5. N \in Nat /\ \A n \in 1 .. N : partDuration(parts[n]) \in Int
    BY DEF Timed
  <1> DEFINE I == {n \in 0 .. N : InDuration(total[n]) /\ Alike(total[n], exact[n])}
  <1> HIDE DEF parts, N
  <1>6. 0 \in I
    <2>1. InDuration(0) /\ Alike(0, 0)
      BY DurationRangeAssumption, AlikeRules DEF InDuration
    <2>2. 0 \in 0 .. N
      BY <1>5
    <2> QED
      BY <1>3, <1>4, <2>1, <2>2
  <1>7. ASSUME NEW n \in 0 .. N, n < N, n \in I PROVE n + 1 \in I
    <2> DEFINE t == total[n]
               e == exact[n]
               x == partDuration(parts[n + 1])
               y == Wrapped(x)
    <2>1. n + 1 \in 1 .. N /\ n + 1 \in 0 .. N /\ (n + 1) - 1 = n
      BY <1>5, <1>7
    <2>2. t \in Int /\ e \in Int /\ x \in Int
      BY <1>3, <1>4, <1>5, <2>1
    <2>3. total[n + 1] = Wrapped(t + y) /\ exact[n + 1] = e + x
      BY <1>3, <1>4, <2>1
    <2>4. Alike(t, e)
      BY <1>7
    <2> HIDE DEF t, e, x
    <2>5. InDuration(y) /\ y \in Int /\ Alike(y, x)
      BY <2>2, WrappedIs DEF InDuration
    <2> HIDE DEF y
    <2>6. t + y \in Int /\ e + x \in Int
      BY <2>2, <2>5
    <2>7. Alike(t + y, e + x)
      BY <2>2, <2>4, <2>5, AlikeRules
    <2> DEFINE w == Wrapped(t + y)
    <2>8. InDuration(w) /\ w \in Int /\ Alike(w, t + y)
      BY <2>6, WrappedIs DEF InDuration
    <2> HIDE DEF w
    <2>9. Alike(w, e + x)
      BY <2>6, <2>7, <2>8, AlikeRules
    <2>10. InDuration(total[n + 1]) /\ Alike(total[n + 1], exact[n + 1])
      BY <2>3, <2>8, <2>9 DEF w
    <2> QED
      BY <2>1, <2>10
  <1>8. \A n \in 0 .. N : n < N /\ n \in I => n + 1 \in I
    BY <1>7
  <1>9. \A n \in 0 .. N : n \in I
    <2> HIDE DEF I
    <2> QED
      BY <1>5, <1>6, <1>8, InductionUpTo
  <1>10. InDuration(total[N]) /\ Alike(total[N], exact[N]) /\ exact[N] \in Int
    BY <1>4, <1>5, <1>9
  <1> QED
    BY <1>3, <1>4, <1>10 DEF parts

\* An offset is what the parts before the last add up to, and the last.
LEMMA TotalOfLast ==
    ASSUME NEW S, NEW parts \in Seq(S), Timed(parts), Len(parts) > 0,
           NEW before, before = SubSeq(parts, 1, Len(parts) - 1)
    PROVE  /\ before \in Seq(S) /\ Timed(before)
           /\ totalDuration(parts) =
                 Wrapped(totalDuration(before) + Wrapped(partDuration(parts[Len(parts)])))
  <1> DEFINE N == Len(parts)
             K == N - 1
  <1>1. /\ N \in Nat /\ K \in Nat /\ before \in Seq(S) /\ Len(before) = K
        /\ \A i \in 1 .. K : before[i] = parts[i]
    <2>1. N \in Nat /\ K \in Nat
      OBVIOUS
    <2>2. \A i \in 1 .. K : parts[i] \in S
      BY <2>1
    <2>3. before = SubSeq(parts, 1, K)
      OBVIOUS
    <2> HIDE DEF K
    <2>4. before \in Seq(S)
      BY <2>1, <2>2, <2>3
    <2>5. Len(before) = K
      BY <2>1, <2>3
    <2>6. \A i \in 1 .. K : before[i] = parts[i]
      BY <2>1, <2>3
    <2> QED
      BY <2>1, <2>4, <2>5, <2>6
  <1>2. Timed(before)
    <2>1. \A i \in 1 .. K : i \in 1 .. N
      BY <1>1
    <2> QED
      BY <1>1, <2>1 DEF Timed
  <1>3. PICK total : TotalLoop(parts, total)
    BY TotalIterates
  <1>4. PICK short : TotalLoop(before, short)
    BY <1>1, <1>2, TotalIterates
  <1>5. /\ total[0] = 0 /\ totalDuration(parts) = total[N]
        /\ \A n \in 1 .. N : total[n] = Wrapped(total[n - 1] + Wrapped(partDuration(parts[n])))
    BY <1>3 DEF TotalLoop
  <1>6. /\ short[0] = 0 /\ totalDuration(before) = short[K]
        /\ \A n \in 1 .. K : short[n] = Wrapped(short[n - 1] + Wrapped(partDuration(before[n])))
    BY <1>1, <1>4 DEF TotalLoop
  <1> DEFINE I == {n \in 0 .. K : total[n] = short[n]}
  <1>7. \A n \in 0 .. K : n \in I
    <2>1. 0 \in I
      BY <1>1, <1>5, <1>6
    <2>2. ASSUME NEW n \in 0 .. K, n < K, n \in I PROVE n + 1 \in I
      <3>1. n + 1 \in 1 .. K /\ n + 1 \in 0 .. K /\ n + 1 \in 1 .. N /\ (n + 1) - 1 = n
        BY <1>1, <2>2
      <3>2. /\ total[n + 1] = Wrapped(total[n] + Wrapped(partDuration(parts[n + 1])))
            /\ short[n + 1] = Wrapped(short[n] + Wrapped(partDuration(before[n + 1])))
        BY <1>5, <1>6, <3>1
      <3>3. before[n + 1] = parts[n + 1] /\ total[n] = short[n]
        BY <1>1, <2>2, <3>1
      <3> QED
        BY <3>1, <3>2, <3>3
    <2>3. \A n \in 0 .. K : n < K /\ n \in I => n + 1 \in I
      BY <2>2
    <2> HIDE DEF I, K
    <2> QED
      BY <1>1, <2>1, <2>3, InductionUpTo
  <1>8. total[K] = short[K]
    BY <1>1, <1>7
  <1>9. N \in 1 .. N
    BY <1>1
  <1> QED
    BY <1>1, <1>2, <1>5, <1>6, <1>8, <1>9

\* An offset of one part.
LEMMA TotalOfOne ==
    ASSUME NEW part, partDuration(part) \in Int
    PROVE  /\ Timed(<<part>>) /\ <<part>> \in Seq({part})
           /\ totalDuration(<<part>>) = Wrapped(partDuration(part))
  <1> DEFINE parts == <<part>>
             x == partDuration(part)
             y == Wrapped(x)
  <1>1. parts \in Seq({part}) /\ Len(parts) = 1 /\ parts[1] = part
    OBVIOUS
  <1> HIDE DEF parts
  <1>2. Timed(parts)
    BY <1>1 DEF Timed
  <1>3. PICK total : TotalLoop(parts, total)
    BY <1>1, <1>2, TotalIterates
  <1>4. total[0] = 0 /\ totalDuration(parts) = total[1]
    BY <1>1, <1>3 DEF TotalLoop
  <1>5. total[1] = Wrapped(0 + y)
    <2>1. 1 \in 1 .. 1 /\ 1 - 1 = 0
      OBVIOUS
    <2> QED
      BY <1>1, <1>3, <1>4, <2>1 DEF TotalLoop
  <1>6. InDuration(y) /\ y \in Int
    BY WrappedIs DEF InDuration
  <1> HIDE DEF y, x
  <1>7. 0 + y = y
    BY <1>6
  <1>8. Wrapped(0 + y) = y
    BY <1>6, <1>7, WrappedSame
  <1> QED
    BY <1>1, <1>2, <1>4, <1>5, <1>8 DEF parts, y, x

-----------------------------------------------------------------------------
(* Macros. *)

\* A macro by its parts, and what it shows: the offset and the zone.
Macro(kind, sign, parts, zones) ==
    [form |-> "macro", kind |-> kind, sign |-> sign, parts |-> parts, zone |-> zones]

OffsetBy(sign, parts) ==
    IF sign = "-" THEN Wrapped(-totalDuration(parts)) ELSE totalDuration(parts)

ZoneIn(zones) ==
    IF zones = {} THEN FixedNowZone ELSE parseFixedTimezone(CHOOSE z \in zones : TRUE)

\* What resolveStringValue shows of a macro.
LEMMA MacroShows ==
    ASSUME NEW kind, NEW sign, NEW parts, NEW zones,
           OffsetBy(sign, parts) \in Int, ZoneIn(zones) \in Int
    PROVE  /\ Local(Macro(kind, sign, parts, zones)) = FixedNow + OffsetBy(sign, parts) + ZoneIn(zones)
           /\ Instant(Macro(kind, sign, parts, zones)) = FixedNow + OffsetBy(sign, parts)
  <1> DEFINE m == Macro("timestamp", sign, parts, zones)
             local == FixedNow + OffsetBy(sign, parts) + ZoneIn(zones)
  <1>1. [Macro(kind, sign, parts, zones) EXCEPT !.kind = "timestamp"] = m
    BY DEF Macro
  <1>2. m.form = "macro" /\ m.kind = "timestamp" /\ m.sign = sign /\ m.parts = parts /\ m.zone = zones
    BY DEF Macro
  <1> HIDE DEF m
  <1>3. isMacro(m) /\ parseOffset(m) = OffsetBy(sign, parts)
    BY <1>2 DEF isMacro, parseOffset, OffsetBy
  <1>4. resolveStringValue(m, "") = Rendered("timestamp", local, ZoneIn(zones))
    BY <1>2, <1>3 DEF resolveStringValue, ZoneIn
  <1>5. /\ resolveStringValue(m, "").local = local
        /\ resolveStringValue(m, "").zone = ZoneIn(zones)
    <2> DEFINE shown == resolveStringValue(m, "")
               zone == ZoneIn(zones)
    <2>1. shown = [form |-> "timestamp", local |-> local, zone |-> zone]
      BY <1>4 DEF Rendered
    <2> HIDE DEF shown, local, zone
    <2>2. shown.local = local /\ shown.zone = zone
      BY <2>1
    <2> QED
      BY <2>2 DEF shown, zone
  <1>6. FixedNow \in Int
    BY DEF FixedNow, minutesPerHour
  <1>7. local - ZoneIn(zones) = FixedNow + OffsetBy(sign, parts)
    BY <1>6
  <1> HIDE DEF local
  <1> QED
    BY <1>1, <1>5, <1>7 DEF Local, Instant, local

\* Every offset of known units is a Duration, like the sum of its parts or its negation.
LEMMA OffsetIs ==
    ASSUME NEW S, NEW parts \in Seq(S), Timed(parts), NEW sign
    PROVE  /\ InDuration(OffsetBy(sign, parts)) /\ OffsetBy(sign, parts) \in Int
           /\ InDuration(totalDuration(parts)) /\ totalDuration(parts) \in Int
           /\ sign = "-" => Alike(OffsetBy(sign, parts), -totalDuration(parts))
           /\ sign # "-" => OffsetBy(sign, parts) = totalDuration(parts)
  <1> DEFINE macro == [parts |-> parts]
             t == totalDuration(parts)
  <1>1. macro.parts = parts
    OBVIOUS
  <1> HIDE DEF macro
  <1>2. InDuration(t) /\ t \in Int /\ -t \in Int
    BY <1>1, TotalIsExact DEF InDuration
  <1> HIDE DEF t
  <1>3. InDuration(Wrapped(-t)) /\ Wrapped(-t) \in Int /\ Alike(Wrapped(-t), -t)
    BY <1>2, WrappedIs DEF InDuration
  <1>4. OffsetBy(sign, parts) = IF sign = "-" THEN Wrapped(-t) ELSE t
    BY DEF OffsetBy, t
  <1> QED
    BY <1>2, <1>3, <1>4 DEF t

\* A zone changes what an accepted macro shows and not its instant; opposite zones show
\* times on opposite sides of UTC.
LEMMA ZoneLawHolds ==
    ASSUME NEW kind, NEW sign, NEW S, NEW parts \in Seq(S), Timed(parts), NEW zones,
           zones \in SUBSET [sign : STRING, hours : Int, minutes : Int],
           IsFiniteSet(zones), Cardinality(zones) <= 1
    PROVE  ZoneLaw(Macro(kind, sign, parts, zones))
  <1> DEFINE macro == Macro(kind, sign, parts, zones)
             offset == OffsetBy(sign, parts)
  <1>1. offset \in Int
    BY OffsetIs
  <1>2. macro.zone = zones
    BY DEF Macro
  <1>3. FixedNow \in Int /\ FixedNowZone \in Int
    BY DEF FixedNow, FixedNowZone, minutesPerHour
  <1>4. ASSUME NEW zone \in zones
        PROVE  LET mirrored == [macro EXCEPT !.zone = {[zone EXCEPT !.sign = Opposite(zone.sign)]}]
               IN  /\ Instant(macro) = Instant([macro EXCEPT !.zone = {}])
                   /\ Local(macro) + Local(mirrored) = 2 * Instant(macro)
    <2> DEFINE opposite == [zone EXCEPT !.sign = Opposite(zone.sign)]
    <2>1. zones = {zone}
      <3>1. {zone} \in SUBSET zones /\ Cardinality({zone}) = 1
        BY FS_Singleton
      <3>2. Cardinality(zones) \in Nat
        BY FS_CardinalityType
      <3>3. Cardinality({zone}) <= Cardinality(zones)
        BY <3>1, FS_Subset
      <3>4. Cardinality({zone}) = Cardinality(zones)
        BY <3>1, <3>2, <3>3
      <3> QED
        BY <3>1, <3>4, FS_Subset
    <2>2. \A z : ZoneIn({z}) = parseFixedTimezone(z)
      <3> SUFFICES ASSUME NEW z PROVE ZoneIn({z}) = parseFixedTimezone(z)
        OBVIOUS
      <3>1. {z} # {} /\ (CHOOSE y \in {z} : TRUE) = z
        OBVIOUS
      <3> QED
        BY <3>1 DEF ZoneIn
    <2>3. zone \in [sign : STRING, hours : Int, minutes : Int]
      OBVIOUS
    <2>4. /\ zone.hours \in Int /\ zone.minutes \in Int
          /\ opposite.sign = Opposite(zone.sign)
          /\ opposite.hours = zone.hours /\ opposite.minutes = zone.minutes
      BY <2>3
    <2> HIDE DEF opposite
    <2>5. (zone.sign = "-") <=> ~(opposite.sign = "-")
      BY <2>4 DEF Opposite
    <2> DEFINE z == parseFixedTimezone(zone)
    <2>6. z \in Int /\ parseFixedTimezone(opposite) = -z
      BY <2>4, <2>5 DEF parseFixedTimezone, minutesPerHour
    <2>7. ZoneIn(zones) = z /\ ZoneIn({opposite}) = -z /\ ZoneIn({}) = FixedNowZone
      BY <2>1, <2>2, <2>6 DEF ZoneIn
    <2> HIDE DEF z
    <2>8. /\ Local(macro) = FixedNow + offset + z
          /\ Instant(macro) = FixedNow + offset
      BY <1>1, <2>6, <2>7, MacroShows
    <2>9. Local(Macro(kind, sign, parts, {opposite})) = FixedNow + offset + (-z)
      BY <1>1, <2>6, <2>7, MacroShows
    <2>10. Instant(Macro(kind, sign, parts, {})) = FixedNow + offset
      BY <1>1, <1>3, <2>7, MacroShows
    <2>11. /\ [macro EXCEPT !.zone = {opposite}] = Macro(kind, sign, parts, {opposite})
           /\ [macro EXCEPT !.zone = {}] = Macro(kind, sign, parts, {})
      <3>1. \A x : [macro EXCEPT !.zone = x] = Macro(kind, sign, parts, x)
        BY DEF Macro
      <3> HIDE DEF macro
      <3> QED
        BY <3>1, Zenon
    <2> HIDE DEF macro, offset
    <2>12. (FixedNow + offset + z) + (FixedNow + offset + (-z)) = 2 * (FixedNow + offset)
      BY <1>1, <1>3, <2>6
    <2>13. Local(macro) + Local([macro EXCEPT !.zone = {opposite}]) = 2 * Instant(macro)
      BY <2>8, <2>9, <2>11, <2>12
    <2>14. Instant(macro) = Instant([macro EXCEPT !.zone = {}])
      BY <2>8, <2>10, <2>11
    <2> QED
      BY <2>13, <2>14 DEF opposite
  <1> HIDE DEF macro
  <1>5. ZoneLaw(macro)
    BY <1>2, <1>4 DEF ZoneLaw
  <1> QED
    BY <1>5 DEF macro

\* A date is the day of the timestamp with its offset and zone, in a $date too.
LEMMA DateLawHolds ==
    ASSUME NEW kind, NEW sign, NEW parts, NEW zones,
           OffsetBy(sign, parts) \in Int, ZoneIn(zones) \in Int
    PROVE  DateLaw(Macro(kind, sign, parts, zones))
  <1> DEFINE macro == Macro(kind, sign, parts, zones)
             local == FixedNow + OffsetBy(sign, parts) + ZoneIn(zones)
             day == Midnight(local)
             plain == resolveStringValue(macro, "")
             dollar == resolveStringValue(macro, dollarDateKey)
  <1>1. FixedNow \in Int
    BY DEF FixedNow, minutesPerHour
  <1>2. local \in Int
    BY <1>1
  <1>3. Local(macro) = local
    BY MacroShows
  <1>4. /\ macro.form = "macro" /\ macro.kind = kind /\ macro.sign = sign
        /\ macro.parts = parts /\ macro.zone = zones
    BY DEF Macro
  <1> HIDE DEF macro
  <1>5. isMacro(macro) /\ parseOffset(macro) = OffsetBy(sign, parts)
    BY <1>4 DEF isMacro, parseOffset, OffsetBy
  <1>6. ASSUME kind = "date"
        PROVE  plain = Rendered("date", day, 0) /\ dollar = Rendered("rfc3339", day, 0)
    BY <1>4, <1>5, <1>6 DEF resolveStringValue, ZoneIn, dollarDateKey
  <1>7. day \in Int /\ local - day \in 0 .. minutesPerDay - 1
    <2> HIDE DEF local
    <2> DEFINE M == minutesPerDay
               k == local \div M
               r == local % M
    <2>1. M \in Nat /\ M > 0
      BY DEF minutesPerDay, hoursPerDay, minutesPerHour
    <2>2. day = k * M
      BY DEF Midnight
    <2> HIDE DEF M
    <2>3. r \in 0 .. M - 1 /\ k \in Int /\ local = M * k + r
      BY <1>2, <2>1
    <2> HIDE DEF k, r, day
    <2>4. M * k = k * M /\ k * M \in Int
      BY <2>1, <2>3
    <2>5. day \in Int /\ local - day = r
      BY <2>2, <2>3, <2>4
    <2> QED
      BY <2>3, <2>5 DEF M
  <1> HIDE DEF local, day, plain, dollar
  <1>8. ASSUME kind = "date"
        PROVE  plain.local = day /\ dollar.local = day /\ dollar.zone = 0
    <2>1. /\ plain = [form |-> "date", local |-> day, zone |-> 0]
          /\ dollar = [form |-> "rfc3339", local |-> day, zone |-> 0]
      BY <1>6, <1>8 DEF Rendered
    <2> QED
      BY <2>1
  <1>9. ASSUME kind = "date"
        PROVE  /\ dollar.local - dollar.zone = plain.local
               /\ Local(macro) - plain.local \in 0 .. minutesPerDay - 1
    BY <1>3, <1>7, <1>8, <1>9
  <1>10. DateLaw(macro)
    BY <1>4, <1>9 DEF DateLaw, plain, dollar
  <1> QED
    BY <1>10 DEF macro

\* Opposite offsets lie on opposite sides of the anchor and the parts of an offset add up,
\* whatever the partial sums do, if the sum is one that a Duration can hold.
LEMMA OffsetLawHolds ==
    ASSUME NEW kind, NEW sign, NEW S, NEW parts \in Seq(S), Timed(parts), NEW zones,
           ZoneIn(zones) \in Int
    PROVE  OffsetLaw(Macro(kind, sign, parts, zones))
  <1> DEFINE macro == Macro(kind, sign, parts, zones)
             n == Len(parts)
             distance(q) == Instant([macro EXCEPT !.parts = q]) - FixedNow
             mirrored == [macro EXCEPT !.sign = Opposite(macro.sign)]
             off(q) == OffsetBy(sign, q)
             t == totalDuration(parts)
  <1>1. FixedNow \in Int
    BY DEF FixedNow, minutesPerHour
  <1>2. macro.parts = parts /\ macro.sign = sign
    BY DEF Macro
  <1>3. ASSUME NEW R, NEW q \in Seq(R), Timed(q) PROVE distance(q) = off(q)
    <2>1. [macro EXCEPT !.parts = q] = Macro(kind, sign, q, zones)
      BY DEF Macro
    <2>2. off(q) \in Int
      BY <1>3, OffsetIs
    <2>3. Instant(Macro(kind, sign, q, zones)) = FixedNow + off(q)
      BY <2>2, MacroShows
    <2> HIDE DEF off, macro
    <2>4. Instant([macro EXCEPT !.parts = q]) = FixedNow + off(q)
      BY <2>1, <2>3
    <2> QED
      BY <1>1, <2>2, <2>4
  <1>4. ASSUME InRange(macro) PROVE Instant(macro) + Instant(mirrored) = 2 * FixedNow
    <2> DEFINE e == ExactOffset(macro)
               there == OffsetBy(sign, parts)
               back == OffsetBy(Opposite(sign), parts)
    <2>1. InDuration(t) /\ e \in Int /\ Alike(t, e)
      BY <1>2, TotalIsExact
    <2>2. InDuration(e) /\ InDuration(-e)
      BY <1>4, <2>1, DurationRangeAssumption DEF InRange, InDuration
    <2> HIDE DEF e
    <2>3. t = e
      BY <2>1, <2>2, AlikeUnique
    <2>4. Wrapped(-t) = -t /\ t \in Int
      BY <2>1, <2>2, <2>3, WrappedSame
    <2>5. (sign = "-") <=> ~(Opposite(sign) = "-")
      BY DEF Opposite
    <2>6. /\ there = IF sign = "-" THEN Wrapped(-t) ELSE t
          /\ back = IF Opposite(sign) = "-" THEN Wrapped(-t) ELSE t
      BY DEF OffsetBy
    <2>7. there \in Int /\ back \in Int
      BY OffsetIs
    <2>8. Instant(macro) = FixedNow + there
      BY <2>7, MacroShows
    <2>9. mirrored = Macro(kind, Opposite(sign), parts, zones)
      BY <1>2 DEF Macro
    <2>10. Instant(mirrored) = FixedNow + back
      BY <2>7, <2>9, MacroShows
    <2> HIDE DEF macro, mirrored, there, back, t
    <2>11. there + back = 0
      BY <2>4, <2>5, <2>6
    <2> QED
      BY <1>1, <2>7, <2>8, <2>10, <2>11
  <1>5. ASSUME n > 1
        PROVE  Wrapped(distance(parts) - distance(<<parts[n]>>)) = distance(SubSeq(parts, 1, n - 1))
    <2> DEFINE before == SubSeq(parts, 1, n - 1)
               last == <<parts[n]>>
               x == partDuration(parts[n])
               y == Wrapped(x)
               b == totalDuration(before)
               p == off(parts)
               q == off(before)
               r == off(last)
    <2>1. n \in Nat /\ n \in 1 .. n /\ n > 0
      BY <1>5
    <2>2. x \in Int
      BY <2>1 DEF Timed
    <2>3. /\ before \in Seq(S) /\ Timed(before)
          /\ t = Wrapped(b + y)
      BY <2>1, TotalOfLast
    <2>4. Timed(last) /\ last \in Seq({parts[n]}) /\ totalDuration(last) = y
      BY <2>2, TotalOfOne
    <2>5. distance(parts) = p /\ distance(last) = r /\ distance(before) = q
      BY <1>3, <2>3, <2>4
    <2>6. /\ p \in Int /\ t \in Int
          /\ sign = "-" => Alike(p, -t)
          /\ sign # "-" => p = t
      BY OffsetIs
    <2>7. /\ InDuration(q) /\ q \in Int /\ b \in Int
          /\ sign = "-" => Alike(q, -b)
          /\ sign # "-" => q = b
      BY <2>3, OffsetIs
    <2>8. /\ r \in Int /\ y \in Int
          /\ sign = "-" => Alike(r, -y)
          /\ sign # "-" => r = y
      BY <2>4, OffsetIs
    <2>9. Alike(t, b + y)
      <3> HIDE DEF b, y
      <3> QED
        BY <2>3, <2>7, <2>8, WrappedIs
    <2> HIDE DEF distance, off, before, last, x, y, b, p, q, r, t
    <2>10. Alike(p - r, q)
      <3>1. p - r \in Int /\ -t \in Int /\ -b \in Int /\ -y \in Int /\ -r \in Int /\ b + y \in Int
        BY <2>6, <2>7, <2>8
      <3>2. CASE sign # "-"
        <4>1. Alike(t + (-y), (b + y) + (-y))
          BY <2>6, <2>9, <3>1, AlikeRules
        <4>2. t + (-y) = p - r /\ (b + y) + (-y) = q
          BY <2>6, <2>7, <2>8, <3>2
        <4> QED
          BY <4>1, <4>2
      <3>3. CASE sign = "-"
        <4>1. Alike(-t, -(b + y)) /\ -(b + y) \in Int
          <5> DEFINE u == b + y
          <5>1. u \in Int /\ Alike(t, u)
            BY <2>9, <3>1
          <5> HIDE DEF u
          <5>2. Alike(-t, -u) /\ -u \in Int
            BY <2>6, <5>1, AlikeRules
          <5> QED
            BY <5>2 DEF u
        <4>2. Alike(p, -(b + y))
          BY <2>6, <3>1, <3>3, <4>1, AlikeRules
        <4>3. Alike(-r, -(-y)) /\ -(-y) \in Int
          BY <2>8, <3>1, <3>3, AlikeRules
        <4>4. Alike(p + (-r), -(b + y) + -(-y))
          BY <2>6, <3>1, <4>1, <4>2, <4>3, AlikeRules
        <4>5. p + (-r) = p - r /\ -(b + y) + -(-y) = -b
          BY <2>6, <2>7, <2>8
        <4>6. Alike(p - r, -b)
          BY <4>4, <4>5
        <4>7. Alike(-b, q)
          BY <2>7, <3>1, <3>3, AlikeRules
        <4> QED
          BY <2>7, <3>1, <4>6, <4>7, AlikeRules
      <3> QED
        BY <3>2, <3>3
    <2>11. p - r \in Int
      BY <2>6, <2>8
    <2>12. Wrapped(p - r) = q
      BY <2>7, <2>10, <2>11, WrappedSame
    <2> QED
      BY <2>5, <2>12 DEF before, last
  <1>6. ASSUME n = 1
        PROVE  distance(parts) = distance(<<[amount |-> partDuration(parts[1]), unit |-> "m"]>>)
    <2> DEFINE part == parts[1]
               x == partDuration(part)
               minutes == [amount |-> x, unit |-> "m"]
    <2>1. 1 \in 1 .. n
      BY <1>6
    <2>2. x \in Int
      BY <2>1 DEF Timed
    <2>3. parts = <<part>>
      BY <1>6
    <2> HIDE DEF x
    <2>4. partDuration(minutes) = x
      BY <2>2 DEF partDuration, unitDuration
    <2> HIDE DEF minutes, part
    <2>5. /\ Timed(<<part>>) /\ <<part>> \in Seq({part})
          /\ totalDuration(<<part>>) = Wrapped(x)
      BY <2>2, TotalOfOne DEF x
    <2>6. /\ Timed(<<minutes>>) /\ <<minutes>> \in Seq({minutes})
          /\ totalDuration(<<minutes>>) = Wrapped(x)
      BY <2>2, <2>4, TotalOfOne
    <2>7. off(<<part>>) = off(<<minutes>>)
      BY <2>5, <2>6 DEF OffsetBy
    <2>8. distance(<<part>>) = off(<<part>>) /\ distance(<<minutes>>) = off(<<minutes>>)
      BY <1>3, <2>5, <2>6
    <2> HIDE DEF distance, off
    <2> QED
      BY <2>3, <2>7, <2>8 DEF minutes, x, part
  <1> HIDE DEF macro
  <1>7. OffsetLaw(macro)
    BY <1>2, <1>4, <1>5, <1>6 DEF OffsetLaw
  <1> QED
    BY <1>7 DEF macro

\* The parts of an accepted offset have units that are known.
LEMMA AcceptedIsTimed ==
    ASSUME NEW macro \in Literal, ~parseOffsetFails(macro)
    PROVE  Timed(macro.parts)
  <1>1. macro.parts \in Seq([amount : Int, unit : STRING])
    BY DEF Literal
  <1>2. CASE macro.parts = <<>>
    <2>1. Len(macro.parts) = 0
      BY <1>2
    <2> QED
      BY <2>1 DEF Timed
  <1>3. CASE macro.parts # <<>>
    <2> SUFFICES ASSUME NEW i \in 1 .. Len(macro.parts)
                 PROVE  partDuration(macro.parts[i]) \in Int
      BY DEF Timed
    <2> DEFINE part == macro.parts[i]
    <2>1. i \in DOMAIN macro.parts /\ part.amount \in Int
      <3> DEFINE P == [amount : Int, unit : STRING]
                 parts == macro.parts
      <3>1. parts \in Seq(P)
        BY <1>1
      <3> HIDE DEF P, parts
      <3>2. DOMAIN parts = 1 .. Len(parts) /\ \A j \in 1 .. Len(parts) : parts[j] \in P
        BY <3>1
      <3>3. part \in P /\ i \in DOMAIN parts
        BY <3>2 DEF parts
      <3> QED
        BY <3>3 DEF P, parts
    <2>2. part.unit \in unitsOf(macro.kind)
      BY <1>3, <2>1 DEF parseOffsetFails
    <2>3. part.unit \in {"d", "h", "m"}
      BY <2>2 DEF unitsOf
    <2> HIDE DEF part
    <2>4. unitDuration[part.unit] \in Int
      BY <2>3 DEF unitDuration, minutesPerDay, hoursPerDay, minutesPerHour
    <2>5. part.amount * unitDuration[part.unit] \in Int
      BY <2>1, <2>4
    <2> QED
      BY <2>5 DEF partDuration, part
  <1> QED
    BY <1>2, <1>3

\* The zone of an accepted macro, or that of the anchor, is a number of minutes.
LEMMA ZoneIsInt ==
    ASSUME NEW zones, zones \in SUBSET [sign : STRING, hours : Int, minutes : Int]
    PROVE  ZoneIn(zones) \in Int
  <1>1. ASSUME NEW zone \in zones PROVE parseFixedTimezone(zone) \in Int
    <2>1. zone.hours \in Int /\ zone.minutes \in Int
      BY <1>1
    <2> QED
      BY <2>1 DEF parseFixedTimezone, minutesPerHour
  <1>2. zones # {} => (CHOOSE z \in zones : TRUE) \in zones
    OBVIOUS
  <1>3. FixedNowZone \in Int
    BY DEF FixedNowZone, minutesPerHour
  <1> QED
    BY <1>1, <1>2, <1>3 DEF ZoneIn

\* The laws of the calendar hold of every macro that it accepts.
LEMMA AcceptedMacroLaws ==
    ASSUME NEW macro \in Literal, isMacro(macro), ~parseMacroTokenFails(macro)
    PROVE  ZoneLaw(macro) /\ OffsetLaw(macro) /\ DateLaw(macro)
  <1> DEFINE kind == macro.kind
             sign == macro.sign
             parts == macro.parts
             zones == macro.zone
             P == [amount : Int, unit : STRING]
  <1>1. macro.form = "macro" /\ ~parseMacroSuffixFails(macro) /\ ~parseOffsetFails(macro)
    BY DEF parseMacroTokenFails, isMacro
  <1>2. macro = Macro(kind, sign, parts, zones)
    BY <1>1 DEF Literal, Macro
  <1>3. /\ parts \in Seq(P) /\ IsFiniteSet(zones)
        /\ zones \in SUBSET [sign : STRING, hours : Int, minutes : Int]
    BY DEF Literal
  <1>4. Timed(parts)
    BY <1>1, AcceptedIsTimed
  <1>5. Cardinality(zones) <= 1
    <2>1. Cardinality(zones) \in Nat /\ ~(Cardinality(zones) > 1)
      BY <1>1, <1>3, FS_CardinalityType DEF parseMacroSuffixFails
    <2> QED
      BY <2>1
  <1>6. ZoneIn(zones) \in Int
    BY <1>3, ZoneIsInt
  <1> HIDE DEF kind, sign, parts, zones, P
  <1>7. OffsetBy(sign, parts) \in Int
    BY <1>3, <1>4, OffsetIs
  <1> QED
    BY <1>2, <1>3, <1>4, <1>5, <1>6, <1>7, ZoneLawHolds, OffsetLawHolds, DateLawHolds

-----------------------------------------------------------------------------
(* The listing of the case files. *)

\* The order of paths is a total one: no path is before itself.
LEMMA BeforeIrreflexive ==
    ASSUME NEW p \in Seq(Nat)
    PROVE  ~Before(p, p)
  BY DEF Before

\* The place at which two paths part tells which is before the other.
LEMMA BeforeIf ==
    ASSUME NEW p, NEW q, NEW i \in 1 .. Len(q), i <= Len(p) + 1,
           \A j \in 1 .. i - 1 : p[j] = q[j], i <= Len(p) => p[i] < q[i]
    PROVE  Before(p, q)
  BY DEF Before

\* Of two paths one is before the other.
LEMMA BeforeTotal ==
    ASSUME NEW p \in Seq(Nat), NEW q \in Seq(Nat), p # q
    PROVE  Before(p, q) \/ Before(q, p)
  <1> DEFINE D == {i \in 1 .. Len(p) : i <= Len(q) /\ p[i] # q[i]}
  <1>1. /\ Len(p) \in Nat /\ DOMAIN p = 1 .. Len(p) /\ \A i \in 1 .. Len(p) : p[i] \in Nat
        /\ Len(q) \in Nat /\ DOMAIN q = 1 .. Len(q) /\ \A i \in 1 .. Len(q) : q[i] \in Nat
    OBVIOUS
  <1>2. CASE D # {}
    <2>1. D \in SUBSET Nat
      BY <1>1
    <2>2. PICK i \in D : \A j \in D : i <= j
      BY <1>2, <2>1, LeastMember
    <2>3. /\ i \in 1 .. Len(p) /\ i \in 1 .. Len(q) /\ p[i] # q[i] /\ i \in Nat
          /\ p[i] \in Nat /\ q[i] \in Nat /\ i <= Len(p) + 1 /\ i <= Len(q) + 1
      BY <1>1, <2>2
    <2>4. \A j \in 1 .. i - 1 : p[j] = q[j]
      <3> SUFFICES ASSUME NEW j \in 1 .. i - 1, p[j] # q[j] PROVE FALSE
        OBVIOUS
      <3>1. j \in D
        BY <1>1, <2>3
      <3> QED
        BY <2>2, <2>3, <3>1
    <2>5. CASE p[i] < q[i]
      BY <2>3, <2>4, <2>5, BeforeIf
    <2>6. CASE q[i] < p[i]
      <3>1. \A j \in 1 .. i - 1 : q[j] = p[j]
        BY <2>4
      <3> QED
        BY <2>3, <2>6, <3>1, BeforeIf
    <2> QED
      BY <2>3, <2>5, <2>6
  <1>3. CASE D = {} /\ Len(p) < Len(q)
    <2>1. \A j \in 1 .. Len(p) : p[j] = q[j]
      BY <1>1, <1>3
    <2>2. /\ Len(p) + 1 \in 1 .. Len(q) /\ (Len(p) + 1) - 1 = Len(p)
          /\ Len(p) + 1 <= Len(p) + 1 /\ ~(Len(p) + 1 <= Len(p))
      BY <1>1, <1>3
    <2>3. \A j \in 1 .. (Len(p) + 1) - 1 : p[j] = q[j]
      BY <2>1, <2>2
    <2> QED
      BY <2>2, <2>3 DEF Before
  <1>4. CASE D = {} /\ Len(q) < Len(p)
    <2>1. \A j \in 1 .. Len(q) : q[j] = p[j]
      BY <1>1, <1>4
    <2>2. /\ Len(q) + 1 \in 1 .. Len(p) /\ (Len(q) + 1) - 1 = Len(q)
          /\ Len(q) + 1 <= Len(q) + 1 /\ ~(Len(q) + 1 <= Len(q))
      BY <1>1, <1>4
    <2>3. \A j \in 1 .. (Len(q) + 1) - 1 : q[j] = p[j]
      BY <2>1, <2>2
    <2> QED
      BY <2>2, <2>3 DEF Before
  <1>5. CASE D = {} /\ Len(p) = Len(q)
    <2>1. \A j \in 1 .. Len(p) : p[j] = q[j]
      <3> SUFFICES ASSUME NEW j \in 1 .. Len(p), p[j] # q[j] PROVE FALSE
        OBVIOUS
      <3>1. j \in D
        BY <1>1, <1>5
      <3> QED
        BY <1>5, <3>1
    <2>2. p = q
      BY <1>1, <1>5, <2>1
    <2> QED
      BY <2>2
  <1> HIDE DEF D
  <1>6. Len(p) < Len(q) \/ Len(q) < Len(p) \/ Len(p) = Len(q)
    <2>1. Len(p) \in Nat /\ Len(q) \in Nat
      OBVIOUS
    <2> QED
      BY <2>1
  <1> QED
    BY <1>2, <1>3, <1>4, <1>5, <1>6

\* What is before a path is before those behind it.
LEMMA BeforeTransitive ==
    ASSUME NEW p \in Seq(Nat), NEW q \in Seq(Nat), NEW r \in Seq(Nat), Before(p, q), Before(q, r)
    PROVE  Before(p, r)
  <1>1. /\ Len(p) \in Nat /\ \A i \in 1 .. Len(p) : p[i] \in Nat
        /\ Len(q) \in Nat /\ \A i \in 1 .. Len(q) : q[i] \in Nat
        /\ Len(r) \in Nat /\ \A i \in 1 .. Len(r) : r[i] \in Nat
    OBVIOUS
  <1>2. PICK a \in 1 .. Len(q) : /\ a <= Len(p) + 1
                                 /\ \A j \in 1 .. a - 1 : p[j] = q[j]
                                 /\ a <= Len(p) => p[a] < q[a]
    BY DEF Before
  <1>3. PICK b \in 1 .. Len(r) : /\ b <= Len(q) + 1
                                 /\ \A j \in 1 .. b - 1 : q[j] = r[j]
                                 /\ b <= Len(q) => q[b] < r[b]
    BY DEF Before
  <1>4. /\ a \in Nat /\ a <= Len(q) /\ a <= Len(p) + 1 /\ 1 <= a /\ 1 <= b
        /\ b \in Nat /\ b <= Len(r) /\ b <= Len(q) + 1
        /\ Len(p) \in Nat /\ Len(q) \in Nat /\ Len(r) \in Nat
    BY <1>2, <1>3
  <1>5. CASE a < b
    <2>1. a \in 1 .. Len(r) /\ q[a] = r[a]
      BY <1>1, <1>3, <1>4, <1>5
    <2>2. \A j \in 1 .. a - 1 : p[j] = r[j]
      BY <1>2, <1>3, <1>4, <1>5
    <2>3. a <= Len(p) => p[a] < r[a]
      BY <1>2, <2>1
    <2> QED
      BY <1>2, <2>1, <2>2, <2>3 DEF Before
  <1>6. CASE b < a
    <2>1. b <= Len(p) /\ b <= Len(q) /\ p[b] = q[b] /\ q[b] < r[b]
      <3>1. b <= Len(p) /\ b <= Len(q) /\ b \in 1 .. a - 1
        BY <1>4, <1>6
      <3> QED
        BY <1>2, <1>3, <3>1
    <2>2. \A j \in 1 .. b - 1 : p[j] = r[j]
      BY <1>2, <1>3, <1>4, <1>6
    <2>3. b <= Len(p) + 1
      BY <1>1, <1>4, <2>1
    <2> QED
      BY <2>1, <2>2, <2>3 DEF Before
  <1>7. CASE a = b
    <2>1. \A j \in 1 .. b - 1 : p[j] = r[j]
      BY <1>2, <1>3, <1>7
    <2>2. b <= Len(p) + 1
      BY <1>2, <1>7
    <2>3. b <= Len(p) => p[b] < r[b]
      <3> SUFFICES ASSUME b <= Len(p) PROVE p[b] < r[b]
        OBVIOUS
      <3>1. p[b] < q[b] /\ q[b] < r[b]
        BY <1>1, <1>2, <1>3, <1>7
      <3>2. p[b] \in Nat /\ q[b] \in Nat /\ r[b] \in Nat
        BY <1>1, <1>2, <1>3, <1>7
      <3> QED
        BY <3>1, <3>2
    <2> QED
      BY <2>1, <2>2, <2>3 DEF Before
  <1> QED
    BY <1>4, <1>5, <1>6, <1>7

\* The string at i goes before the one at k: equal strings stay in their order.
GoesBefore(strings, i, k) ==
    Before(strings[i], strings[k]) \/ (strings[i] = strings[k] /\ i < k)

\* Every string has a place of its own, and the places are in order.
LEMMA PlacesOrder ==
    ASSUME NEW strings \in Seq(Seq(Nat)), NEW N, N = Len(strings)
    PROVE  /\ \A i \in 1 .. N : Place(strings, i) \in 1 .. N
           /\ \A i, k \in 1 .. N : GoesBefore(strings, i, k) => Place(strings, i) < Place(strings, k)
           /\ \A i, k \in 1 .. N : i # k => GoesBefore(strings, i, k) \/ GoesBefore(strings, k, i)
           /\ \A n \in 1 .. N : \E i \in 1 .. N : Place(strings, i) = n
  <1> DEFINE R(i, k) == GoesBefore(strings, i, k)
             UpTo(i) == {j \in 1 .. N : R(j, i) \/ j = i}
  <1>1. N \in Nat /\ DOMAIN strings = 1 .. N /\ \A i \in 1 .. N : strings[i] \in Seq(Nat)
    OBVIOUS
  <1>2. \A i \in 1 .. N : Place(strings, i) = Cardinality(UpTo(i))
    <2>1. ASSUME NEW i \in 1 .. N
          PROVE  {j \in DOMAIN strings : Before(strings[j], strings[i]) \/ (strings[j] = strings[i] /\ j <= i)}
                     = UpTo(i)
      BY <1>1 DEF GoesBefore
    <2> QED
      BY <2>1 DEF Place
  <1>3. ASSUME NEW i \in 1 .. N, NEW k \in 1 .. N, i # k PROVE R(i, k) \/ R(k, i)
    <2>1. CASE strings[i] = strings[k]
      BY <1>1, <1>3, <2>1 DEF GoesBefore
    <2>2. CASE strings[i] # strings[k]
      BY <1>1, <2>2, BeforeTotal DEF GoesBefore
    <2> QED
      BY <2>1, <2>2
  <1>4. ASSUME NEW i \in 1 .. N PROVE ~R(i, i)
    BY <1>1, BeforeIrreflexive DEF GoesBefore
  <1>5. ASSUME NEW i \in 1 .. N, NEW j \in 1 .. N, NEW k \in 1 .. N, R(i, j), R(j, k) PROVE R(i, k)
    <2>1. strings[i] \in Seq(Nat) /\ strings[j] \in Seq(Nat) /\ strings[k] \in Seq(Nat)
      BY <1>1
    <2>2. CASE Before(strings[i], strings[j]) /\ Before(strings[j], strings[k])
      BY <2>1, <2>2, BeforeTransitive DEF GoesBefore
    <2>3. CASE strings[i] = strings[j] \/ strings[j] = strings[k]
      BY <1>1, <1>5, <2>3 DEF GoesBefore
    <2> QED
      BY <1>5, <2>2, <2>3 DEF GoesBefore
  <1> HIDE DEF R
  <1>6. ASSUME NEW i \in 1 .. N
        PROVE  /\ IsFiniteSet(UpTo(i)) /\ Cardinality(UpTo(i)) \in 1 .. N
    <2>1. IsFiniteSet(1 .. N) /\ Cardinality(1 .. N) = N
      <3>1. N \in Int /\ 1 \in Int /\ N >= 1
        BY <1>1
      <3>2. IsFiniteSet(1 .. N) /\ Cardinality(1 .. N) = IF 1 > N THEN 0 ELSE N - 1 + 1
        BY <3>1, FS_Interval
      <3> QED
        BY <3>1, <3>2
    <2>2. UpTo(i) \in SUBSET (1 .. N) /\ i \in UpTo(i)
      OBVIOUS
    <2> HIDE DEF UpTo
    <2>3. IsFiniteSet(UpTo(i)) /\ Cardinality(UpTo(i)) <= N
      BY <2>1, <2>2, FS_Subset
    <2>4. Cardinality(UpTo(i)) \in Nat /\ Cardinality(UpTo(i)) # 0
      BY <2>2, <2>3, FS_CardinalityType, FS_EmptySet
    <2> QED
      BY <1>1, <2>3, <2>4
  <1>7. ASSUME NEW i \in 1 .. N, NEW k \in 1 .. N, R(i, k)
        PROVE  Cardinality(UpTo(i)) < Cardinality(UpTo(k))
    <2>1. UpTo(i) \in SUBSET UpTo(k)
      BY <1>5, <1>7
    <2>2. k \in UpTo(k) /\ k \notin UpTo(i)
      BY <1>4, <1>5, <1>7
    <2> HIDE DEF UpTo
    <2>3. /\ Cardinality(UpTo(i)) <= Cardinality(UpTo(k))
          /\ Cardinality(UpTo(k)) = Cardinality(UpTo(i)) => UpTo(k) = UpTo(i)
      BY <1>6, <2>1, FS_Subset
    <2>4. Cardinality(UpTo(k)) # Cardinality(UpTo(i))
      BY <2>2, <2>3
    <2>5. Cardinality(UpTo(k)) \in Nat /\ Cardinality(UpTo(i)) \in Nat
      BY <1>6, FS_CardinalityType
    <2> QED
      BY <2>3, <2>4, <2>5
  <1> DEFINE f == [i \in 1 .. N |-> Cardinality(UpTo(i))]
  <1>8. f \in Injection(1 .. N, 1 .. N)
    <2>1. f \in [1 .. N -> 1 .. N]
      BY <1>6
    <2>2. ASSUME NEW i \in 1 .. N, NEW k \in 1 .. N, i # k PROVE f[i] # f[k]
      <3>1. Cardinality(UpTo(i)) < Cardinality(UpTo(k)) \/ Cardinality(UpTo(k)) < Cardinality(UpTo(i))
        BY <1>3, <1>7, <2>2
      <3>2. Cardinality(UpTo(k)) \in 1 .. N /\ Cardinality(UpTo(i)) \in 1 .. N
        BY <1>6
      <3> QED
        BY <3>1, <3>2
    <2> HIDE DEF f
    <2> QED
      BY <2>1, <2>2 DEF Injection, IsInjective
  <1>9. f \in Surjection(1 .. N, 1 .. N)
    <2>1. IsFiniteSet(1 .. N)
      BY <1>1, FS_Interval
    <2> HIDE DEF f
    <2> QED
      BY <1>8, <2>1, FS_Injection
  <1>10. ASSUME NEW n \in 1 .. N PROVE \E i \in 1 .. N : Place(strings, i) = n
    <2>1. \E i \in 1 .. N : f[i] = n
      <3> HIDE DEF f
      <3> QED
        BY <1>9 DEF Surjection
    <2> QED
      BY <1>2, <2>1
  <1> HIDE DEF UpTo, f
  <1>11. \A i, k \in 1 .. N : GoesBefore(strings, i, k) => Place(strings, i) < Place(strings, k)
    BY <1>2, <1>7 DEF R
  <1>12. \A i \in 1 .. N : Place(strings, i) \in 1 .. N
    BY <1>2, <1>6
  <1>13. \A i, k \in 1 .. N : i # k => GoesBefore(strings, i, k) \/ GoesBefore(strings, k, i)
    BY <1>3 DEF R
  <1> QED
    BY <1>10, <1>11, <1>12, <1>13

\* Sorting keeps the strings and puts them in order.
LEMMA SortedIs ==
    ASSUME NEW C, C \subseteq Seq(Nat), NEW strings \in Seq(C)
    PROVE  /\ Sorted(strings) \in Seq(C)
           /\ Range(Sorted(strings)) = Range(strings)
           /\ \A k, l \in DOMAIN Sorted(strings) : k < l =>
                 \/ Before(Sorted(strings)[k], Sorted(strings)[l])
                 \/ Sorted(strings)[k] = Sorted(strings)[l]
  <1> DEFINE N == Len(strings)
             at(k) == CHOOSE i \in DOMAIN strings : Place(strings, i) = k
             sorted == Sorted(strings)
  <1>1. /\ N \in Nat /\ DOMAIN strings = 1 .. N /\ \A i \in 1 .. N : strings[i] \in C
        /\ strings \in Seq(Seq(Nat))
    OBVIOUS
  <1>2. /\ \A i \in 1 .. N : Place(strings, i) \in 1 .. N
        /\ \A i, k \in 1 .. N : GoesBefore(strings, i, k) => Place(strings, i) < Place(strings, k)
        /\ \A i, k \in 1 .. N : i # k => GoesBefore(strings, i, k) \/ GoesBefore(strings, k, i)
        /\ \A n \in 1 .. N : \E i \in 1 .. N : Place(strings, i) = n
    BY <1>1, PlacesOrder
  <1>3. ASSUME NEW k \in 1 .. N PROVE at(k) \in 1 .. N /\ Place(strings, at(k)) = k
    BY <1>1, <1>2, Zenon
  <1> HIDE DEF at
  <1>4. sorted = [k \in 1 .. N |-> strings[at(k)]]
    BY <1>1 DEF Sorted, at
  <1> HIDE DEF sorted, N
  <1>5. \A k \in 1 .. N : sorted[k] = strings[at(k)] /\ sorted[k] \in C
    BY <1>1, <1>3, <1>4
  <1>6. sorted \in Seq(C) /\ DOMAIN sorted = 1 .. N
    <2>1. sorted \in [1 .. N -> C]
      BY <1>4, <1>5
    <2> QED
      BY <1>1, <2>1
  <1>7. ASSUME NEW i \in 1 .. N PROVE \E k \in 1 .. N : sorted[k] = strings[i]
    <2> DEFINE k == Place(strings, i)
    <2>1. k \in 1 .. N
      BY <1>2
    <2>2. at(k) \in 1 .. N /\ Place(strings, at(k)) = Place(strings, i)
      BY <1>3, <2>1
    <2>3. at(k) = i
      <3> SUFFICES ASSUME at(k) # i PROVE FALSE
        OBVIOUS
      <3>1. Place(strings, at(k)) < Place(strings, i) \/ Place(strings, i) < Place(strings, at(k))
        BY <1>2, <2>2
      <3>2. Place(strings, i) \in Int
        BY <1>2
      <3> QED
        BY <2>2, <3>1, <3>2
    <2> QED
      BY <1>5, <2>1, <2>3
  <1>8. Range(sorted) = Range(strings)
    <2>1. \A x \in Range(sorted) : x \in Range(strings)
      BY <1>1, <1>3, <1>5, <1>6 DEF Range
    <2>2. \A x \in Range(strings) : x \in Range(sorted)
      BY <1>1, <1>6, <1>7 DEF Range
    <2> QED
      BY <2>1, <2>2
  <1>9. ASSUME NEW k \in 1 .. N, NEW l \in 1 .. N, k < l
        PROVE  Before(sorted[k], sorted[l]) \/ sorted[k] = sorted[l]
    <2>1. Place(strings, at(k)) = k /\ Place(strings, at(l)) = l
      BY <1>3
    <2>2. at(k) # at(l)
      BY <1>9, <2>1
    <2>3. ~GoesBefore(strings, at(l), at(k))
      <3> SUFFICES ASSUME GoesBefore(strings, at(l), at(k)) PROVE FALSE
        OBVIOUS
      <3>1. Place(strings, at(l)) < Place(strings, at(k))
        BY <1>2, <1>3
      <3>2. k \in Int /\ l \in Int
        BY <1>1
      <3> QED
        BY <1>9, <2>1, <3>1, <3>2
    <2>4. GoesBefore(strings, at(k), at(l))
      BY <1>2, <1>3, <2>2, <2>3
    <2> QED
      BY <1>5, <2>4 DEF GoesBefore
  <1> QED
    BY <1>6, <1>8, <1>9 DEF sorted

\* The paths of case files.
JsoncPaths == {path \in Seq(Nat) : IsJsonc(path)}

\* The elements of two sequences one after the other.
LEMMA ConcatIs ==
    ASSUME NEW S, NEW s \in Seq(S), NEW t \in Seq(S)
    PROVE  /\ s \o t \in Seq(S) /\ Len(s \o t) = Len(s) + Len(t)
           /\ Len(s) \in Nat /\ Len(t) \in Nat
           /\ \A i \in 1 .. Len(s) : (s \o t)[i] = s[i]
           /\ \A i \in 1 .. Len(t) : (s \o t)[Len(s) + i] = t[i]
           /\ Range(s \o t) = Range(s) \cup Range(t)
  <1>1. /\ s \o t \in Seq(S) /\ Len(s \o t) = Len(s) + Len(t)
        /\ Len(s) \in Nat /\ Len(t) \in Nat
        /\ DOMAIN s = 1 .. Len(s) /\ DOMAIN t = 1 .. Len(t)
    OBVIOUS
  <1>2. DOMAIN (s \o t) = 1 .. Len(s) + Len(t)
    BY <1>1
  <1>3. \A i \in 1 .. Len(s) + Len(t) : (s \o t)[i] = IF i <= Len(s) THEN s[i] ELSE t[i - Len(s)]
    OBVIOUS
  <1>4. ASSUME NEW i \in 1 .. Len(s) PROVE (s \o t)[i] = s[i] /\ i \in 1 .. Len(s) + Len(t)
    BY <1>1, <1>3
  <1>5. ASSUME NEW i \in 1 .. Len(t)
        PROVE  (s \o t)[Len(s) + i] = t[i] /\ Len(s) + i \in 1 .. Len(s) + Len(t)
    <2>1. Len(s) + i \in 1 .. Len(s) + Len(t) /\ ~(Len(s) + i <= Len(s)) /\ (Len(s) + i) - Len(s) = i
      BY <1>1
    <2> QED
      BY <1>3, <2>1
  <1>6. ASSUME NEW i \in 1 .. Len(s) + Len(t)
        PROVE  (s \o t)[i] \in Range(s) \cup Range(t)
    <2>1. CASE i <= Len(s)
      BY <1>1, <1>3, <2>1 DEF Range
    <2>2. CASE ~(i <= Len(s))
      <3>1. i - Len(s) \in DOMAIN t
        BY <1>1, <2>2
      <3> QED
        BY <1>3, <2>2, <3>1 DEF Range
    <2> QED
      BY <2>1, <2>2
  <1>7. \A x \in Range(s \o t) : x \in Range(s) \cup Range(t)
    BY <1>2, <1>6 DEF Range
  <1>8. \A x \in Range(s) : x \in Range(s \o t)
    BY <1>1, <1>2, <1>4 DEF Range
  <1>9. \A x \in Range(t) : x \in Range(s \o t)
    BY <1>1, <1>2, <1>5 DEF Range
  <1>10. Range(s \o t) = Range(s) \cup Range(t)
    BY <1>7, <1>8, <1>9
  <1> QED
    BY <1>1, <1>4, <1>5, <1>10

\* The path of an entry is longer than that of its directory, and has the extension of its name.
LEMMA JoinIs ==
    ASSUME NEW dir \in Seq(Nat), NEW name \in Seq(Nat)
    PROVE  /\ Join(dir, name) \in Seq(Nat)
           /\ Len(dir) < Len(Join(dir, name))
           /\ IsJsonc(Join(dir, name)) <=> IsJsonc(name)
  <1> DEFINE p == Join(dir, name)
             head == dir \o <<Separator>>
  <1>1. /\ Dot = 1 /\ Separator = 2 /\ JsoncExtension = 9
    BY DEF Dot, Separator, JsoncExtension
  <1>2. /\ head \in Seq(Nat) /\ Len(head) = Len(dir) + 1 /\ head[Len(head)] = 2
    BY <1>1
  <1>3. p = head \o name
    BY DEF Join
  <1> HIDE DEF head, p
  <1>4. /\ p \in Seq(Nat) /\ Len(p) = Len(head) + Len(name)
        /\ \A i \in 1 .. Len(head) : p[i] = head[i]
        /\ \A i \in 1 .. Len(name) : p[Len(head) + i] = name[i]
    <2> DEFINE N == Nat
    <2>1. head \in Seq(N) /\ name \in Seq(N)
      BY <1>2
    <2>2. /\ head \o name \in Seq(N) /\ Len(head \o name) = Len(head) + Len(name)
          /\ \A i \in 1 .. Len(head) : (head \o name)[i] = head[i]
          /\ \A i \in 1 .. Len(name) : (head \o name)[Len(head) + i] = name[i]
      <3> HIDE DEF N
      <3> QED
        BY <2>1, ConcatIs
    <2> QED
      BY <1>3, <2>2, Zenon
  <1>5. Len(dir) \in Nat /\ Len(name) \in Nat /\ Len(head) \in Nat
    BY <1>2
  <1>6. CASE Len(name) = 0
    <2>1. p[Len(p)] = 2
      BY <1>2, <1>4, <1>5, <1>6
    <2> QED
      BY <1>1, <1>2, <1>4, <1>5, <1>6, <2>1 DEF IsJsonc, p
  <1>7. CASE Len(name) = 1
    <2>1. p[Len(p) - 1] = 2
      <3>1. Len(p) - 1 = Len(head) /\ Len(head) \in 1 .. Len(head)
        BY <1>2, <1>4, <1>5, <1>7
      <3> QED
        BY <1>2, <1>4, <3>1
    <2> QED
      BY <1>1, <1>2, <1>4, <1>5, <1>7, <2>1 DEF IsJsonc, p
  <1>8. CASE Len(name) >= 2
    <2> DEFINE n == Len(name)
    <2>1. /\ n \in 1 .. Len(name) /\ n - 1 \in 1 .. Len(name)
          /\ Len(head) + n = Len(p) /\ Len(head) + (n - 1) = Len(p) - 1
      BY <1>4, <1>5, <1>8
    <2>2. p[Len(p)] = name[Len(name)] /\ p[Len(p) - 1] = name[Len(name) - 1]
      BY <1>4, <2>1
    <2>3. Len(p) >= 2
      BY <1>4, <1>5, <1>8
    <2> QED
      BY <1>2, <1>4, <1>5, <1>8, <2>2, <2>3 DEF IsJsonc, p
  <1>9. Len(name) = 0 \/ Len(name) = 1 \/ Len(name) >= 2
    <2>1. \A n \in Nat : n = 0 \/ n = 1 \/ n >= 2
      OBVIOUS
    <2>2. Len(name) \in Nat
      BY <1>5
    <2> QED
      BY <2>1, <2>2, Zenon
  <1> QED
    BY <1>6, <1>7, <1>8, <1>9

\* The entries of a directory, and the paths of the directories among them.
Entries(s, dir) == s.dirs[dir].entries

NestedDirs(s, dir) ==
    {Join(dir, entry.name) : entry \in {e \in Range(Entries(s, dir)) : e.isDir}}

\* What the paths of a tree are.
LEMMA TreeIs ==
    ASSUME NEW s, IsTree(s), NEW dir \in DOMAIN s.dirs
    PROVE  /\ dir \in Seq(Nat)
           /\ Entries(s, dir) \in Seq([name : Seq(Nat), isDir : BOOLEAN])
           /\ \A entry \in Range(Entries(s, dir)) :
                 /\ entry.isDir \in BOOLEAN
                 /\ Join(dir, entry.name) \in Seq(Nat)
                 /\ Len(dir) < Len(Join(dir, entry.name))
                 /\ IsJsonc(Join(dir, entry.name)) <=> IsJsonc(entry.name)
           /\ \A nested \in NestedDirs(s, dir) : nested \in DOMAIN s.dirs /\ Len(dir) < Len(nested)
  <1>1. /\ dir \in Seq(Nat)
        /\ Entries(s, dir) \in Seq([name : Seq(Nat), isDir : BOOLEAN])
        /\ \A entry \in Range(Entries(s, dir)) : entry.isDir => Join(dir, entry.name) \in DOMAIN s.dirs
    BY DEF IsTree, Entries
  <1>2. ASSUME NEW entry \in Range(Entries(s, dir))
        PROVE  /\ entry.isDir \in BOOLEAN
               /\ Join(dir, entry.name) \in Seq(Nat)
               /\ Len(dir) < Len(Join(dir, entry.name))
               /\ IsJsonc(Join(dir, entry.name)) <=> IsJsonc(entry.name)
    <2>1. entry \in [name : Seq(Nat), isDir : BOOLEAN]
      <3> DEFINE R == [name : Seq(Nat), isDir : BOOLEAN]
      <3>1. Entries(s, dir) \in Seq(R)
        BY <1>1
      <3> HIDE DEF R
      <3>2. \A i \in DOMAIN Entries(s, dir) : Entries(s, dir)[i] \in R
        BY <3>1
      <3>3. entry \in R
        BY <3>2 DEF Range
      <3> QED
        BY <3>3 DEF R
    <2>2. entry.name \in Seq(Nat) /\ entry.isDir \in BOOLEAN
      BY <2>1
    <2> QED
      BY <1>1, <2>2, JoinIs
  <1>3. ASSUME NEW nested \in NestedDirs(s, dir)
        PROVE  nested \in DOMAIN s.dirs /\ Len(dir) < Len(nested)
    <2>1. PICK entry \in Range(Entries(s, dir)) : entry.isDir /\ nested = Join(dir, entry.name)
      BY DEF NestedDirs
    <2> QED
      BY <1>1, <1>2, <2>1
  <1> QED
    BY <1>1, <1>2, <1>3

\* The loop over the entries of a directory, entry by entry.
EntriesLoop(s, dir, nestedPaths, casePaths) ==
    LET N == Len(Entries(s, dir))
    IN  /\ casePaths \in [0 .. N -> Seq(JsoncPaths)]
        /\ casePaths[0] = <<>>
        /\ \A n \in 1 .. N :
              casePaths[n] = casePaths[n - 1] \o entryPaths(dir, Entries(s, dir)[n], nestedPaths)
        /\ casePathsOf(dir, Entries(s, dir), nestedPaths) = casePaths[N]

\* The case paths of the directories in a directory are known.
NestedKnown(s, dir, nestedPaths) ==
    \A nested \in NestedDirs(s, dir) : nestedPaths[nested] \in Seq(JsoncPaths)

\* What one entry adds.
LEMMA EntryPathsTypes ==
    ASSUME NEW s, IsTree(s), NEW dir \in DOMAIN s.dirs, NEW nestedPaths,
           NestedKnown(s, dir, nestedPaths), NEW n \in 1 .. Len(Entries(s, dir))
    PROVE  entryPaths(dir, Entries(s, dir)[n], nestedPaths) \in Seq(JsoncPaths)
  <1> DEFINE entry == Entries(s, dir)[n]
  <1>1. entry \in Range(Entries(s, dir))
    <2>1. Entries(s, dir) \in Seq([name : Seq(Nat), isDir : BOOLEAN])
      BY TreeIs
    <2> QED
      BY <2>1 DEF Range
  <1> HIDE DEF entry
  <1>2. /\ entry.isDir \in BOOLEAN
        /\ Join(dir, entry.name) \in Seq(Nat)
        /\ IsJsonc(Join(dir, entry.name)) <=> IsJsonc(entry.name)
    BY <1>1, TreeIs
  <1>3. CASE entry.isDir
    <2>1. Join(dir, entry.name) \in NestedDirs(s, dir)
      BY <1>1, <1>3 DEF NestedDirs
    <2> QED
      BY <1>3, <2>1 DEF entryPaths, NestedKnown, entry
  <1>4. CASE ~entry.isDir /\ IsJsonc(entry.name)
    <2>1. Join(dir, entry.name) \in JsoncPaths
      BY <1>2, <1>4 DEF JsoncPaths
    <2>2. <<Join(dir, entry.name)>> \in Seq(JsoncPaths)
      BY <2>1
    <2> QED
      BY <1>4, <2>2 DEF entryPaths, entry
  <1>5. CASE ~entry.isDir /\ ~IsJsonc(entry.name)
    <2>1. <<>> \in Seq(JsoncPaths)
      OBVIOUS
    <2> QED
      BY <1>5, <2>1 DEF entryPaths, entry
  <1> QED
    BY <1>2, <1>3, <1>4, <1>5

\* What casePathsOf computes.
LEMMA EntriesIterate ==
    ASSUME NEW s, IsTree(s), NEW dir \in DOMAIN s.dirs, NEW nestedPaths,
           NestedKnown(s, dir, nestedPaths)
    PROVE  \E casePaths : EntriesLoop(s, dir, nestedPaths, casePaths)
  <1> DEFINE entries == Entries(s, dir)
             N == Len(entries)
             T == Seq(JsoncPaths)
             add(n) == entryPaths(dir, entries[n], nestedPaths)
             Loop(f) == [n \in 0 .. N |-> IF n = 0 THEN <<>> ELSE f[n - 1] \o add(n)]
             step == [n \in 1 .. N |-> [f \in T |-> f \o add(n)]]
  <1>1. \A n \in 1 .. N : add(n) \in T
    BY EntryPathsTypes
  <1>2. N \in Nat /\ <<>> \in T
    BY TreeIs
  <1> HIDE DEF entries, add
  <1>3. step \in StepMaps(N, T)
    <2>1. ASSUME NEW n \in 1 .. N, NEW f \in T PROVE f \o add(n) \in T
      BY <1>1
    <2> HIDE DEF T, N
    <2> QED
      BY <2>1 DEF StepMaps
  <1>4. PICK f : MadeBySteps(f, N, T, <<>>, step)
    <2> HIDE DEF step, N, T
    <2> QED
      BY <1>2, <1>3, StepwiseFunction
  <1>5. /\ f \in [0 .. N -> T] /\ f[0] = <<>>
        /\ \A n \in 1 .. N : f[n] = f[n - 1] \o add(n)
    <2>1. /\ f \in [0 .. N -> T] /\ f[0] = <<>>
          /\ \A n \in 1 .. N : f[n] = step[n][f[n - 1]]
      BY <1>4 DEF MadeBySteps
    <2>2. ASSUME NEW n \in 1 .. N
          PROVE  step[n][f[n - 1]] = f[n - 1] \o add(n)
      <3>1. n - 1 \in 0 .. N
        BY <1>2
      <3> HIDE DEF T, N
      <3>2. f[n - 1] \in T
        BY <2>1, <3>1
      <3> QED
        BY <3>2
    <2> QED
      BY <2>1, <2>2
  <1>6. f = Loop(f)
    BY <1>2, <1>5
  <1> DEFINE casePaths == CHOOSE g : g = Loop(g)
  <1>7. casePathsOf(dir, entries, nestedPaths) = casePaths[N]
    BY DEF casePathsOf, add
  <1>8. casePaths = Loop(casePaths)
    <2> HIDE DEF Loop
    <2> QED
      BY <1>6, Zenon
  <1> HIDE DEF casePaths
  <1>9. casePaths[0] = <<>> /\ \A n \in 1 .. N : casePaths[n] = casePaths[n - 1] \o add(n)
    <2>1. 0 \in 0 .. N /\ \A n \in 1 .. N : n \in 0 .. N /\ n # 0
      BY <1>2
    <2> HIDE DEF N
    <2> QED
      BY <1>8, <2>1
  <1> DEFINE I == {n \in 0 .. N : casePaths[n] = f[n]}
  <1>10. \A n \in 0 .. N : n \in I
    <2>1. 0 \in I
      BY <1>2, <1>5, <1>9
    <2>2. ASSUME NEW n \in 0 .. N, n < N, n \in I PROVE n + 1 \in I
      <3>1. n + 1 \in 1 .. N /\ n + 1 \in 0 .. N /\ (n + 1) - 1 = n
        BY <1>2, <2>2
      <3>2. casePaths[n + 1] = casePaths[n] \o add(n + 1) /\ f[n + 1] = f[n] \o add(n + 1)
        BY <1>5, <1>9, <3>1
      <3> QED
        BY <2>2, <3>1, <3>2
    <2> HIDE DEF I, N
    <2>3. \A n \in 0 .. N : n < N /\ n \in I => n + 1 \in I
      BY <2>2
    <2> QED
      BY <1>2, <2>1, <2>3, InductionUpTo
  <1>11. casePaths[N] = f[N]
    BY <1>2, <1>10
  <1> QED
    BY <1>5, <1>7, <1>11 DEF EntriesLoop, entries, add

\* It collects what every entry adds.
LEMMA CollectedHas ==
    ASSUME NEW s, IsTree(s), NEW dir \in DOMAIN s.dirs, NEW nestedPaths,
           NestedKnown(s, dir, nestedPaths)
    PROVE  /\ casePathsOf(dir, Entries(s, dir), nestedPaths) \in Seq(JsoncPaths)
           /\ \A n \in 1 .. Len(Entries(s, dir)) :
                 Range(entryPaths(dir, Entries(s, dir)[n], nestedPaths))
                     \subseteq Range(casePathsOf(dir, Entries(s, dir), nestedPaths))
  <1> DEFINE N == Len(Entries(s, dir))
             T == Seq(JsoncPaths)
             add(n) == entryPaths(dir, Entries(s, dir)[n], nestedPaths)
             all == casePathsOf(dir, Entries(s, dir), nestedPaths)
  <1>1. PICK f : EntriesLoop(s, dir, nestedPaths, f)
    BY EntriesIterate
  <1>2. /\ f \in [0 .. N -> T] /\ all = f[N]
        /\ \A n \in 1 .. N : f[n] = f[n - 1] \o add(n)
    BY <1>1 DEF EntriesLoop
  <1>3. N \in Nat
    BY TreeIs
  <1>4. \A n \in 1 .. N : add(n) \in T
    BY EntryPathsTypes
  <1> HIDE DEF N, T, add, all
  <1>5. all \in T
    BY <1>2, <1>3
  <1>6. ASSUME NEW n \in 1 .. N PROVE Range(f[n]) = Range(f[n - 1]) \cup Range(add(n))
    <2>1. n - 1 \in 0 .. N
      BY <1>3
    <2>2. f[n - 1] \in T /\ add(n) \in T
      BY <1>2, <1>4, <2>1
    <2>3. Range(f[n - 1] \o add(n)) = Range(f[n - 1]) \cup Range(add(n))
      BY <2>2, ConcatIs DEF T
    <2> QED
      BY <1>2, <2>3
  <1> DEFINE I == {n \in 0 .. N : \A m \in 1 .. n : Range(add(m)) \subseteq Range(f[n])}
  <1>7. \A n \in 0 .. N : n \in I
    <2>1. 0 \in I
      BY <1>3
    <2>2. ASSUME NEW n \in 0 .. N, n < N, n \in I PROVE n + 1 \in I
      <3>1. n + 1 \in 1 .. N /\ n + 1 \in 0 .. N /\ (n + 1) - 1 = n
        BY <1>3, <2>2
      <3>2. Range(f[n + 1]) = Range(f[n]) \cup Range(add(n + 1))
        BY <1>6, <3>1
      <3>3. ASSUME NEW m \in 1 .. n + 1 PROVE Range(add(m)) \subseteq Range(f[n + 1])
        <4>1. m \in 1 .. n \/ m = n + 1
          BY <1>3
        <4> QED
          BY <2>2, <3>2, <4>1
      <3> QED
        BY <3>1, <3>3
    <2> HIDE DEF I
    <2>3. \A n \in 0 .. N : n < N /\ n \in I => n + 1 \in I
      BY <2>2
    <2> QED
      BY <1>3, <2>1, <2>3, InductionUpTo
  <1>8. \A n \in 1 .. N : Range(add(n)) \subseteq Range(all)
    <2>1. N \in 0 .. N
      BY <1>3
    <2> QED
      BY <1>2, <1>7, <2>1
  <1> QED
    BY <1>5, <1>8 DEF N, T, add, all

\* It depends on the paths of the directories among the entries and on nothing else.
LEMMA CollectedDepends ==
    ASSUME NEW s, IsTree(s), NEW dir \in DOMAIN s.dirs, NEW nestedPaths, NEW otherPaths,
           NestedKnown(s, dir, nestedPaths),
           \A nested \in NestedDirs(s, dir) : nestedPaths[nested] = otherPaths[nested]
    PROVE  casePathsOf(dir, Entries(s, dir), nestedPaths) = casePathsOf(dir, Entries(s, dir), otherPaths)
  <1> DEFINE N == Len(Entries(s, dir))
             add(n) == entryPaths(dir, Entries(s, dir)[n], nestedPaths)
             other(n) == entryPaths(dir, Entries(s, dir)[n], otherPaths)
  <1>1. PICK f : EntriesLoop(s, dir, nestedPaths, f)
    BY EntriesIterate
  <1>2. NestedKnown(s, dir, otherPaths)
    BY DEF NestedKnown
  <1>3. PICK g : EntriesLoop(s, dir, otherPaths, g)
    BY <1>2, EntriesIterate
  <1>4. N \in Nat /\ Entries(s, dir) \in Seq([name : Seq(Nat), isDir : BOOLEAN])
    BY TreeIs
  <1>5. ASSUME NEW n \in 1 .. N PROVE add(n) = other(n)
    <2> DEFINE entry == Entries(s, dir)[n]
    <2>1. entry \in Range(Entries(s, dir))
      BY <1>4 DEF Range
    <2>2. entry.isDir => Join(dir, entry.name) \in NestedDirs(s, dir)
      BY <2>1 DEF NestedDirs
    <2> QED
      BY <2>2 DEF entryPaths
  <1>6. /\ f[0] = <<>> /\ \A n \in 1 .. N : f[n] = f[n - 1] \o add(n)
        /\ casePathsOf(dir, Entries(s, dir), nestedPaths) = f[N]
    BY <1>1 DEF EntriesLoop
  <1>7. /\ g[0] = <<>> /\ \A n \in 1 .. N : g[n] = g[n - 1] \o other(n)
        /\ casePathsOf(dir, Entries(s, dir), otherPaths) = g[N]
    BY <1>3 DEF EntriesLoop
  <1> HIDE DEF N, add, other
  <1> DEFINE I == {n \in 0 .. N : f[n] = g[n]}
  <1>8. \A n \in 0 .. N : n \in I
    <2>1. 0 \in I
      BY <1>4, <1>6, <1>7
    <2>2. ASSUME NEW n \in 0 .. N, n < N, n \in I PROVE n + 1 \in I
      <3>1. n + 1 \in 1 .. N /\ n + 1 \in 0 .. N /\ (n + 1) - 1 = n
        BY <1>4, <2>2
      <3>2. f[n + 1] = f[n] \o add(n + 1) /\ g[n + 1] = g[n] \o other(n + 1)
        BY <1>6, <1>7, <3>1
      <3> QED
        BY <1>5, <2>2, <3>1, <3>2
    <2> HIDE DEF I
    <2>3. \A n \in 0 .. N : n < N /\ n \in I => n + 1 \in I
      BY <2>2
    <2> QED
      BY <1>4, <2>1, <2>3, InductionUpTo
  <1> QED
    <2>1. N \in 0 .. N
      BY <1>4
    <2> QED
      BY <1>6, <1>7, <1>8, <2>1

\* The lengths of finitely many paths have a bound.
LEMMA LengthsBounded ==
    ASSUME NEW D, IsFiniteSet(D), D \subseteq Seq(Nat)
    PROVE  \E B \in Nat : \A d \in D : Len(d) <= B
  <1> DEFINE N == Cardinality(D)
  <1>1. PICK f : f \in Bijection(1 .. N, D)
    BY FS_CardinalityType DEF ExistsBijection
  <1>2. N \in Nat /\ f \in [1 .. N -> D] /\ \A d \in D : \E i \in 1 .. N : f[i] = d
    BY <1>1, FS_CardinalityType DEF Bijection, Surjection, Injection
  <1> HIDE DEF N
  <1>3. \A i \in 1 .. N : Len(f[i]) \in Nat
    BY <1>2
  <1> DEFINE Bounded(n) == \E B \in Nat : \A i \in 1 .. n : Len(f[i]) <= B
             I == {n \in 0 .. N : Bounded(n)}
  <1>4. \A n \in 0 .. N : n \in I
    <2>1. 0 \in I
      <3>1. \A i \in 1 .. 0 : Len(f[i]) <= 0
        OBVIOUS
      <3>2. Bounded(0)
        BY <3>1
      <3> QED
        BY <1>2, <3>2
    <2>2. ASSUME NEW n \in 0 .. N, n < N, n \in I PROVE n + 1 \in I
      <3>1. n + 1 \in 1 .. N /\ n + 1 \in 0 .. N
        BY <1>2, <2>2
      <3>2. PICK B \in Nat : \A i \in 1 .. n : Len(f[i]) <= B
        BY <2>2
      <3>3. Len(f[n + 1]) \in Nat
        BY <1>3, <3>1
      <3>4. PICK C \in Nat : C >= B /\ C >= Len(f[n + 1])
        BY <3>2, <3>3
      <3>5. ASSUME NEW i \in 1 .. n + 1 PROVE Len(f[i]) <= C
        <4>1. i \in 1 .. n \/ i = n + 1
          OBVIOUS
        <4>2. i \in 1 .. N
          BY <1>2, <3>1
        <4>3. Len(f[i]) \in Nat
          BY <1>3, <4>2
        <4> QED
          BY <3>2, <3>4, <4>1, <4>3
      <3>6. Bounded(n + 1)
        BY <3>4, <3>5
      <3> QED
        BY <3>1, <3>6
    <2> HIDE DEF I
    <2>3. \A n \in 0 .. N : n < N /\ n \in I => n + 1 \in I
      BY <2>2
    <2> QED
      BY <1>2, <2>1, <2>3, InductionUpTo
  <1>5. PICK B \in Nat : \A i \in 1 .. N : Len(f[i]) <= B
    <2>1. N \in 0 .. N
      BY <1>2
    <2>2. Bounded(N)
      BY <1>4, <2>1
    <2> QED
      BY <2>2
  <1> QED
    BY <1>2, <1>5

\* What the recursion over the directories of a tree computes: the case paths below each.
Listing(s, pathsIn) ==
    /\ \A dir \in DOMAIN s.dirs :
          /\ pathsIn[dir] = Sorted(casePathsOf(dir, Entries(s, dir), pathsIn))
          /\ pathsIn[dir] \in Seq(JsoncPaths)
    /\ listCasePaths(s.dirs) = pathsIn[rootDir]

\* It computes a solution of its equation, and of the types of a listing.
LEMMA ListingExists ==
    ASSUME NEW s, IsTree(s)
    PROVE  \E pathsIn : Listing(s, pathsIn)
  <1> DEFINE D == DOMAIN s.dirs
             T == Seq(JsoncPaths)
             P == [D -> T]
             at(dir, f) == Sorted(casePathsOf(dir, Entries(s, dir), f))
             Loop(f) == [dir \in D |-> at(dir, f)]
  <1>1. IsFiniteSet(D) /\ D \subseteq Seq(Nat) /\ rootDir \in D
    BY DEF IsTree
  <1>2. PICK B \in Nat : \A dir \in D : Len(dir) <= B
    BY <1>1, LengthsBounded
  <1>3. \A dir \in D : Len(dir) \in Nat
    BY <1>1
  <1>4. ASSUME NEW f \in P, NEW dir \in D PROVE NestedKnown(s, dir, f) /\ at(dir, f) \in T
    <2>1. \A nested \in NestedDirs(s, dir) : nested \in D
      BY TreeIs
    <2>2. NestedKnown(s, dir, f)
      <3> HIDE DEF D
      <3> QED
        BY <2>1 DEF NestedKnown
    <2>3. casePathsOf(dir, Entries(s, dir), f) \in Seq(JsoncPaths)
      BY <2>2, CollectedHas
    <2>4. JsoncPaths \subseteq Seq(Nat)
      BY DEF JsoncPaths
    <2> QED
      BY <2>2, <2>3, <2>4, SortedIs
  <1>5. ASSUME NEW f \in P, NEW g, NEW dir \in D,
               \A nested \in D : Len(nested) > Len(dir) => f[nested] = g[nested]
        PROVE  at(dir, f) = at(dir, g)
    <2>1. \A nested \in NestedDirs(s, dir) : f[nested] = g[nested]
      <3>1. \A nested \in NestedDirs(s, dir) : nested \in D /\ Len(dir) < Len(nested)
        BY TreeIs
      <3>2. \A nested \in D : Len(dir) < Len(nested) => Len(nested) > Len(dir)
        BY <1>3
      <3> HIDE DEF D
      <3> QED
        BY <1>5, <3>1, <3>2
    <2>2. NestedKnown(s, dir, f)
      BY <1>4
    <2>3. casePathsOf(dir, Entries(s, dir), f) = casePathsOf(dir, Entries(s, dir), g)
      BY <2>1, <2>2, CollectedDepends
    <2> QED
      BY <2>3
  <1> HIDE DEF D, T, at
  <1>6. \A f \in P : Loop(f) \in P
    BY <1>4
  <1> DEFINE N == B + 2
             step == [n \in 1 .. N |-> [f \in P |-> Loop(f)]]
             none == [dir \in D |-> <<>>]
  <1>7. PICK h : MadeBySteps(h, N, P, none, step)
    <2>1. none \in P
      BY DEF T
    <2>2. step \in StepMaps(N, P)
      <3> HIDE DEF P, N, Loop
      <3> QED
        BY <1>6 DEF StepMaps
    <2>3. N \in Nat
      BY <1>2
    <2> HIDE DEF P, N, step, none
    <2> QED
      BY <2>1, <2>2, <2>3, StepwiseFunction
  <1>8. /\ \A n \in 0 .. N : h[n] \in P
        /\ \A n \in 1 .. N : h[n] = Loop(h[n - 1])
    <2>1. /\ h \in [0 .. N -> P]
          /\ \A n \in 1 .. N : h[n] = step[n][h[n - 1]]
      BY <1>7 DEF MadeBySteps
    <2>2. ASSUME NEW n \in 1 .. N PROVE step[n][h[n - 1]] = Loop(h[n - 1])
      <3>1. n - 1 \in 0 .. N
        BY <1>2
      <3> HIDE DEF P, Loop, N
      <3>2. h[n - 1] \in P
        BY <2>1, <3>1
      <3> QED
        BY <3>2
    <2> QED
      BY <2>1, <2>2
  <1> HIDE DEF step, none
  <1>9. \A n \in 1 .. N, dir \in D : h[n][dir] = at(dir, h[n - 1])
    <2> HIDE DEF N
    <2> QED
      BY <1>8
  <1> HIDE DEF P, Loop
  <1> DEFINE Same(f, g, n) == \A dir \in D : Len(dir) + n > B => f[dir] = g[dir]
             I == {n \in 0 .. B + 1 : Same(h[n], h[n + 1], n)}
  <1>10. \A n \in 0 .. B + 1 : n \in I
    <2>1. 0 \in I
      <3>1. \A dir \in D : ~(Len(dir) + 0 > B)
        BY <1>2, <1>3
      <3> QED
        BY <1>2, <3>1
    <2>2. ASSUME NEW n \in 0 .. B + 1, n < B + 1, n \in I PROVE n + 1 \in I
      <3>1. /\ n + 1 \in 0 .. B + 1 /\ n + 1 \in 1 .. N /\ (n + 1) + 1 \in 1 .. N /\ n \in 0 .. N
            /\ (n + 1) - 1 = n /\ ((n + 1) + 1) - 1 = n + 1 /\ n + 1 \in 0 .. N
        BY <1>2, <2>2
      <3>2. ASSUME NEW dir \in D, Len(dir) + (n + 1) > B
            PROVE  h[n + 1][dir] = h[(n + 1) + 1][dir]
        <4>1. \A nested \in D : Len(nested) > Len(dir) => h[n][nested] = h[n + 1][nested]
          <5>1. \A nested \in D : Len(nested) > Len(dir) => Len(nested) + n > B
            BY <1>2, <1>3, <2>2, <3>2
          <5> QED
            BY <2>2, <5>1
        <4>2. at(dir, h[n]) = at(dir, h[n + 1])
          <5>1. h[n] \in P
            BY <1>8, <3>1
          <5> QED
            BY <1>5, <4>1, <5>1
        <4>3. h[n + 1][dir] = at(dir, h[n]) /\ h[(n + 1) + 1][dir] = at(dir, h[n + 1])
          <5> HIDE DEF N
          <5> QED
            BY <1>9, <3>1
        <4> QED
          BY <4>2, <4>3
      <3>3. Same(h[n + 1], h[(n + 1) + 1], n + 1)
        BY <3>2
      <3> QED
        BY <3>1, <3>3
    <2> HIDE DEF I
    <2>3. \A n \in 0 .. B + 1 : n < B + 1 /\ n \in I => n + 1 \in I
      BY <2>2
    <2>4. B + 1 \in Nat
      BY <1>2
    <2> QED
      BY <2>1, <2>3, <2>4, InductionUpTo
  <1> DEFINE f == h[B + 1]
  <1>11. f \in P /\ \A dir \in D : f[dir] = at(dir, f)
    <2>1. /\ B + 1 \in 0 .. B + 1 /\ B + 1 \in 0 .. N /\ (B + 1) + 1 \in 1 .. N
          /\ ((B + 1) + 1) - 1 = B + 1
      BY <1>2
    <2>2. ASSUME NEW dir \in D PROVE f[dir] = at(dir, f)
      <3>1. Len(dir) + (B + 1) > B
        BY <1>2, <1>3
      <3>2. h[B + 1][dir] = h[(B + 1) + 1][dir]
        BY <1>10, <2>1, <3>1
      <3>3. h[(B + 1) + 1][dir] = at(dir, h[B + 1])
        <4> HIDE DEF N
        <4> QED
          BY <1>9, <2>1
      <3> QED
        BY <3>2, <3>3
    <2> QED
      BY <1>8, <2>1, <2>2
  <1> HIDE DEF f
  <1>12. f = Loop(f)
    BY <1>11 DEF Loop, P
  <1> DEFINE g == CHOOSE p : p = Loop(p)
  <1>13. listCasePaths(s.dirs) = g[rootDir]
    BY DEF listCasePaths, Loop, at, D, Entries
  <1>14. g = Loop(g)
    BY <1>12, Zenon
  <1> HIDE DEF g
  <1>15. \A dir \in D : g[dir] = at(dir, g)
    BY <1>14 DEF Loop
  <1> DEFINE J == {n \in 0 .. B + 1 : Same(f, g, n)}
  <1>16. \A n \in 0 .. B + 1 : n \in J
    <2>1. 0 \in J
      <3>1. \A dir \in D : ~(Len(dir) + 0 > B)
        BY <1>2, <1>3
      <3> QED
        BY <1>2, <3>1
    <2>2. ASSUME NEW n \in 0 .. B + 1, n < B + 1, n \in J PROVE n + 1 \in J
      <3>1. n + 1 \in 0 .. B + 1
        BY <1>2, <2>2
      <3>2. ASSUME NEW dir \in D, Len(dir) + (n + 1) > B
            PROVE  f[dir] = g[dir]
        <4>1. \A nested \in D : Len(nested) > Len(dir) => f[nested] = g[nested]
          <5>1. \A nested \in D : Len(nested) > Len(dir) => Len(nested) + n > B
            BY <1>2, <1>3, <2>2, <3>2
          <5> QED
            BY <2>2, <5>1
        <4>2. at(dir, f) = at(dir, g)
          BY <1>5, <1>11, <4>1
        <4> QED
          BY <1>11, <1>15, <4>2
      <3> QED
        BY <3>1, <3>2
    <2> HIDE DEF J
    <2>3. \A n \in 0 .. B + 1 : n < B + 1 /\ n \in J => n + 1 \in J
      BY <2>2
    <2>4. B + 1 \in Nat
      BY <1>2
    <2> QED
      BY <2>1, <2>3, <2>4, InductionUpTo
  <1>17. \A dir \in D : g[dir] \in T
    <2>1. B + 1 \in 0 .. B + 1
      BY <1>2
    <2>2. \A dir \in D : Len(dir) + (B + 1) > B
      BY <1>2, <1>3
    <2>3. \A dir \in D : f[dir] = g[dir]
      BY <1>16, <2>1, <2>2
    <2> QED
      BY <1>11, <2>3 DEF P
  <1> QED
    BY <1>13, <1>15, <1>17 DEF Listing, D, T, at

\* listCasePaths gives paths of case files in order, and every case file of the tree.
LEMMA ListingIs ==
    ASSUME NEW s, IsTree(s)
    PROVE  /\ listCasePaths(s.dirs) \in Seq(JsoncPaths)
           /\ \A k, l \in DOMAIN listCasePaths(s.dirs) : k < l =>
                 \/ Before(listCasePaths(s.dirs)[k], listCasePaths(s.dirs)[l])
                 \/ listCasePaths(s.dirs)[k] = listCasePaths(s.dirs)[l]
           /\ \A path \in DOMAIN s.files : IsJsonc(path) => path \in Range(listCasePaths(s.dirs))
  <1> DEFINE D == DOMAIN s.dirs
             collected(dir, g) == casePathsOf(dir, Entries(s, dir), g)
  <1>1. IsFiniteSet(D) /\ D \subseteq Seq(Nat) /\ rootDir \in D
    BY DEF IsTree
  <1>2. PICK B \in Nat : \A dir \in D : Len(dir) <= B
    BY <1>1, LengthsBounded
  <1>3. \A dir \in D : Len(dir) \in Nat
    BY <1>1
  <1>4. PICK g : Listing(s, g)
    BY ListingExists
  <1>5. \A dir \in D : g[dir] = Sorted(collected(dir, g)) /\ g[dir] \in Seq(JsoncPaths)
    BY <1>4 DEF Listing
  <1>6. ASSUME NEW dir \in D
        PROVE  /\ collected(dir, g) \in Seq(JsoncPaths)
               /\ \A n \in 1 .. Len(Entries(s, dir)) :
                     Range(entryPaths(dir, Entries(s, dir)[n], g)) \subseteq Range(g[dir])
               /\ \A k, l \in DOMAIN g[dir] : k < l => Before(g[dir][k], g[dir][l]) \/ g[dir][k] = g[dir][l]
    <2>1. \A nested \in NestedDirs(s, dir) : nested \in D
      BY TreeIs
    <2>2. NestedKnown(s, dir, g)
      BY <1>5, <2>1 DEF NestedKnown
    <2>3. /\ collected(dir, g) \in Seq(JsoncPaths)
          /\ \A n \in 1 .. Len(Entries(s, dir)) :
                Range(entryPaths(dir, Entries(s, dir)[n], g)) \subseteq Range(collected(dir, g))
      BY <2>2, CollectedHas
    <2>4. JsoncPaths \subseteq Seq(Nat)
      BY DEF JsoncPaths
    <2> HIDE DEF collected
    <2>5. /\ Range(Sorted(collected(dir, g))) = Range(collected(dir, g))
          /\ \A k, l \in DOMAIN Sorted(collected(dir, g)) : k < l =>
                \/ Before(Sorted(collected(dir, g))[k], Sorted(collected(dir, g))[l])
                \/ Sorted(collected(dir, g))[k] = Sorted(collected(dir, g))[l]
      BY <2>3, <2>4, SortedIs
    <2> QED
      BY <1>5, <2>3, <2>5
  <1> HIDE DEF collected
  <1>7. ASSUME NEW dir \in D, NEW entry \in Range(Entries(s, dir))
        PROVE  /\ Join(dir, entry.name) \in Seq(Nat) /\ Len(dir) < Len(Join(dir, entry.name))
               /\ entry.isDir => Range(g[Join(dir, entry.name)]) \subseteq Range(g[dir])
               /\ ~entry.isDir /\ IsJsonc(Join(dir, entry.name)) => Join(dir, entry.name) \in Range(g[dir])
    <2>1. /\ Join(dir, entry.name) \in Seq(Nat) /\ Len(dir) < Len(Join(dir, entry.name))
          /\ IsJsonc(Join(dir, entry.name)) <=> IsJsonc(entry.name)
      BY TreeIs
    <2>2. PICK n \in 1 .. Len(Entries(s, dir)) : Entries(s, dir)[n] = entry
      <3> DEFINE R == [name : Seq(Nat), isDir : BOOLEAN]
                 entries == Entries(s, dir)
      <3>1. entries \in Seq(R) /\ entry \in Range(entries)
        BY TreeIs
      <3> HIDE DEF R, entries
      <3>2. DOMAIN entries = 1 .. Len(entries)
        BY <3>1
      <3>3. \E n \in 1 .. Len(entries) : entries[n] = entry
        BY <3>1, <3>2 DEF Range
      <3> QED
        BY <3>3 DEF entries
    <2>3. Range(entryPaths(dir, entry, g)) \subseteq Range(g[dir])
      BY <1>6, <2>2
    <2>4. entry.isDir => Range(g[Join(dir, entry.name)]) \subseteq Range(g[dir])
      BY <2>3 DEF entryPaths
    <2>5. ASSUME ~entry.isDir, IsJsonc(Join(dir, entry.name))
          PROVE  Join(dir, entry.name) \in Range(g[dir])
      <3>1. entryPaths(dir, entry, g) = <<Join(dir, entry.name)>>
        BY <2>1, <2>5 DEF entryPaths
      <3>2. Join(dir, entry.name) \in Range(<<Join(dir, entry.name)>>)
        BY DEF Range
      <3> QED
        BY <2>3, <3>1, <3>2
    <2> QED
      BY <2>1, <2>4, <2>5
  <1> DEFINE InRoot(dir) == Range(g[dir]) \subseteq Range(g[rootDir])
             I == {n \in 0 .. B : \A dir \in D : Len(dir) <= n => InRoot(dir)}
  <1>8. ASSUME NEW dir \in D, dir # rootDir
        PROVE  \E parent \in D : Len(parent) < Len(dir) /\ Range(g[dir]) \subseteq Range(g[parent])
    <2>1. IsEntry(s, dir, TRUE)
      BY <1>8 DEF IsTree
    <2>2. PICK parent \in D : \E entry \in Range(Entries(s, parent)) :
                entry.isDir = TRUE /\ dir = Join(parent, entry.name)
      BY <2>1 DEF IsEntry, Entries
    <2>3. PICK entry \in Range(Entries(s, parent)) : entry.isDir = TRUE /\ dir = Join(parent, entry.name)
      BY <2>2
    <2> QED
      BY <1>7, <2>3
  <1>9. \A n \in 0 .. B : n \in I
    <2>1. 0 \in I
      <3>1. ASSUME NEW dir \in D, Len(dir) <= 0 PROVE InRoot(dir)
        <4>1. CASE dir # rootDir
          <5>1. PICK parent \in D : Len(parent) < Len(dir)
            BY <1>8, <4>1
          <5> QED
            BY <1>3, <3>1, <5>1
        <4> QED
          BY <4>1
      <3> QED
        BY <1>2, <3>1
    <2>2. ASSUME NEW n \in 0 .. B, n < B, n \in I PROVE n + 1 \in I
      <3>1. n + 1 \in 0 .. B
        BY <1>2, <2>2
      <3>2. ASSUME NEW dir \in D, Len(dir) <= n + 1 PROVE InRoot(dir)
        <4>1. CASE dir # rootDir
          <5>1. PICK parent \in D : Len(parent) < Len(dir) /\ Range(g[dir]) \subseteq Range(g[parent])
            BY <1>8, <4>1
          <5>2. Len(parent) <= n
            BY <1>2, <1>3, <3>2, <5>1
          <5>3. InRoot(parent)
            BY <2>2, <5>2
          <5> QED
            BY <5>1, <5>3
        <4> QED
          BY <4>1
      <3> QED
        BY <3>1, <3>2
    <2> HIDE DEF I
    <2>3. \A n \in 0 .. B : n < B /\ n \in I => n + 1 \in I
      BY <2>2
    <2> QED
      BY <1>2, <2>1, <2>3, InductionUpTo
  <1>10. \A dir \in D : InRoot(dir)
    <2>1. B \in 0 .. B
      BY <1>2
    <2> QED
      BY <1>2, <1>9, <2>1
  <1>11. ASSUME NEW path \in DOMAIN s.files, IsJsonc(path) PROVE path \in Range(g[rootDir])
    <2>1. IsEntry(s, path, FALSE)
      BY DEF IsTree
    <2>2. PICK dir \in D : \E entry \in Range(Entries(s, dir)) :
                entry.isDir = FALSE /\ path = Join(dir, entry.name)
      BY <2>1 DEF IsEntry, Entries
    <2>3. PICK entry \in Range(Entries(s, dir)) : entry.isDir = FALSE /\ path = Join(dir, entry.name)
      BY <2>2
    <2>4. path \in Range(g[dir])
      BY <1>7, <1>11, <2>3
    <2> QED
      BY <1>10, <2>4
  <1>12. listCasePaths(s.dirs) = g[rootDir]
    BY <1>4 DEF Listing
  <1> QED
    BY <1>1, <1>5, <1>6, <1>11, <1>12

-----------------------------------------------------------------------------
(* The invariant. *)

\* What the read file is: the document of the source, macros resolved or not.
FileTyped ==
    /\ file.doc.name \in CaseString
    /\ file.doc.steps \in Seq(StepDoc)
    /\ file.doc.assert \in AssertDoc
    /\ file.doc.assert = source.files[file.path].doc.assert

NamesDiffer ==
    \A i, j \in DOMAIN loadedCases : i # j => loadedCases[i].name # loadedCases[j].name

\* The cases that are loaded are runnable; while a case is mapped its file has its types,
\* and its steps so far are runnable.
LoadInv ==
    /\ \E family \in Families : source \in family
    /\ \E S : loadedCases \in Seq(S)
    /\ \A c \in Range(loadedCases) : CaseRunnable(c, source)
    /\ NamesDiffer
    /\ stage \in {"strip", "decode", "steps", "assert"} => FileTyped
    /\ stage \in {"steps", "assert"} =>
          /\ TrimSpace(file.doc.name) # "" /\ file.doc.steps # <<>>
          /\ \E S : loadedSteps \in Seq(S)
          /\ StepsRunnable(loadedSteps)
    /\ stage = "assert" => loadedSteps # <<>>

\* What ReadCase reads is the file of the first path, with the types of a case file.
LEMMA ReadTypes ==
    ASSUME LoadInv, ReadCase
    PROVE  /\ FileTyped'
           /\ file'.path = Head(paths) /\ Head(paths) \in DOMAIN source.files
           /\ file'.doc.name = source.files[Head(paths)].doc.name
  <1> DEFINE path == Head(paths)
             content == source.files[path]
  <1>1. path \in DOMAIN source.files /\ file' = ReadFile(path, content)
    BY DEF ReadCase, ReadFails
  <1> HIDE DEF path
  <1>2. content \in CaseFile
    BY <1>1, FamiliesAssumption DEF LoadInv
  <1>3. content.doc \in CaseDoc
    BY <1>2 DEF CaseFile
  <1> HIDE DEF content
  <1>4. /\ file'.doc.name = content.doc.name /\ file'.doc.steps = content.doc.steps
        /\ file'.doc.assert = content.doc.assert /\ file'.path = path
    BY <1>1, <1>3 DEF ReadFile, CaseDoc
  <1>5. /\ content.doc.name \in CaseString /\ content.doc.steps \in Seq(StepDoc)
        /\ content.doc.assert \in AssertDoc
    BY <1>3 DEF CaseDoc
  <1>6. source' = source
    BY DEF ReadCase
  <1> QED
    BY <1>1, <1>4, <1>5, <1>6 DEF FileTyped, path, content

\* Every step of the load keeps it.
LEMMA LoadInductive == LoadInv /\ [Next]_vars => LoadInv'
  <1> SUFFICES ASSUME LoadInv, [Next]_vars PROVE LoadInv'
    OBVIOUS
  <1>1. CASE ListCases
    BY <1>1 DEF ListCases, LoadInv, NamesDiffer
  <1>2. CASE ReadCase
    <2>1. FileTyped'
      BY <1>2, ReadTypes
    <2> QED
      BY <1>2, <2>1 DEF ReadCase, LoadInv, NamesDiffer
  <1>3. CASE StripByte
    BY <1>3 DEF StripByte, LoadInv, NamesDiffer, FileTyped
  <1>4. CASE StripEnds
    BY <1>4 DEF StripEnds, LoadInv, NamesDiffer, FileTyped
  <1>5. CASE DecodeCase
    <2>1. loadedSteps' = <<>> /\ stage' = "steps" /\ UNCHANGED <<source, file, loadedCases>>
      BY <1>5 DEF DecodeCase
    <2>2. StepsRunnable(<<>>)
      <3>1. Range(<<>>) = {} /\ IdsOf(<<>>) = {}
        BY DEF Range, IdsOf
      <3> QED
        BY <3>1, FS_EmptySet DEF StepsRunnable
    <2>3. \E S : loadedSteps' \in Seq(S)
      <3>1. loadedSteps' \in Seq({})
        BY <2>1
      <3> QED
        BY <3>1
    <2>4. TrimSpace(file.doc.name) # "" /\ file.doc.steps # <<>> /\ FileTyped
      BY <1>5 DEF DecodeCase, DecodeFails, LoadInv
    <2> QED
      BY <2>1, <2>2, <2>3, <2>4 DEF LoadInv, NamesDiffer, FileTyped
  <1>6. CASE MapStep
    <2>1. /\ stage = "steps" /\ Len(loadedSteps) < Len(file.doc.steps)
          /\ ~mapStepFails(NextStep) /\ ~duplicated(NextStep)
          /\ loadedSteps' = Append(loadedSteps, mapStep(NextStep))
          /\ UNCHANGED <<source, stage, file, loadedCases>>
      BY <1>6 DEF MapStep, StepsLeft
    <2>2. PICK S : loadedSteps \in Seq(S)
      BY <2>1 DEF LoadInv
    <2>3. FileTyped /\ StepsRunnable(loadedSteps)
      BY <2>1 DEF LoadInv
    <2>4. NextStep \in StepDoc
      <3>1. file.doc.steps \in Seq(StepDoc) /\ Len(loadedSteps) \in Nat
        BY <2>2, <2>3 DEF FileTyped
      <3>2. Len(loadedSteps) + 1 \in 1 .. Len(file.doc.steps)
        BY <2>1, <3>1
      <3> QED
        BY <3>1, <3>2 DEF NextStep
    <2> DEFINE s == mapStep(NextStep)
    <2>5. StepRunnable(s) /\ s.id # "" /\ s.id = TrimSpace(NextStep.id)
      BY <2>1, <2>4, MappedStepRuns
    <2>6. s.id \notin IdsOf(loadedSteps)
      BY <2>1, <2>5 DEF duplicated, stepsByID, IdsOf
    <2> HIDE DEF s
    <2>7. /\ loadedSteps' \in Seq(S \cup {s})
          /\ Range(loadedSteps') = Range(loadedSteps) \cup {s}
          /\ Len(loadedSteps') = Len(loadedSteps) + 1
      <3>1. loadedSteps' = Append(loadedSteps, s)
        BY <2>1 DEF s
      <3> DEFINE was == loadedSteps
                 is == loadedSteps'
      <3> HIDE DEF was, is
      <3>2. was \in Seq(S) /\ is = Append(was, s)
        BY <2>2, <3>1 DEF was, is
      <3>3. is \in Seq(S \cup {s}) /\ Len(is) = Len(was) + 1
        BY <3>2
      <3>4. Range(Append(was, s)) = Range(was) \cup {s}
        BY <3>2, AppendedRange, Zenon
      <3> QED
        BY <3>2, <3>3, <3>4 DEF was, is
    <2>8. StepsRunnable(loadedSteps')
      BY <2>3, <2>5, <2>6, <2>7, OneMoreStep
    <2>9. \E T : loadedSteps' \in Seq(T)
      BY <2>7
    <2> QED
      BY <2>1, <2>3, <2>8, <2>9 DEF LoadInv, NamesDiffer, FileTyped
  <1>7. CASE StepsEnd
    <2>1. /\ stage = "steps" /\ ~(Len(loadedSteps) < Len(file.doc.steps)) /\ stage' = "assert"
          /\ UNCHANGED <<source, file, loadedSteps, loadedCases>>
      BY <1>7 DEF StepsEnd, StepsLeft
    <2>2. file.doc.steps \in Seq(StepDoc) /\ file.doc.steps # <<>>
      BY <2>1 DEF LoadInv, FileTyped
    <2>3. Len(file.doc.steps) > 0 /\ Len(file.doc.steps) \in Nat
      BY <2>2
    <2>4. loadedSteps # <<>>
      <3>1. Len(<<>>) = 0
        OBVIOUS
      <3> QED
        BY <2>1, <2>3, <3>1
    <2> QED
      BY <2>1, <2>4 DEF LoadInv, NamesDiffer, FileTyped
  <1>8. CASE MapAssert
    <2> DEFINE c == [name |-> TrimSpace(file.doc.name), path |-> file.path, steps |-> loadedSteps,
                     assert |-> mapAssertSection(file.doc.assert)]
    <2>1. /\ stage = "assert" /\ stage' = "next" /\ ~MapAssertFails
          /\ loadedCases' = Append(loadedCases, c)
          /\ UNCHANGED <<source, file, loadedSteps>>
      BY <1>8 DEF MapAssert
    <2>2. PICK S : loadedCases \in Seq(S)
      BY DEF LoadInv
    <2>3. CaseRunnable(c, source)
      <3>1. /\ AssertRunnable(mapAssertSection(file.doc.assert), loadedSteps)
            /\ ResponseGiven(mapAssertSection(file.doc.assert), file.path, source)
        <4>1. FileTyped /\ ~mapAssertSectionFails(file.doc.assert)
          BY <2>1 DEF LoadInv, MapAssertFails
        <4>2. file.doc.assert \in AssertDoc /\ file.doc.assert = source.files[file.path].doc.assert
          BY <4>1 DEF FileTyped
        <4> QED
          BY <4>1, <4>2, MappedAssertRuns DEF ResponseGiven
      <3>2. /\ StepsRunnable(loadedSteps) /\ loadedSteps # <<>> /\ TrimSpace(file.doc.name) # ""
        BY <2>1 DEF LoadInv
      <3> QED
        BY <3>1, <3>2 DEF CaseRunnable
    <2>4. \A d \in Range(loadedCases) : d.name # c.name
      BY <2>1 DEF MapAssertFails, validateUniqueCaseName, seenNames
    <2> HIDE DEF c
    <2>5. /\ loadedCases' \in Seq(S \cup {c}) /\ Range(loadedCases') = Range(loadedCases) \cup {c}
          /\ Len(loadedCases') = Len(loadedCases) + 1
          /\ \A i \in 1 .. Len(loadedCases) : loadedCases'[i] = loadedCases[i]
          /\ loadedCases'[Len(loadedCases) + 1] = c
      <3>1. loadedCases' = Append(loadedCases, c)
        BY <2>1
      <3> DEFINE was == loadedCases
                 is == loadedCases'
      <3> HIDE DEF was, is
      <3>2. was \in Seq(S) /\ is = Append(was, c)
        BY <2>2, <3>1 DEF was, is
      <3>3. is \in Seq(S \cup {c}) /\ Len(is) = Len(was) + 1
        BY <3>2
      <3>6. Range(Append(was, c)) = Range(was) \cup {c}
        BY <3>2, AppendedRange, Zenon
      <3>4. \A i \in 1 .. Len(was) : is[i] = was[i]
        BY <3>2
      <3>5. is[Len(was) + 1] = c
        BY <3>2
      <3> QED
        BY <3>2, <3>3, <3>4, <3>5, <3>6 DEF was, is
    <2>6. NamesDiffer'
      <3>1. /\ DOMAIN loadedCases = 1 .. Len(loadedCases) /\ Len(loadedCases) \in Nat
            /\ DOMAIN loadedCases' = 1 .. Len(loadedCases) + 1
        BY <2>2, <2>5
      <3>2. \A i \in 1 .. Len(loadedCases) : loadedCases[i] \in Range(loadedCases)
        BY <3>1 DEF Range
      <3>3. \A i \in 1 .. Len(loadedCases) + 1 : i \in 1 .. Len(loadedCases) \/ i = Len(loadedCases) + 1
        BY <3>1
      <3>4. \A i, j \in 1 .. Len(loadedCases) : i # j => loadedCases[i].name # loadedCases[j].name
        BY <3>1 DEF LoadInv, NamesDiffer
      <3> SUFFICES ASSUME NEW i \in 1 .. Len(loadedCases) + 1, NEW j \in 1 .. Len(loadedCases) + 1, i # j
                   PROVE  loadedCases'[i].name # loadedCases'[j].name
        BY <3>1 DEF NamesDiffer
      <3> QED
        BY <2>4, <2>5, <3>2, <3>3, <3>4
    <2>7. \A d \in Range(loadedCases') : CaseRunnable(d, source)
      BY <2>3, <2>5 DEF LoadInv
    <2> QED
      BY <2>1, <2>5, <2>6, <2>7 DEF LoadInv
  <1>9. CASE LoadEnds
    BY <1>9 DEF LoadEnds, LoadInv, NamesDiffer
  <1>10. CASE LoadFails
    <2>1. stage' = "failed" /\ loadedCases' = <<>> /\ source' = source
      BY <1>10 DEF LoadFails, Fail
    <2>2. loadedCases' \in Seq({}) /\ DOMAIN loadedCases' = {}
      BY <2>1
    <2> QED
      BY <2>1, <2>2 DEF LoadInv, NamesDiffer, Range
  <1>11. CASE UNCHANGED vars
    BY <1>11 DEF vars, LoadInv, NamesDiffer, FileTyped
  <1> QED
    BY <1>1, <1>2, <1>3, <1>4, <1>5, <1>6, <1>7, <1>8, <1>9, <1>10, <1>11 DEF Next

\* So it holds throughout.
LEMMA LoadInvariant == Spec => []LoadInv
  <1>1. ASSUME Init PROVE LoadInv
    <2>1. loadedCases = <<>> /\ stage = "list" /\ \E family \in Families : source \in family
      BY <1>1 DEF Init
    <2>2. loadedCases \in Seq({}) /\ DOMAIN loadedCases = {}
      BY <2>1
    <2> QED
      BY <2>1, <2>2 DEF LoadInv, NamesDiffer, Range
  <1> QED
    BY <1>1, LoadInductive, PTL DEF Spec

\* How far the load is: the listed paths are those of the cases that are loaded, the one of
\* the file in hand when there is one, and those that are left.
Progress(s, cases, inHand, f, left) ==
    LET listed == listCasePaths(s.dirs)
    IN  /\ \E S : cases \in Seq(S)
        /\ left \in Seq(JsoncPaths)
        /\ Len(listed) = Len(cases) + inHand + Len(left)
        /\ \A i \in 1 .. Len(cases) :
              /\ cases[i].path = listed[i] /\ listed[i] \in DOMAIN s.files
              /\ cases[i].name = TrimSpace(s.files[listed[i]].doc.name)
        /\ inHand = 1 =>
              /\ f.path = listed[Len(cases) + 1] /\ f.path \in DOMAIN s.files
              /\ f.doc.name = s.files[f.path].doc.name
        /\ \A i \in 1 .. Len(left) : left[i] = listed[Len(cases) + inHand + i]

InHand == IF stage \in {"strip", "decode", "steps", "assert"} THEN 1 ELSE 0

\* The load follows the listing.
OrderInv ==
    /\ stage = "list" => loadedCases = <<>>
    /\ stage \notin {"list", "failed"} => Progress(source, loadedCases, InHand, file, paths)
    /\ stage = "loaded" => paths = <<>>

\* The listing is what is left at the start.
LEMMA ProgressStarts ==
    ASSUME NEW s, IsTree(s), NEW f
    PROVE  Progress(s, <<>>, 0, f, listCasePaths(s.dirs))
  <1> DEFINE listed == listCasePaths(s.dirs)
  <1>1. listed \in Seq(JsoncPaths)
    BY ListingIs
  <1> HIDE DEF listed
  <1>2. <<>> \in Seq({}) /\ Len(<<>>) = 0 /\ Len(listed) \in Nat
    BY <1>1
  <1>3. Len(listed) = 0 + 0 + Len(listed) /\ \A i \in 1 .. Len(listed) : 0 + 0 + i = i
    BY <1>2
  <1> QED
    BY <1>1, <1>2, <1>3 DEF Progress, listed

\* The first of the paths that are left is taken in hand.
LEMMA ProgressReads ==
    ASSUME NEW s, NEW cases, NEW f, NEW g, NEW left, Progress(s, cases, 0, f, left), left # <<>>,
           g.path = Head(left), Head(left) \in DOMAIN s.files,
           g.doc.name = s.files[Head(left)].doc.name
    PROVE  Progress(s, cases, 1, g, Tail(left))
  <1> DEFINE listed == listCasePaths(s.dirs)
             n == Len(cases)
             P == JsoncPaths
  <1>1. /\ \E S : cases \in Seq(S)
        /\ left \in Seq(P)
        /\ Len(listed) = n + 0 + Len(left)
        /\ \A i \in 1 .. n :
              /\ cases[i].path = listed[i] /\ listed[i] \in DOMAIN s.files
              /\ cases[i].name = TrimSpace(s.files[listed[i]].doc.name)
        /\ \A i \in 1 .. Len(left) : left[i] = listed[n + 0 + i]
    BY DEF Progress
  <1>2. n \in Nat
    BY <1>1
  <1> HIDE DEF listed, n, P
  <1>3. /\ Len(left) \in Nat /\ Len(left) # 0 /\ Head(left) = left[1]
        /\ Tail(left) \in Seq(P) /\ Len(Tail(left)) = Len(left) - 1
        /\ \A i \in 1 .. Len(left) - 1 : Tail(left)[i] = left[i + 1]
    BY <1>1
  <1>4. Len(listed) = n + 1 + Len(Tail(left))
    BY <1>1, <1>2, <1>3
  <1>5. g.path = listed[n + 1]
    <2>1. 1 \in 1 .. Len(left) /\ n + 0 + 1 = n + 1
      BY <1>2, <1>3
    <2> QED
      BY <1>1, <1>3, <2>1
  <1>6. ASSUME NEW i \in 1 .. Len(Tail(left)) PROVE Tail(left)[i] = listed[n + 1 + i]
    <2>1. i + 1 \in 1 .. Len(left) /\ n + 0 + (i + 1) = n + 1 + i /\ i \in 1 .. Len(left) - 1
      BY <1>2, <1>3
    <2> QED
      BY <1>1, <1>3, <2>1
  <1> QED
    BY <1>1, <1>3, <1>4, <1>5, <1>6 DEF Progress, listed, n, P

\* The case of the file in hand is loaded.
LEMMA ProgressLoads ==
    ASSUME NEW s, NEW cases, NEW f, NEW left, Progress(s, cases, 1, f, left), NEW c,
           c.path = f.path, c.name = TrimSpace(f.doc.name)
    PROVE  Progress(s, Append(cases, c), 0, f, left)
  <1> DEFINE listed == listCasePaths(s.dirs)
             n == Len(cases)
             more == Append(cases, c)
             P == JsoncPaths
  <1>1. PICK S : cases \in Seq(S)
    BY DEF Progress
  <1>2. /\ left \in Seq(P)
        /\ Len(listed) = n + 1 + Len(left)
        /\ \A i \in 1 .. n :
              /\ cases[i].path = listed[i] /\ listed[i] \in DOMAIN s.files
              /\ cases[i].name = TrimSpace(s.files[listed[i]].doc.name)
        /\ f.path = listed[n + 1] /\ f.path \in DOMAIN s.files
        /\ f.doc.name = s.files[f.path].doc.name
        /\ \A i \in 1 .. Len(left) : left[i] = listed[n + 1 + i]
    BY DEF Progress
  <1>3. n \in Nat /\ more \in Seq(S \cup {c}) /\ Len(more) = n + 1
    BY <1>1
  <1>4. \A i \in 1 .. n : more[i] = cases[i]
    BY <1>1
  <1>5. more[n + 1] = c
    BY <1>1
  <1>6. Len(left) \in Nat
    BY <1>2
  <1> HIDE DEF listed, n, more, P
  <1>7. ASSUME NEW i \in 1 .. n + 1
        PROVE  /\ more[i].path = listed[i] /\ listed[i] \in DOMAIN s.files
               /\ more[i].name = TrimSpace(s.files[listed[i]].doc.name)
    <2>1. i \in 1 .. n \/ i = n + 1
      BY <1>3
    <2>2. CASE i \in 1 .. n
      BY <1>2, <1>4, <2>2
    <2>3. CASE i = n + 1
      BY <1>2, <1>5, <2>3
    <2> QED
      BY <2>1, <2>2, <2>3
  <1>8. Len(listed) = Len(more) + 0 + Len(left)
    BY <1>2, <1>3, <1>6
  <1>9. ASSUME NEW i \in 1 .. Len(left) PROVE left[i] = listed[Len(more) + 0 + i]
    <2>1. Len(more) + 0 + i = n + 1 + i
      BY <1>3
    <2> QED
      BY <1>2, <2>1
  <1>10. \E U : more \in Seq(U)
    BY <1>3
  <1>11. /\ \E U : more \in Seq(U)
         /\ left \in Seq(P)
         /\ Len(listed) = Len(more) + 0 + Len(left)
         /\ \A i \in 1 .. Len(more) :
               /\ more[i].path = listed[i] /\ listed[i] \in DOMAIN s.files
               /\ more[i].name = TrimSpace(s.files[listed[i]].doc.name)
         /\ \A i \in 1 .. Len(left) : left[i] = listed[Len(more) + 0 + i]
    BY <1>2, <1>3, <1>7, <1>8, <1>9, <1>10
  <1> QED
    <2>1. ~(0 = 1)
      OBVIOUS
    <2> QED
      BY <1>11, <2>1, Zenon DEF Progress, listed, more, P

\* The sources are trees.
LEMMA SourceIsTree == LoadInv => IsTree(source)
  BY FamiliesAssumption DEF LoadInv

\* Every step of the load follows the listing.
LEMMA OrderInductive == LoadInv /\ OrderInv /\ [Next]_vars => OrderInv'
  <1> SUFFICES ASSUME LoadInv, OrderInv, [Next]_vars PROVE OrderInv'
    OBVIOUS
  <1>1. CASE ListCases
    <2>1. /\ stage = "list" /\ stage' = "next" /\ paths' = listCasePaths(source.dirs)
          /\ UNCHANGED <<source, file, loadedCases>>
      BY <1>1 DEF ListCases
    <2>2. Progress(source, <<>>, 0, file, listCasePaths(source.dirs))
      BY SourceIsTree, ProgressStarts
    <2>3. loadedCases' = <<>> /\ InHand' = 0
      BY <2>1 DEF OrderInv, InHand
    <2> QED
      BY <2>1, <2>2, <2>3 DEF OrderInv
  <1>2. CASE ReadCase
    <2>1. /\ stage = "next" /\ stage' = "strip" /\ paths # <<>> /\ paths' = Tail(paths)
          /\ UNCHANGED <<source, loadedCases>>
      BY <1>2 DEF ReadCase
    <2>2. Progress(source, loadedCases, 0, file, paths)
      BY <2>1 DEF OrderInv, InHand
    <2>3. /\ file'.path = Head(paths) /\ Head(paths) \in DOMAIN source.files
          /\ file'.doc.name = source.files[Head(paths)].doc.name
      BY <1>2, ReadTypes
    <2>4. Progress(source, loadedCases, 1, file', Tail(paths))
      BY <2>1, <2>2, <2>3, ProgressReads
    <2>5. InHand' = 1
      BY <2>1 DEF InHand
    <2> QED
      BY <2>1, <2>4, <2>5 DEF OrderInv
  <1>3. CASE StripByte \/ StripEnds \/ DecodeCase \/ MapStep \/ StepsEnd
    <2>1. /\ stage \in {"strip", "decode", "steps"} /\ stage' \in {"strip", "decode", "steps", "assert"}
          /\ UNCHANGED <<source, paths, file, loadedCases>>
      BY <1>3 DEF StripByte, StripEnds, DecodeCase, MapStep, StepsEnd
    <2>2. InHand = 1 /\ InHand' = 1
      BY <2>1 DEF InHand
    <2> QED
      BY <2>1, <2>2 DEF OrderInv
  <1>4. CASE MapAssert
    <2> DEFINE c == [name |-> TrimSpace(file.doc.name), path |-> file.path, steps |-> loadedSteps,
                     assert |-> mapAssertSection(file.doc.assert)]
    <2>1. /\ stage = "assert" /\ stage' = "next"
          /\ loadedCases' = Append(loadedCases, c)
          /\ UNCHANGED <<source, paths, file>>
      BY <1>4 DEF MapAssert
    <2>2. c.path = file.path /\ c.name = TrimSpace(file.doc.name)
      OBVIOUS
    <2> HIDE DEF c
    <2>3. Progress(source, loadedCases, 1, file, paths)
      BY <2>1 DEF OrderInv, InHand
    <2>4. Progress(source, Append(loadedCases, c), 0, file, paths)
      BY <2>2, <2>3, ProgressLoads
    <2>5. InHand' = 0
      BY <2>1 DEF InHand
    <2> QED
      BY <2>1, <2>4, <2>5 DEF OrderInv
  <1>5. CASE LoadEnds
    <2>1. /\ stage = "next" /\ stage' = "loaded" /\ paths = <<>>
          /\ UNCHANGED <<source, paths, file, loadedCases>>
      BY <1>5 DEF LoadEnds
    <2>2. InHand = 0 /\ InHand' = 0
      BY <2>1 DEF InHand
    <2> QED
      BY <2>1, <2>2 DEF OrderInv
  <1>6. CASE LoadFails
    BY <1>6 DEF LoadFails, Fail, OrderInv
  <1>7. CASE UNCHANGED vars
    <2>1. UNCHANGED <<stage, source, paths, file, loadedCases>>
      BY <1>7 DEF vars
    <2> QED
      BY <2>1 DEF OrderInv, InHand
  <1> QED
    BY <1>1, <1>2, <1>3, <1>4, <1>5, <1>6, <1>7 DEF Next

-----------------------------------------------------------------------------

\* What LoadCases returns can be run as it is: every case has a name and steps, ids of
\* their own, known kinds and handlers, a policy for await steps and no others, and an
\* assert block that names a step of the case or none and has what a success needs, where
\* the only response that assertSuccessfulCaseResult may miss is a null of the case file.
THEOREM LoadedCasesRun == Spec => []AcceptedIsRunnable
  <1>1. LoadInv => AcceptedIsRunnable
    BY DEF LoadInv, AcceptedIsRunnable, CaseRunnable, StepsRunnable, StepRunnable,
           AssertRunnable, ResponseGiven, GivenAsNull, IdsOf
  <1> QED
    BY <1>1, LoadInvariant, PTL

\* No two cases that LoadCases has accepted share a name.
THEOREM NamesAreUnique == Spec => []NamesDiffer
  <1>1. LoadInv => NamesDiffer
    BY DEF LoadInv
  <1> QED
    BY <1>1, LoadInvariant, PTL

\* LoadCases gives one case for every .jsonc file of the tree and none for anything else, in
\* the order of sort.Strings over the whole tree, whatever the depth of the directories, the
\* order of their entries and the errors of other loads; a path that is listed twice is an error.
THEOREM CasesAreLoadedInOrder == Spec => []LoadedInOrder
  <1>1. Init => OrderInv
    BY DEF Init, OrderInv
  <1>2. LoadInv /\ OrderInv => LoadedInOrder
    <2> SUFFICES ASSUME LoadInv, OrderInv, stage = "loaded" PROVE LoadedInOrder
      BY DEF LoadedInOrder
    <2> DEFINE listed == listCasePaths(source.dirs)
               n == Len(loadedCases)
               loaded == [i \in DOMAIN loadedCases |-> loadedCases[i].path]
               wanted == {p \in DOMAIN source.files : IsJsonc(p)}
    <2>1. Progress(source, loadedCases, 0, file, <<>>)
      BY DEF OrderInv, InHand
    <2>2. /\ \E S : loadedCases \in Seq(S)
          /\ Len(listed) = n + 0 + Len(<<>>)
          /\ \A i \in 1 .. n :
                /\ loadedCases[i].path = listed[i] /\ listed[i] \in DOMAIN source.files
                /\ loadedCases[i].name = TrimSpace(source.files[listed[i]].doc.name)
      BY <2>1 DEF Progress
    <2>3. n \in Nat /\ DOMAIN loadedCases = 1 .. n
      BY <2>2
    <2>4. /\ listed \in Seq(JsoncPaths)
          /\ \A k, l \in DOMAIN listed : k < l => Before(listed[k], listed[l]) \/ listed[k] = listed[l]
          /\ \A path \in DOMAIN source.files : IsJsonc(path) => path \in Range(listed)
      BY SourceIsTree, ListingIs
    <2> HIDE DEF listed, n
    <2>5. DOMAIN listed = 1 .. n
      BY <2>2, <2>3, <2>4
    <2>6. \A i \in 1 .. n : loaded[i] = listed[i] /\ listed[i] \in JsoncPaths
      BY <2>2, <2>3, <2>4, <2>5
    <2>7. DOMAIN loaded = 1 .. n
      BY <2>3
    <2> HIDE DEF loaded
    <2>8. Range(loaded) = wanted
      <3>1. \A p \in Range(loaded) : p \in wanted
        BY <2>2, <2>6, <2>7 DEF Range, JsoncPaths
      <3>2. ASSUME NEW p \in wanted PROVE p \in Range(loaded)
        <4>1. p \in Range(listed)
          BY <2>4
        <4> QED
          BY <2>5, <2>6, <2>7, <4>1 DEF Range
      <3> QED
        BY <3>1, <3>2
    <2>9. ASSUME NEW i \in 1 .. n, NEW j \in 1 .. n, i < j
          PROVE  Before(loaded[i], loaded[j]) /\ loadedCases[i].name # loadedCases[j].name
      <3>1. loadedCases[i].name # loadedCases[j].name
        <4>1. i # j
          BY <2>3, <2>9
        <4> QED
          BY <2>3, <4>1 DEF LoadInv, NamesDiffer
      <3>2. listed[i] # listed[j]
        BY <2>2, <3>1
      <3>3. Before(listed[i], listed[j])
        BY <2>4, <2>5, <2>9, <3>2
      <3> QED
        BY <2>6, <3>1, <3>3
    <2>10. /\ Range(loaded) = wanted
           /\ \A i, j \in DOMAIN loaded : i < j =>
                 Before(loaded[i], loaded[j]) /\ loadedCases[i].name # loadedCases[j].name
      BY <2>7, <2>8, <2>9
    <2> QED
      BY <2>10 DEF LoadedInOrder, loaded, wanted
  <1> QED
    BY <1>1, <1>2, OrderInductive, LoadInvariant, PTL DEF Spec

\* While a file is stripped the automaton is where Stripping says; before it is decoded, at
\* the end of the text and in no block comment.
StripInv ==
    /\ stage \in {"strip", "decode"} => \E S : Stripping(S, file.text, parser)
    /\ stage = "decode" => Done(file.text, parser) /\ parser.state # "block"

\* stripJSONCComments is right for every text: what it hands to the decoder is the text cut
\* into its tokens and put together again without the comments but for their line breaks,
\* whatever quotes, escapes and comment marks stand where; and it reports an error exactly
\* for a text whose last token is a block comment without an end.
THEOREM StrippedIsUncommented == Spec => []StripIsReference
  <1>1. Init => StripInv
    BY DEF Init, StripInv
  <1>2. ASSUME LoadInv, StripInv, [Next]_vars PROVE StripInv'
    <2>1. CASE ReadCase
      <3> DEFINE path == Head(paths)
                 content == source.files[path]
      <3>1. /\ path \in DOMAIN source.files /\ file' = ReadFile(path, content)
            /\ parser' = NewParser /\ stage' = "strip"
        BY <2>1 DEF ReadCase, ReadFails
      <3> HIDE DEF path
      <3>2. content \in CaseFile
        BY <1>2, <3>1, FamiliesAssumption DEF LoadInv
      <3>3. content.text \in Seq(STRING) /\ <<Document>> \in Seq({Document})
        BY <3>2 DEF CaseFile
      <3> HIDE DEF content
      <3>4. file'.text = IF source.calendar THEN <<Document>> ELSE content.text
        BY <3>1 DEF ReadFile
      <3>5. PICK S : file'.text \in Seq(S)
        BY <3>3, <3>4
      <3>6. Stripping(S, file'.text, parser')
        BY <3>1, <3>5, StrippingStarts
      <3> QED
        BY <3>1, <3>6 DEF StripInv
    <2>2. CASE StripByte
      <3>1. /\ stage = "strip" /\ stage' = "strip" /\ file' = file /\ ~Done(file.text, parser)
            /\ parser' = stripJSONCComments(file.text, parser)
        BY <2>2 DEF StripByte
      <3>2. PICK S : Stripping(S, file.text, parser)
        BY <1>2, <3>1 DEF StripInv
      <3>3. Stripping(S, file.text, parser')
        BY <3>1, <3>2, StrippingGoesOn
      <3> QED
        BY <3>1, <3>3 DEF StripInv
    <2>3. CASE StripEnds
      BY <1>2, <2>3 DEF StripEnds, StripInv
    <2>4. CASE ListCases \/ DecodeCase \/ MapStep \/ StepsEnd \/ MapAssert \/ LoadEnds \/ LoadFails
      <3>1. stage' \notin {"strip", "decode"}
        BY <2>4 DEF ListCases, DecodeCase, MapStep, StepsEnd, MapAssert, LoadEnds, LoadFails, Fail
      <3> QED
        BY <3>1 DEF StripInv
    <2>5. CASE UNCHANGED vars
      BY <1>2, <2>5 DEF vars, StripInv
    <2> QED
      BY <1>2, <2>1, <2>2, <2>3, <2>4, <2>5 DEF Next
  <1>3. StripInv => StripIsReference
    <2> SUFFICES ASSUME StripInv PROVE StripIsReference
      OBVIOUS
    <2>1. ASSUME stage = "decode"
          PROVE  parser.result = Uncommented(file.text) /\ ~Unterminated(file.text)
      <3>1. PICK S : Stripping(S, file.text, parser)
        BY <2>1 DEF StripInv
      <3> QED
        BY <2>1, <3>1, StrippingEnds DEF StripInv
    <2>2. ASSUME stage = "strip", Done(file.text, parser)
          PROVE  parser.state = "block" <=> Unterminated(file.text)
      <3>1. PICK S : Stripping(S, file.text, parser)
        BY <2>2 DEF StripInv
      <3> QED
        BY <2>2, <3>1, StrippingEnds
    <2> QED
      BY <2>1, <2>2 DEF StripIsReference
  <1> QED
    BY <1>1, <1>2, <1>3, LoadInvariant, PTL DEF Spec

\* The file that is being read is one of the source, and the calendar accepted its macros.
ReadInv ==
    stage = "strip" /\ source.calendar =>
        /\ file.path \in DOMAIN source.files
        /\ ~transformFails(source.files[file.path].doc.literals)

\* testcalendar is right for every macro that it accepts, with any number of parts, any
\* amounts and any width of a Duration: the zone changes what is shown and not the instant,
\* opposite offsets and zones mirror each other, the parts add up whatever wraps on the way
\* if their sum fits, and a date is the day of the timestamp.
THEOREM MacrosDenoteInstants == Spec => []MacroDenotesInstant
  <1>1. Init => ReadInv
    BY DEF Init, ReadInv
  <1>2. ASSUME ReadInv, [Next]_vars PROVE ReadInv'
    <2>1. CASE ReadCase
      <3> DEFINE path == Head(paths)
                 content == source.files[path]
      <3>1. /\ ~ReadFails(path) /\ file' = ReadFile(path, content) /\ source' = source
        BY <2>1 DEF ReadCase
      <3> HIDE DEF path
      <3>2. file'.path = path
        BY <3>1 DEF ReadFile
      <3>3. path \in DOMAIN source.files /\ (source.calendar => ~transformFails(content.doc.literals))
        BY <3>1 DEF ReadFails
      <3> QED
        BY <3>1, <3>2, <3>3 DEF ReadInv
    <2>2. CASE StripByte
      BY <1>2, <2>2 DEF StripByte, ReadInv
    <2>3. CASE StripEnds \/ ListCases \/ DecodeCase \/ MapStep \/ StepsEnd \/ MapAssert \/ LoadEnds \/ LoadFails
      <3>1. stage' # "strip"
        BY <2>3 DEF StripEnds, ListCases, DecodeCase, MapStep, StepsEnd, MapAssert, LoadEnds,
                    LoadFails, Fail
      <3> QED
        BY <3>1 DEF ReadInv
    <2>4. CASE UNCHANGED vars
      BY <1>2, <2>4 DEF vars, ReadInv
    <2> QED
      BY <1>2, <2>1, <2>2, <2>3, <2>4 DEF Next
  <1>3. LoadInv /\ ReadInv => MacroDenotesInstant
    <2> DEFINE literals == source.files[file.path].doc.literals
    <2> SUFFICES ASSUME LoadInv, ReadInv, stage = "strip", source.calendar,
                        NEW i \in DOMAIN literals, isMacro(literals[i].value)
                 PROVE  /\ ZoneLaw(literals[i].value)
                        /\ OffsetLaw(literals[i].value)
                        /\ DateLaw(literals[i].value)
      BY DEF MacroDenotesInstant
    <2>1. file.path \in DOMAIN source.files /\ ~transformFails(literals)
      BY DEF ReadInv
    <2>2. source.files[file.path] \in CaseFile
      BY <2>1, FamiliesAssumption DEF LoadInv
    <2>3. source.files[file.path].doc \in CaseDoc
      BY <2>2 DEF CaseFile
    <2>4. literals \in Seq([key : STRING, value : Literal])
      BY <2>3 DEF CaseDoc
    <2> HIDE DEF literals
    <2>5. literals[i].value \in Literal
      <3> DEFINE V == [key : STRING, value : Literal]
      <3>1. literals \in Seq(V)
        BY <2>4
      <3> HIDE DEF V
      <3>2. DOMAIN literals = 1 .. Len(literals) /\ \A j \in 1 .. Len(literals) : literals[j] \in V
        BY <3>1
      <3>3. literals[i] \in V
        BY <3>2
      <3> QED
        BY <3>3 DEF V
    <2>6. ~parseMacroTokenFails(literals[i].value)
      BY <2>1 DEF transformFails, resolveFails
    <2> QED
      BY <2>5, <2>6, AcceptedMacroLaws
  <1> QED
    BY <1>1, <1>2, <1>3, LoadInvariant, PTL DEF Spec
=============================================================================
