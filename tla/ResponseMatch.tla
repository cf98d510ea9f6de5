----------------------------- MODULE ResponseMatch -----------------------------
(***************************************************************************)
(* How an expected response is compared with an actual one: the exact and  *)
(* the partial mode of runner.go with their matcher objects, the public    *)
(* MatchExpectedJSON of expected_json.go, and the subset match of          *)
(* internal/jsonsubset that the mock server and the probe use.             *)
(*                                                                         *)
(* A JSON value is a record with one field: s for a scalar, o for an       *)
(* object (a function from keys), a for an array.  A matcher is an object  *)
(* with a single key that begins with a dollar sign.  A number keeps its   *)
(* text (json.Number) until a handler decodes it: then it is a float64 (f) *)
(* or an int (i), and numbers written differently may be one.              *)
(*                                                                         *)
(* The comparison keeps no state.  A behaviour is one comparison and the   *)
(* same one again after the system under test has put one more field or    *)
(* one more item into its answer; or one Go value as a handler returned    *)
(* it, of which the runner makes a view and templates read parts           *)
(* (GoValues).                                                             *)
(***************************************************************************)
EXTENDS GoValues
LOCAL INSTANCE SequencesExt

CONSTANTS
    Templates,  \* the expected values
    Answers,    \* the actual values
    Keys,       \* the fields an answer may gain
    NewValues,  \* the values it may gain
    Responses   \* the Go values: a heap and the value returned

VARIABLES
    expected,
    actual,
    grown,      \* bound: the answer grows once
    response

vars == <<expected, actual, grown, response>>

-----------------------------------------------------------------------------
(* JSON values. *)

IsScalar(v) == "s" \in DOMAIN v
IsObj(v) == "o" \in DOMAIN v
IsArr(v) == "a" \in DOMAIN v

\* The strings among the scalars, and what time.Parse and regexp make of them: the
\* instant of an RFC3339 string, and the strings a pattern matches.
Strings == {"", "noon", "noonZ", "dusk"}
InstantOf == [str \in {"noon", "noonZ", "dusk"} |-> IF str = "dusk" THEN 18 ELSE 12]
Matching(pattern) ==
    IF pattern = "" THEN Strings
    ELSE IF pattern = "noon" THEN {"noon", "noonZ"} ELSE {pattern}

\* The numbers among the scalars, and the float64 of each, by its shortest text.
FloatText == [text \in {"0", "200", "200.0"} |-> IF text = "200.0" THEN "200" ELSE text]

IsNumber(v) == IsScalar(v) /\ v.s \in DOMAIN FloatText
IsString(v) == IsScalar(v) /\ v.s \in Strings
IsInstant(v) == IsString(v) /\ v.s \in DOMAIN InstantOf

RECURSIVE responseTemplateContainsSpecialMatcher(_)
RECURSIVE comparePartialResponseValue(_, _)
RECURSIVE materializeExpectedMatchers(_, _)
RECURSIVE Decoded(_)
RECURSIVE responseTemplateActualView(_)
RECURSIVE Match(_, _)
RECURSIVE Parts(_)
RECURSIVE At(_, _)
RECURSIVE WithField(_)
RECURSIVE WithItem(_)

-----------------------------------------------------------------------------
(* Matcher objects. *)

MatcherKeys ==
    {"$absent", "$present", "$same_instant", "$rfc3339", "$matches", "$not_empty"}

\* responseValueMatcherFromValue: an object with a matcher's key and no other.
IsMatcher(v) == IsObj(v) /\ \E key \in MatcherKeys : DOMAIN v.o = {key}

KeyOf(matcher) == CHOOSE key \in MatcherKeys : DOMAIN matcher.o = {key}
Argument(matcher) == matcher.o[KeyOf(matcher)]

validateBooleanMatcherArgument(matcher) == Argument(matcher) = Scalar("true")

matchSameInstantResponseValue(argument, value) ==
    IsInstant(argument) /\ IsInstant(value) /\ InstantOf[argument.s] = InstantOf[value.s]

matchRFC3339ResponseValue(matcher, value) ==
    validateBooleanMatcherArgument(matcher) /\ IsInstant(value)

matchRegexResponseValue(argument, value) ==
    IsString(argument) /\ IsString(value) /\ value.s \in Matching(argument.s)

matchNotEmptyResponseValue(matcher, value) ==
    /\ validateBooleanMatcherArgument(matcher)
    /\ \/ IsString(value) /\ value.s # ""
       \/ IsArr(value) /\ value.a # <<>>
       \/ IsObj(value) /\ DOMAIN value.o # {}

\* The markers of absence and presence are not about a value and never match one.
matchResponseValueMatcher(matcher, value) ==
    CASE KeyOf(matcher) = "$same_instant" ->
            matchSameInstantResponseValue(Argument(matcher), value)
      [] KeyOf(matcher) = "$rfc3339" -> matchRFC3339ResponseValue(matcher, value)
      [] KeyOf(matcher) = "$matches" -> matchRegexResponseValue(Argument(matcher), value)
      [] KeyOf(matcher) = "$not_empty" -> matchNotEmptyResponseValue(matcher, value)
      [] OTHER -> FALSE

responseTemplateContainsSpecialMatcher(e) ==
    \/ IsMatcher(e)
    \/ IsObj(e) /\ \E k \in DOMAIN e.o : responseTemplateContainsSpecialMatcher(e.o[k])
    \/ IsArr(e) /\ \E i \in DOMAIN e.a : responseTemplateContainsSpecialMatcher(e.a[i])

-----------------------------------------------------------------------------
(* The partial mode. *)

\* Field k of the object v against what is expected of it.
comparePartialResponseObjectField(e, v, k) ==
    LET exists == k \in DOMAIN v.o
    IN  IF ~IsMatcher(e) THEN exists /\ comparePartialResponseValue(e, v.o[k])
        ELSE CASE KeyOf(e) = "$absent" -> validateBooleanMatcherArgument(e) /\ ~exists
               [] KeyOf(e) = "$present" -> validateBooleanMatcherArgument(e) /\ exists
               [] OTHER -> exists /\ matchResponseValueMatcher(e, v.o[k])

\* Fault: fields that are not expected are refused.
comparePartialObjectClosed(e, v) ==
    /\ IsObj(v)
    /\ DOMAIN v.o \subseteq DOMAIN e.o
    /\ \A k \in DOMAIN e.o : comparePartialResponseObjectField(e.o[k], v, k)

comparePartialResponseObject(e, v) ==
    /\ IsObj(v)
    /\ \A k \in DOMAIN e.o : comparePartialResponseObjectField(e.o[k], v, k)

\* Fault: the expected items are a prefix.
comparePartialArrayPrefix(e, v) ==
    /\ IsArr(v)
    /\ Len(e.a) <= Len(v.a)
    /\ \A i \in DOMAIN e.a : comparePartialResponseValue(e.a[i], v.a[i])

comparePartialResponseArray(e, v) ==
    /\ IsArr(v)
    /\ Len(e.a) = Len(v.a)
    /\ \A i \in DOMAIN e.a : comparePartialResponseValue(e.a[i], v.a[i])

comparePartialResponseValue(e, v) ==
    IF IsMatcher(e) THEN matchResponseValueMatcher(e, v)
    ELSE IF IsObj(e) THEN comparePartialResponseObject(e, v)
    ELSE IF IsArr(e) THEN comparePartialResponseArray(e, v)
    ELSE e = v

-----------------------------------------------------------------------------
(* The exact mode: matchers are replaced by the values they match, and the result
   is compared with the answer as a whole. *)

materializeExpectedMatchersInObjectField(e, v, k) ==
    LET exists == k \in DOMAIN v.o
    IN  IF IsMatcher(e)
        THEN IF /\ exists
                /\ IF KeyOf(e) = "$present" THEN validateBooleanMatcherArgument(e)
                   ELSE matchResponseValueMatcher(e, v.o[k])
             THEN v.o[k] ELSE Failed
        ELSE IF ~responseTemplateContainsSpecialMatcher(e) THEN e
        ELSE IF exists THEN materializeExpectedMatchers(e, v.o[k]) ELSE Failed

\* Fault: the fields of the answer that are not expected are taken over.
materializeOverActual(e, v) ==
    IF ~IsObj(v) THEN Failed
    ELSE LET fields == [k \in DOMAIN e.o \cup DOMAIN v.o |->
                           IF k \in DOMAIN e.o
                           THEN materializeExpectedMatchersInObjectField(e.o[k], v, k)
                           ELSE v.o[k]]
         IN  AllOrFailed(fields, Obj(fields))

materializeExpectedMatchersInObject(e, v) ==
    IF ~IsObj(v) THEN Failed
    ELSE LET fields == [k \in DOMAIN e.o |->
                           materializeExpectedMatchersInObjectField(e.o[k], v, k)]
         IN  AllOrFailed(fields, Obj(fields))

materializeExpectedMatchersInArray(e, v) ==
    LET items == [i \in DOMAIN e.a |->
                     IF ~responseTemplateContainsSpecialMatcher(e.a[i]) THEN e.a[i]
                     ELSE IF ~IsArr(v) THEN Failed
                     ELSE IF i > Len(v.a) THEN Failed
                     ELSE materializeExpectedMatchers(e.a[i], v.a[i])]
    IN  AllOrFailed(items, Arr(items))

materializeExpectedMatchers(e, v) ==
    IF IsMatcher(e) THEN IF matchResponseValueMatcher(e, v) THEN v ELSE Failed
    ELSE IF IsObj(e) THEN materializeExpectedMatchersInObject(e, v)
    ELSE IF IsArr(e) THEN materializeExpectedMatchersInArray(e, v)
    ELSE e

\* Two JSON values, without protobuf messages in them.
compareNormalizedResponses(e, v) == e = v

\* No answer equals Failed.
matchExpectedJSONExact(e, v) ==
    compareNormalizedResponses(materializeExpectedMatchers(e, v), v)

matchExpectedJSONPartial(e, v) == comparePartialResponseValue(e, v)

MatchExpectedJSON(e, v, mode) ==
    IF mode = "exact" THEN matchExpectedJSONExact(e, v) ELSE matchExpectedJSONPartial(e, v)

-----------------------------------------------------------------------------
(* The runner's way: what is expected is decoded and normalised by the step's handler,
   as the answer is.  Three handlers: one that keeps JSON as it is ("json", with
   DecodeExpectedJSON), one that decodes with encoding/json into an empty interface
   ("float"), both of a fixture's author, and CallHandler ("http"), of whose Response
   the headers and cookies are left out. *)

Handlers == {"json", "float", "http"}

GoFloat(x) == [f |-> x]
GoInt(x) == [i |-> x]

\* encoding/json into an empty interface.
Decoded(j) ==
    IF IsObj(j) THEN Obj([k \in DOMAIN j.o |-> Decoded(j.o[k])])
    ELSE IF IsArr(j) THEN Arr([i \in DOMAIN j.a |-> Decoded(j.a[i])])
    ELSE IF IsNumber(j) THEN GoFloat(FloatText[j.s]) ELSE j

FieldOrNull(j, k) == IF k \in DOMAIN j.o THEN j.o[k] ELSE Null

\* DecodeStrictJSON into a Response: unknown fields are refused, null changes nothing,
\* and an int takes no fraction.
DecodeHTTPResponse(j) ==
    LET zero == [response |-> [status |-> GoInt("0"), body |-> Null]]
        status == FieldOrNull(j, "status")
    IN  IF j = Null THEN zero
        ELSE IF ~IsObj(j) \/ ~(DOMAIN j.o \subseteq {"status", "body"}) THEN Failed
        ELSE IF status # Null /\ ~(IsNumber(status) /\ status.s # "200.0") THEN Failed
        ELSE [response |-> [status |-> IF status = Null THEN GoInt("0") ELSE GoInt(status.s),
                            body |-> Decoded(FieldOrNull(j, "body"))]]

DecodeExpectedResponse(h, j) ==
    CASE h = "json" -> j [] h = "float" -> Decoded(j) [] h = "http" -> DecodeHTTPResponse(j)

\* A body that is nil is left out.
NormalizeHTTPResponse(typed) ==
    Obj([k \in {"status"} \cup (IF typed.body = Null THEN {} ELSE {"body"}) |-> typed[k]])

NormalizeResponse(h, g) == IF h = "http" THEN NormalizeHTTPResponse(g.response) ELSE g

\* json.Marshal, decoded again with json.Number.  These values have no way to fail.
responseTemplateActualView(n) ==
    IF "f" \in DOMAIN n THEN Scalar(n.f)
    ELSE IF "i" \in DOMAIN n THEN Scalar(n.i)
    ELSE IF IsObj(n) THEN Obj([k \in DOMAIN n.o |-> responseTemplateActualView(n.o[k])])
    ELSE IF IsArr(n) THEN Arr([i \in DOMAIN n.a |-> responseTemplateActualView(n.a[i])])
    ELSE n

\* What the loader leaves in the case: the JSON, or what the handler decodes.
mapSuccessAssertResponse(h, e, mode) ==
    IF mode = "partial" \/ responseTemplateContainsSpecialMatcher(e) THEN e
    ELSE DecodeExpectedResponse(h, e)

\* Fault: the materialised response does not go through the handler.
assertExactWithoutHandler(h, e, n) ==
    compareNormalizedResponses(materializeExpectedMatchers(e, responseTemplateActualView(n)), n)

\* json.Marshal of the materialised response is the response: its numbers keep their text.
assertExactResponseWithMatchers(h, e, n) ==
    LET materialized == materializeExpectedMatchers(e, responseTemplateActualView(n))
        decoded == DecodeExpectedResponse(h, materialized)
    IN  /\ materialized # Failed
        /\ decoded # Failed
        /\ compareNormalizedResponses(NormalizeResponse(h, decoded), n)

assertPartialResponseMatch(e, n) ==
    comparePartialResponseValue(e, responseTemplateActualView(n))

\* n is the answer, normalised.
assertSuccessfulResponseMatch(h, e, n, mode) ==
    IF mode = "partial" THEN assertPartialResponseMatch(e, n)
    ELSE IF responseTemplateContainsSpecialMatcher(e) THEN assertExactResponseWithMatchers(h, e, n)
    ELSE compareNormalizedResponses(NormalizeResponse(h, e), n)

\* Without message_contains (CaseRun).
assertSuccessfulCaseResult(h, e, g, mode) ==
    /\ e # Null \/ mode = "partial"
    /\ assertSuccessfulResponseMatch(h, e, NormalizeResponse(h, g), mode)

-----------------------------------------------------------------------------
(* internal/jsonsubset: no matchers, and an array is a prefix. *)

matchScalar(v, e) == v = e

matchObject(v, e) ==
    /\ IsObj(v)
    /\ \A k \in DOMAIN e.o : k \in DOMAIN v.o /\ Match(v.o[k], e.o[k])

matchArray(v, e) ==
    /\ IsArr(v)
    /\ Len(v.a) >= Len(e.a)
    /\ \A i \in DOMAIN e.a : Match(v.a[i], e.a[i])

Match(v, e) ==
    IF IsObj(e) THEN matchObject(v, e)
    ELSE IF IsArr(e) THEN matchArray(v, e)
    ELSE matchScalar(v, e)

-----------------------------------------------------------------------------
(* The answer grows by one field of one of its objects, or by one item at the end
   of one of its arrays. *)

WithField(v) ==
    IF IsObj(v)
    THEN {Obj([k \in DOMAIN v.o \cup {key} |-> IF k = key THEN new ELSE v.o[k]]) :
              key \in Keys \ DOMAIN v.o, new \in NewValues}
         \cup UNION {{Obj([v.o EXCEPT ![k] = w]) : w \in WithField(v.o[k])} : k \in DOMAIN v.o}
    ELSE IF IsArr(v)
    THEN UNION {{Arr([v.a EXCEPT ![i] = w]) : w \in WithField(v.a[i])} : i \in DOMAIN v.a}
    ELSE {}

WithItem(v) ==
    IF IsArr(v)
    THEN {Arr(Append(v.a, new)) : new \in NewValues}
         \cup UNION {{Arr([v.a EXCEPT ![i] = w]) : w \in WithItem(v.a[i])} : i \in DOMAIN v.a}
    ELSE IF IsObj(v)
    THEN UNION {{Obj([v.o EXCEPT ![k] = w]) : w \in WithItem(v.o[k])} : k \in DOMAIN v.o}
    ELSE {}

NoResponse == [heap |-> <<>>, root |-> Invalid]

\* A comparison of JSON values, or a Go value.
Init ==
    /\ grown = FALSE
    /\ \/ expected \in Templates /\ actual \in Answers /\ response = NoResponse
       \/ expected = Null /\ actual = Null /\ response \in Responses

Grow(more) ==
    /\ ~grown
    /\ grown' = TRUE
    /\ actual' \in more
    /\ UNCHANGED <<expected, response>>

Next == Grow(WithField(actual)) \/ Grow(WithItem(actual))

Spec == Init /\ [][Next]_vars

-----------------------------------------------------------------------------
(* A reference: the template taken apart into its parts, each with its path. *)

Field(k) == [field |-> k]
Item(i) == [item |-> i]

Prefixed(step, parts) == {<<<<step>> \o p[1], p[2]>> : p \in parts}

\* Every value inside a template, the template included, with the path to it.
Parts(e) ==
    {<<<<>>, e>>} \cup
        IF IsMatcher(e) \/ IsScalar(e) THEN {}
        ELSE IF IsObj(e) THEN UNION {Prefixed(Field(k), Parts(e.o[k])) : k \in DOMAIN e.o}
        ELSE UNION {Prefixed(Item(i), Parts(e.a[i])) : i \in DOMAIN e.a}

Missing == [missing |-> TRUE]

\* The value at a path of v.
At(v, path) ==
    IF path = <<>> THEN v
    ELSE LET step == Head(path)
         IN  IF "field" \in DOMAIN step
             THEN IF IsObj(v) /\ step.field \in DOMAIN v.o
                  THEN At(v.o[step.field], Tail(path)) ELSE Missing
             ELSE IF IsArr(v) /\ step.item \in DOMAIN v.a
                  THEN At(v.a[step.item], Tail(path)) ELSE Missing

IsFieldPath(path) == path # <<>> /\ "field" \in DOMAIN path[Len(path)]

\* What one part of the template asks of the value found at its path; same compares
\* two scalars there.
Satisfied(part, path, v, same(_, _, _)) ==
    LET found == At(v, path)
    IN  IF IsMatcher(part) /\ KeyOf(part) \in {"$absent", "$present"}
        THEN /\ IsFieldPath(path) /\ Argument(part) = Scalar("true")
             /\ (found = Missing) = (KeyOf(part) = "$absent")
        ELSE /\ found # Missing
             /\ IF IsMatcher(part) THEN matchResponseValueMatcher(part, found)
                ELSE IF IsObj(part) THEN IsObj(found)
                ELSE IF IsArr(part) THEN IsArr(found) /\ Len(found.a) = Len(part.a)
                ELSE IsScalar(found) /\ same(path, part, found)

AllSatisfiedBy(e, v, same(_, _, _)) == \A p \in Parts(e) : Satisfied(p[2], p[1], v, same)

SameText(path, x, y) == x = y

AllSatisfied(e, v) == AllSatisfiedBy(e, v, SameText)

HasAbsent(e) == \E p \in Parts(e) : IsMatcher(p[2]) /\ KeyOf(p[2]) = "$absent"

\* No object of the answer has a field the template does not have.
NothingMore(e, v) ==
    \A p \in Parts(e) :
        IsObj(p[2]) /\ ~IsMatcher(p[2]) => DOMAIN At(v, p[1]).o \subseteq DOMAIN p[2].o

\* Numbers that a handler decodes into float64 are the same if their values are.
SameNumber(path, x, y) ==
    \/ x = y
    \/ IsNumber(x) /\ IsNumber(y) /\ FloatText[x.s] = FloatText[y.s]

\* The status is an int, the body is not.
SameInResponse(path, x, y) ==
    IF path = <<Field("status")>> THEN x = y ELSE SameNumber(path, x, y)

SatisfiedAsDecoded(h, e, v) ==
    CASE h = "json" -> AllSatisfied(e, v)
      [] h = "float" -> AllSatisfiedBy(e, v, SameNumber)
      [] h = "http" -> AllSatisfiedBy(e, v, SameInResponse)

\* The fields of a Response that a template leaves open: a status of its zero value, no
\* body.  A matcher stands for the whole response.
Completed(h, e) ==
    LET given == IF e = Null THEN Obj(<<>>) ELSE e
        status == IF FieldOrNull(given, "status") = Null THEN Scalar("0") ELSE given.o["status"]
    IN  IF h # "http" \/ IsMatcher(e) \/ ~IsObj(given) THEN e
        ELSE Obj([k \in {"status"} \cup {k \in DOMAIN given.o : given.o[k] # Null} |->
                    IF k = "status" THEN status ELSE given.o[k]])

\* The answers that a step with the handler can have: any JSON, or what an HTTP server
\* sends.
AnswerOf(h, j) ==
    IF h = "http" /\ ~(IsObj(j) /\ FieldOrNull(j, "status") = Scalar("200")) THEN Failed
    ELSE DecodeExpectedResponse(h, j)

-----------------------------------------------------------------------------
(* References for GoValues: the cells as a graph, and a way through a value. *)

\* The pointers and interfaces inside a value, up to the next pointer.  If shown, only
\* those under exported fields.
RECURSIVE Inside(_, _)
Inside(v, shown) ==
    CASE v.kind = "pointer" -> {v}
      [] v.kind = "interface" -> {v} \cup IF v.message THEN {} ELSE Inside(v.of, shown)
      [] v.kind \in {"slice", "map"} -> UNION {Inside(v.items[i], shown) : i \in DOMAIN v.items}
      [] v.kind = "struct" -> UNION {Inside(f.v, shown) : f \in {f \in ToSet(v.fields) : f.exported \/ ~shown}}
      [] OTHER -> {}

Top == "top"    \* the value returned, beside the cells

CellInside(r, a, shown) == Inside(IF a = Top THEN r.root ELSE r.heap[a], shown)

\* The cells that pointers lead to from one cell, and from some cells in any number of
\* steps.
PointedTo(r, a, shown) ==
    {b \in DOMAIN r.heap : Pointer(b) \in CellInside(r, a, shown)}

RECURSIVE Behind(_, _, _)
Behind(r, from, shown) ==
    LET next == from \cup UNION {PointedTo(r, a, shown) : a \in from}
    IN  IF next = from THEN from ELSE Behind(r, next, shown)

Reached(r, shown) == Behind(r, {Top}, shown)

Held(r, shown) == UNION {CellInside(r, a, shown) : a \in Reached(r, shown)}

Cyclic(r) ==
    \E a \in Reached(r, TRUE) \ {Top} : a \in Behind(r, PointedTo(r, a, TRUE), TRUE)

\* Every value of the response that can be read by a path has a name of its own, and no
\* map of another key type than string is on the way.
Readable(v) ==
    /\ v.kind = "map" => v.keys = "string"
    /\ v.kind = "struct" =>
          \A i, j \in DOMAIN v.fields :
              i # j => v.fields[i].tag \notin {v.fields[j].name, v.fields[j].tag} \ {""}

Segment(step) == IF "field" \in DOMAIN step THEN step.field ELSE IndexText[step.item]

Read(r, path) == resolveTemplateReference(r.heap, r.root, path)
ViewOf(r, v) == normalizeProtoMessagesInValue(r.heap, v)

\* A path that ends at a message or inside one.
InMessage(r, path) ==
    \E n \in 0..Len(path) : isProtoMessageValue(Read(r, SubSeq(path, 1, n)))

\* A path from a message to the member of a oneof, by the member's proto name.
IsOneofPath(r, path) ==
    LET owner == Read(r, Front(path))
    IN  /\ path # <<>> /\ isProtoMessageValue(owner) /\ ~isNilValue(owner)
        /\ \E f \in OneofMembers(r.heap, ToSet(r.heap[owner.to].fields)) : f.proto = Last(path)

-----------------------------------------------------------------------------
(* Properties. *)

\* normalizeProtoMessagesInPointer "protects the traversal from loops": the walk of a
\* response with shared cells and cycles ends, and fails exactly where a cycle is
\* reached through exported fields or an interface of a message type is nil.  The
\* search that decides whether a view is made finds every message, also one that
\* only a cell inside a cycle or an unexported field leads to.
ViewFollowsReachability ==
    LET r == response
    IN  /\ ViewOf(r, r.root) = Failed <=>
              Cyclic(r) \/ MessageInterface(Invalid) \in Held(r, TRUE)
        /\ containsProtoMessage(r.heap, r.root) <=>
              \E v \in Held(r, FALSE) : isProtoMessageValue(v)


\* README: in partial mode "object fields from assert.response must match, and extra
\* object fields in the actual response are allowed".  The recursive comparison
\* accepts an answer exactly when each part of the template is satisfied where it
\* stands.
PartialIsPartwise ==
    matchExpectedJSONPartial(expected, actual) <=> AllSatisfied(expected, actual)

\* The two modes differ in one thing only: what exact accepts is what partial
\* accepts without a surplus field, and exact has no marker of absence.
ExactIsClosedPartial ==
    matchExpectedJSONExact(expected, actual) <=>
        /\ ~HasAbsent(expected)
        /\ matchExpectedJSONPartial(expected, actual)
        /\ NothingMore(expected, actual)

\* The runner's verdict (assertSuccessfulCaseResult) on every response that the loader
\* lets into a case, with every handler, against each part of the template.  Partial
\* compares texts, whatever the handler makes of numbers.  Exact refuses a nil response;
\* beside that what is expected is satisfied as the handler decodes it, with the fields
\* of a typed response that it leaves open at zero, and nothing more is there.  It does
\* not matter whether a matcher sends the comparison through materialisation and a
\* second decoding or not.
RunnerVerdictIsPartwise ==
    \A h \in Handlers :
        LET g == AnswerOf(h, actual)
            view == responseTemplateActualView(NormalizeResponse(h, g))
            whole == Completed(h, expected)
            accepted(mode) == assertSuccessfulCaseResult(
                                  h, mapSuccessAssertResponse(h, expected, mode), g, mode)
        IN  g # Failed =>
              /\ accepted("partial") <=> AllSatisfied(expected, view)
              /\ mapSuccessAssertResponse(h, expected, "exact") # Failed =>
                    (accepted("exact") <=>
                        /\ h # "http" => expected # Null
                        /\ ~HasAbsent(expected)
                        /\ SatisfiedAsDecoded(h, whole, view)
                        /\ NothingMore(whole, view))

\* A partial assertion (comparePartialResponseObject) survives a service that adds
\* fields to its answers, unless it asks for the absence of one.  The subset match of
\* mock server and probe survives new items of arrays as well.
FixturesSurviveGrowth ==
    [][ /\ /\ actual' \in WithField(actual)
           /\ ~HasAbsent(expected)
           /\ matchExpectedJSONPartial(expected, actual)
           => matchExpectedJSONPartial(expected, actual')
        /\ Match(actual, expected) => Match(actual', expected) ]_vars
=============================================================================
