----------------------------- MODULE HttpSession -----------------------------
(***************************************************************************)
(* CallHandler of httpserver: the HTTP calls that the steps of one case    *)
(* make to an in-process handler, with the cookie jar they share and the   *)
(* CSRF header filled from it.  The handler is the API of HttpApi, or one  *)
(* that may answer anything.                                               *)
(*                                                                         *)
(* A call that fails does not end the calls: an await step calls again,    *)
(* and cleanup steps follow (CaseRun, AwaitRetry).  A case runs its steps  *)
(* one at a time, so a call is one step here.                              *)
(***************************************************************************)
EXTENDS HttpApi, SequencesExt

CONSTANTS
    Cases,        \* cases: a harness, the options, and the requests the steps may make
    Answers,      \* the answers of the handler that may answer anything
    CookieNames,  \* the cookie names in the order of sort.Strings
    MaxCalls      \* bound on the calls followed

ASSUME MaxCallsAssumption == MaxCalls \in Nat
\* A request has one CSRF block or none.
ASSUME CasesAssumption ==
    \A c \in Cases : /\ c.jar \in BOOLEAN
                     /\ \A request \in c.requests : \A s, t \in request.csrf : s = t
ASSUME AnswersAssumption == \A a \in Answers : a.cookies \in Seq(HttpCookie)
\* CookieNames has every name that an answer sets.
ASSUME CookieNamesAssumption ==
    /\ CookieNames \in Seq(STRING)
    /\ \A i, j \in DOMAIN CookieNames : CookieNames[i] = CookieNames[j] => i = j
    /\ {sessionCookieName, csrfCookieName} \subseteq Range(CookieNames)
    /\ \A a \in Answers : {c.name : c \in Range(a.cookies)} \subseteq Range(CookieNames)

VARIABLES
    case,      \* the case
    jar,       \* jar.cookies, a map from names to cookies
    sessions,  \* the sessions of the API
    log        \* the calls made: the request and, if it was served, what came of it

vars == <<case, jar, sessions, log>>

\* NewCaseHarness: an API and a jar of its own for each case.
Init ==
    /\ case \in Cases
    /\ jar = <<>>
    /\ sessions = <<>>
    /\ log = <<>>

-----------------------------------------------------------------------------
(* The cookie jar. *)

\* AddCookie puts the name and the value of a cookie into the Cookie header.
sentCookie(c) == [name |-> c.name, value |-> c.value]

\* attach: the stored cookies in the order of their names.
attach(cookies) ==
    LET added[n \in 0 .. Len(CookieNames)] ==
            IF n = 0 THEN <<>>
            ELSE IF CookieNames[n] \in DOMAIN cookies
            THEN Append(added[n - 1], sentCookie(cookies[CookieNames[n]]))
            ELSE added[n - 1]
    IN  added[Len(CookieNames)]

\* Fault: deletions are made after the cookies of the answer are stored.
storeDeletesLast(cookies, set) ==
    LET stored == FoldLeft(LAMBDA kept, c : (c.name :> c) @@ kept, cookies, set)
    IN  Restrict(stored, DOMAIN stored \ {c.name : c \in {d \in Range(set) : d.maxAge < 0}})

\* A map with the value of one key assigned.
Put(map, key, value) == [k \in DOMAIN map \cup {key} |-> IF k = key THEN value ELSE map[k]]

\* One Set-Cookie: a negative max-age deletes.
storeCookie(cookies, c) ==
    IF c.maxAge < 0 THEN Restrict(cookies, DOMAIN cookies \ {c.name})
    ELSE Put(cookies, c.name, c)

\* store: each Set-Cookie in turn.
store(cookies, set) ==
    LET kept[n \in 0 .. Len(set)] ==
            IF n = 0 THEN cookies ELSE storeCookie(kept[n - 1], set[n])
    IN  kept[Len(set)]

-----------------------------------------------------------------------------
(* The request. *)

\* The options, and the handler they make: the last of a kind counts, and a blank base
\* URL is the default one.
defaultBaseURL == "default"
WithBaseURL(url) == [baseURL |-> url]
WithBodyNormalizer(normalizer) == [bodyNormalizer |-> normalizer]

NewCallHandler(options) ==
    LET config == FoldLeft(LAMBDA c, option : option @@ c,
                           [baseURL |-> defaultBaseURL, bodyNormalizer |-> "nil"], options)
    IN  IF config.baseURL = "" THEN [config EXCEPT !.baseURL = defaultBaseURL] ELSE config

Config == NewCallHandler(case.options)

\* buildHTTPRequest refuses a request with any fault of method, path or bodies,
\* and every request when the base URL lacks a scheme or a host.
buildHTTPRequestFails(request) == request.faults # {} \/ Config.baseURL = "no host"

\* The jar of a harness that has one.
resolveCookieJar == IF case.jar THEN {jar} ELSE {}

\* applyCSRFHeader refuses rather than replace a header the fixture sets.
applyCSRFHeaderFails(request) ==
    \E csrf \in request.csrf :
        \/ csrf.cookie = "" \/ csrf.header = ""
        \/ csrf.header \in DOMAIN request.headers
        \/ \A cookies \in resolveCookieJar : csrf.cookie \notin DOMAIN cookies

\* The call fails before the handler is asked.
Refused(request) ==
    \/ buildHTTPRequestFails(request)
    \/ request.use_cookies /\ resolveCookieJar = {}
    \/ applyCSRFHeaderFails(request)
    \/ case.handler = "nil"

\* The headers of the request with the token copied from the jar.
csrfHeaders(request) ==
    LET filled == {csrf.header : csrf \in request.csrf}
        value(h) == jar[(CHOOSE csrf \in request.csrf : csrf.header = h).cookie].value
    IN  [h \in DOMAIN request.headers \cup filled |->
            IF h \in filled THEN value(h) ELSE request.headers[h]]

\* The request as the handler sees it: the jar's cookies follow the fixture's own.
httpRequest(request) ==
    [method |-> request.method, path |-> request.path, payload |-> request.payload,
     cookies |-> request.cookies \o (IF request.use_cookies THEN attach(jar) ELSE <<>>),
     headers |-> csrfHeaders(request)]

-----------------------------------------------------------------------------
(* The response. *)

Nil == "nil"

\* A JSON body that does not decode, or has data behind it, is an error; a JSON
\* null is present and has the value nil.
decodeHTTPResponseBody(answer) ==
    [error |-> answer.json /\ answer.body \in {"broken", "trailing"},
     present |-> answer.body # "",
     value |-> IF answer.body = "" \/ (answer.json /\ answer.body = "null")
               THEN Nil ELSE answer.body]

\* The example's body normalizer: what request.response_body asks for.
NormalizeHTTPBody(request) ==
    [error |-> request.response_body = "malformed",
     handled |-> request.response_body = "xlsx"]

normalizeHTTPResponseBody(request, answer) ==
    LET normalizer == NormalizeHTTPBody(request)
        hooked == Config.bodyNormalizer # "nil"
    IN  IF hooked /\ normalizer.error THEN [error |-> TRUE, present |-> FALSE, value |-> Nil]
        ELSE IF hooked /\ normalizer.handled THEN [error |-> FALSE, present |-> TRUE, value |-> "summary"]
        ELSE decodeHTTPResponseBody(answer)

\* A requested header that is absent is an empty list, a blank name is passed over.
captureHTTPHeaders(answer, names) ==
    [h \in names \ {""} |-> IF h \in DOMAIN answer.headers THEN answer.headers[h] ELSE <<>>]

normalizeHTTPCookie(cookie) == [value |-> cookie.value, max_age |-> cookie.maxAge]

\* Fault: the first of two cookies of a name is captured.
captureHTTPCookiesFirst(set, names) ==
    FoldLeft(LAMBDA captured, c : IF c.name \in names
                                  THEN captured @@ (c.name :> normalizeHTTPCookie(c))
                                  ELSE captured,
             <<>>, set)

captureHTTPCookies(set, names) ==
    LET captured[n \in 0 .. Len(set)] ==
            IF n = 0 THEN <<>>
            ELSE IF set[n].name \in names
            THEN Put(captured[n - 1], set[n].name, normalizeHTTPCookie(set[n]))
            ELSE captured[n - 1]
    IN  captured[Len(set)]

\* A max-age of zero is left out.
normalizeCookiesForResponse(cookies) ==
    [name \in DOMAIN cookies |->
        Restrict(cookies[name],
                 {"value"} \cup IF cookies[name].max_age # 0 THEN {"max_age"} ELSE {})]

\* NormalizeResponse: status always, the other fields when they are not empty.
NormalizeResponse(response) ==
    LET present == {"status"}
            \cup (IF DOMAIN response.headers # {} THEN {"headers"} ELSE {})
            \cup (IF DOMAIN response.cookies # {} THEN {"cookies"} ELSE {})
            \cup (IF response.body # Nil THEN {"body"} ELSE {})
        normalized == [response EXCEPT !.cookies = normalizeCookiesForResponse(@)]
    IN  Restrict(normalized, present)

-----------------------------------------------------------------------------
(* Invoke. *)

\* What the handler answers, and the sessions it then has.
Serve(sent) ==
    IF case.handler = "api" THEN {ServeHTTP(sessions, sent)}
    ELSE {[answer |-> a, sessions |-> sessions] : a \in Answers}

InvokeRefused ==
    /\ Len(log) < MaxCalls
    /\ \E request \in case.requests :
          /\ Refused(request)
          /\ log' = Append(log, [request |-> request, served |-> FALSE, failed |-> TRUE])
    /\ UNCHANGED <<case, jar, sessions>>

\* Fault: the jar is filled only when the call succeeds.
StoredIfDecoded(request, answer, body) ==
    IF case.jar /\ ~body.error THEN store(jar, answer.cookies) ELSE jar

\* The jar takes the cookies of every answer, before the body is looked at.
Stored(request, answer, body) == IF case.jar THEN store(jar, answer.cookies) ELSE jar

\* What a step gets to see of an answer.
ResponseOf(request, answer, body) ==
    [status |-> answer.status,
     headers |-> captureHTTPHeaders(answer, request.capture_headers),
     cookies |-> captureHTTPCookies(answer.cookies, request.capture_cookies \ {""}),
     body |-> IF body.present THEN body.value ELSE Nil]

\* executeHTTPRequest and what Invoke does before it.
InvokeServed ==
    /\ Len(log) < MaxCalls
    /\ \E request \in case.requests :
          /\ ~Refused(request)
          /\ \E reply \in Serve(httpRequest(request)) :
                LET answer == reply.answer
                    body == normalizeHTTPResponseBody(request, answer)
                IN  /\ jar' = Stored(request, answer, body)
                    /\ sessions' = reply.sessions
                    /\ log' = Append(log, [request |-> request, served |-> TRUE,
                                 sent |-> httpRequest(request), answer |-> answer,
                                 failed |-> body.error,
                                 response |-> IF body.error THEN <<>>
                                              ELSE NormalizeResponse(ResponseOf(request, answer, body))])
    /\ UNCHANGED case

Next == InvokeRefused \/ InvokeServed

Spec == Init /\ [][Next]_vars
-----------------------------------------------------------------------------
(* Properties. *)

Served == {i \in DOMAIN log : log[i].served}

\* The Set-Cookies of all answers so far: a call and a place in its answer, in order.
AllSet == UNION {{<<i, j>> : j \in DOMAIN log[i].answer.cookies} : i \in Served}
SetAt(p) == log[p[1]].answer.cookies[p[2]]
Later(p, q) == p[1] < q[1] \/ (p[1] = q[1] /\ p[2] < q[2])

\* Those that no other of the same name follows.
LastSet == {p \in AllSet : \A q \in AllSet : Later(p, q) => SetAt(q).name # SetAt(p).name}

\* The jar (CookieJar.store, handler.go) has exactly the cookies whose last
\* Set-Cookie in the case did not delete them, each with that last value: whether
\* the calls used cookies, and whether they failed after the answer, is no matter.
JarIsLastSet ==
    LET stored == {p \in LastSet : SetAt(p).maxAge >= 0}
    IN  IF ~case.jar THEN jar = <<>>
        ELSE /\ DOMAIN jar = {SetAt(p).name : p \in stored}
             /\ \A p \in stored : jar[SetAt(p).name] = SetAt(p)

\* A request that relies on the jar alone for its cookies.
UsesJarOnly(request) == request.use_cookies /\ request.cookies = <<>>

\* Those of the first n calls that changed the session, told from what the callers got
\* to see, and the address the last of them left: a login gives the account's own, an
\* accepted update a new one.
Changes(n) ==
    {i \in Served : /\ i <= n
                    /\ log[i].answer.status = 200
                    /\ log[i].request.path \in {"/login", "/profile/email"}}

AddressAfter(n) ==
    LET i == Max(Changes(n))
    IN  IF log[i].request.path = "/login" THEN account.email
        ELSE log[i].request.payload.email

\* The steps of a case that leave cookies and token to the jar are in the session of
\* the last login (attach, store and applyCSRFHeader with the API), however the calls
\* between them failed: GET /me shows the address last set and is refused exactly when
\* no login was accepted; an update with the token of the jar is never forbidden, and
\* is accepted if its payload is right.
SessionFollowsHistory ==
    case.handler = "api" =>
        \A i \in Served : UsesJarOnly(log[i].request) =>
            LET request == log[i].request
                answer == log[i].answer
                loggedIn == Changes(i - 1) # {}
            IN  /\ request.path = "/me" /\ request.method = "GET" =>
                      IF loggedIn
                      THEN answer.status = 200 /\ answer.body = AddressAfter(i - 1)
                      ELSE answer.status = 401
                /\ request.path = "/profile/email" /\ request.method = "POST"
                   /\ [cookie |-> csrfCookieName, header |-> csrfHeaderName] \in request.csrf =>
                      /\ loggedIn
                      /\ answer.status = IF decodeUpdateEmailRequest(request.payload) THEN 200 ELSE 400

\* What a step captures of the cookies and what the jar holds after it are the same
\* (captureHTTPCookies, store): a captured cookie is stored with the captured value,
\* or is a deletion and is gone from the jar.
CapturedAgreesWithJar ==
    log # <<>> /\ case.jar =>
        LET call == Last(log)
        IN  call.served /\ "cookies" \in DOMAIN call.response =>
                \A name \in DOMAIN call.response.cookies :
                    LET captured == call.response.cookies[name]
                    IN  IF "max_age" \in DOMAIN captured /\ captured.max_age < 0
                        THEN name \notin DOMAIN jar
                        ELSE name \in DOMAIN jar /\ jar[name].value = captured.value
=============================================================================
