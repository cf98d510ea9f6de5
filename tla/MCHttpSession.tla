---------------------------- MODULE MCHttpSession ----------------------------
EXTENDS HttpSession

Payload(json, email, password) == [json |-> json, email |-> email, password |-> password]
NoPayload == Payload(FALSE, Absent, Absent)
Credentials == Payload(TRUE, account.email, account.password)

\* A request with everything optional left out.
Plain(method, path, payload) ==
    [faults |-> {}, method |-> method, path |-> path, payload |-> payload,
     cookies |-> <<>>, headers |-> <<>>, use_cookies |-> FALSE, csrf |-> {},
     response_body |-> "none", capture_headers |-> {}, capture_cookies |-> {}]

Names == {sessionCookieName, csrfCookieName}
Token == [cookie |-> csrfCookieName, header |-> csrfHeaderName]
Manual(name, value) == << [name |-> name, value |-> value] >>

WithJar(request) == [request EXCEPT !.use_cookies = TRUE]
WithCsrf(request) == [request EXCEPT !.csrf = {Token}]

Login == [Plain("POST", "/login", Credentials) EXCEPT
             !.capture_headers = {sessionIssuedHeader, ""}, !.capture_cookies = Names \cup {""}]
Me == Plain("GET", "/me", NoPayload)
Update == Plain("POST", "/profile/email", Payload(TRUE, "new", Absent))

ApiRequests == {
    Login,
    [Login EXCEPT !.method = "GET"],
    [Login EXCEPT !.payload = NoPayload],
    [Login EXCEPT !.payload.password = "wrong"],
    [Login EXCEPT !.response_body = "malformed"],
    Me, WithJar(Me),
    [Me EXCEPT !.cookies = Manual(sessionCookieName, sessionID)],
    [WithJar(Me) EXCEPT !.cookies = Manual(sessionCookieName, "stale")],
    [Me EXCEPT !.faults = {"no path"}],
    WithCsrf(WithJar(Update)), WithCsrf(Update), WithJar(Update),
    [WithCsrf(WithJar(Update)) EXCEPT !.cookies = Manual(csrfCookieName, "stale")],
    [WithCsrf(WithJar(Update)) EXCEPT !.headers = csrfHeaderName :> "forged"],
    [WithCsrf(WithJar(Update)) EXCEPT !.payload = Credentials],
    [Plain("GET", "/report.xlsx", NoPayload) EXCEPT !.response_body = "xlsx"],
    Plain("GET", "/unknown", NoPayload)}

AnyRequests == {
    [Plain("GET", "/", NoPayload) EXCEPT !.capture_cookies = Names],
    WithCsrf(WithJar(Plain("GET", "/", NoPayload)))}

MCCases ==
    {[handler |-> "api", jar |-> TRUE, requests |-> ApiRequests,
      options |-> <<WithBaseURL("no host"), WithBodyNormalizer("report"), WithBaseURL("")>>],
     [handler |-> "any", jar |-> TRUE, requests |-> AnyRequests, options |-> <<>>]}
    \cup {[handler |-> h, jar |-> FALSE, requests |-> {Me, WithJar(Me), WithCsrf(Me)},
           options |-> <<WithBaseURL(url)>>] : h \in {"any", "nil"}, url \in {"", "no host"}}

SetCookies == {
    Cookie(sessionCookieName, "x", 0), Cookie(sessionCookieName, "y", 1),
    Cookie(sessionCookieName, "", -1),
    Cookie(csrfCookieName, "x", 0), Cookie(csrfCookieName, "", -1)}

MCAnswers ==
    {[writeJSON(200, "v") EXCEPT !.cookies = set] :
        set \in UNION {[1 .. n -> SetCookies] : n \in 0 .. 2}}
    \cup {[writeJSON(200, body) EXCEPT !.json = json, !.cookies = set] :
             body \in {"", "null", "broken", "trailing"}, json \in BOOLEAN,
             set \in {<<>>, <<Cookie(csrfCookieName, "y", 0)>>}}

MCCookieNames == <<csrfCookieName, sessionCookieName>>
=============================================================================
