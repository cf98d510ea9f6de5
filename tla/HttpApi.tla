------------------------------- MODULE HttpApi -------------------------------
(***************************************************************************)
(* The system under test of the example httpserver: an HTTP API with       *)
(* sessions, as operators over its state.                                  *)
(*                                                                         *)
(* An HTTP request is a record of method, path, payload, the cookies of    *)
(* its Cookie header in order, and its other headers; an answer is a       *)
(* status, the Set-Cookie list, the headers, the body and whether its      *)
(* content type is JSON.  A payload tells whether the bytes are one JSON   *)
(* object, and its fields.  sessions maps session ids to e-mail addresses. *)
(***************************************************************************)
EXTENDS Integers, Sequences, FiniteSetsExt

sessionCookieName == "session_id"
csrfCookieName == "csrf_token"
csrfHeaderName == "X-CSRF-Token"
sessionIssuedHeader == "X-Session-Issued"
sessionID == "session-1"
csrfToken == "csrf-1"
account == [email |-> "admin", password |-> "correct"]

\* A field, header, cookie or body that is not there.
Absent == "absent"

\* http.Cookie, without the attributes that nothing here reads.
HttpCookie == [name : STRING, value : STRING, maxAge : Int]
Cookie(name, value, maxAge) == [name |-> name, value |-> value, maxAge |-> maxAge]

\* (*http.Request).Cookie: the first cookie of that name counts.
requestCookie(request, name) ==
    LET named == {i \in DOMAIN request.cookies : request.cookies[i].name = name}
    IN  IF named = {} THEN Absent ELSE request.cookies[Min(named)].value

requestHeader(request, name) ==
    IF name \in DOMAIN request.headers THEN request.headers[name] ELSE ""

-----------------------------------------------------------------------------

\* The checks of a route in their order: the status of the first that fails.
firstFailure(checks) ==
    LET failed == {i \in DOMAIN checks : checks[i][1]}
    IN  IF failed = {} THEN 200 ELSE checks[Min(failed)][2]

writeJSON(status, body) ==
    [status |-> status, cookies |-> <<>>, headers |-> <<>>, json |-> TRUE, body |-> body]

\* DecodeStrictJSON: one JSON object and no field beside the known ones.
DecodeStrictJSON(payload, known) ==
    payload.json /\ \A field \in {"email", "password"} \ known : payload[field] = Absent

decodeLoginRequest(payload) == DecodeStrictJSON(payload, {"email", "password"})

decodeUpdateEmailRequest(payload) == DecodeStrictJSON(payload, {"email"})

authenticatedAccount(sessions, request) ==
    requestCookie(request, sessionCookieName) \in DOMAIN sessions

validCSRF(request) ==
    LET cookie == requestCookie(request, csrfCookieName)
    IN  cookie # Absent /\ requestHeader(request, csrfHeaderName) = cookie

handleLogin(sessions, request) ==
    LET status == firstFailure(<<
            <<request.method # "POST", 405>>,
            <<~decodeLoginRequest(request.payload), 400>>,
            <<request.payload.email # account.email, 401>>,
            <<request.payload.password # account.password, 401>> >>)
        accepted == [writeJSON(200, account.email) EXCEPT
            !.cookies = << Cookie(sessionCookieName, sessionID, 0),
                           Cookie(csrfCookieName, csrfToken, 0) >>,
            !.headers = [h \in {sessionIssuedHeader} |-> <<"true">>]]
    IN  IF status = 200
        THEN [answer |-> accepted,
              sessions |-> [s \in DOMAIN sessions \cup {sessionID} |->
                               IF s = sessionID THEN account.email ELSE sessions[s]]]
        ELSE [answer |-> writeJSON(status, "error"), sessions |-> sessions]

handleMe(sessions, request) ==
    LET status == firstFailure(<<
            <<request.method # "GET", 405>>,
            <<~authenticatedAccount(sessions, request), 401>> >>)
    IN  [answer |-> writeJSON(status,
                        IF status = 200
                        THEN sessions[requestCookie(request, sessionCookieName)]
                        ELSE "error"),
         sessions |-> sessions]

handleProfileEmail(sessions, request) ==
    LET status == firstFailure(<<
            <<request.method # "POST", 405>>,
            <<~authenticatedAccount(sessions, request), 401>>,
            <<~validCSRF(request), 403>>,
            <<~decodeUpdateEmailRequest(request.payload), 400>> >>)
    IN  [answer |-> writeJSON(status, IF status = 200 THEN request.payload.email ELSE "error"),
         sessions |-> IF status = 200
                      THEN [sessions EXCEPT ![requestCookie(request, sessionCookieName)] =
                                request.payload.email]
                      ELSE sessions]

handleReport(sessions, request) ==
    [answer |-> IF request.method = "GET"
                THEN [writeJSON(200, "report") EXCEPT !.json = FALSE]
                ELSE writeJSON(405, "error"),
     sessions |-> sessions]

ServeHTTP(sessions, request) ==
    CASE request.path = "/login" -> handleLogin(sessions, request)
      [] request.path = "/me" -> handleMe(sessions, request)
      [] request.path = "/profile/email" -> handleProfileEmail(sessions, request)
      [] request.path = "/report.xlsx" -> handleReport(sessions, request)
      [] OTHER -> [answer |-> writeJSON(404, "error"), sessions |-> sessions]
=============================================================================
