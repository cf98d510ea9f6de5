------------------------------ MODULE MCLoader ------------------------------
EXTENDS Loader

String(text) == [text |-> text, padded |-> FALSE]
Padded(text) == [text |-> text, padded |-> TRUE]

NoRetry == {}
Retry(timeout, interval, attempts) ==
    {[timeout_ms |-> timeout, interval_ms |-> interval, max_attempts |-> attempts]}

Step(id, kind, request, retry) ==
    [id |-> String(id), kind |-> String(kind), handler |-> String("h"),
     request |-> request, retry |-> retry]
Action(id) == Step(id, "action", "static", NoRetry)
Await(id) == Step(id, "await", "static", Retry(2, 1, 1))

AssertBlock(code, from, response, mode) ==
    [code |-> code, from |-> from, response |-> response, mode |-> mode]
PlainAssert == AssertBlock(Success, String(""), "valid", "")

Doc(name, steps, assert, literals) ==
    [known |-> TRUE, name |-> name, steps |-> steps, assert |-> assert, literals |-> literals]
PlainDoc(name) == Doc(String(name), <<Action("a")>>, PlainAssert, <<>>)

File(text, doc) == [readable |-> TRUE, text |-> text, doc |-> doc]

-----------------------------------------------------------------------------
(* One file. *)

One == <<3, Dot, JsoncExtension>>

Single(file_, calendar) ==
    [dirs |-> rootDir :> [readable |-> TRUE, entries |-> <<[name |-> One, isDir |-> FALSE]>>],
     files |-> Join(rootDir, One) :> file_,
     calendar |-> calendar]

\* Every text of up to five bytes, those of six without the byte that is like no
\* other, and documents among comments.
Bytes == {Quote, Backslash, Slash, Star, Newline}
Texts == UNION {[1 .. n -> Bytes \cup {"other"}] : n \in 0 .. 5} \cup [1 .. 6 -> Bytes]
Commented ==
    {before \o <<Document>> \o after :
        before \in {<<>>, <<Slash, Slash>>, <<Slash, Slash, Quote, Newline>>,
                    <<Slash, Star, Slash, Star, Slash>>, <<Slash, Star>>, <<Document>>},
        after \in {<<>>, <<Slash, Slash>>, <<Newline, Slash, Star, Quote, Star, Slash>>,
                   <<Slash, Star>>}}

TextSources ==
    {Single(File(text, PlainDoc("n")), FALSE) : text \in Texts \cup Commented}
    \cup {Single(File(text, PlainDoc("n")), TRUE) : text \in Commented}

\* Documents: each step in turn wrong in one way, two steps, every assert block.
OddSteps == {
    [Action("a") EXCEPT !.id = Padded("a")],
    [Action("a") EXCEPT !.id = String("")],
    [Action("a") EXCEPT !.kind = String("")],
    [Action("a") EXCEPT !.kind = String("assert")],
    [Action("a") EXCEPT !.handler = String("")],
    [Action("a") EXCEPT !.handler = Padded("h")],
    [Action("a") EXCEPT !.handler = String("g")],
    [Action("a") EXCEPT !.request = "missing"],
    [Action("a") EXCEPT !.request = "invalid"],
    [Action("a") EXCEPT !.request = "template"],
    [Action("a") EXCEPT !.retry = Retry(1, 1, 1)],
    [Await("a") EXCEPT !.retry = NoRetry],
    [Await("a") EXCEPT !.retry = Retry(0, 1, 1)],
    [Await("a") EXCEPT !.retry = Retry(1, 0, 1)],
    [Await("a") EXCEPT !.retry = Retry(1, 1, 0)]}
Pairs == {Action("a"), Await("a"), [Action("a") EXCEPT !.id = Padded("a")]}
         \X {Action("a"), [Await("a") EXCEPT !.id = Padded("a")], Await("b"),
             [Action("b") EXCEPT !.id = Padded("b")],
             Step("b", "cleanup", "template", NoRetry)}
StepLists == {<<>>} \cup {<<s>> : s \in OddSteps \cup {Action("a"), Await("a")}} \cup Pairs

Asserts == {AssertBlock(code, from, response, mode) :
    code \in {Success, "NotFound", "unknown"},
    from \in {String(""), String("a"), Padded("b"), String("z")},
    response \in {"missing", "null", "valid", "matcher", "invalid"},
    mode \in {"", "exact", "partial", "other"}}

DocSources ==
    {Single(File(<<Document>>, Doc(String("n"), steps, assert, <<>>)), FALSE) :
        steps \in StepLists, assert \in Asserts}
    \cup {Single(File(<<Document>>, [PlainDoc("") EXCEPT !.known = k]), FALSE) : k \in BOOLEAN}
    \cup {Single(File(<<Document>>, [PlainDoc("n") EXCEPT !.known = FALSE]), FALSE)}

\* Macros: offsets of up to two parts, one with a part outside a Duration and a sum
\* inside, and zones at and past their limits.
Parts == {[amount |-> a, unit |-> u] : a \in {-1, 1, 11}, u \in {"d", "h", "m"}}
         \cup {[amount |-> 1, unit |-> "?"]}
Offsets == {<<>>} \cup {<<p>> : p \in Parts} \cup (Parts \X Parts)
           \cup {<<[amount |-> 11, unit |-> "d"], [amount |-> -40, unit |-> "h"]>>}
Zone(s, h, m) == [sign |-> s, hours |-> h, minutes |-> m]
Zones == {{}, {Zone("+", 3, 30), Zone("-", 3, 30)}}
    \cup {{Zone(s, z[1], z[2])} : s \in {"+", "-"},
              z \in {<<3, 30>>, <<-1, 30>>, <<23, 59>>, <<24, 0>>, <<0, 60>>}}

Macro(kind, sign, parts, zone) ==
    [form |-> "macro", kind |-> kind, sign |-> sign, parts |-> parts, zone |-> zone]
NoMacro(form) == [Macro("date", "+", <<>>, {}) EXCEPT !.form = form]

Literals ==
    {Macro(kind, sign, parts, zone) : kind \in {"date", "timestamp", "rfc3339"},
        sign \in {"+", "-"}, parts \in Offsets, zone \in Zones}
    \cup {Macro("date", "?", <<[amount |-> 1, unit |-> "d"]>>, {})}
    \cup {NoMacro(form) : form \in {"plain", "open", "unknown"}}

MacroSources ==
    {Single(File(<<Document>>,
                 [PlainDoc("n") EXCEPT !.literals = <<[key |-> key, value |-> literal]>>]), TRUE) :
        key \in {"", dollarDateKey}, literal \in Literals}

-----------------------------------------------------------------------------
(* Trees: a.jsonc, the directory a with b.jsonc and a.jsonc, and a file that is  *)
(* no case.                                                                      *)

SubDir == <<3>>
Two == <<4, Dot, JsoncExtension>>
Other == <<4, Dot, 8>>

Tree(names, calendar, rootReadable, subReadable, broken) ==
    LET entry(name, isDir) == [name |-> name, isDir |-> isDir]
        sub == Join(rootDir, SubDir)
        content(path, name) == [File(<<Document>>, PlainDoc(name)) EXCEPT !.readable = path # broken]
        cases == <<Join(rootDir, One), Join(sub, One), Join(sub, Two)>>
    IN  [dirs |-> (rootDir :> [readable |-> rootReadable,
                               entries |-> <<entry(SubDir, TRUE), entry(One, FALSE),
                                             entry(Other, FALSE)>>])
                  @@ (sub :> [readable |-> subReadable,
                              entries |-> <<entry(One, FALSE), entry(Two, FALSE)>>]),
         files |-> [p \in Range(cases) \cup {Join(rootDir, Other)} |->
                       IF p = Join(rootDir, Other) THEN content(p, "none")
                       ELSE LET i == CHOOSE i \in DOMAIN cases : cases[i] = p
                            IN  content(p, names[i])],
         calendar |-> calendar]

TreeSources ==
    {Tree(names, calendar, root, sub, broken) :
        names \in [1 .. 3 -> {"m", "n", "o"}], calendar \in BOOLEAN, root \in BOOLEAN,
        sub \in BOOLEAN, broken \in {<<>>, Join(rootDir, One), Join(Join(rootDir, SubDir), Two)}}
    \cup {[dirs |-> rootDir :> [readable |-> TRUE, entries |-> <<[name |-> Other, isDir |-> FALSE]>>],
           files |-> Join(rootDir, Other) :> File(<<Document>>, PlainDoc("n")), calendar |-> FALSE],
          [Single(File(<<Document>>, PlainDoc("n")), FALSE) EXCEPT !.files = <<>>]}

MCFamilies == {TextSources, DocSources, MacroSources, TreeSources}
MCHandlers == {"h"}
=============================================================================
